---------------------------- MODULE CollapseProofs -----------------------------
(* Safety of the collapsible panels, for any number of panels and of calls.    *)
EXTENDS CollapseProps, SequenceTheorems, WellFoundedInduction, TLAPS

\* Of the handlers that wait for a panel's transition only the last can be its instance's.
HasOwn(s)    == \E k \in DOMAIN s : s[k].by = "own"
OwnIsLast(s) == \A k \in DOMAIN s : s[k].by = "own" => k = Len(s)
HasShow(s)   == \E k \in DOMAIN s : s[k].op = "show"
NoDead(s)    == \A k \in DOMAIN s : s[k].by # "dead"

FlagInv == \A p \in Panels : OwnIsLast(pending[p]) /\ (isTransitioning[p] <=> HasOwn(pending[p]))

\* Without dispose() a panel is moving exactly while a handler waits, and none will fail.
CalmInv ==
  ~config.disposes =>
    \A p \in Panels : NoDead(pending[p]) /\ (pending[p] = <<>> <=> class[p] # Moving)

\* A moving panel's trigger says where it is going.
TriggerInv ==
  ~(config.parent /\ config.marked) /\ ~config.disposes =>
    \A p \in Panels : /\ expanded[p] <=> class[p] = Shown \/ HasShow(pending[p])
                      /\ ~config.parent /\ class[p] = Moving => instance[p]

\* In an accordion that began closed every panel that is not closed has its instance, and the
\* flag of that instance is set while it moves.
OpenInv ==
  config.parent /\ config.open = {} /\ ~config.disposes /\ ~config.prevents =>
    /\ \A p \in Panels : /\ class[p] # Closed => instance[p]
                         /\ class[p] = Moving => isTransitioning[p]
    /\ \A p, q \in Panels : Opens(p) /\ Opens(q) => p = q

Inv == TypeOK /\ FlagInv /\ CalmInv /\ TriggerInv /\ OpenInv

--------------------------------------------------------------------------------
LEMMA LeastOf ==
  ASSUME NEW S \in SUBSET Nat, S # {}
  PROVE  First(S) \in S
<1>1. PICK x \in S : \A y \in S : <<y, x>> \notin OpToRel(<, Nat)
  BY NatLessThanWellFounded, WFMin
<1>2. \A y \in S : ~(y < x)
  BY <1>1 DEF OpToRel
<1>3. \A y \in S : x <= y
  BY <1>2
<1> QED BY <1>3 DEF First

LEMMA Classes ==
  /\ Closed # Moving /\ Closed # Shown /\ Moving # Shown
  /\ "show" \in Shown /\ "show" \notin Closed /\ "show" \notin Moving
  /\ "collapsing" \in Moving /\ "collapsing" \notin Closed /\ "collapsing" \notin Shown
BY DEF Closed, Moving, Shown

LEMMA StartingMoves ==
  ASSUME NEW q \in Panels, TypeOK
  PROVE  Starting(q) = Moving
<1>1. class[q] \in {Closed, Moving, Shown}
  BY DEF TypeOK
<1> QED BY <1>1 DEF Starting, Closed, Moving, Shown

LEMMA Enqueue ==
  ASSUME NEW s \in Seq(Handler), ~HasOwn(s), NEW h \in Handler, h.by = "own"
  PROVE  /\ Append(s, h) \in Seq(Handler) /\ Append(s, h) # <<>>
         /\ HasOwn(Append(s, h)) /\ OwnIsLast(Append(s, h))
         /\ HasShow(Append(s, h)) <=> HasShow(s) \/ h.op = "show"
         /\ NoDead(s) => NoDead(Append(s, h))
<1> DEFINE a == Append(s, h)
<1>1. /\ a \in Seq(Handler) /\ Len(a) = Len(s) + 1 /\ a[Len(s) + 1] = h
      /\ \A k \in 1..Len(s) : a[k] = s[k]
      /\ DOMAIN a = 1..(Len(s) + 1) /\ DOMAIN s = 1..Len(s) /\ Len(s) \in Nat
  BY AppendProperties, LenProperties
<1>2. a # <<>>
  BY <1>1, EmptySeq
<1>3. HasOwn(a) /\ OwnIsLast(a)
  BY <1>1 DEF HasOwn, OwnIsLast
<1>4. HasShow(a) <=> HasShow(s) \/ h.op = "show"
  BY <1>1 DEF HasShow
<1>5. NoDead(s) => NoDead(a)
  BY <1>1 DEF NoDead
<1> QED BY <1>1, <1>2, <1>3, <1>4, <1>5

\* What the handlers of a lost or disposed instance become.
Orphaned(s, by) == [k \in DOMAIN s |-> IF s[k].by = "own" THEN [s[k] EXCEPT !.by = by] ELSE s[k]]

LEMMA OrphanedFacts ==
  ASSUME NEW s \in Seq(Handler), NEW by \in {"lost", "dead"}
  PROVE  /\ Orphaned(s, by) \in Seq(Handler)
         /\ ~HasOwn(Orphaned(s, by)) /\ OwnIsLast(Orphaned(s, by))
         /\ HasShow(Orphaned(s, by)) <=> HasShow(s)
         /\ by = "lost" /\ NoDead(s) => NoDead(Orphaned(s, by))
         /\ Orphaned(s, by) = <<>> <=> s = <<>>
<1> DEFINE o == Orphaned(s, by)
<1>1. DOMAIN s = 1..Len(s) /\ Len(s) \in Nat /\ \A k \in DOMAIN s : s[k] \in Handler
  BY LenProperties, ElementOfSeq
<1>2. /\ DOMAIN o = 1..Len(s)
      /\ \A k \in DOMAIN s : /\ o[k] \in Handler /\ o[k].by # "own" /\ o[k].op = s[k].op
                             /\ o[k].by = s[k].by \/ o[k].by = by
  BY <1>1 DEF Orphaned, Handler
<1>3. o \in Seq(Handler) /\ Len(o) = Len(s)
  BY <1>1, <1>2, IsASeq, LenProperties DEF Orphaned
<1>4. ~HasOwn(o) /\ OwnIsLast(o)
  BY <1>1, <1>2 DEF HasOwn, OwnIsLast
<1>5. HasShow(o) <=> HasShow(s)
  BY <1>1, <1>2 DEF HasShow
<1>6. by = "lost" /\ NoDead(s) => NoDead(o)
  BY <1>1, <1>2 DEF NoDead
<1>7. o = <<>> <=> s = <<>>
  BY <1>3, EmptySeq
<1> QED BY <1>3, <1>4, <1>5, <1>6, <1>7

LEMMA Shift ==
  ASSUME NEW L \in Nat, NEW r \in Nat, r <= L
  PROVE  /\ \A k \in 1..(L - r) : r + k \in 1..L /\ (r + k = L => k = L - r)
         /\ (IF r + 1 <= L THEN L - (r + 1) + 1 ELSE 0) = L - r
         /\ \A k \in 1..L : k \notin 1..r => k - r \in 1..(L - r) /\ r + (k - r) = k
         /\ \A k \in Int : (r + 1) + k - 1 = r + k
<1>1. \A k \in 1..(L - r) : r + k \in 1..L
  OBVIOUS
<1>2. \A k \in 1..(L - r) : r + k = L => k = L - r
  OBVIOUS
<1>3. (IF r + 1 <= L THEN L - (r + 1) + 1 ELSE 0) = L - r
  OBVIOUS
<1>4. \A k \in 1..L : k \notin 1..r => k - r \in 1..(L - r) /\ r + (k - r) = k
  OBVIOUS
<1> QED BY <1>1, <1>2, <1>3, <1>4

LEMMA Dequeue ==
  ASSUME NEW s \in Seq(Handler), NEW r \in 0..Len(s)
  PROVE  /\ SubSeq(s, r + 1, Len(s)) \in Seq(Handler)
         /\ OwnIsLast(s) => OwnIsLast(SubSeq(s, r + 1, Len(s)))
         /\ OwnIsLast(s) => (HasOwn(SubSeq(s, r + 1, Len(s)))
                               <=> HasOwn(s) /\ \A k \in 1..r : s[k].by # "own")
         /\ NoDead(s) => NoDead(SubSeq(s, r + 1, Len(s)))
         /\ r = Len(s) => SubSeq(s, r + 1, Len(s)) = <<>>
<1> DEFINE t == SubSeq(s, r + 1, Len(s))
<1>1. /\ Len(s) \in Nat /\ DOMAIN s = 1..Len(s) /\ r \in Nat /\ r <= Len(s)
  BY LenProperties
<1>2. /\ t \in Seq(Handler) /\ Len(t) = Len(s) - r /\ DOMAIN t = 1..(Len(s) - r)
      /\ \A k \in 1..(Len(s) - r) : t[k] = s[r + k]
  <2>1. r + 1 \in 1..(Len(s) + 1) /\ Len(s) \in r..Len(s)
    BY <1>1
  <2>2. /\ t \in Seq(Handler)
        /\ Len(t) = IF r + 1 <= Len(s) THEN Len(s) - (r + 1) + 1 ELSE 0
        /\ \A k \in 1..(Len(s) - (r + 1) + 1) : t[k] = s[(r + 1) + k - 1]
    BY <2>1, SubSeqProperties
  <2>3. Len(t) = Len(s) - r
    BY <1>1, <2>2, Shift
  <2>4. \A k \in 1..(Len(s) - r) : (r + 1) + k - 1 = r + k /\ Len(s) - (r + 1) + 1 = Len(s) - r
    BY <1>1
  <2> QED BY <2>2, <2>3, <2>4, LenProperties
<1> HIDE DEF t
<1> DEFINE L == Len(s)
<1>7. /\ \A k \in 1..(L - r) : r + k \in 1..L /\ (r + k = L => k = L - r)
      /\ \A k \in 1..L : k \notin 1..r => k - r \in 1..(L - r) /\ r + (k - r) = k
  BY <1>1, Shift
<1>3. OwnIsLast(s) => OwnIsLast(t)
  BY <1>1, <1>2, <1>7 DEF OwnIsLast
<1>4. OwnIsLast(s) => (HasOwn(t) <=> HasOwn(s) /\ \A k \in 1..r : s[k].by # "own")
  <2>1. ASSUME OwnIsLast(s), HasOwn(t) PROVE HasOwn(s) /\ \A k \in 1..r : s[k].by # "own"
    <3>1. PICK j \in 1..(Len(s) - r) : s[r + j].by = "own"
      BY <1>2, <2>1 DEF HasOwn
    <3>2. r + j \in DOMAIN s /\ r + j = Len(s)
      BY <1>1, <1>7, <2>1, <3>1 DEF OwnIsLast
    <3>3. \A k \in 1..r : k \in DOMAIN s /\ k # Len(s)
      BY <1>1, <3>1, <3>2
    <3> QED BY <1>1, <2>1, <3>1, <3>2, <3>3 DEF HasOwn, OwnIsLast
  <2>2. ASSUME HasOwn(s), \A k \in 1..r : s[k].by # "own" PROVE HasOwn(t)
    <3>1. PICK j \in 1..Len(s) : s[j].by = "own"
      BY <1>1, <2>2 DEF HasOwn
    <3>2. j - r \in 1..(Len(s) - r) /\ r + (j - r) = j
      BY <1>1, <1>7, <2>2, <3>1
    <3> QED BY <1>2, <3>1, <3>2 DEF HasOwn
  <2> QED BY <2>1, <2>2
<1>5. NoDead(s) => NoDead(t)
  BY <1>1, <1>2, <1>7 DEF NoDead
<1>6. r = Len(s) => t = <<>>
  BY <1>1, <1>2, EmptySeq
<1> QED BY <1>2, <1>3, <1>4, <1>5, <1>6 DEF t

LEMMA RanFacts ==
  ASSUME TypeOK, NEW p \in Panels
  PROVE  Ran(p) \in 0..Len(pending[p]) /\ (NoDead(pending[p]) => Ran(p) = Len(pending[p]))
<1> DEFINE failed == {k \in DOMAIN pending[p] : Throws(pending[p][k])}
<1>1. Len(pending[p]) \in Nat /\ DOMAIN pending[p] = 1..Len(pending[p])
  BY LenProperties DEF TypeOK
<1>2. Ran(p) = IF failed = {} THEN Len(pending[p]) ELSE First(failed)
  BY DEF Ran
<1>3. failed # {} => First(failed) \in 1..Len(pending[p])
  <2>1. failed \in SUBSET Nat /\ failed \subseteq 1..Len(pending[p])
    BY <1>1
  <2> HIDE DEF failed
  <2> QED BY <2>1, LeastOf
<1>4. NoDead(pending[p]) => failed = {}
  BY DEF NoDead, Throws
<1> QED BY <1>1, <1>2, <1>3, <1>4

--------------------------------------------------------------------------------
\* What an enabled show() does, panel by panel.
ShowHandler == [op |-> "show", by |-> "own"]
HideHandler == [op |-> "hide", by |-> "own"]
Queued(p, hidden, q) == IF q = p THEN Append(pending[q], ShowHandler)
                        ELSE IF q \in hidden THEN Append(pending[q], HideHandler) ELSE pending[q]
LostBy(p, unset) == IF ActivesUnknown(p) THEN Actives \ unset ELSE {}

LEMMA AriaFacts ==
  ASSUME TypeOK, NEW new
  PROVE  /\ AriaAfter(new) \in [Panels -> BOOLEAN]
         /\ config.parent /\ ~config.marked => AriaAfter(new) = expanded
         /\ ~config.parent => \A q \in Panels :
              AriaAfter(new)[q] = IF q \in new THEN "show" \in class[q] ELSE expanded[q]
<1>1. AriaAfter(new) \in [Panels -> BOOLEAN]
  <2> DEFINE aria(r) == IF \/ ~config.parent /\ r \in new
                           \/ config.parent /\ config.marked /\ new # {}
                        THEN "show" \in class[r] ELSE expanded[r]
  <2>1. \A r \in Panels : expanded[r] \in BOOLEAN /\ ("show" \in class[r]) \in BOOLEAN
    BY DEF TypeOK
  <2>2. \A r \in Panels : aria(r) \in BOOLEAN
    BY <2>1
  <2>3. AriaAfter(new) = [r \in Panels |-> aria(r)]
    BY DEF AriaAfter
  <2> HIDE DEF aria
  <2> QED BY <2>2, <2>3
<1>2. config.parent /\ ~config.marked => AriaAfter(new) = expanded
  BY DEF AriaAfter, TypeOK, Config
<1>3. ~config.parent => \A q \in Panels :
        AriaAfter(new)[q] = IF q \in new THEN "show" \in class[q] ELSE expanded[q]
  BY DEF AriaAfter, TypeOK, Config
<1> QED BY <1>1, <1>2, <1>3

LEMMA ShowAndHideFacts ==
  ASSUME TypeOK, NEW p \in Panels, NEW hidden \in SUBSET Panels, NEW unset,
         ShowAndHide(p, hidden, unset)
  PROVE  /\ class' = [q \in Panels |-> IF q \in hidden \cup {p} THEN Moving ELSE class[q]]
         /\ instance' \in [Panels -> BOOLEAN]
         /\ \A q \in Panels : instance'[q] <=> /\ instance[q] \/ q \in Others(p) \cup {p}
                                               /\ q \notin LostBy(p, unset)
         /\ isTransitioning' \in [Panels -> BOOLEAN]
         /\ \A q \in Panels : isTransitioning'[q] <=> /\ isTransitioning[q] \/ q \in hidden \cup {p}
                                                      /\ q \notin LostBy(p, unset)
         /\ pending' = [q \in Panels |-> IF q \in LostBy(p, unset) THEN Orphaned(Queued(p, hidden, q), "lost")
                                         ELSE Queued(p, hidden, q)]
         /\ expanded' \in [Panels -> BOOLEAN]
         /\ \A q \in Panels : q \in hidden \cup {p} => expanded'[q] = (q = p)
         /\ ~(config.parent /\ config.marked) /\ (config.parent \/ Others(p) = {})
              => \A q \in Panels : q \notin hidden \cup {p} => expanded'[q] = expanded[q]
<1>1. class' = [q \in Panels |-> IF q \in hidden \cup {p} THEN Moving ELSE class[q]]
  BY StartingMoves DEF ShowAndHide
<1>2. /\ instance' \in [Panels -> BOOLEAN]
      /\ \A q \in Panels : instance'[q] <=> /\ instance[q] \/ q \in Others(p) \cup {p}
                                            /\ q \notin LostBy(p, unset)
  BY DEF ShowAndHide, LostBy, TypeOK, Others, Actives
<1>3. /\ isTransitioning' \in [Panels -> BOOLEAN]
      /\ \A q \in Panels : isTransitioning'[q] <=> /\ isTransitioning[q] \/ q \in hidden \cup {p}
                                                   /\ q \notin LostBy(p, unset)
  BY DEF ShowAndHide, LostBy, TypeOK
<1>4. pending' = [q \in Panels |-> IF q \in LostBy(p, unset) THEN Orphaned(Queued(p, hidden, q), "lost")
                                   ELSE Queued(p, hidden, q)]
  <2>1. \A q \in Panels : /\ pending[q] \o <<ShowHandler>> = Append(pending[q], ShowHandler)
                          /\ pending[q] \o <<HideHandler>> = Append(pending[q], HideHandler)
                          /\ pending[q] \o <<>> = pending[q]
    BY ConcatEmptySeq DEF TypeOK
  <2>2. pending' = [q \in Panels |->
          LET w == pending[q] \o (IF q = p THEN <<ShowHandler>>
                                  ELSE IF q \in hidden THEN <<HideHandler>> ELSE <<>>)
          IN  IF q \in LostBy(p, unset) THEN Orphaned(w, "lost") ELSE w]
    BY DEF ShowAndHide, LostBy, Lose, Orphaned, ShowHandler, HideHandler
  <2> QED BY <2>1, <2>2 DEF Queued
<1>5. /\ expanded' \in [Panels -> BOOLEAN]
      /\ \A q \in Panels : q \in hidden \cup {p} => expanded'[q] = (q = p)
  <2> DEFINE new == {q \in Others(p) \cup {p} : ~instance[q]}
  <2>1. expanded' = [q \in Panels |-> IF q \in hidden \cup {p} THEN q = p ELSE AriaAfter(new)[q]]
    BY DEF ShowAndHide
  <2>2. AriaAfter(new) \in [Panels -> BOOLEAN]
    BY AriaFacts
  <2> HIDE DEF new
  <2>3. \A q \in Panels : (IF q \in hidden \cup {p} THEN q = p ELSE AriaAfter(new)[q]) \in BOOLEAN
    BY <2>2
  <2> QED BY <2>1, <2>3
<1>6. ~(config.parent /\ config.marked) /\ (config.parent \/ Others(p) = {})
        => \A q \in Panels : q \notin hidden \cup {p} => expanded'[q] = expanded[q]
  BY DEF ShowAndHide, AriaAfter, TypeOK, Config
<1> QED BY <1>1, <1>2, <1>3, <1>4, <1>5, <1>6

LEMMA QueuedFacts ==
  ASSUME TypeOK, FlagInv, NEW p \in Panels, NEW hidden \in SUBSET Panels, NEW q \in Panels,
         \A r \in hidden \cup {p} : ~isTransitioning[r]
  PROVE  LET w == Queued(p, hidden, q)
         IN  /\ w \in Seq(Handler)
             /\ OwnIsLast(w)
             /\ HasOwn(w) <=> isTransitioning[q] \/ q \in hidden \cup {p}
             /\ w = <<>> <=> pending[q] = <<>> /\ q \notin hidden \cup {p}
             /\ NoDead(pending[q]) => NoDead(w)
             /\ HasShow(w) <=> HasShow(pending[q]) \/ q = p
<1>1. ShowHandler \in Handler /\ HideHandler \in Handler
  BY DEF ShowHandler, HideHandler, Handler
<1>2. pending[q] \in Seq(Handler) /\ OwnIsLast(pending[q]) /\ (isTransitioning[q] <=> HasOwn(pending[q]))
  BY DEF TypeOK, FlagInv
<1>3. CASE q = p
  BY <1>1, <1>2, <1>3, Enqueue DEF Queued, ShowHandler
<1>4. CASE q # p /\ q \in hidden
  BY <1>1, <1>2, <1>4, Enqueue DEF Queued, HideHandler
<1>5. CASE q # p /\ q \notin hidden
  BY <1>2, <1>5 DEF Queued
<1> QED BY <1>3, <1>4, <1>5

--------------------------------------------------------------------------------
LEMMA ClassFacts ==
  ASSUME TypeOK
  PROVE  /\ \A q \in Panels : /\ class[q] \in {Closed, Moving, Shown}
                              /\ "show" \in class[q] <=> class[q] = Shown
         /\ ~config.parent => Actives = {}
         /\ config.parent => \A q \in Panels : q \in Actives <=> class[q] # Closed
         /\ Actives \subseteq Panels
<1>1. \A q \in Panels : /\ class[q] \in {Closed, Moving, Shown}
                        /\ "show" \in class[q] <=> class[q] = Shown
  BY Classes DEF TypeOK
<1>2. \A q \in Panels : class[q] \cap {"show", "collapsing"} # {} <=> class[q] # Closed
  BY <1>1 DEF Closed, Moving, Shown
<1>3. ~config.parent => Actives = {}
  BY DEF Actives
<1>4. config.parent => \A q \in Panels : q \in Actives <=> class[q] # Closed
  BY <1>2 DEF Actives
<1>5. Actives \subseteq Panels
  BY DEF Actives
<1> QED BY <1>1, <1>3, <1>4, <1>5

LEMMA EmptyHasNone == ~HasOwn(<<>>) /\ ~HasShow(<<>>)
BY DEF HasOwn, HasShow

\* A panel that opens shows, or a handler of show() waits.
LEMMA OpensFacts ==
  ASSUME TypeOK, NEW q \in Panels
  PROVE  Opens(q) <=> class[q] = Shown \/ HasShow(pending[q])
BY ClassFacts DEF Opens, HasShow

LEMMA InitInv == Init => Inv
<1> SUFFICES ASSUME Init PROVE Inv
  OBVIOUS
<1>1. TypeOK
  BY DEF Init, TypeOK
<1>2. \A p \in Panels : pending[p] = <<>> /\ ~isTransitioning[p] /\ OwnIsLast(<<>>) /\ NoDead(<<>>)
  BY DEF Init, OwnIsLast, NoDead
<1>3. FlagInv
  BY <1>2, EmptyHasNone DEF FlagInv
<1>4. \A p \in Panels : class[p] = (IF p \in config.open THEN Shown ELSE Closed)
                        /\ expanded[p] = (p \in config.open)
  BY DEF Init
<1>5. CalmInv
  BY <1>2, <1>4, Classes DEF CalmInv
<1>6. TriggerInv
  BY <1>2, <1>4, Classes, EmptyHasNone DEF TriggerInv
<1>7. OpenInv
  <2>1. ASSUME config.open = {} PROVE \A p \in Panels : class[p] = Closed /\ ~Opens(p)
    BY <2>1, <1>1, <1>2, <1>4, Classes, EmptyHasNone, OpensFacts
  <2> QED BY <2>1, Classes DEF OpenInv
<1> QED BY <1>1, <1>3, <1>5, <1>6, <1>7 DEF Inv

\* A refused or prevented call: at most a new instance, and its trigger.
LEMMA CreateInv ==
  ASSUME Inv, NEW p \in Panels, Create(p), UNCHANGED config, calls' \in Nat
  PROVE  Inv'
<1> DEFINE new == {q \in {p} : ~instance[q]}
<1> USE DEF Inv
<1>1. /\ UNCHANGED <<config, class, isTransitioning, pending>>
      /\ instance' = [instance EXCEPT ![p] = TRUE]
      /\ expanded' = AriaAfter(new)
  BY DEF Create
<1>2. TypeOK'
  <2>1. expanded' \in [Panels -> BOOLEAN]
    BY <1>1, AriaFacts
  <2>2. instance' \in [Panels -> BOOLEAN]
    BY <1>1 DEF TypeOK
  <2> QED BY <1>1, <2>1, <2>2 DEF TypeOK
<1>3. FlagInv' /\ CalmInv'
  BY <1>1 DEF FlagInv, CalmInv
<1>4. \A q \in Panels : instance[q] => instance'[q]
  BY <1>1 DEF TypeOK
<1>5. TriggerInv'
  <2> SUFFICES ASSUME ~(config.parent /\ config.marked), ~config.disposes, NEW q \in Panels
               PROVE  /\ expanded'[q] <=> class[q] = Shown \/ HasShow(pending[q])
                      /\ ~config.parent /\ class[q] = Moving => instance'[q]
    BY <1>1 DEF TriggerInv
  <2>1. /\ expanded[q] <=> class[q] = Shown \/ HasShow(pending[q])
        /\ ~config.parent /\ class[q] = Moving => instance[q]
    BY DEF TriggerInv
  <2>2. CASE config.parent
    BY <1>1, <2>1, <2>2, AriaFacts
  <2>3. CASE ~config.parent
    <3>1. expanded'[q] = IF q \in new THEN "show" \in class[q] ELSE expanded[q]
      BY <1>1, <2>3, AriaFacts
    <3>2. CASE q \in new
      <4>1. class[q] # Moving
        BY <2>1, <2>3, <3>2
      <4>2. ~HasShow(pending[q])
        BY <4>1, EmptyHasNone DEF CalmInv
      <4> QED BY <1>4, <2>1, <2>3, <3>1, <3>2, <4>2, ClassFacts
    <3>3. CASE q \notin new
      BY <1>4, <2>1, <3>1, <3>3
    <3> QED BY <3>2, <3>3
  <2> QED BY <2>2, <2>3
<1>6. OpenInv'
  <2>1. \A q \in Panels : Opens(q)' <=> Opens(q)
    BY <1>1 DEF Opens
  <2> QED BY <1>1, <1>4, <2>1 DEF OpenInv
<1> QED BY <1>2, <1>3, <1>5, <1>6

\* Dispose is left to the pages that do: only the flags matter then.
LEMMA DisposeInv ==
  ASSUME Inv, NEW p \in Panels, Dispose(p)
  PROVE  Inv'
<1> USE DEF Inv
<1>1. /\ config.disposes /\ UNCHANGED <<config, class, expanded>> /\ calls' = calls + 1
      /\ instance' = [instance EXCEPT ![p] = FALSE]
      /\ isTransitioning' = [isTransitioning EXCEPT ![p] = FALSE]
      /\ pending' = [pending EXCEPT ![p] = Orphaned(pending[p], "dead")]
  BY DEF Dispose, Called, Orphaned
<1>2. pending[p] \in Seq(Handler)
  BY DEF TypeOK
<1>3. /\ Orphaned(pending[p], "dead") \in Seq(Handler)
      /\ ~HasOwn(Orphaned(pending[p], "dead")) /\ OwnIsLast(Orphaned(pending[p], "dead"))
  BY <1>2, OrphanedFacts
<1>4. TypeOK'
  BY <1>1, <1>3 DEF TypeOK
<1>5. FlagInv'
  BY <1>1, <1>3 DEF FlagInv, TypeOK
<1> QED BY <1>1, <1>4, <1>5 DEF CalmInv, TriggerInv, OpenInv

LEMMA HideInv ==
  ASSUME Inv, NEW p \in Panels, Hide(p), UNCHANGED config, calls' \in Nat
  PROVE  Inv'
<1> USE DEF Inv
<1>1. CASE Create(p)
  BY <1>1, CreateInv
<1>2. CASE ~Create(p)
  <2>1. /\ ~isTransitioning[p] /\ class[p] = Shown
        /\ class' = [class EXCEPT ![p] = Moving]
        /\ expanded' = TriggerCollapsed(p)
        /\ instance' = [instance EXCEPT ![p] = TRUE]
        /\ isTransitioning' = [isTransitioning EXCEPT ![p] = TRUE]
        /\ pending' = [pending EXCEPT ![p] = Append(pending[p], HideHandler)]
    BY <1>2, StartingMoves, ClassFacts DEF Hide, HideHandler
  <2> DEFINE w == Append(pending[p], HideHandler)
  <2>2. /\ w \in Seq(Handler) /\ w # <<>> /\ HasOwn(w) /\ OwnIsLast(w)
        /\ HasShow(w) <=> HasShow(pending[p])
        /\ NoDead(pending[p]) => NoDead(w)
    <3>1. pending[p] \in Seq(Handler) /\ ~HasOwn(pending[p])
      BY <2>1 DEF TypeOK, FlagInv
    <3>2. HideHandler \in Handler /\ HideHandler.by = "own" /\ HideHandler.op # "show"
      BY DEF HideHandler, Handler
    <3> QED BY <3>1, <3>2, Enqueue
  <2>3. \A q \in Panels : /\ class'[q] = IF q = p THEN Moving ELSE class[q]
                          /\ instance'[q] = (q = p \/ instance[q])
                          /\ isTransitioning'[q] = (q = p \/ isTransitioning[q])
                          /\ pending'[q] = IF q = p THEN w ELSE pending[q]
    BY <2>1 DEF TypeOK
  <2> HIDE DEF w
  <2>4. TypeOK'
    <3> DEFINE new == {q \in {p} : ~instance[q]}
    <3>1. expanded' = [AriaAfter(new) EXCEPT ![p] = FALSE]
      BY <2>1 DEF TriggerCollapsed
    <3>2. AriaAfter(new) \in [Panels -> BOOLEAN]
      BY AriaFacts
    <3> HIDE DEF new
    <3>3. expanded' \in [Panels -> BOOLEAN]
      BY <3>1, <3>2
    <3> QED BY <2>1, <2>2, <3>3 DEF TypeOK, w
  <2>5. FlagInv'
    BY <2>2, <2>3 DEF FlagInv
  <2>6. CalmInv'
    BY <2>2, <2>3 DEF CalmInv
  <2>7. TriggerInv'
    <3> SUFFICES ASSUME ~(config.parent /\ config.marked), ~config.disposes, NEW q \in Panels
                 PROVE  /\ expanded'[q] <=> class'[q] = Shown \/ HasShow(pending'[q])
                        /\ ~config.parent /\ class'[q] = Moving => instance'[q]
      BY DEF TriggerInv
    <3>1. /\ expanded[q] <=> class[q] = Shown \/ HasShow(pending[q])
          /\ ~config.parent /\ class[q] = Moving => instance[q]
      BY DEF TriggerInv
    <3> DEFINE new == {r \in {p} : ~instance[r]}
    <3>2. /\ AriaAfter(new) \in [Panels -> BOOLEAN]
          /\ config.parent => AriaAfter(new) = expanded
          /\ ~config.parent /\ q \notin new => AriaAfter(new)[q] = expanded[q]
      BY AriaFacts
    <3>3. expanded' = [AriaAfter(new) EXCEPT ![p] = FALSE]
      BY <2>1 DEF TriggerCollapsed
    <3>4. q # p => q \notin new
      OBVIOUS
    <3> HIDE DEF new
    <3>5. CASE q = p
      <4>1. ~expanded'[q]
        BY <3>2, <3>3, <3>5
      <4>2. ~HasShow(pending'[q])
        <5>1. pending[p] = <<>>
          BY <2>1, Classes DEF CalmInv
        <5> QED BY <2>2, <2>3, <3>5, <5>1, EmptyHasNone
      <4> QED BY <2>3, <3>5, <4>1, <4>2, Classes
    <3>6. CASE q # p
      BY <2>3, <3>1, <3>2, <3>3, <3>4, <3>6
    <3> QED BY <3>5, <3>6
  <2>8. OpenInv'
    <3>1. \A q \in Panels : class'[q] = Shown \/ HasShow(pending'[q])
                              => class[q] = Shown \/ HasShow(pending[q])
      BY <2>2, <2>3, Classes
    <3>2. \A q \in Panels : Opens(q)' => Opens(q)
      <4>1. TAKE q \in Panels
      <4>2. Opens(q)' => class'[q] = Shown \/ HasShow(pending'[q])
        BY <2>4, ClassFacts, Classes DEF Opens, HasShow, TypeOK
      <4> QED BY <3>1, <4>2, OpensFacts
    <3>3. \A q \in Panels : /\ (class[q] # Closed => instance[q])
                                => (class'[q] # Closed => instance'[q])
                            /\ (class[q] = Moving => isTransitioning[q])
                                => (class'[q] = Moving => isTransitioning'[q])
      BY <2>1, <2>3
    <3> QED BY <3>2, <3>3 DEF OpenInv
  <2> QED BY <2>4, <2>5, <2>6, <2>7, <2>8
<1> QED BY <1>1, <1>2

\* Without dispose() the end of a transition runs every handler, and one of them completes.
LEMMA EndOfTransition ==
  ASSUME Inv, ~config.disposes, NEW p \in Panels, TransitionEnd(p)
  PROVE  /\ class[p] = Moving /\ pending'[p] = <<>>
         /\ ClassAfter(p) = IF HasShow(pending[p]) THEN Shown ELSE Closed
<1> USE DEF Inv
<1>1. class[p] = Moving /\ NoDead(pending[p]) /\ pending[p] # <<>>
  BY DEF TransitionEnd, CalmInv
<1>2. Ran(p) = Len(pending[p]) /\ Ran(p) \in 0..Len(pending[p]) /\ pending[p] \in Seq(Handler)
  BY <1>1, RanFacts DEF TypeOK
<1>3. pending'[p] = SubSeq(pending[p], Ran(p) + 1, Len(pending[p]))
  BY DEF TransitionEnd, TypeOK
<1>4. pending'[p] = <<>>
  BY <1>2, <1>3, Dequeue
<1>5. DOMAIN pending[p] = 1..Ran(p) /\ \A k \in DOMAIN pending[p] : pending[p][k] \in Handler
  BY <1>2, LenProperties, ElementOfSeq
<1>6. Completes(p, "show") <=> HasShow(pending[p])
  BY <1>1, <1>5 DEF Completes, HasShow, NoDead
<1>7. Completes(p, "show") \/ Completes(p, "hide")
  <2>1. 1 \in DOMAIN pending[p]
    BY <1>1, <1>2, EmptySeq, LenProperties
  <2>2. pending[p][1].op \in {"show", "hide"}
    BY <1>5, <2>1 DEF Handler
  <2> QED BY <1>1, <1>5, <2>1, <2>2 DEF Completes, NoDead
<1>8. ClassAfter(p) = (Moving \ {"collapsing"}) \cup {"collapse"} \cup Opened(p)
  BY <1>1, <1>7 DEF ClassAfter
<1> QED BY <1>1, <1>4, <1>6, <1>8 DEF Opened, Moving, Shown, Closed

LEMMA TransitionEndInv ==
  ASSUME Inv, NEW p \in Panels, TransitionEnd(p)
  PROVE  Inv'
<1> USE DEF Inv
<1> DEFINE t == SubSeq(pending[p], Ran(p) + 1, Len(pending[p]))
<1>1. /\ class' = [class EXCEPT ![p] = ClassAfter(p)]
      /\ isTransitioning' = [isTransitioning EXCEPT ![p] = FlagAfter(p)]
      /\ pending' = [pending EXCEPT ![p] = t]
      /\ UNCHANGED <<config, expanded, instance, calls>>
  BY DEF TransitionEnd
<1>2. /\ pending[p] \in Seq(Handler) /\ OwnIsLast(pending[p])
      /\ isTransitioning[p] <=> HasOwn(pending[p])
  BY DEF TypeOK, FlagInv
<1>3. /\ t \in Seq(Handler) /\ OwnIsLast(t)
      /\ HasOwn(t) <=> HasOwn(pending[p]) /\ \A k \in 1..Ran(p) : pending[p][k].by # "own"
  BY <1>2, RanFacts, Dequeue
<1> HIDE DEF t
<1>4. ClassAfter(p) \in {Closed, Moving, Shown}
  <2>1. class[p] \in {Closed, Moving, Shown}
    BY DEF TypeOK
  <2> QED BY <2>1 DEF ClassAfter, Opened, Closed, Moving, Shown
<1>5. FlagAfter(p) \in BOOLEAN
  BY DEF FlagAfter, TypeOK
<1>6. TypeOK'
  BY <1>1, <1>3, <1>4, <1>5 DEF TypeOK
<1>7. FlagInv'
  <2>1. FlagAfter(p) <=> HasOwn(t)
    BY <1>2, <1>3 DEF FlagAfter
  <2> QED BY <1>1, <1>3, <2>1 DEF FlagInv, TypeOK
<1>8. CASE config.disposes
  BY <1>1, <1>6, <1>7, <1>8 DEF CalmInv, TriggerInv, OpenInv
<1>9. CASE ~config.disposes
  <2>1. /\ class[p] = Moving /\ pending'[p] = <<>>
        /\ ClassAfter(p) = IF HasShow(pending[p]) THEN Shown ELSE Closed
    BY <1>9, EndOfTransition
  <2>2. \A q \in Panels :
          /\ class'[q] = IF q = p THEN (IF HasShow(pending[p]) THEN Shown ELSE Closed) ELSE class[q]
          /\ pending'[q] = IF q = p THEN <<>> ELSE pending[q]
          /\ q # p => isTransitioning'[q] = isTransitioning[q]
    BY <1>1, <2>1 DEF TypeOK
  <2>3. CalmInv'
    BY <1>1, <2>2, Classes DEF CalmInv, NoDead
  <2>4. TriggerInv'
    BY <1>1, <2>1, <2>2, Classes, EmptyHasNone DEF TriggerInv
  <2>5. OpenInv'
    <3>1. \A q \in Panels : class'[q] = Shown \/ HasShow(pending'[q])
                              => class[q] = Shown \/ HasShow(pending[q])
      BY <2>2, Classes, EmptyHasNone
    <3>2. \A q \in Panels : Opens(q)' => Opens(q)
      <4>1. TAKE q \in Panels
      <4>2. Opens(q)' => class'[q] = Shown \/ HasShow(pending'[q])
        BY <1>6, ClassFacts, Classes DEF Opens, HasShow, TypeOK
      <4> QED BY <3>1, <4>2, OpensFacts
    <3> QED BY <1>1, <2>1, <2>2, <3>2, Classes DEF OpenInv
  <2> QED BY <1>6, <1>7, <2>3, <2>4, <2>5
<1> QED BY <1>8, <1>9

LEMMA ShowAndHideInv ==
  ASSUME Inv, NEW p \in Panels, UNCHANGED config, calls' \in Nat,
         ~isTransitioning[p], "show" \notin class[p], ~ActivesBusy(p),
         NEW hidden \in SUBSET {q \in Others(p) : "show" \in class[q] /\ ~isTransitioning[q]},
         \/ hidden = {q \in Others(p) : "show" \in class[q] /\ ~isTransitioning[q]}
         \/ config.prevents,
         NEW unset, ShowAndHide(p, hidden, unset)
  PROVE  Inv'
<1> USE DEF Inv
<1> DEFINE w(q) == Queued(p, hidden, q)
<1>1. /\ hidden \in SUBSET Panels /\ p \notin hidden /\ hidden \subseteq Others(p)
      /\ \A q \in hidden \cup {p} : ~isTransitioning[q]
      /\ \A q \in hidden : class[q] = Shown
      /\ class[p] # Shown
  BY ClassFacts DEF Others
<1>2. /\ class' = [q \in Panels |-> IF q \in hidden \cup {p} THEN Moving ELSE class[q]]
      /\ instance' \in [Panels -> BOOLEAN]
      /\ \A q \in Panels : instance'[q] <=> /\ instance[q] \/ q \in Others(p) \cup {p}
                                            /\ q \notin LostBy(p, unset)
      /\ isTransitioning' \in [Panels -> BOOLEAN]
      /\ \A q \in Panels : isTransitioning'[q] <=> /\ isTransitioning[q] \/ q \in hidden \cup {p}
                                                   /\ q \notin LostBy(p, unset)
      /\ pending' = [q \in Panels |-> IF q \in LostBy(p, unset) THEN Orphaned(w(q), "lost") ELSE w(q)]
      /\ expanded' \in [Panels -> BOOLEAN]
      /\ \A q \in Panels : q \in hidden \cup {p} => expanded'[q] = (q = p)
      /\ ~(config.parent /\ config.marked) /\ (config.parent \/ Others(p) = {})
           => \A q \in Panels : q \notin hidden \cup {p} => expanded'[q] = expanded[q]
  BY <1>1, ShowAndHideFacts
<1>3. \A q \in Panels :
        /\ w(q) \in Seq(Handler) /\ OwnIsLast(w(q))
        /\ HasOwn(w(q)) <=> isTransitioning[q] \/ q \in hidden \cup {p}
        /\ w(q) = <<>> <=> pending[q] = <<>> /\ q \notin hidden \cup {p}
        /\ NoDead(pending[q]) => NoDead(w(q))
        /\ HasShow(w(q)) <=> HasShow(pending[q]) \/ q = p
  BY <1>1, QueuedFacts
<1> HIDE DEF w
<1>4. \A q \in Panels :
        /\ pending'[q] \in Seq(Handler) /\ OwnIsLast(pending'[q])
        /\ HasOwn(pending'[q]) <=> (isTransitioning[q] \/ q \in hidden \cup {p}) /\ q \notin LostBy(p, unset)
        /\ pending'[q] = <<>> <=> pending[q] = <<>> /\ q \notin hidden \cup {p}
        /\ NoDead(pending[q]) => NoDead(pending'[q])
        /\ HasShow(pending'[q]) <=> HasShow(pending[q]) \/ q = p
  <2>1. TAKE q \in Panels
  <2>2. CASE q \in LostBy(p, unset)
    <3>1. pending'[q] = Orphaned(w(q), "lost") /\ w(q) \in Seq(Handler)
      BY <1>2, <1>3, <2>2
    <3> QED BY <1>3, <2>2, <3>1, OrphanedFacts
  <2>3. CASE q \notin LostBy(p, unset)
    <3>1. pending'[q] = w(q)
      BY <1>2, <2>3
    <3> QED BY <1>3, <2>3, <3>1
  <2> QED BY <2>2, <2>3
<1>5. \A q \in Panels : class'[q] = IF q \in hidden \cup {p} THEN Moving ELSE class[q]
  BY <1>2
<1>6. TypeOK'
  <2>1. class' \in [Panels -> {Closed, Moving, Shown}]
    BY <1>2 DEF TypeOK
  <2>2. pending' \in [Panels -> Seq(Handler)]
    <3>1. pending' = [q \in Panels |-> pending'[q]]
      BY <1>2
    <3> QED BY <1>4, <3>1
  <2> QED BY <1>2, <2>1, <2>2 DEF TypeOK
<1>7. FlagInv'
  BY <1>2, <1>4 DEF FlagInv
<1>8. CalmInv'
  BY <1>4, <1>5 DEF CalmInv
<1>9. TriggerInv'
  <2> SUFFICES ASSUME ~(config.parent /\ config.marked), ~config.disposes, NEW q \in Panels
               PROVE  /\ expanded'[q] <=> class'[q] = Shown \/ HasShow(pending'[q])
                      /\ ~config.parent /\ class'[q] = Moving => instance'[q]
    BY DEF TriggerInv
  <2>1. /\ expanded[q] <=> class[q] = Shown \/ HasShow(pending[q])
        /\ ~config.parent /\ class[q] = Moving => instance[q]
    BY DEF TriggerInv
  <2>2. ~config.parent => Others(p) = {} /\ LostBy(p, unset) = {}
    BY ClassFacts DEF Others, LostBy
  <2>3. expanded'[q] <=> class'[q] = Shown \/ HasShow(pending'[q])
    <3>1. CASE q = p
      BY <1>2, <1>4, <3>1
    <3>2. CASE q \in hidden
      <4>1. pending[q] = <<>> /\ q # p
        BY <1>1, <3>2, Classes DEF CalmInv
      <4> QED BY <1>2, <1>4, <1>5, <3>2, <4>1, Classes, EmptyHasNone
    <3>3. CASE q \notin hidden \cup {p}
      BY <1>2, <1>4, <1>5, <2>1, <2>2, <3>3
    <3> QED BY <3>1, <3>2, <3>3
  <2>4. ~config.parent /\ class'[q] = Moving => instance'[q]
    BY <1>1, <1>2, <1>5, <2>1, <2>2
  <2> QED BY <2>3, <2>4
<1>10. OpenInv'
  <2> SUFFICES ASSUME config.parent, config.open = {}, ~config.disposes, ~config.prevents
               PROVE  /\ \A q \in Panels : /\ class'[q] # Closed => instance'[q]
                                           /\ class'[q] = Moving => isTransitioning'[q]
                      /\ \A q, r \in Panels : Opens(q)' /\ Opens(r)' => q = r
    BY DEF OpenInv
  <2>1. /\ \A q \in Panels : /\ class[q] # Closed => instance[q]
                             /\ class[q] = Moving => isTransitioning[q]
        /\ \A q, r \in Panels : Opens(q) /\ Opens(r) => q = r
    BY DEF OpenInv
  <2>2. p \notin Actives
    BY <1>1, <2>1, ClassFacts
  <2>3. Others(p) # {} => /\ First(Others(p)) \in Others(p)
                          /\ class[First(Others(p))] = Shown
    <3>1. Others(p) \in SUBSET Nat
      BY ClassFacts DEF Others, Panels
    <3>2. Others(p) # {} => First(Others(p)) \in Others(p)
      BY <3>1, LeastOf
    <3>3. Others(p) \subseteq Actives /\ Actives \subseteq Panels
      BY ClassFacts DEF Others
    <3>4. ASSUME Others(p) # {} PROVE ~isTransitioning[First(Others(p))]
      BY <3>4 DEF ActivesBusy
    <3> QED BY <2>1, <3>2, <3>3, <3>4, ClassFacts
  <2>4. LostBy(p, unset) = {}
    <3>1. CASE Others(p) = {}
      BY <2>2, <3>1 DEF LostBy, Others
    <3>2. CASE Others(p) # {}
      <4>1. First(Others(p)) \in Panels
        BY <2>3, <3>2, ClassFacts DEF Others
      <4> QED BY <2>1, <2>3, <3>2, <4>1, Classes DEF LostBy, ActivesUnknown
    <3> QED BY <3>1, <3>2
  <2>5. \A q \in Panels : Opens(q)' => q = p
    <3> SUFFICES ASSUME NEW q \in Panels, Opens(q)', q # p PROVE FALSE
      OBVIOUS
    <3>1. class'[q] = Shown \/ HasShow(pending'[q])
      BY <1>6, ClassFacts, Classes DEF Opens, HasShow, TypeOK
    <3>2. class'[q] = Shown \/ HasShow(pending[q])
      BY <1>4, <3>1
    <3>3. pending[q] = <<>> <=> class[q] # Moving
      BY DEF CalmInv
    <3>4. class[q] = Moving
      <4> SUFFICES ASSUME class[q] # Moving PROVE FALSE
        OBVIOUS
      <4>1. pending[q] = <<>> /\ ~HasShow(pending[q])
        BY <3>3, EmptyHasNone
      <4>2. q \notin hidden /\ class[q] = Shown
        BY <1>5, <3>2, <4>1, Classes
      <4>3. ~isTransitioning[q]
        BY <4>1, EmptyHasNone DEF FlagInv
      <4>4. q \in Others(p)
        BY <4>2, ClassFacts, Classes DEF Others
      <4> QED BY <4>2, <4>3, <4>4, Classes
    <3>5. Opens(q)
      BY <1>5, <3>2, <3>4, OpensFacts, Classes
    <3>6. q \in Others(p)
      BY <3>4, ClassFacts, Classes DEF Others
    <3>7. First(Others(p)) \in Panels
      BY <2>3, <3>6, ClassFacts DEF Others
    <3>8. Opens(First(Others(p)))
      BY <2>3, <3>6, <3>7, OpensFacts
    <3> QED BY <2>1, <2>3, <3>4, <3>5, <3>6, <3>7, <3>8, Classes
  <2>6. \A q \in Panels : /\ class'[q] # Closed => instance'[q]
                          /\ class'[q] = Moving => isTransitioning'[q]
    BY <1>1, <1>2, <1>5, <2>1, <2>4
  <2> QED BY <2>5, <2>6
<1> QED BY <1>6, <1>7, <1>8, <1>9, <1>10

LEMMA ShowInv ==
  ASSUME Inv, NEW p \in Panels, NEW unset, Show(p, unset), UNCHANGED config, calls' \in Nat
  PROVE  Inv'
<1>1. CASE Create(p)
  BY <1>1, CreateInv
<1>2. CASE ~Create(p)
  <2> DEFINE closing == {q \in Others(p) : "show" \in class[q] /\ ~isTransitioning[q]}
  <2>1. /\ ~isTransitioning[p] /\ "show" \notin class[p] /\ ~ActivesBusy(p)
        /\ \E hidden \in SUBSET closing : /\ hidden = closing \/ config.prevents
                                          /\ ShowAndHide(p, hidden, unset)
    BY <1>2 DEF Show
  <2>2. PICK hidden \in SUBSET closing : /\ hidden = closing \/ config.prevents
                                         /\ ShowAndHide(p, hidden, unset)
    BY <2>1
  <2> QED BY <2>1, <2>2, ShowAndHideInv
<1> QED BY <1>1, <1>2

LEMMA NextInv == Inv /\ [Next]_vars => Inv'
<1> SUFFICES ASSUME Inv, [Next]_vars PROVE Inv'
  OBVIOUS
<1>1. calls \in Nat
  BY DEF Inv, TypeOK
<1>2. ASSUME NEW p \in Panels, NEW unset, Called, Show(p, unset) \/ Hide(p) PROVE Inv'
  BY <1>1, <1>2, ShowInv, HideInv DEF Called
<1>3. ASSUME NEW p \in Panels, Toggle(p) PROVE Inv'
  BY <1>2, <1>3 DEF Toggle
<1>4. ASSUME NEW p \in Panels, ScriptShow(p) \/ ScriptHide(p) PROVE Inv'
  BY <1>2, <1>4 DEF ScriptShow, ScriptHide
<1>5. ASSUME NEW p \in Panels, Dispose(p) PROVE Inv'
  BY <1>5, DisposeInv
<1>6. ASSUME NEW p \in Panels, TransitionEnd(p) PROVE Inv'
  BY <1>6, TransitionEndInv
<1>7. CASE UNCHANGED vars
  BY <1>7 DEF vars, Inv, TypeOK, FlagInv, CalmInv, TriggerInv, OpenInv, Opens
<1> QED BY <1>3, <1>4, <1>5, <1>6, <1>7 DEF Next, Visitor, Scripts, Browser

LEMMA InvHolds == Spec => []Inv
BY InitInv, NextInv, PTL DEF Spec

--------------------------------------------------------------------------------
\* The types, and the flag that refuses calls: set exactly while a handler of the panel's own
\* instance waits for the end of a transition, so no panel refuses calls for ever.
THEOREM ConsistentHolds == Spec => []Consistent
<1>1. Inv => Consistent
  BY DEF Inv, FlagInv, HasOwn, Consistent, FlagMatchesTransition
<1> QED BY <1>1, InvHolds, PTL

\* However its headers are clicked during transitions, an accordion that began closed and whose
\* page neither disposes nor prevents never has two panels open or opening.
THEOREM OneOpenPanelHolds == Spec => []OneOpenPanel
<1>1. Inv => OneOpenPanel
  BY DEF Inv, OpenInv, OneOpenPanel
<1> QED BY <1>1, InvHolds, PTL

\* A panel at rest is open exactly when its trigger says so, where no constructor has read the
\* classes of a moving accordion and nothing was disposed of.
THEOREM TriggerTellsTruthHolds == Spec => []TriggerTellsTruth
<1>1. Inv => TriggerTellsTruth
  <2> SUFFICES ASSUME Inv, ~(config.parent /\ config.marked), ~config.disposes,
                      NEW p \in Panels, pending[p] = <<>>
               PROVE  expanded[p] = (class[p] = Shown)
    BY DEF TriggerTellsTruth
  <2>1. expanded[p] <=> class[p] = Shown
    BY EmptyHasNone DEF Inv, TriggerInv
  <2>2. expanded[p] \in BOOLEAN
    BY DEF Inv, TypeOK
  <2> QED BY <2>1, <2>2
<1> QED BY <1>1, InvHolds, PTL
================================================================================
