# TLA+ models of the CS3205 assignment programs

The repository holds small C network programs: a chat room, two music streaming
servers, an HTTP server and a file transfer client. The servers start one POSIX
thread per connection over shared counters, tables and descriptors, mostly
without locks. What is hard about them is the order of the threads' steps; that
is what the first group of modules models.

The HTTP server delivers a site (`src/http_server/web2`) whose pages have a
carousel, a collapsible navigation bar and, in their stylesheets, modals and
tooltips. The state of these is kept by `js/bootstrap.js`: Bootstrap, vendored, but
the only code of the pages that keeps any. One thread runs it, and what is hard
about it is that a call leaves work behind, for the end of a CSS transition or a
timer, and other calls come in between; that is what the second group models.

Below, `Q1`, `Q2`, `Q3` stand for the directories under
`src/final_submission/assignment2_cs21b016_cs21b019/`. The directories
`src/chat_room`, `src/mp3_streaming` and `src/http_server` hold earlier versions.

## Inventory

| Component | State | Operations | Interacts through |
|---|---|---|---|
| Chat server (Q3 `server...c`) | `clients[]`, `num_clients`, `active_clients`, `client_mutex`, `new_socket`; locals of each thread | accept/refuse; register a username; `\list`, `\bye`, broadcast; disconnection; time-out | one `handle_client` thread per connection, `timeout_checker`, `main`; `pthread_cancel`; the descriptors |
| Chat client (Q3 `tcp_chat_client.c`) | `chat_active`, the socket | read the prompt, send a name, relay both ways, end | two listener threads and the polling `main` |
| Music server (Q1 `server...c`) | `no_connections`; a `Client_args` per thread | accept/refuse; send the number of songs; receive a choice; stream; early exits | one detached thread per connection, `main` |
| HTTP server (Q2, `http_server/server.c`) | `http_request_t` per thread | parse, 501, 404 with page, 200 with file | one detached thread per request |
| Microphone server (`mp3_streaming/music_tcp_server.c`) | heap socket per thread, capture device | as the music server without the limit; capture, encode, send | one thread per connection, the device |
| File transfer client (`file_transfer/client.c`) | the file | receive a name, then content until the end of the stream | none |
| Music clients (Q1, `mp3_streaming`) | the socket | receive a count, send a choice, play | none |
| Earlier chat servers (`chat_room`) | as Q3 | as Q3 without limit (one also without timeout) | as Q3 |
| Carousel (`bootstrap.js` 550-1150) | the instance in the element's data (`_isSliding`, `_isPaused`, `_interval`, `touchTimeout`), the classes of the items and indicators, waiting handlers | `next`, `prev`, `to`, `pause`, `cycle`, `dispose`; keys, mouse, touch | transitions, timers, the event "slid" |
| Collapse (1150-1515) | an instance per panel (`_isTransitioning`), the classes of panels and triggers | `show`, `hide`, `toggle`, `dispose` | the panels of one accordion; transitions |
| Modal (2035-2630) | an instance per modal (`_isShown`, `_isTransitioning`, `_backdrop`, `_ignoreBackdropClick`), the body's class and padding, handlers on the document and the window | `show`, `hide`, `toggle`, `dispose`; Esc, buttons, clicks | other modals through the body, the document and the window; tooltips; transitions |
| Tooltip (2650-3410) | an instance per element (`_hoverState`, `_timeout`, `_activeTrigger`, `_isEnabled`), its tip in the page | enter, leave, click; `show`, `hide`, `toggle`, `enable`, `disable`, `dispose` | the modal around the element; transitions, delays |
| Other Bootstrap plugins | a class or a menu each | - | events |
| Web assets (pages, styles, jQuery, `custom.js`) | - | - | - |

What makes each correct: the chat server should serve every client it accepts
and at most `max_clients` of them, keep usernames unique, deliver a broadcast to
everybody registered, disconnect only idle clients and all of them, and never
stop. The music server should serve at most `-n` connections, each by a thread
of its own, close every connection, and outlive its clients; the microphone
server should also give back the device and let a listener hear what the
microphone heard without gaps. The HTTP server should send to each client the
response to its own request, whole and in order. The clients should end when the
connection does, the chat client with everything shown and the user's lines in
order, the file client with everything saved. The carousel should always show
one item, go where it was asked to, and keep cycling; an accordion have one panel
open and triggers that say so; the modals leave the page as they found it and
stay usable; a tip be there while it is wanted and no longer.

The hard behaviours are listed with their lines in `PROJECT.json` (`hazards`).

## Modules

| Module | Contents |
|---|---|
| `Connections` | abstract: what a server with a thread per connection promises |
| `Registry` | abstract: what a registry of users promises |
| `ChatServer` | the Q3 server: `main`, `handle_client`, `send_to_all`, `remove_client`, `timeout_checker` |
| `MusicServer` | the Q1 server: `main`, `handle_client` |
| `HttpServer` | the Q2 server: `main`, `handle_request`, `send_file`, `send_error` |
| `MicrophoneServer` | `mp3_streaming/music_tcp_server.c`: `main`, `handle_client`, the capture device |
| `ChatClient` | the Q3 client: `main`, the two listeners; the server and TCP as environment |
| `FileTransferClient` | `file_transfer/client.c`: `main`; the server's stream as environment |
| `Carousel` | `bootstrap.js`: the carousel on one element |
| `Collapse` | `bootstrap.js`: collapsible panels, alone and in an accordion |
| `Modal`, `Tooltip` | `bootstrap.js`: the modals of a page; the tooltips of a page |
| `Overlays` | both on one page, the tooltips on elements of a modal |
| `X`Props | the properties of module `X` |
| `MCX` | its instances for TLC |
| `X`Proofs | its theorems; `ClientProofs` has those of both clients, whose definitions have distinct names for that |

### Chat server

A thread is a member of `Conn` (the `handle_client` of that connection),
`Main` or `Checker`. `pc` names the point a thread has reached; `reg` is the
value it has loaded and not yet stored, `i` its loop index.

| Variable | Code |
|---|---|
| `client_socket`, `username`, `curr_client` | locals of `handle_client` |
| `ret` | the caller of the `send_to_all` (or list) in progress |
| `from` | the connection a blocked `recv()` reads: the descriptor is resolved when the call is made, not when it returns |
| `new_socket`, `clients`, `num_clients`, `active_clients`, `client_mutex` | the variables of these names |
| `current_time` | the checker's local |
| `cancelled` | threads on which `pthread_cancel` was called |
| `fdTab`, `gone`, `now` | kernel: descriptor table, clients that have gone, `time(NULL)` |
| `sent`, `seen`, `history` | auxiliary: recipients of each `send_to_all`, time of each thread's last message, whether an unlocked removal overlapped another update |

| Actions | Lines of the server |
|---|---|
| `Accept`, `Refuse`, `Admit`, `LoadActive`, `StoreActive`, `CreateThread` | 90-112 |
| `Start`, `Await`, `RecvName`, `LockAndScan`, `Drop`/`Rejected`, `WriteEntry`, `CountEntry` | 118-159 |
| `SendUserList` | 161-179 and 186-196 |
| `Recv`, `Stamp`, `Bye`, `RecvEnd` | 183-223: a message has been received; it is noted in `last_active` and its kind decides what comes; `\bye` finds the entry |
| `LockAll`, `SendNext`, `UnlockAll` | 233-244 |
| `Shift`, `Uncount`, `CloseAfterBye` | 207-215, 246-253 |
| `Drop`, `Dropped` | 128-134, 226-230 |
| `LockSweep`, `KeepClient`, `Condemn`, `CloseTimedOut`, `CancelTimedOut`, `ShiftTimedOut`, `UncountTimedOut`, `UnlockSweep` | 255-285: `Condemn` is the check of line 263; the checker then stays at the notices (265-275) until the last of these sends has returned and `CloseTimedOut` closes |
| `Die` | the cancellation of line 279 taking effect |
| `Exit` | 90-94, 108-112, and SIGPIPE at any `send()` |
| `Hangup`, `Tick` | the clients, the clock |

Granularity. `x++` and `x--` are a load and a store, on every shared counter.
The handover of `&new_socket`, every lock operation, the return of a `recv()`, the
unlocked store of `last_active` that follows it (185), and the check of a time-out
are steps of their own: a message can arrive and be noted between a check and
the `close()` it leads to, and the client is disconnected all the same. One step
are: the scan for a username, the fields of an entry written under the lock,
the shift of `remove_client`, the scan of `\bye`, each list, the load and the store
around `close()` (`close()` with the load of `active_clients` after it; the store with
`pthread_cancel`), and what follows a `send()` with its return. The notices of a
time-out (265-275) are one point at which the checker waits, whichever of them it
is that blocks. Races inside those (a list read while an entry is being copied,
for instance) are therefore not modelled; every race found here remains without
them.

Where a thread is at a `send()`, `Sending` gives the descriptors it may be sending to.
Such a thread may end the process (SIGPIPE, `Exit`), go on, or wait for ever for a
client that is connected and does not read (`Waits`, see Fairness).

Descriptors matter because they are reused: `accept()` returns the lowest free
one, so that an entry left behind by a disconnected client can name the
descriptor of a newcomer. `clients[]` is modelled from `-MaxSlot`, because
overlapping removals can take `num_clients` to -1.

A cancelled thread goes on to its next cancellation point (`recv`, `send`,
`close`); `AtCall` says that it goes no further, `Die` ends it there, and a mutex
it holds stays locked.

### Music server

`pc`, `reg`, `client_socket` are of each thread; `args[t]` is the `socket` of the
`Client_args` allocated for it; `left[t]` the buffers of its song still to send;
`updates` (auxiliary) says whether a store of `no_connections` has overwritten
another one.
`Accept`, `Refuse`, `Admit`, `Increment`, `CreateThread`, `CreateFails` are the
loop of `main` (267-304). `Start`, `Greet`, `RecvRequest`, `Open`, `SendChunk`,
`SendFails`, `Finish`, `Decrement` are `handle_client`; `Abandon` is each of its
early exits (164-169, 175-180, 188-193), none of which decrements the counter.
When the client has gone `recv()` may return 0 with `request` uninitialised: the
song number is then anything, so both `RecvRequest` and `Abandon` are possible.
`Exit` is `exit()` in `list_files`, `Kill` is SIGPIPE. A failing `accept()` changes
nothing and is not an action.

### HTTP server

Sockets and files share one table of descriptors: `fdTab` has the sockets, `file`
the descriptor each handler's file is open under, and both are given out lowest
first. A file that exists is therefore not found when there is no descriptor
left; `exhausted` (auxiliary) remembers the handlers this has happened to. What
is sent is abstracted to items: a status line, or the k-th buffer of a file.

| Actions | Lines of the server |
|---|---|
| `Accept`, `CreateThread`, `CreateFails` | the loop of `main`, 179-197 |
| `Start`, `RecvRequest`, `RecvFails`, `NotImplemented`, `CloseSocket` | `handle_request`, `send_error` |
| `OpenFile`, `SendHeader`, `SendChunk`, `CloseFile` | `send_file`, a file that is found |
| `SendNotFound`, `OpenPage`, `SendError404` | `send_file`, a file that is not; without an error page the status line goes out twice |
| `Kill`, `Crash` | SIGPIPE; `pthread_detach()` of an indeterminate id after a failed `pthread_create()` |
| `Hangup` | the client |

`CreateFails` leaves its connection open with nobody to serve it (`orphan`): the
result of `pthread_create()` is not looked at. When `recv()` returns 0 the buffer
is uninitialised, so that any request follows. `send()` goes to whatever
connection its descriptor names when it is made, which is what makes
`ResponseUnlessExhausted` a property of descriptors and not only of one handler.
A path that opens but has no content, a directory for instance, is a file of no
buffers.

### Microphone server

As the music server, without counter or limit (`-n` is parsed and never used).
`OpenDevice`, `Read`, `SendAudio`, `SendAudioFails`, `CloseDevice` are the branch
for request -1; `Record` is the device, which puts a period into the ring of a
stream whether or not it is read and stops the stream when the ring is full
(`overrun`). `recorded`, `taken` and `heard` are the numbers of the last period
recorded, read and sent, modulo `Wrap`. Every error of the device is an `exit()`
of the process (`ExitFor`, `ReadFails`). A `send()` that waits for a slow client is
a `SendAudio` not taken yet. The encoder is abstracted: what is sent after a read
is that period.

### Chat client

`Main`, `Incoming` and `Outgoing` are the threads, `message` the line in the buffer
of each, `chat_active` the flag they share. `hoisted` is chosen once: whether this
build reads `chat_active` only once, which the unsynchronised loop of `main`
permits; the documented command compiles without optimisation, where it does not.
The environment: `Say` and `CloseByServer` are the server; `Reset` is TCP's answer
to a line that reaches a closed socket, which may discard what is unread. TCP
keeps no message boundaries, so `Read` takes any number of messages.
`set_user_name` is `ReadPrompt`, `PromptFails`, `ReadName`, `SendName`; the listeners
are `Receive`, `ReceiveEnd` and `TypeLine`, `SendLine`; `main` ends by `Poll`.

### File transfer client

A byte is its position in the server's stream, so that losing, repeating or
swapping any is visible. `nul` is the position of the first byte that is 0, if the
stream has one. `RecvName` takes what the first `recv()` returns for the name: its
`filenameLength` bytes are gone from the stream, but the name is used as a C string
(60-66), so that what follows a byte 0 is lost; an empty name makes `fopen()` fail.
`RecvContent` and `WriteContent` are the loop; `RecvEnd` its two ends, each of which
closes the file. The results of `fwrite()` and `fclose()` are not looked at: `Kept` says
that any tail of what the file was to hold may be lost by either, and the
auxiliary `short` that this has happened. `Push` and `EndOfConnection` are the
server, which may stop anywhere.

### Connections, and how the servers implement it

`Connections` takes each connection through `new`, `accepted`, `started`, `served`,
`closed`, and lets it be turned away in between; only the thread that serves a
connection closes it. Each of the music, HTTP and microphone servers is related
to it by `PhaseOf`: a connection is open while some descriptor names it, and
served while its own thread holds that descriptor. The mapping looks at
descriptors, not at program counters, so that serving another's connection or
closing it twice is a step that `Connections` does not have. That each thread
holds the descriptor of its own connection (`OwnDescriptor`) follows from the
refinement; it is stated for the proofs and not checked by a run of its own. The
chat server does not implement `Connections`: that is what
`chat_shared_descriptor` shows.

### Registry, and how the chat server implements it

In `Registry` a member joins under a name that no member has, and leaves only
after it was chosen to; it may be spared in between. `members` are the entries of
`clients[]` below `Settled`, by name, socket and thread: the time-stamp is not part of
who a member is, so that a stale `curr_client` that stamps another entry changes
nothing here. `chosen` are those that the checker (`closed`, `cancelled`) or a
handler after `\bye` has found and not yet shifted out, at the index each of them
holds. Joining is the store of `num_clients` (`CountEntry`), leaving is the shift. A
removal whose index has come to name another entry would take out a member that
nobody chose: `Registry` has no such step. The mapping holds while `history` is
orderly; the step that ends this, or the end of the process, is `Disorder`, after
which nothing is promised. `Spare` is the handler that dies of a cancellation
between finding its entry and removing it.

### The web pages' modules

An action is one handler of the browser's event loop: a click, a key, a script's
call, the end of a transition, a timer. It stands for everything that the handler
calls before it returns. What a handler leaves behind is a variable: `targets`,
`slidDue`, `waiting` (carousel), `pending` (collapse, tooltip), `waits`, `leaving`
(modal), `timer` (tooltip). A transition ends by the browser's event or by the
timer of `transitionEndEmulator` (92-119), whichever comes first; these are one
action. `calls` counts what the visitor and the page's scripts do; the browser's
own actions are not counted.

What a page chooses once is a constant record in a variable (`config`, `page`,
`options`), chosen in `Init`: whether it animates, whether listeners prevent events
(`prevents`), whether scripts dispose of instances (`disposes`). Where a property
does not hold on every such page it says on which it does. In all four modules
scripts call from events of their own, never from inside a handler of the events
that the plugins trigger.

Carousel. `Items` are in document order. `active` is a set, because the end of a
transition removes the class from one item and gives it to another without
looking further. `targets` are the items being brought in by slides of the
instance, `orphans` by those of instances disposed of meanwhile. The direction
classes of a slide are abstracted to its target.

| Actions | Lines of `bootstrap.js` |
|---|---|
| `Load`, `Control`, `Indicator`, `ScriptTo`, `ScriptPause`, `ScriptCycle` | 1044-1136, with `next`/`prev` 664-682, `pause`, `cycle` 684-711, `to` 713-740 |
| `Dispose` | 742-753 |
| `Keydown`, `MouseEnter`, `MouseLeave`, `TouchEnd`, `TouchTimer` | 762-898 |
| `Tick` | 670-676, from the interval |
| `TransitionEnd` | 1022-1030 |
| `SlidTimer`, `RunRequest` | 1029 and the handlers of line 725: "slid" is triggered from a timer, so that a slide can begin between the end of another and its "slid" |
| `Slide` (operator) | `_slide` 923-1041 |

Collapse. `class[p]` is the set of the panel's classes, `expanded[p]` the state of its
trigger. `AriaAfter` is what the constructor of a new instance does to the
triggers of a whole accordion (1208-1232, 1396-1425). `ShowAndHide` is `show` with the
calls of `hide` on the other panels; line 1289 then removes the instances of all
of them when the first had none, which `Lose` models: the handlers that wait then
belong to an instance nobody can reach. That can be the opening panel's own, if
it counts as moving, unless its constructor made the call (`Toggle`): then its data
are set only afterwards (`unset`). `TransitionEnd` runs the handlers of a
panel in their order (1304-1316, 1358-1366) up to one that fails because its
instance was disposed of.

Modal. With the class "fade" `show` is backdrop, then dialog; `hide` is element, then
backdrop: `BackdropShown`, `DialogShown`, `ElementHidden`, `BackdropGone` are the ends
of these four transitions. `leaving[m]` says which backdrop the last waits for: line
2417 removes the backdrop the instance holds by then, which is another one when
`show` has come in between, so that the first stays (`stray`). `padding` counts widths
of the scrollbar; `saved` is the one value that all modals share. `trap` and `resizing`
are the handlers on the document and on the window, which `hide` removes for all
modals (2199, 2336). `Press`, `Release`, `ClickIgnored`, `ClickAround` are the mouse
(2157-2163, 2383-2398).

Tooltip. The instance is a record and each method an operator on it (`Enter` 3222-3253,
`Leave` 3255-3295, `ShowTip` 2932-3028, `HideTip` 3030-3081, `ClickToggle` and
`ScriptToggle` 2875-2905, `TimerDone` 3248-3284); `pending` is the list of completions that
wait for the tip's transition, run in order by `TransitionDone`. `placed` is the
attribute `x-placement`, which a Popper sets when it is made (in `show`) and removes
when it is destroyed (by the completion of `hide`, 3048, whether or not that takes
the tip out of the page). The completion of `show` (`ShownDone`) looks at it first:
`FixTransition` (3362-3375) hides a tip that has lost it and shows it again without
a fade, which also forgets its triggers. This happens when the pointer leaves and
comes back during one fade. The parameter `prevented` of the operators says which
of the events "show" and "hide" a listener prevents in the step.

Overlays. The composition: a modal that is being hidden triggers "hide", for which
every tooltip on one of its elements has a handler (3197-3201). The handler runs
inside the modal's step, before a listener can have prevented it, so that
`TipsOfStep` is a conjunct of the modal's actions and not an action. `listens` are the
tooltips whose handler is still there: disposing of one of them, or of the modal,
removes the handlers of all (2911, 2217).

## Runs

| Run | Shows | Bounds |
|---|---|---|
| `chat_two` | types, mutex ownership, the one-sided drift of `curr_client`, who is timed out; `Registry` | 2 clients, 2 descriptors, 2 messages, 2 clock values |
| `chat_three` | counter bound, unique names and complete broadcasts until raced | 3 clients, 2 places, 1 message, no time-out |
| `chat_live` | the checker sweeps again and again, and silent clients are removed, unless the mutex is held for ever | 2 clients, 1 message, fairness |
| `music` | nothing left open, what the counter counts, its bound; `Connections`; the thread of a client that has gone ends | 3 connections, 2 places, songs of up to 2 buffers, fairness |
| `http` | nothing left open, the response to each request; `Connections` | 3 connections, 4 descriptors, an index of 2 buffers, an error page of 1, a missing path |
| `microphone` | nothing left open, no gap in the audio; `Connections`; the thread of a client that has gone ends | 2 connections, 1 stream with a ring of 2 periods, songs of 1 buffer, fairness |
| `chat_client` | lines in order; everything shown before the end; the end follows the connection's | 3 lines, 3 messages, both builds, fairness |
| `file_client` | nothing dropped but by `fwrite()`, `fclose()` or a byte 0 in the name; the end follows the connection's | name of 2, content of 5, buffer of 3 bytes, the first byte 0 anywhere or nowhere, fairness |
| `carousel` | one item shown and its indicator lit, the flag of a slide, cycling that survives slides; a call of `to` put off by slides is served | 3 items, every kind of page, 4 calls, fairness |
| `collapse` | one open panel, triggers that tell the truth, the flag of a transition; a panel that moves comes to rest | 3 panels, every kind of page, 5 calls, fairness |
| `overlays` | the page restored, handlers and flags that no closed modal leaves behind; a wanted tip is there in every state, one that is not wanted goes, and the modal takes its tips with it | 2 modals, 2 tips in the first, 4 calls; the default page and tips, and each that departs from them in one option; 2 further calls on one tip of the default page; fairness |

Why these are enough. Chat: two clients are the fewest for which entries move and
descriptors are reused by another thread; a third is needed for a removal to move
an entry past a reader, for a place to be given back and taken again, and for two
removals to overlap an insertion. A time-out of 0 seconds and two clock values
make "idle" and "active" both reachable. Music: three connections and two places
let a place be given back, taken again and refused, and updates be lost. HTTP:
four descriptors for three connections make files and sockets compete, down to a
file that is not found for want of one. Microphone: one stream for two clients
lets the second meet a busy device, and a ring of two periods overruns; `Wrap` is
larger than the ring by more than one, so that a skipped period is not taken for
the next one. Chat client: two messages can be split between two reads with a
third still to come, and `main` and the outgoing thread both have a line. File
client: the stream is longer than two buffers, so that the name can take part of
the content, a buffer can be partly old, and several rounds of the loop are needed.
Carousel: three items tell next from previous, and the first slide, a second one
that overtakes a waiting `to`, and a call during it are three calls; the fourth can
dispose, pause or touch. Collapse: three panels are the fewest with two others of
which the first differs from the rest; five calls let all three move, rest and
move again. The exception that `OneOpenPanel` makes for pages that
come with a panel open is needed already with two calls, and with five even where
only the last panel is: `show` has thrown its instance away, and nothing refuses
the next `show`. Overlays: two modals
share everything that modals share, two tips everything that tips share; four
calls show a modal, reach a tip in it and leave it, and disturb them once. The
options are independent branches, so that departures from the default are
tried one at a time. A tip is put back by `FixTransition` after three calls on it
(enter, leave, enter), and taken out of the page as it is after five; the fifth and
the sixth call are therefore left to one tip of the default page and to the end
of its modal (`Narrowing`). The properties of `overlays` have also been checked with
a single tip and one call more, those of `carousel` with two items and five calls.

A run that disagrees with a text of the repository. It checks one property, which
TLC finds violated; `PROJECT.json` (`findings`) quotes the text.

| Run | What happens |
|---|---|
| `chat_shared_descriptor` | `main` overwrites `new_socket` before the thread has read it: two threads on one client, none on the other |

The models have more behaviours of this kind, for which there is no run. In the
chat server: a disconnection and then the time-out of the entry left behind
decrement `active_clients` twice, so that more than `max_clients` are served; `\bye`
does not decrement it, so that an empty server ends up full; overlapping
removals take `num_clients` to -1 and put one username into two entries; a thread
cancelled inside `send_to_all` never releases the mutex, and the checker stops; a
stale `curr_client` renews another client's entry, so that an active client is
timed out; a client whose message arrives after the check of line 263 and before
the `close()` of line 276, while the notices go out, is disconnected although the
message has been noted; a client that stays connected and does not read can
block a `send()` made under the mutex, and with it every other client and the
checker, for ever; the entry of a disconnected client names the descriptor of a
newcomer. In the music server: a lost update of `no_connections` passes its limit,
early exits make it refuse for good, and a client that is killed, as the client
program advises, ends the server by SIGPIPE. In the microphone server a second
request for a device without streams left ends the process. The file client
reports success for a file with bytes missing when `fwrite()` or `fclose()` fails, and
loses what the first `recv()` returned after a byte 0. In Bootstrap: a
modal whose `show` a listener prevents, or whose `show` comes while its last
backdrop is leaving, refuses `show` and `hide` from then on (`FlagWillClear` names
these two ways); two modals that overlap, one of them disposed of, can leave the
page with padding; a tip that the pointer enters, leaves and enters again during
one fade is put back with its triggers forgotten, and then stays when the pointer
has long left, until another call hides it; entered, left, entered, left and
entered again, it is out of the page but keeps the class "show", so that the visit
does not bring it back; without a fade, a tip that `hide` makes invisible may stay in
the page, because its completion looks at a hover state that is reset only after it.
The passing properties state exactly up to where things hold (`history`, `updates`,
`i[Checker] = curr_client[t]`, `StuckHolder`, `short`, `PutBack`, `exhausted`, `hoisted`,
`torn`, `stray`, `prevents`, `disposes`).

Constraints. `chat_live` and `overlays` have some. `OrderlyStart` is a scenario: `main`
waits with the next `accept()` until the last client has named itself or left, so
that the race over `new_socket` plays no part in what the run shows. `FirstChoices`
fixes the first connection and name in place of symmetry. They restrict only
`Accept` and `RecvName`, and `Narrowing` only the calls of the visitor and of scripts;
no fairness applies to these, so no fair action is ever blocked.

Symmetry is used where connections and names are interchangeable and no
liveness is checked.

Deadlock is not checked: with every connection or call used up, or after the
process has ended, the system really stops.

## Fairness

Chat server: `main` inside one round of its loop, the checker, and each handler are
weakly fair: they are threads of one process. But a thread at a `send()` may wait
there for ever as long as the client it sends to is connected: `Waits` says when,
and the fairness of a thread does not apply then. A `send()` has to return only
when the connection has ended, or when the sender is cancelled in it. Taking the
mutex in a handler is strongly fair: the checker releases it and sleeps between
two sweeps, so that the mutex is free again and again and a waiting handler gets
it. The checker itself has weak fairness only. Nothing is assumed of clients
(`Accept`, `RecvName`, messages and `Hangup` have no fairness, and they need not
read), of the clock, or of failures; that `recv()` reports the end of a connection
(`RecvEnd`) is part of a handler's progress. Both liveness properties therefore
have an exception: whoever holds the mutex is stuck for ever (`StuckHolder`), because
it has been cancelled there or sends to a client that does not read.

Music and microphone servers: `main` and the threads are weakly fair. A client may
never ask and never read; only when it has gone must `recv()` and `send()` return.
The device records (weakly fair). `SendAudioFails` is strongly fair: a kernel may
buffer some periods for a client that has gone, but not all of them for ever.

Chat client: `main`, the incoming listener and `SendLine` are weakly fair; the user
and the server are not. File client: the client is weakly fair, the server not.
The HTTP server is checked for safety only.

Web pages: a transition ends or the emulator's timer fires, the timers of touches,
delays and of "slid" fire, and a loop over the handlers of an event goes on
(`RunRequest`). The visitor and the scripts owe nothing, and neither does the
carousel's interval: on a hidden page it does nothing.

## Proofs

TLAPS proves, for every value of the constants that the `...Assumption` of the
module allows (types, and names that are distinct):

| Theorem | Property | Argument |
|---|---|---|
| `ChatServerProofs!TypeCorrect` | `TypeOK` | with `Sizes`: a registration only happens inside the array, so that `num_clients`, and every loaded copy of it, stays in reach of a shift |
| `ChatServerProofs!MutexDiscipline` | `LockDiscipline` | itself inductive |
| `ChatServerProofs!CounterNeverAboveLimit` | `CounterBounded` | the loaded copies are bounded too: a decrement that is pending stores less than the limit, so that the test of `main` cannot be undone before its own store |
| `ChatServerProofs!IndexDriftsUpOnly` | `IndexNotBelowEntry` | removals only move entries down; with the fact that an unstarted thread is in no entry |
| `ChatServerProofs!UniqueUntilRaced` | `UniqueUnlessRaced` | below |
| `ChatServerProofs!OnlyIdleTimedOut` | `OnlyIdleTimedOutInPlace` | `StampInv`: the entry at the place where a thread's `curr_client` points, when it is that thread's, bears a time not before that of its last message, unless the thread is between `recv()` and the store of that time; no removal brings an entry to that place, since it would come from above (`IndexInv`) |
| `ChatServerProofs!BroadcastReachesAll` | `BroadcastUnlessRaced` | `SentInv`: every entry the loop has passed is reached. It rests on `WrittenInv` and `HandedOver`: whatever `num_clients`, or a loaded copy of it, counts has been written, with a descriptor that `accept()` returned |
| `ChatServerProofs!RegistryImplemented` | `ImplementsRegistry` | below |
| `MusicServerProofs!TypeCorrect` | `TypeOK` | with `MainHolds`: the connection `main` deals with has no thread yet |
| `MusicServerProofs!ServesItsOwn`, `EveryPathCloses` | `OwnDescriptor`, `NothingLeftOpen` | one invariant, `OwnInv`: holders hold descriptors of their own connections, and every open descriptor has its holder. The second half is what lets `accept()` take a connection that no descriptor names |
| `MusicServerProofs!CountNeverAboveLimit` | `CountBounded` | as for the chat server |
| `MusicServerProofs!CountIsAccounted` | `CountAccounted` | cardinality of `Counted`: every store that overwrites nothing adds or removes one member |
| `HttpServerProofs!TypeCorrect` | `TypeOK` | what a step sends is an item of a file that the handler has open |
| `HttpServerProofs!HandlesItsOwn`, `EveryPathCloses` | `OwnDescriptor`, `NothingLeftOpen` | as `OwnInv`, and no file is open under the number of a socket |
| `HttpServerProofs!RespondsToItsRequest` | `ResponseUnlessExhausted` | what a handler has sent is determined by the point it has reached (`HandlerSent`), which no other handler disturbs because each sends on its own descriptor |
| `MicrophoneServerProofs!TypeCorrect` | `TypeOK` | with `DeviceHeld`: the streams of the device are those of the threads that use it |
| `MicrophoneServerProofs!ServesItsOwn`, `EveryPathReleases` | `OwnDescriptor`, `NothingLeftOpen` | as `OwnInv`, with the streams of the device |
| `MicrophoneServerProofs!NothingSkipped` | `RecordingUnbroken` | `HeardInv`: in a thread about to send, the period in the buffer is the one after the last sent; until a send fails it is otherwise the last sent |
| `ServerImplementsConnections` of the music, HTTP and microphone servers | `ImplementsConnections` | initial states map to `Connections!Init`; by the invariants above every step maps to one step of `Connections` or to a stutter |
| `ClientProofs!TypeCorrect`, `NothingUnshown` | `TypeOK`, `EndsAfterLastMessage` | `SaidInv`: without a reset, shown and unread are all that was said; the flag falls only when nothing is unread |
| `ClientProofs!LinesInOrder` | `InputInOrder` | `LinesInv`: `main` has stopped writing before the outgoing listener exists, so that at most one thread holds a line, the last typed |
| `CarouselProofs!ConsistentHolds`, `OneItemShownHolds` | `Consistent`, `OneItemShown` | `ItemsInv`: as long as no instance was torn from a slide, one item is active, and the indicators name it or the only item on its way |
| `CarouselProofs!CyclingSurvivesSlideHolds` | `CyclingSurvivesSlide` | `CycleInv`: only an instance with an interval to cycle by is cycling, so that the `cycle` after a slide starts again what its `pause` has stopped; then by cases of `Next` |
| `CollapseProofs!ConsistentHolds` | `Consistent` | `FlagInv`: of the handlers that wait for a panel only the last can be its instance's, and the flag is set exactly when it is |
| `CollapseProofs!TriggerTellsTruthHolds` | `TriggerTellsTruth` | `CalmInv` and `TriggerInv`: without `dispose` a panel moves exactly while a handler waits, and its trigger says where it is going |
| `CollapseProofs!OneOpenPanelHolds` | `OneOpenPanel` | `OpenInv`, below |
| `OverlaysProofs!SharedStateConsistent` | `Consistent` | `FlagInv`: a modal waits for a transition only while its flag is set, and the removal of its own backdrop is the last thing it waits for |
| `OverlaysProofs!PageGivenBack` | `PageRestored` | `BodyInv`, below |
| `OverlaysProofs!WantedTipsAreShown` | `WantedTipShown` | `Satisfied`, below |
| `OverlaysProofs!ClosedModalTakesTips` | `ModalTakesTips` | only `hide` and `dispose` make `isShown` false (`OnlyHideCloses`), and the handler of "hide" leaves each tip it reaches without a trigger (`HiddenTipUnwanted`), whatever transition it interrupts |
| `ClientProofs!TransferTypeCorrect`, `EverythingSaved` | `TransferTypeOK`, `NothingDropped` | `StreamInv`: the file holds, in order, only bytes between the name and the part of the buffer that is not yet written, and all of them (`Saved`) until a write is short; what is appended follows all of it |

`UniqueUnlessRaced` says that two entries never share a username until a removal
outside the lock overlaps another update of the registry. It is not inductive: a
removal is two steps, and between them the last entry is there twice; an
insertion is three (scan, write, count), and the scan has to stay true until the
count. `Orderly` adds: at most one removal is under way and the count it has
loaded is current; the entries below `Settled` (one less during a removal) are
distinct; the scanned name is in no entry until it is counted; the
entry written is the one about to be counted. `history` becomes `"raced"` exactly
at the step where the unlocked removal breaks one of these.

`ImplementsRegistry` needs, besides `Orderly`, that a removal still finds its entry
where it was found, several steps later and, for `\bye`, without the lock. `PlaceInv`
says so: every index that is kept for a removal names an entry below
`num_clients`, and a handler comes to a removal only from the broadcast that
announces it (`ReturnsToRemoval`). A shift that leaves `history` orderly overlaps no
other removal, so that its own choice is the only one (`NoOtherChosen`); names being
distinct, it takes out exactly that member (`ShiftLeaves`). Every other step changes
at most the choice of the thread that takes it (`OwnMove`), and the entry that
`CountEntry` adds is the one written, under the name that the scan has found free.

`PageRestored` relates three variables that all modals share to the modals that are
on their way. `BodyInv` (`OverlaysProofs`) says that on a page whose scripts dispose of
nothing the value saved for restoring is always the page without a modal, that
the body has padding only together with the class, and that while it has the
class some modal is not closed yet.

`WantedTipShown` holds in every state and not only between transitions, but while the
handlers run that wait for a transition it does not: a "hidden" takes the tip out
of the page, or only destroys its Popper, and the "shown" behind it makes that
good. `Calm` is what every handler keeps: whatever wants the tip, it has the class
"show". `Seen` is what holds between the runs: a tip that is fading in is in the
page, and the last of the handlers that wait on it is the "shown" of its `show`,
after which it is either in the page or put back without its fade. `Satisfied` is
both. The handlers run in a recursive function (`TransitionDone`) over a list of any
length. Induction over that list is out of reach, but not its contrapositive: if
some handler left the set there would be a first one that did (`Least`, from the
well-foundedness of `<`), and no single handler does (`HandlersStay`, which also
names the state that the last one starts from).

`OneOpenPanel` is about two panels, but what keeps a second one from opening is the
flag of an instance, and `show` may have thrown that instance away. `OpenInv` says
that in an accordion that began closed this never happens: every panel that is
not closed has its instance, and the flag is set while the panel moves. Hence
the first of the other panels always has an instance, so that `LostBy` is empty;
and if another panel is opening, it is that first one and refuses the call, or the
first one is open as well, which the induction hypothesis excludes.

Only proved, and in no run: `TypeCorrect` of the music, HTTP and microphone servers and
of the two clients, and `OwnDescriptor`.

Only model-checked: the liveness properties (`SweepsUnlessStuck`, `SilentRemoved`,
`GoneLeft`, the ends of the two clients and those of the web pages), because fairness is
beyond the prover. Every other property of a run is a theorem, but for
`OneThreadPerClient`, which does not hold. No module declares a RECURSIVE operator.

## Not modelled

- TCP segmentation and buffer contents in the servers: a `recv()` returns one whole
  message. The code reads unterminated buffers; only a request that was never
  received is modelled as arbitrary, because it decides which path is taken.
- The byte that the file client writes behind a buffer that the first `recv()` has
  filled (60), its path when that is longer than its buffer (66), and the byte that
  the chat client writes before an empty one: undefined behaviour.
- Failures before the accept loop starts (sockets, usage), which end the program.
- Wording of messages, logging, the content of songs and pages, the encoder.
- Memory: no allocation fails, and what lies before `clients[0]` is not modelled.
- Bootstrap: the direction classes of a slide and intervals of single items; the
  dimension that a collapse animates, and several triggers of one panel; where a
  modal puts the focus back, the padding of fixed and sticky content and of the
  dialog; what a tip contains and where it is placed, tooltips by selector, and
  the moving of a title to its data (`_fixTitle`). The options `keyboard`,
  `touch` and `pause` of the carousel have their defaults. Calls from inside a
  listener of "show", "hide" or "slide".
- The programs listed as `not_modelled` in `PROJECT.json`: the earlier chat servers,
  whose defects the Q3 server shares, the music clients (one connection, one
  request, audio output), the other plugins of Bootstrap, of which each handler is one
  step on one class or works as the tooltip does (popover), and the web assets:
  `custom.js` starts third-party widgets and keeps nothing.

## Plan

Done: the modules above, their runs and proofs. Next, in this order:

1. Chat server: `ActiveAccounted`, what `active_clients` counts as long as nobody says
   `\bye`, no entry outlives its thread and no update is lost (as `CountAccounted`
   does for the music server); then its proof.
2. `ChatSession`: the chat client composed with the server's side of one connection,
   so that `\bye`, time-out and refusal are seen from the client.
3. Dropdown and scroll spy of Bootstrap; the earlier chat servers, where they differ
   from Q3.
