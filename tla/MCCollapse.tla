------------------------------- MODULE MCCollapse ------------------------------
(* Model-checking instance of Collapse.                                        *)
EXTENDS CollapseProps
================================================================================
