------------------------------ MODULE MCXPush ------------------------------
(* A small instance for TLC. *)
EXTENDS XPush

ByName == [x \in Messages |-> IF x = "x1" THEN "post1" ELSE "post2"]
Some == [m \in Monitors |-> IF m = "m1" THEN Posts ELSE {"post2"}]
OneEach == [m \in Monitors |-> IF m = "m1" THEN "realtime" ELSE "batch"]
Newer == [p \in Processes |-> IF p = "new" THEN Messages ELSE Messages \ {"x2"}]
==============================================================================
