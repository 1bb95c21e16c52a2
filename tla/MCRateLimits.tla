---------------------------- MODULE MCRateLimits ----------------------------
(* Small instances of RateLimits for TLC. *)
EXTENDS RateLimits, TLC

\* One attempt sends two messages, the other a single one.
CountMixed == [a \in Attempts |-> IF a = CHOOSE x \in Attempts : TRUE THEN 2 ELSE 1]

\* Every slot contributes to all messages of an attempt.
AllParts == [a \in Attempts |-> [s \in Slots |-> Parts(a)]]
LimitTwo == [c \in Counters |-> 2]
=============================================================================
