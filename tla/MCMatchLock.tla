---------------------------- MODULE MCMatchLock ----------------------------
(* Small instances of MatchLock for TLC: two calls of process p, of which the *)
(* second may give up in the local queue, and one call of process q.         *)
EXTENDS MatchLock

CONSTANTS a1, a2, b1, p, q

CallerHome == [c \in Caller |-> IF c = b1 THEN q ELSE p]
=============================================================================
