--------------------------- MODULE MatchSections ---------------------------
(***************************************************************************)
(* What store.withLock() promises to the match service: sections enter one *)
(* at a time, unless the one inside overran, that is lost its lease.  An    *)
(* overrun section never gets the lock back; it may still run to its end.   *)
(***************************************************************************)
CONSTANT Section

VARIABLES
  inside,   \* the sections being run
  overrun   \* those of them that lost the lock

Init == inside = {} /\ overrun = {}

Enter(s) ==
  /\ s \notin inside
  /\ inside \subseteq overrun
  /\ inside' = inside \cup {s}
  /\ UNCHANGED overrun

Overrun(s) ==
  /\ s \in inside \ overrun
  /\ overrun' = overrun \cup {s}
  /\ UNCHANGED inside

\* The section ended, or its process did (then others of the process end with it).
Leave(S) ==
  /\ S # {} /\ S \subseteq inside
  /\ inside' = inside \ S
  /\ overrun' = overrun \ S

Next ==
  \/ \E s \in Section : Enter(s) \/ Overrun(s)
  \/ \E S \in SUBSET Section : Leave(S)

vars == <<inside, overrun>>

Spec == Init /\ [][Next]_vars
=============================================================================
