----------------------------- MODULE Heartbeats -----------------------------
(***************************************************************************)
(* Liveness of the replicas (RedisStore.heartbeat, listDeadInstances,       *)
(* forgetInstance; MatchService.start, reapDeadInstancesLocked).            *)
(*                                                                         *)
(* A replica writes its key with a TTL at every interval; a replica whose   *)
(* key is gone is dead and any other one removes it.  When Redis itself was *)
(* unreachable every key is gone at once, so a replica that lost Redis      *)
(* reaps nobody until one TTL after its next successful beat.  Time is      *)
(* counted in heartbeat intervals.                                          *)
(***************************************************************************)
EXTENDS Integers, FiniteSets

CONSTANTS
  Replica,
  Mortal,         \* the replicas that may crash or stop
  BeatTtl,        \* instanceTtlMs / heartbeatIntervalMs
  MaxOutages,     \* bound: lost connections of one behaviour
  MaxStarts       \* bound: processes started again

ASSUME HeartbeatsAssumption ==
  /\ Mortal \subseteq Replica
  /\ BeatTtl \in Nat \ {0} /\ MaxOutages \in Nat /\ MaxStarts \in Nat

Never == BeatTtl + 1      \* reapAllowedAt = Infinity

VARIABLES
  alive,      \* running processes
  linked,     \* processes whose client is connected
  known,      \* the set instances
  keyLife,    \* intervals the key instance:{id} still has; 0 when it is gone
  grace,      \* reapAllowedAt - now
  due,        \* processes whose beat timer fires in this interval
  seen,       \* history: intervals in a row at whose end the client was connected
  fresh,      \* history: processes started again that have not seen a whole TTL
  wrongly,    \* history: reaped alive by somebody who could not know
  outages, starts

heartVars == <<alive, linked, known, keyLife, grace, due, seen, fresh, wrongly, outages, starts>>
Peers == <<alive, fresh, starts>>

HeartbeatsTypeOK ==
  /\ {alive, linked, known, due, fresh} \subseteq SUBSET Replica
  /\ keyLife \in [Replica -> 0..BeatTtl]
  /\ grace \in [Replica -> 0..Never]
  /\ seen \in [Replica -> 0..BeatTtl]
  /\ wrongly \in BOOLEAN
  /\ outages \in Nat /\ starts \in Nat

\* Every replica has been up for a while.
HeartbeatsInit ==
  /\ alive = Replica /\ linked = Replica /\ known = Replica
  /\ keyLife = [i \in Replica |-> BeatTtl]
  /\ grace = [i \in Replica |-> 0]
  /\ due = {} /\ fresh = {} /\ wrongly = FALSE
  /\ seen = [i \in Replica |-> BeatTtl]
  /\ outages = 0 /\ starts = 0

\* Mutant.
heartbeatOnly(i) ==
  /\ known' = known \cup {i}
  /\ keyLife' = [keyLife EXCEPT ![i] = BeatTtl]
  /\ grace' = [grace EXCEPT ![i] = IF @ = Never THEN 0 ELSE @]

\* Mutant.
heartbeatForgetsGrace(i) ==
  /\ known' = known \cup {i}
  /\ keyLife' = [keyLife EXCEPT ![i] = BeatTtl]
  /\ UNCHANGED grace

\* What a successful heartbeat writes, and when reaping is allowed again.
heartbeat(i) ==
  /\ known' = known \cup {i}
  /\ keyLife' = [keyLife EXCEPT ![i] = BeatTtl]
  /\ grace' = [grace EXCEPT ![i] = IF @ = Never THEN BeatTtl ELSE @]

\* The timer fires.  Without a connection the command times out: markOutage.
beat(i) ==
  /\ i \in due
  /\ due' = due \ {i}
  /\ IF i \in linked THEN heartbeat(i)
     ELSE grace' = [grace EXCEPT ![i] = Never] /\ UNCHANGED <<known, keyLife>>
  /\ UNCHANGED <<Peers, linked, seen, wrongly, outages>>

\* An interval passes; every timer has fired in it.
Interval ==
  /\ due = {}
  /\ due' = alive
  /\ keyLife' = [i \in Replica |-> IF keyLife[i] > 0 THEN keyLife[i] - 1 ELSE 0]
  /\ grace' = [i \in Replica |-> IF grace[i] \in 1..BeatTtl THEN grace[i] - 1 ELSE grace[i]]
  /\ seen' = [i \in Replica |-> IF i \notin linked THEN 0
                                ELSE IF seen[i] < BeatTtl THEN seen[i] + 1 ELSE BeatTtl]
  /\ fresh' = {i \in fresh : seen'[i] < BeatTtl}
  /\ UNCHANGED <<alive, linked, known, wrongly, outages, starts>>

\* Redis (for all of them) or one replica's network goes.
Outage(lost) ==
  /\ outages < MaxOutages /\ lost # {}
  /\ outages' = outages + 1
  /\ linked' = linked \ lost
  /\ UNCHANGED <<Peers, known, keyLife, grace, due, seen, wrongly>>

\* The client notices: "close".
markOutage(i) ==
  /\ i \in alive \ linked /\ grace[i] # Never
  /\ grace' = [grace EXCEPT ![i] = Never]
  /\ UNCHANGED <<Peers, linked, known, keyLife, due, seen, wrongly, outages>>

\* It reconnects: "ready", after "close".  The last beat is sent again.
ready(i) ==
  /\ i \in alive \ linked /\ grace[i] = Never
  /\ linked' = linked \cup {i}
  /\ heartbeat(i)
  /\ UNCHANGED <<Peers, due, seen, wrongly, outages>>

listDeadInstances(i) == IF grace[i] > 0 THEN {} ELSE {j \in known : keyLife[j] = 0}

reapDeadInstancesLocked(i) ==
  /\ i \in alive \cap linked
  /\ LET dead == listDeadInstances(i) \ {i} IN
     /\ dead # {}
     /\ known' = known \ dead
     /\ wrongly' = (wrongly \/ (dead \cap alive # {} /\ i \notin fresh /\ seen[i] < BeatTtl))
  /\ UNCHANGED <<Peers, linked, keyLife, grace, due, seen, outages>>

Gone(i) ==
  /\ i \in alive \cap Mortal
  /\ alive' = alive \ {i} /\ linked' = linked \ {i} /\ due' = due \ {i} /\ fresh' = fresh \ {i}
  /\ UNCHANGED <<grace, seen, wrongly, outages, starts>>

Die(i) == Gone(i) /\ UNCHANGED <<known, keyLife>>

\* shutdown: forgetInstance is its last command.
shutdown(i) ==
  /\ i \in linked
  /\ Gone(i)
  /\ known' = known \ {i} /\ keyLife' = [keyLife EXCEPT ![i] = 0]

\* A new process under the same id: start() stores a heartbeat first.  It knows
\* of no outage: reapAllowedAt = 0.
start(i) ==
  /\ i \notin alive /\ starts < MaxStarts
  /\ starts' = starts + 1
  /\ alive' = alive \cup {i} /\ linked' = linked \cup {i} /\ fresh' = fresh \cup {i}
  /\ known' = known \cup {i}
  /\ keyLife' = [keyLife EXCEPT ![i] = BeatTtl]
  /\ grace' = [grace EXCEPT ![i] = 0]
  /\ seen' = [seen EXCEPT ![i] = 0]
  /\ UNCHANGED <<due, wrongly, outages>>

HeartbeatsNext ==
  \/ Interval
  \/ \E i \in Replica : beat(i) \/ markOutage(i) \/ ready(i) \/ reapDeadInstancesLocked(i)
                        \/ Die(i) \/ shutdown(i) \/ start(i)
  \/ \E lost \in SUBSET linked : Outage(lost)

HeartbeatsSpec == HeartbeatsInit /\ [][HeartbeatsNext]_heartVars

-----------------------------------------------------------------------------
(* Properties.                                                              *)

\* A replica reaps a live one only after it has itself been connected for a whole
\* TTL without seeing a beat of it: nobody is reaped for an outage of Redis that
\* all of them shared (markOutage, reapAllowedAt).  A process started after the
\* outage knows nothing of it and is excepted.
NotReapedForAnOutage == ~wrongly

\* The sessions of a replica that died do not stay for ever (listDeadInstances).
TheDeadAreReaped ==
  \A i \in Replica : (i \in known \ alive) ~> (i \notin known \/ i \in alive)
=============================================================================
