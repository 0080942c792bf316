-------------------------------- MODULE Spend --------------------------------
(***************************************************************************)
(* The spend cap of TURN (turn/spendPoller.ts) and the operator flags it    *)
(* steps down (flags/flags.ts).  A flag step is a number: 1 the relay       *)
(* bitrate, 2 "Hide my IP" off, 3 TURN off; a set of steps stands for the   *)
(* flags that reflect them.  Every instance reads the flags through its own *)
(* cache; one instance at a time polls, under a lease nobody releases.      *)
(***************************************************************************)
EXTENDS Integers, FiniteSetsExt

CONSTANTS
  Instance,
  FailsafeAfter,    \* SPEND_FAILSAFE_AFTER_FAILURES
  Free,             \* nobody holds the lease
  MaxTrouble        \* bound: restores, failed writes, new days, outages and restarts

ASSUME SpendAssumption ==
  /\ FailsafeAfter \in Nat \ {0} /\ MaxTrouble \in Nat
  /\ Free \notin Instance

Steps == 1..3
FailsafeSteps == 1..2
Streak == 0..FailsafeAfter      \* a longer streak counts as this one

VARIABLES
  stored,       \* the flags in the store
  cached,       \* FlagsReader.value of each instance
  lease,        \* holder of SPEND_LOCK_KEY
  poll,         \* where the run of each instance is
  failures,     \* failed polls in a row, per instance
  shared,       \* SPEND_FAILURES_KEY
  egress,       \* thresholds today's egress has reached (external)
  working,      \* Cloudflare's analytics answer (external)
  trouble

spendVars == <<stored, cached, lease, poll, failures, shared, egress, working, trouble>>
World == <<egress, working>>

NoPoll == [at |-> "idle", next |-> 1, gb |-> 0]

SpendTypeOK ==
  /\ stored \subseteq Steps /\ cached \in [Instance -> SUBSET Steps]
  /\ lease \in Instance \cup {Free}
  /\ poll \in [Instance -> [at : {"idle", "query", "steps", "failsafe"}, next : 1..4, gb : 0..3]]
  /\ failures \in [Instance -> Streak] /\ shared \in Streak
  /\ egress \in 0..3 /\ working \in BOOLEAN /\ trouble \in Nat

SpendInit ==
  /\ stored = {} /\ cached = [i \in Instance |-> {}]
  /\ lease = Free /\ poll = [i \in Instance |-> NoPoll]
  /\ failures = [i \in Instance |-> 0] /\ shared = 0
  /\ egress = 0 /\ working = TRUE /\ trouble = 0

Move(i, p) == poll' = [poll EXCEPT ![i] = p]
Longer(n) == IF n < FailsafeAfter THEN n + 1 ELSE n
Trouble == trouble < MaxTrouble /\ trouble' = trouble + 1

-----------------------------------------------------------------------------
(* Flags.                                                                   *)

refresh(i) ==
  /\ cached' = [cached EXCEPT ![i] = stored]
  /\ UNCHANGED <<stored, lease, poll, failures, shared, World, trouble>>

\* FlagsReader.set: through the store, then the own cache.
set(i, steps) ==
  /\ stored' = steps
  /\ cached' = [cached EXCEPT ![i] = steps]

\* An operator restores a flag, on any instance.
Restore(i, k) ==
  /\ Trouble /\ k \in stored
  /\ set(i, stored \ {k})
  /\ UNCHANGED <<lease, poll, failures, shared, World>>

-----------------------------------------------------------------------------
(* One poll.                                                                *)

acquire(i) ==
  /\ poll[i].at = "idle" /\ lease = Free
  /\ lease' = i
  /\ Move(i, [NoPoll EXCEPT !.at = "query"])
  /\ UNCHANGED <<stored, cached, failures, shared, World, trouble>>

\* The lease is 0.9 of the interval: gone before the next poll of its holder.
LeaseExpires ==
  /\ lease # Free /\ poll[lease].at = "idle"
  /\ lease' = Free
  /\ UNCHANGED <<stored, cached, poll, failures, shared, World, trouble>>

\* recovered(); the shared streak may fail to go.
QueryAnswered(i) ==
  /\ poll[i].at = "query" /\ working
  /\ failures' = [failures EXCEPT ![i] = 0]
  /\ shared' \in {0, shared}
  /\ Move(i, [at |-> "steps", next |-> 1, gb |-> egress])
  /\ UNCHANGED <<stored, cached, lease, World, trouble>>

Todo(i, steps) == {k \in steps : k >= poll[i].next} \ cached[i]

\* The loop over STEPS: the next reached step the cached flags do not reflect is set.
TakeStep(i, steps) ==
  IF Todo(i, steps) = {}
  THEN Move(i, NoPoll) /\ UNCHANGED <<stored, cached>>
  ELSE LET k == Min(Todo(i, steps)) IN
       /\ set(i, stored \cup {k})
       /\ Move(i, [poll[i] EXCEPT !.next = k + 1])

\* Mutant.
TakeFirstStepOnly(i) ==
  /\ poll[i].at = "steps"
  /\ IF 1 \in cached[i] \/ poll[i].gb = 0
     THEN Move(i, NoPoll) /\ UNCHANGED <<stored, cached>>
     ELSE TakeStep(i, 1..1)
  /\ UNCHANGED <<lease, failures, shared, World, trouble>>

StepDown(i) ==
  /\ poll[i].at = "steps"
  /\ TakeStep(i, 1..poll[i].gb)
  /\ UNCHANGED <<lease, failures, shared, World, trouble>>

\* Mutant.
FailsafeOnce(streak) == streak = FailsafeAfter - 1

FailsafeDue(streak) == streak >= FailsafeAfter - 1

\* The query, or flags.set after it, throws.  The streak is the longer of the
\* shared and the local one, or the local one when Redis fails as well.
PollFails(i) ==
  /\ \/ poll[i].at = "query" /\ ~working /\ UNCHANGED trouble
     \/ poll[i].at = "query" /\ working /\ Trouble
     \/ poll[i].at = "steps" /\ Todo(i, 1..poll[i].gb) # {} /\ Trouble
  /\ failures' = [failures EXCEPT ![i] = Longer(@)]
  /\ \E counted \in BOOLEAN :
       /\ shared' = IF counted THEN Longer(shared) ELSE shared
       /\ Move(i, IF FailsafeDue(IF counted THEN Max({shared, failures[i]}) ELSE failures[i])
                  THEN [NoPoll EXCEPT !.at = "failsafe"] ELSE NoPoll)
  /\ UNCHANGED <<stored, cached, lease, World>>

failsafe(i) ==
  /\ poll[i].at = "failsafe"
  /\ TakeStep(i, FailsafeSteps)
  /\ UNCHANGED <<lease, failures, shared, World, trouble>>

\* The failsafe could not update the flags.
failsafeFails(i) ==
  /\ poll[i].at = "failsafe" /\ Todo(i, FailsafeSteps) # {}
  /\ Trouble
  /\ Move(i, NoPoll)
  /\ UNCHANGED <<stored, cached, lease, failures, shared, World>>

-----------------------------------------------------------------------------
(* The world.                                                               *)

MoreEgress ==
  /\ egress < 3 /\ egress' = egress + 1
  /\ UNCHANGED <<stored, cached, lease, poll, failures, shared, working, trouble>>

NextDay ==
  /\ Trouble /\ egress' = 0
  /\ UNCHANGED <<stored, cached, lease, poll, failures, shared, working>>

Analytics ==
  /\ Trouble /\ working' = ~working
  /\ UNCHANGED <<stored, cached, lease, poll, failures, shared, egress>>

\* A process restarts: it refreshes its flags before it polls.  Its lease lapses.
Restart(i) ==
  /\ Trouble
  /\ cached' = [cached EXCEPT ![i] = stored]
  /\ Move(i, NoPoll)
  /\ failures' = [failures EXCEPT ![i] = 0]
  /\ UNCHANGED <<stored, lease, shared, World>>

Poll(i) == acquire(i) \/ QueryAnswered(i) \/ StepDown(i) \/ PollFails(i) \/ failsafe(i)

SpendNext ==
  \/ LeaseExpires \/ MoreEgress \/ NextDay \/ Analytics
  \/ \E i \in Instance :
       \/ Poll(i) \/ failsafeFails(i) \/ refresh(i) \/ Restart(i)
       \/ \E k \in Steps : Restore(i, k)

SpendSpec == SpendInit /\ [][SpendNext]_spendVars

-----------------------------------------------------------------------------
(* Properties.                                                              *)

\* While egress stays over a threshold and the analytics work, that threshold's
\* step is taken and stays: a lease whose holder died, stale caches, failed
\* writes and an operator's restore delay it (runOnce, acquire).
SpendIsCapped ==
  \A k \in Steps : <>[](egress >= k /\ working) => <>[](k \in stored)

\* While the analytics stay down the failsafe steps are taken and stay, whoever
\* polls and however often a restart or a lost shared streak resets the count
\* (failureStreak, failsafe).
BlindSpendIsCut == <>[](~working) => <>[](FailsafeSteps \subseteq stored)
=============================================================================
