------------------------- MODULE Replicas_proofs -------------------------
(* Theorems about what the replicas share and what they and their host do      *)
(* beside matching: the match lock, for any calls, processes, faults and lease, *)
(* the heartbeats, the realtime sockets, the TURN credentials and a deploy.    *)
(* The parts share no state.                                                   *)
EXTENDS MatchLock, Heartbeats, Sockets, Relay, Deploy, FiniteSetTheorems, TLAPS

(***************************************************************************)
(* The match lock: types.                                                  *)
(***************************************************************************)
LEMMA StepType ==
  ASSUME TypeOK, NEW c \in Caller, Step(c)
  PROVE  TypeOK'
<1> USE LockConstantsOK DEF TypeOK
<1>1. CASE Call(c)
  BY <1>1 DEF Call, Redis, Lease
<1>2. CASE Deadline(c) \/ TakeTurn(c) \/ GiveUp(c) \/ PassOn(c)
  BY <1>2 DEF Deadline, TakeTurn, GiveUp, PassOn, Redis, Local, Lease
<1>3. CASE SetTakes(c) \/ SetUnanswered(c) \/ GetOwn(c)
  BY <1>3 DEF SetTakes, SetUnanswered, GetOwn, Enter, Redis, Local, Lease
<1>4. CASE Reject(c) \/ CommandFails(c)
  BY <1>4 DEF Reject, CommandFails, Settle, Redis, Lease
<1>5. CASE Expire(c) \/ RenewFails(c) \/ StopRenewing(c) \/ End(c)
  BY <1>5 DEF Expire, RenewFails, StopRenewing, End, Redis, Local
<1>6. CASE Renew(c)
  BY <1>6 DEF Renew, Local
<1>7. CASE Renewed(c)
  BY <1>7 DEF Renewed, Redis, Local
<1>8. CASE Release(c) \/ ReleaseFails(c)
  BY <1>8 DEF Release, ReleaseFails, Settle, Redis
<1> QED
  BY <1>1, <1>2, <1>3, <1>4, <1>5, <1>6, <1>7, <1>8 DEF Step

LEMMA NextType ==
  ASSUME TypeOK, [Next]_vars
  PROVE  TypeOK'
<1>1. CASE \E c \in Caller : Step(c)
  BY <1>1, StepType
<1>2. ASSUME NEW p \in Process, Crash(p)
      PROVE  TypeOK'
  BY <1>2 DEF TypeOK, Crash, Redis, Local
<1>3. CASE Tick
  BY <1>3, LockConstantsOK DEF TypeOK, Tick, Inside, Local
<1>4. CASE UNCHANGED vars
  BY <1>4 DEF TypeOK, vars
<1> QED
  BY <1>1, <1>2, <1>3, <1>4 DEF Next

\* Every variable of the lock keeps its type.
THEOREM LockTypeCorrect == Spec => []TypeOK
<1>1. Init => TypeOK
  BY LockConstantsOK DEF Init, TypeOK
<1> QED
  BY <1>1, NextType, PTL DEF Spec

(***************************************************************************)
(* The match lock: the key and the sections.                               *)
(***************************************************************************)

\* A section whose lease did not lapse owns the key; a lapsed one does not get it back,
\* and has told the log by its end.
Owned ==
  /\ \A c \in Caller : pc[c] = "inside" /\ c \notin lapsed => holder = c
  /\ \A c \in lapsed : holder # c /\ pc[c] \in {"inside", "releasing", "done", "dead"}
  /\ lost \subseteq logged
  /\ LapsesAreLogged

LEMMA StepOwned ==
  ASSUME TypeOK, Owned, NEW c \in Caller, Step(c)
  PROVE  Owned'
<1> USE LockConstantsOK DEF TypeOK, Owned, LapsesAreLogged
<1>1. CASE Call(c)
  BY <1>1 DEF Call, Redis, Lease
<1>2. CASE Deadline(c) \/ TakeTurn(c) \/ GiveUp(c) \/ PassOn(c)
  BY <1>2 DEF Deadline, TakeTurn, GiveUp, PassOn, Redis, Local, Lease
<1>3. CASE SetTakes(c) \/ SetUnanswered(c)
  BY <1>3 DEF SetTakes, SetUnanswered, Enter, Local, Lease
<1>4. CASE GetOwn(c)
  BY <1>4 DEF GetOwn, Enter, Redis, Local
<1>5. CASE Reject(c) \/ CommandFails(c)
  BY <1>5 DEF Reject, CommandFails, Settle, Redis, Lease
<1>6. CASE Expire(c) \/ RenewFails(c) \/ StopRenewing(c)
  BY <1>6 DEF Expire, RenewFails, StopRenewing, Redis, Local
<1>7. CASE End(c)
  BY <1>7 DEF End, Redis, Local
<1>8. CASE Renew(c)
  BY <1>8 DEF Renew, Local
<1>9. CASE Renewed(c)
  BY <1>9 DEF Renewed, Redis, Local
<1>10. CASE Release(c)
  BY <1>10 DEF Release, Settle, Redis
<1>11. CASE ReleaseFails(c)
  BY <1>11 DEF ReleaseFails, Settle, Redis
<1> QED
  BY <1>1, <1>2, <1>3, <1>4, <1>5, <1>6, <1>7, <1>8, <1>9, <1>10, <1>11 DEF Step

LEMMA NextOwned ==
  ASSUME TypeOK, Owned, [Next]_vars
  PROVE  Owned'
<1>1. CASE \E c \in Caller : Step(c)
  BY <1>1, StepOwned
<1>2. ASSUME NEW p \in Process, Crash(p)
      PROVE  Owned'
  BY <1>2 DEF TypeOK, Owned, LapsesAreLogged, Crash, Redis, Local
<1>3. CASE Tick
  BY <1>3, LockConstantsOK DEF TypeOK, Owned, LapsesAreLogged, Tick, Inside, Local
<1>4. CASE UNCHANGED vars
  BY <1>4 DEF Owned, LapsesAreLogged, vars
<1> QED
  BY <1>1, <1>2, <1>3, <1>4 DEF Next

LEMMA OwnedCorrect == Spec => []Owned
<1>1. Init => Owned
  BY LockConstantsOK DEF Init, Owned, LapsesAreLogged
<1> QED
  BY <1>1, NextOwned, LockTypeCorrect, PTL DEF Spec

\* A lease that lapses under a section is logged by the time its call settles.
THEOREM LapsesAreLoggedCorrect == Spec => []LapsesAreLogged
<1>1. Owned => LapsesAreLogged
  BY DEF Owned
<1> QED
  BY <1>1, OwnedCorrect, PTL

(***************************************************************************)
(* The match lock: a replica in good health keeps its lease.               *)
(***************************************************************************)

\* A section of a healthy process that is not past LOCK_HOLD_MAX_MS has two periods
\* left when its timer is set and one when it is due, and Tick waits for its answer.
Renewing(c) ==
  /\ holder = c
  /\ \/ timer[c] \in {"set", "kept"} /\ left >= 2
     \/ timer[c] = "due" /\ left >= 1

Healthy ==
  \A c \in Caller :
    Home[c] \notin Faulty =>
      /\ holder = c => pc[c] \in {"inside", "releasing"}
      /\ pc[c] = "inside" /\ c \notin old => Renewing(c)
      /\ c \in lapsed => c \in old
      /\ c \in lost \/ timer[c] = "gone"
           => holder # c /\ pc[c] \in {"inside", "releasing", "done", "dead"}

LEMMA StepHealthy ==
  ASSUME TypeOK, Healthy, NEW c \in Caller, Step(c)
  PROVE  Healthy'
<1> USE LockConstantsOK DEF TypeOK, Healthy, Renewing
<1>1. CASE Call(c)
  BY <1>1 DEF Call, Redis, Lease
<1>2. CASE Deadline(c) \/ TakeTurn(c) \/ GiveUp(c) \/ PassOn(c)
  BY <1>2 DEF Deadline, TakeTurn, GiveUp, PassOn, Redis, Local, Lease
<1>3. CASE SetTakes(c)
  BY <1>3 DEF SetTakes, Enter, Local
<1>4. CASE SetUnanswered(c)
  BY <1>4 DEF SetUnanswered, Local, Lease
<1>5. CASE GetOwn(c)
  BY <1>5 DEF GetOwn, Enter, Redis, Local
<1>6. CASE Reject(c) \/ CommandFails(c)
  BY <1>6 DEF Reject, CommandFails, Settle, Redis, Lease
<1>7. CASE Expire(c) \/ RenewFails(c) \/ StopRenewing(c)
  BY <1>7 DEF Expire, RenewFails, StopRenewing, Redis, Local
<1>8. CASE End(c)
  BY <1>8 DEF End, Redis, Local
<1>9. CASE Renew(c)
  BY <1>9 DEF Renew, Local
<1>10. CASE Renewed(c)
  BY <1>10 DEF Renewed, Redis, Local
<1>11. CASE Release(c)
  <2>1. pc' = [pc EXCEPT ![c] = "done"] /\ pc[c] = "releasing"
        /\ UNCHANGED <<old, timer, lost, lapsed>>
    BY <1>11 DEF Release, Settle
  <2>2. CASE UNCHANGED Redis /\ (c \in lost \/ holder # c)
    BY <2>1, <2>2 DEF Redis
  <2>3. CASE holder = c /\ holder' = Nobody
    BY <2>1, <2>3
  <2> QED
    BY <1>11, <2>2, <2>3 DEF Release, Redis
<1>12. CASE ReleaseFails(c)
  BY <1>12 DEF ReleaseFails, Settle, Redis
<1> QED
  BY <1>1, <1>2, <1>3, <1>4, <1>5, <1>6, <1>7, <1>8, <1>9, <1>10, <1>11, <1>12 DEF Step

LEMMA NextHealthy ==
  ASSUME TypeOK, Healthy, [Next]_vars
  PROVE  Healthy'
<1>1. CASE \E c \in Caller : Step(c)
  BY <1>1, StepHealthy
<1>2. ASSUME NEW p \in Process, Crash(p)
      PROVE  Healthy'
  BY <1>2, LockConstantsOK DEF TypeOK, Healthy, Renewing, Crash, Redis, Local
<1>3. CASE Tick
  BY <1>3, LockConstantsOK DEF TypeOK, Healthy, Renewing, Tick, Inside, Local
<1>4. CASE UNCHANGED vars
  BY <1>4 DEF Healthy, Renewing, vars
<1> QED
  BY <1>1, <1>2, <1>3, <1>4 DEF Next

\* In a process in good health a lease lapses only under a section past
\* LOCK_HOLD_MAX_MS, for any lease of two renewal periods or more.
THEOREM HealthyKeepsLeaseCorrect == Spec => []HealthyKeepsLease
<1>1. Init => Healthy
  BY LockConstantsOK DEF Init, Healthy
<1>2. TypeOK /\ Healthy => HealthyKeepsLease
  BY DEF TypeOK, Healthy, HealthyKeepsLease
<1> QED
  BY <1>1, <1>2, NextHealthy, LockTypeCorrect, PTL DEF Spec

(***************************************************************************)
(* The match lock implements the promise of MatchSections.                 *)
(***************************************************************************)
\* Every step of the lock is a step of the promise, or none.
LEMMA StepPromise ==
  ASSUME TypeOK, Owned, NEW c \in Caller, Step(c)
  PROVE  [Sections!Next]_Sections!vars
<1> USE LockConstantsOK DEF TypeOK, Inside, Sections!vars
<1>1. CASE SetTakes(c) \/ GetOwn(c)
  <2>1. pc[c] = "trying" /\ holder \in {Nobody, c} /\ pc' = [pc EXCEPT ![c] = "inside"]
        /\ lapsed' = lapsed
    BY <1>1 DEF SetTakes, GetOwn, Enter
  <2>2. Inside' = Inside \cup {c} /\ c \notin Inside
    BY <2>1
  <2>3. Inside \subseteq lapsed
    BY <2>1 DEF Owned
  <2>4. c \notin lapsed
    BY <2>1 DEF Owned
  <2>5. Sections!Enter(c)
    BY <2>1, <2>2, <2>3, <2>4 DEF Sections!Enter
  <2> QED
    BY <2>5 DEF Sections!Next
<1>2. CASE End(c)
  <2>1. Inside' = Inside \ {c} /\ c \in Inside /\ lapsed' = lapsed
    BY <1>2 DEF End
  <2>2. Sections!Leave({c})
    BY <2>1 DEF Sections!Leave
  <2> QED
    BY <2>2 DEF Sections!Next
<1>3. CASE Call(c)
  BY <1>3 DEF Call, Redis, Lease
<1>4. CASE Deadline(c) \/ TakeTurn(c) \/ GiveUp(c) \/ PassOn(c)
  BY <1>4 DEF Deadline, TakeTurn, GiveUp, PassOn, Redis, Local, Lease
<1>5. CASE SetUnanswered(c) \/ Reject(c) \/ CommandFails(c)
  BY <1>5 DEF SetUnanswered, Reject, CommandFails, Settle, Redis, Local, Lease
<1>6. CASE Expire(c) \/ Renew(c) \/ RenewFails(c) \/ Renewed(c) \/ StopRenewing(c)
  BY <1>6 DEF Expire, Renew, RenewFails, Renewed, StopRenewing, Redis, Local
<1>7. CASE Release(c) \/ ReleaseFails(c)
  BY <1>7 DEF Release, ReleaseFails, Settle, Redis
<1> QED
  BY <1>1, <1>2, <1>3, <1>4, <1>5, <1>6, <1>7 DEF Step

LEMMA NextPromise ==
  ASSUME TypeOK, Owned, [Next]_vars
  PROVE  [Sections!Next]_Sections!vars
<1>1. CASE \E c \in Caller : Step(c)
  BY <1>1, StepPromise
<1>2. ASSUME NEW p \in Process, Crash(p)
      PROVE  [Sections!Next]_Sections!vars
  <2> DEFINE S == {c \in Inside : Home[c] = p}
  <2>1. Inside' = Inside \ S /\ S \subseteq Inside /\ lapsed' = lapsed
    BY <1>2 DEF Crash, Inside, TypeOK
  <2>2. CASE S = {}
    BY <2>1, <2>2 DEF Sections!vars
  <2>3. CASE S # {}
    <3>1. Sections!Leave(S)
      BY <2>1, <2>3 DEF Sections!Leave
    <3>2. S \in SUBSET Caller
      BY DEF Inside
    <3> QED
      BY <3>1, <3>2 DEF Sections!Next
  <2> QED
    BY <2>2, <2>3
<1>3. CASE Tick
  <2>1. Inside' = Inside
    BY <1>3 DEF Tick, Inside, Local
  <2>2. CASE lapsed' = lapsed
    BY <2>1, <2>2 DEF Sections!vars
  <2>3. CASE lapsed' # lapsed
    <3>1. holder \in Inside /\ lapsed' = lapsed \cup {holder} /\ holder \notin lapsed
      BY <1>3, <2>3 DEF Tick
    <3>2. Sections!Overrun(holder)
      BY <2>1, <3>1 DEF Sections!Overrun
    <3>3. holder \in Caller
      BY <3>1 DEF Inside
    <3> QED
      BY <3>2, <3>3 DEF Sections!Next
  <2> QED
    BY <2>2, <2>3
<1>4. CASE UNCHANGED vars
  BY <1>4 DEF vars, Sections!vars, Inside
<1> QED
  BY <1>1, <1>2, <1>3, <1>4 DEF Next

\* withLock() keeps its promise, for any number of calls and processes.
THEOREM LockKeepsPromise == Spec => KeepsPromise
<1>1. Init => Sections!Init
  BY DEF Init, Sections!Init, Inside
<1> QED
  BY <1>1, NextPromise, LockTypeCorrect, OwnedCorrect, PTL DEF Spec, KeepsPromise, Sections!Spec

(***************************************************************************)
(* The match lock: the local queue.                                        *)
(***************************************************************************)
Called == {c \in Caller : pc[c] \notin {"idle", "dead"}}

\* before[c] are the calls of the process that came before c: the slot c waits for is
\* the last of them, and slots are released in that order.
Ordered(before) ==
  \A a, b \in Caller :
    a \in Called /\ b \in Called /\ Home[a] = Home[b] /\ a # b => a \in before[b] \/ b \in before[a]

Waits(before, a, b) ==
  /\ a \in Called /\ b \in Called /\ Home[a] = Home[b]
  /\ ahead[b] # Nobody
  /\ a = ahead[b] \/ a \in before[ahead[b]]
  /\ b \in slots => a \in slots

Last(before, c) == tail[Home[c]] # Nobody /\ (c = tail[Home[c]] \/ c \in before[tail[Home[c]]])

TailCalled ==
  \A c \in Caller :
    pc[c] = "idle" /\ tail[Home[c]] # Nobody =>
      tail[Home[c]] \in Called /\ Home[tail[Home[c]]] = Home[c]

InLine(before) ==
  /\ Ordered(before)
  /\ \A a, b \in Caller : a \in before[b] => Waits(before, a, b)
  /\ \A c \in Called : Last(before, c)
  /\ TailCalled

\* A call past the queue was let in by the slot ahead, and has not released its own.
InTurn ==
  \A c \in Caller :
    /\ pc[c] \in {"idle", "queued", "trying", "inside", "releasing"} => c \notin slots
    /\ pc[c] \in {"trying", "inside", "releasing"} => Turn(c)

Queue == InTurn /\ \E before \in [Caller -> SUBSET Caller] : InLine(before)

LEMMA QueueExcludes ==
  ASSUME TypeOK, Queue
  PROVE  LocalExclusion
<1> SUFFICES ASSUME NEW a \in Caller, NEW b \in Caller, a # b, Home[a] = Home[b],
                    {pc[a], pc[b]} \subseteq {"trying", "inside", "releasing"}
             PROVE  FALSE
  BY DEF LocalExclusion
<1>1. PICK before \in [Caller -> SUBSET Caller] : InLine(before)
  BY DEF Queue
<1>2. a \in Called /\ b \in Called /\ Turn(a) /\ Turn(b) /\ a \notin slots /\ b \notin slots
  BY DEF Called, Queue, InTurn
<1>3. ASSUME NEW x \in Caller, NEW y \in Caller, x \in before[y], Turn(y)
      PROVE  x \in slots
  <2>1. ahead[y] \in slots /\ ahead[y] \in Caller
    BY <1>1, <1>3 DEF InLine, Waits, Turn, TypeOK
  <2> QED
    BY <1>1, <1>3, <2>1 DEF InLine, Ordered, Waits, Last, TailCalled, Called
<1> QED
  BY <1>1, <1>2, <1>3 DEF InLine, Ordered, Waits, Last, TailCalled, Called

\* Slots are released in turn, and nothing else about the queue changes.
LEMMA SlotInTurn ==
  ASSUME TypeOK, Queue, NEW c \in Caller, Turn(c), c \in Called,
         UNCHANGED <<ahead, tail>>, slots' = slots \cup {c},
         \A d \in Caller : d # c => pc'[d] = pc[d],
         pc'[c] \in {"gaveUp", "done", "failed"}
  PROVE  Queue'
<1>1. PICK before \in [Caller -> SUBSET Caller] : InLine(before)
  BY DEF Queue
<1>2. InTurn'
  BY DEF Queue, InTurn, Turn
<1>3. \A d \in Caller : d \in Called' <=> d \in Called
  BY DEF Called
<1>4. ASSUME NEW a \in Caller, a \in before[c]
      PROVE  a \in slots
  <2>1. ahead[c] \in slots /\ ahead[c] \in Caller
    BY <1>1, <1>4 DEF InLine, Waits, Turn, TypeOK
  <2> QED
    BY <1>1, <1>4, <2>1 DEF InLine, Ordered, Waits, Last, TailCalled, Called
<1>5. \A d \in Caller : pc'[d] = "idle" <=> pc[d] = "idle"
  BY DEF Called
<1>6. InLine(before)'
  BY <1>1, <1>3, <1>4, <1>5 DEF InLine, Ordered, Waits, Last, TailCalled, Called
<1> QED
  BY <1>2, <1>6 DEF Queue

\* A call moves on within its turn, or gives up.
LEMMA SameSlots ==
  ASSUME TypeOK, Queue, UNCHANGED <<ahead, tail, slots>>,
         \A d \in Caller :
           \/ pc'[d] = pc[d]
           \/ d \in Called /\ pc'[d] = "gaveUp"
           \/ Turn(d) /\ pc[d] \in {"queued", "trying", "inside"}
                /\ pc'[d] \in {"trying", "inside", "releasing"}
  PROVE  Queue'
<1>1. PICK before \in [Caller -> SUBSET Caller] : InLine(before)
  BY DEF Queue
<1>2. InTurn'
  BY DEF Queue, InTurn, Turn
<1>3. \A d \in Caller : (d \in Called' <=> d \in Called) /\ (pc'[d] = "idle" <=> pc[d] = "idle")
  BY DEF Called
<1>4. InLine(before)'
  BY <1>1, <1>3 DEF InLine, Ordered, Waits, Last, TailCalled, Called
<1> QED
  BY <1>2, <1>4 DEF Queue

LEMMA CallQueue ==
  ASSUME TypeOK, Queue, NEW c \in Caller, Call(c)
  PROVE  Queue'
<1> USE LockConstantsOK DEF TypeOK
<1>1. PICK before \in [Caller -> SUBSET Caller] : InLine(before)
  BY DEF Queue
<1> DEFINE next == [before EXCEPT ![c] = {a \in Caller : a \in Called /\ Home[a] = Home[c]}]
<1>2. /\ pc[c] = "idle" /\ pc' = [pc EXCEPT ![c] = "queued"]
      /\ ahead' = [ahead EXCEPT ![c] = tail[Home[c]]]
      /\ tail' = [tail EXCEPT ![Home[c]] = c] /\ slots' = slots
  BY DEF Call
<1>3. c \notin slots /\ c \notin Called
  BY <1>2 DEF Queue, InTurn, Called
<1>4. \A d \in Caller : d \in Called' <=> d = c \/ d \in Called
  BY <1>2 DEF Called
<1>5. /\ next \in [Caller -> SUBSET Caller]
      /\ \A b \in Caller : next[b] = IF b = c THEN {a \in Caller : a \in Called /\ Home[a] = Home[c]}
                                      ELSE before[b]
  OBVIOUS
<1> HIDE DEF next
<1>6. PICK now \in [Caller -> SUBSET Caller] :
        \A b \in Caller : now[b] = IF b = c THEN {a \in Caller : a \in Called /\ Home[a] = Home[c]}
                                    ELSE before[b]
  BY <1>5
<1>7. InTurn'
  BY <1>2, <1>3 DEF Queue, InTurn, Turn
<1>8. \A b \in Caller : c \notin before[b]
  BY <1>1, <1>3 DEF InLine, Ordered, Waits, Last, TailCalled, Called
<1>9. \A a, b \in Caller :
        a \in Called' /\ b \in Called' /\ Home[a] = Home[b] /\ a # b => a \in now[b] \/ b \in now[a]
  BY <1>1, <1>4, <1>6 DEF InLine, Ordered
<1>10. ASSUME NEW a \in Caller, NEW b \in Caller, a \in now[b]
       PROVE  /\ a \in Called' /\ b \in Called' /\ Home[a] = Home[b]
              /\ ahead'[b] # Nobody
              /\ a = ahead'[b] \/ a \in now[ahead'[b]]
              /\ b \in slots' => a \in slots'
  <2>1. CASE b = c
    <3>1. ahead'[c] = tail[Home[c]] /\ a \in Called /\ Home[a] = Home[c]
      BY <1>2, <1>6, <1>10, <2>1
    <3>2. tail[Home[c]] # Nobody /\ tail[Home[c]] \in Called /\ tail[Home[c]] # c
          /\ (a = tail[Home[c]] \/ a \in before[tail[Home[c]]])
      BY <1>1, <1>2, <1>3, <3>1 DEF InLine, Ordered, Waits, Last, TailCalled, Called
    <3> QED
      BY <1>2, <1>3, <1>4, <1>6, <2>1, <3>1, <3>2
  <2>2. CASE b # c
    <3>1. a \in before[b] /\ ahead'[b] = ahead[b]
      BY <1>2, <1>6, <1>10, <2>2
    <3>2. ahead[b] \in Caller /\ (a = ahead[b] \/ a \in before[ahead[b]])
      BY <1>1, <3>1 DEF InLine, Ordered, Waits, Last, TailCalled, Called
    <3>3. a \in now[ahead[b]] \/ a = ahead[b]
      BY <1>1, <1>3, <1>6, <3>2 DEF InLine, Ordered, Waits, Last, TailCalled, Called
    <3> QED
      BY <1>1, <1>2, <1>4, <3>1, <3>2, <3>3 DEF InLine, Ordered, Waits, Last, TailCalled, Called
  <2> QED
    BY <2>1, <2>2
<1>11. ASSUME NEW d \in Caller, d \in Called'
       PROVE  tail'[Home[d]] # Nobody /\ (d = tail'[Home[d]] \/ d \in now[tail'[Home[d]]])
  <2>1. CASE Home[d] = Home[c]
    BY <1>2, <1>4, <1>6, <1>11, <2>1
  <2>2. CASE Home[d] # Home[c]
    <3>1. tail'[Home[d]] = tail[Home[d]] /\ d \in Called /\ d # c
      BY <1>2, <1>4, <1>11, <2>2
    <3>2. tail[Home[d]] # Nobody /\ (d = tail[Home[d]] \/ d \in before[tail[Home[d]]])
      BY <1>1, <3>1 DEF InLine, Ordered, Waits, Last, TailCalled, Called
    <3>3. d \in before[tail[Home[d]]] => tail[Home[d]] # c
      BY <1>1, <1>3, <3>2 DEF InLine, Ordered, Waits, Last, TailCalled, Called
    <3> QED
      BY <1>6, <3>1, <3>2, <3>3
  <2> QED
    BY <2>1, <2>2
<1>12. ASSUME NEW d \in Caller, pc'[d] = "idle", tail'[Home[d]] # Nobody
       PROVE  tail'[Home[d]] \in Called' /\ Home[tail'[Home[d]]] = Home[d]
  <2>1. CASE Home[d] = Home[c]
    BY <1>2, <1>4, <2>1
  <2>2. CASE Home[d] # Home[c]
    <3>1. tail'[Home[d]] = tail[Home[d]] /\ pc[d] = "idle"
      BY <1>2, <1>12, <2>2
    <3>2. tail[Home[d]] \in Called /\ Home[tail[Home[d]]] = Home[d] /\ tail[Home[d]] \in Caller
      BY <1>1, <1>12, <3>1 DEF InLine, Ordered, Waits, Last, TailCalled, Called
    <3> QED
      BY <1>4, <3>1, <3>2
  <2> QED
    BY <2>1, <2>2
<1>13. Called' \subseteq Caller
  BY DEF Called
<1>14. InLine(now)'
  BY <1>9, <1>10, <1>11, <1>12, <1>13 DEF InLine, Ordered, Waits, Last, TailCalled
<1> QED
  BY <1>7, <1>14 DEF Queue

LEMMA CrashQueue ==
  ASSUME TypeOK, Queue, NEW p \in Process, Crash(p)
  PROVE  Queue'
<1> USE LockConstantsOK DEF TypeOK
<1>1. PICK before \in [Caller -> SUBSET Caller] : InLine(before)
  BY DEF Queue
<1>0. PICK now \in [Caller -> SUBSET Caller] :
        \A b \in Caller : now[b] = IF Home[b] = p THEN {} ELSE before[b]
  <2> DEFINE next == [b \in Caller |-> IF Home[b] = p THEN {} ELSE before[b]]
  <2>1. next \in [Caller -> SUBSET Caller]
    OBVIOUS
  <2> QED
    BY <2>1
<1>2. /\ pc' = [c \in Caller |-> IF Home[c] = p THEN "dead" ELSE pc[c]]
      /\ ahead' = ahead /\ tail' = tail /\ slots' = slots
  BY DEF Crash, Local
<1>3. \A d \in Caller : d \in Called' <=> d \in Called /\ Home[d] # p
  BY <1>2 DEF Called
<1>6. InTurn'
  BY <1>2 DEF Queue, InTurn, Turn
<1>7. \A b \in Caller : pc'[b] = "idle" => pc[b] = "idle" /\ Home[b] # p
  BY <1>2
<1>8. ASSUME NEW b \in Caller, NEW a \in Caller, a \in before[b]
      PROVE  /\ ahead[b] \in Caller /\ Home[a] = Home[b]
             /\ a \in before[ahead[b]] => Home[ahead[b]] = Home[b]
  <2>1. Waits(before, a, b)
    BY <1>1, <1>8 DEF InLine
  <2>2. ahead[b] \in Caller /\ Home[a] = Home[b]
    BY <2>1 DEF Waits
  <2>3. a \in before[ahead[b]] => Waits(before, a, ahead[b])
    BY <1>1, <2>2 DEF InLine
  <2> QED
    BY <2>2, <2>3 DEF Waits
<1>9. \A c \in Caller : c \in Called /\ c \in before[tail[Home[c]]] => Home[tail[Home[c]]] = Home[c]
  BY <1>1 DEF InLine, Ordered, Waits, Last, TailCalled, Called
<1>10. \A a, b \in Caller :
        a \in Called' /\ b \in Called' /\ Home[a] = Home[b] /\ a # b => a \in now[b] \/ b \in now[a]
  BY <1>1, <1>3, <1>0 DEF InLine, Ordered
<1>11. ASSUME NEW a \in Caller, NEW b \in Caller, a \in now[b]
       PROVE  /\ a \in Called' /\ b \in Called' /\ Home[a] = Home[b]
              /\ ahead'[b] # Nobody
              /\ a = ahead'[b] \/ a \in now[ahead'[b]]
              /\ b \in slots' => a \in slots'
  <2>1. a \in before[b] /\ Home[b] # p
    BY <1>0, <1>11
  <2> QED
    BY <1>1, <1>2, <1>3, <1>0, <1>8, <2>1 DEF InLine, Ordered, Waits, Last, TailCalled, Called
<1>12. ASSUME NEW d \in Caller, d \in Called'
       PROVE  tail'[Home[d]] # Nobody /\ (d = tail'[Home[d]] \/ d \in now[tail'[Home[d]]])
  BY <1>1, <1>2, <1>3, <1>0, <1>9, <1>12 DEF InLine, Ordered, Waits, Last, TailCalled, Called
<1>13. ASSUME NEW d \in Caller, pc'[d] = "idle", tail'[Home[d]] # Nobody
       PROVE  tail'[Home[d]] \in Called' /\ Home[tail'[Home[d]]] = Home[d]
  BY <1>1, <1>2, <1>3, <1>7, <1>13 DEF InLine, Ordered, Waits, Last, TailCalled, Called
<1>14. Called' \subseteq Caller
  BY DEF Called
<1>15. InLine(now)'
  BY <1>10, <1>11, <1>12, <1>13, <1>14 DEF InLine, Ordered, Waits, Last, TailCalled
<1> QED
  BY <1>6, <1>15 DEF Queue

LEMMA StepQueue ==
  ASSUME TypeOK, Queue, NEW c \in Caller, Step(c)
  PROVE  Queue'
<1> USE DEF TypeOK
<1>1. CASE Call(c)
  BY <1>1, CallQueue
<1>2. CASE PassOn(c)
  BY <1>2, SlotInTurn DEF PassOn, Called
<1>3. CASE Reject(c) \/ CommandFails(c) \/ Release(c) \/ ReleaseFails(c)
  <2>1. /\ pc[c] \in {"trying", "releasing"} /\ UNCHANGED <<ahead, tail>>
        /\ slots' = slots \cup {c}
        /\ pc' = [pc EXCEPT ![c] = "failed"] \/ pc' = [pc EXCEPT ![c] = "done"]
    BY <1>3 DEF Reject, CommandFails, Release, ReleaseFails, Settle
  <2>2. Turn(c) /\ c \in Called
    BY <2>1 DEF Queue, InTurn, Called
  <2> QED
    BY <2>1, <2>2, SlotInTurn
<1>4. CASE TakeTurn(c) \/ GiveUp(c)
  BY <1>4, SameSlots DEF TakeTurn, GiveUp, Local, Called
<1>5. CASE SetTakes(c) \/ GetOwn(c) \/ End(c)
  <2>1. /\ pc[c] \in {"trying", "inside"} /\ UNCHANGED <<ahead, tail, slots>>
        /\ pc' = [pc EXCEPT ![c] = "inside"] \/ pc' = [pc EXCEPT ![c] = "releasing"]
    BY <1>5 DEF SetTakes, GetOwn, Enter, End, Local
  <2>2. Turn(c)
    BY <2>1 DEF Queue, InTurn
  <2> QED
    BY <2>1, <2>2, SameSlots
<1>6. CASE Deadline(c) \/ SetUnanswered(c) \/ Expire(c)
  BY <1>6, SameSlots DEF Deadline, SetUnanswered, Expire, Local
<1>7. CASE Renew(c) \/ RenewFails(c) \/ Renewed(c) \/ StopRenewing(c)
  BY <1>7, SameSlots DEF Renew, RenewFails, Renewed, StopRenewing, Local
<1> QED
  BY <1>1, <1>2, <1>3, <1>4, <1>5, <1>6, <1>7 DEF Step

LEMMA NextQueue ==
  ASSUME TypeOK, Queue, [Next]_vars
  PROVE  Queue'
<1>1. CASE \E c \in Caller : Step(c)
  BY <1>1, StepQueue
<1>2. CASE \E p \in Process : Crash(p)
  BY <1>2, CrashQueue
<1>3. CASE Tick \/ UNCHANGED vars
  BY <1>3, SameSlots DEF Tick, vars, Local
<1> QED
  BY <1>1, <1>2, <1>3 DEF Next

\* Calls that gave up, failed or overran let at most one call of a process pass the
\* local queue, for any number of calls.
THEOREM LocalExclusionCorrect == Spec => []LocalExclusion
<1>1. Init => Queue
  <2> SUFFICES ASSUME Init
               PROVE  Queue
    OBVIOUS
  <2> DEFINE before == [c \in Caller |-> {}]
  <2>1. InLine(before) /\ InTurn
    BY LockConstantsOK DEF Init, InLine, Ordered, TailCalled, InTurn, Called
  <2>2. before \in [Caller -> SUBSET Caller]
    OBVIOUS
  <2> QED
    BY <2>1, <2>2 DEF Queue
<1> QED
  BY <1>1, NextQueue, QueueExcludes, LockTypeCorrect, PTL DEF Spec

(***************************************************************************)
(* Heartbeats.                                                             *)
(***************************************************************************)

LEMMA BeatTtlType == BeatTtl \in Nat \ {0} /\ Never = BeatTtl + 1
BY HeartbeatsAssumption DEF Never

(***************************************************************************)
(* Heartbeats: types.                                                      *)
(***************************************************************************)

LEMMA BeatType ==
  ASSUME HeartbeatsTypeOK, NEW i \in Replica, beat(i) \/ markOutage(i) \/ ready(i)
  PROVE  HeartbeatsTypeOK'
<1> USE BeatTtlType DEF HeartbeatsTypeOK, Peers
<1>1. CASE beat(i)
  <2>1. CASE i \in linked
    BY <1>1, <2>1 DEF beat, heartbeat
  <2>2. CASE i \notin linked
    BY <1>1, <2>2 DEF beat
  <2> QED
    BY <2>1, <2>2
<1>2. CASE markOutage(i)
  BY <1>2 DEF markOutage
<1>3. CASE ready(i)
  BY <1>3 DEF ready, heartbeat
<1> QED
  BY <1>1, <1>2, <1>3

LEMMA ReplicaType ==
  ASSUME HeartbeatsTypeOK, NEW i \in Replica,
         reapDeadInstancesLocked(i) \/ Die(i) \/ shutdown(i) \/ start(i)
  PROVE  HeartbeatsTypeOK'
<1> USE BeatTtlType DEF HeartbeatsTypeOK, Peers
<1>1. CASE reapDeadInstancesLocked(i)
  <2>1. wrongly' \in BOOLEAN
    BY <1>1, Zenon DEF reapDeadInstancesLocked
  <2> QED
    BY <1>1, <2>1 DEF reapDeadInstancesLocked
<1>2. CASE Die(i)
  BY <1>2 DEF Die, Gone
<1>3. CASE shutdown(i)
  BY <1>3 DEF shutdown, Gone
<1>4. CASE start(i)
  BY <1>4 DEF start
<1> QED
  BY <1>1, <1>2, <1>3, <1>4

LEMMA HeartbeatsNextType ==
  ASSUME HeartbeatsTypeOK, [HeartbeatsNext]_heartVars
  PROVE  HeartbeatsTypeOK'
<1> USE BeatTtlType DEF HeartbeatsTypeOK, Peers
<1>1. CASE UNCHANGED heartVars
  BY <1>1 DEF heartVars
<1>2. CASE Interval
  BY <1>2 DEF Interval
<1>3. ASSUME NEW cut \in SUBSET linked, Outage(cut)
      PROVE  HeartbeatsTypeOK'
  BY <1>3 DEF Outage
<1> QED
  BY <1>1, <1>2, <1>3, BeatType, ReplicaType DEF HeartbeatsNext

LEMMA HeartbeatsInitType == HeartbeatsInit => HeartbeatsTypeOK
<1> SUFFICES ASSUME HeartbeatsInit PROVE HeartbeatsTypeOK
  OBVIOUS
<1>1. wrongly \in BOOLEAN
  BY Zenon DEF HeartbeatsInit
<1> QED
  BY <1>1, BeatTtlType DEF HeartbeatsInit, HeartbeatsTypeOK

\* Every variable of the heartbeats keeps its type.
THEOREM HeartbeatsTypeCorrect == HeartbeatsSpec => []HeartbeatsTypeOK
BY HeartbeatsInitType, HeartbeatsNextType, PTL DEF HeartbeatsSpec

(***************************************************************************)
(* Heartbeats: reaping.                                                    *)
(***************************************************************************)

\* The intervals a connected replica has watched and those it still waits make a
\* whole TTL, unless it knows of an outage that is not over.
WaitsOut(i) == grace[i] = Never \/ seen[i] + grace[i] >= BeatTtl

Patient == \A i \in (alive \cap linked) \ fresh : WaitsOut(i)

LEMMA IntervalPatient ==
  ASSUME HeartbeatsTypeOK, Patient, Interval
  PROVE  Patient'
<1> SUFFICES ASSUME NEW i \in (alive' \cap linked') \ fresh'
             PROVE  WaitsOut(i)'
  BY DEF Patient
<1> USE BeatTtlType DEF HeartbeatsTypeOK, Interval
<1>1. i \in Replica /\ i \in alive /\ i \in linked
  OBVIOUS
<1>2. seen'[i] = IF seen[i] < BeatTtl THEN seen[i] + 1 ELSE BeatTtl
  BY <1>1
<1>3. grace'[i] = IF grace[i] \in 1..BeatTtl THEN grace[i] - 1 ELSE grace[i]
  BY <1>1
<1>4. CASE i \in fresh
  BY <1>1, <1>2, <1>3, <1>4 DEF WaitsOut
<1>5. CASE i \notin fresh
  <2>1. WaitsOut(i)
    BY <1>1, <1>5 DEF Patient
  <2> QED
    BY <1>1, <1>2, <1>3, <2>1 DEF WaitsOut
<1> QED
  BY <1>4, <1>5

LEMMA BeatPatient ==
  ASSUME HeartbeatsTypeOK, Patient, NEW i \in Replica, beat(i) \/ markOutage(i) \/ ready(i)
  PROVE  Patient'
<1> SUFFICES ASSUME NEW j \in (alive' \cap linked') \ fresh'
             PROVE  WaitsOut(j)'
  BY DEF Patient
<1> USE BeatTtlType DEF HeartbeatsTypeOK, Peers
<1>1. j \in Replica /\ UNCHANGED <<alive, fresh, seen>>
  BY DEF beat, markOutage, ready
<1>2. CASE j # i
  <2>1. grace'[j] = grace[j] /\ j \in linked
    BY <1>1, <1>2 DEF beat, markOutage, ready, heartbeat
  <2> QED
    BY <1>1, <2>1 DEF Patient, WaitsOut
<1>3. CASE j = i
  <2>1. CASE beat(i)
    BY <1>1, <1>3, <2>1 DEF beat, heartbeat, Patient, WaitsOut
  <2>2. CASE markOutage(i)
    BY <1>1, <1>3, <2>2 DEF markOutage, WaitsOut
  <2>3. CASE ready(i)
    BY <1>1, <1>3, <2>3 DEF ready, heartbeat, WaitsOut
  <2> QED
    BY <2>1, <2>2, <2>3
<1> QED
  BY <1>2, <1>3

LEMMA PatientNext ==
  ASSUME HeartbeatsTypeOK, Patient, [HeartbeatsNext]_heartVars
  PROVE  Patient'
<1> USE DEF Patient, WaitsOut
<1>1. CASE UNCHANGED heartVars
  BY <1>1 DEF heartVars
<1>2. ASSUME NEW cut \in SUBSET linked, Outage(cut)
      PROVE  Patient'
  BY <1>2 DEF Outage, Peers
<1>3. ASSUME NEW i \in Replica, reapDeadInstancesLocked(i)
      PROVE  Patient'
  BY <1>3 DEF reapDeadInstancesLocked, Peers
<1>4. ASSUME NEW i \in Replica, Die(i) \/ shutdown(i)
      PROVE  Patient'
  <2>1. (alive' \cap linked') \ fresh' = ((alive \cap linked) \ fresh) \ {i}
    BY <1>4 DEF Die, shutdown, Gone
  <2>2. UNCHANGED <<grace, seen>>
    BY <1>4 DEF Die, shutdown, Gone
  <2> QED
    BY <2>1, <2>2
<1>5. ASSUME NEW i \in Replica, start(i)
      PROVE  Patient'
  <2>1. (alive' \cap linked') \ fresh' \subseteq ((alive \cap linked) \ fresh) \ {i}
    BY <1>5 DEF start
  <2>2. \A j \in Replica \ {i} : grace'[j] = grace[j] /\ seen'[j] = seen[j]
    BY <1>5 DEF start, HeartbeatsTypeOK
  <2> QED
    BY <2>1, <2>2 DEF HeartbeatsTypeOK
<1> QED
  BY <1>1, <1>2, <1>3, <1>4, <1>5, IntervalPatient, BeatPatient DEF HeartbeatsNext

LEMMA NobodyWronglyReaped ==
  ASSUME HeartbeatsTypeOK, Patient, NotReapedForAnOutage, [HeartbeatsNext]_heartVars
  PROVE  NotReapedForAnOutage'
<1> USE DEF NotReapedForAnOutage
<1>1. ASSUME NEW i \in Replica, reapDeadInstancesLocked(i)
      PROVE  ~wrongly'
  <2>1. grace[i] = 0 /\ i \in alive \cap linked
    BY <1>1 DEF reapDeadInstancesLocked, listDeadInstances, HeartbeatsTypeOK, Never
  <2>2. i \notin fresh => seen[i] = BeatTtl
    BY <2>1, BeatTtlType DEF Patient, WaitsOut, HeartbeatsTypeOK
  <2>3. i \in fresh \/ ~(seen[i] < BeatTtl)
    BY <2>2, BeatTtlType
  <2> QED
    BY <1>1, <2>3, Zenon DEF reapDeadInstancesLocked
<1>2. CASE UNCHANGED wrongly
  BY <1>2
<1> QED
  BY <1>1, <1>2 DEF HeartbeatsNext, heartVars, Interval, beat, markOutage, ready, Die, shutdown, Gone,
     start, Outage

\* Nobody reaps a live replica for an outage of Redis they shared: a replica that
\* was connected for less than a TTL waits it out (markOutage, reapAllowedAt,
\* listDeadInstances), for any number of replicas and any TTL.
THEOREM OutagesReapNobody == HeartbeatsSpec => []NotReapedForAnOutage
<1>1. HeartbeatsInit => Patient /\ NotReapedForAnOutage
  BY BeatTtlType DEF HeartbeatsInit, Patient, WaitsOut, NotReapedForAnOutage
<1> QED
  BY <1>1, HeartbeatsInitType, HeartbeatsNextType, PatientNext, NobodyWronglyReaped, PTL
     DEF HeartbeatsSpec

(***************************************************************************)
(* Sockets.                                                                *)
(***************************************************************************)

\* Who gives a place in perSession back is who holds one.
OwnPlaces == onClose = {c \in Conn : at[c] = "connected"}

SocketsInv == SocketsTypeOK /\ PlacesAreExact /\ OwnPlaces

(***************************************************************************)
(* Sockets: sets of connections.                                           *)
(***************************************************************************)

LEMMA ConnectionsFinite ==
  ASSUME NEW S \in SUBSET Conn
  PROVE  IsFiniteSet(S) /\ Cardinality(S) \in Nat
BY SocketsAssumption, FS_Subset, FS_CardinalityType

LEMMA OneMore ==
  ASSUME NEW S \in SUBSET Conn, NEW c \in Conn, c \notin S
  PROVE  Cardinality(S \cup {c}) = Cardinality(S) + 1
BY ConnectionsFinite, FS_AddElement

LEMMA OneFewer ==
  ASSUME NEW S \in SUBSET Conn, NEW c \in Conn, c \in S
  PROVE  Cardinality(S) >= 1 /\ Cardinality(S \ {c}) = OneLess(Cardinality(S))
<1>1. Cardinality(S \ {c}) = Cardinality(S) - 1
  BY ConnectionsFinite, FS_RemoveElement
<1>2. Cardinality(S) \in Nat /\ Cardinality(S \ {c}) \in Nat
  BY ConnectionsFinite
<1> QED
  BY <1>1, <1>2 DEF OneLess

LEMMA SetsOfConnections ==
  /\ Open \in SUBSET Conn
  /\ \A ip : OpenFrom(ip) \in SUBSET Conn
  /\ \A n : OpenIn(n) \in SUBSET Conn
  /\ \A s : ConnectedAs(s) \in SUBSET Conn
BY DEF Open, OpenFrom, OpenIn, ConnectedAs

(***************************************************************************)
(* Sockets: types.                                                         *)
(***************************************************************************)

LEMMA SocketsTypeStep ==
  ASSUME SocketsTypeOK, [SocketsNext]_socketVars
  PROVE  SocketsTypeOK'
<1> USE SocketsAssumption DEF SocketsTypeOK, OneLess
<1>1. ASSUME NEW c \in Conn, upgrade(c) PROVE SocketsTypeOK'
  BY <1>1 DEF upgrade
<1>2. ASSUME NEW c \in Conn, count(c) PROVE SocketsTypeOK'
  BY <1>2 DEF count
<1>3. ASSUME NEW c \in Conn, close(c) PROVE SocketsTypeOK'
  BY <1>3 DEF close
<1>4. ASSUME NEW c \in Conn, NEW ok \in BOOLEAN, connectPacket(c, ok) PROVE SocketsTypeOK'
  BY <1>4 DEF connectPacket
<1>5. ASSUME NEW counts \in BOOLEAN, sample(counts) PROVE SocketsTypeOK'
  BY <1>5 DEF sample
<1>6. CASE UNCHANGED socketVars
  BY <1>6 DEF socketVars
<1> QED
  BY <1>1, <1>2, <1>3, <1>4, <1>5, <1>6 DEF SocketsNext

(***************************************************************************)
(* Sockets: places.                                                        *)
(***************************************************************************)

\* A connection that stays open or closed, connected or not, moves no counter.
LEMMA SameSets ==
  ASSUME Open' = Open, \A s \in Session : ConnectedAs(s)' = ConnectedAs(s), PlacesAreExact,
         UNCHANGED <<perIp, perNetwork, perSession>>
  PROVE  PlacesAreExact'
BY DEF PlacesAreExact, OpenFrom, OpenIn

LEMMA UpgradePlaces ==
  ASSUME SocketsInv, NEW c \in Conn, upgrade(c)
  PROVE  PlacesAreExact'
<1> USE SocketsAssumption, SetsOfConnections DEF SocketsInv, SocketsTypeOK, upgrade
<1>1. c \notin Open /\ Open' = Open \cup {c}
  BY DEF Open
<1>2. ASSUME NEW ip \in Ip
      PROVE  perIp'[ip] = Cardinality(OpenFrom(ip))' /\ perIp'[ip] <= MaxPerIp
  <2>1. CASE IpOf[c] = ip
    <3>1. OpenFrom(ip)' = OpenFrom(ip) \cup {c} /\ c \notin OpenFrom(ip)
      BY <1>1, <2>1 DEF OpenFrom
    <3>2. Cardinality(OpenFrom(ip))' = perIp[ip] + 1
      BY <3>1, OneMore DEF PlacesAreExact
    <3> QED
      BY <2>1, <3>2 DEF gateAdmits
  <2>2. CASE IpOf[c] # ip
    <3>1. OpenFrom(ip)' = OpenFrom(ip)
      BY <1>1, <2>2 DEF OpenFrom
    <3> QED
      BY <2>2, <3>1 DEF PlacesAreExact
  <2> QED
    BY <2>1, <2>2
<1>3. ASSUME NEW n \in Network
      PROVE  perNetwork'[n] = Cardinality(OpenIn(n))' /\ perNetwork'[n] <= MaxPerNetwork
  <2>1. CASE NetworkOf[IpOf[c]] = n
    <3>1. OpenIn(n)' = OpenIn(n) \cup {c} /\ c \notin OpenIn(n)
      BY <1>1, <2>1 DEF OpenIn
    <3>2. Cardinality(OpenIn(n))' = perNetwork[n] + 1
      BY <3>1, OneMore DEF PlacesAreExact
    <3> QED
      BY <2>1, <3>2 DEF gateAdmits
  <2>2. CASE NetworkOf[IpOf[c]] # n
    <3>1. OpenIn(n)' = OpenIn(n)
      BY <1>1, <2>2 DEF OpenIn
    <3> QED
      BY <2>2, <3>1 DEF PlacesAreExact
  <2> QED
    BY <2>1, <2>2
<1>4. \A s \in Session : ConnectedAs(s)' = ConnectedAs(s)
  BY DEF ConnectedAs
<1>5. Cardinality(Open)' <= MaxTotal
  <2>1. Cardinality(Open)' = Cardinality(Open) + 1
    BY <1>1, OneMore
  <2>2. Cardinality(Open) \in Nat
    BY ConnectionsFinite
  <2> QED
    BY <2>1, <2>2 DEF admitSocket
<1> QED
  BY <1>2, <1>3, <1>4, <1>5 DEF PlacesAreExact

LEMMA CountPlaces ==
  ASSUME SocketsInv, NEW c \in Conn, count(c)
  PROVE  PlacesAreExact'
<1> USE SocketsAssumption, SetsOfConnections DEF SocketsInv, SocketsTypeOK
<1>1. Open' = Open
  BY DEF count, Open
<1>2. CASE at'[c] # "connected"
  <2>1. \A s \in Session : ConnectedAs(s)' = ConnectedAs(s)
    BY <1>2 DEF count, ConnectedAs
  <2> QED
    BY <1>1, <1>2, <2>1, SameSets DEF count
<1>3. CASE at'[c] = "connected"
  <2>1. /\ at[c] = "asking" /\ perSession[SessionOf[c]] < MaxPerSession
        /\ at' = [at EXCEPT ![c] = "connected"]
        /\ perSession' = [perSession EXCEPT ![SessionOf[c]] = @ + 1]
        /\ UNCHANGED <<perIp, perNetwork>>
    BY <1>3 DEF count
  <2>2. ASSUME NEW s \in Session
        PROVE  perSession'[s] = Cardinality(ConnectedAs(s))' /\ perSession'[s] <= MaxPerSession
    <3>1. CASE SessionOf[c] = s
      <4>1. ConnectedAs(s)' = ConnectedAs(s) \cup {c} /\ c \notin ConnectedAs(s)
        BY <2>1, <3>1 DEF ConnectedAs
      <4>2. Cardinality(ConnectedAs(s))' = perSession[s] + 1
        BY <4>1, OneMore DEF PlacesAreExact
      <4> QED
        BY <2>1, <3>1, <4>2
    <3>2. CASE SessionOf[c] # s
      <4>1. ConnectedAs(s)' = ConnectedAs(s)
        BY <2>1, <3>2 DEF ConnectedAs
      <4> QED
        BY <2>1, <3>2, <4>1 DEF PlacesAreExact
    <3> QED
      BY <3>1, <3>2
  <2> QED
    BY <1>1, <2>1, <2>2 DEF PlacesAreExact, OpenFrom, OpenIn
<1> QED
  BY <1>2, <1>3

LEMMA ClosePlaces ==
  ASSUME SocketsInv, NEW c \in Conn, close(c)
  PROVE  PlacesAreExact'
<1> USE SocketsAssumption, SetsOfConnections DEF SocketsInv, SocketsTypeOK, close
<1>1. c \in Open /\ Open' = Open \ {c}
  BY DEF Open
<1>2. ASSUME NEW ip \in Ip
      PROVE  perIp'[ip] = Cardinality(OpenFrom(ip))' /\ perIp'[ip] <= MaxPerIp
  <2>1. CASE IpOf[c] = ip
    <3>1. OpenFrom(ip)' = OpenFrom(ip) \ {c} /\ c \in OpenFrom(ip)
      BY <1>1, <2>1 DEF OpenFrom
    <3>2. Cardinality(OpenFrom(ip))' = OneLess(perIp[ip])
      BY <3>1, OneFewer DEF PlacesAreExact
    <3>3. perIp[ip] \in Nat /\ perIp[ip] <= MaxPerIp
      BY DEF PlacesAreExact
    <3> QED
      BY <2>1, <3>2, <3>3 DEF OneLess
  <2>2. CASE IpOf[c] # ip
    <3>1. OpenFrom(ip)' = OpenFrom(ip)
      BY <1>1, <2>2 DEF OpenFrom
    <3> QED
      BY <2>2, <3>1 DEF PlacesAreExact
  <2> QED
    BY <2>1, <2>2
<1>3. ASSUME NEW n \in Network
      PROVE  perNetwork'[n] = Cardinality(OpenIn(n))' /\ perNetwork'[n] <= MaxPerNetwork
  <2>1. CASE NetworkOf[IpOf[c]] = n
    <3>1. OpenIn(n)' = OpenIn(n) \ {c} /\ c \in OpenIn(n)
      BY <1>1, <2>1 DEF OpenIn
    <3>2. Cardinality(OpenIn(n))' = OneLess(perNetwork[n])
      BY <3>1, OneFewer DEF PlacesAreExact
    <3>3. perNetwork[n] \in Nat /\ perNetwork[n] <= MaxPerNetwork
      BY DEF PlacesAreExact
    <3> QED
      BY <2>1, <3>2, <3>3 DEF OneLess
  <2>2. CASE NetworkOf[IpOf[c]] # n
    <3>1. OpenIn(n)' = OpenIn(n)
      BY <1>1, <2>2 DEF OpenIn
    <3> QED
      BY <2>2, <3>1 DEF PlacesAreExact
  <2> QED
    BY <2>1, <2>2
<1>4. ASSUME NEW s \in Session
      PROVE  perSession'[s] = Cardinality(ConnectedAs(s))' /\ perSession'[s] <= MaxPerSession
  <2>1. CASE SessionOf[c] = s /\ c \in onClose
    <3>1. ConnectedAs(s)' = ConnectedAs(s) \ {c} /\ c \in ConnectedAs(s)
      BY <2>1 DEF ConnectedAs, OwnPlaces
    <3>2. Cardinality(ConnectedAs(s))' = OneLess(perSession[s])
      BY <3>1, OneFewer DEF PlacesAreExact
    <3>3. perSession[s] \in Nat /\ perSession[s] <= MaxPerSession
      BY DEF PlacesAreExact
    <3> QED
      BY <2>1, <3>2, <3>3 DEF OneLess
  <2>2. CASE ~(SessionOf[c] = s /\ c \in onClose)
    <3>1. ConnectedAs(s)' = ConnectedAs(s)
      BY <2>2 DEF ConnectedAs, OwnPlaces
    <3> QED
      BY <2>2, <3>1 DEF PlacesAreExact
  <2> QED
    BY <2>1, <2>2
<1>5. Cardinality(Open)' <= MaxTotal
  <2>1. Cardinality(Open)' = OneLess(Cardinality(Open))
    BY <1>1, OneFewer
  <2>2. Cardinality(Open) \in Nat /\ Cardinality(Open) <= MaxTotal
    BY ConnectionsFinite DEF PlacesAreExact
  <2> QED
    BY <2>1, <2>2 DEF OneLess
<1> QED
  BY <1>2, <1>3, <1>4, <1>5 DEF PlacesAreExact

LEMMA OwnPlacesStep ==
  ASSUME SocketsInv, [SocketsNext]_socketVars
  PROVE  OwnPlaces'
<1> USE DEF SocketsInv, SocketsTypeOK, OwnPlaces
<1>1. ASSUME NEW c \in Conn, upgrade(c) PROVE OwnPlaces'
  BY <1>1 DEF upgrade
<1>2. ASSUME NEW c \in Conn, count(c) PROVE OwnPlaces'
  BY <1>2 DEF count
<1>3. ASSUME NEW c \in Conn, close(c) PROVE OwnPlaces'
  BY <1>3 DEF close
<1>4. ASSUME NEW c \in Conn, NEW ok \in BOOLEAN, connectPacket(c, ok) PROVE OwnPlaces'
  BY <1>4 DEF connectPacket
<1>5. ASSUME NEW counts \in BOOLEAN, sample(counts) PROVE OwnPlaces'
  BY <1>5 DEF sample
<1>6. CASE UNCHANGED socketVars
  BY <1>6 DEF socketVars
<1> QED
  BY <1>1, <1>2, <1>3, <1>4, <1>5, <1>6 DEF SocketsNext

LEMMA SocketsStep ==
  ASSUME SocketsInv, [SocketsNext]_socketVars
  PROVE  SocketsInv'
<1>1. SocketsTypeOK' /\ OwnPlaces'
  BY SocketsTypeStep, OwnPlacesStep DEF SocketsInv
<1>2. ASSUME NEW c \in Conn, NEW ok \in BOOLEAN, connectPacket(c, ok) PROVE PlacesAreExact'
  <2>1. Open' = Open /\ \A s \in Session : ConnectedAs(s)' = ConnectedAs(s)
    BY <1>2 DEF connectPacket, Open, ConnectedAs, SocketsInv, SocketsTypeOK
  <2> QED
    BY <1>2, <2>1, SameSets DEF connectPacket, SocketsInv
<1>3. ASSUME NEW counts \in BOOLEAN, sample(counts) PROVE PlacesAreExact'
  BY <1>3, SameSets DEF sample, SocketsInv, Open, ConnectedAs
<1>4. ASSUME UNCHANGED socketVars PROVE PlacesAreExact'
  BY <1>4, SameSets DEF socketVars, SocketsInv, Open, ConnectedAs
<1>5. PlacesAreExact'
  BY <1>2, <1>3, <1>4, UpgradePlaces, CountPlaces, ClosePlaces DEF SocketsNext
<1> QED
  BY <1>1, <1>5 DEF SocketsInv

LEMMA SocketsStart == SocketsInit => SocketsInv
<1> SUFFICES ASSUME SocketsInit PROVE SocketsInv
  OBVIOUS
<1> USE SocketsAssumption DEF SocketsInit
<1>1. SocketsTypeOK /\ OwnPlaces
  BY DEF SocketsTypeOK, OwnPlaces
<1>2. Open = {} /\ \A s : ConnectedAs(s) = {}
  BY DEF Open, ConnectedAs
<1>3. /\ \A ip : OpenFrom(ip) = {}
      /\ \A n : OpenIn(n) = {}
  BY <1>2 DEF OpenFrom, OpenIn
<1>4. Cardinality({}) = 0
  BY FS_EmptySet
<1>5. Cardinality(Open) <= MaxTotal
  BY <1>2, <1>4
<1> HIDE DEF SocketsInit
<1>6. {MaxPerIp, MaxPerNetwork, MaxPerSession} \subseteq Nat
  OBVIOUS
<1> HIDE SocketsAssumption
<1>7. /\ \A ip \in Ip : perIp[ip] = 0
      /\ \A n \in Network : perNetwork[n] = 0
      /\ \A s \in Session : perSession[s] = 0
  BY DEF SocketsInit
<1>8. ASSUME NEW ip \in Ip PROVE perIp[ip] = Cardinality(OpenFrom(ip)) /\ perIp[ip] <= MaxPerIp
  BY <1>3, <1>4, <1>6, <1>7
<1>9. ASSUME NEW n \in Network
      PROVE  perNetwork[n] = Cardinality(OpenIn(n)) /\ perNetwork[n] <= MaxPerNetwork
  BY <1>3, <1>4, <1>6, <1>7
<1>10. ASSUME NEW s \in Session
      PROVE  perSession[s] = Cardinality(ConnectedAs(s)) /\ perSession[s] <= MaxPerSession
  BY <1>2, <1>4, <1>6, <1>7
<1>11. PlacesAreExact
  BY <1>5, <1>8, <1>9, <1>10 DEF PlacesAreExact
<1> QED
  BY <1>1, <1>11 DEF SocketsInv

\* However closes race the handshake, every counter is the number of connections it
\* stands for and none is above its limit (ConnectionGate, attachHandlers).
THEOREM PlacesAreExactCorrect == SocketsSpec => []PlacesAreExact
<1>1. SocketsSpec => []SocketsInv
  BY SocketsStart, SocketsStep, PTL DEF SocketsSpec
<1>2. SocketsInv => PlacesAreExact
  BY DEF SocketsInv
<1> QED
  BY <1>1, <1>2, PTL

(***************************************************************************)
(* Relay.                                                                  *)
(***************************************************************************)

\* A request that was counted in this hour, for its device or its address, and may be
\* answered with a set.
DevicePending(x) ==
  x.at \in {"countAddress", "generate"} /\ "device" \notin x.old /\ x.device <= PerDevice
AddressPending(x) == x.at = "generate" /\ "address" \notin x.old

OfDevice(d) == {q \in Asking : q[2] = d /\ DevicePending(inflight[q])}
OfAddress(a) == {q \in Asking : AddressOf[q[2]] = a /\ AddressPending(inflight[q])}

\* n sets were made and S may be, out of h requests counted and a cap.
Budget(n, S, h, cap) ==
  /\ n \in Nat /\ h \in Nat /\ IsFiniteSet(S)
  /\ n + Cardinality(S) <= h /\ n + Cardinality(S) <= cap

RequestType == [at : {"none", "countDevice", "countAddress", "generate"},
                device : Nat, address : Nat, old : SUBSET {"device", "address"}]

RelayInv ==
  /\ cache \subseteq Device /\ hour \in Nat
  /\ deviceHits \in [Device -> Nat] /\ addressHits \in [Address -> Nat]
  /\ inflight \in [Asking -> RequestType]
  /\ issued \in [Device -> Nat] /\ charged \in [Address -> Nat]
  /\ \A q \in Asking : /\ inflight[q].at # "none" => AddressOf[q[2]] \in Address
                       /\ inflight[q].at = "generate" => inflight[q].device <= PerDevice
  /\ \A d \in Device : Budget(issued[d], OfDevice(d), deviceHits[d], PerDevice)
  /\ \A a \in Address : Budget(charged[a], OfAddress(a), addressHits[a], PerAddress)

LEMMA BudgetNone == \A cap \in Nat : Budget(0, {}, 0, cap)
BY FS_EmptySet DEF Budget

LEMMA BudgetFewer ==
  ASSUME NEW n, NEW S, NEW h, NEW cap \in Nat, Budget(n, S, h, cap),
         NEW S2 \in SUBSET S, NEW h2 \in Nat, h2 >= h
  PROVE  Budget(n, S2, h2, cap)
<1>1. IsFiniteSet(S2) /\ Cardinality(S2) <= Cardinality(S)
  BY FS_Subset DEF Budget
<1>2. Cardinality(S2) \in Nat /\ Cardinality(S) \in Nat
  BY <1>1, FS_CardinalityType DEF Budget
<1> QED
  BY <1>1, <1>2 DEF Budget

LEMMA BudgetCounts ==
  ASSUME NEW n, NEW S, NEW h, NEW cap \in Nat, Budget(n, S, h, cap), h + 1 <= cap,
         NEW q, NEW S2 \in SUBSET (S \cup {q})
  PROVE  Budget(n, S2, h + 1, cap)
<1>1. IsFiniteSet(S \cup {q}) /\ Cardinality(S) \in Nat
      /\ (Cardinality(S \cup {q}) = Cardinality(S) \/ Cardinality(S \cup {q}) = Cardinality(S) + 1)
  BY FS_AddElement, FS_CardinalityType DEF Budget
<1>2. IsFiniteSet(S2) /\ Cardinality(S2) <= Cardinality(S \cup {q}) /\ Cardinality(S2) \in Nat
  BY <1>1, FS_Subset, FS_CardinalityType
<1>3. n \in Nat /\ h \in Nat /\ n + Cardinality(S) <= h
  BY DEF Budget
<1> QED
  BY <1>1, <1>2, <1>3 DEF Budget

LEMMA BudgetSpent ==
  ASSUME NEW n, NEW S, NEW h, NEW cap \in Nat, Budget(n, S, h, cap), NEW q \in S,
         NEW S2 \in SUBSET (S \ {q})
  PROVE  Budget(n + 1, S2, h, cap)
<1>1. IsFiniteSet(S \ {q}) /\ Cardinality(S \ {q}) = Cardinality(S) - 1 /\ Cardinality(S) \in Nat
      /\ Cardinality(S \ {q}) \in Nat
  BY FS_RemoveElement, FS_CardinalityType DEF Budget
<1>2. IsFiniteSet(S2) /\ Cardinality(S2) <= Cardinality(S \ {q}) /\ Cardinality(S2) \in Nat
  BY <1>1, FS_Subset, FS_CardinalityType
<1>3. n \in Nat /\ h \in Nat /\ n + Cardinality(S) <= h /\ n + Cardinality(S) <= cap
  BY DEF Budget
<1> QED
  BY <1>1, <1>2, <1>3 DEF Budget

LEMMA RelayInvInit == RelayInit => RelayInv
<1> SUFFICES ASSUME RelayInit PROVE RelayInv
  OBVIOUS
<1>1. /\ inflight = [q \in Asking |-> NoRequest] /\ NoRequest \in RequestType /\ NoRequest.at = "none"
  BY DEF RelayInit, NoRequest, RequestType
<1>2. \A d \in Device : OfDevice(d) = {}
  BY <1>1 DEF OfDevice, DevicePending
<1>3. \A a \in Address : OfAddress(a) = {}
  BY <1>1 DEF OfAddress, AddressPending
<1>4. PerDevice \in Nat /\ PerAddress \in Nat
  BY RelayAssumption
<1> QED
  BY <1>1, <1>2, <1>3, <1>4, BudgetNone DEF RelayInit, RelayInv

\* A request that is not to be answered with a set it was not already counted for
\* leaves the budgets as they are.
LEMMA RequestMoves ==
  ASSUME RelayInv, NEW q \in Asking, NEW x \in RequestType, inflight' = [inflight EXCEPT ![q] = x]
  PROVE  /\ inflight' \in [Asking -> RequestType]
         /\ \A d \in Device : OfDevice(d)' \subseteq OfDevice(d) \cup {q}
         /\ \A d \in Device : (~DevicePending(x) \/ q[2] # d) => OfDevice(d)' \subseteq OfDevice(d) \ {q}
         /\ \A d \in Device : DevicePending(inflight[q]) => OfDevice(d)' \subseteq OfDevice(d)
         /\ \A a \in Address : OfAddress(a)' \subseteq OfAddress(a) \cup {q}
         /\ \A a \in Address : (~AddressPending(x) \/ AddressOf[q[2]] # a) => OfAddress(a)' \subseteq OfAddress(a) \ {q}
<1>1. inflight' \in [Asking -> RequestType] /\ \A p \in Asking : inflight'[p] = IF p = q THEN x ELSE inflight[p]
  BY DEF RelayInv
<1>2. \A d \in Device : OfDevice(d)' = {p \in Asking : p[2] = d /\ DevicePending(inflight'[p])}
  BY DEF OfDevice, DevicePending
<1>3. \A a \in Address : OfAddress(a)' = {p \in Asking : AddressOf[p[2]] = a /\ AddressPending(inflight'[p])}
  BY DEF OfAddress, AddressPending
<1> QED
  BY <1>1, <1>2, <1>3 DEF OfDevice, OfAddress

LEMMA RelayInvStep ==
  ASSUME RelayInv, [RelayNext]_relayVars
  PROVE  RelayInv'
<1>1. PerDevice \in Nat /\ PerAddress \in Nat /\ \A q \in Asking : q[2] \in Device
  BY RelayAssumption
<1>2. NoRequest \in RequestType /\ ~DevicePending(NoRequest) /\ ~AddressPending(NoRequest) /\ NoRequest.at = "none"
  BY DEF NoRequest, RequestType, DevicePending, AddressPending
<1>3. ASSUME NEW q \in Asking, relayServers(q) \/ IssueFails(q)
      PROVE  RelayInv'
  <2>1. PICK x \in RequestType : /\ inflight' = [inflight EXCEPT ![q] = x]
                                 /\ ~DevicePending(x) /\ ~AddressPending(x) /\ x.at # "generate"
                                 /\ x.at # "none" => AddressOf[q[2]] # NoAddress
    <3>1. CASE relayServers(q)
      <4> DEFINE x == [inflight[q] EXCEPT !.at = "countDevice"]
      <4>1. /\ inflight' = [inflight EXCEPT ![q] = x] /\ x \in RequestType /\ AddressOf[q[2]] # NoAddress
            /\ x.at = "countDevice"
        BY <3>1 DEF relayServers, RelayInv, RequestType
      <4> QED
        BY <4>1 DEF DevicePending, AddressPending
    <3>2. CASE IssueFails(q)
      BY <1>2, <3>2 DEF IssueFails, Answer
    <3> QED
      BY <1>3, <3>1, <3>2
  <2>2. UNCHANGED <<deviceHits, addressHits, issued, charged, hour, cache>>
    BY <1>3 DEF relayServers, IssueFails, History
  <2>3. /\ inflight' \in [Asking -> RequestType]
        /\ \A d \in Device : OfDevice(d)' \subseteq OfDevice(d)
        /\ \A a \in Address : OfAddress(a)' \subseteq OfAddress(a)
    BY <2>1, RequestMoves
  <2>4. \A d \in Device : Budget(issued[d], OfDevice(d), deviceHits[d], PerDevice)'
    BY <1>1, <2>2, <2>3, BudgetFewer DEF RelayInv
  <2>5. \A a \in Address : Budget(charged[a], OfAddress(a), addressHits[a], PerAddress)'
    BY <1>1, <2>2, <2>3, BudgetFewer DEF RelayInv
  <2>6. \A p \in Asking : /\ inflight'[p].at # "none" => AddressOf[p[2]] \in Address
                          /\ inflight'[p].at = "generate" => inflight'[p].device <= PerDevice
    BY <1>1, <2>1 DEF RelayInv, Address
  <2> QED
    BY <2>2, <2>3, <2>4, <2>5, <2>6 DEF RelayInv
<1>4. ASSUME NEW q \in Asking, hitDevice(q)
      PROVE  RelayInv'
  <2> DEFINE d == q[2]
             h == deviceHits[d]
             x == [inflight[q] EXCEPT !.at = "countAddress", !.device = h + 1]
  <2>1. d \in Device /\ h \in Nat /\ inflight[q] \in RequestType /\ inflight[q].at = "countDevice"
    BY <1>1, <1>4 DEF hitDevice, RelayInv
  <2>2. /\ deviceHits' = [deviceHits EXCEPT ![d] = h + 1] /\ deviceHits'[d] = h + 1
        /\ inflight' = [inflight EXCEPT ![q] = x]
        /\ UNCHANGED <<addressHits, issued, charged, hour, cache>>
    BY <1>4, <2>1 DEF hitDevice, RelayInv, History
  <2>3. x \in RequestType /\ x.at = "countAddress" /\ x.device = h + 1 /\ ~AddressPending(x)
    <3>1. h + 1 \in Nat
      BY <2>1
    <3>2. PICK n \in Nat : n = h + 1
      BY <3>1
    <3>3. x = [inflight[q] EXCEPT !.at = "countAddress", !.device = n]
      BY <3>2
    <3> QED
      BY <2>1, <3>2, <3>3 DEF RequestType, AddressPending
  <2> HIDE DEF x
  <2>4. /\ inflight' \in [Asking -> RequestType]
        /\ \A e \in Device : OfDevice(e)' \subseteq OfDevice(e) \cup {q}
        /\ \A e \in Device : (~DevicePending(x) \/ q[2] # e) => OfDevice(e)' \subseteq OfDevice(e) \ {q}
        /\ \A a \in Address : OfAddress(a)' \subseteq OfAddress(a)
    BY <2>2, <2>3, RequestMoves
  <2>5. ASSUME NEW e \in Device
        PROVE  Budget(issued[e], OfDevice(e), deviceHits[e], PerDevice)'
    <3>1. Budget(issued[e], OfDevice(e), deviceHits[e], PerDevice)
      BY DEF RelayInv
    <3>2. deviceHits'[e] = IF e = d THEN h + 1 ELSE deviceHits[e]
      BY <2>2 DEF RelayInv
    <3>3. CASE e # d
      <4>1. OfDevice(e)' \subseteq OfDevice(e) /\ deviceHits'[e] = deviceHits[e] /\ deviceHits[e] \in Nat
        BY <2>4, <3>2, <3>3 DEF RelayInv
      <4> QED
        BY <1>1, <2>2, <3>1, <4>1, BudgetFewer
    <3>4. CASE e = d /\ h + 1 <= PerDevice
      <4>1. OfDevice(e)' \subseteq OfDevice(e) \cup {q} /\ deviceHits'[e] = h + 1 /\ deviceHits[e] = h
        BY <2>4, <3>2, <3>4
      <4>2. Budget(issued[e], OfDevice(e), h, PerDevice)
        BY <3>1, <4>1
      <4>3. Budget(issued[e], OfDevice(e)', h + 1, PerDevice)
        BY <1>1, <3>4, <4>1, <4>2, BudgetCounts
      <4> QED
        BY <2>2, <4>1, <4>3
    <3>5. CASE e = d /\ ~(h + 1 <= PerDevice)
      <4>1. ~DevicePending(x)
        BY <2>3, <3>5 DEF DevicePending
      <4>2. OfDevice(e)' \subseteq OfDevice(e) /\ deviceHits'[e] = h + 1 /\ deviceHits[e] = h
        BY <2>4, <3>2, <3>5, <4>1
      <4>3. h + 1 \in Nat /\ h + 1 >= h
        BY <2>1
      <4> QED
        BY <1>1, <2>2, <3>1, <4>2, <4>3, BudgetFewer
    <3> QED
      BY <3>3, <3>4, <3>5
  <2>6. \A a \in Address : Budget(charged[a], OfAddress(a), addressHits[a], PerAddress)'
    BY <1>1, <2>2, <2>4, BudgetFewer DEF RelayInv
  <2>7. \A p \in Asking : /\ inflight'[p].at # "none" => AddressOf[p[2]] \in Address
                          /\ inflight'[p].at = "generate" => inflight'[p].device <= PerDevice
    BY <2>1, <2>2, <2>3 DEF RelayInv
  <2>8. deviceHits' \in [Device -> Nat]
    BY <2>1, <2>2 DEF RelayInv
  <2> QED
    BY <2>2, <2>4, <2>5, <2>6, <2>7, <2>8 DEF RelayInv
<1>5. ASSUME NEW q \in Asking, hitAddress(q)
      PROVE  RelayInv'
  <2> DEFINE a == AddressOf[q[2]]
             h == addressHits[a]
             y == [inflight[q] EXCEPT !.at = "generate", !.address = h + 1]
  <2>1. a \in Address /\ h \in Nat /\ inflight[q] \in RequestType /\ inflight[q].at = "countAddress"
    BY <1>1, <1>5 DEF hitAddress, RelayInv
  <2>2. /\ addressHits' = [addressHits EXCEPT ![a] = h + 1] /\ addressHits'[a] = h + 1
        /\ UNCHANGED <<deviceHits, issued, charged, hour, cache>>
    BY <1>5, <2>1 DEF hitAddress, RelayInv, History
  <2>3. /\ y \in RequestType /\ y.at = "generate" /\ y.device = inflight[q].device /\ y.old = inflight[q].old
        /\ DevicePending(y) => DevicePending(inflight[q])
    <3>1. h + 1 \in Nat
      BY <2>1
    <3>2. PICK n \in Nat : n = h + 1
      BY <3>1
    <3>3. y = [inflight[q] EXCEPT !.at = "generate", !.address = n]
      BY <3>2
    <3> HIDE DEF y
    <3>4. y \in RequestType /\ y.at = "generate" /\ y.device = inflight[q].device /\ y.old = inflight[q].old
      BY <2>1, <3>3 DEF RequestType
    <3> QED
      BY <2>1, <3>4 DEF DevicePending
  <2>4. PICK x \in RequestType :
          /\ inflight' = [inflight EXCEPT ![q] = x]
          /\ DevicePending(x) => DevicePending(inflight[q])
          /\ x.at = "generate" => x.device <= PerDevice
          /\ ~AddressPending(x) \/ h + 1 <= PerAddress
    <3>1. CASE Over(inflight[q].device, h + 1)
      BY <1>2, <1>5, <2>2, <3>1 DEF hitAddress, Answer
    <3>2. CASE ~Over(inflight[q].device, h + 1)
      <4>1. inflight' = [inflight EXCEPT ![q] = y]
        BY <1>5, <2>2, <3>2 DEF hitAddress
      <4>2. inflight[q].device <= PerDevice /\ h + 1 <= PerAddress
        BY <1>1, <2>1, <3>2 DEF Over, RequestType
      <4> QED
        BY <2>3, <4>1, <4>2
    <3> QED
      BY <3>1, <3>2
  <2> HIDE DEF y
  <2>5. /\ inflight' \in [Asking -> RequestType]
        /\ \A d \in Device : OfDevice(d)' \subseteq OfDevice(d)
        /\ \A b \in Address : OfAddress(b)' \subseteq OfAddress(b) \cup {q}
        /\ \A b \in Address : (~AddressPending(x) \/ a # b) => OfAddress(b)' \subseteq OfAddress(b)
    <3>1. /\ inflight' \in [Asking -> RequestType]
          /\ \A d \in Device : ~DevicePending(x) => OfDevice(d)' \subseteq OfDevice(d) \ {q}
          /\ \A d \in Device : DevicePending(inflight[q]) => OfDevice(d)' \subseteq OfDevice(d)
          /\ \A b \in Address : OfAddress(b)' \subseteq OfAddress(b) \cup {q}
          /\ \A b \in Address : (~AddressPending(x) \/ a # b) => OfAddress(b)' \subseteq OfAddress(b) \ {q}
      BY <2>4, RequestMoves
    <3> QED
      BY <2>4, <3>1
  <2>6. ASSUME NEW b \in Address
        PROVE  Budget(charged[b], OfAddress(b), addressHits[b], PerAddress)'
    <3>1. Budget(charged[b], OfAddress(b), addressHits[b], PerAddress)
      BY DEF RelayInv
    <3>2. addressHits'[b] = IF b = a THEN h + 1 ELSE addressHits[b]
      BY <2>2 DEF RelayInv
    <3>3. CASE b # a
      <4>1. OfAddress(b)' \subseteq OfAddress(b) /\ addressHits'[b] = addressHits[b] /\ addressHits[b] \in Nat
        BY <2>5, <3>2, <3>3 DEF RelayInv
      <4> QED
        BY <1>1, <2>2, <3>1, <4>1, BudgetFewer
    <3>4. CASE b = a /\ h + 1 <= PerAddress
      <4>1. OfAddress(b)' \subseteq OfAddress(b) \cup {q} /\ addressHits'[b] = h + 1 /\ addressHits[b] = h
        BY <2>5, <3>2, <3>4
      <4> QED
        BY <1>1, <2>2, <3>1, <3>4, <4>1, BudgetCounts
    <3>5. CASE b = a /\ ~(h + 1 <= PerAddress)
      <4>1. OfAddress(b)' \subseteq OfAddress(b) /\ addressHits'[b] = h + 1 /\ addressHits[b] = h
        BY <2>4, <2>5, <3>2, <3>5
      <4>2. h + 1 \in Nat /\ h + 1 >= h
        BY <2>1
      <4> QED
        BY <1>1, <2>2, <3>1, <4>1, <4>2, BudgetFewer
    <3> QED
      BY <3>3, <3>4, <3>5
  <2>7. \A d \in Device : Budget(issued[d], OfDevice(d), deviceHits[d], PerDevice)'
    BY <1>1, <2>2, <2>5, BudgetFewer DEF RelayInv
  <2>8. \A p \in Asking : /\ inflight'[p].at # "none" => AddressOf[p[2]] \in Address
                          /\ inflight'[p].at = "generate" => inflight'[p].device <= PerDevice
    BY <2>1, <2>4 DEF RelayInv
  <2>9. addressHits' \in [Address -> Nat]
    BY <2>1, <2>2 DEF RelayInv
  <2> QED
    BY <2>2, <2>5, <2>6, <2>7, <2>8, <2>9 DEF RelayInv

<1>6. ASSUME NEW q \in Asking, generate(q)
      PROVE  RelayInv'
  <2> DEFINE d == q[2]
             a == AddressOf[d]
  <2>1. /\ d \in Device /\ a \in Address /\ inflight[q] \in RequestType /\ inflight[q].at = "generate"
        /\ inflight[q].device <= PerDevice /\ issued[d] \in Nat /\ charged[a] \in Nat
    BY <1>1, <1>6 DEF generate, RelayInv
  <2>2. /\ cache' = cache \cup {d} /\ inflight' = [inflight EXCEPT ![q] = NoRequest]
        /\ issued' = IF "device" \in inflight[q].old THEN issued ELSE [issued EXCEPT ![d] = @ + 1]
        /\ charged' = IF "address" \in inflight[q].old THEN charged ELSE [charged EXCEPT ![a] = @ + 1]
        /\ UNCHANGED <<deviceHits, addressHits, hour>>
    BY <1>6 DEF generate, Answer
  <2>3. /\ inflight' \in [Asking -> RequestType]
        /\ \A e \in Device : OfDevice(e)' \subseteq OfDevice(e) \ {q}
        /\ \A b \in Address : OfAddress(b)' \subseteq OfAddress(b) \ {q}
    BY <1>2, <2>2, RequestMoves
  <2>4. issued' \in [Device -> Nat] /\ charged' \in [Address -> Nat]
    BY <2>1, <2>2 DEF RelayInv
  <2>5. ASSUME NEW e \in Device
        PROVE  Budget(issued[e], OfDevice(e), deviceHits[e], PerDevice)'
    <3>1. Budget(issued[e], OfDevice(e), deviceHits[e], PerDevice) /\ deviceHits[e] \in Nat
      BY DEF RelayInv
    <3>2. CASE e = d /\ "device" \notin inflight[q].old
      <4>1. q \in OfDevice(e)
        BY <2>1, <3>2 DEF OfDevice, DevicePending
      <4>2. issued'[e] = issued[e] + 1
        BY <2>1, <2>2, <3>2 DEF RelayInv
      <4>3. OfDevice(e)' \subseteq OfDevice(e) \ {q} /\ deviceHits'[e] = deviceHits[e]
        BY <2>2, <2>3
      <4> QED
        BY <1>1, <3>1, <4>1, <4>2, <4>3, BudgetSpent
    <3>3. CASE ~(e = d /\ "device" \notin inflight[q].old)
      <4>1. issued'[e] = issued[e]
        BY <2>1, <2>2, <3>3 DEF RelayInv
      <4>2. OfDevice(e)' \subseteq OfDevice(e) /\ deviceHits'[e] = deviceHits[e]
        BY <2>2, <2>3
      <4> QED
        BY <1>1, <3>1, <4>1, <4>2, BudgetFewer
    <3> QED
      BY <3>2, <3>3
  <2>6. ASSUME NEW b \in Address
        PROVE  Budget(charged[b], OfAddress(b), addressHits[b], PerAddress)'
    <3>1. Budget(charged[b], OfAddress(b), addressHits[b], PerAddress) /\ addressHits[b] \in Nat
      BY DEF RelayInv
    <3>2. CASE b = a /\ "address" \notin inflight[q].old
      <4>1. q \in OfAddress(b)
        BY <2>1, <3>2 DEF OfAddress, AddressPending
      <4>2. charged'[b] = charged[b] + 1
        BY <2>1, <2>2, <3>2 DEF RelayInv
      <4>3. OfAddress(b)' \subseteq OfAddress(b) \ {q} /\ addressHits'[b] = addressHits[b]
        BY <2>2, <2>3
      <4> QED
        BY <1>1, <3>1, <4>1, <4>2, <4>3, BudgetSpent
    <3>3. CASE ~(b = a /\ "address" \notin inflight[q].old)
      <4>1. charged'[b] = charged[b]
        BY <2>1, <2>2, <3>3 DEF RelayInv
      <4>2. OfAddress(b)' \subseteq OfAddress(b) /\ addressHits'[b] = addressHits[b]
        BY <2>2, <2>3
      <4> QED
        BY <1>1, <3>1, <4>1, <4>2, BudgetFewer
    <3> QED
      BY <3>2, <3>3
  <2>7. \A p \in Asking : /\ inflight'[p].at # "none" => AddressOf[p[2]] \in Address
                          /\ inflight'[p].at = "generate" => inflight'[p].device <= PerDevice
    BY <1>2, <2>2 DEF RelayInv
  <2> QED
    BY <2>1, <2>2, <2>3, <2>4, <2>5, <2>6, <2>7 DEF RelayInv
<1>7. ASSUME NEW d \in Device, CacheExpires(d)
      PROVE  RelayInv'
  BY <1>7 DEF CacheExpires, History, RelayInv, OfDevice, OfAddress
<1>8. CASE NextHour
  <2>1. /\ hour' = hour + 1 /\ UNCHANGED cache
        /\ deviceHits' = [d \in Device |-> 0] /\ addressHits' = [a \in Address |-> 0]
        /\ issued' = [d \in Device |-> 0] /\ charged' = [a \in Address |-> 0]
        /\ inflight' = [q \in Asking |->
             [inflight[q] EXCEPT !.old = IF inflight[q].at = "generate" THEN {"device", "address"}
                                         ELSE IF inflight[q].at = "countAddress" THEN {"device"} ELSE @]]
    BY <1>8 DEF NextHour
  <2>2. ASSUME NEW q \in Asking
        PROVE  /\ inflight'[q] \in RequestType /\ inflight'[q].at = inflight[q].at
               /\ inflight'[q].device = inflight[q].device
               /\ ~DevicePending(inflight'[q]) /\ ~AddressPending(inflight'[q])
    <3>1. inflight[q] \in RequestType
      BY DEF RelayInv
    <3>2. inflight'[q] = [inflight[q] EXCEPT !.old = IF inflight[q].at = "generate" THEN {"device", "address"}
                                         ELSE IF inflight[q].at = "countAddress" THEN {"device"} ELSE @]
      BY <2>1
    <3> QED
      BY <3>1, <3>2 DEF RequestType, DevicePending, AddressPending
  <2>3. inflight' \in [Asking -> RequestType]
    BY <2>1, <2>2
  <2>4. \A d \in Device : OfDevice(d)' = {}
    BY <2>2 DEF OfDevice, DevicePending
  <2>5. \A a \in Address : OfAddress(a)' = {}
    BY <2>2 DEF OfAddress, AddressPending
  <2>6. \A d \in Device : Budget(issued[d], OfDevice(d), deviceHits[d], PerDevice)'
    BY <1>1, <2>1, <2>4, BudgetNone
  <2>7. \A a \in Address : Budget(charged[a], OfAddress(a), addressHits[a], PerAddress)'
    BY <1>1, <2>1, <2>5, BudgetNone
  <2>8. /\ deviceHits' \in [Device -> Nat] /\ addressHits' \in [Address -> Nat]
        /\ issued' \in [Device -> Nat] /\ charged' \in [Address -> Nat]
        /\ hour' \in Nat /\ cache' \subseteq Device
    BY <2>1 DEF RelayInv
  <2>9. \A p \in Asking : /\ inflight'[p].at # "none" => AddressOf[p[2]] \in Address
                          /\ inflight'[p].at = "generate" => inflight'[p].device <= PerDevice
    BY <2>2 DEF RelayInv
  <2> QED
    BY <2>3, <2>6, <2>7, <2>8, <2>9 DEF RelayInv
<1>9. CASE UNCHANGED relayVars
  BY <1>9 DEF relayVars, History, RelayInv, OfDevice, OfAddress
<1> QED
  BY <1>3, <1>4, <1>5, <1>6, <1>7, <1>8, <1>9 DEF RelayNext

\* However many replicas ask at once and wherever the hour ends, no window pays for more
\* credential sets of a device or an address than its cap (TurnService.issue).
THEOREM CredentialsAreCappedCorrect == RelaySpec => []CredentialsAreCapped
<1>1. ASSUME NEW n, NEW S, NEW h, NEW cap \in Nat, Budget(n, S, h, cap)
      PROVE  n <= cap
  <2>1. Cardinality(S) \in Nat
    BY <1>1, FS_CardinalityType DEF Budget
  <2> QED
    BY <1>1, <2>1 DEF Budget
<1>2. RelayInv => CredentialsAreCapped
  BY <1>1, RelayAssumption DEF RelayInv, CredentialsAreCapped
<1> QED
  BY <1>2, RelayInvInit, RelayInvStep, PTL DEF RelaySpec

(***************************************************************************)
(* Deploy.                                                                 *)
(***************************************************************************)

HostType ==
  [files : Files, tag : Tag \cup {None}, previous : Files \cup {None},
   deployed : Tag \cup {None}, incoming : Files \cup {None}]
RunType ==
  [pc : {"idle", "save", "install", "release", "pull", "start", "rollback"},
   new : Tag \cup {None}, prev : Tag \cup {None}, installed : BOOLEAN]

Verified(t, f) == <<t, f>> \in verified

\* What a run relies on, whatever happened before it.
RunInv ==
  /\ run.pc # "idle" => run.prev = host.deployed
  /\ run.pc = "install" => host.incoming # None
  /\ run.pc \in {"pull", "start"} => host.tag = run.new
  /\ run.pc # "idle" => run.new \in Tag
  /\ run.pc = "rollback" => host.tag = host.deployed /\ host.tag # None

\* On a host that is not astray, the tag that is deployed was verified with the files
\* that are there, or with the saved ones once new ones took their place.
HostInv ==
  (host.deployed # None /\ ~astray) =>
    /\ run.pc \in {"idle", "save", "install", "release", "rollback"} => host.tag = host.deployed
    /\ run.pc \in {"idle", "save", "install", "rollback"} => Verified(host.deployed, host.files)
    /\ run.pc \in {"save", "install"} => ~run.installed
    /\ run.pc = "install" => host.previous = host.files
    /\ run.pc \in {"release", "pull", "start"} =>
         IF run.installed THEN host.previous # None /\ Verified(host.deployed, host.previous)
         ELSE Verified(host.deployed, host.files)

DeployInv ==
  /\ host \in HostType /\ run \in RunType /\ verified \subseteq Tag \X Files /\ astray \in BOOLEAN
  /\ RunInv /\ HostInv

LEMMA NoneIsNoFiles == None \notin Files /\ None \notin Tag /\ Initial \in Files
BY DeployAssumption

LEMMA NoRunType == NoRun \in RunType /\ NoRun.pc = "idle" /\ NoRun.installed = FALSE
BY DEF NoRun, RunType

LEMMA DeployInvInit == DeployInit => DeployInv
<1> SUFFICES ASSUME DeployInit PROVE DeployInv
  OBVIOUS
<1>1. host \in HostType /\ host.deployed = None
  BY NoneIsNoFiles DEF DeployInit, HostType
<1>2. run \in RunType /\ run.pc = "idle" /\ verified = {} /\ astray = FALSE
  BY NoRunType DEF DeployInit
<1> QED
  BY <1>1, <1>2 DEF DeployInv, RunInv, HostInv

LEMMA DeployInvStep ==
  ASSUME DeployInv, [DeployNext]_deployVars
  PROVE  DeployInv'
<1> USE DEF DeployInv
<1> USE NoneIsNoFiles
<1>1. CASE copyIncoming
  <2>1. PICK f \in Files : host' = [host EXCEPT !.incoming = f]
    BY <1>1 DEF copyIncoming
  <2>2. /\ host' \in HostType /\ host'.files = host.files /\ host'.tag = host.tag /\ host'.deployed = host.deployed
        /\ run.pc = "idle" /\ UNCHANGED <<run, verified, astray>>
    BY <1>1, <2>1 DEF copyIncoming, HostType
  <2> QED
    BY <2>2 DEF RunInv, HostInv, Verified
<1>2. ASSUME NEW new \in Tag, main(new)
      PROVE  DeployInv'
  <2>1. /\ run.pc = "idle" /\ UNCHANGED <<host, verified, astray>>
        /\ run' \in RunType /\ run'.pc = "save" /\ run'.new = new /\ run'.prev = host.deployed /\ run'.installed = FALSE
    BY <1>2 DEF main, RunType, HostType
  <2> QED
    BY <2>1 DEF RunInv, HostInv, Verified
<1>3. CASE saveFiles
  <2>1. CASE host.incoming = None
    <3>1. /\ run.pc = "save" /\ UNCHANGED <<host, verified, astray>> /\ run' \in RunType
          /\ run'.pc = "release" /\ run'.new = run.new /\ run'.prev = run.prev /\ run'.installed = run.installed
      BY <1>3, <2>1 DEF saveFiles, RunType
    <3> QED
      BY <3>1 DEF RunInv, HostInv, Verified
  <2>2. CASE host.incoming # None
    <3>1. /\ run.pc = "save" /\ UNCHANGED <<verified, astray>> /\ run' \in RunType
          /\ run'.pc = "install" /\ run'.new = run.new /\ run'.prev = run.prev /\ run'.installed = run.installed
      BY <1>3, <2>2 DEF saveFiles, RunType
    <3>2. /\ host' \in HostType /\ host'.files = host.files /\ host'.tag = host.tag
          /\ host'.deployed = host.deployed /\ host'.incoming = host.incoming
          /\ host.deployed # None => host'.previous = host.files
      BY <1>3, <2>2 DEF saveFiles, Saves, HostType
    <3> QED
      BY <2>2, <3>1, <3>2 DEF RunInv, HostInv, Verified
  <2> QED
    BY <2>1, <2>2
<1>4. CASE installFiles
  <2>1. /\ run.pc = "install" /\ UNCHANGED <<verified, astray>> /\ run' \in RunType /\ host.incoming # None
        /\ run'.pc = "release" /\ run'.new = run.new /\ run'.prev = run.prev /\ run'.installed = TRUE
    BY <1>4 DEF installFiles, RunType, RunInv
  <2>2. /\ host' \in HostType /\ host'.tag = host.tag /\ host'.deployed = host.deployed
        /\ host'.previous = host.previous
    BY <1>4, <2>1 DEF installFiles, HostType
  <2>3. host.files # None
    BY DEF HostType
  <2> QED
    BY <2>1, <2>2, <2>3 DEF RunInv, HostInv, Verified
<1>5. CASE set_release
  <2>1. /\ run.pc = "release" /\ UNCHANGED <<verified, astray>> /\ run' \in RunType
        /\ run'.pc = "pull" /\ run'.new = run.new /\ run'.prev = run.prev /\ run'.installed = run.installed
    BY <1>5 DEF set_release, RunType
  <2>2. /\ host' \in HostType /\ host'.tag = run.new /\ host'.deployed = host.deployed
        /\ host'.previous = host.previous /\ host'.files = host.files
    BY <1>5 DEF set_release, HostType, RunType
  <2> QED
    BY <2>1, <2>2 DEF RunInv, HostInv, Verified
<1>6. CASE pulled
  <2>1. /\ run.pc = "pull" /\ UNCHANGED <<host, verified, astray>> /\ run' \in RunType
        /\ run'.pc = "start" /\ run'.new = run.new /\ run'.prev = run.prev /\ run'.installed = run.installed
    BY <1>6 DEF pulled, RunType
  <2> QED
    BY <2>1 DEF RunInv, HostInv, Verified
<1>7. /\ Restored \in Files
      /\ (host.deployed # None /\ ~astray /\ run.pc \in {"pull", "start"}) => Verified(host.deployed, Restored)
  BY DEF Restored, HostType, HostInv
<1>8. CASE pullFails
  <2>1. /\ run.pc = "pull" /\ UNCHANGED <<verified, astray>> /\ run' \in RunType /\ run'.pc = "idle"
        /\ run.prev = host.deployed
    BY <1>8, NoRunType DEF pullFails, RunInv
  <2>2. /\ host' \in HostType /\ host'.files = Restored /\ host'.deployed = host.deployed
        /\ host.deployed # None => host'.tag = host.deployed
    BY <1>7, <1>8, <2>1 DEF pullFails, HostType
  <2> QED
    BY <1>7, <2>1, <2>2 DEF RunInv, HostInv, Verified
<1>9. CASE started
  <2>1. /\ run.pc = "start" /\ run' \in RunType /\ run'.pc = "idle" /\ host.tag = run.new /\ run.new \in Tag
        /\ astray' = FALSE /\ verified' = verified \cup {<<host.tag, host.files>>}
    BY <1>9, NoRunType DEF started, RunInv
  <2>2. /\ host' \in HostType /\ host'.files = host.files /\ host'.deployed = run.new /\ host'.tag = host.tag
        /\ host.files \in Files
    BY <1>9, <2>1 DEF started, HostType
  <2>3. verified' \subseteq Tag \X Files /\ <<host.tag, host.files>> \in verified'
    BY <2>1, <2>2
  <2> QED
    BY <2>1, <2>2, <2>3 DEF RunInv, HostInv, Verified
<1>10. CASE startFails
  <2>1. CASE run.prev \in {None, run.new}
    <3>1. /\ run.pc = "start" /\ run' \in RunType /\ run'.pc = "idle" /\ UNCHANGED <<host, verified>>
          /\ astray' = (astray \/ run.installed)
      BY <1>10, <2>1, NoRunType DEF startFails
    <3>2. astray' \in BOOLEAN
      BY <3>1 DEF RunType
    <3>3. run.prev = host.deployed /\ host.tag = run.new
      BY <3>1 DEF RunInv
    <3> QED
      BY <2>1, <3>1, <3>2, <3>3 DEF RunInv, HostInv, Verified
  <2>2. CASE run.prev \notin {None, run.new}
    <3>1. /\ run.pc = "start" /\ UNCHANGED <<verified, astray>> /\ run' \in RunType /\ run'.pc = "rollback"
          /\ run'.new = run.new /\ run'.prev = run.prev
      BY <1>10, <2>2 DEF startFails, RunType
    <3>2. run.prev = host.deployed /\ run.new \in Tag
      BY <3>1 DEF RunInv
    <3>3. /\ host' \in HostType /\ host'.files = Restored /\ host'.deployed = host.deployed
          /\ host'.tag = host.deployed
      BY <1>7, <1>10, <2>2, <3>2 DEF startFails, HostType
    <3>4. RunInv'
      BY <2>2, <3>1, <3>2, <3>3 DEF RunInv
    <3>5. HostInv'
      BY <1>7, <3>1, <3>3 DEF HostInv, Verified
    <3> QED
      BY <3>1, <3>3, <3>4, <3>5
  <2> QED
    BY <2>1, <2>2
<1>11. ASSUME NEW healthy \in BOOLEAN, rolledBack(healthy)
       PROVE  DeployInv'
  <2>1. /\ run.pc = "rollback" /\ run' \in RunType /\ run'.pc = "idle" /\ UNCHANGED host
        /\ host.tag = host.deployed /\ host.tag # None
    BY <1>11, NoRunType DEF rolledBack, RunInv
  <2>2. CASE healthy
    <3>1. verified' = verified \cup {<<host.tag, host.files>>} /\ astray' = FALSE
      BY <1>11, <2>2 DEF rolledBack
    <3>2. <<host.tag, host.files>> \in verified' /\ host.files \in Files /\ host.tag \in Tag
      BY <2>1, <3>1 DEF HostType
    <3>3. verified' \subseteq Tag \X Files
      BY <3>1, <3>2
    <3> QED
      BY <2>1, <3>1, <3>2, <3>3 DEF RunInv, HostInv, Verified
  <2>3. CASE ~healthy
    <3>1. UNCHANGED <<verified, astray>>
      BY <1>11, <2>3 DEF rolledBack
    <3> QED
      BY <2>1, <3>1 DEF RunInv, HostInv, Verified
  <2> QED
    BY <2>2, <2>3
<1>12. CASE kill
  <2>1. /\ run' \in RunType /\ run'.pc = "idle" /\ astray' = TRUE /\ UNCHANGED verified
    BY <1>12, NoRunType DEF kill
  <2>2. host' \in HostType
    BY <1>12 DEF kill, HostType, RunInv
  <2> QED
    BY <2>1, <2>2 DEF RunInv, HostInv
<1>13. CASE UNCHANGED deployVars
  BY <1>13 DEF deployVars, RunInv, HostInv, Verified
<1> QED
  BY <1>1, <1>2, <1>3, <1>4, <1>5, <1>6, <1>8, <1>9, <1>10, <1>11, <1>12, <1>13 DEF DeployNext

\* A rollback starts a tag with files it was verified with, and a host at rest is left on
\* such a pair unless the run was killed (deploy.sh, restore_previous), for any tags and files.
THEOREM RollbackIsVerifiedCorrect == DeploySpec => []RollbackIsVerified
<1>1. DeployInv => RollbackIsVerified
  BY DEF DeployInv, HostInv, RollbackIsVerified, Verified
<1> QED
  BY <1>1, DeployInvInit, DeployInvStep, PTL DEF DeploySpec
=============================================================================
