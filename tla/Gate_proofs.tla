---------------------------- MODULE Gate_proofs ----------------------------
(* Theorems about Gate, for any requests, replicas, devices and limits, and    *)
(* about Restrictions, for any devices, browsers, addresses and rulings.      *)
EXTENDS Gate, Restrictions, FiniteSetTheorems, TLAPS

People == UNION {Whom(d) : d \in Guest}
VisitRecords == [at : VisitPlaces, who : Guest, late : BOOLEAN]

(***************************************************************************)
(* Types.                                                                  *)
(***************************************************************************)

LEMMA WhomType == \A d \in Guest : d \in People /\ PrintOf[d] \in People
BY DEF People, Whom

LEMMA CurrentType ==
  ASSUME GateTypeOK, NEW r \in Visit
  PROVE  Current(r) \in Secrets /\ Who(r) \in Guest
BY GateAssumption DEF GateTypeOK, Current, Who

LEMMA WalkType ==
  ASSUME GateTypeOK, NEW r \in Visit, NEW at \in VisitPlaces, Walk(r, at)
  PROVE  visits' \in [Visit -> VisitRecords]
BY DEF GateTypeOK, Walk, VisitRecords

LEMMA CreateType ==
  ASSUME GateTypeOK, NEW r \in Visit, create(r)
  PROVE  GateTypeOK'
<1>1. PICK d \in Guest, at \in {"minor", "adult", "returning"} :
        visits' = [visits EXCEPT ![r] = [at |-> at, who |-> d, late |-> LockedOut(d)]]
  BY DEF create
<1>2. LockedOut(d) \in BOOLEAN
  BY Zenon DEF LockedOut
<1>3. visits' \in [Visit -> VisitRecords]
  BY <1>1, <1>2 DEF GateTypeOK, VisitRecords, VisitPlaces
<1> QED
  BY <1>3 DEF GateTypeOK, create, Queue, Rulings, VisitRecords

LEMMA LockType ==
  ASSUME GateTypeOK, NEW r \in Visit, lock(r)
  PROVE  GateTypeOK'
<1>1. visits' \in [Visit -> VisitRecords]
  BY WalkType DEF lock, VisitPlaces
<1>2. locks' \subseteq People \X Secrets
  BY CurrentType, WhomType DEF lock, GateTypeOK, People
<1>3. [whom : Whom(Who(r)), under : {secret}] \subseteq Lockouts
  BY CurrentType DEF GateTypeOK, Lockouts
<1>4. lockouts' \subseteq Lockouts
  BY <1>3 DEF GateTypeOK, lock
<1> QED
  BY <1>1, <1>2, <1>4 DEF GateTypeOK, lock, Queue, VisitRecords, People, Lockouts

LEMMA AdmitType ==
  ASSUME GateTypeOK, NEW r \in Visit,
         admit(r) \/ CountDevice(r) \/ MarkSeen(r) \/ Issue(r) \/ precheck(r) \/ helloAdmitted(r)
  PROVE  GateTypeOK'
<1> USE DEF Queue, Rulings, VisitRecords
<1>1. visits' \in [Visit -> VisitRecords]
  BY WalkType DEF admit, CountDevice, MarkSeen, Issue, precheck, helloAdmitted, VisitPlaces
<1>2. CASE admit(r) \/ precheck(r)
  BY <1>1, <1>2 DEF GateTypeOK, admit, precheck
<1>3. CASE CountDevice(r)
  BY <1>1, <1>3, CurrentType DEF GateTypeOK, CountDevice
<1>4. CASE MarkSeen(r)
  BY <1>1, <1>4, CurrentType DEF GateTypeOK, MarkSeen
<1>5. CASE Issue(r)
  <2>1. slipped' \in BOOLEAN
    BY <1>5, Zenon DEF Issue
  <2>2. ageTokens' \subseteq Guest \X Secrets
    BY <1>5, CurrentType DEF GateTypeOK, Issue
  <2> QED
    BY <1>1, <1>5, <2>1, <2>2 DEF GateTypeOK, Issue
<1>6. CASE helloAdmitted(r)
  BY <1>1, <1>6 DEF GateTypeOK, helloAdmitted
<1> QED
  BY <1>2, <1>3, <1>4, <1>5, <1>6

LEMMA GateNextType ==
  ASSUME GateTypeOK, [GateNext]_gateVars
  PROVE  GateTypeOK'
<1>1. CASE UNCHANGED gateVars
  BY <1>1 DEF GateTypeOK, gateVars
<1>2. CASE requeue \/ Dequeue
  BY <1>2 DEF GateTypeOK, Rulings, requeue, Dequeue
<1>3. ASSUME NEW i \in Host, Rotate(i)
      PROVE  GateTypeOK'
  <2>1. secret' \in [Host -> Secrets]
    BY <1>3, GateAssumption DEF GateTypeOK, Rotate, Secrets
  <2> QED
    BY <1>3, <2>1 DEF GateTypeOK, Rotate, Rulings, Queue
<1> QED
  BY <1>1, <1>2, <1>3, CreateType, LockType, AdmitType DEF GateNext

LEMMA GateInitType == GateInit => GateTypeOK
<1> SUFFICES ASSUME GateInit PROVE GateTypeOK
  OBVIOUS
<1>1. (CHOOSE d \in Guest : TRUE) \in Guest
  BY GateAssumption, Zenon
<1>2. visits \in [Visit -> VisitRecords]
  BY <1>1 DEF GateInit, VisitRecords, VisitPlaces
<1>3. slipped \in BOOLEAN
  BY Zenon DEF GateInit
<1> QED
  BY <1>2, <1>3, GateAssumption DEF GateInit, GateTypeOK, VisitRecords, Secrets

\* Every variable of the gate keeps its type.
THEOREM GateTypeCorrect == GateSpec => []GateTypeOK
BY GateInitType, GateNextType, PTL DEF GateSpec

(***************************************************************************)
(* Lockouts.                                                               *)
(***************************************************************************)

\* While all replicas had one secret, both keys of a lockout were written with it, and
\* no secret is older; the first key is there before the second is written.
LockoutsKept ==
  /\ \A l \in lockouts : \A i \in Host :
       /\ (\A j, k \in Host : l.under[j] = l.under[k]) => <<l.whom, l.under[i]>> \in locks
       /\ l.under[i] <= secret[i]
  /\ \A r \in Visit : Where(r) = "lockFingerprint" => <<Who(r), Current(r)>> \in locks

\* No request under way began while its device or browser was locked out.
NobodyLate == ~slipped /\ \A r \in Visit : ~visits[r].late

\* What lock() has written stays, and so does what a lockout was decided under.
LEMMA OldLockoutsKept ==
  ASSUME GateTypeOK, LockoutsKept, NEW l \in lockouts, NEW i \in Host,
         locks \subseteq locks', secret'[i] >= secret[i], secret'[i] \in Secrets
  PROVE  /\ (\A j, k \in Host : l.under[j] = l.under[k]) => <<l.whom, l.under[i]>> \in locks'
         /\ l.under[i] <= secret'[i]
<1>1. l.under[i] \in Nat /\ secret[i] \in Nat /\ secret'[i] \in Nat
  BY DEF GateTypeOK, Lockouts, Secrets
<1> QED
  BY <1>1 DEF LockoutsKept

\* The second write finishes a lockout: one secret for all is that of this replica.
LEMMA LockKeeps ==
  ASSUME GateTypeOK, LockoutsKept, NEW r \in Visit, lock(r)
  PROVE  LockoutsKept'
<1>1. HostOf[r] \in Host /\ Who(r) \in Guest
  BY GateAssumption, CurrentType
<1>2. secret' = secret /\ locks \subseteq locks'
  BY DEF lock
<1>3. \A i \in Host : secret[i] \in Nat /\ secret'[i] >= secret[i] /\ secret'[i] \in Secrets
  BY <1>2 DEF GateTypeOK, Secrets
<1>4. CASE Where(r) = "minor"
  <2>1. /\ lockouts' = lockouts
        /\ visits' = [visits EXCEPT ![r].at = "lockFingerprint"]
        /\ <<Who(r), Current(r)>> \in locks'
    BY <1>4 DEF lock, Walk
  <2>2. ASSUME NEW s \in Visit, visits'[s].at = "lockFingerprint"
        PROVE  <<visits'[s].who, secret'[HostOf[s]]>> \in locks'
    <3>1. visits'[s].who = Who(s) /\ secret'[HostOf[s]] = Current(s)
      BY <1>2, <2>1 DEF GateTypeOK, Who, Current
    <3>2. CASE s = r
      BY <2>1, <3>1, <3>2
    <3>3. CASE s # r
      <4>1. Where(s) = "lockFingerprint"
        BY <2>1, <2>2, <3>3 DEF GateTypeOK, Where
      <4> QED
        BY <1>2, <3>1, <4>1 DEF LockoutsKept
    <3> QED
      BY <3>2, <3>3
  <2> QED
    BY <1>2, <1>3, <2>1, <2>2, OldLockoutsKept DEF LockoutsKept, Where, Who, Current
<1>5. CASE Where(r) = "lockFingerprint"
  <2>1. /\ lockouts' = lockouts \cup [whom : Whom(Who(r)), under : {secret}]
        /\ visits' = [visits EXCEPT ![r].at = "new"]
        /\ locks' = locks \cup {<<PrintOf[Who(r)], Current(r)>>}
    BY <1>5 DEF lock, Walk
  <2>2. \A w \in Whom(Who(r)) : <<w, Current(r)>> \in locks'
    BY <1>5, <2>1 DEF LockoutsKept, Whom
  <2>3. ASSUME NEW l \in [whom : Whom(Who(r)), under : {secret}], NEW i \in Host
        PROVE  /\ (\A j, k \in Host : l.under[j] = l.under[k]) => <<l.whom, l.under[i]>> \in locks'
               /\ l.under[i] <= secret'[i]
    <3>1. l.whom \in Whom(Who(r)) /\ l.under = secret
      OBVIOUS
    <3>2. (\A j, k \in Host : l.under[j] = l.under[k]) => l.under[i] = Current(r)
      BY <1>1, <3>1 DEF Current
    <3> QED
      BY <1>2, <1>3, <2>2, <3>1, <3>2
  <2>4. ASSUME NEW s \in Visit, visits'[s].at = "lockFingerprint"
        PROVE  <<visits'[s].who, secret'[HostOf[s]]>> \in locks'
    <3>1. s # r
      BY <2>1, <2>4 DEF GateTypeOK
    <3>2. /\ visits'[s].who = Who(s) /\ secret'[HostOf[s]] = Current(s)
          /\ Where(s) = "lockFingerprint"
      BY <1>2, <2>1, <2>4, <3>1 DEF GateTypeOK, Who, Where, Current
    <3> QED
      BY <1>2, <3>2 DEF LockoutsKept
  <2> QED
    BY <1>2, <1>3, <2>1, <2>3, <2>4, OldLockoutsKept DEF LockoutsKept, Where, Who, Current
<1> QED
  BY <1>4, <1>5 DEF lock

\* A replica rotates its secret between requests.
LEMMA RotateKeeps ==
  ASSUME GateTypeOK, LockoutsKept, NEW h \in Host, Rotate(h)
  PROVE  LockoutsKept'
<1>1. /\ locks' = locks /\ lockouts' = lockouts /\ visits' = visits
      /\ secret' = [secret EXCEPT ![h] = @ + 1]
      /\ \A r \in Visit : HostOf[r] = h => Where(r) = "new"
  BY DEF Rotate, Rulings
<1>2. \A i \in Host : secret[i] \in Nat
  BY DEF GateTypeOK, Secrets
<1>3. secret' \in [Host -> Secrets]
  BY GateNextType DEF GateNext, GateTypeOK
<1>4. \A i \in Host : secret'[i] >= secret[i] /\ secret'[i] \in Secrets
  BY <1>1, <1>2, <1>3 DEF GateTypeOK
<1>5. ASSUME NEW s \in Visit, Where(s) = "lockFingerprint"
      PROVE  <<Who(s), secret'[HostOf[s]]>> \in locks'
  <2>1. HostOf[s] # h /\ HostOf[s] \in Host
    BY <1>1, <1>5, GateAssumption
  <2> QED
    BY <1>1, <1>5, <2>1 DEF LockoutsKept, GateTypeOK, Current
<1> QED
  BY <1>1, <1>4, <1>5, OldLockoutsKept DEF LockoutsKept, Where, Who, Current

LEMMA LockoutsKeptNext ==
  ASSUME GateTypeOK, LockoutsKept, [GateNext]_gateVars
  PROVE  LockoutsKept'
<1>1. ASSUME NEW r \in Visit, create(r)
      PROVE  LockoutsKept'
  <2>1. PICK d \in Guest, at \in {"minor", "adult", "returning"} :
          visits' = [visits EXCEPT ![r] = [at |-> at, who |-> d, late |-> LockedOut(d)]]
    BY <1>1 DEF create
  <2>2. /\ secret' = secret /\ locks' = locks /\ lockouts' = lockouts
    BY <1>1 DEF create, Rulings
  <2>3. \A s \in Visit : visits'[s].at = "lockFingerprint"
          => visits[s].at = "lockFingerprint" /\ visits'[s] = visits[s]
    BY <2>1 DEF GateTypeOK
  <2> QED
    BY <2>2, <2>3 DEF LockoutsKept, Where, Who, Current
<1>2. ASSUME NEW r \in Visit,
             admit(r) \/ CountDevice(r) \/ MarkSeen(r) \/ precheck(r) \/ helloAdmitted(r) \/ Issue(r)
      PROVE  LockoutsKept'
  <2>1. PICK at \in VisitPlaces \ {"lockFingerprint"} : Walk(r, at)
    BY <1>2 DEF admit, CountDevice, MarkSeen, Issue, precheck, helloAdmitted, VisitPlaces
  <2>2. /\ secret' = secret /\ locks' = locks /\ lockouts' = lockouts
    BY <1>2 DEF admit, CountDevice, MarkSeen, Issue, precheck, helloAdmitted, Rulings
  <2>3. \A s \in Visit : visits'[s].at = "lockFingerprint"
          => visits[s].at = "lockFingerprint" /\ visits'[s] = visits[s]
    BY <2>1 DEF Walk, GateTypeOK
  <2> QED
    BY <2>2, <2>3 DEF LockoutsKept, Where, Who, Current
<1>3. CASE UNCHANGED <<secret, locks, lockouts, visits>>
  BY <1>3 DEF LockoutsKept, Where, Who, Current
<1>4. CASE requeue \/ Dequeue \/ UNCHANGED gateVars
  BY <1>3, <1>4 DEF requeue, Dequeue, gateVars, Rulings
<1> QED
  BY <1>1, <1>2, <1>4, LockKeeps, RotateKeeps DEF GateNext

\* Whom a lockout in force names, isLocked refuses on every replica: its salt is the
\* current one there or the one before.
LEMMA LockedOutIsRefused ==
  ASSUME GateTypeOK, LockoutsKept, NEW i \in Host, NEW d \in Guest, LockedOut(d)
  PROVE  isLocked(i, d)
<1>1. PICK l \in lockouts :
        /\ l.whom \in Whom(d)
        /\ \A j, k \in Host : l.under[j] = l.under[k]
        /\ \A j \in Host : secret[j] <= l.under[j] + 1
  BY DEF LockedOut
<1>2. <<l.whom, l.under[i]>> \in locks /\ l.under[i] <= secret[i]
  BY <1>1 DEF LockoutsKept
<1>3. l.under[i] \in Nat /\ secret[i] \in Nat
  BY DEF GateTypeOK, Lockouts, Secrets
<1>4. l.under[i] \in Salts(i)
  BY <1>1, <1>2, <1>3 DEF Salts
<1> QED
  BY <1>1, <1>2, <1>4 DEF isLocked

LEMMA NobodyLateNext ==
  ASSUME GateTypeOK, LockoutsKept, NobodyLate, [GateNext]_gateVars
  PROVE  NobodyLate'
<1> USE DEF NobodyLate
<1>1. ASSUME NEW r \in Visit, create(r)
      PROVE  NobodyLate'
  <2>1. PICK d \in Guest, at \in {"minor", "adult", "returning"} :
          /\ ~isLocked(HostOf[r], d)
          /\ visits' = [visits EXCEPT ![r] = [at |-> at, who |-> d, late |-> LockedOut(d)]]
    BY <1>1 DEF create
  <2>2. ~LockedOut(d)
    BY <2>1, LockedOutIsRefused, GateAssumption
  <2>3. \A s \in Visit : ~visits'[s].late
    BY <2>1, <2>2 DEF GateTypeOK
  <2> QED
    BY <1>1, <2>3 DEF create, Rulings
<1>2. ASSUME NEW r \in Visit,
             \/ lock(r) \/ admit(r) \/ CountDevice(r) \/ MarkSeen(r) \/ precheck(r) \/ helloAdmitted(r)
             \/ Issue(r)
      PROVE  NobodyLate'
  <2>1. PICK at : Walk(r, at)
    BY <1>2 DEF lock, admit, CountDevice, MarkSeen, Issue, precheck, helloAdmitted
  <2>2. \A s \in Visit : visits'[s].late = visits[s].late
    BY <2>1 DEF Walk, GateTypeOK
  <2>3. ~slipped'
    BY <1>2, Zenon DEF lock, admit, CountDevice, MarkSeen, Issue, precheck, helloAdmitted, Rulings
  <2> QED
    BY <2>2, <2>3
<1>3. CASE UNCHANGED <<visits, slipped>>
  BY <1>3
<1> QED
  BY <1>1, <1>2, <1>3 DEF GateNext, gateVars, requeue, Dequeue, Rotate, Rulings

\* Who was locked out while the replicas had one secret gets no session for a request
\* that begins later, across one rotation of the secret and while it rolls (lock writes
\* both keys with the current salt, isLocked looks with both salts), for any number of
\* devices, browsers and replicas.
THEOREM LockoutHolds == GateSpec => []LockedStaysOut
<1>1. GateInit => NobodyLate /\ LockoutsKept
  BY DEF GateInit, NobodyLate, LockoutsKept, Where
<1>2. NobodyLate => LockedStaysOut
  BY DEF NobodyLate, LockedStaysOut
<1> QED
  BY <1>1, <1>2, GateInitType, GateNextType, NobodyLateNext, LockoutsKeptNext, PTL DEF GateSpec

(***************************************************************************)
(* Ceilings.                                                               *)
(***************************************************************************)

\* Requests admitted to be counted with s, and not counted yet.
Counting(s) == {r \in Visit : Where(r) = "count" /\ Current(r) = s}

\* With the admitted ones the new devices of a day stay below the sum of the limit
\* and the number of requests; the queue exceeds its limit only by the re-queued.
CountsBounded ==
  /\ \A s \in Secrets : newDevices[s] + Cardinality(Counting(s)) <= NewPerDay - 1 + Cardinality(Visit)
  /\ waiting <= MaxWaiting + requeued

LEMMA CountingFinite ==
  /\ Cardinality(Visit) \in Nat
  /\ \A s : /\ IsFiniteSet(Counting(s)) /\ Cardinality(Counting(s)) \in Nat
            /\ Cardinality(Counting(s)) <= Cardinality(Visit)
BY GateAssumption, FS_Subset, FS_CardinalityType DEF Counting

\* Nobody is counted, and nobody new is admitted to be counted.
LEMMA NoNewCount ==
  ASSUME GateTypeOK, CountsBounded, newDevices' = newDevices,
         \A s \in Secrets : Counting(s)' \subseteq Counting(s),
         waiting' <= MaxWaiting + requeued'
  PROVE  CountsBounded'
<1> SUFFICES ASSUME NEW s \in Secrets
             PROVE  newDevices'[s] + Cardinality(Counting(s)') <= NewPerDay - 1 + Cardinality(Visit)
  BY DEF CountsBounded
<1>1. /\ Cardinality(Counting(s)') \in Nat
      /\ Cardinality(Counting(s)') <= Cardinality(Counting(s))
  BY CountingFinite, FS_Subset, FS_CardinalityType
<1> QED
  BY <1>1, CountingFinite, GateAssumption DEF CountsBounded, GateTypeOK

\* r reads the counter below the limit: with everybody else it stays in bounds.
LEMMA AdmitBounded ==
  ASSUME GateTypeOK, CountsBounded, NEW r \in Visit, admit(r)
  PROVE  CountsBounded'
<1> USE GateAssumption DEF admit, Queue
<1> SUFFICES ASSUME NEW s \in Secrets
             PROVE  newDevices[s] + Cardinality(Counting(s)') <= NewPerDay - 1 + Cardinality(Visit)
  BY DEF CountsBounded
<1>1. /\ Cardinality(Counting(s)') \in Nat /\ Cardinality(Counting(s)') <= Cardinality(Visit)
      /\ newDevices[s] \in Nat
  BY FS_Subset, FS_CardinalityType DEF Counting, GateTypeOK
<1>2. CASE newDevices[s] < NewPerDay
  BY <1>1, <1>2, CountingFinite
<1>3. CASE ~(newDevices[s] < NewPerDay)
  <2>1. Counting(s)' \subseteq Counting(s)
    <3> SUFFICES ASSUME NEW q \in Counting(s)'
                 PROVE  q \in Counting(s)
      OBVIOUS
    <3>1. q # r
      BY <1>1, <1>3 DEF Counting, Where, Current, Walk, GateTypeOK
    <3> QED
      BY <3>1 DEF Counting, Where, Current, Walk, GateTypeOK
  <2>2. Cardinality(Counting(s)') <= Cardinality(Counting(s))
    BY <2>1, CountingFinite, FS_Subset
  <2> QED
    BY <1>1, <2>2, CountingFinite DEF CountsBounded
<1> QED
  BY <1>1, <1>2, <1>3

LEMMA CountDeviceBounded ==
  ASSUME GateTypeOK, CountsBounded, NEW r \in Visit, CountDevice(r)
  PROVE  CountsBounded'
<1> USE GateAssumption DEF CountDevice, Queue
<1> SUFFICES ASSUME NEW s \in Secrets
             PROVE  newDevices'[s] + Cardinality(Counting(s)') <= NewPerDay - 1 + Cardinality(Visit)
  BY DEF CountsBounded
<1>1. Counting(s)' = Counting(s) \ {r}
  BY DEF Counting, Where, Current, Walk, GateTypeOK
<1>2. CASE s = Current(r)
  <2>1. r \in Counting(s)
    BY <1>2 DEF Counting
  <2>2. Cardinality(Counting(s)') = Cardinality(Counting(s)) - 1
    BY <1>1, <2>1, CountingFinite, FS_RemoveElement
  <2>3. newDevices'[s] = newDevices[s] + 1
    BY <1>2 DEF GateTypeOK
  <2> QED
    BY <2>2, <2>3, CountingFinite DEF CountsBounded, GateTypeOK
<1>3. CASE s # Current(r)
  <2>1. Counting(s)' = Counting(s)
    BY <1>1, <1>3 DEF Counting
  <2>2. newDevices'[s] = newDevices[s]
    BY <1>3 DEF GateTypeOK
  <2> QED
    BY <2>1, <2>2 DEF CountsBounded
<1> QED
  BY <1>2, <1>3

LEMMA CountsBoundedNext ==
  ASSUME GateTypeOK, CountsBounded, [GateNext]_gateVars
  PROVE  CountsBounded'
<1> USE GateAssumption DEF Queue
<1>1. CASE UNCHANGED gateVars
  BY <1>1 DEF CountsBounded, gateVars, Counting, Where, Current
<1>2. CASE requeue \/ Dequeue
  <2>1. \A s \in Secrets : Counting(s)' = Counting(s)
    BY <1>2 DEF requeue, Dequeue, Counting, Where, Current
  <2>2. waiting' <= MaxWaiting + requeued'
    BY <1>2 DEF requeue, Dequeue, CountsBounded, GateTypeOK
  <2> QED
    BY <1>2, <2>1, <2>2, NoNewCount DEF requeue, Dequeue
<1>3. ASSUME NEW i \in Host, Rotate(i)
      PROVE  CountsBounded'
  <2>1. \A r \in Visit : Where(r) = "count" => Current(r)' = Current(r)
    BY <1>3 DEF Rotate, Where, Current, GateTypeOK
  <2>2. \A s \in Secrets : Counting(s)' \subseteq Counting(s)
    BY <1>3, <2>1 DEF Counting, Rotate, Where
  <2> QED
    BY <1>3, <2>2, NoNewCount DEF Rotate, CountsBounded
<1>4. ASSUME NEW r \in Visit, create(r) \/ lock(r) \/ MarkSeen(r) \/ Issue(r) \/ precheck(r) \/ helloAdmitted(r)
      PROVE  CountsBounded'
  <2>1. PICK v : v.at # "count" /\ visits' = [visits EXCEPT ![r] = v]
    <3>1. CASE create(r)
      BY <3>1 DEF create
    <3>2. CASE ~create(r)
      <4>1. PICK at \in VisitPlaces \ {"count"} : Walk(r, at)
        BY <1>4, <3>2 DEF lock, MarkSeen, Issue, precheck, helloAdmitted, VisitPlaces
      <4> DEFINE v == [visits[r] EXCEPT !.at = at]
      <4>2. v.at = at /\ visits' = [visits EXCEPT ![r] = v]
        BY <4>1 DEF Walk, GateTypeOK
      <4> QED
        BY <4>2
    <3> QED
      BY <3>1, <3>2
  <2>2. UNCHANGED <<secret, newDevices, requeued>>
    BY <1>4 DEF create, lock, MarkSeen, Issue, precheck, helloAdmitted
  <2>3. \A s \in Secrets : Counting(s)' \subseteq Counting(s)
    BY <2>1, <2>2 DEF Counting, Where, Current, GateTypeOK
  <2>4. waiting' <= MaxWaiting + requeued'
    BY <1>4 DEF create, lock, MarkSeen, Issue, precheck, helloAdmitted, CountsBounded, GateTypeOK
  <2> QED
    BY <2>2, <2>3, <2>4, NoNewCount
<1> QED
  BY <1>1, <1>2, <1>3, <1>4, AdmitBounded, CountDeviceBounded DEF GateNext

\* Concurrent first visits overshoot the new devices of a day by less than their
\* number, and hellos never overshoot max_waiting (NewDeviceCap.admit, queueGate
\* admit), for any number of requests and any limits.
THEOREM CeilingsAreKept == GateSpec => []CeilingsHold
<1>1. GateInit => CountsBounded
  <2> SUFFICES ASSUME GateInit PROVE CountsBounded
    OBVIOUS
  <2>1. \A s \in Secrets : Counting(s) = {}
    BY DEF GateInit, Counting, Where
  <2>2. Cardinality(Visit) >= 1
    BY GateAssumption, FS_EmptySet, FS_CardinalityType
  <2> QED
    BY <2>1, <2>2, GateAssumption, FS_EmptySet, CountingFinite DEF GateInit, CountsBounded
<1>2. GateTypeOK /\ CountsBounded => CeilingsHold
  BY CountingFinite, GateAssumption DEF CountsBounded, CeilingsHold, GateTypeOK
<1> QED
  BY <1>1, <1>2, GateInitType, GateNextType, CountsBoundedNext, PTL DEF GateSpec

(***************************************************************************)
(* Restrictions.                                                           *)
(***************************************************************************)

\* `rest` is what Max finds among the terms that are left, whatever that is: the proof
\* needs no more of it than that some set holds it.
RulingRecords(R) ==
  [at : RulingPlaces, device : Visitor, browser : Browser \cup {Nobody}, address : Place \cup {Nobody},
   made : Nat, until : Nat, lift : {"no", "read", "mirror", "done"}, rest : R]
EntryRecords ==
  [at : {"none", "link", "device", "network", "issue", "hello", "ban", "lock"},
   who : Visitor, address : Place, barred : SUBSET Ruling]

RestrictionsTyped ==
  /\ browserOf \in [Visitor -> Browser] /\ clock \in Nat
  /\ \E R : rulings \in [Ruling -> RulingRecords(R)]
  /\ linked \in [Visitor -> Browser \cup {Nobody}] /\ noted \in [Visitor -> Place \cup {Nobody}]
  /\ addressBan \in [Place -> [by : Ruling \cup {Nobody}, until : Nat]]
  /\ \E M : mark \in [Visitor -> M]
  /\ entries \in [Entry -> EntryRecords]

\* A ruling leads from the device and from the browser it was made with.
Led == \A r \in Ruling :
  /\ rulings[r].at \notin {"none", "index"} => <<rulings[r].device, r>> \in index
  /\ rulings[r].at \notin {"none", "index", "browser"} /\ rulings[r].browser # Nobody
       => <<rulings[r].browser, r>> \in index

\* Only a ruling whose indexes are written is lifted.
Made == \A r \in Ruling : rulings[r].lift # "no" => rulings[r].at \in {"mirror", "section", "done"}

\* The mark of an address is that of the ban that put it there, unless a newer one did.
Addressed == \A r \in Ruling :
  /\ rulings[r].at \in {"none", "index", "browser", "network"} => rulings[r].address = Nobody
  /\ rulings[r].at = "address" => rulings[r].address \in Place
  /\ rulings[r].at \in {"mirror", "section", "done"} /\ rulings[r].address # Nobody /\ r \notin eclipsed
       => /\ rulings[r].address \in Place /\ addressBan[rulings[r].address].by = r
          /\ addressBan[rulings[r].address].until \in {rulings[r].until, rulings[r].made + NetworkTtl}

\* A device that was never crossed has one ruling at a time, and its mark is that one's.
OneAtATime == \A r, q \in Ruling :
  r # q /\ rulings[r].at # "none" /\ rulings[q].at # "none"
    /\ rulings[r].device = rulings[q].device /\ rulings[r].device \notin crossed
    => ~(UnderWay(q) /\ (UnderWay(r) \/ isActive(r)))
Marked == \A r \in Ruling :
  rulings[r].at \in {"section", "done"} /\ isActive(r) /\ rulings[r].device \notin crossed
    => mark[rulings[r].device] = rulings[r].until

\* Whoever has a session, or asks for one, is linked to its browser.
LinkedVisitors ==
  /\ \A d \in Visitor : noted[d] # Nobody => linked[d] = browserOf[d]
  /\ \A e \in Entry : entries[e].at \notin {"none", "link"} => linked[entries[e].who] = browserOf[entries[e].who]

\* What an entry knows of the rulings that bar it: they lead to its device or browser,
\* or are bans of its address; those it has looked for are over.
Own(r, d) == rulings[r].device = d \/ rulings[r].browser = browserOf[d]
BansAddress(r, a) == IsBan(r) /\ rulings[r].address = a /\ clock < rulings[r].made + NetworkTtl
Knows(entry) == \A r \in entry.barred :
  /\ entry.at # "none" =>
       /\ rulings[r].at = "done"
       /\ \/ Own(r, entry.who)
          \/ entry.at \in {"link", "device", "network", "issue"} /\ BansAddress(r, entry.address)
  /\ entry.at \in {"network", "issue", "ban", "lock"} /\ isActive(r) => ~Own(r, entry.who)
  /\ entry.at = "issue" /\ isActive(r) => r \in eclipsed
EntriesKept == \A e \in Entry : Knows(entries[e])

KeptOut ==
  /\ RestrictionsTyped /\ Led /\ Made /\ Addressed /\ OneAtATime /\ Marked /\ LinkedVisitors /\ EntriesKept
  /\ letIn = {}

-----------------------------------------------------------------------------
(* A ruling goes on.                                                        *)

LEMMA RulingTypes ==
  ASSUME RestrictionsTyped
  PROVE  \A r \in Ruling :
           /\ rulings[r].at \in RulingPlaces /\ rulings[r].device \in Visitor
           /\ rulings[r].browser \in Browser \cup {Nobody} /\ rulings[r].address \in Place \cup {Nobody}
           /\ rulings[r].made \in Nat /\ rulings[r].until \in Nat
           /\ rulings[r].lift \in {"no", "read", "mirror", "done"}
BY DEF RestrictionsTyped, RulingRecords

\* The ruling r is now at `at` and its lift at `lift`; its person and term are the same.
GoesOn(r, at, undo, address) ==
  /\ \E R : rulings' \in [Ruling -> RulingRecords(R)]
  /\ \A q \in Ruling \ {r} : rulings'[q] = rulings[q]
  /\ rulings'[r].at = at /\ rulings'[r].lift = undo /\ rulings'[r].address = address
  /\ rulings'[r].device = rulings[r].device /\ rulings'[r].browser = rulings[r].browser
  /\ rulings'[r].made = rulings[r].made /\ rulings'[r].until = rulings[r].until

LEMMA RulingWritten ==
  ASSUME RestrictionsTyped, NEW r \in Ruling, NEW R, NEW new \in RulingRecords(R), Ruled(r, new)
  PROVE  /\ \E S : rulings' \in [Ruling -> RulingRecords(S)]
         /\ rulings'[r] = new /\ \A q \in Ruling \ {r} : rulings'[q] = rulings[q]
<1>1. PICK Q : rulings \in [Ruling -> RulingRecords(Q)]
  BY DEF RestrictionsTyped
<1>2. /\ \A q \in Ruling : rulings[q] \in RulingRecords(Q \cup R)
      /\ new \in RulingRecords(Q \cup R)
  BY <1>1 DEF RulingRecords
<1>3. rulings' \in [Ruling -> RulingRecords(Q \cup R)]
  BY <1>1, <1>2 DEF Ruled
<1> QED
  BY <1>1, <1>3 DEF Ruled

LEMMA AtGoesOn ==
  ASSUME RestrictionsTyped, NEW r \in Ruling, NEW at \in RulingPlaces,
         Ruled(r, [rulings[r] EXCEPT !.at = at])
  PROVE  GoesOn(r, at, rulings[r].lift, rulings[r].address)
<1> DEFINE new == [rulings[r] EXCEPT !.at = at]
<1>1. PICK R : rulings[r] \in RulingRecords(R)
  BY DEF RestrictionsTyped
<1>2. /\ new \in RulingRecords(R) /\ new.at = at /\ new.lift = rulings[r].lift
      /\ new.address = rulings[r].address /\ new.device = rulings[r].device
      /\ new.browser = rulings[r].browser /\ new.made = rulings[r].made /\ new.until = rulings[r].until
  BY <1>1 DEF RulingRecords
<1>3. Ruled(r, new)
  OBVIOUS
<1> HIDE DEF new
<1> QED
  BY <1>2, <1>3, RulingWritten DEF GoesOn

LEMMA AddressGoesOn ==
  ASSUME RestrictionsTyped, NEW r \in Ruling, NEW a \in Place,
         Ruled(r, [rulings[r] EXCEPT !.at = "address", !.address = a])
  PROVE  GoesOn(r, "address", rulings[r].lift, a)
<1> DEFINE new == [rulings[r] EXCEPT !.at = "address", !.address = a]
<1>1. PICK R : rulings[r] \in RulingRecords(R)
  BY DEF RestrictionsTyped
<1>2. /\ new \in RulingRecords(R) /\ new.at = "address" /\ new.lift = rulings[r].lift
      /\ new.address = a /\ new.device = rulings[r].device
      /\ new.browser = rulings[r].browser /\ new.made = rulings[r].made /\ new.until = rulings[r].until
  BY <1>1 DEF RulingRecords, RulingPlaces
<1>3. Ruled(r, new)
  OBVIOUS
<1> HIDE DEF new
<1> QED
  BY <1>2, <1>3, RulingWritten DEF GoesOn

LEMMA LiftGoesOn ==
  ASSUME RestrictionsTyped, NEW r \in Ruling, NEW undo \in {"read", "done"},
         Ruled(r, [rulings[r] EXCEPT !.lift = undo])
  PROVE  GoesOn(r, rulings[r].at, undo, rulings[r].address)
<1> DEFINE new == [rulings[r] EXCEPT !.lift = undo]
<1>1. PICK R : rulings[r] \in RulingRecords(R)
  BY DEF RestrictionsTyped
<1>2. /\ new \in RulingRecords(R) /\ new.at = rulings[r].at /\ new.lift = undo
      /\ new.address = rulings[r].address /\ new.device = rulings[r].device
      /\ new.browser = rulings[r].browser /\ new.made = rulings[r].made /\ new.until = rulings[r].until
  BY <1>1 DEF RulingRecords
<1>3. Ruled(r, new)
  OBVIOUS
<1> HIDE DEF new
<1> QED
  BY <1>2, <1>3, RulingWritten DEF GoesOn

LEMMA RestGoesOn ==
  ASSUME RestrictionsTyped, NEW r \in Ruling, NEW rest,
         Ruled(r, [rulings[r] EXCEPT !.lift = "mirror", !.rest = rest])
  PROVE  GoesOn(r, rulings[r].at, "mirror", rulings[r].address)
<1> DEFINE new == [rulings[r] EXCEPT !.lift = "mirror", !.rest = rest]
<1>1. PICK R : rulings[r] \in RulingRecords(R)
  BY DEF RestrictionsTyped
<1>2. /\ new \in RulingRecords(R \cup {rest}) /\ new.at = rulings[r].at /\ new.lift = "mirror"
      /\ new.address = rulings[r].address /\ new.device = rulings[r].device
      /\ new.browser = rulings[r].browser /\ new.made = rulings[r].made /\ new.until = rulings[r].until
  BY <1>1 DEF RulingRecords
<1>3. Ruled(r, new)
  OBVIOUS
<1> HIDE DEF new
<1> QED
  BY <1>2, <1>3, RulingWritten DEF GoesOn

-----------------------------------------------------------------------------
(* What a step of a ruling leaves true.                                     *)

\* Entries go on with what they know: an answered ruling stays answered, a lifted one
\* lifted, an eclipsed one eclipsed.
LEMMA EntriesLeftAlone ==
  ASSUME KeptOut, NEW r \in Ruling, UNCHANGED <<browserOf, clock, linked, noted, entries, letIn>>,
         \A q \in Ruling \ {r} : rulings'[q] = rulings[q],
         rulings[r].at = "done" =>
           /\ rulings'[r].at = "done" /\ rulings'[r].device = rulings[r].device
           /\ rulings'[r].browser = rulings[r].browser /\ rulings'[r].address = rulings[r].address
           /\ rulings'[r].made = rulings[r].made /\ rulings'[r].until = rulings[r].until
           /\ rulings[r].lift # "no" => rulings'[r].lift # "no",
         eclipsed \subseteq eclipsed'
  PROVE  LinkedVisitors' /\ EntriesKept' /\ letIn' = {}
<1>1. LinkedVisitors' /\ letIn' = {}
  BY DEF KeptOut, LinkedVisitors
<1>2. EntriesKept'
  <2> SUFFICES ASSUME NEW e \in Entry, NEW q \in entries[e].barred, entries[e].at # "none"
               PROVE  /\ /\ rulings'[q].at = "done"
                         /\ \/ Own(q, entries[e].who)'
                            \/ /\ entries[e].at \in {"link", "device", "network", "issue"}
                               /\ BansAddress(q, entries[e].address)'
                      /\ entries[e].at \in {"network", "issue", "ban", "lock"} /\ isActive(q)'
                           => ~Own(q, entries[e].who)'
                      /\ entries[e].at = "issue" /\ isActive(q)' => q \in eclipsed'
    BY DEF EntriesKept, Knows, Own, BansAddress, IsBan, isActive, Lifted
  <2>1. q \in Ruling /\ rulings[q].at = "done"
    BY DEF KeptOut, EntriesKept, Knows, RestrictionsTyped, EntryRecords
  <2>2. /\ rulings'[q].at = "done" /\ rulings'[q].device = rulings[q].device
        /\ rulings'[q].browser = rulings[q].browser /\ rulings'[q].address = rulings[q].address
        /\ rulings'[q].made = rulings[q].made /\ rulings'[q].until = rulings[q].until
        /\ rulings[q].lift # "no" => rulings'[q].lift # "no"
    BY <2>1
  <2>3. isActive(q)' => isActive(q)
    BY <2>1, <2>2 DEF isActive, Lifted
  <2>4. /\ Own(q, entries[e].who)' <=> Own(q, entries[e].who)
        /\ BansAddress(q, entries[e].address)' <=> BansAddress(q, entries[e].address)
    BY <2>2 DEF Own, BansAddress, IsBan
  <2> QED
    BY <2>2, <2>3, <2>4 DEF KeptOut, EntriesKept, Knows
<1> QED
  BY <1>1, <1>2

\* A ruling under way, or one that begins with Crosses, goes on alone.
LEMMA AloneGoesOn ==
  ASSUME KeptOut, NEW r \in Ruling, NEW at, NEW undo, NEW address, GoesOn(r, at, undo, address),
         UNCHANGED clock, rulings[r].at # "none", at # "none",
         \/ UnderWay(r) /\ crossed' = crossed
         \/ Crosses(r, rulings[r].device)
  PROVE  OneAtATime' /\ crossed \subseteq crossed'
<1>1. crossed \subseteq crossed'
  BY DEF Crosses
<1>2. ASSUME NEW q \in Ruling, q # r, rulings[q].at # "none", rulings[q].device = rulings[r].device,
             rulings[r].device \notin crossed'
      PROVE  ~UnderWay(q) /\ ~isActive(q)
  <2>1. CASE UnderWay(r) /\ crossed' = crossed
    BY <1>2, <2>1 DEF KeptOut, OneAtATime
  <2>2. CASE Crosses(r, rulings[r].device)
    BY <1>2, <2>2 DEF Crosses
  <2> QED
    BY <2>1, <2>2
<1>3. \A q \in Ruling \ {r} : /\ rulings'[q] = rulings[q] /\ (UnderWay(q)' <=> UnderWay(q))
                              /\ isActive(q)' <=> isActive(q)
  BY DEF GoesOn, UnderWay, isActive, Lifted
<1>4. OneAtATime'
  <2> SUFFICES ASSUME NEW p \in Ruling, NEW q \in Ruling, p # q,
                      rulings'[p].at # "none", rulings'[q].at # "none",
                      rulings'[p].device = rulings'[q].device, rulings'[p].device \notin crossed',
                      UnderWay(q)', UnderWay(p)' \/ isActive(p)'
               PROVE  FALSE
    BY DEF OneAtATime
  <2>1. CASE p # r /\ q # r
    BY <1>1, <1>3, <2>1 DEF KeptOut, OneAtATime
  <2>2. CASE p = r
    BY <1>2, <1>3, <2>2 DEF GoesOn
  <2>3. CASE q = r
    BY <1>2, <1>3, <2>3 DEF GoesOn
  <2> QED
    BY <2>1, <2>2, <2>3
<1> QED
  BY <1>1, <1>4

LEMMA MarksLeftAlone ==
  ASSUME KeptOut, NEW r \in Ruling, NEW at, NEW undo, NEW address, GoesOn(r, at, undo, address),
         UNCHANGED <<clock, mark>>, crossed \subseteq crossed',
         at \in {"section", "done"} => rulings[r].at \in {"section", "done"},
         rulings[r].lift # "no" => undo # "no"
  PROVE  Marked'
<1> SUFFICES ASSUME NEW q \in Ruling, rulings'[q].at \in {"section", "done"}, isActive(q)',
                    rulings'[q].device \notin crossed'
             PROVE  mark[rulings'[q].device] = rulings'[q].until
  BY DEF Marked
<1>1. /\ rulings[q].at \in {"section", "done"} /\ isActive(q) /\ rulings'[q].device = rulings[q].device
      /\ rulings'[q].until = rulings[q].until
  BY DEF GoesOn, isActive, Lifted
<1> QED
  BY <1>1 DEF KeptOut, Marked

LEMMA MadeGoesOn ==
  ASSUME KeptOut, NEW r \in Ruling, NEW at, NEW undo, NEW address, GoesOn(r, at, undo, address),
         undo # "no" => at \in {"mirror", "section", "done"}
  PROVE  Made'
BY DEF KeptOut, GoesOn, Made

\* No index, and no mark of an address, is touched.
LEMMA LeadsLeftAlone ==
  ASSUME KeptOut, NEW r \in Ruling, NEW at, NEW undo, GoesOn(r, at, undo, rulings[r].address),
         UNCHANGED <<index, addressBan, eclipsed>>,
         at \in {"mirror", "section", "done"} =>
           rulings[r].at \in {"mirror", "section", "done"} \/ (rulings[r].at = "network" /\ at = "mirror"),
         at \notin {"mirror", "section", "done"} => at = rulings[r].at
  PROVE  Led' /\ Addressed'
<1>1. Led'
  BY DEF KeptOut, GoesOn, Led
<1>2. Addressed'
  <2> SUFFICES ASSUME NEW q \in Ruling
               PROVE  /\ rulings'[q].at \in {"none", "index", "browser", "network"} => rulings'[q].address = Nobody
                      /\ rulings'[q].at = "address" => rulings'[q].address \in Place
                      /\ rulings'[q].at \in {"mirror", "section", "done"} /\ rulings'[q].address # Nobody
                           /\ q \notin eclipsed
                         => /\ rulings'[q].address \in Place /\ addressBan[rulings'[q].address].by = q
                            /\ addressBan[rulings'[q].address].until
                                 \in {rulings'[q].until, rulings'[q].made + NetworkTtl}
    BY DEF Addressed
  <2>1. CASE q = r
    BY <2>1 DEF KeptOut, GoesOn, Addressed
  <2>2. CASE q # r
    <3>1. rulings'[q] = rulings[q]
      BY <2>2 DEF GoesOn
    <3> QED
      BY <3>1 DEF KeptOut, Addressed
  <2> QED
    BY <2>1, <2>2
<1> QED
  BY <1>1, <1>2

LEMMA NothingElse ==
  ASSUME RestrictionsTyped, \E R : rulings' \in [Ruling -> RulingRecords(R)],
         UNCHANGED <<browserOf, clock, linked, noted, entries>>,
         addressBan' \in [Place -> [by : Ruling \cup {Nobody}, until : Nat]],
         \E M : mark' \in [Visitor -> M]
  PROVE  RestrictionsTyped'
BY DEF RestrictionsTyped, RulingRecords

\* A step of a ruling that touches neither indexes nor marks.
LEMMA StepOfRuling ==
  ASSUME KeptOut, NEW r \in Ruling, NEW at, NEW undo, GoesOn(r, at, undo, rulings[r].address),
         UNCHANGED <<browserOf, clock, linked, noted, entries, letIn, index, addressBan, eclipsed, mark>>,
         rulings[r].at # "none", at # "none",
         \/ UnderWay(r) /\ crossed' = crossed
         \/ Crosses(r, rulings[r].device),
         at \in {"section", "done"} => rulings[r].at \in {"section", "done"},
         rulings[r].at \in {"mirror", "section", "done"} => at \in {"mirror", "section", "done"},
         undo # "no" => rulings[r].at \in {"mirror", "section", "done"},
         rulings[r].at = "done" => at = "done", rulings[r].lift # "no" => undo # "no",
         at = "mirror" => rulings[r].at \in {"mirror", "network"},
         at \notin {"mirror", "section", "done"} => at = rulings[r].at
  PROVE  KeptOut'
<1>1. OneAtATime' /\ crossed \subseteq crossed'
  BY AloneGoesOn
<1>2. Marked'
  BY <1>1, MarksLeftAlone
<1>3. Led' /\ Addressed'
  BY LeadsLeftAlone
<1>4. LinkedVisitors' /\ EntriesKept' /\ letIn' = {}
  BY EntriesLeftAlone DEF GoesOn
<1>5. RestrictionsTyped'
  BY NothingElse DEF KeptOut, GoesOn, RestrictionsTyped
<1>6. Made'
  BY MadeGoesOn
<1> QED
  BY <1>1, <1>2, <1>3, <1>4, <1>5, <1>6 DEF KeptOut

LEMMA RuleKeepsOut ==
  ASSUME KeptOut, NEW r \in Ruling, rule(r)
  PROVE  KeptOut'
<1>1. PICK d \in Accused, t \in Durations :
        /\ Ruled(r, [rulings[r] EXCEPT !.at = "index", !.device = d, !.browser = linked[d],
                                       !.made = clock, !.until = clock + t])
        /\ Crosses(r, d)
  BY DEF rule
<1> DEFINE new == [rulings[r] EXCEPT !.at = "index", !.device = d, !.browser = linked[d],
                                     !.made = clock, !.until = clock + t]
<1>2. /\ rulings[r].at = "none"
      /\ UNCHANGED <<browserOf, clock, linked, noted, entries, letIn, index, addressBan, mark, eclipsed>>
  BY DEF rule, NoEntry
<1>3. PICK R : rulings[r] \in RulingRecords(R)
  BY DEF KeptOut, RestrictionsTyped
<1>4. d \in Visitor /\ linked[d] \in Browser \cup {Nobody} /\ clock \in Nat /\ clock + t \in Nat
  BY RestrictionsAssumption DEF KeptOut, RestrictionsTyped, Durations
<1>5. new \in RulingRecords(R) /\ new.at = "index" /\ new.address = rulings[r].address /\ new.device = d
      /\ new.lift = rulings[r].lift
  BY <1>3, <1>4 DEF RulingRecords, RulingPlaces
<1>6. Ruled(r, new)
  BY <1>1
<1> HIDE DEF new
<1>7. /\ \E S : rulings' \in [Ruling -> RulingRecords(S)]
      /\ rulings'[r] = new /\ \A q \in Ruling \ {r} : rulings'[q] = rulings[q]
  BY <1>5, <1>6, RulingWritten DEF KeptOut
<1>8. crossed \subseteq crossed'
  BY <1>1 DEF Crosses
<1>9. OneAtATime'
  <2>1. ASSUME NEW q \in Ruling, q # r, rulings[q].at # "none", rulings[q].device = d, d \notin crossed'
        PROVE  ~UnderWay(q) /\ ~isActive(q)
    BY <1>1, <2>1 DEF Crosses
  <2>2. \A q \in Ruling \ {r} : /\ rulings'[q] = rulings[q] /\ (UnderWay(q)' <=> UnderWay(q))
                                /\ isActive(q)' <=> isActive(q)
    BY <1>2, <1>7 DEF UnderWay, isActive, Lifted
  <2> SUFFICES ASSUME NEW p \in Ruling, NEW q \in Ruling, p # q,
                      rulings'[p].at # "none", rulings'[q].at # "none",
                      rulings'[p].device = rulings'[q].device, rulings'[p].device \notin crossed',
                      UnderWay(q)', UnderWay(p)' \/ isActive(p)'
               PROVE  FALSE
    BY DEF OneAtATime
  <2>3. CASE p # r /\ q # r
    BY <1>8, <2>2, <2>3 DEF KeptOut, OneAtATime
  <2>4. CASE p = r
    BY <1>5, <1>7, <2>1, <2>2, <2>4
  <2>5. CASE q = r
    BY <1>5, <1>7, <2>1, <2>2, <2>5
  <2> QED
    BY <2>3, <2>4, <2>5
<1>10. Marked'
  <2> SUFFICES ASSUME NEW q \in Ruling, rulings'[q].at \in {"section", "done"}, isActive(q)',
                      rulings'[q].device \notin crossed'
               PROVE  mark[rulings'[q].device] = rulings'[q].until
    BY <1>2 DEF Marked
  <2>1. q # r /\ rulings'[q] = rulings[q]
    BY <1>5, <1>7
  <2> QED
    BY <1>2, <1>8, <2>1 DEF KeptOut, Marked, isActive, Lifted
<1>11. Led'
  <2> SUFFICES ASSUME NEW q \in Ruling, rulings'[q].at \notin {"none", "index"}
               PROVE  /\ <<rulings'[q].device, q>> \in index
                      /\ rulings'[q].at # "browser" /\ rulings'[q].browser # Nobody
                           => <<rulings'[q].browser, q>> \in index
    BY <1>2 DEF Led
  <2>1. rulings'[q] = rulings[q]
    BY <1>5, <1>7
  <2> QED
    BY <2>1 DEF KeptOut, Led
<1>12. Addressed'
  <2> SUFFICES ASSUME NEW q \in Ruling
               PROVE  /\ rulings'[q].at \in {"none", "index", "browser", "network"} => rulings'[q].address = Nobody
                      /\ rulings'[q].at = "address" => rulings'[q].address \in Place
                      /\ rulings'[q].at \in {"mirror", "section", "done"} /\ rulings'[q].address # Nobody
                           /\ q \notin eclipsed
                         => /\ rulings'[q].address \in Place /\ addressBan[rulings'[q].address].by = q
                            /\ addressBan[rulings'[q].address].until
                                 \in {rulings'[q].until, rulings'[q].made + NetworkTtl}
    BY <1>2 DEF Addressed
  <2>1. CASE q = r
    BY <1>2, <1>5, <1>7, <2>1 DEF KeptOut, Addressed
  <2>2. CASE q # r
    <3>1. rulings'[q] = rulings[q]
      BY <1>7, <2>2
    <3> QED
      BY <3>1 DEF KeptOut, Addressed
  <2> QED
    BY <2>1, <2>2
<1>13. LinkedVisitors' /\ EntriesKept' /\ letIn' = {}
  BY <1>2, <1>7, EntriesLeftAlone
<1>14. RestrictionsTyped'
  BY <1>2, <1>7, NothingElse DEF KeptOut, RestrictionsTyped
<1>15. Made'
  BY <1>2, <1>5, <1>7 DEF KeptOut, Made
<1> QED
  BY <1>9, <1>10, <1>11, <1>12, <1>13, <1>14, <1>15 DEF KeptOut

\* The ruling r has gone on while the indexes grew.
LEMMA IndexKeepsOut ==
  ASSUME KeptOut, NEW r \in Ruling, addToIndex(r)
  PROVE  KeptOut'
<1>1. /\ rulings[r].at \in {"index", "browser"} /\ index \subseteq index'
      /\ UNCHANGED <<browserOf, clock, linked, noted, entries, letIn, addressBan, mark, crossed, eclipsed>>
  BY DEF addToIndex, NoEntry
<1>2. PICK at \in {"browser", "network"} : Ruled(r, [rulings[r] EXCEPT !.at = at])
  BY DEF addToIndex
<1>3. GoesOn(r, at, rulings[r].lift, rulings[r].address)
  BY <1>2, AtGoesOn DEF KeptOut, RulingPlaces
<1>4. OneAtATime'
  BY <1>1, <1>3, AloneGoesOn DEF UnderWay
<1>5. Marked'
  BY <1>1, <1>3, MarksLeftAlone
<1>6. Led'
  <2> SUFFICES ASSUME NEW q \in Ruling, rulings'[q].at \notin {"none", "index"}
               PROVE  /\ <<rulings'[q].device, q>> \in index'
                      /\ rulings'[q].at # "browser" /\ rulings'[q].browser # Nobody
                           => <<rulings'[q].browser, q>> \in index'
    BY DEF Led
  <2>1. CASE q # r
    <3>1. rulings'[q] = rulings[q]
      BY <1>3, <2>1 DEF GoesOn
    <3> QED
      BY <1>1, <3>1 DEF KeptOut, Led
  <2>2. CASE q = r /\ rulings[r].at = "index"
    <3>1. /\ index' = index \cup {<<rulings[r].device, r>>}
          /\ Ruled(r, [rulings[r] EXCEPT !.at = IF rulings[r].browser # Nobody THEN "browser" ELSE "network"])
      BY <2>2 DEF addToIndex
    <3>2. GoesOn(r, IF rulings[r].browser # Nobody THEN "browser" ELSE "network", rulings[r].lift,
                 rulings[r].address)
      BY <3>1, AtGoesOn DEF KeptOut, RulingPlaces
    <3> QED
      BY <2>2, <3>1, <3>2 DEF GoesOn
  <2>3. CASE q = r /\ rulings[r].at = "browser"
    <3>1. index' = index \cup {<<rulings[r].browser, r>>} /\ <<rulings[r].device, r>> \in index
      BY <2>3 DEF addToIndex, KeptOut, Led
    <3> QED
      BY <1>3, <2>3, <3>1 DEF GoesOn
  <2> QED
    BY <1>1, <2>1, <2>2, <2>3
<1>7. Addressed'
  <2> SUFFICES ASSUME NEW q \in Ruling
               PROVE  /\ rulings'[q].at \in {"none", "index", "browser", "network"} => rulings'[q].address = Nobody
                      /\ rulings'[q].at = "address" => rulings'[q].address \in Place
                      /\ rulings'[q].at \in {"mirror", "section", "done"} /\ rulings'[q].address # Nobody
                           /\ q \notin eclipsed
                         => /\ rulings'[q].address \in Place /\ addressBan[rulings'[q].address].by = q
                            /\ addressBan[rulings'[q].address].until
                                 \in {rulings'[q].until, rulings'[q].made + NetworkTtl}
    BY <1>1 DEF Addressed
  <2>1. CASE q = r
    BY <1>1, <1>3, <2>1 DEF KeptOut, GoesOn, Addressed
  <2>2. CASE q # r
    <3>1. rulings'[q] = rulings[q]
      BY <1>3, <2>2 DEF GoesOn
    <3> QED
      BY <3>1 DEF KeptOut, Addressed
  <2> QED
    BY <2>1, <2>2
<1>8. LinkedVisitors' /\ EntriesKept' /\ letIn' = {}
  BY <1>1, <1>3, EntriesLeftAlone DEF GoesOn
<1>9. RestrictionsTyped'
  BY <1>1, <1>3, NothingElse DEF KeptOut, GoesOn, RestrictionsTyped
<1>10. Made'
  BY <1>1, <1>3, MadeGoesOn DEF KeptOut, Made
<1> QED
  BY <1>4, <1>5, <1>6, <1>7, <1>8, <1>9, <1>10 DEF KeptOut

\* The ban of a network: the newest mark of an address eclipses the one before.
LEMMA NetworkKeepsOut ==
  ASSUME KeptOut, NEW r \in Ruling, banNetwork(r)
  PROVE  KeptOut'
<1> DEFINE u == rulings[r]
<1>0. UNCHANGED <<browserOf, clock, linked, noted, entries, letIn, index, mark, crossed>>
  BY DEF banNetwork, NoEntry
<1>1. CASE u.at = "network" /\ ~(IsBan(r) /\ noted[u.device] # Nobody)
  <2>1. Ruled(r, [rulings[r] EXCEPT !.at = "mirror"]) /\ UNCHANGED <<addressBan, eclipsed>>
    BY <1>1 DEF banNetwork
  <2>2. GoesOn(r, "mirror", rulings[r].lift, rulings[r].address)
    BY <2>1, AtGoesOn DEF KeptOut, RulingPlaces
  <2> QED
    <3>1. UnderWay(r) /\ rulings[r].lift = "no"
      BY <1>1 DEF UnderWay, KeptOut, Made
    <3> QED
      BY <1>0, <1>1, <2>1, <2>2, <3>1, StepOfRuling
<1>2. CASE u.at = "network" /\ IsBan(r) /\ noted[u.device] # Nobody
  <2>1. /\ Ruled(r, [rulings[r] EXCEPT !.at = "address", !.address = noted[u.device]])
        /\ UNCHANGED <<addressBan, eclipsed>>
    BY <1>2 DEF banNetwork
  <2>2. noted[u.device] \in Place
    BY <1>2, RulingTypes DEF KeptOut, RestrictionsTyped
  <2>3. GoesOn(r, "address", rulings[r].lift, noted[u.device])
    BY <2>1, <2>2, AddressGoesOn DEF KeptOut
  <2>4. OneAtATime' /\ Marked'
    BY <1>0, <1>2, <2>3, AloneGoesOn, MarksLeftAlone DEF UnderWay
  <2>5. Led'
    BY <1>0, <1>2, <2>3 DEF KeptOut, GoesOn, Led
  <2>6. Addressed'
    <3> SUFFICES ASSUME NEW q \in Ruling
                 PROVE  /\ rulings'[q].at \in {"none", "index", "browser", "network"} => rulings'[q].address = Nobody
                        /\ rulings'[q].at = "address" => rulings'[q].address \in Place
                        /\ rulings'[q].at \in {"mirror", "section", "done"} /\ rulings'[q].address # Nobody
                             /\ q \notin eclipsed
                           => /\ rulings'[q].address \in Place /\ addressBan[rulings'[q].address].by = q
                              /\ addressBan[rulings'[q].address].until
                                   \in {rulings'[q].until, rulings'[q].made + NetworkTtl}
      BY <2>1 DEF Addressed
    <3>1. CASE q = r
      BY <2>2, <2>3, <3>1 DEF GoesOn
    <3>2. CASE q # r
      <4>1. rulings'[q] = rulings[q]
        BY <2>3, <3>2 DEF GoesOn
      <4> QED
        BY <4>1 DEF KeptOut, Addressed
    <3> QED
      BY <3>1, <3>2
  <2>7. LinkedVisitors' /\ EntriesKept' /\ letIn' = {}
    BY <1>0, <1>2, <2>1, <2>3, EntriesLeftAlone DEF GoesOn
  <2>8. RestrictionsTyped'
    BY <1>0, <2>1, <2>3, NothingElse DEF KeptOut, GoesOn, RestrictionsTyped
  <2>9. Made'
    BY <1>2, <2>3, MadeGoesOn DEF KeptOut, Made
  <2> QED
    BY <2>4, <2>5, <2>6, <2>7, <2>8, <2>9 DEF KeptOut
<1>3. CASE u.at = "address"
  <2> DEFINE end == u.made + NetworkTtl
             new == [by |-> r, until |-> IF u.until < end THEN u.until ELSE end]
  <2>1. /\ addressBan' = [addressBan EXCEPT ![u.address] = new]
        /\ eclipsed' = eclipsed \cup ({addressBan[u.address].by} \ {Nobody, r})
        /\ Ruled(r, [rulings[r] EXCEPT !.at = "mirror"])
    BY <1>3 DEF banNetwork
  <2>2. GoesOn(r, "mirror", rulings[r].lift, rulings[r].address)
    BY <2>1, AtGoesOn DEF KeptOut, RulingPlaces
  <2>3. u.address \in Place
    BY <1>3 DEF KeptOut, Addressed
  <2>4. new \in [by : Ruling \cup {Nobody}, until : Nat] /\ new.by = r /\ new.until \in {u.until, end}
    BY RulingTypes, RestrictionsAssumption DEF KeptOut
  <2> HIDE DEF new
  <2>5. /\ addressBan' \in [Place -> [by : Ruling \cup {Nobody}, until : Nat]]
        /\ addressBan'[u.address] = new
        /\ \A a \in Place \ {u.address} : addressBan'[a] = addressBan[a]
    BY <2>1, <2>3, <2>4 DEF KeptOut, RestrictionsTyped
  <2>6. OneAtATime' /\ Marked'
    BY <1>0, <1>3, <2>2, AloneGoesOn, MarksLeftAlone DEF UnderWay
  <2>7. Led'
    BY <1>0, <1>3, <2>2 DEF KeptOut, GoesOn, Led
  <2>8. Addressed'
    <3> SUFFICES ASSUME NEW q \in Ruling
                 PROVE  /\ rulings'[q].at \in {"none", "index", "browser", "network"} => rulings'[q].address = Nobody
                        /\ rulings'[q].at = "address" => rulings'[q].address \in Place
                        /\ rulings'[q].at \in {"mirror", "section", "done"} /\ rulings'[q].address # Nobody
                             /\ q \notin eclipsed'
                           => /\ rulings'[q].address \in Place /\ addressBan'[rulings'[q].address].by = q
                              /\ addressBan'[rulings'[q].address].until
                                   \in {rulings'[q].until, rulings'[q].made + NetworkTtl}
      BY DEF Addressed
    <3>1. CASE q = r
      BY <2>2, <2>3, <2>4, <2>5, <3>1 DEF GoesOn
    <3>2. CASE q # r
      <4>1. rulings'[q] = rulings[q]
        BY <2>2, <3>2 DEF GoesOn
      <4>2. ASSUME rulings[q].at \in {"mirror", "section", "done"}, rulings[q].address # Nobody, q \notin eclipsed'
            PROVE  rulings[q].address # u.address
        <5>1. addressBan[rulings[q].address].by = q
          BY <2>1, <4>2 DEF KeptOut, Addressed
        <5>2. q # Nobody
          BY RestrictionsAssumption
        <5> QED
          BY <2>1, <3>2, <4>2, <5>1, <5>2
      <4> QED
        BY <2>1, <2>5, <4>1, <4>2 DEF KeptOut, Addressed
    <3> QED
      BY <3>1, <3>2
  <2>9. LinkedVisitors' /\ EntriesKept' /\ letIn' = {}
    BY <1>0, <1>3, <2>1, <2>2, EntriesLeftAlone DEF GoesOn
  <2>10. RestrictionsTyped'
    BY <1>0, <2>2, <2>5, NothingElse DEF KeptOut, GoesOn, RestrictionsTyped
  <2>11. Made'
    BY <2>2, MadeGoesOn
  <2> QED
    BY <2>6, <2>7, <2>8, <2>9, <2>10, <2>11 DEF KeptOut
<1> QED
  BY <1>1, <1>2, <1>3 DEF banNetwork

LEMMA MarkType ==
  ASSUME RestrictionsTyped, NEW d, NEW end, mark' = [mark EXCEPT ![d] = end]
  PROVE  (\E M : mark' \in [Visitor -> M]) /\ (d \in Visitor => mark'[d] = end)
         /\ \A v \in Visitor \ {d} : mark'[v] = mark[v]
<1>1. PICK M : mark \in [Visitor -> M]
  BY DEF RestrictionsTyped
<1>2. mark' \in [Visitor -> M \cup {end}]
  BY <1>1
<1> QED
  BY <1>1, <1>2

\* The mark of a device is written by the only ruling, or lift, that is under way.
LEMMA MarkKeepsOut ==
  ASSUME KeptOut, NEW r \in Ruling, NEW at, NEW undo, GoesOn(r, at, undo, rulings[r].address),
         UNCHANGED <<browserOf, clock, linked, noted, entries, letIn, index, addressBan, eclipsed, crossed>>,
         NEW end, mark' = [mark EXCEPT ![rulings[r].device] = end],
         \/ rulings[r].at = "mirror" /\ at = "section" /\ undo = rulings[r].lift /\ end = rulings[r].until
         \/ rulings[r].lift = "mirror" /\ at = rulings[r].at /\ undo = "done"
  PROVE  KeptOut'
<1>0. /\ UnderWay(r) /\ rulings[r].at # "none" /\ at # "none" /\ rulings[r].device \in Visitor
      /\ rulings[r].at \in {"mirror", "section", "done"}
  BY RulingTypes DEF UnderWay, KeptOut, Made
<1>1. OneAtATime'
  BY <1>0, AloneGoesOn
<1>2. Led' /\ Addressed'
  <2>1. at \notin {"mirror", "section", "done"} => at = rulings[r].at
    OBVIOUS
  <2>2. at \in {"mirror", "section", "done"} => rulings[r].at \in {"mirror", "section", "done"}
    OBVIOUS
  <2> QED
    BY <2>1, <2>2, LeadsLeftAlone
<1>3. LinkedVisitors' /\ EntriesKept' /\ letIn' = {}
  BY EntriesLeftAlone DEF GoesOn
<1>4. /\ \E M : mark' \in [Visitor -> M]
      /\ mark'[rulings[r].device] = end
      /\ \A v \in Visitor \ {rulings[r].device} : mark'[v] = mark[v]
  BY <1>0, MarkType DEF KeptOut
<1>5. RestrictionsTyped'
  BY <1>4, NothingElse DEF KeptOut, GoesOn, RestrictionsTyped
<1>6. Marked'
  <2> SUFFICES ASSUME NEW q \in Ruling, rulings'[q].at \in {"section", "done"}, isActive(q)',
                      rulings'[q].device \notin crossed
               PROVE  mark'[rulings'[q].device] = rulings'[q].until
    BY DEF Marked
  <2>1. CASE q = r
    <3>1. undo = "no"
      BY <2>1 DEF isActive, Lifted, GoesOn
    <3> QED
      BY <1>4, <2>1, <3>1 DEF GoesOn
  <2>2. CASE q # r
    <3>1. rulings'[q] = rulings[q] /\ isActive(q)
      BY <2>2 DEF GoesOn, isActive, Lifted
    <3>2. rulings[q].device # rulings[r].device
      BY <1>0, <2>2, <3>1 DEF KeptOut, OneAtATime
    <3>3. rulings[q].device \in Visitor
      BY RulingTypes DEF KeptOut
    <3> QED
      BY <1>4, <3>1, <3>2, <3>3 DEF KeptOut, Marked
  <2> QED
    BY <2>1, <2>2
<1>7. Made'
  BY <1>0, MadeGoesOn
<1> QED
  BY <1>1, <1>2, <1>3, <1>5, <1>6, <1>7 DEF KeptOut

LEMMA AppliedKeepsOut ==
  ASSUME KeptOut, NEW r \in Ruling, restrictionApplied(r)
  PROVE  KeptOut'
<1>0. UNCHANGED <<browserOf, clock, linked, noted, entries, letIn, index, addressBan, crossed, eclipsed>>
  BY DEF restrictionApplied, NoEntry
<1>1. CASE rulings[r].at = "mirror"
  <2>1. /\ mark' = [mark EXCEPT ![rulings[r].device] = rulings[r].until]
        /\ Ruled(r, [rulings[r] EXCEPT !.at = "section"])
    BY <1>1 DEF restrictionApplied
  <2>2. GoesOn(r, "section", rulings[r].lift, rulings[r].address)
    BY <2>1, AtGoesOn DEF KeptOut, RulingPlaces
  <2> QED
    BY <1>0, <1>1, <2>1, <2>2, MarkKeepsOut
<1>2. CASE rulings[r].at = "section"
  <2>1. Ruled(r, [rulings[r] EXCEPT !.at = "done"]) /\ UNCHANGED mark
    BY <1>2 DEF restrictionApplied
  <2>2. GoesOn(r, "done", rulings[r].lift, rulings[r].address)
    BY <2>1, AtGoesOn DEF KeptOut, RulingPlaces
  <2> QED
    BY <1>0, <1>2, <2>1, <2>2, StepOfRuling DEF UnderWay
<1> QED
  BY <1>1, <1>2 DEF restrictionApplied

LEMMA LiftKeepsOut ==
  ASSUME KeptOut, NEW r \in Ruling, lift(r)
  PROVE  KeptOut'
<1>0. UNCHANGED <<browserOf, clock, linked, noted, entries, letIn, index, addressBan, eclipsed>>
  BY DEF lift, NoEntry
<1>1. CASE rulings[r].lift = "no"
  <2>1. /\ rulings[r].at \in {"mirror", "section", "done"} /\ Ruled(r, [rulings[r] EXCEPT !.lift = "read"])
        /\ Crosses(r, rulings[r].device) /\ UNCHANGED mark
    BY <1>1 DEF lift
  <2>2. GoesOn(r, rulings[r].at, "read", rulings[r].address)
    BY <2>1, LiftGoesOn DEF KeptOut
  <2> QED
    BY <1>0, <2>1, <2>2, StepOfRuling
<1>2. CASE rulings[r].lift = "read"
  <2>1. PICK rest : Ruled(r, [rulings[r] EXCEPT !.lift = "mirror", !.rest = rest])
    BY <1>2 DEF lift
  <2>2. UNCHANGED <<mark, crossed>>
    BY <1>2 DEF lift
  <2>3. GoesOn(r, rulings[r].at, "mirror", rulings[r].address)
    BY <2>1, RestGoesOn DEF KeptOut
  <2> QED
    <3>1. rulings[r].at \in {"mirror", "section", "done"} /\ UnderWay(r)
      BY <1>2 DEF UnderWay, KeptOut, Made
    <3> QED
      BY <1>0, <2>2, <2>3, <3>1, StepOfRuling
<1>3. CASE rulings[r].lift = "mirror"
  <2>1. /\ mark' = [mark EXCEPT ![rulings[r].device] = rulings[r].rest]
        /\ Ruled(r, [rulings[r] EXCEPT !.lift = "done"]) /\ UNCHANGED crossed
    BY <1>3 DEF lift
  <2>2. GoesOn(r, rulings[r].at, "done", rulings[r].address)
    BY <2>1, LiftGoesOn DEF KeptOut
  <2> QED
    BY <1>0, <1>3, <2>1, <2>2, MarkKeepsOut
<1> QED
  BY <1>1, <1>2, <1>3 DEF lift

-----------------------------------------------------------------------------
(* Requests for a session, and hellos.                                      *)

LEMMA EntryTypes ==
  ASSUME RestrictionsTyped
  PROVE  /\ \A e \in Entry : /\ entries[e].who \in Visitor /\ entries[e].address \in Place
                             /\ entries[e].barred \subseteq Ruling
         /\ \A d \in Visitor : browserOf[d] \in Browser /\ browserOf[d] # Nobody
         /\ Nobody \notin Place
<1>1. \A e \in Entry : entries[e] \in EntryRecords
  BY DEF RestrictionsTyped
<1> QED
  BY <1>1, RestrictionsAssumption DEF RestrictionsTyped, EntryRecords

LEMMA NoEntryType == NoEntryYet \in EntryRecords /\ NoEntryYet.at = "none"
<1>1. (CHOOSE d \in Visitor : TRUE) \in Visitor /\ (CHOOSE a \in Place : TRUE) \in Place
  BY RestrictionsAssumption
<1> QED
  BY <1>1 DEF NoEntryYet, EntryRecords

LEMMA EntryGoes ==
  ASSUME RestrictionsTyped, NEW e \in Entry,
         NEW at \in {"none", "device", "network", "issue", "ban", "lock"}, Goes(e, at)
  PROVE  /\ entries' \in [Entry -> EntryRecords]
         /\ \A f \in Entry \ {e} : entries'[f] = entries[f]
         /\ entries'[e].at = at
         /\ at # "none" => /\ entries'[e].who = entries[e].who /\ entries'[e].address = entries[e].address
                           /\ entries'[e].barred = entries[e].barred
<1> DEFINE moved == [entries[e] EXCEPT !.at = at]
           new == IF at = "none" THEN NoEntryYet ELSE moved
<1>1. entries \in [Entry -> EntryRecords] /\ entries[e] \in EntryRecords
  BY DEF RestrictionsTyped
<1>2. /\ moved \in EntryRecords /\ moved.at = at /\ moved.who = entries[e].who
      /\ moved.address = entries[e].address /\ moved.barred = entries[e].barred
  BY <1>1 DEF EntryRecords
<1>3. entries' = [entries EXCEPT ![e] = new]
  BY DEF Goes
<1> HIDE DEF moved
<1>4. new \in EntryRecords /\ new.at = at /\ (at # "none" => new = moved)
  BY <1>2, NoEntryType
<1> HIDE DEF new
<1> QED
  BY <1>1, <1>2, <1>3, <1>4

\* A step of the entry e leaves the rulings alone.
LEMMA EntryKeepsOut ==
  ASSUME KeptOut, NEW e \in Entry, NoRuling, letIn' = letIn,
         entries' \in [Entry -> EntryRecords], \A f \in Entry \ {e} : entries'[f] = entries[f],
         linked' \in [Visitor -> Browser \cup {Nobody}], noted' \in [Visitor -> Place \cup {Nobody}],
         \A d \in Visitor : /\ noted'[d] # Nobody => linked'[d] = browserOf[d]
                            /\ linked[d] = browserOf[d] => linked'[d] = browserOf[d],
         entries'[e].at \notin {"none", "link"} => linked'[entries'[e].who] = browserOf[entries'[e].who],
         Knows(entries'[e])
  PROVE  KeptOut'
<1> USE DEF NoRuling
<1>1. RestrictionsTyped'
  BY DEF KeptOut, RestrictionsTyped
<1>2. Led' /\ Made' /\ Addressed' /\ OneAtATime' /\ Marked'
  BY DEF KeptOut, Led, Made, Addressed, OneAtATime, Marked, UnderWay, isActive, Lifted
<1>3. LinkedVisitors'
  <2>1. \A f \in Entry : entries[f].who \in Visitor
    BY EntryTypes DEF KeptOut
  <2> QED
    BY <2>1 DEF KeptOut, LinkedVisitors
<1>4. EntriesKept'
  <2> SUFFICES ASSUME NEW f \in Entry PROVE Knows(entries'[f])
    BY DEF EntriesKept, Knows, Own, BansAddress, IsBan, isActive, Lifted
  <2> QED
    BY DEF KeptOut, EntriesKept
<1> QED
  BY <1>1, <1>2, <1>3, <1>4 DEF KeptOut

\* What bars an entry of its own is found by its device or its browser.
LEMMA OwnIsFound ==
  ASSUME KeptOut, NEW d \in Visitor, NEW r \in Ruling, rulings[r].at = "done", isActive(r), Own(r, d)
  PROVE  r \in activeForDevice(d, browserOf[d])
BY EntryTypes DEF KeptOut, Led, Own, activeForDevice

\* What bars an address is found by its mark, unless a newer one is there.
LEMMA BanIsFound ==
  ASSUME KeptOut, NEW a \in Place, NEW r \in Ruling, rulings[r].at = "done", isActive(r),
         BansAddress(r, a), r \notin eclipsed
  PROVE  r \in activeForNetwork(a)
<1>1. /\ addressBan[a].by = r
      /\ addressBan[a].until \in {rulings[r].until, rulings[r].made + NetworkTtl}
  BY EntryTypes DEF KeptOut, Addressed, BansAddress
<1>2. rulings[r].until > clock /\ clock < rulings[r].made + NetworkTtl
  BY DEF isActive, BansAddress
<1>3. clock \in Nat /\ rulings[r].made + NetworkTtl \in Nat
  <2>1. NetworkTtl \in Nat
    BY RestrictionsAssumption
  <2>2. clock \in Nat /\ rulings[r].made \in Nat
    BY RulingTypes DEF KeptOut, RestrictionsTyped
  <2> QED
    BY <2>1, <2>2
<1>4. addressBan[a].until > clock
  BY <1>1, <1>2, <1>3
<1> QED
  BY <1>1, <1>4 DEF activeForNetwork, BansAddress

LEMMA RequestKeepsOut ==
  ASSUME KeptOut, NEW e \in Entry, requestSession(e)
  PROVE  KeptOut'
<1>1. PICK d \in Visitor, a \in Place :
        entries' = [entries EXCEPT ![e] = [at |-> "link", who |-> d, address |-> a,
                                           barred |-> Bars(d, browserOf[d]) \cup BarsAddress(a)]]
  BY DEF requestSession
<1> DEFINE barred == Bars(d, browserOf[d]) \cup BarsAddress(a)
           new == [at |-> "link", who |-> d, address |-> a, barred |-> barred]
<1>2. barred \subseteq Ruling
  BY DEF Bars, BarsAddress, Standing
<1>3. \A r \in barred : rulings[r].at = "done" /\ (Own(r, d) \/ BansAddress(r, a))
  BY DEF Bars, BarsAddress, Standing, Own, BansAddress
<1> HIDE DEF barred
<1>4. new \in EntryRecords /\ new.at = "link" /\ Knows(new)
  BY <1>2, <1>3 DEF EntryRecords, Knows
<1>5. entries' = [entries EXCEPT ![e] = new]
  BY <1>1 DEF barred
<1> HIDE DEF new
<1>6. /\ entries' \in [Entry -> EntryRecords] /\ entries'[e] = new
      /\ \A f \in Entry \ {e} : entries'[f] = entries[f]
  BY <1>4, <1>5 DEF KeptOut, RestrictionsTyped
<1>7. NoRuling /\ UNCHANGED <<linked, noted, letIn>>
  BY DEF requestSession
<1>8. /\ linked' \in [Visitor -> Browser \cup {Nobody}] /\ noted' \in [Visitor -> Place \cup {Nobody}]
      /\ \A v \in Visitor : noted[v] # Nobody => linked[v] = browserOf[v]
  BY <1>7 DEF KeptOut, RestrictionsTyped, LinkedVisitors
<1> QED
  BY <1>4, <1>6, <1>7, <1>8, EntryKeepsOut

\* An entry that is not taken further knows nothing.
LEMMA KnowsNothing == \A entry : entry.at = "none" => Knows(entry)
BY DEF Knows

LEMMA CheckSessionKeepsOut ==
  ASSUME KeptOut, NEW e \in Entry, CheckSession(e)
  PROVE  KeptOut'
<1> DEFINE d == entries[e].who
<1>0. /\ NoRuling /\ UNCHANGED <<noted, letIn>> /\ d \in Visitor /\ entries[e].address \in Place
      /\ entries[e].barred \subseteq Ruling /\ RestrictionsTyped /\ Knows(entries[e])
      /\ linked \in [Visitor -> Browser \cup {Nobody}] /\ noted' \in [Visitor -> Place \cup {Nobody}]
      /\ \A v \in Visitor : noted[v] # Nobody => linked[v] = browserOf[v]
      /\ entries[e].at \notin {"none", "link"} => linked[d] = browserOf[d]
  BY EntryTypes DEF CheckSession, KeptOut, RestrictionsTyped, LinkedVisitors, EntriesKept
<1>1. CASE entries[e].at = "link"
  <2>1. linked' = [linked EXCEPT ![d] = browserOf[d]] /\ Goes(e, "device")
    BY <1>1 DEF CheckSession
  <2>2. /\ entries' \in [Entry -> EntryRecords] /\ \A f \in Entry \ {e} : entries'[f] = entries[f]
        /\ entries'[e].at = "device" /\ entries'[e].who = d /\ entries'[e].barred = entries[e].barred
        /\ entries'[e].address = entries[e].address
    BY <1>0, <2>1, EntryGoes
  <2>3. Knows(entries'[e])
    BY <1>0, <1>1, <2>2 DEF Knows
  <2>4. /\ linked' \in [Visitor -> Browser \cup {Nobody}] /\ linked'[d] = browserOf[d]
        /\ \A v \in Visitor \ {d} : linked'[v] = linked[v]
    BY <1>0, <2>1, EntryTypes
  <2> QED
    BY <1>0, <2>2, <2>3, <2>4, EntryKeepsOut
<1>2. ASSUME NEW at \in {"none", "network", "issue"}, Goes(e, at), linked' = linked,
             entries[e].at \in {"device", "network"},
             at = "network" => activeForDevice(d, browserOf[d]) = {},
             at = "issue" => entries[e].at = "network" /\ activeForNetwork(entries[e].address) = {}
      PROVE  KeptOut'
  <2>1. /\ entries' \in [Entry -> EntryRecords] /\ \A f \in Entry \ {e} : entries'[f] = entries[f]
        /\ entries'[e].at = at
        /\ at # "none" => /\ entries'[e].who = d /\ entries'[e].barred = entries[e].barred
                          /\ entries'[e].address = entries[e].address
    BY <1>0, <1>2, EntryGoes
  <2>2. Knows(entries'[e])
    <3>1. CASE at = "none"
      BY <2>1, <3>1, KnowsNothing
    <3>2. CASE at # "none"
      <4> SUFFICES ASSUME NEW r \in entries[e].barred
                   PROVE  /\ rulings[r].at = "done" /\ (Own(r, d) \/ BansAddress(r, entries[e].address))
                          /\ isActive(r) => ~Own(r, d)
                          /\ at = "issue" /\ isActive(r) => r \in eclipsed
        BY <1>2, <2>1, <3>2 DEF Knows
      <4>1. r \in Ruling /\ rulings[r].at = "done" /\ (Own(r, d) \/ BansAddress(r, entries[e].address))
        BY <1>0, <1>2 DEF Knows
      <4>2. isActive(r) => ~Own(r, d)
        <5>1. CASE at = "network"
          BY <1>0, <1>2, <4>1, <5>1, OwnIsFound
        <5>2. CASE at = "issue"
          BY <1>0, <1>2, <4>1, <5>2 DEF Knows
        <5> QED
          BY <1>2, <3>2, <5>1, <5>2
      <4>3. at = "issue" /\ isActive(r) => r \in eclipsed
        BY <1>0, <1>2, <4>1, <4>2, BanIsFound
      <4> QED
        BY <4>1, <4>2, <4>3
    <3> QED
      BY <3>1, <3>2
  <2> QED
    BY <1>0, <1>2, <2>1, <2>2, EntryKeepsOut
<1>3. CASE entries[e].at = "device"
  BY <1>2, <1>3 DEF CheckSession
<1>4. CASE entries[e].at = "network"
  BY <1>2, <1>4 DEF CheckSession
<1> QED
  BY <1>1, <1>3, <1>4 DEF CheckSession

LEMMA IssueKeepsOut ==
  ASSUME KeptOut, NEW e \in Entry, issue(e)
  PROVE  KeptOut'
<1> DEFINE d == entries[e].who
<1>0. /\ NoRuling /\ UNCHANGED linked /\ d \in Visitor /\ entries[e].address \in Place
      /\ entries[e].barred \subseteq Ruling /\ RestrictionsTyped /\ Knows(entries[e])
      /\ linked \in [Visitor -> Browser \cup {Nobody}] /\ noted \in [Visitor -> Place \cup {Nobody}]
      /\ \A v \in Visitor : noted[v] # Nobody => linked[v] = browserOf[v]
      /\ entries[e].at = "issue" /\ linked[d] = browserOf[d]
      /\ noted' = [noted EXCEPT ![d] = entries[e].address] /\ Slips(e, "session") /\ Goes(e, "none")
  BY EntryTypes DEF issue, KeptOut, RestrictionsTyped, LinkedVisitors, EntriesKept
<1>1. letIn' = letIn
  <2>1. \A r \in entries[e].barred : isActive(r) => ~Own(r, d) /\ r \in eclipsed
    BY <1>0 DEF Knows
  <2> QED
    BY <1>0, <2>1 DEF Slips, Own
<1>2. /\ noted' \in [Visitor -> Place \cup {Nobody}] /\ \A v \in Visitor \ {d} : noted'[v] = noted[v]
  BY <1>0
<1>3. /\ entries' \in [Entry -> EntryRecords] /\ \A f \in Entry \ {e} : entries'[f] = entries[f]
      /\ entries'[e].at = "none"
  BY <1>0, EntryGoes
<1>4. Knows(entries'[e])
  BY <1>3, KnowsNothing
<1>5. \A v \in Visitor : noted'[v] # Nobody => linked[v] = browserOf[v]
  BY <1>0, <1>2
<1> QED
  BY <1>0, <1>1, <1>2, <1>3, <1>4, <1>5, EntryKeepsOut

LEMMA BeginHelloKeepsOut ==
  ASSUME KeptOut, NEW e \in Entry, beginHello(e)
  PROVE  KeptOut'
<1>1. PICK d \in HasToken \ inQueue :
        entries' = [entries EXCEPT ![e].at = "hello", ![e].who = d, ![e].barred = Bars(d, linked[d])]
  BY DEF beginHello
<1> DEFINE barred == Bars(d, linked[d])
           new == [entries[e] EXCEPT !.at = "hello", !.who = d, !.barred = barred]
<1>2. d \in Visitor /\ linked[d] = browserOf[d]
  BY DEF HasToken, KeptOut, LinkedVisitors
<1>3. barred \subseteq Ruling /\ \A r \in barred : rulings[r].at = "done" /\ Own(r, d)
  BY <1>2 DEF Bars, Standing, Own
<1> HIDE DEF barred
<1>4. entries[e] \in EntryRecords /\ entries \in [Entry -> EntryRecords]
  BY DEF KeptOut, RestrictionsTyped
<1>5. /\ new \in EntryRecords /\ new.at = "hello" /\ new.who = d /\ new.barred = barred
  BY <1>2, <1>3, <1>4 DEF EntryRecords
<1>6. entries' = [entries EXCEPT ![e] = new]
  BY <1>1, <1>4 DEF EntryRecords, barred
<1> HIDE DEF new
<1>7. Knows(new)
  BY <1>3, <1>5 DEF Knows
<1>8. /\ entries' \in [Entry -> EntryRecords] /\ entries'[e] = new
      /\ \A f \in Entry \ {e} : entries'[f] = entries[f]
  BY <1>4, <1>5, <1>6
<1>9. /\ NoRuling /\ UNCHANGED <<linked, noted, letIn>>
      /\ linked' \in [Visitor -> Browser \cup {Nobody}] /\ noted' \in [Visitor -> Place \cup {Nobody}]
      /\ \A v \in Visitor : noted[v] # Nobody => linked[v] = browserOf[v]
  BY DEF beginHello, KeptOut, RestrictionsTyped, LinkedVisitors
<1> QED
  BY <1>2, <1>5, <1>7, <1>8, <1>9, EntryKeepsOut

LEMMA CheckHelloKeepsOut ==
  ASSUME KeptOut, NEW e \in Entry, CheckHello(e)
  PROVE  KeptOut'
<1> DEFINE d == entries[e].who
<1>0. /\ NoRuling /\ UNCHANGED <<linked, noted, letIn>> /\ d \in Visitor
      /\ entries[e].barred \subseteq Ruling /\ RestrictionsTyped /\ Knows(entries[e])
      /\ linked' \in [Visitor -> Browser \cup {Nobody}] /\ noted' \in [Visitor -> Place \cup {Nobody}]
      /\ \A v \in Visitor : noted[v] # Nobody => linked[v] = browserOf[v]
      /\ entries[e].at \in {"hello", "ban"} /\ linked[d] = browserOf[d]
  BY EntryTypes DEF CheckHello, KeptOut, RestrictionsTyped, LinkedVisitors, EntriesKept
<1>1. PICK at \in {"none", "ban", "lock"} :
        /\ Goes(e, at)
        /\ at = "ban" => activeForDevice(d, linked[d]) = {}
        /\ at = "lock" => entries[e].at = "ban"
  BY DEF CheckHello
<1>2. /\ entries' \in [Entry -> EntryRecords] /\ \A f \in Entry \ {e} : entries'[f] = entries[f]
      /\ entries'[e].at = at
      /\ at # "none" => entries'[e].who = d /\ entries'[e].barred = entries[e].barred
  BY <1>0, <1>1, EntryGoes
<1>3. Knows(entries'[e])
  <2>1. CASE at = "none"
    BY <1>2, <2>1, KnowsNothing
  <2>2. CASE at # "none"
    <3> SUFFICES ASSUME NEW r \in entries[e].barred
                 PROVE  rulings[r].at = "done" /\ Own(r, d) /\ ~isActive(r)
      BY <1>1, <1>2, <2>2 DEF Knows
    <3>1. r \in Ruling /\ rulings[r].at = "done" /\ Own(r, d)
      BY <1>0 DEF Knows
    <3>2. CASE at = "ban"
      BY <1>0, <1>1, <3>1, <3>2, OwnIsFound
    <3>3. CASE at = "lock"
      BY <1>0, <1>1, <3>1, <3>3 DEF Knows
    <3> QED
      BY <1>1, <2>2, <3>1, <3>2, <3>3
  <2> QED
    BY <2>1, <2>2
<1> QED
  BY <1>0, <1>2, <1>3, EntryKeepsOut

LEMMA JoinKeepsOut ==
  ASSUME KeptOut, NEW e \in Entry, joinQueue(e)
  PROVE  KeptOut'
<1>0. /\ NoRuling /\ UNCHANGED <<linked, noted>> /\ Slips(e, "hello") /\ Goes(e, "none")
      /\ RestrictionsTyped /\ Knows(entries[e]) /\ entries[e].at = "lock"
      /\ linked' \in [Visitor -> Browser \cup {Nobody}] /\ noted' \in [Visitor -> Place \cup {Nobody}]
      /\ \A v \in Visitor : noted[v] # Nobody => linked[v] = browserOf[v]
  BY DEF joinQueue, KeptOut, RestrictionsTyped, LinkedVisitors, EntriesKept
<1>1. letIn' = letIn
  <2>1. \A r \in entries[e].barred : ~isActive(r)
    BY <1>0 DEF Knows
  <2> QED
    BY <1>0, <2>1 DEF Slips
<1>2. /\ entries' \in [Entry -> EntryRecords] /\ \A f \in Entry \ {e} : entries'[f] = entries[f]
      /\ entries'[e].at = "none"
  BY <1>0, EntryGoes
<1>3. Knows(entries'[e])
  BY <1>2, KnowsNothing
<1> QED
  BY <1>0, <1>1, <1>2, <1>3, EntryKeepsOut

-----------------------------------------------------------------------------
(* Nobody restricted gets in.                                               *)

\* Nothing but the queue and letIn changes.
LEMMA NothingRestricted ==
  ASSUME KeptOut, letIn' = {},
         UNCHANGED <<browserOf, clock, rulings, index, linked, noted, addressBan, mark, entries, crossed,
                     eclipsed>>
  PROVE  KeptOut'
<1>1. RestrictionsTyped' /\ LinkedVisitors'
  BY DEF KeptOut, RestrictionsTyped, LinkedVisitors
<1>2. Led' /\ Made' /\ Addressed' /\ OneAtATime' /\ Marked'
  BY DEF KeptOut, Led, Made, Addressed, OneAtATime, Marked, UnderWay, isActive, Lifted
<1>3. EntriesKept'
  BY DEF KeptOut, EntriesKept, Knows, Own, BansAddress, IsBan, isActive, Lifted
<1> QED
  BY <1>1, <1>2, <1>3 DEF KeptOut

LEMMA PassKeepsOut ==
  ASSUME KeptOut, NEW d \in Visitor, pass(d)
  PROVE  KeptOut'
<1>1. ~(d \notin crossed /\ \E r \in Standing : rulings[r].device = d)
  <2> SUFFICES ASSUME d \notin crossed, NEW r \in Standing, rulings[r].device = d PROVE FALSE
    OBVIOUS
  <2>1. r \in Ruling /\ rulings[r].at = "done" /\ isActive(r)
    BY DEF Standing
  <2>2. mark[d] = rulings[r].until
    BY <2>1 DEF KeptOut, Marked
  <2>3. rulings[r].until > clock /\ mark[d] <= clock /\ rulings[r].until \in Nat /\ clock \in Nat
    BY <2>1, RulingTypes DEF pass, isActive, KeptOut, RestrictionsTyped
  <2> QED
    BY <2>2, <2>3
<1>2. letIn' = letIn
  BY <1>1 DEF pass
<1> QED
  BY <1>2, NothingRestricted DEF pass, NoRuling, KeptOut

LEMMA TenMinutesKeepOut ==
  ASSUME KeptOut, TenMinutes
  PROVE  KeptOut'
<1>1. /\ clock \in Nat /\ clock' = clock + 1
      /\ UNCHANGED <<browserOf, rulings, index, linked, noted, addressBan, mark, entries, crossed, eclipsed, letIn>>
      /\ \A r \in Ruling : ~UnderWay(r)
      /\ \A e \in Entry : entries[e].at = "none"
  BY DEF TenMinutes, KeptOut, RestrictionsTyped
<1>2. \A r \in Ruling : isActive(r)' => isActive(r)
  BY <1>1, RulingTypes DEF isActive, Lifted, KeptOut
<1>3. RestrictionsTyped' /\ LinkedVisitors' /\ Led' /\ Made' /\ Addressed'
  <2>1. RestrictionsTyped'
    <3>1. RestrictionsTyped /\ clock' \in Nat
      BY <1>1 DEF KeptOut
    <3>2. UNCHANGED <<browserOf, rulings, linked, noted, addressBan, mark, entries>>
      BY <1>1
    <3> QED
      BY <3>1, <3>2 DEF RestrictionsTyped
  <2>2. LinkedVisitors' /\ Led' /\ Made' /\ Addressed'
    BY <1>1 DEF KeptOut, LinkedVisitors, Led, Made, Addressed
  <2> QED
    BY <2>1, <2>2
<1>4. OneAtATime'
  BY <1>1 DEF OneAtATime, UnderWay
<1>5. Marked'
  BY <1>1, <1>2 DEF KeptOut, Marked
<1>6. EntriesKept'
  BY <1>1 DEF EntriesKept, Knows
<1> QED
  BY <1>1, <1>3, <1>4, <1>5, <1>6 DEF KeptOut

LEMMA KeptOutInit == RestrictionsInit => KeptOut
<1> SUFFICES ASSUME RestrictionsInit PROVE KeptOut
  OBVIOUS
<1>1. /\ \A r \in Ruling : /\ rulings[r].at = "none" /\ rulings[r].lift = "no" /\ rulings[r].address = Nobody
      /\ \A e \in Entry : entries[e].at = "none"
      /\ \A d \in Visitor : noted[d] = Nobody
      /\ letIn = {}
  BY NoEntryType DEF RestrictionsInit
<1>2. Led /\ Made /\ Addressed /\ OneAtATime /\ Marked /\ LinkedVisitors /\ EntriesKept
  BY <1>1 DEF Led, Made, Addressed, OneAtATime, Marked, LinkedVisitors, EntriesKept, Knows, UnderWay
<1>3. RestrictionsTyped
  <2>1. browserOf \in [Visitor -> Browser] /\ clock \in Nat
    BY RestrictionsAssumption DEF RestrictionsInit
  <2>2. \E R : rulings \in [Ruling -> RulingRecords(R)]
    <3>1. (CHOOSE d \in Visitor : TRUE) \in Visitor
      BY RestrictionsAssumption
    <3>2. rulings \in [Ruling -> RulingRecords({0})]
      BY <3>1 DEF RestrictionsInit, RulingRecords, RulingPlaces
    <3> QED
      BY <3>2
  <2>3. \E M : mark \in [Visitor -> M]
    <3>1. mark \in [Visitor -> {0}]
      BY DEF RestrictionsInit
    <3> QED
      BY <3>1
  <2>4. /\ linked \in [Visitor -> Browser \cup {Nobody}] /\ noted \in [Visitor -> Place \cup {Nobody}]
        /\ addressBan \in [Place -> [by : Ruling \cup {Nobody}, until : Nat]]
        /\ entries \in [Entry -> EntryRecords]
    BY NoEntryType DEF RestrictionsInit
  <2> QED
    BY <2>1, <2>2, <2>3, <2>4 DEF RestrictionsTyped
<1> QED
  BY <1>1, <1>2, <1>3 DEF KeptOut

\* Whoever a ruling that was answered restricts gets no session and no place in the
\* queue by a request that began after it, and is not matched: for any number of
\* devices, browsers, addresses, rulings, lifts and requests under way at once.
THEOREM TheRestrictedStayOutCorrect == RestrictionsSpec => []TheRestrictedStayOut
<1>1. KeptOut /\ [RestrictionsNext]_restrictionsVars => KeptOut'
  <2> SUFFICES ASSUME KeptOut, [RestrictionsNext]_restrictionsVars PROVE KeptOut'
    OBVIOUS
  <2>1. CASE UNCHANGED restrictionsVars
    BY <2>1, NothingRestricted DEF restrictionsVars, KeptOut
  <2>2. ASSUME NEW r \in Ruling, rule(r) \/ addToIndex(r) \/ banNetwork(r) \/ restrictionApplied(r) \/ lift(r)
        PROVE  KeptOut'
    BY <2>2, RuleKeepsOut, IndexKeepsOut, NetworkKeepsOut, AppliedKeepsOut, LiftKeepsOut
  <2>3. ASSUME NEW e \in Entry, \/ requestSession(e) \/ CheckSession(e) \/ issue(e)
                                \/ beginHello(e) \/ CheckHello(e) \/ joinQueue(e)
        PROVE  KeptOut'
    BY <2>3, RequestKeepsOut, CheckSessionKeepsOut, IssueKeepsOut, BeginHelloKeepsOut, CheckHelloKeepsOut,
       JoinKeepsOut
  <2> QED
    BY <2>1, <2>2, <2>3, PassKeepsOut, TenMinutesKeepOut DEF RestrictionsNext
<1>2. KeptOut => TheRestrictedStayOut
  BY DEF KeptOut, TheRestrictedStayOut
<1> QED
  BY <1>1, <1>2, KeptOutInit, PTL DEF RestrictionsSpec
=============================================================================
