-------------------------------- MODULE Gate --------------------------------
(***************************************************************************)
(* POST /api/session and the way into the queue (session/SessionService.ts, *)
(* limits.ts, tokens.ts, queueGate.ts; MatchService.hello).                 *)
(*                                                                         *)
(* The store answers each command at once, and a request awaits it between  *)
(* any two, so requests of one network interleave, on replicas that roll    *)
(* from one SESSION_SECRET to the next at different times.  A lockout is    *)
(* kept under a hash salted with the secret, and so are the new devices of  *)
(* a day: the keys are pairs of whom and with which secret.  A secret is a  *)
(* number; a replica signs, locks and counts with its current one, and      *)
(* knows the one before for tokens and lockouts.                            *)
(***************************************************************************)
EXTENDS Integers, FiniteSets

CONSTANTS
  Visit,            \* requests under way at once
  Host, Guest,      \* replicas, devices
  HostOf,           \* replica that gets the request
  PrintOf,          \* fingerprint (with its network) of a device
  NewPerDay,        \* newDevicesPerNetworkPerDay
  MaxWaiting,       \* flags.max_waiting
  MaxSecret,        \* bound: rotations of the secret
  MaxRequeues       \* bound: partners re-queued

ASSUME GateAssumption ==
  /\ HostOf \in [Visit -> Host]
  /\ IsFiniteSet(Visit) /\ Visit # {} /\ Guest # {}
  /\ NewPerDay \in Nat \ {0} /\ MaxWaiting \in Nat /\ MaxSecret \in Nat \ {0} /\ MaxRequeues \in Nat

VARIABLES
  secret,       \* SESSION_SECRET of each replica
  locks,        \* lockout keys: <<whom, secret>>
  newDevices,   \* the counters of new devices of this network and day, by secret
  seenDevices,  \* KEY.newDeviceSeen: <<device, secret>>
  ageTokens,    \* age tokens of each device, by the secret that signed them
  visits,       \* where each request is
  waiting,      \* the queue
  requeued,     \* history: partners put back into it without a look at max_waiting
  lockouts,     \* history: whom a finished lock() named, and the secrets of all replicas then
  slipped       \* history: a session went to somebody locked out before the request began

Rulings == <<lockouts, slipped>>
gateVars == <<secret, locks, newDevices, seenDevices, ageTokens, visits, waiting, requeued, lockouts, slipped>>
Queue == <<waiting, requeued>>

Secrets == 1..MaxSecret
Whom(d) == {d, PrintOf[d]}
Salts(i) == {secret[i], secret[i] - 1}
Lockouts == [whom : UNION {Whom(d) : d \in Guest}, under : [Host -> Secrets]]
VisitPlaces == {"new", "minor", "lockFingerprint", "adult", "count", "mark", "mint", "returning",
                "issued", "queueing"}

GateTypeOK ==
  /\ secret \in [Host -> Secrets]
  /\ locks \subseteq (UNION {Whom(d) : d \in Guest}) \X Secrets
  /\ newDevices \in [Secrets -> Nat] /\ seenDevices \subseteq Guest \X Secrets
  /\ ageTokens \subseteq Guest \X Secrets
  /\ visits \in [Visit -> [at : VisitPlaces, who : Guest, late : BOOLEAN]]
  /\ waiting \in Nat /\ requeued \in Nat
  /\ lockouts \subseteq Lockouts /\ slipped \in BOOLEAN

GateInit ==
  /\ secret = [i \in Host |-> 1]
  /\ locks = {} /\ newDevices = [s \in Secrets |-> 0] /\ seenDevices = {} /\ ageTokens = {}
  /\ visits = [r \in Visit |-> [at |-> "new", who |-> CHOOSE d \in Guest : TRUE, late |-> FALSE]]
  /\ waiting = 0 /\ requeued = 0 /\ lockouts = {} /\ slipped = FALSE

Where(r) == visits[r].at
Who(r) == visits[r].who
Current(r) == secret[HostOf[r]]
Walk(r, at) == visits' = [visits EXCEPT ![r].at = at]

\* A finished lock() named the device or its browser while all replicas had one secret,
\* and none has changed it twice since.
LockedOut(d) ==
  \E l \in lockouts :
     /\ l.whom \in Whom(d)
     /\ \A i, j \in Host : l.under[i] = l.under[j]
     /\ \A i \in Host : secret[i] <= l.under[i] + 1

\* Mutant.
isLockedNow(i, d) == \E w \in Whom(d) : <<w, secret[i]>> \in locks

isLocked(i, d) == \E w \in Whom(d) : \E salt \in Salts(i) : <<w, salt>> \in locks

\* The checks up to isLocked; then a date of birth, or an age token of this device.
create(r) ==
  LET i == HostOf[r] IN
  /\ Where(r) = "new"
  /\ \E d \in Guest : \E at \in {"minor", "adult", "returning"} :
       /\ ~isLocked(i, d)
       /\ at = "returning" => \E salt \in Salts(i) : <<d, salt>> \in ageTokens
       /\ visits' = [visits EXCEPT ![r] = [at |-> at, who |-> d, late |-> LockedOut(d)]]
  /\ UNCHANGED <<secret, locks, newDevices, seenDevices, ageTokens, Queue, Rulings>>

\* lock: two writes, with the replica's current salt.
lock(r) ==
  /\ \/ Where(r) = "minor"
        /\ locks' = locks \cup {<<Who(r), Current(r)>>} /\ Walk(r, "lockFingerprint")
        /\ UNCHANGED lockouts
     \/ Where(r) = "lockFingerprint"
        /\ locks' = locks \cup {<<PrintOf[Who(r)], Current(r)>>} /\ Walk(r, "new")
        /\ lockouts' = lockouts \cup [whom : Whom(Who(r)), under : {secret}]
  /\ UNCHANGED <<secret, newDevices, seenDevices, ageTokens, Queue, slipped>>

\* NewDeviceCap.admit reads the mark and the counter, then counts, then marks.
admit(r) ==
  /\ Where(r) = "adult"
  /\ Walk(r, IF <<Who(r), Current(r)>> \in seenDevices THEN "mint"
             ELSE IF newDevices[Current(r)] >= NewPerDay THEN "new" ELSE "count")
  /\ UNCHANGED <<secret, locks, newDevices, seenDevices, ageTokens, Queue, Rulings>>

CountDevice(r) ==
  /\ Where(r) = "count"
  /\ newDevices' = [newDevices EXCEPT ![Current(r)] = @ + 1]
  /\ Walk(r, "mark")
  /\ UNCHANGED <<secret, locks, seenDevices, ageTokens, Queue, Rulings>>

MarkSeen(r) ==
  /\ Where(r) = "mark"
  /\ seenDevices' = seenDevices \cup {<<Who(r), Current(r)>>}
  /\ Walk(r, "mint")
  /\ UNCHANGED <<secret, locks, newDevices, ageTokens, Queue, Rulings>>

\* Both tokens are signed with the current secret; an age token shown again stays as it is.
Issue(r) ==
  /\ \/ Where(r) = "mint" /\ ageTokens' = ageTokens \cup {<<Who(r), Current(r)>>}
     \/ Where(r) = "returning" /\ UNCHANGED ageTokens
  /\ slipped' = (slipped \/ visits[r].late)
  /\ Walk(r, "issued")
  /\ UNCHANGED <<secret, locks, newDevices, seenDevices, Queue, lockouts>>

\* precheck, before the match lock.
precheck(r) ==
  /\ Where(r) = "issued"
  /\ Walk(r, IF waiting >= MaxWaiting THEN "new" ELSE "queueing")
  /\ UNCHANGED <<secret, locks, newDevices, seenDevices, ageTokens, Queue, Rulings>>

\* Mutant.
helloUnchecked(r) ==
  /\ Where(r) = "queueing"
  /\ waiting' = waiting + 1
  /\ Walk(r, "new")
  /\ UNCHANGED <<secret, locks, newDevices, seenDevices, ageTokens, requeued, Rulings>>

\* In the locked section of hello admit() looks again before the session is queued.
helloAdmitted(r) ==
  /\ Where(r) = "queueing"
  /\ waiting' = IF waiting >= MaxWaiting THEN waiting ELSE waiting + 1
  /\ Walk(r, "new")
  /\ UNCHANGED <<secret, locks, newDevices, seenDevices, ageTokens, requeued, Rulings>>

\* requeue: caps only.
requeue ==
  /\ requeued < MaxRequeues
  /\ requeued' = requeued + 1 /\ waiting' = waiting + 1
  /\ UNCHANGED <<secret, locks, newDevices, seenDevices, ageTokens, visits, Rulings>>

\* A pair is matched, or a waiter leaves.
Dequeue ==
  /\ waiting > 0 /\ waiting' = waiting - 1
  /\ UNCHANGED <<secret, locks, newDevices, seenDevices, ageTokens, visits, requeued, Rulings>>

\* Replicas are restarted one after the other with the next secret.
Rotate(i) ==
  /\ secret[i] < MaxSecret
  /\ \A j \in Host : secret[i] <= secret[j]
  /\ secret' = [secret EXCEPT ![i] = @ + 1]
  /\ \A r \in Visit : HostOf[r] = i => Where(r) = "new"
  /\ UNCHANGED <<locks, newDevices, seenDevices, ageTokens, visits, Queue, Rulings>>

GateNext ==
  \/ requeue \/ Dequeue
  \/ \E i \in Host : Rotate(i)
  \/ \E r \in Visit : \/ create(r) \/ lock(r) \/ admit(r) \/ CountDevice(r) \/ MarkSeen(r) \/ Issue(r)
                      \/ precheck(r) \/ helloAdmitted(r)

GateSpec == GateInit /\ [][GateNext]_gateVars

-----------------------------------------------------------------------------
(* Properties.                                                              *)

\* A device, or a browser, that a finished lock() named gets no session for a request
\* that begins later, with an age token or a new device id, on any replica and until some
\* replica has changed its secret twice since.  The exception is a lockout decided while the
\* replicas roll: those not yet restarted do not know the secret it was written with
\* (Lockout.isLocked and lock, SessionService.create).
LockedStaysOut == ~slipped

\* Concurrent first visits overshoot the new devices of a day, counted anew by each
\* secret, by less than their own number (NewDeviceCap: "may overshoot by a few"), and hellos never overshoot
\* max_waiting: only partners put back do (admit inside the lock).
CeilingsHold ==
  /\ \A s \in Secrets : newDevices[s] <= NewPerDay + Cardinality(Visit) - 1
  /\ waiting <= MaxWaiting + requeued
=============================================================================
