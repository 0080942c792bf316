----------------------------- MODULE MatchLock -----------------------------
(***************************************************************************)
(* The lock of the match store (backend/src/store/RedisStore.ts): the       *)
(* sections of all replicas run one at a time.                              *)
(*                                                                         *)
(* Calls of one process first queue behind each other; the one in front     *)
(* polls Redis with SET NX PX, and while its section runs a timer renews    *)
(* the lease, fenced by the call's token.  The key lapses by itself.        *)
(*                                                                         *)
(* Time is counted in renewal periods (LOCK_TTL_MS * LOCK_RENEW_SHARE).     *)
(* LOCK_WAIT_MS and LOCK_HOLD_MAX_MS are only known to pass: late and old.  *)
(* A command of a process in Faulty may fail, lose its reply or stall.      *)
(***************************************************************************)
EXTENDS Naturals

CONSTANTS
  Caller,     \* the calls of withLock(), each with a token of its own
  Process,
  Home,       \* Home[c]: the process that makes the call c
  Faulty,     \* the processes that may stall, lose Redis or crash
  Ttl,        \* the lease, in renewal periods
  Nobody

ASSUME LockConstantsOK ==
  /\ Home \in [Caller -> Process]
  /\ Faulty \subseteq Process
  /\ Ttl \in Nat /\ Ttl >= 2
  /\ Nobody \notin Caller

VARIABLES
  holder,   \* whose token the key lock:match holds
  left,     \* renewal periods until the key lapses
  pc,       \* where each call is
  ahead,    \* ahead[c]: the call whose slot c waits for
  tail,     \* localTail of each process: its last call
  slots,    \* the calls that released their slot (releaseLocal)
  late,     \* the calls past their deadline
  old,      \* the sections past LOCK_HOLD_MAX_MS
  timer,    \* timer[c]: the renewal is "off", "set", "due", or answered "kept", "gone"
  lost,     \* lease.lost
  lapsed,   \* history: the calls whose key lapsed while their section ran
  logged    \* the calls that logged an error about their lease

vars == <<holder, left, pc, ahead, tail, slots, late, old, timer, lost, lapsed, logged>>

TypeOK ==
  /\ holder \in Caller \cup {Nobody}
  /\ left \in 0..Ttl
  /\ pc \in [Caller -> {"idle", "queued", "gaveUp", "trying", "inside", "releasing",
                        "done", "failed", "dead"}]
  /\ ahead \in [Caller -> Caller \cup {Nobody}]
  /\ tail \in [Process -> Caller \cup {Nobody}]
  /\ slots \subseteq Caller
  /\ late \subseteq Caller
  /\ old \subseteq Caller
  /\ timer \in [Caller -> {"off", "set", "due", "kept", "gone"}]
  /\ lost \subseteq Caller
  /\ lapsed \subseteq Caller
  /\ logged \subseteq Caller

Init ==
  /\ holder = Nobody /\ left = 0
  /\ pc = [c \in Caller |-> "idle"]
  /\ ahead = [c \in Caller |-> Nobody]
  /\ tail = [p \in Process |-> Nobody]
  /\ slots = {} /\ late = {} /\ old = {}
  /\ timer = [c \in Caller |-> "off"]
  /\ lost = {} /\ lapsed = {} /\ logged = {}

Redis == <<holder, left>>
Local == <<ahead, tail, slots>>
Lease == <<old, timer, lost, lapsed, logged>>

-----------------------------------------------------------------------------
(* The local queue.                                                         *)

Turn(c) == ahead[c] = Nobody \/ ahead[c] \in slots

Call(c) ==
  /\ pc[c] = "idle"
  /\ pc' = [pc EXCEPT ![c] = "queued"]
  /\ ahead' = [ahead EXCEPT ![c] = tail[Home[c]]]
  /\ tail' = [tail EXCEPT ![Home[c]] = c]
  /\ UNCHANGED <<Redis, slots, late, Lease>>

Deadline(c) ==
  /\ pc[c] \in {"queued", "trying"} /\ c \notin late
  /\ late' = late \cup {c}
  /\ UNCHANGED <<Redis, pc, Local, Lease>>

TakeTurn(c) ==
  /\ pc[c] = "queued" /\ Turn(c)
  /\ pc' = [pc EXCEPT ![c] = "trying"]
  /\ UNCHANGED <<Redis, Local, late, Lease>>

\* Mutant: a call behind a hung section waits for it.
GiveUpInTurn(c) ==
  /\ pc[c] = "queued" /\ c \in late /\ Turn(c)
  /\ pc' = [pc EXCEPT ![c] = "gaveUp"]
  /\ UNCHANGED <<Redis, Local, late, Lease>>

\* The deadline wins the race only while the call ahead is not done.
GiveUp(c) ==
  /\ pc[c] = "queued" /\ c \in late /\ ~ Turn(c)
  /\ pc' = [pc EXCEPT ![c] = "gaveUp"]
  /\ UNCHANGED <<Redis, Local, late, Lease>>

\* A call that gave up passes its slot on only once the call ahead is done.
PassOn(c) ==
  /\ pc[c] = "gaveUp" /\ c \notin slots /\ Turn(c)
  /\ slots' = slots \cup {c}
  /\ UNCHANGED <<Redis, pc, ahead, tail, late, Lease>>

\* The call settles and releases its slot.
Settle(c, outcome) ==
  /\ pc' = [pc EXCEPT ![c] = outcome]
  /\ slots' = slots \cup {c}
  /\ UNCHANGED <<ahead, tail, late>>

-----------------------------------------------------------------------------
(* acquire(), against the key.                                              *)

\* Acquired: the section runs and its renewal timer is set.
Enter(c) ==
  /\ pc' = [pc EXCEPT ![c] = "inside"]
  /\ timer' = [timer EXCEPT ![c] = "set"]
  /\ UNCHANGED <<Local, late, old, lost, lapsed, logged>>

SetTakes(c) ==
  /\ pc[c] = "trying" /\ holder = Nobody
  /\ holder' = c /\ left' = Ttl
  /\ Enter(c)

\* The SET took the key, its reply is lost.
SetUnanswered(c) ==
  /\ pc[c] = "trying" /\ holder = Nobody /\ Home[c] \in Faulty
  /\ holder' = c /\ left' = Ttl
  /\ UNCHANGED <<pc, Local, late, Lease>>

\* The SET that is sent again finds the key taken, the GET finds the call's own token;
\* the lease keeps the time the first SET left it.
GetOwn(c) ==
  /\ pc[c] = "trying" /\ holder = c
  /\ Enter(c) /\ UNCHANGED Redis

\* The key is another's and the deadline has passed.
Reject(c) ==
  /\ pc[c] = "trying" /\ holder \notin {Nobody, c} /\ c \in late
  /\ Settle(c, "failed") /\ UNCHANGED <<Redis, Lease>>

\* A command fails: the call rejects, whoever the key belongs to.
CommandFails(c) ==
  /\ pc[c] = "trying" /\ Home[c] \in Faulty
  /\ Settle(c, "failed") /\ UNCHANGED <<Redis, Lease>>

-----------------------------------------------------------------------------
(* keepLease().                                                             *)

Expire(c) ==
  /\ pc[c] = "inside" /\ c \notin old
  /\ old' = old \cup {c}
  /\ UNCHANGED <<Redis, pc, Local, late, timer, lost, lapsed, logged>>

\* pexpireIfEqual at Redis: it extends only the call's own lease.
Renew(c) ==
  /\ pc[c] = "inside" /\ timer[c] = "due" /\ c \notin old
  /\ IF holder = c
       THEN left' = Ttl /\ timer' = [timer EXCEPT ![c] = "kept"]
       ELSE left' = left /\ timer' = [timer EXCEPT ![c] = "gone"]
  /\ UNCHANGED <<holder, pc, Local, late, old, lost, lapsed, logged>>

RenewFails(c) ==
  /\ pc[c] = "inside" /\ timer[c] = "due" /\ c \notin old /\ Home[c] \in Faulty
  /\ timer' = [timer EXCEPT ![c] = "set"]
  /\ UNCHANGED <<Redis, pc, Local, late, old, lost, lapsed, logged>>

\* Mutant.
RenewedOnce(c) ==
  /\ pc[c] = "inside" /\ timer[c] \in {"kept", "gone"}
  /\ IF timer[c] = "kept"
       THEN timer' = [timer EXCEPT ![c] = "off"] /\ UNCHANGED <<lost, logged>>
       ELSE timer' = [timer EXCEPT ![c] = "off"] /\ lost' = lost \cup {c}
            /\ logged' = logged \cup {c}
  /\ UNCHANGED <<Redis, pc, Local, late, old, lapsed>>

\* The answer: a lost lease is logged and renewed no more.
Renewed(c) ==
  /\ pc[c] = "inside" /\ timer[c] \in {"kept", "gone"}
  /\ IF timer[c] = "kept"
       THEN timer' = [timer EXCEPT ![c] = "set"] /\ UNCHANGED <<lost, logged>>
       ELSE timer' = [timer EXCEPT ![c] = "off"] /\ lost' = lost \cup {c}
            /\ logged' = logged \cup {c}
  /\ UNCHANGED <<Redis, pc, Local, late, old, lapsed>>

\* A section past LOCK_HOLD_MAX_MS is hung: it is renewed no more.
StopRenewing(c) ==
  /\ pc[c] = "inside" /\ timer[c] = "due" /\ c \in old
  /\ timer' = [timer EXCEPT ![c] = "off"] /\ logged' = logged \cup {c}
  /\ UNCHANGED <<Redis, pc, Local, late, old, lost, lapsed>>

Inside == {c \in Caller : pc[c] = "inside"}

\* A renewal period passes.  A process in good health answers its timer before the
\* next one; the key lapses when its time is up.
Tick ==
  /\ holder # Nobody \/ \E c \in Inside : timer[c] = "set"
  /\ \A c \in Inside : Home[c] \notin Faulty => timer[c] \in {"off", "set"}
  /\ timer' = [c \in Caller |-> IF c \in Inside /\ timer[c] = "set" THEN "due" ELSE timer[c]]
  /\ IF left <= 1
       THEN holder' = Nobody /\ left' = 0 /\ lapsed' = lapsed \cup ({holder} \cap Inside)
       ELSE holder' = holder /\ left' = left - 1 /\ lapsed' = lapsed
  /\ UNCHANGED <<pc, Local, late, old, lost, logged>>

-----------------------------------------------------------------------------
(* The end of a section, and of a process.                                  *)

\* The section returns or throws: the timer stops, an answer still out is ignored.
End(c) ==
  /\ pc[c] = "inside"
  /\ pc' = [pc EXCEPT ![c] = "releasing"]
  /\ timer' = [timer EXCEPT ![c] = "off"]
  /\ UNCHANGED <<Redis, Local, late, old, lost, lapsed, logged>>

\* Mutant.
ReleaseUnfenced(c) ==
  /\ pc[c] = "releasing"
  /\ Settle(c, "done")
  /\ holder' = Nobody /\ left' = 0 /\ UNCHANGED logged
  /\ UNCHANGED <<old, timer, lost, lapsed>>

\* Mutant.
ReleaseSilent(c) ==
  /\ pc[c] = "releasing"
  /\ Settle(c, "done")
  /\ IF holder = c THEN holder' = Nobody /\ left' = 0 ELSE UNCHANGED Redis
  /\ UNCHANGED <<old, timer, lost, lapsed, logged>>

\* delIfEqual, unless the renewal found the lease lost; a key that is gone is logged.
Release(c) ==
  /\ pc[c] = "releasing"
  /\ Settle(c, "done")
  /\ IF c \in lost
       THEN UNCHANGED <<Redis, logged>>
     ELSE IF holder = c
       THEN holder' = Nobody /\ left' = 0 /\ UNCHANGED logged
     ELSE UNCHANGED Redis /\ logged' = logged \cup {c}
  /\ UNCHANGED <<old, timer, lost, lapsed>>

\* The DEL fails, or its reply is lost and the one sent again finds the key gone.
ReleaseFails(c) ==
  /\ pc[c] = "releasing" /\ Home[c] \in Faulty /\ c \notin lost
  /\ Settle(c, "done") /\ logged' = logged \cup {c}
  /\ \/ UNCHANGED Redis
     \/ holder = c /\ holder' = Nobody /\ left' = 0
  /\ UNCHANGED <<old, timer, lost, lapsed>>

\* The process dies: its sections stop where they are, the key stays until it lapses.
Crash(p) ==
  /\ p \in Faulty
  /\ \E c \in Caller : Home[c] = p /\ pc[c] # "dead"
  /\ pc' = [c \in Caller |-> IF Home[c] = p THEN "dead" ELSE pc[c]]
  /\ timer' = [c \in Caller |-> IF Home[c] = p THEN "off" ELSE timer[c]]
  /\ UNCHANGED <<Redis, Local, late, old, lost, lapsed, logged>>

Step(c) ==
  \/ Call(c) \/ Deadline(c) \/ TakeTurn(c) \/ GiveUp(c) \/ PassOn(c)
  \/ SetTakes(c) \/ SetUnanswered(c) \/ GetOwn(c) \/ Reject(c) \/ CommandFails(c)
  \/ Expire(c) \/ Renew(c) \/ RenewFails(c) \/ Renewed(c) \/ StopRenewing(c)
  \/ End(c) \/ Release(c) \/ ReleaseFails(c)

Next ==
  \/ \E c \in Caller : Step(c)
  \/ \E p \in Process : Crash(p)
  \/ Tick

Spec == Init /\ [][Next]_vars

\* Time passes and a live process runs its callbacks; no section has to end, and no
\* command has to succeed in a faulty process (WF of Renew is met by RenewFails too,
\* which disables it).
Fairness ==
  /\ WF_vars(Tick)
  /\ \A c \in Caller :
       /\ WF_vars(Deadline(c)) /\ WF_vars(Expire(c))
       /\ WF_vars(TakeTurn(c) \/ GiveUp(c)) /\ WF_vars(PassOn(c))
       /\ WF_vars(SetTakes(c) \/ GetOwn(c) \/ Reject(c))
       /\ WF_vars(Renew(c)) /\ WF_vars(Renewed(c)) /\ WF_vars(StopRenewing(c))
       /\ WF_vars(Release(c))

FairSpec == Spec /\ Fairness

-----------------------------------------------------------------------------
(* Properties.                                                              *)

Sections == INSTANCE MatchSections
              WITH Section <- Caller, inside <- Inside, overrun <- lapsed \cap Inside

\* withLock() keeps its promise (MatchSections): a section enters only while every
\* other one inside has lost its lease, and a lost lease is never revived, although
\* commands are sent twice, fail, stall, and processes die.
KeepsPromise == Sections!Spec

\* Of one process, one call at most is past the local queue, also when calls ahead of
\* it gave up and when leases lapsed ("only one of them polls Redis").
LocalExclusion ==
  \A a, b \in Caller :
    a # b /\ Home[a] = Home[b]
      => ~ {pc[a], pc[b]} \subseteq {"trying", "inside", "releasing"}

\* No overlap goes unnoticed: a section whose lease lapsed under it has logged an error
\* by the time its call settles, whichever of renewal and release finds out.
LapsesAreLogged ==
  \A c \in lapsed : pc[c] = "done" => c \in logged

\* In a process in good health a lease lapses only under a section past
\* LOCK_HOLD_MAX_MS, whatever the other processes do.
HealthyKeepsLease ==
  \A c \in lapsed : Home[c] \in Faulty \/ c \in old

\* Every call runs its section or fails, also behind a hung one; and nobody keeps the
\* key for good: not a hung section, not a dead process, not a call that failed after
\* its SET took it.
CallsAreAnswered ==
  \A c \in Caller :
    /\ pc[c] \in {"queued", "trying"} ~> pc[c] \notin {"queued", "trying"}
    /\ holder = c ~> holder # c
=============================================================================
