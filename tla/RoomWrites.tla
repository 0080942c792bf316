----------------------------- MODULE RoomWrites -----------------------------
(***************************************************************************)
(* The locked sections of the match service, write by write                *)
(* (backend/src/match/MatchService.ts over store/RedisStore.ts).            *)
(*                                                                         *)
(* Match.tla takes a section as one step.  Redis does not: a section is a   *)
(* sequence of writes, each one atomic (a command, or a MULTI), and stops   *)
(* between two of them when a command fails or its process dies.  Nothing   *)
(* undoes what it has written, and nothing resumes it: later sections find  *)
(* what is there.                                                          *)
(*                                                                         *)
(* A section holds the lock, so all it reads is what it found and what it   *)
(* wrote itself: its writes are computed when it starts, in `todo`.  The    *)
(* messages it emits are among them.                                       *)
(*                                                                         *)
(* Left out: blocks, bans, caps and photos, and which of the waiting a pass *)
(* pairs (any two, or nobody).                                             *)
(***************************************************************************)
EXTENDS Integers, SequencesExt

CONSTANTS
  Socket, Owner, OwnerOf,   \* sockets, devices, and the device of each socket
  RoomId,
  Eager,                    \* the sockets in instant mode
  MaxFaults,                \* bound: sections that stop half way
  NoSocket, NoRoom

ASSUME RoomWritesAssumption ==
  /\ OwnerOf \in [Socket -> Owner] /\ NoSocket \notin Socket /\ NoRoom \notin RoomId
  /\ IsFiniteSet(Socket)

VARIABLES
  redis,     \* the keys session, waiting, device and room
  todo,      \* the writes the section under the lock still has to make
  wire,      \* wire[s]: "new", "up" or "gone"
  shown,     \* shown[s]: the room the tab of s was told it is in
  faults

writesVars == <<redis, todo, wire, shown, faults>>

Seats == {"none", "idle", "waiting", "pending", "active"}
Taken == {"pending", "active"}

RoomWritesTypeOK ==
  /\ redis \in [seat : [Socket -> Seats], room : [Socket -> RoomId \cup {NoRoom}],
                queue : SUBSET Socket, bound : [Owner -> Socket \cup {NoSocket}],
                phase : [RoomId -> {"gone"} \cup Taken],
                members : [RoomId -> Seq(Socket)], accepted : [RoomId -> SUBSET Socket]]
  /\ wire \in [Socket -> {"new", "up", "gone"}]
  /\ shown \in [Socket -> RoomId \cup {NoRoom}]
  /\ faults \in 0 .. MaxFaults

WritesInit ==
  /\ redis = [seat |-> [s \in Socket |-> "none"], room |-> [s \in Socket |-> NoRoom],
              queue |-> {}, bound |-> [d \in Owner |-> NoSocket],
              phase |-> [r \in RoomId |-> "gone"], members |-> [r \in RoomId |-> <<>>],
              accepted |-> [r \in RoomId |-> {}]]
  /\ todo = <<>>
  /\ wire = [s \in Socket |-> "new"]
  /\ shown = [s \in Socket |-> NoRoom]
  /\ faults = 0

-----------------------------------------------------------------------------
(* The writes.                                                              *)

PutSession(s, seat, r) == [op |-> "putSession", socket |-> s, seat |-> seat, room |-> r]
DeleteSession(s)       == [op |-> "deleteSession", socket |-> s]
SetDeviceSocket(s)     == [op |-> "setDeviceSocket", socket |-> s]
ClearDeviceSocket(s)   == [op |-> "clearDeviceSocket", socket |-> s]
AddWaiting(s)          == [op |-> "addWaiting", socket |-> s]
RemoveWaiting(s)       == [op |-> "removeWaiting", socket |-> s]
PutRoom(r, phase, members, accepted) ==
  [op |-> "putRoom", room |-> r, phase |-> phase, members |-> members, accepted |-> accepted]
DeleteRoom(r)          == [op |-> "deleteRoom", room |-> r]
MatchFound(s, r)       == [op |-> "match:found", socket |-> s, room |-> r]
MatchEnded(s, r)       == [op |-> "match:ended", socket |-> s, room |-> r]
DisconnectSocket(s)    == [op |-> "disconnect", socket |-> s]

\* What is in Redis after a write; messages leave it alone.
After(db, w) ==
  CASE w.op = "putSession" ->
         [db EXCEPT !.seat[w.socket] = w.seat, !.room[w.socket] = w.room]
    [] w.op = "deleteSession" ->
         [db EXCEPT !.seat[w.socket] = "none", !.room[w.socket] = NoRoom]
    [] w.op = "setDeviceSocket" -> [db EXCEPT !.bound[OwnerOf[w.socket]] = w.socket]
    [] w.op = "clearDeviceSocket" ->
         IF db.bound[OwnerOf[w.socket]] = w.socket
         THEN [db EXCEPT !.bound[OwnerOf[w.socket]] = NoSocket] ELSE db
    [] w.op = "addWaiting" -> [db EXCEPT !.queue = @ \cup {w.socket}]
    [] w.op = "removeWaiting" -> [db EXCEPT !.queue = @ \ {w.socket}]
    [] w.op = "putRoom" ->
         [db EXCEPT !.phase[w.room] = w.phase, !.members[w.room] = w.members,
                    !.accepted[w.room] = w.accepted]
    [] w.op = "deleteRoom" ->
         [db EXCEPT !.phase[w.room] = "gone", !.members[w.room] = <<>>,
                    !.accepted[w.room] = {}]
    [] OTHER -> db

AfterAll(db, ws) == FoldLeft(After, db, ws)

\* The members of a room, as the code loops over them.
ForMembers(members, Op(_)) == Op(members[1]) \o Op(members[2])
Other(members, s) == IF members[1] = s THEN members[2] ELSE members[1]

-----------------------------------------------------------------------------
(* The pieces sections are made of: what each writes, finding db.            *)

EnqueueLocked(s) == <<PutSession(s, "waiting", NoRoom), AddWaiting(s)>>

\* Mutant: the room is deleted once its members have left it.
EndRoomLast(db, r, told, idle) ==
  LET Leave(s) ==
        (IF s \in told THEN <<MatchEnded(s, r)>> ELSE <<>>) \o
        (IF s \notin told \/ db.room[s] # r THEN <<>>
         ELSE IF s \in idle THEN <<PutSession(s, "idle", NoRoom)>> ELSE EnqueueLocked(s))
  IN  ForMembers(db.members[r], Leave) \o <<DeleteRoom(r)>>

\* endRoomLocked: the room goes first, then each member hears of it and is put
\* back into the queue, or idle.  `told` hear of it, `idle` is for accept-timeout.
EndRoomLocked(db, r, told, idle) ==
  LET Leave(s) ==
        (IF s \in told THEN <<MatchEnded(s, r)>> ELSE <<>>) \o
        (IF s \notin told \/ db.room[s] # r THEN <<>>
         ELSE IF s \in idle THEN <<PutSession(s, "idle", NoRoom)>> ELSE EnqueueLocked(s))
  IN  <<DeleteRoom(r)>> \o ForMembers(db.members[r], Leave)

RemoveSessionLocked(db, s) ==
  LET r == db.room[s]
      in == r # NoRoom /\ s \in ToSet(db.members[r])
  IN  (IF in THEN EndRoomLocked(db, r, {Other(db.members[r], s)}, {}) ELSE <<>>) \o
      <<RemoveWaiting(s), DeleteSession(s), ClearDeviceSocket(s)>>

ReplaceLocked(db, old) ==
  (IF db.seat[old] = "none" THEN <<>> ELSE RemoveSessionLocked(db, old)) \o <<DisconnectSocket(old)>>

ActivateRoomLocked(db, r) ==
  LET Activate(s) == IF db.room[s] = r THEN <<PutSession(s, "active", r)>> ELSE <<>>
  IN  <<PutRoom(r, "active", db.members[r], db.accepted[r])>> \o ForMembers(db.members[r], Activate)

CreateRoomLocked(db, a, b, r) ==
  LET eager == {a, b} \cap Eager
      Seat(s) == <<PutSession(s, "pending", r), RemoveWaiting(s)>>
      Found(s) == <<MatchFound(s, r)>>
      created == <<PutRoom(r, "pending", <<a, b>>, eager)>>
                 \o ForMembers(<<a, b>>, Seat) \o ForMembers(<<a, b>>, Found)
  IN  IF eager = {a, b} THEN created \o ActivateRoomLocked(AfterAll(db, created), r) ELSE created

\* matchPassLocked drops stale entries of the queue, then pairs two of the rest,
\* or nobody.
MatchPasses(db) ==
  LET waiting == {s \in db.queue : db.seat[s] = "waiting"}
      stale == SetToSeq({RemoveWaiting(s) : s \in db.queue \ waiting})
      free == {r \in RoomId : db.phase[r] = "gone" /\ \A s \in Socket : db.room[s] # r /\ shown[s] # r}
      clean == AfterAll(db, stale)
  IN  {stale} \cup
      {stale \o CreateRoomLocked(clean, p[1], p[2], p[3]) :
         p \in {q \in waiting \X waiting \X free : OwnerOf[q[1]] # OwnerOf[q[2]]}}

\* A section that ends in a match pass.
ThenPass(ws) == {ws \o pass : pass \in MatchPasses(AfterAll(redis, ws))}
-----------------------------------------------------------------------------
(* The sections.                                                            *)

Begins(sections) ==
  /\ todo = <<>>
  /\ todo' \in sections
  /\ UNCHANGED <<redis, shown, faults>>

\* A tab connects, or sends its hello again.
hello(s) ==
  /\ wire[s] # "gone"
  /\ wire' = [wire EXCEPT ![s] = "up"]
  /\ LET previous == redis.bound[OwnerOf[s]]
         fresh == redis.seat[s] = "none"
         replace == IF fresh /\ previous \notin {s, NoSocket}
                    THEN ReplaceLocked(redis, previous) ELSE <<>>
         put == IF fresh THEN <<SetDeviceSocket(s), PutSession(s, "idle", NoRoom)>>
                ELSE <<PutSession(s, redis.seat[s], redis.room[s])>>
     IN  Begins(IF redis.seat[s] \in Taken THEN {put}
                ELSE ThenPass(replace \o put \o EnqueueLocked(s)))

\* A socket closes, with its tab or with its replica.
SocketGoes(s) ==
  /\ wire[s] = "up"
  /\ wire' = [wire EXCEPT ![s] = "gone"]
  /\ UNCHANGED <<redis, todo, shown, faults>>

\* disconnect(), the ghost sweep or the reaping of a dead replica.
removeGone(s) ==
  /\ wire[s] = "gone" /\ redis.seat[s] # "none"
  /\ Begins(ThenPass(RemoveSessionLocked(redis, s)))
  /\ UNCHANGED wire

\* memberRoomLocked: the tab names the room it was shown.
MemberRoomLocked(s, r) ==
  /\ wire[s] = "up" /\ shown[s] = r
  /\ redis.room[s] = r /\ redis.phase[r] # "gone" /\ s \in ToSet(redis.members[r])

accept(s, r) ==
  /\ MemberRoomLocked(s, r)
  /\ redis.phase[r] = "pending" /\ s \notin redis.accepted[r]
  /\ LET both == PutRoom(r, "pending", redis.members[r], redis.accepted[r] \cup {s})
         one == redis.accepted[r] = {}
     IN  Begins({IF one THEN <<both>> ELSE ActivateRoomLocked(After(redis, both), r)})
  /\ UNCHANGED wire

\* decline, skip, report and callFailed end the room for both.
leave(s, r) ==
  /\ MemberRoomLocked(s, r)
  /\ Begins(ThenPass(EndRoomLocked(redis, r, ToSet(redis.members[r]), {})))
  /\ UNCHANGED wire

\* The sweep ends a pending room whose deadline passed: whoever accepted is queued.
expire(r) ==
  /\ redis.phase[r] = "pending"
  /\ LET members == ToSet(redis.members[r])
         late == IF members \subseteq redis.accepted[r] THEN {} ELSE members \ redis.accepted[r]
     IN  Begins(ThenPass(EndRoomLocked(redis, r, members, late)))
  /\ UNCHANGED wire

\* The next write of the section.
Write ==
  /\ todo # <<>>
  /\ LET w == Head(todo)
     IN  /\ redis' = After(redis, w)
         /\ shown' = IF w.op = "match:found" THEN [shown EXCEPT ![w.socket] = w.room]
                     ELSE IF w.op = "match:ended" /\ shown[w.socket] = w.room
                     THEN [shown EXCEPT ![w.socket] = NoRoom] ELSE shown
         /\ wire' = IF w.op = "disconnect" THEN [wire EXCEPT ![w.socket] = "gone"] ELSE wire
  /\ todo' = Tail(todo)
  /\ UNCHANGED faults

\* Redis rejects the next write, or the process dies: the rest is never done.
Interrupt ==
  /\ todo # <<>> /\ faults < MaxFaults
  /\ todo' = <<>>
  /\ faults' = faults + 1
  /\ UNCHANGED <<redis, wire, shown>>

WritesNext ==
  \/ \E s \in Socket : hello(s) \/ SocketGoes(s) \/ removeGone(s)
  \/ \E s \in Socket, r \in RoomId : accept(s, r) \/ leave(s, r)
  \/ \E r \in RoomId : expire(r)
  \/ Write \/ Interrupt
-----------------------------------------------------------------------------
(* Fairness: the section goes on, sweeps come back.                          *)

WritesFairness ==
  /\ WF_writesVars(Write)
  /\ \A s \in Socket : WF_writesVars(removeGone(s))
  /\ \A r \in RoomId : WF_writesVars(expire(r))

-----------------------------------------------------------------------------
(* Properties.                                                              *)

\* A call is never live for one of its two alone: while its room is active, both
\* sessions are in it, wherever a section stopped.  It rests on the order of the
\* writes: endRoomLocked deletes the room before anybody leaves it
\* (MatchService.ts:1021), createRoomLocked seats both before anybody hears of it.
CallsAreWhole ==
  \A r \in RoomId : redis.phase[r] = "active" =>
    \A s \in ToSet(redis.members[r]) : redis.room[s] = r /\ redis.seat[s] \in Taken

\* "The next sweep on a live replica reaps its sessions and re-queues partners"
\* (docs/ARCHITECTURE.md:520): nobody whose socket is open stays in a room that is
\* gone.  The code does not keep it: see the run stranded.
Stranded(s) == wire[s] = "up" /\ redis.room[s] # NoRoom /\ redis.phase[redis.room[s]] = "gone"
PartnersAreRequeued == \A s \in Socket : Stranded(s) ~> ~Stranded(s)

=============================================================================
