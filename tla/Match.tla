------------------------------- MODULE Match -------------------------------
(***************************************************************************)
(* Matchmaking and the call lifecycle of the backend                       *)
(* (backend/src/match/MatchService.ts), over the state every replica       *)
(* shares through the match store (backend/src/store).                     *)
(*                                                                         *)
(* A step is one section run under store.withLock(), or one thing that     *)
(* happens outside it: a check before the lock, a socket opening or        *)
(* closing, a heartbeat, a replica dying.  What a handler reads before it  *)
(* waits for the lock is kept in helloing, reporting, restricting and      *)
(* starting until its locked section runs.                                 *)
(*                                                                         *)
(* Definitions marked "Mutant" are the bugs the runs are shown to detect; the *)
(* specification does not use them.                                        *)
(*                                                                         *)
(* Data the properties do not tell apart is left out: profiles, photos,    *)
(* coins, chat.  isCompatible and meetsPreferences are the constant Apart; *)
(* the relax ladder, the dirty marks and the recheck slices are the free   *)
(* choice of what a sweep's pass looks at.  The lock itself is MatchLock.  *)
(***************************************************************************)
EXTENDS FiniteSets

CONSTANTS
  Socket,        \* socket ids; Socket.IO never reuses one
  Device,        \* device ids
  Instance,      \* backend replicas; a restarted process has a new id
  Room,          \* room ids; one is reused once nothing refers to it
  DeviceOf,      \* DeviceOf[s]: the device that says hello on s
  HomeOf,        \* HomeOf[s]: the replica that holds the connection s
  Instant,       \* the sockets in instant mode
  Apart,         \* the socket pairs the filters keep apart
  Caps,          \* the device sets the queue gate may refuse to re-queue
  Crashing,      \* the replicas that may crash
  Draining,      \* the replicas that may be shut down
  Lapsing,       \* the replicas whose heartbeat may lapse while they run
  Env,           \* what else may happen: "refuse", "closed", "lockFails", "report",
                 \* "restrict", "graceOver"
  NoSocket, NoRoom

ASSUME ConstantsOK ==
  /\ DeviceOf \in [Socket -> Device]
  /\ HomeOf \in [Socket -> Instance]
  /\ Instant \subseteq Socket
  /\ Crashing \cup Draining \cup Lapsing \subseteq Instance
  /\ Caps \subseteq SUBSET Device
  /\ NoSocket \notin Socket
  /\ NoRoom \notin Room

VARIABLES
  store,        \* what the match store holds
  conn,         \* conn[s]: "new", "up", "kicked" (disconnect ordered), "down"
  local,        \* sockets with an entry in their replica's `local` map
  orphaned,     \* those whose entry a sweep flagged as orphaned
  proc,         \* proc[i]: "up", "stopping", "closing", "down"
  helloing,     \* sockets whose hello passed its checks and waits for the lock
  cleanup,      \* closed sockets whose disconnect handler waits for the lock
  reporting,    \* reports admitted, whose locked section has not run
  reported,     \* <<room, device>>: who already reported which room
  restricting,  \* <<replica, device>>: restrictions whose locked section waits
  starting,     \* <<replica, room>>: startCall waits for TURN credentials
  started,      \* rooms whose call:start went out
  deadline,     \* deadline[r]: accept window "open", at its "edge", or "late"
  spared        \* history: sessions still in the room that a failed restriction left them in

vars == <<store, conn, local, orphaned, proc, helloing, cleanup, reporting,
          reported, restricting, starting, started, deadline, spared>>

States == {"none", "idle", "waiting", "pending", "active"}
Phases == {"free", "pending", "active", "ended"}
Live   == {"pending", "active"}

Report == [by : Socket, room : Room, pair : SUBSET Device]

Store == [state    : [Socket -> States],
          room     : [Socket -> Room \cup {NoRoom}],
          queue    : SUBSET Socket,
          device   : [Device -> Socket \cup {NoSocket}],
          phase    : [Room -> Phases],
          members  : [Room -> SUBSET Socket],
          accepted : [Room -> SUBSET Socket],
          blocked  : SUBSET SUBSET Device,
          banned   : SUBSET Device,
          known    : SUBSET Instance,
          beating  : SUBSET Instance]

TypeOK ==
  /\ store \in Store
  /\ conn \in [Socket -> {"new", "up", "kicked", "down"}]
  /\ local \subseteq Socket
  /\ orphaned \subseteq Socket
  /\ proc \in [Instance -> {"up", "stopping", "closing", "down"}]
  /\ helloing \subseteq Socket
  /\ cleanup \subseteq Socket
  /\ reporting \subseteq Report
  /\ reported \subseteq Room \X Device
  /\ restricting \subseteq Instance \X Device
  /\ starting \subseteq Instance \X Room
  /\ started \subseteq Room
  /\ deadline \in [Room -> {"open", "edge", "late"}]
  /\ spared \subseteq Socket

Init ==
  /\ store = [state    |-> [s \in Socket |-> "none"],
              room     |-> [s \in Socket |-> NoRoom],
              queue    |-> {},
              device   |-> [d \in Device |-> NoSocket],
              phase    |-> [r \in Room |-> "free"],
              members  |-> [r \in Room |-> {}],
              accepted |-> [r \in Room |-> {}],
              blocked  |-> {},
              banned   |-> {},
              known    |-> Instance,
              beating  |-> Instance]
  /\ conn = [s \in Socket |-> "new"]
  /\ local = {} /\ orphaned = {}
  /\ proc = [i \in Instance |-> "up"]
  /\ helloing = {} /\ cleanup = {}
  /\ reporting = {} /\ reported = {}
  /\ restricting = {} /\ starting = {} /\ started = {}
  /\ deadline = [r \in Room |-> "open"]
  /\ spared = {}

-----------------------------------------------------------------------------
(* What the `...Locked` methods do to the store, as functions of its value. *)

Devices(S) == {DeviceOf[s] : s \in S}

\* memberRoomLocked: the room of s, when it exists and s is in it.
InRoom(w, s) ==
  /\ w.state[s] # "none"
  /\ w.room[s] # NoRoom
  /\ w.phase[w.room[s]] \in Live
  /\ s \in w.members[w.room[s]]

\* Mutant.
EnqueueUnlisted(w, S) ==
  [w EXCEPT !.state = [s \in Socket |-> IF s \in S THEN "waiting" ELSE w.state[s]],
            !.room  = [s \in Socket |-> IF s \in S THEN NoRoom ELSE w.room[s]]]

Enqueue(w, S) ==
  [w EXCEPT !.state = [s \in Socket |-> IF s \in S THEN "waiting" ELSE w.state[s]],
            !.room  = [s \in Socket |-> IF s \in S THEN NoRoom ELSE w.room[s]],
            !.queue = w.queue \cup S]

\* noteRoomEnded: with the enforcement service, the ended room stays known (and its id
\* taken) for late reports.
EndedPhase == IF "report" \in Env THEN "ended" ELSE "free"

\* The rooms R end.  Of their members, those in `told` get match:ended; they are
\* re-queued unless they never accepted (late), are capped or are banned.
EndRooms(w, R, told, late, capped) ==
  LET here == {s \in told : w.room[s] \in R /\ s \in w.members[w.room[s]]}
      back == {s \in here \ late : DeviceOf[s] \notin capped \cup w.banned}
      over == [w EXCEPT
                 !.phase = [r \in Room |-> IF r \in R THEN EndedPhase ELSE w.phase[r]],
                 !.members = [r \in Room |-> IF r \in R /\ EndedPhase = "free"
                                               THEN {} ELSE w.members[r]],
                 !.accepted = [r \in Room |-> IF r \in R THEN {} ELSE w.accepted[r]],
                 !.state = [s \in Socket |-> IF s \in here THEN "idle" ELSE w.state[s]],
                 !.room  = [s \in Socket |-> IF s \in here THEN NoRoom ELSE w.room[s]]]
  IN Enqueue(over, back)

\* Mutant.
RemoveSessionsQuietly(w, S, capped) ==
  [w EXCEPT !.state  = [s \in Socket |-> IF s \in S THEN "none" ELSE w.state[s]],
            !.room   = [s \in Socket |-> IF s \in S THEN NoRoom ELSE w.room[s]],
            !.queue  = w.queue \ S,
            !.device = [d \in Device |-> IF w.device[d] \in S THEN NoSocket ELSE w.device[d]]]

\* The sessions S are deleted, each after its room ended for the partner.
RemoveSessions(w, S, capped) ==
  LET e == EndRooms(w, {w.room[s] : s \in {x \in S : InRoom(w, x)}}, Socket \ S, {}, capped)
  IN [e EXCEPT
        !.state  = [s \in Socket |-> IF s \in S THEN "none" ELSE e.state[s]],
        !.room   = [s \in Socket |-> IF s \in S THEN NoRoom ELSE e.room[s]],
        !.queue  = e.queue \ S,
        !.device = [d \in Device |-> IF e.device[d] \in S THEN NoSocket ELSE e.device[d]]]

BlockPair(w, pair) == [w EXCEPT !.blocked = w.blocked \cup {pair}]

\* Both sides accepted: the room and the sessions that are still in it go active.
Activate(w, R) ==
  [w EXCEPT !.phase = [r \in Room |-> IF r \in R THEN "active" ELSE w.phase[r]],
            !.state = [s \in Socket |-> IF w.room[s] \in R /\ w.state[s] # "none"
                                          THEN "active" ELSE w.state[s]]]

-----------------------------------------------------------------------------
(* The match pass.                                                          *)

\* Mutant.
MatchableBlocked(w, a, b) ==
  /\ a # b
  /\ w.state[a] = "waiting" /\ w.state[b] = "waiting"
  /\ DeviceOf[a] # DeviceOf[b]
  /\ DeviceOf[a] \notin w.banned /\ DeviceOf[b] \notin w.banned

\* Mutant.
MatchableBanned(w, a, b) ==
  /\ a # b
  /\ w.state[a] = "waiting" /\ w.state[b] = "waiting"
  /\ DeviceOf[a] # DeviceOf[b]
  /\ {DeviceOf[a], DeviceOf[b]} \notin w.blocked

Matchable(w, a, b) ==
  /\ a # b
  /\ w.state[a] = "waiting" /\ w.state[b] = "waiting"
  /\ DeviceOf[a] # DeviceOf[b]
  /\ {a, b} \notin Apart
  /\ DeviceOf[a] \notin w.banned /\ DeviceOf[b] \notin w.banned
  /\ {DeviceOf[a], DeviceOf[b]} \notin w.blocked

Candidates(w, focus) ==
  {{x[1], x[2]} : x \in {y \in (focus \cap w.queue) \X w.queue : Matchable(w, y[1], y[2])}}

\* A first-come pass over any queue order leaves disjoint pairs that no further
\* candidate can be added to; which order the queue has is left open.
\* With the queue closed (kill switch, staffed hours) it matches nobody.
IsPass(M, w, focus) ==
  /\ M \subseteq Candidates(w, focus)
  /\ \A p, q \in M : p # q => p \cap q = {}
  /\ \/ \A c \in Candidates(w, focus) : \E p \in M : p \cap c # {}
     \/ "closed" \in Env /\ M = {}

\* Mutant.
EitherInstant(M) == {p \in M : p \cap Instant # {}}

\* Instant-mode sides are accepted by the server: two of them start the call at once.
BothInstant(M) == {p \in M : p \subseteq Instant}

\* createRoomLocked for each pair p of M, in the room id[p].
CreateRooms(w, M, id) ==
  LET new == {id[p] : p \in M}
      of(r) == CHOOSE p \in M : id[p] = r
      inst == {id[p] : p \in BothInstant(M)}
      pended == [w EXCEPT
        !.state = [s \in Socket |-> IF s \in UNION M THEN "pending" ELSE w.state[s]],
        !.room  = [s \in Socket |-> IF s \in UNION M
                                      THEN id[CHOOSE p \in M : s \in p] ELSE w.room[s]],
        !.queue = {s \in w.queue \ UNION M : w.state[s] = "waiting"},
        !.phase = [r \in Room |-> IF r \in new THEN "pending" ELSE w.phase[r]],
        !.members = [r \in Room |-> IF r \in new THEN of(r) ELSE w.members[r]],
        !.accepted = [r \in Room |-> IF r \in new THEN of(r) \cap Instant ELSE w.accepted[r]]]
  IN Activate(pended, inst)

\* A new room's id is one that nothing in the store or in flight refers to.
FreeRooms(w) ==
  {r \in Room : /\ w.phase[r] = "free"
                /\ \A i \in Instance : <<i, r>> \notin starting
                /\ \A x \in reporting : x.room # r}

\* The end of a locked section on replica i: the pass over w, focused on the
\* sockets the section queued and on `extra`, then the store is left as it is.
MatchPass(i, w, extra) ==
  LET focus == (w.queue \ store.queue) \cup extra IN
  \E M \in SUBSET Candidates(w, focus) :
    /\ IsPass(M, w, focus)
    /\ \E id \in [M -> FreeRooms(w)] :
         /\ \A p, q \in M : id[p] = id[q] => p = q
         /\ store' = CreateRooms(w, M, id)
         /\ starting' = starting \cup {<<i, id[p]>> : p \in BothInstant(M)}
         /\ deadline' = [r \in Room |-> IF r \in {id[p] : p \in M} \/ w.phase[r] # "pending"
                                          THEN "open" ELSE deadline[r]]
  /\ started' = {r \in started : w.phase[r] = "active"}
  /\ spared' = {s \in spared : InRoom(w, s)}

\* A step that writes nothing but the store.
StoreOnly == UNCHANGED <<conn, local, orphaned, proc, helloing, cleanup, reporting, reported,
                         restricting, starting, started, deadline, spared>>

-----------------------------------------------------------------------------
(* Sockets and hello.                                                       *)

Running(i) == proc[i] # "down"

Connect(s) ==
  /\ conn[s] = "new" /\ proc[HomeOf[s]] = "up"
  /\ conn' = [conn EXCEPT ![s] = "up"]
  /\ UNCHANGED <<store, local, orphaned, proc, helloing, cleanup, reporting, reported,
                 restricting, starting, started, deadline, spared>>

\* hello() up to its withLock(): a stopping server and a banned device are refused.
HelloCheck(s) ==
  /\ conn[s] \in {"up", "kicked"} /\ s \notin helloing
  /\ proc[HomeOf[s]] = "up"
  /\ DeviceOf[s] \notin store.banned
  /\ helloing' = helloing \cup {s}
  /\ UNCHANGED <<store, conn, local, orphaned, proc, cleanup, reporting, reported,
                 restricting, starting, started, deadline, spared>>

\* The socket closed meanwhile, or the gate or the accept cooldown refuses a session
\* that would join the queue.
HelloRefused(s) ==
  /\ s \in helloing
  /\ \/ conn[s] = "down"
     \/ store.state[s] \in {"none", "idle"} /\ "refuse" \in Env
  /\ helloing' = helloing \ {s}
  /\ UNCHANGED <<store, conn, local, orphaned, proc, cleanup, reporting, reported,
                 restricting, starting, started, deadline, spared>>

\* A session in a room keeps its place.
HelloKeeps(s) ==
  /\ s \in helloing /\ conn[s] # "down"
  /\ store.state[s] \in Live
  /\ helloing' = helloing \ {s}
  /\ local' = local \cup {s}
  /\ UNCHANGED <<store, conn, orphaned, proc, cleanup, reporting, reported,
                 restricting, starting, started, deadline, spared>>

\* Disconnecting a socket of the same replica closes it at once; the order to
\* another replica travels through the adapter.
Disconnected(S, i) ==
  /\ conn' = [s \in Socket |-> IF s \in S /\ conn[s] # "down"
                                 THEN IF HomeOf[s] = i THEN "down" ELSE "kicked"
                                 ELSE conn[s]]
  /\ cleanup' = cleanup \cup {s \in S : HomeOf[s] = i /\ conn[s] # "down"}

\* Mutant.
ReplacedHere(s) ==
  {o \in {store.device[DeviceOf[s]]} \ {NoSocket, s} : HomeOf[o] = HomeOf[s]}

\* The socket a first hello of s replaces: the one its device is bound to.
Replaced(s) == {store.device[DeviceOf[s]]} \ {NoSocket, s}

\* A first hello replaces the device's previous socket; an idle or waiting
\* session is (re)queued; then the pass runs.
HelloLocked(s) ==
  /\ s \in helloing /\ conn[s] # "down"
  /\ store.state[s] \in {"none", "idle", "waiting"}
  /\ helloing' = helloing \ {s}
  /\ LET first == store.state[s] = "none"
         old   == IF first THEN Replaced(s) ELSE {}
     IN \E capped \in Caps :
        LET w     == RemoveSessions(store, old, capped)
            bound == IF first THEN [w EXCEPT !.device[DeviceOf[s]] = s] ELSE w
        IN /\ MatchPass(HomeOf[s], Enqueue(bound, {s}), {s})
           /\ Disconnected(old, HomeOf[s])
           /\ local' = (local \ {o \in old : HomeOf[o] = HomeOf[s]}) \cup {s}
           /\ orphaned' = orphaned \ {o \in old : HomeOf[o] = HomeOf[s]}
  /\ UNCHANGED <<proc, reporting, reported, restricting>>

\* The transport closes: the client left, a server disconnect arrives, or io.close().
Disconnect(s) ==
  /\ conn[s] \in {"up", "kicked"} /\ Running(HomeOf[s])
  /\ conn' = [conn EXCEPT ![s] = "down"]
  /\ cleanup' = cleanup \cup {s}
  /\ local' = local \ {s} /\ orphaned' = orphaned \ {s}
  /\ UNCHANGED <<store, proc, helloing, reporting, reported, restricting, starting,
                 started, deadline, spared>>

\* disconnect() under the lock.
DisconnectLocked(s) ==
  /\ s \in cleanup
  /\ cleanup' = cleanup \ {s}
  /\ local' = local \ {s} /\ orphaned' = orphaned \ {s}
  /\ IF store.state[s] = "none"
       THEN UNCHANGED <<store, starting, started, deadline, spared>>
       ELSE \E capped \in Caps :
              MatchPass(HomeOf[s], RemoveSessions(store, {s}, capped), {})
  /\ UNCHANGED <<conn, proc, helloing, reporting, reported, restricting>>

\* disconnect() gives up waiting for the lock, or Redis fails it; nothing retries it.
DisconnectFails(s) ==
  /\ s \in cleanup /\ "lockFails" \in Env
  /\ cleanup' = cleanup \ {s}
  /\ UNCHANGED <<store, conn, local, orphaned, proc, helloing, reporting, reported,
                 restricting, starting, started, deadline, spared>>

\* Mutant.
TickOrphansForever(s) ==
  /\ s \in local /\ proc[HomeOf[s]] = "up"
  /\ orphaned' = IF store.state[s] = "none" /\ s \notin orphaned
                   THEN orphaned \cup {s} ELSE orphaned \ {s}
  /\ UNCHANGED <<store, conn, local, proc, helloing, cleanup, reporting, reported,
                 restricting, starting, started, deadline, spared>>

\* A local socket whose session is gone is flagged by one sweep and dropped by the next.
TickOrphans(s) ==
  /\ s \in local /\ proc[HomeOf[s]] = "up"
  /\ IF store.state[s] # "none"
       THEN s \in orphaned /\ orphaned' = orphaned \ {s} /\ UNCHANGED <<local, conn, cleanup>>
     ELSE IF s \notin orphaned
       THEN orphaned' = orphaned \cup {s} /\ UNCHANGED <<local, conn, cleanup>>
     ELSE /\ local' = local \ {s} /\ orphaned' = orphaned \ {s}
          /\ Disconnected({s}, HomeOf[s])
  /\ UNCHANGED <<store, proc, helloing, reporting, reported, restricting, starting,
                 started, deadline, spared>>

-----------------------------------------------------------------------------
(* Accept, call:start, and the ways a member ends a room.                   *)

RoomStep == UNCHANGED <<conn, local, orphaned, proc, helloing, cleanup, reporting,
                        reported, restricting>>

\* The accept window runs out: at the deadline plus grace (edge) an accept and
\* the sweeper both still see the room as theirs; after it (late) only the sweeper.
PassDeadline(r) ==
  /\ store.phase[r] = "pending" /\ deadline[r] # "late"
  /\ deadline' = [deadline EXCEPT ![r] = IF @ = "open" THEN "edge" ELSE "late"]
  /\ UNCHANGED <<store, conn, local, orphaned, proc, helloing, cleanup, reporting,
                 reported, restricting, starting, started, spared>>

Accept(s) ==
  LET r == store.room[s]
      w == [store EXCEPT !.accepted[r] = @ \cup {s}]
  IN /\ Running(HomeOf[s]) /\ InRoom(store, s)
     /\ store.phase[r] = "pending" /\ deadline[r] # "late"
     /\ s \notin store.accepted[r]
     /\ IF w.accepted[r] = w.members[r]
          THEN /\ store' = Activate(w, {r}) /\ starting' = starting \cup {<<HomeOf[s], r>>}
               /\ deadline' = [deadline EXCEPT ![r] = "open"]
          ELSE store' = w /\ UNCHANGED <<starting, deadline>>
     /\ UNCHANGED <<started, spared>> /\ RoomStep

\* Mutant: it tries again for as long as the call runs.
StartCallRetried(i, r) ==
  /\ <<i, r>> \in starting
  /\ starting' = IF store.phase[r] = "active" THEN starting ELSE starting \ {<<i, r>>}
  /\ started' = IF store.phase[r] = "active" THEN started \cup {r} ELSE started
  /\ UNCHANGED <<store, conn, local, orphaned, proc, helloing, cleanup, reporting,
                 reported, restricting, deadline, spared>>

\* startCall after callMedia: under the lock, call:start only if the room is still active.
StartCall(i, r) ==
  /\ <<i, r>> \in starting
  /\ starting' = starting \ {<<i, r>>}
  /\ started' = IF store.phase[r] = "active" THEN started \cup {r} ELSE started
  /\ UNCHANGED <<store, conn, local, orphaned, proc, helloing, cleanup, reporting,
                 reported, restricting, deadline, spared>>

\* A stopped replica drops it, and so does a failure (no credentials, no lock).
StartCallDropped(i, r) ==
  /\ <<i, r>> \in starting
  /\ proc[i] # "up" \/ "lockFails" \in Env
  /\ starting' = starting \ {<<i, r>>}
  /\ UNCHANGED <<store, conn, local, orphaned, proc, helloing, cleanup, reporting,
                 reported, restricting, started, deadline, spared>>

\* The pair is blocked, the room ends for both, and the pass runs.
BlockAndEnd(s) ==
  LET r == store.room[s] IN
  \E capped \in Caps :
    MatchPass(HomeOf[s],
              EndRooms(BlockPair(store, Devices(store.members[r])), {r}, Socket, {}, capped), {})

Decline(s) ==
  /\ Running(HomeOf[s]) /\ InRoom(store, s) /\ store.phase[store.room[s]] = "pending"
  /\ BlockAndEnd(s) /\ RoomStep

Skip(s) ==
  /\ Running(HomeOf[s]) /\ InRoom(store, s)
  /\ BlockAndEnd(s) /\ RoomStep

CallFailed(s) ==
  /\ Running(HomeOf[s]) /\ InRoom(store, s) /\ store.phase[store.room[s]] = "active"
  /\ BlockAndEnd(s) /\ RoomStep

\* session:preferences of a waiting session marks it for the pass.
UpdatePreferences(s) ==
  /\ Running(HomeOf[s]) /\ store.state[s] = "waiting"
  /\ MatchPass(HomeOf[s], store, {s}) /\ RoomStep

\* A block lapses.
Unblock(pair) ==
  /\ pair \in store.blocked
  /\ store' = [store EXCEPT !.blocked = @ \ {pair}]
  /\ StoreOnly

\* The record of an ended room lapses, and with it who already reported the room.
Forget(r) ==
  /\ store.phase[r] = "ended"
  /\ store' = [store EXCEPT !.phase[r] = "free", !.members[r] = {}]
  /\ reported' = {x \in reported : x[1] # r}
  /\ UNCHANGED <<conn, local, orphaned, proc, helloing, cleanup, reporting, restricting,
                 starting, started, deadline, spared>>

-----------------------------------------------------------------------------
(* Reports and restrictions: checked or stored first, locked section later.  *)

\* reportTarget and admitReport: the live room, or an ended one the device was in,
\* once per room and reporting device.
ReportCheck(s, r) ==
  /\ "report" \in Env /\ Running(HomeOf[s]) /\ store.state[s] # "none"
  /\ \/ InRoom(store, s) /\ store.room[s] = r
     \/ store.phase[r] = "ended" /\ DeviceOf[s] \in Devices(store.members[r])
  /\ <<r, DeviceOf[s]>> \notin reported
  /\ reported' = reported \cup {<<r, DeviceOf[s]>>}
  /\ reporting' = reporting \cup {[by |-> s, room |-> r, pair |-> Devices(store.members[r])]}
  /\ UNCHANGED <<store, conn, local, orphaned, proc, helloing, cleanup, restricting,
                 starting, started, deadline, spared>>

\* The pair is blocked; the room ends only if the reporter is still in it.
ReportLocked(x) ==
  /\ x \in reporting
  /\ reporting' = reporting \ {x}
  /\ IF InRoom(store, x.by) /\ store.room[x.by] = x.room
       THEN BlockAndEnd(x.by)
       ELSE store' = BlockPair(store, x.pair) /\ UNCHANGED <<starting, started, deadline, spared>>
  /\ UNCHANGED <<conn, local, orphaned, proc, helloing, cleanup, reported, restricting>>

\* restrictionApplied mirrors the ban before it waits for the lock.
Restrict(i, d) ==
  /\ "restrict" \in Env /\ Running(i)
  /\ store' = [store EXCEPT !.banned = @ \cup {d}]
  /\ restricting' = restricting \cup {<<i, d>>}
  /\ UNCHANGED <<conn, local, orphaned, proc, helloing, cleanup, reporting, reported,
                 starting, started, deadline, spared>>

\* Its locked section: the device's room ends, its session goes idle, then the pass.
RestrictLocked(i, d) ==
  LET s == store.device[d] IN
  /\ <<i, d>> \in restricting
  /\ restricting' = restricting \ {<<i, d>>}
  /\ IF s = NoSocket \/ store.state[s] = "none"
       THEN UNCHANGED <<store, starting, started, deadline, spared>>
       ELSE \E capped \in Caps :
              LET e == IF InRoom(store, s)
                         THEN EndRooms(store, {store.room[s]}, Socket, {}, capped) ELSE store
              IN MatchPass(i, [e EXCEPT !.state[s] = "idle", !.room[s] = NoRoom,
                                        !.queue = @ \ {s}], {})
  /\ UNCHANGED <<conn, local, orphaned, proc, helloing, cleanup, reporting, reported>>

\* The sessions in a room whose device is one of D.
InRoomOf(D) == {s \in Socket : DeviceOf[s] \in D /\ InRoom(store, s)}

\* The section is not entered (no lock in time, or Redis fails): restrictionApplied
\* rejects, nothing tries it again, and the device stays in the room it is in.
RestrictFails(i, d) ==
  /\ <<i, d>> \in restricting /\ "lockFails" \in Env
  /\ restricting' = restricting \ {<<i, d>>}
  /\ spared' = spared \cup InRoomOf({d})
  /\ UNCHANGED <<store, conn, local, orphaned, proc, helloing, cleanup, reporting, reported,
                 starting, started, deadline>>

\* The ban lapses, or restrictionLifted clears it.
Lift(d) ==
  /\ d \in store.banned
  /\ store' = [store EXCEPT !.banned = @ \ {d}]
  /\ StoreOnly

-----------------------------------------------------------------------------
(* The sweeper, heartbeats, shutdown and crashes.                           *)

\* listInstanceSessions: the sessions made on the replicas I.
SessionsOf(I) == {s \in Socket : HomeOf[s] \in I /\ store.state[s] # "none"}

\* Mutant.
KnownGhosts(i) == {s \in local : HomeOf[s] = i /\ conn[s] = "down"}

\* The sockets removeGhostSessionsLocked finds gone on replica i.
Ghosts(i) == {s \in Socket : HomeOf[s] = i /\ conn[s] = "down"}

\* Mutant.
UnansweredRooms(w) ==
  {r \in Room : w.phase[r] = "pending" /\ deadline[r] # "open" /\ w.accepted[r] = {}}

\* listExpiredPendingRooms.
Expired(w) == {r \in Room : w.phase[r] = "pending" /\ deadline[r] # "open"}

\* Pending rooms past their deadline plus grace end; the pair is blocked for a while.
ExpireRooms(w, capped) ==
  LET due  == Expired(w)
      late == {s \in Socket : w.room[s] \in due /\ s \notin w.accepted[w.room[s]]}
  IN EndRooms([w EXCEPT !.blocked = @ \cup {Devices(w.members[r]) : r \in due}],
              due, Socket, late, capped)

\* One sweep under the lock: reap, ghosts and expired rooms, then a pass that also
\* focuses what the sweep marks (lapsed blocks, ladder steps, a recheck slice).
\* Reaping and ghosts come only every heartbeatIntervalMs (reap).
Sweep(i, reap) ==
  /\ proc[i] = "up"
  /\ \E extra \in SUBSET store.queue, capped \in Caps :
       LET dead  == IF reap THEN (store.known \ store.beating) \ {i} ELSE {}
           ghost == IF reap THEN Ghosts(i) ELSE {}
           gone  == SessionsOf(dead) \cup (SessionsOf({i}) \cap ghost)
       IN /\ \E w \in {[RemoveSessions(store, gone, capped) EXCEPT !.known = @ \ dead]} :
             \E e \in {ExpireRooms(w, capped)} : MatchPass(i, e, extra)
          /\ local' = local \ ghost /\ orphaned' = orphaned \ ghost
  /\ UNCHANGED <<conn, proc, helloing, cleanup, reporting, reported, restricting>>

\* The heartbeat key expires: the replica stopped or died, or (an outage, a stall) not.
Lapse(i) ==
  /\ i \in store.beating
  /\ proc[i] # "up" \/ i \in Lapsing
  /\ store' = [store EXCEPT !.beating = @ \ {i}]
  /\ StoreOnly

Beat(i) ==
  /\ proc[i] = "up" /\ i \notin store.beating
  /\ store' = [store EXCEPT !.beating = @ \cup {i}, !.known = @ \cup {i}]
  /\ StoreOnly

At(i) == {s \in Socket : HomeOf[s] = i}

\* The process ends: connections close unannounced and everything in flight is lost.
Die(i) ==
  /\ proc' = [proc EXCEPT ![i] = "down"]
  /\ conn' = [s \in Socket |-> IF s \in At(i) THEN "down" ELSE conn[s]]
  /\ local' = local \ At(i) /\ orphaned' = orphaned \ At(i)
  /\ helloing' = helloing \ At(i) /\ cleanup' = cleanup \ At(i)
  /\ reporting' = {x \in reporting : x.by \notin At(i)}
  /\ restricting' = {x \in restricting : x[1] # i}
  /\ starting' = {x \in starting : x[1] # i}
  /\ spared' = spared \cup InRoomOf({d \in Device : <<i, d>> \in restricting})
  /\ UNCHANGED <<store, reported, started, deadline>>

Crash(i) == i \in Crashing /\ Running(i) /\ Die(i)

\* shutdown(): new hellos are refused and the sweeper stops...
Stop(i) ==
  /\ i \in Draining /\ proc[i] = "up"
  /\ proc' = [proc EXCEPT ![i] = "stopping"]
  /\ UNCHANGED <<store, conn, local, orphaned, helloing, cleanup, reporting, reported,
                 restricting, starting, started, deadline, spared>>

\* ...then one locked section removes the replica's sessions and forgets it.
ShutdownLocked(i) ==
  /\ proc[i] = "stopping"
  /\ proc' = [proc EXCEPT ![i] = "closing"]
  /\ local' = local \ At(i) /\ orphaned' = orphaned \ At(i)
  /\ \E capped \in Caps :
       LET w == RemoveSessions(store, SessionsOf({i}), capped)
       IN MatchPass(i, [w EXCEPT !.known = @ \ {i}, !.beating = @ \ {i}], {})
  /\ UNCHANGED <<conn, helloing, cleanup, reporting, reported, restricting>>

\* The section fails: the error is logged and close() goes on; peers will reap.
ShutdownFails(i) ==
  /\ proc[i] = "stopping" /\ "lockFails" \in Env
  /\ proc' = [proc EXCEPT ![i] = "closing"]
  /\ UNCHANGED <<store, conn, local, orphaned, helloing, cleanup, reporting, reported,
                 restricting, starting, started, deadline, spared>>

\* server.close() ends once io.close() dropped every socket and no handler runs;
\* past shutdownGraceMs the process exits anyway.
Exit(i) ==
  /\ proc[i] = "closing"
  /\ \/ \A s \in At(i) : conn[s] \notin {"up", "kicked"} /\ s \notin helloing \cup cleanup
     \/ "graceOver" \in Env
  /\ Die(i)

-----------------------------------------------------------------------------

SocketStep(s) ==
  \/ Connect(s) \/ HelloCheck(s) \/ HelloRefused(s) \/ HelloKeeps(s) \/ HelloLocked(s)
  \/ Disconnect(s) \/ DisconnectLocked(s) \/ DisconnectFails(s) \/ TickOrphans(s)
  \/ Accept(s) \/ Decline(s) \/ Skip(s) \/ CallFailed(s) \/ UpdatePreferences(s)
  \/ \E r \in Room : ReportCheck(s, r)

RoomLapse(r) == PassDeadline(r) \/ Forget(r)

InstanceStep(i) ==
  \/ \E reap \in BOOLEAN : Sweep(i, reap)
  \/ Lapse(i) \/ Beat(i) \/ Crash(i) \/ Stop(i) \/ ShutdownLocked(i)
  \/ ShutdownFails(i) \/ Exit(i)
  \/ \E r \in Room : StartCall(i, r) \/ StartCallDropped(i, r)
  \/ \E d \in Device : Restrict(i, d) \/ RestrictLocked(i, d) \/ RestrictFails(i, d)

Next ==
  \/ \E s \in Socket : SocketStep(s)
  \/ \E r \in Room : RoomLapse(r)
  \/ \E i \in Instance : InstanceStep(i)
  \/ \E x \in reporting : ReportLocked(x)
  \/ \E pair \in store.blocked : Unblock(pair)
  \/ \E d \in Device : Lift(d)

Spec == Init /\ [][Next]_vars

\* What the scheduling guarantees: a live replica's sweep timer keeps firing and ticks
\* its sockets, clocks pass deadlines, a startCall settles, and a dead replica's
\* heartbeat lapses.  Nothing makes a user act, a replica fail or a disconnect
\* handler succeed.
Fairness ==
  /\ \A i \in Instance :
       /\ WF_vars(Sweep(i, TRUE))
       /\ WF_vars(proc[i] = "down" /\ Lapse(i))
       /\ \A r \in Room : WF_vars(StartCall(i, r) \/ StartCallDropped(i, r))
  /\ \A r \in Room : WF_vars(PassDeadline(r))
  /\ \A s \in Socket : WF_vars(TickOrphans(s))

FairSpec == Spec /\ Fairness

-----------------------------------------------------------------------------
(* Properties.                                                              *)

RoomsMatch(w) ==
  /\ \A r \in Room : w.phase[r] \in Live =>
       /\ \A s \in w.members[r] : w.room[s] = r /\ w.state[s] = w.phase[r]
       /\ \E a, b \in Socket : w.members[r] = {a, b} /\ DeviceOf[a] # DeviceOf[b]
  /\ \A s \in Socket :
       IF w.state[s] \in Live THEN InRoom(w, s) ELSE w.room[s] = NoRoom

\* What every `...Locked` method relies on and must leave behind: a session is in a
\* room's state exactly while it is one of the two members of an existing room in
\* that state, on two devices; so nobody is in two rooms, and no room outlives a
\* member's session (createRoomLocked, activateRoomLocked, endRoomLocked,
\* removeSessionLocked, across hellos, sweeps, reaping and shutdown).
RoomsMatchSessions == RoomsMatch(store)

QueueMatches(w) == w.queue = {s \in Socket : w.state[s] = "waiting"}

\* The queue index holds exactly the waiting sessions (addWaiting and removeWaiting
\* are separate writes from putSession), so no one waits unseen by the pass.
QueueHoldsTheWaiting == QueueMatches(store)

Bound(w) == \A s \in Socket : w.state[s] # "none" <=> w.device[DeviceOf[s]] = s

\* A device has at most one session and the binding names it: a hello on a second
\* socket replaces the first, and a late cleanup of the first leaves the second bound.
OneSessionPerDevice == Bound(store)

Consented(w) == \A r \in Room : w.phase[r] = "active" => w.members[r] \subseteq w.accepted[r]

\* A call starts only when each side pressed Accept or asked for instant mode.
NoCallWithoutConsent == Consented(store)

\* A pair that was declined, skipped, timed out or failed is in no room together
\* while its block lasts, however their sessions were re-queued meanwhile.  (Not so
\* with late reports: one of an earlier room blocks a pair that has met again.)
BlockedPairsApart ==
  \A r \in Room : store.phase[r] \in Live => Devices(store.members[r]) \notin store.blocked

\* A banned device is in no room until the ban is lifted, although hello checked the ban
\* before it waited for the lock.  Two exceptions: the restriction's locked section is
\* still to come; or it never came (withLock rejected and restrict() does not try again,
\* or the replica ended first), and then the device stays in the very room it was in
\* at that moment, and joins no other.
BannedStaysOutOfCalls ==
  \A s \in Socket :
    DeviceOf[s] \in store.banned /\ store.state[s] \in Live
      => s \in spared \/ \E i \in Instance : <<i, DeviceOf[s]>> \in restricting

\* A session whose socket is gone is always within somebody's reach: its disconnect
\* handler is queued for the lock, its replica still sweeps for ghosts, or its replica
\* is in the list the others reap from.
GoneSessionsStayReachable ==
  \A s \in Socket :
    store.state[s] # "none" /\ conn[s] = "down"
      => s \in cleanup \/ proc[HomeOf[s]] = "up" \/ HomeOf[s] \in store.known

\* A call is started once: however the two accepts, on two replicas, and the instant
\* flags bring a room to active, one startCall is on its way for it, and none once
\* call:start went out (a second one would restart the negotiation on both pages).  It is
\* lost only with a replica that stops or ends, or by a failure (see AcceptedCallsStart).
CallsStartOnce ==
  \A r \in Room :
    /\ \A i, j \in Instance : <<i, r>> \in starting /\ <<j, r>> \in starting => i = j
    /\ r \in started => \A i \in Instance : <<i, r>> \notin starting
    /\ store.phase[r] = "active" /\ "lockFails" \notin Env /\ (\A i \in Instance : proc[i] = "up")
         => r \in started \/ \E i \in Instance : <<i, r>> \in starting

\* A session whose socket is gone is removed in the end: by its disconnect handler, or
\* when that failed by the ghost sweep, or when its replica died by a survivor.
GoneSessionsAreRemoved ==
  \A s \in Socket :
    store.state[s] # "none" /\ conn[s] = "down" ~> store.state[s] = "none"

\* No room stays pending: it is answered, or a sweep of any live replica expires it,
\* also when the replica that made it is gone.
PendingRoomsResolve ==
  \A r \in Room : store.phase[r] = "pending" ~> store.phase[r] # "pending"

\* "both accepted": call:start goes out for every room that goes active, unless it
\* ends first.
AcceptedCallsStart ==
  \A r \in Room : store.phase[r] = "active" ~> r \in started \/ store.phase[r] # "active"

\* A connected socket whose session was reaped behind its back is told to reconnect,
\* unless it says hello again (tickRewards).
OrphanedSocketsAreDropped ==
  \A s \in Socket :
    s \in local /\ store.state[s] = "none"
      ~> s \notin local \/ store.state[s] # "none"
=============================================================================
