----------------------------- MODULE Signaling -----------------------------
(***************************************************************************)
(* One tab's signaling (new-frontend/src/hooks/useSignaling.ts): its socket, *)
(* how it comes back, and what the reducer shows, against the session the   *)
(* server keeps for that socket (backend/src/match/MatchService.ts).        *)
(*                                                                         *)
(* The socket delivers in order, both ways; what is under way when it       *)
(* closes is lost, and a new connection is a new socket with no session.    *)
(* A section of the match service runs on any replica: on the socket's own, *)
(* what it emits goes straight to the socket; on another one, over the      *)
(* Redis adapter's channel first.                                           *)
(***************************************************************************)
EXTENDS Naturals, Sequences

CONSTANTS
  MaxHellos,      \* bound: hellos of one behaviour
  MaxRooms,       \* bound: rooms the tab is matched into
  MaxWire         \* bound: messages on a wire to the tab when more are emitted

ASSUME SignalingAssumption == {MaxHellos, MaxRooms, MaxWire} \subseteq Nat

VARIABLES
  link,         \* the socket: down, connecting or up
  retryTimer, awaitingSession, stopped,
  connectionSeq,
  asked,        \* the ack of the hello connectionSeq is awaited
  screen,       \* the reducer's status and roomId
  skippedRoom,
  upward,       \* from the tab to the server
  downward,     \* from the socket's replica to the tab
  bus,          \* from another replica to the socket's
  session,      \* the server's session of this socket
  rooms,        \* rooms made so far
  \* Histories of this connection:
  untold,       \* the session was left out of the queue, or removed, and the tab not told
  overtaken     \* a message of the socket's own replica passed one on the bus

signalingVars == <<link, retryTimer, awaitingSession, stopped, connectionSeq, asked, screen, skippedRoom,
                   upward, downward, bus, session, rooms, untold, overtaken>>
Comeback == <<link, retryTimer, awaitingSession, stopped, connectionSeq>>
Wires == <<upward, downward, bus>>
Matcher == <<session, rooms, untold, overtaken>>

Terminal == {"banned", "replaced"}
\* "unanswered" is the status error of a hello that timed out.
Statuses == {"connecting", "idle", "waiting", "match-found", "starting-call", "in-call", "error",
             "unanswered"} \cup Terminal
NoSession == [state |-> "none", room |-> 0, accepted |-> FALSE]
Note == [is : {"hello", "accept", "decline", "skip", "ok", "refused", "banned", "waiting", "found",
               "instant", "start", "ended", "accept-timeout", "replaced", "expired"}, of : Nat]
N(is, of) == [is |-> is, of |-> of]

SignalingTypeOK ==
  /\ link \in {"down", "connecting", "up"}
  /\ {retryTimer, awaitingSession, stopped, asked, untold, overtaken} \subseteq BOOLEAN
  /\ connectionSeq \in Nat /\ rooms \in Nat /\ skippedRoom \in Nat
  /\ screen \in [status : Statuses, room : Nat]
  /\ upward \in Seq(Note) /\ downward \in Seq(Note) /\ bus \in Seq(Note)
  /\ session \in [state : {"none", "idle", "waiting", "pending", "starting", "active"},
                  room : Nat, accepted : BOOLEAN]

SignalingInit ==
  /\ link = "connecting"
  /\ retryTimer = FALSE /\ awaitingSession = FALSE /\ stopped = FALSE /\ connectionSeq = 0
  /\ asked = FALSE /\ screen = [status |-> "connecting", room |-> 0] /\ skippedRoom = 0
  /\ upward = <<>> /\ downward = <<>> /\ bus = <<>>
  /\ session = NoSession /\ rooms = 0
  /\ untold = FALSE /\ overtaken = FALSE

\* A terminal status absorbs every event.
Show(status, room) ==
  screen' = IF screen.status \in Terminal THEN screen ELSE [status |-> status, room |-> room]
Tell(is, room) == upward' = Append(upward, N(is, room))

-----------------------------------------------------------------------------
(* The connection.                                                          *)

\* The connection is gone, with its session and all that was under way.
Drop ==
  /\ link' = "down" /\ asked' = FALSE
  /\ upward' = <<>> /\ downward' = <<>> /\ bus' = <<>>
  /\ session' = NoSession
  /\ untold' = FALSE /\ overtaken' = FALSE
  /\ UNCHANGED <<connectionSeq, skippedRoom, rooms>>

reconnectLater == retryTimer' = (retryTimer \/ ~(stopped \/ awaitingSession))

\* The library fails the ack still awaited after it has reported the disconnect.
Disconnected ==
  /\ Drop
  /\ Show(IF asked THEN "unanswered" ELSE "connecting", 0)
  /\ reconnectLater
  /\ UNCHANGED <<awaitingSession, stopped>>

Lost == link = "up" /\ Disconnected

\* The Retry button; socket.disconnect() reports at once.
retry ==
  /\ screen.status \in {"error", "unanswered", "idle"} /\ (screen.status = "idle" => link # "up")
  /\ IF link = "up" THEN Disconnected
     ELSE Drop /\ reconnectLater /\ UNCHANGED <<screen, awaitingSession, stopped>>

RetryNow ==
  /\ retryTimer /\ retryTimer' = FALSE
  /\ link' = IF stopped \/ link = "up" THEN link ELSE "connecting"
  /\ UNCHANGED <<awaitingSession, stopped, connectionSeq, asked, screen, skippedRoom, Wires, Matcher>>

renewSession ==
  /\ awaitingSession' = TRUE
  /\ retryTimer' = (retryTimer /\ awaitingSession)
  /\ UNCHANGED stopped

\* The handshake refuses the session, or there is no connection.
connect_error ==
  /\ link = "connecting"
  /\ link' = "down"
  /\ \/ renewSession
     \/ reconnectLater /\ UNCHANGED <<awaitingSession, stopped>>
  /\ UNCHANGED <<connectionSeq, asked, screen, skippedRoom, Wires, Matcher>>

\* Mutant.
SessionReadyTooLate ==
  /\ awaitingSession /\ awaitingSession' = FALSE
  /\ reconnectLater
  /\ UNCHANGED <<link, stopped, connectionSeq, asked, screen, skippedRoom, Wires, Matcher>>

\* waitForSession() resolves.
SessionReady ==
  /\ awaitingSession /\ awaitingSession' = FALSE
  /\ retryTimer' = (retryTimer \/ ~stopped)
  /\ UNCHANGED <<link, stopped, connectionSeq, asked, screen, skippedRoom, Wires, Matcher>>

sayHello ==
  /\ connectionSeq < MaxHellos
  /\ connectionSeq' = connectionSeq + 1
  /\ asked' = TRUE
  /\ Tell("hello", connectionSeq')

Connected ==
  /\ link = "connecting" /\ link' = "up"
  /\ sayHello
  /\ UNCHANGED <<retryTimer, awaitingSession, stopped, screen, skippedRoom, downward, bus, Matcher>>

\* No answer in ACK_TIMEOUT_MS: the match lock is slow.
HelloTimeout ==
  /\ link = "up" /\ asked /\ asked' = FALSE
  /\ Show("unanswered", 0)
  /\ UNCHANGED <<Comeback, skippedRoom, Wires, Matcher>>

-----------------------------------------------------------------------------
(* The buttons.                                                             *)

accept ==
  /\ link = "up" /\ screen.status = "match-found"
  /\ Tell("accept", screen.room)
  /\ Show("starting-call", screen.room)
  /\ UNCHANGED <<Comeback, asked, skippedRoom, downward, bus, Matcher>>

\* Decline may be pressed again; that changes nothing more.
decline ==
  /\ link = "up" /\ screen.status \in {"match-found", "starting-call"}
  /\ N("decline", screen.room) \notin {upward[k] : k \in DOMAIN upward}
  /\ Tell("decline", screen.room)
  /\ UNCHANGED <<Comeback, asked, screen, skippedRoom, downward, bus, Matcher>>

skip ==
  /\ link = "up" /\ screen.status \in {"match-found", "starting-call", "in-call"}
  /\ skippedRoom # screen.room
  /\ skippedRoom' = screen.room
  /\ Tell("skip", screen.room)
  /\ UNCHANGED <<Comeback, asked, screen, downward, bus, Matcher>>

\* A second press before the ack sends a second hello.
search ==
  /\ link = "up" /\ screen.status = "idle"
  /\ sayHello
  /\ UNCHANGED <<link, retryTimer, awaitingSession, stopped, screen, skippedRoom, downward, bus, Matcher>>

-----------------------------------------------------------------------------
(* What arrives.                                                            *)

HelloOk ==
  IF screen.status \in {"connecting", "error", "unanswered", "idle"} THEN Show("waiting", screen.room)
  ELSE UNCHANGED screen

\* Only the ack of the last hello counts.
helloAck(m) ==
  IF m.of # connectionSeq \/ ~asked THEN UNCHANGED <<Comeback, asked, screen, upward>>
  ELSE /\ asked' = FALSE
       /\ \/ m.is = "ok" /\ HelloOk /\ UNCHANGED Comeback
          \/ m.is = "refused" /\ Show("error", 0) /\ UNCHANGED Comeback
       /\ UNCHANGED upward

\* Mutant.
ReduceTimeoutWaits(m) ==
  CASE m.is = "waiting" -> Show("waiting", 0)
    [] m.is = "found"   -> Show("match-found", m.of)
    [] m.is = "instant" -> Show("starting-call", m.of)
    [] m.is = "start" /\ m.of = screen.room /\ screen.status \in {"match-found", "starting-call"}
                        -> Show("in-call", m.of)
    [] m.is \in {"ended", "accept-timeout"} /\ m.of = screen.room -> Show("waiting", 0)
    [] OTHER            -> UNCHANGED screen

\* The reducer's other events; each clears the room or names its own.
Reduce(m) ==
  CASE m.is = "waiting" -> Show("waiting", 0)
    [] m.is = "found"   -> Show("match-found", m.of)
    [] m.is = "instant" -> Show("starting-call", m.of)
    [] m.is = "start" /\ m.of = screen.room /\ screen.status \in {"match-found", "starting-call"}
                        -> Show("in-call", m.of)
    [] m.is = "ended" /\ m.of = screen.room          -> Show("waiting", 0)
    [] m.is = "accept-timeout" /\ m.of = screen.room -> Show("idle", 0)
    [] OTHER            -> UNCHANGED screen

Ordinary == {"waiting", "found", "instant", "start", "ended", "accept-timeout"}

\* An instant match is accepted for the user.
Receive ==
  /\ link = "up" /\ downward # <<>>
  /\ LET m == Head(downward) IN
     \/ /\ m.is \in {"ok", "refused"}
        /\ helloAck(m)
        /\ downward' = Tail(downward)
        /\ UNCHANGED <<skippedRoom, bus, Matcher>>
     \/ /\ m.is \in Ordinary
        /\ Reduce(m)
        /\ IF m.is = "instant" THEN Tell("accept", m.of) ELSE UNCHANGED upward
        /\ downward' = Tail(downward)
        /\ UNCHANGED <<Comeback, asked, skippedRoom, bus, Matcher>>
     \/ /\ m.is = "expired"
        /\ renewSession
        /\ downward' = Tail(downward)
        /\ UNCHANGED <<link, connectionSeq, asked, screen, skippedRoom, upward, bus, Matcher>>
     \/ /\ m.is \in Terminal      \* stop()
        /\ Show(m.is, 0)
        /\ stopped' = TRUE /\ retryTimer' = FALSE
        /\ Drop
        /\ UNCHANGED awaitingSession

-----------------------------------------------------------------------------
(* The server's side of the socket.                                         *)

\* A section emits, on the socket's replica or on another one.
EmitHere(notes) ==
  downward' = downward \o notes /\ overtaken' = (overtaken \/ bus # <<>>) /\ UNCHANGED bus
Emit(notes) ==
  \/ Len(downward) < MaxWire /\ EmitHere(notes)
  \/ Len(bus) < MaxWire /\ bus' = bus \o notes /\ UNCHANGED <<downward, overtaken>>

Client == <<Comeback, asked, screen, skippedRoom>>

AdapterDelivers ==
  /\ bus # <<>> /\ Len(downward) <= MaxWire /\ bus' = Tail(bus)
  /\ downward' = Append(downward, Head(bus))
  /\ UNCHANGED <<Client, upward, Matcher>>

Queued == [NoSession EXCEPT !.state = "waiting"]
Idle == [NoSession EXCEPT !.state = "idle"]

\* The ack is sent in the section, before queue:waiting; a session in a room stays in it.
hello ==
  /\ upward # <<>> /\ Head(upward).is = "hello"
  /\ upward' = Tail(upward)
  /\ LET ack(is) == N(is, Head(upward).of) IN
     \/ /\ session.state \in {"none", "idle", "waiting"}
        /\ session' = Queued /\ untold' = FALSE
        /\ EmitHere(<<ack("ok"), N("waiting", 0)>>)
     \/ /\ session.state \notin {"none", "idle", "waiting"}
        /\ EmitHere(<<ack("ok")>>) /\ UNCHANGED <<session, untold>>
     \/ /\ session.state \in {"none", "idle"}
        /\ EmitHere(<<ack("refused")>>) /\ UNCHANGED <<session, untold>>
     \/ EmitHere(<<N("banned", 0)>>) /\ UNCHANGED <<session, untold>>
  /\ UNCHANGED <<Client, rooms>>

\* createRoomLocked: instant sides are accepted.
createRoomLocked ==
  /\ session.state = "waiting" /\ rooms < MaxRooms
  /\ rooms' = rooms + 1
  /\ \E mine, both \in BOOLEAN :
       /\ both => mine
       /\ session' = [state |-> IF both THEN "starting" ELSE "pending", room |-> rooms', accepted |-> mine]
       /\ Emit(<<N(IF mine THEN "instant" ELSE "found", rooms')>>)
  /\ UNCHANGED <<Client, upward, untold>>

\* match:accept of this side, in time, before or after the partner's; or too late.
acceptLocked ==
  /\ upward # <<>> /\ Head(upward).is = "accept"
  /\ upward' = Tail(upward)
  /\ \/ UNCHANGED session
     \/ /\ session.state = "pending" /\ session.room = Head(upward).of /\ ~session.accepted
        /\ \E both \in BOOLEAN :
             session' = [session EXCEPT !.accepted = TRUE, !.state = IF both THEN "starting" ELSE @]
  /\ UNCHANGED <<Client, downward, bus, rooms, untold, overtaken>>

partnerAccepts ==
  /\ session.state = "pending" /\ session.accepted
  /\ session' = [session EXCEPT !.state = "starting"]
  /\ UNCHANGED <<Client, Wires, rooms, untold, overtaken>>

startCall ==
  /\ session.state = "starting"
  /\ session' = [session EXCEPT !.state = "active"]
  /\ Emit(<<N("start", session.room)>>)
  /\ UNCHANGED <<Client, upward, rooms, untold>>

InRoom == session.state \in {"pending", "starting", "active"}

\* endRoomLocked: told why, then queued again unless a match cap is reached or the device
\* is banned.
Ended ==
  \/ /\ session' = Queued
     /\ Emit(<<N("ended", session.room), N("waiting", 0)>>)
     /\ UNCHANGED untold
  \/ /\ session' = Idle /\ untold' = TRUE
     /\ Emit(<<N("ended", session.room)>>)

leaveRoom ==
  /\ upward # <<>> /\ Head(upward).is \in {"decline", "skip"}
  /\ upward' = Tail(upward)
  /\ IF /\ InRoom /\ session.room = Head(upward).of
        /\ Head(upward).is = "decline" => session.state = "pending"
     THEN Ended
     ELSE UNCHANGED <<session, untold, downward, bus, overtaken>>
  /\ UNCHANGED <<Client, rooms>>

\* The partner leaves or never accepts, a report, a failed call, a swept room.
endRoomLocked ==
  /\ InRoom /\ Ended
  /\ UNCHANGED <<Client, upward, rooms>>

acceptTimeout ==
  /\ session.state = "pending" /\ ~session.accepted
  /\ session' = Idle
  /\ Emit(<<N("accept-timeout", session.room)>>)
  /\ UNCHANGED <<Client, upward, rooms, untold>>

relaxTickLocked ==
  /\ session.state = "waiting"
  /\ Emit(<<N("waiting", 0)>>)
  /\ UNCHANGED <<Client, upward, session, rooms, untold>>

\* Another tab of the device says hello; or this socket's token expires.
replaceLocked ==
  /\ session.state # "none" /\ session' = NoSession
  /\ Emit(<<N("replaced", 0)>>)
  /\ UNCHANGED <<Client, upward, rooms, untold>>

\* restrictionApplied: a pause or a ban; out of its room, or out of the queue; the page hears of it
\* (session:restricted), not the reducer.
sessionRestricted ==
  /\ session.state \notin {"none", "idle"}
  /\ session' = Idle /\ untold' = TRUE
  /\ IF InRoom THEN Emit(<<N("ended", session.room)>>) ELSE UNCHANGED <<downward, bus, overtaken>>
  /\ UNCHANGED <<Client, upward, rooms>>

\* The socket's replica is taken for dead and its sessions are removed; its second sweep
\* after that drops the socket (tickRewards): Lost.
reapDeadInstancesLocked ==
  /\ session.state # "none"
  /\ session' = NoSession /\ untold' = TRUE
  /\ UNCHANGED <<Client, Wires, rooms, overtaken>>

sessionExpiry ==
  /\ link = "up" /\ Len(downward) < MaxWire
  /\ EmitHere(<<N("expired", 0)>>)
  /\ UNCHANGED <<Client, upward, session, rooms, untold>>

SignalingNext ==
  \/ Lost \/ retry \/ RetryNow \/ connect_error \/ SessionReady \/ Connected \/ HelloTimeout
  \/ accept \/ decline \/ skip \/ search \/ Receive
  \/ AdapterDelivers \/ hello \/ createRoomLocked \/ acceptLocked \/ partnerAccepts \/ startCall
  \/ leaveRoom \/ endRoomLocked \/ acceptTimeout \/ relaxTickLocked \/ replaceLocked \/ sessionExpiry
  \/ sessionRestricted \/ reapDeadInstancesLocked

SignalingSpec == SignalingInit /\ [][SignalingNext]_signalingVars

-----------------------------------------------------------------------------
(* Properties.                                                              *)

\* What the screen says of a session; a refused hello shows as an error.
Shows(s) ==
  /\ screen.room = s.room
  /\ CASE s.state = "waiting"  -> screen.status = "waiting"
       [] s.state = "pending"  -> screen.status \in {"starting-call"} \cup (IF s.accepted THEN {} ELSE {"match-found"})
       [] s.state = "starting" -> screen.status = "starting-call"
       [] s.state = "active"   -> screen.status = "in-call"
       [] OTHER                -> screen.status \in {s.state, "error"}

\* When everything under way has arrived, the tab shows the session the server
\* has, through double searches, late accepts, skips racing the end of the room
\* and reconnects (signalingReducer).  Excepted: messages of two replicas that changed
\* their order (overtaken); a session left out of the queue by a match cap, a pause or a
\* ban (endRoomLocked, restrictionApplied) or reaped behind its open socket
\* (reapDeadInstancesLocked), of which the reducer is not told; and the error a tab shows,
\* until Retry or the next message that names a status, when a hello was not answered
\* within ACK_TIMEOUT_MS though the server may have queued or matched it (hello-failed).
ScreenIsTrue ==
  link = "up" /\ ~asked /\ Wires = <<<<>>, <<>>, <<>>>>
    => overtaken \/ untold \/ screen.status = "unanswered" \/ Shows(session)

\* A tab that was neither banned nor replaced comes back: without a connection or
\* an attempt at one, a retry is scheduled or a session awaited (reconnectLater,
\* renewSession).
NeverStranded == stopped \/ link # "down" \/ retryTimer \/ awaitingSession
=============================================================================
