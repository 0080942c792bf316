-------------------------------- MODULE Peer --------------------------------
(***************************************************************************)
(* One call between two browsers: PeerSession negotiates, ConnectMonitor    *)
(* decides when to restart ICE and when to give the call up                 *)
(* (new-frontend/src/lib/peerSession.ts, connectivity.ts, and the effect of *)
(* hooks/usePeerConnection.ts that ties them together).                     *)
(*                                                                         *)
(* The server relays signals in order while the room is active.  Those that *)
(* arrive before the tab listens wait in pendingSignals and are replayed    *)
(* first, so each end has one line of tasks: `chain`.  A description is the *)
(* number of its offer.  RTCPeerConnection is external.                     *)
(***************************************************************************)
EXTENDS Naturals, Sequences

CONSTANT
  MaxTries        \* bound: offers of one call and breaks of its connection, together

ASSUME PeerAssumption == MaxTries \in Nat \ {0}

End == {"offerer", "answerer"}
Other(e) == IF e = "offerer" THEN "answerer" ELSE "offerer"

VARIABLES
  joined,       \* ends whose effect has created a session; the others have had no call:start
  chain,        \* tasks of each end, signals that have not arrived yet included
  signaling,    \* pc.signalingState
  local, remote,        \* descriptions applied: the offer's number, 0 for none
  queued,       \* pendingCandidates, by the description they belong to
  added,        \* candidates the remote description has got
  gathered,     \* descriptions whose candidates were sent
  connection,   \* pc.connectionState
  checking,     \* the description its ICE agent works with (external)
  selfRestarted,        \* PeerSession.iceRestarted
  retried,      \* ConnectMonitor.retried
  timers,       \* its timers that run
  outcome,
  over,         \* the room has ended
  stuck,        \* history: a signaling step threw
  breaks

peerVars == <<joined, chain, signaling, local, remote, queued, added, gathered, connection, checking,
              selfRestarted, retried, timers, outcome, over, stuck, breaks>>
Negotiated == <<signaling, local, remote, queued, added, gathered, stuck>>
Monitor == <<selfRestarted, retried, timers, outcome>>

Signal == [is : {"offer", "answer", "candidate"}, of : Nat]
Task == Signal \cup {[is |-> "start", of |-> 0], [is |-> "restart", of |-> 0]}
T(is, of) == [is |-> is, of |-> of]

PeerTypeOK ==
  /\ joined \subseteq End /\ stuck \in BOOLEAN /\ over \in BOOLEAN /\ breaks \in Nat
  /\ chain \in [End -> Seq(Task)]
  /\ signaling \in [End -> {"stable", "have-local-offer", "have-remote-offer"}]
  /\ local \in [End -> Nat] /\ remote \in [End -> Nat] /\ checking \in [End -> Nat]
  /\ queued \in [End -> SUBSET Nat] /\ added \in [End -> SUBSET Nat]
  /\ gathered \in [End -> SUBSET Nat]
  /\ connection \in [End -> {"new", "connecting", "connected", "disconnected", "failed"}]
  /\ selfRestarted \in BOOLEAN /\ retried \subseteq End
  /\ timers \in [End -> SUBSET {"connect", "disconnected", "recovery"}]
  /\ outcome \in [End -> {"pending", "connected", "timeout", "ice-failed"}]

Both(x) == [e \in End |-> x]

PeerInit ==
  /\ over = FALSE /\ joined = {} /\ chain = Both(<<>>)
  /\ signaling = Both("stable") /\ local = Both(0) /\ remote = Both(0)
  /\ queued = Both({}) /\ added = Both({}) /\ gathered = Both({}) /\ stuck = FALSE
  /\ connection = Both("new") /\ checking = Both(0) /\ breaks = 0
  /\ selfRestarted = FALSE /\ retried = {} /\ timers = Both({}) /\ outcome = Both("pending")

Running(e) == e \in joined
Watching(e) == Running(e) /\ outcome[e] \in {"pending", "connected"}

-----------------------------------------------------------------------------
(* The effect of usePeerConnection.                                         *)

\* Subscribe, then start; the offerer's first task is its offer.  An end where Hide
\* my IP has no relay joins when the user goes on without it, or never.
Join(e) ==
  /\ ~over /\ e \notin joined
  /\ joined' = joined \cup {e}
  /\ chain' = [chain EXCEPT ![e] = IF e = "offerer" THEN Append(@, T("start", 0)) ELSE @]
  /\ timers' = [timers EXCEPT ![e] = {"connect"}]
  /\ UNCHANGED <<Negotiated, connection, checking, selfRestarted, retried, outcome, over, breaks>>

\* call:failed of an end that gave up, a skip, the partner leaving: the sessions close.
EndCall ==
  /\ ~over /\ over' = TRUE /\ joined' = {} /\ chain' = Both(<<>>)
  /\ signaling' = Both("stable") /\ local' = Both(0) /\ remote' = Both(0)
  /\ queued' = Both({}) /\ added' = Both({}) /\ gathered' = Both({}) /\ stuck' = FALSE
  /\ connection' = Both("new") /\ checking' = Both(0) /\ breaks' = 0
  /\ selfRestarted' = FALSE /\ retried' = {} /\ timers' = Both({}) /\ outcome' = Both("pending")

-----------------------------------------------------------------------------
(* PeerSession: the tasks, in order, one at a time.                         *)

Rest(e) == [chain EXCEPT ![e] = Tail(@)]
Send(e, rest, signal) == chain' = [rest EXCEPT ![Other(e)] = Append(@, signal)]

OfferNow(e) ==
  LET n == local[e] + 1 IN
  /\ n + breaks <= MaxTries
  /\ local' = [local EXCEPT ![e] = n]
  /\ signaling' = [signaling EXCEPT ![e] = "have-local-offer"]
  /\ Send(e, Rest(e), T("offer", n))
  /\ UNCHANGED <<remote, queued, added, gathered, stuck>>

Nothing(e) == chain' = Rest(e) /\ UNCHANGED Negotiated

\* Mutant.
RestartAnyway(e) == OfferNow(e)

\* restartIce: a no-op while an offer is out.
restartIce(e) == IF signaling[e] # "stable" THEN Nothing(e) ELSE OfferNow(e)

\* setRemoteDescription; then the candidates that came before it.
Apply(e, n) ==
  /\ remote' = [remote EXCEPT ![e] = n]
  /\ added' = [added EXCEPT ![e] = {c \in queued[e] : c = n}]
  /\ queued' = [queued EXCEPT ![e] = {}]

handleOffer(e, n) ==
  IF e = "offerer" \/ signaling[e] # "stable" THEN Nothing(e)
  ELSE /\ Apply(e, n)
       /\ local' = [local EXCEPT ![e] = n]
       /\ Send(e, Rest(e), T("answer", n))
       /\ UNCHANGED <<signaling, gathered, stuck>>

handleAnswer(e, n) ==
  IF signaling[e] # "have-local-offer" THEN Nothing(e)
  ELSE /\ Apply(e, n)
       /\ signaling' = [signaling EXCEPT ![e] = "stable"]
       /\ chain' = Rest(e)
       /\ UNCHANGED <<local, gathered, stuck>>

\* A candidate of another description is refused and ignored.
handleCandidate(e, n) ==
  /\ IF remote[e] = 0 THEN queued' = [queued EXCEPT ![e] = @ \cup {n}] /\ UNCHANGED added
     ELSE added' = [added EXCEPT ![e] = IF remote[e] = n THEN @ \cup {n} ELSE @] /\ UNCHANGED queued
  /\ chain' = Rest(e)
  /\ UNCHANGED <<signaling, local, remote, gathered, stuck>>

RunTask(e) ==
  /\ Running(e) /\ chain[e] # <<>>
  /\ LET t == Head(chain[e]) IN
     \/ t.is = "start" /\ OfferNow(e)
     \/ t.is = "restart" /\ restartIce(e)
     \/ t.is = "offer" /\ handleOffer(e, t.of)
     \/ t.is = "answer" /\ handleAnswer(e, t.of)
     \/ t.is = "candidate" /\ handleCandidate(e, t.of)
  /\ UNCHANGED <<joined, connection, checking, Monitor, over, breaks>>

\* createOffer, createAnswer or setRemoteDescription throws: logged, the chain goes on.
TaskThrows(e) ==
  /\ Running(e) /\ chain[e] # <<>> /\ Head(chain[e]).is # "candidate"
  /\ chain' = Rest(e)
  /\ stuck' = TRUE
  /\ \/ UNCHANGED <<signaling, remote>>
     \/ /\ e = "answerer" /\ Head(chain[e]).is = "offer" /\ signaling[e] = "stable"
        /\ remote' = [remote EXCEPT ![e] = Head(chain[e]).of]
        /\ signaling' = [signaling EXCEPT ![e] = "have-remote-offer"]
  /\ UNCHANGED <<joined, local, queued, added, gathered, connection, checking, Monitor, over, breaks>>

\* onicecandidate, once the local description is set and sent.
Gather(e) ==
  /\ Running(e) /\ local[e] # 0 /\ local[e] \notin gathered[e]
  /\ gathered' = [gathered EXCEPT ![e] = @ \cup {local[e]}]
  /\ Send(e, chain, T("candidate", local[e]))
  /\ UNCHANGED <<joined, signaling, local, remote, queued, added, stuck, connection, checking,
                  Monitor, over, breaks>>

-----------------------------------------------------------------------------
(* ConnectMonitor.update, and the restart PeerSession makes by itself.      *)

RestartOf(e) == IF e = "offerer" THEN <<T("restart", 0)>> ELSE <<>>

\* Mutant.
noRecoveryTimer(e) ==
  /\ selfRestarted' = (selfRestarted \/ e = "offerer")
  /\ LET own == IF selfRestarted THEN <<>> ELSE RestartOf(e) IN
     IF e \in retried
     THEN /\ outcome' = [outcome EXCEPT ![e] = "ice-failed"]
          /\ timers' = [timers EXCEPT ![e] = {}]
          /\ chain' = [chain EXCEPT ![e] = @ \o own]
          /\ UNCHANGED retried
     ELSE /\ retried' = retried \cup {e}
          /\ timers' = [timers EXCEPT ![e] = @ \ {"disconnected"}]
          /\ chain' = [chain EXCEPT ![e] = @ \o own \o RestartOf(e)]
          /\ UNCHANGED outcome

\* PeerSession's own restart is enqueued first, the monitor's after it.
onFailed(e) ==
  /\ selfRestarted' = (selfRestarted \/ e = "offerer")
  /\ LET own == IF selfRestarted THEN <<>> ELSE RestartOf(e) IN
     IF e \in retried
     THEN /\ outcome' = [outcome EXCEPT ![e] = "ice-failed"]
          /\ timers' = [timers EXCEPT ![e] = {}]
          /\ chain' = [chain EXCEPT ![e] = @ \o own]
          /\ UNCHANGED retried
     ELSE /\ retried' = retried \cup {e}
          /\ timers' = [timers EXCEPT ![e] = (@ \ {"disconnected"}) \cup {"recovery"}]
          /\ chain' = [chain EXCEPT ![e] = @ \o own \o RestartOf(e)]
          /\ UNCHANGED outcome

onConnected(e) ==
  /\ timers' = [timers EXCEPT ![e] = {}]
  /\ outcome' = [outcome EXCEPT ![e] = "connected"]
  /\ UNCHANGED <<chain, selfRestarted, retried>>

onDisconnected(e) ==
  /\ timers' = [timers EXCEPT ![e] = @ \cup {"disconnected"}]
  /\ UNCHANGED <<chain, selfRestarted, retried, outcome>>

\* The three timers.
ConnectTimeout(e) ==
  /\ Watching(e) /\ "connect" \in timers[e]
  /\ outcome' = [outcome EXCEPT ![e] = "timeout"]
  /\ timers' = [timers EXCEPT ![e] = {}]
  /\ UNCHANGED <<joined, chain, Negotiated, connection, checking, selfRestarted, retried, over, breaks>>

DisconnectedTimer(e) ==
  /\ Watching(e) /\ "disconnected" \in timers[e]
  /\ timers' = [timers EXCEPT ![e] = @ \ {"disconnected"}]
  /\ chain' = [chain EXCEPT ![e] = IF connection[e] = "disconnected" THEN @ \o RestartOf(e) ELSE @]
  /\ UNCHANGED <<joined, Negotiated, connection, checking, selfRestarted, retried, outcome, over, breaks>>

RecoveryTimeout(e) ==
  /\ Watching(e) /\ "recovery" \in timers[e]
  /\ IF connection[e] = "connected"
     THEN timers' = [timers EXCEPT ![e] = @ \ {"recovery"}] /\ UNCHANGED outcome
     ELSE timers' = [timers EXCEPT ![e] = {}] /\ outcome' = [outcome EXCEPT ![e] = "ice-failed"]
  /\ UNCHANGED <<joined, chain, Negotiated, connection, checking, selfRestarted, retried, over, breaks>>

-----------------------------------------------------------------------------
(* RTCPeerConnection's ICE (external).                                      *)

Become(e, state) ==
  /\ connection' = [connection EXCEPT ![e] = state]
  /\ UNCHANGED <<joined, Negotiated, checking, over>>

\* Both descriptions of one offer are there: connectivity checks run.
Checking(e) ==
  /\ Watching(e) /\ connection[e] # "connecting"
  /\ remote[e] = local[e] /\ local[e] # checking[e]
  /\ checking' = [checking EXCEPT ![e] = local[e]]
  /\ connection' = [connection EXCEPT ![e] = "connecting"]
  /\ UNCHANGED <<joined, chain, Negotiated, Monitor, over, breaks>>

IceConnects(e) ==
  /\ Watching(e) /\ connection[e] \in {"connecting", "disconnected"}
  /\ checking[Other(e)] = checking[e]
  /\ Become(e, "connected")
  /\ onConnected(e)
  /\ UNCHANGED breaks

IceFails(e) ==
  /\ Watching(e) /\ connection[e] \in {"connecting", "disconnected"}
  /\ Become(e, "failed")
  /\ onFailed(e)
  /\ UNCHANGED breaks

IceBreaks(e) ==
  /\ Watching(e) /\ connection[e] = "connected" /\ local[e] + breaks < MaxTries
  /\ breaks' = breaks + 1
  /\ Become(e, "disconnected")
  /\ onDisconnected(e)

PeerNext ==
  \/ EndCall
  \/ \E e \in End :
       \/ Join(e) \/ RunTask(e) \/ TaskThrows(e) \/ Gather(e)
       \/ ConnectTimeout(e) \/ DisconnectedTimer(e) \/ RecoveryTimeout(e)
       \/ Checking(e) \/ IceConnects(e) \/ IceFails(e) \/ IceBreaks(e)

PeerSpec == PeerInit /\ [][PeerNext]_peerVars

-----------------------------------------------------------------------------
(* Properties.                                                              *)

\* When both ends are there, nothing is under way and no step threw, both have
\* applied the offer and the answer of one number and got all the candidates
\* sent for it: two restarts asked for at once, restarts racing answers and
\* signals that came before a tab listened do not leave the ends apart
\* (restartIce, handleDescription, subscribeSignals).
DescriptionsAgree ==
  (joined = End /\ ~stuck /\ \A e \in End : chain[e] = <<>>) =>
    \A e \in End : /\ signaling[e] = "stable"
                   /\ remote[e] = local[Other(e)] /\ local[e] = local[Other(e)]
                   /\ gathered[Other(e)] \cap {remote[e]} = added[e]

\* A call never just hangs: an end without a connection gets one, or gives up and
\* reports the call, even when the signals of a restart are lost (ConnectMonitor).
CallsAreDecided ==
  \A e \in End :
    (Running(e) /\ connection[e] # "connected") ~>
      (connection[e] = "connected" \/ outcome[e] \in {"timeout", "ice-failed"} \/ over)
=============================================================================
