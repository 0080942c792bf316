---------------------------- MODULE MCProgress ----------------------------
(* Small instances of the components whose promise is that something happens.   *)
(* They share no state: a behaviour runs one of Parts, the others stay as they  *)
(* start.                                                                       *)
EXTENDS Wallet, Heartbeats, Spend, Peer, Queue, TLC

CONSTANTS Parts, p1, p2, p3

VARIABLE part

progressVars == <<part, walletVars, heartVars, spendVars, peerVars, queueVars>>

ProgressInit ==
  /\ part \in Parts
  /\ WalletInit /\ HeartbeatsInit /\ SpendInit /\ PeerInit /\ QueueInit

WalletMoves ==
  part = "wallet" /\ WalletNext /\ UNCHANGED <<part, heartVars, spendVars, peerVars, queueVars>>
HeartbeatsMove ==
  part = "heartbeats" /\ HeartbeatsNext /\ UNCHANGED <<part, walletVars, spendVars, peerVars, queueVars>>
SpendMoves ==
  part = "spend" /\ SpendNext /\ UNCHANGED <<part, walletVars, heartVars, peerVars, queueVars>>
PeerMoves ==
  part = "peer" /\ PeerNext /\ UNCHANGED <<part, walletVars, heartVars, spendVars, queueVars>>
QueueMoves ==
  part = "queue" /\ QueueNext /\ UNCHANGED <<part, walletVars, heartVars, spendVars, peerVars>>

ProgressNext == WalletMoves \/ HeartbeatsMove \/ SpendMoves \/ PeerMoves \/ QueueMoves
ProgressSafety == ProgressInit /\ [][ProgressNext]_progressVars

-----------------------------------------------------------------------------
(* Fairness.                                                                *)

\* A request's next await returns; a claim or a credit that requests ask for again
\* and again gets through to Redis for one of them; Razorpay delivers a webhook
\* until it is answered.
WalletFair ==
  /\ \A r \in Request : WF_walletVars(part = "wallet" /\ RequestGoesOn(r))
  /\ SF_walletVars(part = "wallet" /\ \E r \in Request : claimOnce(r))
  /\ SF_walletVars(part = "wallet" /\ \E r \in Request : addBalance(r))
  /\ \A o \in Order : SF_walletVars(part = "wallet" /\ \E r \in Request : handleWebhook(r, o))

\* Time passes, timers fire, a client that lost Redis connects to it again.
HeartbeatsFair ==
  /\ WF_heartVars(part = "heartbeats" /\ Interval)
  /\ \A i \in Replica : /\ WF_heartVars(part = "heartbeats" /\ beat(i))
                        /\ WF_heartVars(part = "heartbeats" /\ markOutage(i))
                        /\ WF_heartVars(part = "heartbeats" /\ ready(i))
                        /\ WF_heartVars(part = "heartbeats" /\ reapDeadInstancesLocked(i))

\* The lease lapses; each instance's two timers fire.
SpendFair ==
  /\ WF_spendVars(part = "spend" /\ LeaseExpires)
  /\ \A i \in Instance : /\ WF_spendVars(part = "spend" /\ refresh(i))
                         /\ WF_spendVars(part = "spend" /\ Poll(i))

\* The monitor's timers fire; ICE ends its checks one way or the other.
PeerFair ==
  \A e \in End : /\ WF_peerVars(part = "peer" /\ ConnectTimeout(e))
                 /\ WF_peerVars(part = "peer" /\ RecoveryTimeout(e))
                 /\ WF_peerVars(part = "peer" /\ (IceConnects(e) \/ IceFails(e)))

\* Time passes, and each server's sweeper rechecks every recheckIntervalMs.
QueueFair ==
  /\ WF_queueVars(part = "queue" /\ tick)
  /\ \A r \in Server : WF_queueVars(part = "queue" /\ sweep(r, TRUE))

ProgressSpec == ProgressSafety /\ WalletFair /\ HeartbeatsFair /\ SpendFair /\ PeerFair /\ QueueFair
-----------------------------------------------------------------------------
(* Of three sessions everybody looks for men: the first is met by nobody.        *)
Mixed ==
  p1 :> [gender |-> "female", language |-> "en", topics |-> {"games"}] @@
  p2 :> [gender |-> "male", language |-> "hi", topics |-> {"music"}] @@
  p3 :> [gender |-> "male", language |-> "en", topics |-> {"music"}]
Subtags == [l \in {"en", "hi"} |-> l]
Men == {[gender |-> "male", language |-> "any"]}
=============================================================================
