------------------------------ MODULE MCClients ------------------------------
(* Small instances of the parts of a browser tab, and of what lets a tab in.     *)
(* They share no state: a behaviour runs one of Parts, the others stay as they   *)
(* start.                                                                       *)
EXTENDS Signaling, Peer, Camera, Moderation, Purchase, GatePage, Restrictions, TLC

CONSTANTS Parts, d1, d2, b1, b2

VARIABLE part

clientsVars ==
  <<part, signalingVars, peerVars, cameraVars, moderationVars, purchaseVars, gatePageVars,
    restrictionsVars>>

\* Two devices in one browser, or in two.
OneBrowser == d1 :> b1 @@ d2 :> b1
OneOrTwoBrowsers == {OneBrowser, d1 :> b1 @@ d2 :> b2}

ClientsInit ==
  /\ part \in Parts
  /\ SignalingInit /\ PeerInit /\ CameraInit
  /\ ModerationInit /\ PurchaseInit /\ GatePageInit /\ RestrictionsInit
  /\ part # "restrictions" => browserOf = OneBrowser

OthersStay ==
  /\ UNCHANGED part
  /\ IF part = "signaling" THEN TRUE ELSE UNCHANGED signalingVars
  /\ IF part = "peer" THEN TRUE ELSE UNCHANGED peerVars
  /\ IF part = "camera" THEN TRUE ELSE UNCHANGED cameraVars
  /\ IF part = "moderation" THEN TRUE ELSE UNCHANGED moderationVars
  /\ IF part = "purchase" THEN TRUE ELSE UNCHANGED purchaseVars
  /\ IF part = "gate page" THEN TRUE ELSE UNCHANGED gatePageVars
  /\ IF part = "restrictions" THEN TRUE ELSE UNCHANGED restrictionsVars

SignalingMoves == part = "signaling" /\ SignalingNext /\ OthersStay
PeerMoves == part = "peer" /\ PeerNext /\ OthersStay
CameraMoves == part = "camera" /\ CameraNext /\ OthersStay
ModerationMoves == part = "moderation" /\ ModerationNext /\ OthersStay
PurchaseMoves == part = "purchase" /\ PurchaseNext /\ OthersStay
GatePageMoves == part = "gate page" /\ GatePageNext /\ OthersStay
RestrictionsMoves == part = "restrictions" /\ RestrictionsNext /\ OthersStay

ClientsNext ==
  \/ SignalingMoves \/ PeerMoves \/ CameraMoves
  \/ ModerationMoves \/ PurchaseMoves \/ GatePageMoves
  \/ RestrictionsMoves

ClientsSpec == ClientsInit /\ [][ClientsNext]_clientsVars
=============================================================================
