------------------------------- MODULE Camera -------------------------------
(***************************************************************************)
(* The local camera and microphone (new-frontend/src/hooks/useMediaStream). *)
(*                                                                         *)
(* getUserMedia answers late: meanwhile the user leaves the room, flips the *)
(* camera, mutes, or the page comes back from the background.  Every answer *)
(* that is no longer wanted has to be stopped, or the device stays on with  *)
(* nobody showing it.                                                       *)
(*                                                                         *)
(* An action runs up to its next await.  A MediaStream is the set of its    *)
(* tracks, which no two streams share all of.                               *)
(***************************************************************************)
EXTENDS Naturals, Sequences

CONSTANTS Ask    \* the calls of getUserMedia that may be made, each for one purpose

VARIABLES
  tracks,   \* every track opened: kind, live, enabled, facing
  stream,   \* streamRef: the tracks of the current stream, {} for null
  request,  \* requestRef
  mounted,  \* mountedRef
  wants,    \* enabledRef and the state shown: mic, camera
  facing,   \* facingRef and the state shown
  asks      \* what each call is for, and what it read before it awaited

cameraVars == <<tracks, stream, request, mounted, wants, facing, asks>>

Facing == {"user", "environment"}
Purposes == {"none", "getCam", "flip", "flipBack", "visible", "done"}

CameraTypeOK ==
  /\ \A t \in DOMAIN tracks :
       tracks[t] \in [kind : {"audio", "video"}, live : BOOLEAN, enabled : BOOLEAN, facing : Facing]
  /\ stream \subseteq DOMAIN tracks
  /\ request \in Nat /\ mounted \in BOOLEAN
  /\ wants \in [mic : BOOLEAN, camera : BOOLEAN] /\ facing \in Facing
  /\ asks \in [Ask -> [for : Purposes, request : Nat, current : SUBSET DOMAIN tracks, facing : Facing]]

Unasked == [for |-> "none", request |-> 0, current |-> {}, facing |-> "user"]
Done == [Unasked EXCEPT !.for = "done"]
OtherSide(f) == CHOOSE g \in Facing : g # f

------------------------------------------------------------------------------
(* Tracks.                                                                  *)

OfKind(ts, s, kind) == {t \in s : ts[t].kind = kind}
Stop(ts, s) == [t \in DOMAIN ts |-> IF t \in s THEN [ts[t] EXCEPT !.live = FALSE] ELSE ts[t]]
Enable(ts, s, on) == [t \in DOMAIN ts |-> IF t \in s THEN [ts[t] EXCEPT !.enabled = on] ELSE ts[t]]

\* What getUserMedia opens, and where it stands in tracks.
Opened(audio, f) ==
  LET track(kind) == [kind |-> kind, live |-> TRUE, enabled |-> TRUE, facing |-> f]
  IN  IF audio THEN <<track("video"), track("audio")>> ELSE <<track("video")>>
Fresh(ts, opened) == {Len(ts) + k : k \in DOMAIN opened}

------------------------------------------------------------------------------
(* getCam and stopStream.                                                   *)

\* getCam up to its await, from a stream that was stopped or never opened.
AskForCamera(c, ts, before) ==
  /\ asks[c].for = "none"
  /\ tracks' = ts /\ stream' = {} /\ request' = before + 1
  /\ asks' = [asks EXCEPT ![c] = [Unasked EXCEPT !.for = "getCam", !.request = before + 1, !.facing = facing]]
  /\ UNCHANGED <<mounted, wants, facing>>

\* The user retries after an error, when nothing is open.
retryCamera(c) == mounted /\ stream = {} /\ AskForCamera(c, tracks, request)

\* Leaving the room stops the stream and asks for a new one.
restartCamera(c) == mounted /\ AskForCamera(c, Stop(tracks, stream), request + 1)

\* The page goes: stopStream.
unmount ==
  /\ mounted /\ mounted' = FALSE
  /\ request' = request + 1 /\ tracks' = Stop(tracks, stream) /\ stream' = {}
  /\ UNCHANGED <<wants, facing, asks>>

IsCurrent(c) == asks[c].request = request /\ mounted

\* The answer to getCam; a computer may have no microphone.
cameraOpens(c) ==
  /\ asks[c].for = "getCam"
  /\ asks' = [asks EXCEPT ![c] = Done]
  /\ \E audio \in BOOLEAN :
       LET opened == Opened(audio, asks[c].facing)
           ts == tracks \o opened
       IN  IF IsCurrent(c)
           THEN /\ tracks' = Stop(ts, stream) /\ stream' = Fresh(tracks, opened)
                /\ wants' = [mic |-> TRUE, camera |-> TRUE]
           ELSE /\ tracks' = Stop(ts, Fresh(tracks, opened)) /\ UNCHANGED <<stream, wants>>
  /\ UNCHANGED <<request, mounted, facing>>

cameraFails(c) ==
  /\ asks[c].for = "getCam"
  /\ asks' = [asks EXCEPT ![c] = Done]
  /\ IF IsCurrent(c) THEN tracks' = Stop(tracks, stream) /\ stream' = {}
                     ELSE UNCHANGED <<tracks, stream>>
  /\ UNCHANGED <<request, mounted, wants, facing>>

------------------------------------------------------------------------------
(* reacquire: the camera flip, and the page that comes back.                *)

VideoOnly(for) == for \in {"flip", "flipBack"}

\* reacquire up to its await.
AskAgain(c, for, f) ==
  /\ stream # {}
  /\ asks' = [asks EXCEPT ![c] = [for |-> for, request |-> request, current |-> stream, facing |-> f]]
  /\ tracks' = IF VideoOnly(for) THEN Stop(tracks, OfKind(tracks, stream, "video")) ELSE tracks
  /\ UNCHANGED <<stream, request, mounted, wants, facing>>

flipCamera(c) == asks[c].for = "none" /\ mounted /\ AskAgain(c, "flip", OtherSide(facing))

\* The page is visible again and a track has ended, or the system muted the video,
\* as it may at any time (needsReacquire).
onVisible(c) ==
  /\ asks[c].for = "none" /\ mounted
  /\ \E t \in stream : ~tracks[t].live \/ tracks[t].kind = "video"
  /\ AskAgain(c, "visible", facing)

\* Mutant.
OvertakenIgnored(c) == ~IsCurrent(c)
\* Somebody else stopped or replaced the stream meanwhile.
Overtaken(c) == ~IsCurrent(c) \/ stream # asks[c].current

\* reacquire gives its fresh tracks up; a flip then puts the previous camera back.
GiveUp(c, ts) ==
  IF asks[c].for = "flip" /\ stream # {}
  THEN /\ asks' = [asks EXCEPT ![c] =
                     [for |-> "flipBack", request |-> request, current |-> stream, facing |-> facing]]
       /\ tracks' = Stop(ts, OfKind(ts, stream, "video"))
  ELSE asks' = [asks EXCEPT ![c] = Done] /\ tracks' = ts

reopens(c) ==
  LET a == asks[c]
      keeps == IF VideoOnly(a.for) THEN OfKind(tracks, a.current, "audio") ELSE {}
      opened == Opened(~VideoOnly(a.for) /\ OfKind(tracks, a.current, "audio") # {}, a.facing)
      fresh == Fresh(tracks, opened)
      ts == tracks \o opened
      next == keeps \cup fresh
      stopped == IF VideoOnly(a.for) THEN ts ELSE Stop(ts, a.current)
  IN  /\ a.for \in {"flip", "flipBack", "visible"}
      /\ \/ /\ Overtaken(c)
            /\ GiveUp(c, Stop(ts, fresh))
            /\ UNCHANGED <<stream, facing>>
         \/ /\ ~Overtaken(c)
            /\ tracks' = Enable(Enable(stopped, OfKind(ts, next, "audio"), wants.mic),
                                OfKind(ts, fresh, "video"), wants.camera)
            /\ stream' = next
            /\ facing' = IF a.for = "flip" THEN a.facing ELSE facing
            /\ asks' = [asks EXCEPT ![c] = Done]
      /\ UNCHANGED <<request, mounted, wants>>

reopenFails(c) ==
  /\ asks[c].for \in {"flip", "flipBack", "visible"}
  /\ GiveUp(c, tracks)
  /\ UNCHANGED <<stream, request, mounted, wants, facing>>

------------------------------------------------------------------------------
(* Mute, camera off, and what the system does.                              *)

setMicEnabled(on) ==
  /\ mounted /\ wants' = [wants EXCEPT !.mic = on]
  /\ tracks' = Enable(tracks, OfKind(tracks, stream, "audio"), on)
  /\ UNCHANGED <<stream, request, mounted, facing, asks>>

setCameraEnabled(on) ==
  /\ mounted /\ wants' = [wants EXCEPT !.camera = on]
  /\ tracks' = Enable(tracks, OfKind(tracks, stream, "video"), on)
  /\ UNCHANGED <<stream, request, mounted, facing, asks>>

\* The system ends tracks in the background (iOS), or a device is unplugged.
SystemEnds(kind) ==
  /\ OfKind(tracks, stream, kind) # {}
  /\ tracks' = Stop(tracks, OfKind(tracks, stream, kind))
  /\ UNCHANGED <<stream, request, mounted, wants, facing, asks>>

------------------------------------------------------------------------------
First == CHOOSE c \in Ask : TRUE

\* The page was mounted and asked for the camera.
CameraInit ==
  /\ tracks = <<>> /\ stream = {} /\ request = 1 /\ mounted = TRUE
  /\ wants = [mic |-> TRUE, camera |-> TRUE] /\ facing = "user"
  /\ asks = [c \in Ask |-> IF c = First THEN [Unasked EXCEPT !.for = "getCam", !.request = 1] ELSE Unasked]

CameraNext ==
  \/ unmount
  \/ \E c \in Ask : \/ retryCamera(c) \/ restartCamera(c) \/ cameraOpens(c) \/ cameraFails(c)
                    \/ flipCamera(c) \/ onVisible(c) \/ reopens(c) \/ reopenFails(c)
  \/ \E on \in BOOLEAN : setMicEnabled(on) \/ setCameraEnabled(on)
  \/ \E kind \in {"audio", "video"} : SystemEnds(kind)

CameraSpec == CameraInit /\ [][CameraNext]_cameraVars

------------------------------------------------------------------------------
(* Properties.                                                              *)

\* Whatever answers late, every camera and microphone that is on belongs to the
\* stream the page shows, is muted or dark exactly when the buttons say so, and
\* looks the way the page shows; once the page is gone all of them are off
\* (useMediaStream, stopStream).
CaptureIsShown ==
  \A t \in DOMAIN tracks : tracks[t].live =>
    /\ mounted /\ t \in stream
    /\ IF tracks[t].kind = "audio" THEN tracks[t].enabled = wants.mic
       ELSE tracks[t].enabled = wants.camera /\ tracks[t].facing = facing
=============================================================================
