----------------------------- MODULE Moderation -----------------------------
(***************************************************************************)
(* The blur over the partner's video (new-frontend/src/moderation): each    *)
(* call has a BlurMonitor of its own, which sends frames to the one worker  *)
(* with the model (ModelClient) and tells the page what to show.  Verdicts  *)
(* come late: the model still loads, it hangs, the call is over meanwhile.  *)
(*                                                                         *)
(* An action runs up to its next await or timer.  A frame is what the model *)
(* would say of it.  Streaks above SafeStreak are not told apart.           *)
(***************************************************************************)
EXTENDS Naturals, Sequences

CONSTANTS
  SafeStreak,   \* SAFE_STREAK
  MaxCalls      \* bound: calls of one behaviour

ASSUME ModerationAssumption == SafeStreak \in Nat \ {0} /\ MaxCalls \in Nat

VARIABLES
  model,      \* ModelClient.status
  monitors,   \* one for each call so far
  call,       \* the call on the page, 0 between calls (roomId)
  shown       \* the status React shows (useRemoteBlur)

moderationVars == <<model, monitors, call, shown>>

Verdicts == {"checking", "safe", "flagged", "unavailable", "revealed"}
BlurSignals == {"nsfw-blur", "model-unavailable"}

ModerationTypeOK ==
  /\ model \in {"idle", "loading", "ready", "failed"}
  /\ \A c \in DOMAIN monitors : monitors[c] \in
       [status : Verdicts, safeStreak : 0 .. SafeStreak, stopped : BOOLEAN,
        tick : {"timer", "loading", "running", "over"}, frame : BOOLEAN,
        deadline : {"unset", "set", "over"}, signaled : SUBSET BlurSignals,
        passed : 0 .. SafeStreak, unsafe : BOOLEAN, gaveUp : BOOLEAN, tapped : BOOLEAN]
  /\ call \in 0 .. Len(monitors)
  /\ shown \in Verdicts

\* frame: the one at the model is unsafe.  History: the safe frames the monitor heard
\* of, whether it heard of an unsafe one, of a failure or the deadline, and of a tap.
NewMonitor ==
  [status |-> "checking", safeStreak |-> 0, stopped |-> FALSE, tick |-> "timer", frame |-> FALSE,
   deadline |-> "unset", signaled |-> {}, passed |-> 0, unsafe |-> FALSE, gaveUp |-> FALSE, tapped |-> FALSE]

ModerationInit == model = "idle" /\ monitors = <<>> /\ call = 0 /\ shown = "checking"

------------------------------------------------------------------------------
(* The reducer.                                                             *)

OneMore(n) == IF n < SafeStreak THEN n + 1 ELSE n

blurReducer(m, event) ==
  CASE event = "unsafe" /\ m.status # "flagged" -> [m EXCEPT !.status = "flagged", !.safeStreak = 0]
    [] event = "safe" /\ m.status # "flagged" ->
         [m EXCEPT !.safeStreak = OneMore(@),
                   !.status = IF OneMore(m.safeStreak) = SafeStreak THEN "safe" ELSE @]
    [] event = "model-unavailable" /\ m.status \in {"checking", "safe"} ->
         [m EXCEPT !.status = "unavailable", !.safeStreak = 0]
    [] event = "deadline" /\ m.status = "checking" -> [m EXCEPT !.status = "unavailable"]
    [] event = "reveal" /\ m.status = "unavailable" -> [m EXCEPT !.status = "revealed"]
    [] OTHER -> m

Heard(m, event) ==
  [m EXCEPT !.passed = IF event = "safe" THEN OneMore(@) ELSE @,
            !.unsafe = @ \/ event = "unsafe",
            !.gaveUp = @ \/ event \in {"model-unavailable", "deadline"},
            !.tapped = @ \/ event = "reveal"]

SignalOf(status) ==
  CASE status = "flagged" -> {"nsfw-blur"}
    [] status = "unavailable" -> {"model-unavailable"}
    [] OTHER -> {}

\* apply: the page hears of a change of the status, the server of the first of a kind.
\* m is the monitor of call c, with what else the step does to it.
Reduced(c, m, event) ==
  LET reduced == blurReducer(Heard(m, event), event)
      changed == reduced.status # m.status
  IN  /\ monitors' = [monitors EXCEPT ![c] =
           [reduced EXCEPT !.signaled = IF changed THEN @ \cup SignalOf(reduced.status) ELSE @]]
      /\ shown' = IF changed THEN reduced.status ELSE shown

------------------------------------------------------------------------------
(* The page.                                                                *)

\* Mutant.
StoppedTimers(m) == [m EXCEPT !.tick = IF @ = "timer" THEN "over" ELSE @, !.deadline = "over"]

\* stop() clears the timers; a verdict under way finds the monitor stopped.  The rest of
\* a stopped monitor is not read again.
StoppedMonitor(m) ==
  [NewMonitor EXCEPT !.stopped = TRUE, !.tick = IF m.tick = "timer" THEN "over" ELSE m.tick,
                     !.frame = m.frame, !.deadline = "over"]

Stopping == [c \in DOMAIN monitors |-> IF c = call THEN StoppedMonitor(monitors[c]) ELSE monitors[c]]

\* The effect of a new roomId.
enterCall ==
  /\ Len(monitors) < MaxCalls
  /\ monitors' = Append(Stopping, NewMonitor)
  /\ call' = Len(monitors') /\ shown' = "checking"
  /\ UNCHANGED model

leaveCall ==
  /\ call # 0 /\ call' = 0
  /\ monitors' = Stopping /\ shown' = "checking"
  /\ UNCHANGED model

\* "Tap to show video".
reveal ==
  /\ call # 0 /\ shown = "unavailable"
  /\ Reduced(call, monitors[call], "reveal")
  /\ UNCHANGED <<model, call>>

------------------------------------------------------------------------------
(* The model, shared by all calls (ModelClient).                            *)

\* The first load() creates the worker, which may fail at once.
Loading == IF model = "idle" THEN {"loading", "failed"} ELSE {model}

preloadModels == model = "idle" /\ model' \in Loading /\ UNCHANGED <<monitors, call, shown>>
loaded == model = "loading" /\ model' = "ready" /\ UNCHANGED <<monitors, call, shown>>

\* A load error, or an error of the worker at any time; it is never started again.
fail == model \in {"loading", "ready"} /\ model' = "failed" /\ UNCHANGED <<monitors, call, shown>>

------------------------------------------------------------------------------
(* The sampling loop.                                                       *)

\* The timer finds a frame; the first one sets the deadline.
grab(c) ==
  /\ monitors[c].tick = "timer"
  /\ \E unsafe \in BOOLEAN :
       monitors' = [monitors EXCEPT ![c].tick = "loading", ![c].frame = unsafe,
                                    ![c].deadline = IF @ = "unset" THEN "set" ELSE @]
  /\ model' \in Loading
  /\ UNCHANGED <<call, shown>>

\* load() has resolved: the frame goes to the worker.
post(c) ==
  /\ monitors[c].tick = "loading" /\ model = "ready"
  /\ monitors' = [monitors EXCEPT ![c].tick = "running"]
  /\ UNCHANGED <<model, call, shown>>

\* What classify() comes back with; a stopped monitor does not look at it.
Classified(c, event) ==
  /\ IF monitors[c].stopped
     THEN monitors' = [monitors EXCEPT ![c].tick = "over"] /\ UNCHANGED shown
     ELSE Reduced(c, [monitors[c] EXCEPT !.tick = "timer"], event)
  /\ UNCHANGED <<model, call>>

verdict(c) ==
  /\ monitors[c].tick = "running" /\ model = "ready"
  /\ Classified(c, IF monitors[c].frame THEN "unsafe" ELSE "safe")

\* The worker's error for this frame, or RUN_TIMEOUT_MS; a later answer is dropped.
runFails(c) == monitors[c].tick = "running" /\ Classified(c, "model-unavailable")

\* The model has failed: load() rejects, or run() finds it not ready.
loadFails(c) ==
  monitors[c].tick = "loading" /\ model = "failed" /\ Classified(c, "model-unavailable")

\* VERDICT_DEADLINE_MS after the first frame.
deadline(c) ==
  /\ monitors[c].deadline = "set"
  /\ Reduced(c, [monitors[c] EXCEPT !.deadline = "over"], "deadline")
  /\ UNCHANGED <<model, call>>

ModerationNext ==
  \/ enterCall \/ leaveCall \/ reveal
  \/ preloadModels \/ loaded \/ fail
  \/ \E c \in DOMAIN monitors :
       grab(c) \/ post(c) \/ verdict(c) \/ runFails(c) \/ loadFails(c) \/ deadline(c)

ModerationSpec == ModerationInit /\ [][ModerationNext]_moderationVars

------------------------------------------------------------------------------
(* Properties.                                                              *)

\* The video of this call is visible only for reasons of this call: SafeStreak of its
\* frames passed, or the model gave up and the viewer tapped; never once a frame of
\* it was unsafe, which the server was told (BlurMonitor, useRemoteBlur).  No verdict
\* for an earlier call, late as it is, changes what is shown.
VideoIsCleared ==
  IF call = 0 THEN shown = "checking"
  ELSE LET m == monitors[call] IN
       /\ shown = m.status
       /\ shown = "safe" => m.passed = SafeStreak
       /\ shown = "revealed" => m.gaveUp /\ m.tapped
       /\ m.unsafe => shown = "flagged" /\ "nsfw-blur" \in m.signaled
=============================================================================
