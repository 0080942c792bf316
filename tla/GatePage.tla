------------------------------ MODULE GatePage ------------------------------
(***************************************************************************)
(* The session gate of the page (new-frontend/src/pages/gate/Gate.tsx) and   *)
(* the tokens it keeps (lib/session.ts).  The page behind the gate has a     *)
(* socket; when the server refuses its session, the socket waits for the    *)
(* next one that is saved.  The gate must then be renewing it silently, or  *)
(* be asking the user, and not lock its own form.                           *)
(*                                                                         *)
(* An action runs up to its next await.  The tokens are shared with other    *)
(* tabs and expire: they may change at any time.                            *)
(***************************************************************************)
EXTENDS Naturals

CONSTANTS AutoRetries   \* SESSION_AUTO_RETRIES

ASSUME GatePageAssumption == AutoRetries \in Nat

VARIABLES
  config,      \* what GET /api/config said last: matchingOpen, turnstile
  view,        \* the screen
  overlay,     \* reverify is set: the form, over the page if that is shown
  sending,     \* sending.current
  submitting,
  posting,     \* POST /api/session: under way or in its back-off, silent or not
  failures,    \* retries.current.failures
  tokens,      \* in localStorage: session, age, lockedOut
  waiting,     \* the page's socket waits for a session (waitForSession)
  abandoned    \* history: a ban took the form away while what it sent was under way

gatePageVars == <<config, view, overlay, sending, submitting, posting, failures, tokens, waiting,
                  abandoned>>

Screens == {"loading", "load-error", "closed", "paused", "form", "underage", "region",
            "restricted", "turnstile-failed", "passed"}
Config == [matchingOpen : BOOLEAN, turnstile : BOOLEAN]
NoRequest == [phase |-> "none", silent |-> FALSE]

GatePageTypeOK ==
  /\ config \in Config /\ view \in Screens /\ failures \in 0 .. AutoRetries
  /\ {overlay, sending, submitting, waiting, abandoned} \subseteq BOOLEAN
  /\ posting \in [phase : {"none", "posted", "backoff"}, silent : BOOLEAN]
  /\ tokens \in [session : BOOLEAN, age : BOOLEAN, lockedOut : BOOLEAN]

\* The config is read once it is loaded; the tokens may change before.
GatePageInit ==
  /\ config = [matchingOpen |-> FALSE, turnstile |-> FALSE] /\ view = "loading" /\ overlay = FALSE
  /\ sending = FALSE /\ submitting = FALSE /\ posting = NoRequest /\ failures = 0
  /\ tokens = [session |-> FALSE, age |-> FALSE, lockedOut |-> FALSE]
  /\ waiting = FALSE /\ abandoned = FALSE

\* Only the page behind the gate has a socket.
SetView(next) == view' = next /\ waiting' = (waiting /\ next = "passed")
leave(next) == overlay' = FALSE /\ SetView(next)

------------------------------------------------------------------------------
(* The screens.                                                             *)

entryView(c) ==
  CASE tokens.lockedOut -> "underage"
    [] ~tokens.lockedOut /\ ~c.matchingOpen -> "closed"
    [] ~tokens.lockedOut /\ c.matchingOpen -> IF tokens.age /\ tokens.session THEN "passed" ELSE "form"

Sender == <<sending, submitting, posting, failures>>

\* start(), first or by a Retry button, and what loadConfig comes back with.
start ==
  /\ view \in {"load-error", "paused"} /\ SetView("loading")
  /\ UNCHANGED <<config, overlay, Sender, tokens, abandoned>>
configLoads ==
  /\ view = "loading"
  /\ \/ config' \in Config /\ SetView(entryView(config'))
     \/ UNCHANGED config /\ SetView("load-error")
  /\ UNCHANGED <<overlay, Sender, tokens, abandoned>>

\* recheckClosed finds the hours open.
recheckClosed ==
  /\ view = "closed"
  /\ config' \in Config /\ config'.matchingOpen /\ SetView(entryView(config'))
  /\ UNCHANGED <<overlay, Sender, tokens, abandoned>>

\* Any other refresh (refreshConfig).
refreshConfig ==
  /\ config' \in Config
  /\ UNCHANGED <<view, overlay, Sender, tokens, waiting, abandoned>>

\* Continue on the restriction, Retry on the failed check.
continue ==
  /\ view \in {"restricted", "turnstile-failed"} /\ SetView(entryView(config))
  /\ UNCHANGED <<config, overlay, Sender, tokens, abandoned>>

\* The socket was told of a ban.
showRestriction ==
  /\ view = "passed" /\ leave("restricted")
  /\ abandoned' = (abandoned \/ submitting)
  /\ UNCHANGED <<config, Sender, tokens>>

\* A token expires; another tab saves or clears some.
TokensChange ==
  /\ tokens' \in [session : BOOLEAN, age : BOOLEAN, lockedOut : BOOLEAN]
  /\ UNCHANGED <<config, view, overlay, Sender, waiting, abandoned>>

------------------------------------------------------------------------------
(* The request.                                                             *)

Post(silent) == posting' = [phase |-> "posted", silent |-> silent]

\* The socket's session is refused (renewSession): it waits, and the gate hears of it
\* unless a request is running already.
invalidateSession(expired) ==
  /\ view = "passed" /\ ~waiting /\ waiting' = TRUE
  /\ tokens' = [tokens EXCEPT !.session = FALSE]
  /\ IF sending THEN UNCHANGED <<overlay, sending, posting>>
     ELSE IF expired /\ tokens.age /\ ~config.turnstile
     THEN sending' = TRUE /\ Post(TRUE) /\ UNCHANGED overlay
     ELSE overlay' = TRUE /\ UNCHANGED <<sending, posting>>
  /\ UNCHANGED <<config, view, submitting, failures, abandoned>>

FormShown == view = "form" \/ (view = "passed" /\ overlay)

\* With a date of birth, or with the age token, which may be gone.
submit(dob) ==
  /\ FormShown /\ ~submitting /\ ~sending
  /\ IF dob \/ tokens.age
     THEN /\ sending' = TRUE /\ submitting' = TRUE /\ Post(FALSE)
          /\ UNCHANGED <<view, overlay, waiting>>
     ELSE UNCHANGED <<view, overlay, waiting, sending, submitting, posting>>   \* the form asks again
  /\ UNCHANGED <<config, failures, tokens, abandoned>>

\* A transient refusal, or no answer to a silent renewal, is sent again later.
backoff ==
  /\ posting.phase = "posted" /\ failures < AutoRetries
  /\ failures' = failures + 1 /\ posting' = [posting EXCEPT !.phase = "backoff"]
  /\ UNCHANGED <<config, view, overlay, sending, submitting, tokens, waiting, abandoned>>
resend ==
  /\ posting.phase = "backoff" /\ posting' = [posting EXCEPT !.phase = "posted"]
  /\ UNCHANGED <<config, view, overlay, sending, submitting, failures, tokens, waiting, abandoned>>

RequestEnds ==
  /\ posting.phase = "posted" /\ posting' = NoRequest
  /\ failures' = 0 /\ sending' = FALSE /\ submitting' = FALSE

\* Mutant.
GivesUpQuietly ==
  /\ RequestEnds /\ (posting.silent => failures = AutoRetries)
  /\ UNCHANGED <<config, view, overlay, tokens, waiting, abandoned>>

\* Out of automatic tries, or no answer to the user's own: the form says so; after a
\* silent renewal it is opened.
exhausted ==
  /\ RequestEnds /\ (posting.silent => failures = AutoRetries)
  /\ overlay' = (overlay \/ posting.silent)
  /\ UNCHANGED <<config, view, tokens, waiting, abandoned>>

\* saveSession wakes whoever waits.
granted ==
  /\ RequestEnds
  /\ tokens' = [session |-> TRUE, age |-> TRUE, lockedOut |-> FALSE]
  /\ overlay' = FALSE /\ view' = "passed" /\ waiting' = FALSE /\ abandoned' = FALSE
  /\ UNCHANGED config

\* handleResponse of a refusal: a screen, or the form (over the page), or an error in it.
refused ==
  /\ RequestEnds
  /\ \/ /\ leave("underage")
        /\ tokens' = [session |-> FALSE, age |-> FALSE, lockedOut |-> TRUE]
     \/ \E next \in {"region", "turnstile-failed", "paused", "restricted"} :
          leave(next) /\ UNCHANGED tokens
     \/ /\ tokens' = [tokens EXCEPT !.age = FALSE]
        /\ IF view = "passed" THEN overlay' = TRUE /\ UNCHANGED <<view, waiting>>
           ELSE overlay' = (overlay \/ posting.silent) /\ SetView("form")
     \/ overlay' = (overlay \/ posting.silent) /\ UNCHANGED <<tokens, view, waiting>>
  /\ UNCHANGED <<config, abandoned>>

GatePageNext ==
  \/ start \/ configLoads \/ recheckClosed \/ refreshConfig \/ continue \/ showRestriction \/ TokensChange
  \/ \E expired \in BOOLEAN : invalidateSession(expired)
  \/ \E dob \in BOOLEAN : submit(dob)
  \/ backoff \/ resend \/ exhausted \/ granted \/ refused

GatePageSpec == GatePageInit /\ [][GatePageNext]_gatePageVars

------------------------------------------------------------------------------
(* Properties.                                                              *)

\* A socket that waits for a session is not left waiting: a request is under way or
\* in its back-off, or the form is over the page; and the form the user sees is never
\* locked without a request (the listener of onSessionInvalidated, send).  Excepted: a
\* ban that took the form away while its request was under way.
NeverLeftWaiting ==
  /\ waiting => posting.phase # "none" \/ overlay \/ abandoned
  /\ sending \/ submitting => posting.phase # "none"
=============================================================================
