---------------------------- MODULE Tab_proofs ----------------------------
(* Theorems about the parts of a browser tab: the session gate of the page,   *)
(* a purchase, the blur over the partner's video, the camera, the negotiation *)
(* of a call, the way its socket comes back and what it shows.  The parts     *)
(* share no state.                                                           *)
EXTENDS GatePage, Purchase, Moderation, Camera, Peer, Signaling, SequenceTheorems, TLAPS

(***************************************************************************)
(* GatePage.                                                               *)
(***************************************************************************)

PostingType == [phase : {"none", "posted", "backoff"}, silent : BOOLEAN]
TokensType == [session : BOOLEAN, age : BOOLEAN, lockedOut : BOOLEAN]

LEMMA PostType ==
  /\ \A silent \in BOOLEAN : [phase |-> "posted", silent |-> silent] \in PostingType
  /\ [phase |-> "posted", silent |-> TRUE] \in PostingType
  /\ [phase |-> "posted", silent |-> FALSE] \in PostingType
  /\ NoRequest \in PostingType
BY DEF PostingType, NoRequest

LEMMA ForgottenAge ==
  /\ \A t \in TokensType : [t EXCEPT !.age = FALSE] \in TokensType
  /\ [session |-> FALSE, age |-> FALSE, lockedOut |-> TRUE] \in TokensType
BY DEF TokensType

LEMMA GatePageBooleans ==
  ASSUME GatePageTypeOK
  PROVE  /\ overlay \in BOOLEAN /\ sending \in BOOLEAN /\ submitting \in BOOLEAN
         /\ waiting \in BOOLEAN /\ abandoned \in BOOLEAN
         /\ posting \in PostingType /\ tokens \in TokensType
BY DEF GatePageTypeOK, PostingType, TokensType

LEMMA GatePageScreensType ==
  ASSUME GatePageTypeOK,
         start \/ configLoads \/ recheckClosed \/ refreshConfig \/ continue \/ showRestriction
  PROVE  GatePageTypeOK'
<1> USE GatePageBooleans DEF GatePageTypeOK, Sender
<1>1. ASSUME NEW c \in Config
      PROVE  entryView(c) \in Screens
  BY <1>1 DEF entryView, Screens, Config
<1>2. CASE start
  BY <1>2 DEF start, SetView, Screens
<1>3. CASE configLoads
  BY <1>1, <1>3 DEF configLoads, SetView, Screens
<1>4. CASE recheckClosed \/ refreshConfig
  BY <1>1, <1>4 DEF recheckClosed, refreshConfig, SetView
<1>5. CASE continue
  BY <1>1, <1>5 DEF continue, SetView
<1>6. CASE showRestriction
  BY <1>6 DEF showRestriction, leave, SetView, Screens
<1> QED
  BY <1>2, <1>3, <1>4, <1>5, <1>6

LEMMA GatePageRequestsType ==
  ASSUME GatePageTypeOK,
         \/ TokensChange
         \/ \E expired \in BOOLEAN : invalidateSession(expired)
         \/ \E dob \in BOOLEAN : submit(dob)
         \/ backoff \/ resend
  PROVE  GatePageTypeOK'
<1> USE DEF GatePageTypeOK, Sender
<1>1. CASE TokensChange
  BY <1>1, Zenon DEF TokensChange
<1>2. ASSUME NEW expired \in BOOLEAN, invalidateSession(expired)
      PROVE  GatePageTypeOK'
  <2>1. /\ overlay' \in BOOLEAN /\ sending' \in BOOLEAN /\ waiting' \in BOOLEAN
        /\ posting' \in PostingType
    BY <1>2, GatePageBooleans, PostType, Zenon DEF invalidateSession, Post
  <2>2. tokens' \in TokensType
    BY <1>2, GatePageBooleans DEF invalidateSession, TokensType
  <2>3. UNCHANGED <<config, view, submitting, failures, abandoned>>
    BY <1>2, Zenon DEF invalidateSession
  <2> QED
    BY <2>1, <2>2, <2>3, GatePageBooleans DEF PostingType, TokensType
<1>3. ASSUME NEW dob \in BOOLEAN, submit(dob)
      PROVE  GatePageTypeOK'
  <2>1. sending' \in BOOLEAN /\ submitting' \in BOOLEAN /\ posting' \in PostingType
    BY <1>3, GatePageBooleans, PostType, Zenon DEF submit, Post
  <2>2. UNCHANGED <<config, view, overlay, waiting, failures, tokens, abandoned>>
    BY <1>3, Zenon DEF submit
  <2> QED
    BY <2>1, <2>2, GatePageBooleans DEF PostingType
<1>4. CASE backoff \/ resend
  BY <1>4, GatePageAssumption DEF backoff, resend
<1> QED
  BY <1>1, <1>2, <1>3, <1>4

LEMMA GatePageAnswersType ==
  ASSUME GatePageTypeOK, exhausted \/ granted \/ refused
  PROVE  GatePageTypeOK'
<1> USE DEF GatePageTypeOK
<1>1. sending' = FALSE /\ submitting' = FALSE /\ posting' \in PostingType /\ failures' = 0
  BY PostType, Zenon DEF exhausted, granted, refused, RequestEnds
<1>2. config' = config
  BY Zenon DEF exhausted, granted, refused
<1>3. overlay' \in BOOLEAN /\ waiting' \in BOOLEAN /\ abandoned' \in BOOLEAN
  <2>1. CASE exhausted \/ granted
    BY <2>1, GatePageBooleans, Zenon DEF exhausted, granted
  <2>2. CASE refused
    BY <2>2, GatePageBooleans, Zenon DEF refused, leave, SetView
  <2> QED
    BY <2>1, <2>2
<1>4. view' \in Screens
  <2>1. CASE exhausted \/ granted
    BY <2>1 DEF exhausted, granted, Screens
  <2>2. CASE refused
    BY <2>2 DEF refused, leave, SetView, Screens
  <2> QED
    BY <2>1, <2>2
<1>5. tokens' \in TokensType
  <2>1. CASE exhausted
    BY <2>1, GatePageBooleans, Zenon DEF exhausted
  <2>2. CASE granted
    BY <2>2 DEF granted, TokensType
  <2>3. CASE refused
    <3>1. \/ tokens' = [session |-> FALSE, age |-> FALSE, lockedOut |-> TRUE]
          \/ tokens' = tokens
          \/ tokens' = [tokens EXCEPT !.age = FALSE]
      BY <2>3, Zenon DEF refused
    <3>2. /\ tokens \in TokensType
          /\ \A t \in TokensType : [t EXCEPT !.age = FALSE] \in TokensType
          /\ [session |-> FALSE, age |-> FALSE, lockedOut |-> TRUE] \in TokensType
      BY GatePageBooleans, ForgottenAge, Zenon
    <3> QED
      BY <3>1, <3>2, Zenon
  <2> QED
    BY <2>1, <2>2, <2>3
<1>6. failures' \in 0 .. AutoRetries
  BY <1>1, GatePageAssumption
<1> QED
  BY <1>1, <1>2, <1>3, <1>4, <1>5, <1>6, Zenon DEF PostingType, TokensType

LEMMA GatePageNextType ==
  ASSUME GatePageTypeOK, [GatePageNext]_gatePageVars
  PROVE  GatePageTypeOK'
<1>1. CASE UNCHANGED gatePageVars
  BY <1>1 DEF gatePageVars, GatePageTypeOK
<1>2. CASE GatePageNext
  BY <1>2, GatePageScreensType, GatePageRequestsType, GatePageAnswersType, Zenon DEF GatePageNext
<1> QED
  BY <1>1, <1>2

\* What the page knows of its request.  Only the page behind the gate has a socket,
\* and a form that was sent is still there, unless a ban took it away.
Attended ==
  /\ sending <=> posting.phase # "none"
  /\ submitting <=> posting.phase # "none" /\ ~posting.silent
  /\ waiting => view = "passed"
  /\ waiting => posting.phase # "none" \/ overlay \/ abandoned
  /\ submitting => abandoned \/ view = "form" \/ (view = "passed" /\ overlay)

LEMMA AttendedStep ==
  ASSUME GatePageTypeOK, Attended, [GatePageNext]_gatePageVars
  PROVE  Attended'
<1> USE GatePageBooleans DEF Attended, Sender
<1>1. CASE UNCHANGED gatePageVars
  BY <1>1 DEF gatePageVars
<1>2. CASE start \/ configLoads \/ recheckClosed \/ refreshConfig \/ continue
  <2>1. /\ UNCHANGED <<sending, submitting, posting, overlay, abandoned>>
        /\ \/ view' = view /\ waiting' = waiting
           \/ waiting' = FALSE /\ view # "form" /\ view # "passed"
    BY <1>2 DEF start, configLoads, recheckClosed, refreshConfig, continue, SetView
  <2> QED
    BY <2>1
<1>3. CASE showRestriction
  <2>1. /\ UNCHANGED <<sending, submitting, posting>>
        /\ waiting' = FALSE /\ (submitting => abandoned' = TRUE)
    BY <1>3 DEF showRestriction, SetView, leave
  <2> QED
    BY <2>1, Zenon
<1>3a. CASE TokensChange
  <2>1. UNCHANGED <<sending, submitting, posting, overlay, abandoned, view, waiting>>
    BY <1>3a DEF TokensChange
  <2> QED
    BY <2>1, Zenon
<1>4. ASSUME NEW expired \in BOOLEAN, invalidateSession(expired)
      PROVE  Attended'
  <2>1. /\ UNCHANGED <<view, submitting, abandoned>> /\ view = "passed"
        /\ \/ sending = TRUE /\ UNCHANGED <<overlay, sending, posting>>
           \/ sending = FALSE /\ sending' = TRUE /\ posting' = [phase |-> "posted", silent |-> TRUE] /\ UNCHANGED overlay
           \/ sending = FALSE /\ overlay' = TRUE /\ UNCHANGED <<sending, posting>>
    BY <1>4 DEF invalidateSession, Post
  <2> QED
    BY <2>1
<1>5. ASSUME NEW dob \in BOOLEAN, submit(dob)
      PROVE  Attended'
  <2>1. /\ UNCHANGED <<view, overlay, waiting, abandoned>>
        /\ view = "form" \/ (view = "passed" /\ overlay)
        /\ \/ sending' = TRUE /\ submitting' = TRUE /\ posting' = [phase |-> "posted", silent |-> FALSE]
           \/ UNCHANGED <<sending, submitting, posting>>
    BY <1>5 DEF submit, Post, FormShown
  <2> QED
    BY <2>1
<1>6. CASE backoff \/ resend
  BY <1>6 DEF backoff, resend, PostingType
<1>7. CASE exhausted \/ granted
  BY <1>7 DEF exhausted, granted, RequestEnds, NoRequest
<1>8. CASE refused
  <2>1. /\ sending' = FALSE /\ submitting' = FALSE /\ posting' = NoRequest
        /\ abandoned' = abandoned
        /\ \/ waiting' = FALSE
           \/ waiting' = waiting /\ view' = view /\ overlay' = TRUE
           \/ waiting' = waiting /\ view' = view /\ overlay' = (overlay \/ posting.silent)
    BY <1>8 DEF refused, RequestEnds, leave, SetView
  <2> QED
    BY <2>1 DEF NoRequest, PostingType
<1> QED
  BY <1>1, <1>2, <1>3, <1>3a, <1>4, <1>5, <1>6, <1>7, <1>8, Zenon DEF GatePageNext

\* The session gate (SessionGate.tsx, useSessionGate) never leaves the visitor on a
\* waiting screen with nothing under way: a request, a retry or an answer is always to
\* come, for any tokens, flags and order of the answers.
THEOREM NeverLeftWaitingCorrect == GatePageSpec => []NeverLeftWaiting
<1>1. GatePageInit => GatePageTypeOK /\ Attended
  <2> SUFFICES ASSUME GatePageInit
               PROVE  GatePageTypeOK /\ Attended
    OBVIOUS
  <2>1. /\ config \in Config /\ view \in Screens /\ failures \in 0 .. AutoRetries
        /\ tokens \in TokensType
    BY GatePageAssumption DEF GatePageInit, Config, Screens, TokensType
  <2>2. GatePageTypeOK
    BY <2>1, PostType, Zenon DEF GatePageInit, GatePageTypeOK, PostingType, TokensType
  <2>3. Attended
    BY DEF GatePageInit, Attended, NoRequest
  <2> QED
    BY <2>2, <2>3
<1>2. GatePageTypeOK /\ Attended /\ [GatePageNext]_gatePageVars => GatePageTypeOK' /\ Attended'
  BY GatePageNextType, AttendedStep
<1>3. GatePageTypeOK /\ Attended => NeverLeftWaiting
  BY GatePageBooleans, Zenon DEF Attended, NeverLeftWaiting
<1> QED
  BY <1>1, <1>2, <1>3, PTL DEF GatePageSpec

(***************************************************************************)
(* Purchase.                                                               *)
(***************************************************************************)

LoopType == [phase : {"none", "posting", "waiting"}, cancelled : BOOLEAN]
BuyingType == {"none", "ordering", "checkout", "verifying", "done"}
FateType == {"unpaid", "owed", "answered", "givenUp", "lost"}

\* PurchaseTypeOK, one variable at a time.
PurchaseTyped ==
  /\ page \in BOOLEAN
  /\ slot \in Payment \cup {NoPayment} /\ settling \in Payment \cup {NoPayment}
  /\ buying \in [Payment -> BuyingType] /\ loops \in [Payment -> LoopType]
  /\ fate \in [Payment -> FateType] /\ overlapped \subseteq Payment

LEMMA NoLoopType == NoLoop \in LoopType
BY DEF NoLoop, LoopType

LEMMA LoopSteps ==
  ASSUME NEW l \in LoopType, NEW phase \in {"posting", "waiting"}
  PROVE  /\ [l EXCEPT !.phase = phase] \in LoopType
         /\ [l EXCEPT !.phase = phase].phase = phase
         /\ [l EXCEPT !.phase = phase].cancelled = l.cancelled
         /\ [phase |-> phase, cancelled |-> FALSE] \in LoopType
         /\ [l EXCEPT !.cancelled = TRUE] \in LoopType
         /\ [l EXCEPT !.cancelled = TRUE].cancelled = TRUE
BY DEF LoopType

\* Cancel leaves a loop alone, ends it or marks it cancelled.
LEMMA CancelLoops ==
  ASSUME PurchaseTyped
  PROVE  /\ Cancel(loops) \in [Payment -> LoopType]
         /\ \A p \in Payment : \/ Cancel(loops)[p] = loops[p]
                               \/ Cancel(loops)[p] = NoLoop
                               \/ Cancel(loops)[p].cancelled = TRUE
<1>1. \A p \in Payment : [loops[p] EXCEPT !.cancelled = TRUE] \in LoopType
                         /\ [loops[p] EXCEPT !.cancelled = TRUE].cancelled = TRUE
  BY LoopSteps DEF PurchaseTyped
<1> QED
  BY <1>1, NoLoopType DEF Cancel, PurchaseTyped

LEMMA SettleLoops ==
  ASSUME PurchaseTyped, NEW p \in Payment, NEW phase \in {"posting", "waiting"}, settle(p, phase)
  PROVE  /\ loops' \in [Payment -> LoopType] /\ settling' \in Payment
         /\ loops'[p] = [phase |-> phase, cancelled |-> FALSE]
         /\ \A q \in Payment \ {p} : \/ loops'[q] = loops[q]
                                     \/ loops'[q] = NoLoop
                                     \/ loops'[q].cancelled = TRUE
<1>1. [phase |-> phase, cancelled |-> FALSE] \in LoopType
  BY DEF LoopType
<1> QED
  BY <1>1, CancelLoops DEF settle

LEMMA SettlePursues ==
  ASSUME PurchaseTyped, NEW p \in Payment, NEW phase \in {"posting", "waiting"}, settle(p, phase),
         \A q \in Payment \ {p} : buying'[q] = buying[q]
  PROVE  Pursued(p)' /\ \A q \in Payment \ {p} : Pursued(q)' => Pursued(q)
<1>1. /\ loops'[p] = [phase |-> phase, cancelled |-> FALSE]
      /\ \A q \in Payment \ {p} : \/ loops'[q] = loops[q]
                                  \/ loops'[q] = NoLoop
                                  \/ loops'[q].cancelled = TRUE
  BY SettleLoops
<1>2. loops'[p].phase # "none" /\ ~loops'[p].cancelled
  BY <1>1
<1>3. ASSUME NEW q \in Payment \ {p}, Pursued(q)'
      PROVE  Pursued(q)
  <2>1. buying'[q] = buying[q] /\ NoLoop.phase = "none"
    BY DEF NoLoop
  <2> QED
    BY <1>1, <1>3, <2>1, Zenon DEF Pursued
<1> QED
  BY <1>2, <1>3 DEF Pursued

LEMMA LoopAnsweredType ==
  ASSUME PurchaseTyped, NEW p \in Payment, NEW answer \in Answer, loopAnswered(p, answer)
  PROVE  PurchaseTyped'
<1> USE NoLoopType DEF PurchaseTyped, FateType
<1>1. UNCHANGED <<page, buying, overlapped>>
  BY DEF loopAnswered
<1>2. fate' \in [Payment -> FateType]
  BY DEF loopAnswered, GivesUp, Waits
<1>3. slot' \in Payment \cup {NoPayment} /\ settling' \in Payment \cup {NoPayment}
  BY DEF loopAnswered, GivesUp, Waits, LoopEnds
<1>4. loops' \in [Payment -> LoopType]
  <2>1. \/ loops' = [loops EXCEPT ![p] = NoLoop]
        \/ loops' = [loops EXCEPT ![p].phase = "waiting"]
    BY Zenon DEF loopAnswered, GivesUp, Waits, LoopEnds
  <2>2. [loops[p] EXCEPT !.phase = "waiting"] \in LoopType
    BY LoopSteps
  <2> QED
    BY <2>1, <2>2
<1> QED
  BY <1>1, <1>2, <1>3, <1>4

LEMMA BuyType ==
  ASSUME PurchaseTyped, NEW p \in Payment,
         buy(p) \/ orderCreated(p) \/ buyFails(p) \/ paid(p) \/ loopWakes(p)
  PROVE  PurchaseTyped'
<1> USE DEF PurchaseTyped, BuyingType, FateType
<1>1. CASE buy(p) \/ orderCreated(p) \/ buyFails(p)
  BY <1>1 DEF buy, orderCreated, buyFails
<1>2. CASE paid(p)
  BY <1>2 DEF paid, savePendingPayment
<1>3. CASE loopWakes(p)
  <2>1. [loops[p] EXCEPT !.phase = "posting"] \in LoopType
    BY LoopSteps
  <2> QED
    BY <1>3, <2>1 DEF loopWakes
<1> QED
  BY <1>1, <1>2, <1>3

LEMMA PageType ==
  ASSUME PurchaseTyped,
         \/ \E p \in Payment, answer \in Answer : verified(p, answer)
         \/ closePage \/ openPage
  PROVE  PurchaseTyped'
<1>1. ASSUME NEW p \in Payment, NEW answer \in Answer, verified(p, answer)
      PROVE  PurchaseTyped'
  <2>1. CASE answer # "retry"
    BY <1>1, <2>1 DEF PurchaseTyped, BuyingType, FateType, verified
  <2>2. CASE answer = "retry"
    <3>1. settle(p, "waiting")
      BY <1>1, <2>2 DEF verified
    <3> QED
      BY <1>1, <2>2, <3>1, SettleLoops DEF PurchaseTyped, BuyingType, FateType, verified
  <2> QED
    BY <2>1, <2>2
<1>2. CASE closePage
  BY <1>2, NoLoopType DEF PurchaseTyped, BuyingType, FateType, closePage
<1>3. CASE openPage
  <2>1. CASE slot = NoPayment
    BY <1>3, <2>1 DEF PurchaseTyped, openPage
  <2>2. CASE slot # NoPayment
    <3>1. slot \in Payment /\ settle(slot, "posting")
      BY <1>3, <2>2 DEF PurchaseTyped, openPage
    <3> QED
      BY <1>3, <3>1, SettleLoops DEF PurchaseTyped, openPage
  <2> QED
    BY <2>1, <2>2
<1> QED
  BY <1>1, <1>2, <1>3

LEMMA PurchaseNextType ==
  ASSUME PurchaseTyped, [PurchaseNext]_purchaseVars
  PROVE  PurchaseTyped'
<1>1. CASE UNCHANGED purchaseVars
  BY <1>1 DEF purchaseVars, PurchaseTyped
<1>2. CASE PurchaseNext
  BY <1>2, LoopAnsweredType, BuyType, PageType, Zenon DEF PurchaseNext
<1> QED
  BY <1>1, <1>2

\* A payment that is owed and never met another one is alone: nothing else is owed or
\* pursued, so nothing else touches the slot or the loop.
Alone ==
  \A p, q \in Payment :
    fate[p] = "owed" /\ p \notin overlapped /\ p # q => fate[q] # "owed" /\ ~Pursued(q)

\* What a closed page leaves behind.
ClosedPage ==
  ~page => /\ \A p \in Payment : fate[p] = "owed" => p \in Storable
           /\ \A p \in Payment : buying[p] \in {"none", "done"}

ProofKept == ProofSurvives /\ Alone /\ ClosedPage

\* A step that pursues nothing more, owes nothing more and keeps the slot and the page.
LEMMA KeptQuietly ==
  ASSUME PurchaseTyped, ProofKept, UNCHANGED <<page, slot, overlapped>>,
         \A p \in Payment : fate'[p] = "owed" <=> fate[p] = "owed",
         \A p \in Payment : Pursued(p)' <=> Pursued(p),
         ~page => \A p \in Payment : buying'[p] \in {"none", "done"}
  PROVE  ProofKept'
BY Zenon DEF ProofKept, ProofSurvives, Alone, ClosedPage

\* A payment is settled for good by the one who pursues it: the others are not alone.
LEMMA KeptSettled ==
  ASSUME PurchaseTyped, ProofKept, NEW p \in Payment, Pursued(p), fate'[p] # "owed",
         UNCHANGED <<page, overlapped>>,
         \A q \in Payment \ {p} : fate'[q] = fate[q],
         \A q \in Payment \ {p} : Pursued(q)' <=> Pursued(q),
         ~page => \A q \in Payment : buying'[q] \in {"none", "done"}
  PROVE  ProofKept'
BY Zenon DEF ProofKept, ProofSurvives, Alone, ClosedPage

LEMMA KeptBuying ==
  ASSUME PurchaseTyped, ProofKept, NEW p \in Payment,
         buy(p) \/ orderCreated(p) \/ buyFails(p) \/ loopWakes(p)
  PROVE  ProofKept'
<1>1. UNCHANGED <<page, slot, overlapped, fate>>
  BY DEF buy, orderCreated, buyFails, loopWakes
<1>2. \A q \in Payment : Pursued(q)' <=> Pursued(q)
  BY DEF buy, orderCreated, buyFails, loopWakes, Pursued, PurchaseTyped, LoopType
<1>3. ~page => \A q \in Payment : buying'[q] \in {"none", "done"}
  BY DEF buy, orderCreated, buyFails, loopWakes, ProofKept, ClosedPage, PurchaseTyped
<1> QED
  BY <1>1, <1>2, <1>3, KeptQuietly, Zenon

LEMMA KeptPaid ==
  ASSUME PurchaseTyped, ProofKept, NEW p \in Payment, paid(p)
  PROVE  ProofKept'
<1> DEFINE others == {q \in Payment : Pursued(q) \/ fate[q] = "owed"}
<1>1. /\ UNCHANGED <<page, loops, settling>> /\ page = TRUE
      /\ buying' = [buying EXCEPT ![p] = "verifying"]
      /\ fate' = [fate EXCEPT ![p] = "owed"]
      /\ slot' = IF p \in Storable THEN p ELSE slot
      /\ overlapped' = overlapped \cup others \cup (IF others = {} THEN {} ELSE {p})
  BY Zenon DEF paid, savePendingPayment, ProofKept, ClosedPage, PurchaseTyped
<1>2. \A q \in Payment \ {p} : (Pursued(q)' <=> Pursued(q)) /\ fate'[q] = fate[q]
  BY <1>1 DEF Pursued, PurchaseTyped
<1>3. Pursued(p)' /\ fate'[p] = "owed"
  BY <1>1 DEF Pursued, PurchaseTyped
<1>4. ASSUME NEW q \in Payment, fate'[q] = "owed", q \notin overlapped'
      PROVE  q = p /\ others = {}
  BY <1>1, <1>2, <1>4
<1> QED
  BY <1>1, <1>2, <1>3, <1>4 DEF ProofKept, ProofSurvives, Alone, ClosedPage

LEMMA KeptVerified ==
  ASSUME PurchaseTyped, ProofKept, NEW p \in Payment, NEW answer \in Answer, verified(p, answer)
  PROVE  ProofKept'
<1>1. /\ Pursued(p) /\ UNCHANGED <<page, overlapped>>
      /\ buying' = [buying EXCEPT ![p] = "done"]
      /\ page = TRUE
  BY DEF verified, Pursued, ProofKept, ClosedPage, PurchaseTyped
<1>2. CASE answer # "retry"
  <2>1. /\ UNCHANGED loops /\ fate' = [fate EXCEPT ![p] = "answered"]
    BY <1>2 DEF verified
  <2>2. /\ fate'[p] # "owed"
        /\ \A q \in Payment \ {p} : fate'[q] = fate[q] /\ (Pursued(q)' <=> Pursued(q))
    BY <1>1, <2>1 DEF Pursued, PurchaseTyped
  <2> QED
    BY <1>1, <2>2, KeptSettled, Zenon
<1>3. CASE answer = "retry"
  <2>1. settle(p, "waiting") /\ UNCHANGED <<slot, fate>>
    BY <1>3 DEF verified
  <2>2. \A q \in Payment \ {p} : buying'[q] = buying[q]
    BY <1>1 DEF PurchaseTyped
  <2>3. Pursued(p)' /\ \A q \in Payment \ {p} : Pursued(q)' => Pursued(q)
    BY <2>1, <2>2, SettlePursues
  <2> QED
    BY <1>1, <2>1, <2>3 DEF ProofKept, ProofSurvives, Alone, ClosedPage
<1> QED
  BY <1>2, <1>3

LEMMA KeptLoopAnswered ==
  ASSUME PurchaseTyped, ProofKept, NEW p \in Payment, NEW answer \in Answer, loopAnswered(p, answer)
  PROVE  ProofKept'
<1>1. UNCHANGED <<page, buying, overlapped>>
  BY DEF loopAnswered
<1>2. ~page => \A q \in Payment : buying'[q] \in {"none", "done"}
  BY <1>1 DEF ProofKept, ClosedPage
<1>3. ASSUME loops[p].cancelled,
             loops' = [loops EXCEPT ![p] = NoLoop],
             fate' = IF answer = "retry" THEN fate ELSE [fate EXCEPT ![p] = "answered"],
             UNCHANGED slot
      PROVE  ProofKept'
  <2>1. \A q \in Payment : Pursued(q)' <=> Pursued(q)
    BY <1>1, <1>3 DEF Pursued, PurchaseTyped, LoopType, NoLoop
  <2>2. \A q \in Payment : fate'[q] = "owed" => fate[q] = "owed"
    BY <1>3 DEF PurchaseTyped
  <2> QED
    BY <1>1, <1>2, <1>3, <2>1, <2>2, Zenon DEF ProofKept, ProofSurvives, Alone, ClosedPage
<1>4. ASSUME Pursued(p), LoopEnds(p),
             fate' = [fate EXCEPT ![p] = "answered"] \/ fate' = [fate EXCEPT ![p] = "givenUp"]
      PROVE  ProofKept'
  <2>1. fate'[p] # "owed" /\ \A q \in Payment \ {p} : fate'[q] = fate[q]
    BY <1>4 DEF PurchaseTyped
  <2>2. \A q \in Payment \ {p} : Pursued(q)' <=> Pursued(q)
    BY <1>1, <1>4 DEF LoopEnds, Pursued, PurchaseTyped
  <2> QED
    BY <1>1, <1>2, <1>4, <2>1, <2>2, KeptSettled, Zenon
<1>5. CASE Waits(p)
  <2>1. \A q \in Payment : Pursued(q)' <=> Pursued(q)
    BY <1>1, <1>5 DEF Waits, Pursued, PurchaseTyped, LoopType, loopAnswered
  <2> QED
    BY <1>1, <1>2, <1>5, <2>1, KeptQuietly, Zenon DEF Waits
<1>6. loops[p].phase = "posting" /\ (~loops[p].cancelled => Pursued(p))
  BY DEF loopAnswered, Pursued
<1> QED
  BY <1>3, <1>4, <1>5, <1>6, Zenon DEF loopAnswered, GivesUp

LEMMA KeptClosed ==
  ASSUME PurchaseTyped, ProofKept, closePage
  PROVE  ProofKept'
<1>1. /\ page' = FALSE /\ UNCHANGED <<slot, overlapped>>
      /\ \A p \in Payment : /\ buying'[p] \in {"none", "done"} /\ ~Pursued(p)'
                            /\ fate'[p] = "owed" => fate[p] = "owed" /\ p \in Storable
  BY DEF closePage, PurchaseTyped, Pursued, NoLoop, BuyingType
<1> QED
  BY <1>1, Zenon DEF ProofKept, ProofSurvives, Alone, ClosedPage

LEMMA KeptOpened ==
  ASSUME PurchaseTyped, ProofKept, openPage
  PROVE  ProofKept'
<1>1. ~page /\ page' = TRUE /\ UNCHANGED <<slot, buying, fate, overlapped>>
  BY DEF openPage
<1>2. CASE slot = NoPayment
  <2>1. UNCHANGED loops
    BY <1>2 DEF openPage
  <2>2. \A p \in Payment : fate[p] = "owed" => p \in overlapped
    BY <1>1, <1>2, PurchaseAssumption DEF ProofKept, ProofSurvives, ClosedPage
  <2> QED
    BY <1>1, <2>2 DEF ProofKept, ProofSurvives, Alone, ClosedPage
<1>3. CASE slot # NoPayment
  <2>1. PICK p \in Payment : p = slot /\ settle(p, "posting")
    BY <1>3 DEF openPage, PurchaseTyped
  <2>2. \A q \in Payment \ {p} : buying'[q] = buying[q]
    BY <1>1
  <2>3. Pursued(p)' /\ \A q \in Payment \ {p} : Pursued(q)' => Pursued(q)
    BY <2>1, <2>2, SettlePursues
  <2>4. \A q \in Payment : fate[q] = "owed" /\ q \notin overlapped => slot = q
    BY <1>1 DEF ProofKept, ProofSurvives, ClosedPage
  <2> QED
    BY <1>1, <2>1, <2>3, <2>4, Zenon DEF ProofKept, ProofSurvives, Alone, ClosedPage
<1> QED
  BY <1>2, <1>3

LEMMA ProofKeptStep ==
  ASSUME PurchaseTyped, ProofKept, [PurchaseNext]_purchaseVars
  PROVE  ProofKept'
<1>1. CASE UNCHANGED purchaseVars
  <2>1. UNCHANGED <<page, slot, buying, loops, fate, overlapped>>
    BY <1>1 DEF purchaseVars
  <2>2. \A p \in Payment : Pursued(p)' <=> Pursued(p)
    BY <2>1 DEF Pursued
  <2> QED
    BY <2>1, <2>2, Zenon DEF ProofKept, ProofSurvives, Alone, ClosedPage
<1>2. CASE PurchaseNext
  BY <1>2, KeptBuying, KeptPaid, KeptVerified, KeptLoopAnswered, KeptClosed, KeptOpened, Zenon
     DEF PurchaseNext
<1> QED
  BY <1>1, <1>2

\* An unanswered proof of payment is in its slot and pursued by an open page, whatever
\* payments, answers, cancelled loops and reloads come in between (pendingPayment.ts),
\* for any number of payments of which localStorage takes any.
THEOREM ProofSurvivesCorrect == PurchaseSpec => []ProofSurvives
<1>1. PurchaseInit => PurchaseTyped /\ ProofKept
  BY NoLoopType DEF PurchaseInit, PurchaseTyped, BuyingType, FateType, ProofKept, ProofSurvives, Alone, ClosedPage
<1>2. PurchaseTyped /\ ProofKept /\ [PurchaseNext]_purchaseVars => PurchaseTyped' /\ ProofKept'
  BY PurchaseNextType, ProofKeptStep
<1>3. ProofKept => ProofSurvives
  BY DEF ProofKept
<1> QED
  BY <1>1, <1>2, <1>3, PTL DEF PurchaseSpec

(***************************************************************************)
(* Moderation.                                                             *)
(***************************************************************************)

Streak == 0 .. SafeStreak
TickType == {"timer", "loading", "running", "over"}
DeadlineType == {"unset", "set", "over"}
MonitorType ==
  [status : Verdicts, safeStreak : Streak, stopped : BOOLEAN, tick : TickType, frame : BOOLEAN,
   deadline : DeadlineType, signaled : SUBSET BlurSignals,
   passed : Streak, unsafe : BOOLEAN, gaveUp : BOOLEAN, tapped : BOOLEAN]
BlurEvents == {"safe", "unsafe", "model-unavailable", "deadline", "reveal"}

\* The monitor a call of Reduced leaves behind.
AfterEvent(m, event) ==
  LET reduced == blurReducer(Heard(m, event), event)
  IN  [reduced EXCEPT !.signaled =
         IF reduced.status # m.status THEN @ \cup SignalOf(reduced.status) ELSE @]

\* A monitor has its reasons for what it shows.
Cleared(m) ==
  /\ m.safeStreak <= m.passed
  /\ m.status = "safe" => m.passed = SafeStreak
  /\ m.status \in {"unavailable", "revealed"} => m.gaveUp
  /\ m.status = "revealed" => m.tapped
  /\ m.unsafe => m.status = "flagged"
  /\ m.status = "flagged" => "nsfw-blur" \in m.signaled

LEMMA OneMoreType ==
  ASSUME NEW n \in Streak
  PROVE  OneMore(n) \in Streak /\ n <= OneMore(n)
BY ModerationAssumption DEF OneMore, Streak

LEMMA HeardMonitor ==
  ASSUME NEW m \in MonitorType, NEW event \in BlurEvents
  PROVE  /\ Heard(m, event) \in MonitorType
         /\ Heard(m, event).status = m.status /\ Heard(m, event).safeStreak = m.safeStreak
         /\ Heard(m, event).stopped = m.stopped /\ Heard(m, event).signaled = m.signaled
         /\ Heard(m, event).passed = IF event = "safe" THEN OneMore(m.passed) ELSE m.passed
         /\ Heard(m, event).unsafe <=> m.unsafe \/ event = "unsafe"
         /\ Heard(m, event).gaveUp <=> m.gaveUp \/ event \in {"model-unavailable", "deadline"}
         /\ Heard(m, event).tapped <=> m.tapped \/ event = "reveal"
BY OneMoreType DEF Heard, MonitorType

LEMMA AfterMonitor ==
  ASSUME NEW m \in MonitorType, NEW event \in BlurEvents
  PROVE  /\ AfterEvent(m, event) \in MonitorType
         /\ AfterEvent(m, event).stopped = m.stopped
         /\ Cleared(m) => Cleared(AfterEvent(m, event))
<1> DEFINE h == Heard(m, event)
           r == blurReducer(h, event)
           a == AfterEvent(m, event)
<1>1. h \in MonitorType
  BY HeardMonitor
<1> HIDE DEF h
<1>2. \/ r = h
      \/ event = "unsafe" /\ r = [h EXCEPT !.status = "flagged", !.safeStreak = 0]
      \/ /\ event = "safe" /\ h.status # "flagged"
         /\ r = [h EXCEPT !.safeStreak = OneMore(@),
                          !.status = IF OneMore(h.safeStreak) = SafeStreak THEN "safe" ELSE @]
      \/ event = "model-unavailable" /\ h.status # "flagged" /\ r = [h EXCEPT !.status = "unavailable", !.safeStreak = 0]
      \/ event = "deadline" /\ h.status # "flagged" /\ r = [h EXCEPT !.status = "unavailable"]
      \/ event = "reveal" /\ h.status = "unavailable" /\ r = [h EXCEPT !.status = "revealed"]
  BY DEF blurReducer
<1>3. event = "unsafe" => r.status = "flagged"
  BY <1>1 DEF blurReducer, MonitorType
<1> HIDE DEF r
<1>4. /\ r \in MonitorType /\ r.stopped = h.stopped /\ r.signaled = h.signaled /\ r.passed = h.passed
      /\ (r.unsafe <=> h.unsafe) /\ (r.gaveUp <=> h.gaveUp) /\ (r.tapped <=> h.tapped)
  <2>1. h.safeStreak \in Streak /\ OneMore(h.safeStreak) \in Streak /\ 0 \in Streak
    BY <1>1, OneMoreType, ModerationAssumption DEF MonitorType, Streak
  <2>2. CASE r = h
    BY <1>1, <2>2
  <2>3. CASE r = [h EXCEPT !.status = "flagged", !.safeStreak = 0]
    BY <1>1, <2>1, <2>3 DEF MonitorType, Verdicts
  <2>4. CASE r = [h EXCEPT !.safeStreak = OneMore(@),
                          !.status = IF OneMore(h.safeStreak) = SafeStreak THEN "safe" ELSE @]
    BY <1>1, <2>1, <2>4 DEF MonitorType, Verdicts
  <2>5. CASE r = [h EXCEPT !.status = "unavailable", !.safeStreak = 0]
    BY <1>1, <2>1, <2>5 DEF MonitorType, Verdicts
  <2>6. CASE r = [h EXCEPT !.status = "unavailable"]
    BY <1>1, <2>6 DEF MonitorType, Verdicts
  <2>7. CASE r = [h EXCEPT !.status = "revealed"]
    BY <1>1, <2>7 DEF MonitorType, Verdicts
  <2> QED
    BY <1>2, <2>2, <2>3, <2>4, <2>5, <2>6, <2>7
<1>5. /\ a = [r EXCEPT !.signaled = IF r.status # m.status THEN @ \cup SignalOf(r.status) ELSE @]
      /\ SignalOf(r.status) \subseteq BlurSignals
      /\ r.status = "flagged" => "nsfw-blur" \in SignalOf(r.status)
  BY DEF AfterEvent, r, h, SignalOf, BlurSignals
<1>6. /\ a \in MonitorType /\ a.stopped = r.stopped /\ a.status = r.status /\ a.safeStreak = r.safeStreak
      /\ a.passed = r.passed
      /\ (a.unsafe <=> r.unsafe) /\ (a.gaveUp <=> r.gaveUp) /\ (a.tapped <=> r.tapped)
      /\ a.signaled = IF r.status # m.status THEN r.signaled \cup SignalOf(r.status) ELSE r.signaled
  BY <1>4, <1>5 DEF MonitorType
<1>7. \/ r.status = h.status /\ r.safeStreak = h.safeStreak
      \/ event = "unsafe" /\ r.status = "flagged" /\ r.safeStreak = 0
      \/ /\ event = "safe" /\ h.status # "flagged" /\ r.safeStreak = OneMore(h.safeStreak)
         /\ r.status = IF OneMore(h.safeStreak) = SafeStreak THEN "safe" ELSE h.status
      \/ event = "model-unavailable" /\ h.status # "flagged" /\ r.status = "unavailable" /\ r.safeStreak = 0
      \/ event = "deadline" /\ h.status # "flagged" /\ r.status = "unavailable" /\ r.safeStreak = h.safeStreak
      \/ event = "reveal" /\ h.status = "unavailable" /\ r.status = "revealed" /\ r.safeStreak = h.safeStreak
  BY <1>1, <1>2 DEF MonitorType
<1> HIDE DEF a
<1>8. ASSUME Cleared(m)
      PROVE  Cleared(a)
  <2> USE DEF Cleared
  <2>1. /\ h.status = m.status /\ h.safeStreak = m.safeStreak /\ h.signaled = m.signaled
        /\ h.passed = IF event = "safe" THEN OneMore(m.passed) ELSE m.passed
        /\ (h.unsafe <=> m.unsafe \/ event = "unsafe")
        /\ (h.gaveUp <=> m.gaveUp \/ event \in {"model-unavailable", "deadline"})
        /\ (h.tapped <=> m.tapped \/ event = "reveal")
    BY HeardMonitor DEF h
  <2>2. m.passed \in Streak /\ m.safeStreak \in Streak /\ a.status = r.status
    BY <1>6 DEF MonitorType
  <2>3. a.safeStreak <= a.passed /\ (a.status = "safe" => a.passed = SafeStreak)
    BY <1>4, <1>6, <1>7, <1>8, <2>1, <2>2, ModerationAssumption DEF OneMore, Streak
  <2>4. /\ a.status \in {"unavailable", "revealed"} => a.gaveUp
        /\ a.status = "revealed" => a.tapped
    BY <1>4, <1>6, <1>7, <1>8, <2>1
  <2>5. a.unsafe => a.status = "flagged"
    <3>1. CASE event = "unsafe"
      BY <1>3, <1>6, <3>1
    <3>2. CASE event # "unsafe"
      <4>1. a.unsafe => m.unsafe
        BY <1>4, <1>6, <2>1, <3>2
      <4>2. h.status = "flagged" => r.status = "flagged"
        BY <1>7
      <4> QED
        BY <1>6, <1>8, <2>1, <4>1, <4>2
    <3> QED
      BY <3>1, <3>2
  <2>6. a.status = "flagged" => "nsfw-blur" \in a.signaled
    BY <1>4, <1>5, <1>6, <1>8, <2>1
  <2> QED
    BY <2>3, <2>4, <2>5, <2>6
<1>9. a \in MonitorType /\ a.stopped = m.stopped
  BY <1>4, <1>6, HeardMonitor DEF h
<1> QED
  BY <1>8, <1>9 DEF a

\* Every monitor but that of the call on the page is stopped, and that one is behind
\* what the page shows.
MonitorOK(m, c) ==
  IF c = call THEN ~m.stopped /\ Cleared(m) /\ shown = m.status
  ELSE m.stopped /\ m.deadline = "over"

Watched ==
  /\ monitors \in Seq(MonitorType)
  /\ call \in 0 .. Len(monitors) /\ shown \in Verdicts
  /\ model \in {"idle", "loading", "ready", "failed"}
  /\ call = 0 => shown = "checking"
  /\ \A c \in DOMAIN monitors : MonitorOK(monitors[c], c)

LEMMA WatchedInit == ModerationInit => Watched
BY DEF ModerationInit, Watched, Verdicts

\* A monitor may change alone as long as it keeps what Watched says of it.
LEMMA OneMonitor ==
  ASSUME Watched, NEW c \in DOMAIN monitors, NEW m \in MonitorType,
         monitors' = [monitors EXCEPT ![c] = m], UNCHANGED call,
         c # call => m.stopped /\ m.deadline = "over" /\ UNCHANGED shown,
         c = call => ~m.stopped /\ Cleared(m) /\ shown' = m.status,
         model' \in {"idle", "loading", "ready", "failed"}
  PROVE  Watched'
<1>1. monitors' \in Seq(MonitorType) /\ Len(monitors') = Len(monitors)
      /\ DOMAIN monitors' = DOMAIN monitors
  BY DEF Watched
<1>2. shown' \in Verdicts /\ (call' = 0 => shown' = "checking")
  BY DEF Watched, MonitorType
<1>3. ASSUME NEW d \in DOMAIN monitors
      PROVE  MonitorOK(monitors[d], d)'
  <2>1. monitors'[d] = IF d = c THEN m ELSE monitors[d]
    BY DEF Watched
  <2>2. MonitorOK(monitors[d], d)
    BY DEF Watched
  <2>3. CASE d = c
    BY <2>1, <2>3 DEF MonitorOK
  <2>4. CASE d # c /\ d = call
    <3>1. UNCHANGED shown
      BY <2>4
    <3> QED
      BY <2>1, <2>2, <2>4, <3>1 DEF MonitorOK
  <2>5. CASE d # c /\ d # call
    BY <2>1, <2>2, <2>5 DEF MonitorOK
  <2> QED
    BY <2>3, <2>4, <2>5
<1>4. call' \in 0 .. Len(monitors')
  BY <1>1 DEF Watched
<1> QED
  BY <1>1, <1>2, <1>3, <1>4 DEF Watched

\* An event of the call on the page.
LEMMA ReducedStep ==
  ASSUME Watched, call # 0, NEW m \in MonitorType, NEW event \in BlurEvents,
         Cleared(m), ~m.stopped, m.status = shown, Reduced(call, m, event), UNCHANGED <<model, call>>
  PROVE  Watched'
<1> DEFINE a == AfterEvent(m, event)
<1>1. a \in MonitorType /\ ~a.stopped /\ Cleared(a)
  BY AfterMonitor
<1>2. monitors' = [monitors EXCEPT ![call] = a]
  BY DEF Reduced, AfterEvent
<1>3. shown' = a.status
  BY HeardMonitor, <1>1 DEF Reduced, AfterEvent, MonitorType
<1>4. call \in DOMAIN monitors /\ model' \in {"idle", "loading", "ready", "failed"}
  BY DEF Watched
<1> HIDE DEF a
<1>5. PICK c \in DOMAIN monitors : c = call
  BY <1>4
<1> QED
  BY <1>1, <1>2, <1>3, <1>4, <1>5, OneMonitor

LEMMA NewMonitorType == NewMonitor \in MonitorType /\ ~NewMonitor.stopped /\ Cleared(NewMonitor)
                        /\ NewMonitor.status = "checking"
BY ModerationAssumption DEF NewMonitor, MonitorType, Cleared, Verdicts, Streak, TickType, DeadlineType, BlurSignals

LEMMA StoppedType ==
  ASSUME NEW m \in MonitorType
  PROVE  /\ StoppedMonitor(m) \in MonitorType
         /\ StoppedMonitor(m).stopped /\ StoppedMonitor(m).deadline = "over"
BY NewMonitorType DEF StoppedMonitor, MonitorType, TickType, DeadlineType

LEMMA StoppingMonitors ==
  ASSUME Watched
  PROVE  /\ Stopping \in Seq(MonitorType) /\ Len(Stopping) = Len(monitors)
         /\ \A c \in DOMAIN monitors : Stopping[c].stopped /\ Stopping[c].deadline = "over"
<1>1. \A c \in DOMAIN monitors : Stopping[c] \in MonitorType
  BY StoppedType DEF Watched, Stopping
<1>2. \A c \in DOMAIN monitors : Stopping[c].stopped /\ Stopping[c].deadline = "over"
  BY StoppedType DEF Watched, Stopping, MonitorOK
<1>3. Stopping \in [1 .. Len(monitors) -> MonitorType]
  BY <1>1 DEF Watched, Stopping
<1> QED
  BY <1>2, <1>3 DEF Watched

LEMMA WatchedStep ==
  ASSUME Watched, [ModerationNext]_moderationVars
  PROVE  Watched'
<1>1. CASE enterCall
  <2>1. /\ Stopping \in Seq(MonitorType) /\ Len(Stopping) = Len(monitors)
        /\ \A c \in DOMAIN monitors : Stopping[c].stopped /\ Stopping[c].deadline = "over"
    BY StoppingMonitors
  <2>2. /\ monitors' \in Seq(MonitorType) /\ Len(monitors') = Len(monitors) + 1
        /\ monitors'[Len(monitors) + 1] = NewMonitor
        /\ \A c \in 1 .. Len(monitors) : monitors'[c] = Stopping[c]
    BY <1>1, <2>1, NewMonitorType DEF enterCall, Watched
  <2>3. call' = Len(monitors) + 1 /\ shown' = "checking" /\ UNCHANGED model
    BY <1>1, <2>2 DEF enterCall
  <2>4. Len(monitors) \in Nat /\ DOMAIN monitors = 1 .. Len(monitors)
        /\ DOMAIN monitors' = 1 .. (Len(monitors) + 1)
    BY <2>2 DEF Watched
  <2>5. ASSUME NEW c \in DOMAIN monitors'
        PROVE  MonitorOK(monitors[c], c)'
    <3>1. CASE c = Len(monitors) + 1
      BY <2>2, <2>3, <3>1, NewMonitorType DEF MonitorOK
    <3>2. CASE c \in 1 .. Len(monitors)
      <4>1. c # call'
        BY <2>3, <2>4, <3>2
      <4> QED
        BY <2>1, <2>2, <2>4, <3>2, <4>1 DEF MonitorOK
    <3> QED
      BY <2>4, <3>1, <3>2
  <2>6. call' \in 0 .. Len(monitors') /\ call' # 0
    BY <2>2, <2>3, <2>4
  <2> QED
    BY <2>2, <2>3, <2>5, <2>6 DEF Watched, Verdicts
<1>2. CASE leaveCall
  <2>1. /\ monitors' \in Seq(MonitorType) /\ Len(monitors') = Len(monitors)
        /\ \A c \in DOMAIN monitors : monitors'[c].stopped /\ monitors'[c].deadline = "over"
    BY <1>2, StoppingMonitors DEF leaveCall
  <2>2. DOMAIN monitors' = DOMAIN monitors /\ DOMAIN monitors = 1 .. Len(monitors) /\ Len(monitors) \in Nat
    BY <2>1 DEF Watched
  <2>3. call' = 0 /\ shown' = "checking" /\ UNCHANGED model
    BY <1>2 DEF leaveCall
  <2>4. \A c \in DOMAIN monitors' : MonitorOK(monitors[c], c)'
    BY <2>1, <2>2, <2>3 DEF MonitorOK
  <2> QED
    BY <2>1, <2>2, <2>3, <2>4 DEF Watched, Verdicts
<1>3. CASE reveal
  <2>1. /\ call # 0 /\ call \in DOMAIN monitors /\ monitors[call] \in MonitorType
        /\ Reduced(call, monitors[call], "reveal") /\ UNCHANGED <<model, call>>
    BY <1>3 DEF reveal, Watched
  <2>2. Cleared(monitors[call]) /\ ~monitors[call].stopped /\ monitors[call].status = shown
    BY <2>1 DEF Watched, MonitorOK
  <2> QED
    BY <2>1, <2>2, ReducedStep DEF BlurEvents
<1>4. CASE preloadModels \/ loaded \/ fail
  <2>1. UNCHANGED <<monitors, call, shown>> /\ model' \in {"idle", "loading", "ready", "failed"}
    BY <1>4 DEF preloadModels, loaded, fail, Loading, Watched
  <2> QED
    BY <2>1 DEF Watched, MonitorOK
<1>5. ASSUME NEW c \in DOMAIN monitors,
             grab(c) \/ post(c) \/ verdict(c) \/ runFails(c) \/ loadFails(c) \/ deadline(c)
      PROVE  Watched'
  <2> DEFINE m == monitors[c]
  <2>1. m \in MonitorType /\ MonitorOK(m, c)
    BY DEF Watched
  <2>2. model \in {"idle", "loading", "ready", "failed"}
    BY DEF Watched
  <2>3. CASE grab(c)
    <3>1. PICK unsafe \in BOOLEAN :
            monitors' = [monitors EXCEPT ![c].tick = "loading", ![c].frame = unsafe,
                                         ![c].deadline = IF @ = "unset" THEN "set" ELSE @]
      BY <2>3 DEF grab
    <3> DEFINE d == [m EXCEPT !.tick = "loading", !.frame = unsafe,
                              !.deadline = IF @ = "unset" THEN "set" ELSE @]
    <3>2. monitors' = [monitors EXCEPT ![c] = d]
      BY <3>1 DEF Watched
    <3>3. /\ d \in MonitorType /\ d.stopped = m.stopped /\ d.status = m.status
          /\ (Cleared(m) => Cleared(d)) /\ (m.deadline = "over" => d.deadline = "over")
      BY <2>1 DEF MonitorType, TickType, DeadlineType, Cleared
    <3>4. UNCHANGED <<call, shown>> /\ model' \in {"idle", "loading", "ready", "failed"}
      BY <2>2, <2>3 DEF grab, Loading
    <3> HIDE DEF d
    <3>5. /\ c # call => d.stopped /\ d.deadline = "over"
          /\ c = call => ~d.stopped /\ Cleared(d) /\ shown = d.status
      BY <2>1, <3>3 DEF MonitorOK
    <3> QED
      BY <3>2, <3>3, <3>4, <3>5, OneMonitor
  <2>4. CASE post(c)
    <3> DEFINE d == [m EXCEPT !.tick = "running"]
    <3>1. monitors' = [monitors EXCEPT ![c] = d] /\ UNCHANGED <<model, call, shown>>
      BY <2>4 DEF post, Watched
    <3>2. /\ d \in MonitorType /\ d.stopped = m.stopped /\ d.status = m.status
          /\ (Cleared(m) => Cleared(d)) /\ d.deadline = m.deadline
      BY <2>1 DEF MonitorType, TickType, Cleared
    <3> HIDE DEF d
    <3>3. /\ c # call => d.stopped /\ d.deadline = "over"
          /\ c = call => ~d.stopped /\ Cleared(d) /\ shown = d.status
      BY <2>1, <3>2 DEF MonitorOK
    <3> QED
      BY <2>2, <3>1, <3>2, <3>3, OneMonitor
  <2>5. CASE verdict(c) \/ runFails(c) \/ loadFails(c)
    <3>1. PICK event \in {"safe", "unsafe", "model-unavailable"} : Classified(c, event)
      BY <2>5 DEF verdict, runFails, loadFails
    <3>2. UNCHANGED <<model, call>>
      BY <3>1 DEF Classified
    <3>3. CASE m.stopped
      <4> DEFINE d == [m EXCEPT !.tick = "over"]
      <4>1. monitors' = [monitors EXCEPT ![c] = d] /\ UNCHANGED shown
        BY <3>1, <3>3 DEF Classified, Watched
      <4>2. d \in MonitorType /\ d.stopped = m.stopped /\ d.deadline = m.deadline
        BY <2>1 DEF MonitorType, TickType
      <4>3. c # call /\ d.stopped /\ d.deadline = "over"
        BY <2>1, <3>3, <4>2 DEF MonitorOK
      <4> HIDE DEF d
      <4> QED
        BY <2>2, <3>2, <4>1, <4>2, <4>3, OneMonitor
    <3>4. CASE ~m.stopped
      <4> DEFINE d == [m EXCEPT !.tick = "timer"]
      <4>1. c = call /\ Cleared(m) /\ shown = m.status /\ call # 0
        BY <2>1, <3>4 DEF MonitorOK, Watched
      <4>2. d \in MonitorType /\ Cleared(d) /\ ~d.stopped /\ d.status = shown
        BY <2>1, <3>4, <4>1 DEF MonitorType, TickType, Cleared
      <4>3. Reduced(c, d, event)
        BY <3>1, <3>4 DEF Classified
      <4> HIDE DEF d
      <4>4. Reduced(call, d, event)
        BY <4>1, <4>3
      <4> QED
        BY <3>2, <4>1, <4>2, <4>4, ReducedStep DEF BlurEvents
    <3> QED
      BY <3>3, <3>4
  <2>6. CASE deadline(c)
    <3> DEFINE d == [m EXCEPT !.deadline = "over"]
    <3>1. Reduced(c, d, "deadline") /\ m.deadline # "over" /\ UNCHANGED <<model, call>>
      BY <2>6 DEF deadline
    <3>2. c = call /\ Cleared(m) /\ shown = m.status /\ ~m.stopped /\ call # 0
      BY <2>1, <3>1 DEF MonitorOK, Watched
    <3>3. d \in MonitorType /\ Cleared(d) /\ ~d.stopped /\ d.status = shown
      BY <2>1, <3>2 DEF MonitorType, DeadlineType, Cleared
    <3> HIDE DEF d
    <3>4. Reduced(call, d, "deadline")
      BY <3>1, <3>2
    <3> QED
      BY <3>1, <3>2, <3>3, <3>4, ReducedStep DEF BlurEvents
  <2> QED
    BY <1>5, <2>3, <2>4, <2>5, <2>6
<1>6. CASE UNCHANGED moderationVars
  BY <1>6 DEF moderationVars, Watched, MonitorOK
<1> QED
  BY <1>1, <1>2, <1>3, <1>4, <1>5, <1>6 DEF ModerationNext

\* The video of a call is shown only for reasons of that call (BlurMonitor, useRemoteBlur),
\* whatever verdicts, deadlines and failures arrive late, for any number of calls and
\* any SAFE_STREAK.
THEOREM VideoIsClearedCorrect == ModerationSpec => []VideoIsCleared
<1>1. Watched => VideoIsCleared
  BY DEF Watched, MonitorOK, Cleared, VideoIsCleared
<1> QED
  BY <1>1, WatchedInit, WatchedStep, PTL DEF ModerationSpec

(***************************************************************************)
(* Camera.                                                                 *)
(***************************************************************************)

Track == [kind : {"audio", "video"}, live : BOOLEAN, enabled : BOOLEAN, facing : Facing]
AskType == [for : Purposes, request : Nat, current : SUBSET Nat, facing : Facing]
Reacquiring == {"flip", "flipBack", "visible"}

\* ts2 has the tracks of ts, no track of which comes alive again.
Later(ts, ts2) ==
  /\ DOMAIN ts \subseteq DOMAIN ts2
  /\ \A t \in DOMAIN ts : ts2[t].kind = ts[t].kind /\ (ts2[t].live => ts[t].live)

\* A call that was made and what it read, over the tracks, stream, request and facing there are.
AskOK(a, ts, s, r, f) ==
  /\ a \in AskType /\ a.current \subseteq DOMAIN ts /\ a.request <= r
  /\ a.for = "getCam" /\ a.request = r => s = {} /\ a.facing = f
  /\ VideoOnly(a.for) => \A t \in a.current : ts[t].kind = "video" => ~ts[t].live
  /\ a.for \in Reacquiring => a.current # {}
  /\ a.for \in {"flipBack", "visible"} /\ a.current = s => a.facing = f

\* What a track that is on has to match.
ShowsCamera(track, w, f) ==
  IF track.kind = "audio" THEN track.enabled = w.mic
  ELSE track.enabled = w.camera /\ track.facing = f

\* A track as getUserMedia opens it.
SwitchedOn(track, f) == track.enabled = TRUE /\ track.facing = f

CameraType ==
  /\ tracks \in Seq(Track) /\ stream \subseteq DOMAIN tracks
  /\ request \in Nat /\ mounted \in BOOLEAN
  /\ wants \in [mic : BOOLEAN, camera : BOOLEAN] /\ facing \in Facing
  /\ asks \in [Ask -> AskType]

Captured ==
  /\ CameraType
  /\ \A t \in DOMAIN tracks : tracks[t].live => mounted /\ t \in stream /\ ShowsCamera(tracks[t], wants, facing)
  /\ \A c \in Ask : AskOK(asks[c], tracks, stream, request, facing)
  /\ \A c, d \in Ask : asks[c].for = "getCam" /\ asks[d].for = "getCam"
                       /\ asks[c].request = asks[d].request => c = d

LEMMA StopTracks ==
  ASSUME NEW ts \in Seq(Track), NEW s
  PROVE  /\ Stop(ts, s) \in Seq(Track) /\ Len(Stop(ts, s)) = Len(ts) /\ DOMAIN Stop(ts, s) = DOMAIN ts
         /\ Later(ts, Stop(ts, s))
         /\ \A t \in DOMAIN ts : /\ Stop(ts, s)[t].live => t \notin s
                                 /\ t \notin s => Stop(ts, s)[t] = ts[t]
<1>1. DOMAIN ts = 1 .. Len(ts) /\ Len(ts) \in Nat /\ \A t \in DOMAIN ts : ts[t] \in Track
  OBVIOUS
<1>2. \A t \in DOMAIN ts : [ts[t] EXCEPT !.live = FALSE] \in Track /\ [ts[t] EXCEPT !.live = FALSE].kind = ts[t].kind
                           /\ ~[ts[t] EXCEPT !.live = FALSE].live
  BY <1>1 DEF Track
<1>3. Stop(ts, s) \in [1 .. Len(ts) -> Track]
  BY <1>1, <1>2 DEF Stop
<1>4. DOMAIN Stop(ts, s) = DOMAIN ts
      /\ \A t \in DOMAIN ts : Stop(ts, s)[t] = IF t \in s THEN [ts[t] EXCEPT !.live = FALSE] ELSE ts[t]
  BY <1>1 DEF Stop
<1>5. Stop(ts, s) \in Seq(Track) /\ Len(Stop(ts, s)) = Len(ts)
  BY <1>1, <1>3
<1> HIDE DEF Stop
<1>6. Later(ts, Stop(ts, s))
  BY <1>2, <1>4 DEF Later
<1> QED
  BY <1>2, <1>4, <1>5, <1>6

LEMMA EnableTracks ==
  ASSUME NEW ts \in Seq(Track), NEW s, NEW on \in BOOLEAN
  PROVE  /\ Enable(ts, s, on) \in Seq(Track) /\ Len(Enable(ts, s, on)) = Len(ts)
         /\ DOMAIN Enable(ts, s, on) = DOMAIN ts /\ Later(ts, Enable(ts, s, on))
         /\ \A t \in DOMAIN ts : /\ t \in s => Enable(ts, s, on)[t].enabled = on
                                 /\ Enable(ts, s, on)[t].facing = ts[t].facing
                                 /\ t \notin s => Enable(ts, s, on)[t] = ts[t]
<1>1. DOMAIN ts = 1 .. Len(ts) /\ Len(ts) \in Nat /\ \A t \in DOMAIN ts : ts[t] \in Track
  OBVIOUS
<1>2. \A t \in DOMAIN ts : LET r == [ts[t] EXCEPT !.enabled = on] IN
        r \in Track /\ r.kind = ts[t].kind /\ r.live = ts[t].live /\ r.facing = ts[t].facing /\ r.enabled = on
  BY <1>1 DEF Track
<1>3. Enable(ts, s, on) \in [1 .. Len(ts) -> Track]
  BY <1>1, <1>2 DEF Enable
<1>4. DOMAIN Enable(ts, s, on) = DOMAIN ts
      /\ \A t \in DOMAIN ts : Enable(ts, s, on)[t] = IF t \in s THEN [ts[t] EXCEPT !.enabled = on] ELSE ts[t]
  BY <1>1 DEF Enable
<1>5. Enable(ts, s, on) \in Seq(Track) /\ Len(Enable(ts, s, on)) = Len(ts)
  BY <1>1, <1>3
<1> HIDE DEF Enable
<1>6. Later(ts, Enable(ts, s, on))
  BY <1>2, <1>4 DEF Later
<1> QED
  BY <1>2, <1>4, <1>5, <1>6

LEMMA OpenedType ==
  ASSUME NEW f \in Facing, NEW opened, opened = Opened(TRUE, f) \/ opened = Opened(FALSE, f)
  PROVE  /\ opened \in Seq(Track) /\ Len(opened) > 0
         /\ \A k \in DOMAIN opened : SwitchedOn(opened[k], f)
<1> DEFINE track(kind) == [kind |-> kind, live |-> TRUE, enabled |-> TRUE, facing |-> f]
<1>1. /\ track("video") \in Track /\ track("audio") \in Track
      /\ SwitchedOn(track("video"), f) /\ SwitchedOn(track("audio"), f)
  BY DEF Track, SwitchedOn
<1>2. opened = <<track("video"), track("audio")>> \/ opened = <<track("video")>>
  BY DEF Opened
<1> HIDE DEF track
<1>3. CASE opened = <<track("video"), track("audio")>>
  BY <1>1, <1>3
<1>4. CASE opened = <<track("video")>>
  BY <1>1, <1>4
<1> QED
  BY <1>2, <1>3, <1>4

\* more is ts with the fresh tracks behind it, which are on and look the way f says.
Grown(ts, more, fresh, f) ==
  /\ more \in Seq(Track) /\ DOMAIN more = DOMAIN ts \cup fresh
  /\ fresh # {} /\ fresh \cap DOMAIN ts = {} /\ fresh \subseteq Nat
  /\ \A t \in DOMAIN ts : more[t] = ts[t]
  /\ \A t \in fresh : SwitchedOn(more[t], f)
  /\ Later(ts, more)

LEMMA OpenedTracks ==
  ASSUME NEW ts \in Seq(Track), NEW f, NEW opened \in Seq(Track), Len(opened) > 0,
         \A k \in DOMAIN opened : SwitchedOn(opened[k], f),
         NEW fresh, fresh = Fresh(ts, opened), NEW more, more = ts \o opened
  PROVE  Grown(ts, more, fresh, f)
<1>1. /\ opened \in Seq(Track) /\ Len(opened) > 0
      /\ \A k \in DOMAIN opened : SwitchedOn(opened[k], f)
  OBVIOUS
<1>2. more \in Seq(Track) /\ Len(more) = Len(ts) + Len(opened) /\ Len(ts) \in Nat /\ Len(opened) \in Nat
      /\ \A t \in 1 .. Len(more) : more[t] = IF t <= Len(ts) THEN ts[t] ELSE opened[t - Len(ts)]
  OBVIOUS
<1>3. fresh = (Len(ts) + 1) .. Len(more)
  <2>1. ASSUME NEW t \in (Len(ts) + 1) .. Len(more)
        PROVE  t \in fresh
    <3>1. t - Len(ts) \in DOMAIN opened /\ t = Len(ts) + (t - Len(ts))
      BY <1>1, <1>2, <2>1
    <3> QED
      BY <3>1 DEF Fresh
  <2>2. ASSUME NEW t \in fresh
        PROVE  t \in (Len(ts) + 1) .. Len(more)
    <3>1. PICK k \in DOMAIN opened : t = Len(ts) + k
      BY DEF Fresh
    <3>2. k \in 1 .. Len(opened)
      BY <1>1
    <3> QED
      BY <1>1, <1>2, <3>1, <3>2
  <2> QED
    BY <2>1, <2>2
<1>4. /\ DOMAIN more = 1 .. Len(more) /\ DOMAIN ts = 1 .. Len(ts)
      /\ Len(more) \in Nat /\ Len(more) > Len(ts)
  <2>1. \A m, n \in Nat : n > 0 => m + n > m
    OBVIOUS
  <2> QED
    BY <1>2, <2>1
<1>5. DOMAIN more = DOMAIN ts \cup fresh /\ fresh \cap DOMAIN ts = {} /\ fresh \subseteq Nat /\ Len(ts) + 1 \in fresh
  BY <1>2, <1>3, <1>4
<1>6. \A t \in DOMAIN ts : more[t] = ts[t]
  BY <1>2, <1>4
<1>7. \A t \in fresh : SwitchedOn(more[t], f)
  <2> SUFFICES ASSUME NEW t \in fresh PROVE SwitchedOn(more[t], f)
    OBVIOUS
  <2>1. t - Len(ts) \in DOMAIN opened /\ more[t] = opened[t - Len(ts)]
    BY <1>1, <1>2, <1>3, <1>4
  <2> QED
    BY <1>1, <2>1
<1>8. Later(ts, more)
  BY <1>5, <1>6 DEF Later
<1> QED
  BY <1>2, <1>5, <1>6, <1>7, <1>8 DEF Grown

LEMMA LaterStill ==
  ASSUME NEW t1, NEW t2, NEW t3, Later(t1, t2), Later(t2, t3)
  PROVE  Later(t1, t3)
BY DEF Later

\* What a call read stays true of it while the stream stays; once the stream is
\* stopped, or has a track the call never saw, it no longer says anything.
LEMMA AskStays ==
  ASSUME NEW a, NEW ts, NEW ts2, NEW s, NEW s2, NEW r \in Nat, NEW r2 \in Nat, NEW f, NEW f2,
         AskOK(a, ts, s, r, f), Later(ts, ts2), s \subseteq DOMAIN ts,
         \/ s2 = s /\ r2 = r /\ f2 = f
         \/ s2 = {} /\ r2 > r
         \/ ~(s2 \subseteq DOMAIN ts) /\ r2 = r /\ ~(a.for = "getCam" /\ a.request = r)
  PROVE  AskOK(a, ts2, s2, r2, f2)
<1>1. /\ a \in AskType /\ a.current \subseteq DOMAIN ts2 /\ a.request <= r2
      /\ VideoOnly(a.for) => \A t \in a.current : ts2[t].kind = "video" => ~ts2[t].live
      /\ a.for \in Reacquiring => a.current # {}
  BY DEF AskOK, Later, AskType
<1>2. a.for = "getCam" /\ a.request = r2 => s2 = {} /\ a.facing = f2
  BY DEF AskOK, AskType
<1>3. a.for \in {"flipBack", "visible"} /\ a.current = s2 => a.facing = f2
  BY DEF AskOK, Reacquiring
<1> QED
  BY <1>1, <1>2, <1>3 DEF AskOK

\* A call that is not under way says nothing.
LEMMA UnderWay ==
  ASSUME NEW a, NEW ts, NEW s, NEW r \in Nat, NEW f \in Facing
  PROVE  /\ Unasked \in AskType /\ Done \in AskType
         /\ AskOK(Unasked, ts, s, r, f) /\ AskOK(Done, ts, s, r, f)
         /\ Unasked.for # "getCam" /\ Done.for # "getCam"
BY DEF Unasked, Done, AskType, AskOK, Facing, Purposes, VideoOnly, Reacquiring

LEMMA AskedCamera ==
  ASSUME NEW n \in Nat, NEW f \in Facing
  PROVE  LET a == [Unasked EXCEPT !.for = "getCam", !.request = n + 1, !.facing = f]
         IN  a \in AskType /\ a.for = "getCam" /\ a.request = n + 1 /\ a.facing = f /\ a.current = {}
<1> n + 1 \in Nat
  OBVIOUS
<1> QED
  BY DEF Unasked, AskType, Purposes

LEMMA CapturedInit == CameraInit => Captured
<1> SUFFICES ASSUME CameraInit PROVE Captured
  OBVIOUS
<1> DEFINE first == [Unasked EXCEPT !.for = "getCam", !.request = 1]
<1>1. /\ tracks = <<>> /\ stream = {} /\ request = 1 /\ mounted = TRUE /\ facing = "user"
      /\ wants = [mic |-> TRUE, camera |-> TRUE]
      /\ asks = [c \in Ask |-> IF c = First THEN first ELSE Unasked]
  BY DEF CameraInit
<1>2. first \in AskType /\ first.for = "getCam" /\ AskOK(first, tracks, stream, request, facing)
  <2>1. first \in AskType /\ first.for = "getCam" /\ first.request = 1 /\ first.current = {} /\ first.facing = "user"
    BY DEF Unasked, AskType, Purposes, Facing
  <2> HIDE DEF first
  <2> QED
    BY <1>1, <2>1 DEF AskType, AskOK, Facing, Purposes, VideoOnly, Reacquiring
<1>3. AskOK(Unasked, tracks, stream, request, facing) /\ Unasked \in AskType /\ Unasked.for # "getCam"
  BY <1>1, UnderWay DEF Facing
<1> HIDE DEF first
<1>4. CameraType
  BY <1>1, <1>2, <1>3 DEF CameraType, Facing
<1>5. \A c \in Ask : AskOK(asks[c], tracks, stream, request, facing)
  BY <1>1, <1>2, <1>3
<1>6. \A c \in Ask : asks[c].for = "getCam" => c = First
  BY <1>1, <1>3
<1> QED
  BY <1>1, <1>4, <1>5, <1>6 DEF Captured

\* Calls other than c are as they were, over a stream and a request they allow.
LEMMA OneAsk ==
  ASSUME Captured, NEW c \in Ask, NEW a \in AskType,
         asks' = [asks EXCEPT ![c] = a], Later(tracks, tracks'), request' \in Nat,
         AskOK(a, tracks', stream', request', facing'),
         \/ stream' = stream /\ request' = request /\ facing' = facing
         \/ stream' = {} /\ request' > request
         \/ /\ ~(stream' \subseteq DOMAIN tracks) /\ request' = request
            /\ \A d \in Ask \ {c} : ~(asks[d].for = "getCam" /\ asks[d].request = request),
         a.for = "getCam" => a.request > request
  PROVE  /\ asks' \in [Ask -> AskType]
         /\ \A d \in Ask : AskOK(asks'[d], tracks', stream', request', facing')
         /\ \A d, e \in Ask : asks'[d].for = "getCam" /\ asks'[e].for = "getCam"
                               /\ asks'[d].request = asks'[e].request => d = e
<1>1. asks \in [Ask -> AskType] /\ request \in Nat /\ stream \subseteq DOMAIN tracks
  BY DEF Captured, CameraType
<1>2. \A d \in Ask : asks'[d] = IF d = c THEN a ELSE asks[d]
  BY <1>1
<1>3. ASSUME NEW d \in Ask
      PROVE  AskOK(asks'[d], tracks', stream', request', facing')
  <2>1. AskOK(asks[d], tracks, stream, request, facing)
    BY DEF Captured
  <2>2. CASE d = c
    BY <1>2, <2>2
  <2>3. CASE d # c
    <3>1. AskOK(asks[d], tracks', stream', request', facing')
      BY <1>1, <2>1, <2>3, AskStays
    <3> QED
      BY <1>2, <2>3, <3>1
  <2> QED
    BY <2>2, <2>3
<1>4. \A d \in Ask : asks[d].request <= request /\ asks[d].request \in Nat
  BY <1>1 DEF Captured, AskOK, AskType
<1>5. ASSUME NEW d \in Ask, NEW e \in Ask, asks'[d].for = "getCam", asks'[e].for = "getCam",
             asks'[d].request = asks'[e].request
      PROVE  d = e
  <2>1. a.request \in Nat
    BY DEF AskType
  <2> QED
    BY <1>1, <1>2, <1>4, <1>5, <2>1 DEF Captured
<1> QED
  BY <1>1, <1>2, <1>3, <1>5

\* The same, for a step that makes no call and answers none.
LEMMA NoAsk ==
  ASSUME Captured, Later(tracks, tracks'), UNCHANGED asks, request' \in Nat,
         \/ stream' = stream /\ request' = request /\ facing' = facing
         \/ stream' = {} /\ request' > request
  PROVE  /\ asks' \in [Ask -> AskType]
         /\ \A d \in Ask : AskOK(asks'[d], tracks', stream', request', facing')
         /\ \A d, e \in Ask : asks'[d].for = "getCam" /\ asks'[e].for = "getCam"
                               /\ asks'[d].request = asks'[e].request => d = e
<1>1. asks \in [Ask -> AskType] /\ request \in Nat /\ stream \subseteq DOMAIN tracks
  BY DEF Captured, CameraType
<1>2. ASSUME NEW d \in Ask
      PROVE  AskOK(asks[d], tracks', stream', request', facing')
  <2>1. AskOK(asks[d], tracks, stream, request, facing)
    BY DEF Captured
  <2> QED
    BY <1>1, <2>1, AskStays
<1> QED
  BY <1>1, <1>2 DEF Captured

\* Stopping the stream leaves no track on.
LEMMA AllStopped ==
  ASSUME Captured
  PROVE  /\ Stop(tracks, stream) \in Seq(Track) /\ Later(tracks, Stop(tracks, stream))
         /\ \A t \in DOMAIN Stop(tracks, stream) : ~Stop(tracks, stream)[t].live
<1>1. tracks \in Seq(Track)
  BY DEF Captured, CameraType
<1>2. \A t \in DOMAIN tracks : t \notin stream => ~tracks[t].live
  BY DEF Captured
<1> QED
  BY <1>1, <1>2, StopTracks

LEMMA OtherSideType == \A f \in Facing : OtherSide(f) \in Facing
<1> SUFFICES ASSUME NEW f \in Facing PROVE OtherSide(f) \in Facing
  OBVIOUS
<1>1. \E g \in Facing : g # f
  BY DEF Facing
<1> QED
  BY <1>1 DEF OtherSide

\* Starting getCam from a stopped stream.
LEMMA AskForCameraStep ==
  ASSUME Captured, NEW c \in Ask, mounted, NEW ts \in Seq(Track), NEW before \in Nat,
         before >= request, Later(tracks, ts), \A t \in DOMAIN ts : ~ts[t].live,
         AskForCamera(c, ts, before)
  PROVE  Captured'
<1> DEFINE a == [Unasked EXCEPT !.for = "getCam", !.request = before + 1, !.facing = facing]
<1>1. /\ tracks' = ts /\ stream' = {} /\ request' = before + 1 /\ asks' = [asks EXCEPT ![c] = a]
      /\ UNCHANGED <<mounted, wants, facing>>
  BY DEF AskForCamera
<1>2. request \in Nat /\ facing \in Facing /\ mounted \in BOOLEAN /\ wants \in [mic : BOOLEAN, camera : BOOLEAN]
  BY DEF Captured, CameraType
<1>3. a \in AskType /\ a.for = "getCam" /\ a.request = before + 1 /\ a.facing = facing /\ a.current = {}
  BY <1>2, AskedCamera
<1> HIDE DEF a
<1>4. AskOK(a, tracks', stream', request', facing')
  BY <1>1, <1>2, <1>3 DEF AskOK, VideoOnly, Reacquiring
<1>5. /\ asks' \in [Ask -> AskType]
      /\ \A d \in Ask : AskOK(asks'[d], tracks', stream', request', facing')
      /\ \A d, e \in Ask : asks'[d].for = "getCam" /\ asks'[e].for = "getCam"
                            /\ asks'[d].request = asks'[e].request => d = e
  <2>1. request' > request /\ request' \in Nat /\ a.request > request /\ Later(tracks, tracks')
    BY <1>1, <1>2, <1>3
  <2> QED
    BY <1>1, <1>3, <1>4, <2>1, OneAsk
<1> QED
  BY <1>1, <1>2, <1>5 DEF Captured, CameraType

LEMMA CameraOpensStep ==
  ASSUME Captured, NEW c \in Ask, cameraOpens(c)
  PROVE  Captured'
<1>1. /\ tracks \in Seq(Track) /\ stream \subseteq DOMAIN tracks /\ request \in Nat /\ facing \in Facing
      /\ wants \in [mic : BOOLEAN, camera : BOOLEAN] /\ mounted \in BOOLEAN /\ asks[c] \in AskType
  BY DEF Captured, CameraType
<1>2. /\ asks[c].for = "getCam" /\ asks' = [asks EXCEPT ![c] = Done] /\ UNCHANGED <<request, mounted, facing>>
      /\ AskOK(asks[c], tracks, stream, request, facing)
  BY DEF cameraOpens, Captured
<1>2a. PICK audio \in BOOLEAN : \E opened, ts, fresh :
         /\ opened = Opened(audio, asks[c].facing) /\ ts = tracks \o opened /\ fresh = Fresh(tracks, opened)
         /\ IF IsCurrent(c)
            THEN tracks' = Stop(ts, stream) /\ stream' = fresh /\ wants' = [mic |-> TRUE, camera |-> TRUE]
            ELSE tracks' = Stop(ts, fresh) /\ UNCHANGED <<stream, wants>>
  BY Zenon DEF cameraOpens
<1>3. PICK opened, ts, fresh :
        /\ opened = Opened(audio, asks[c].facing) /\ ts = tracks \o opened /\ fresh = Fresh(tracks, opened)
        /\ IF IsCurrent(c)
           THEN tracks' = Stop(ts, stream) /\ stream' = fresh /\ wants' = [mic |-> TRUE, camera |-> TRUE]
           ELSE tracks' = Stop(ts, fresh) /\ UNCHANGED <<stream, wants>>
  BY <1>2a, Zenon
<1>4. IF IsCurrent(c)
      THEN tracks' = Stop(ts, stream) /\ stream' = fresh /\ wants' = [mic |-> TRUE, camera |-> TRUE]
      ELSE tracks' = Stop(ts, fresh) /\ UNCHANGED <<stream, wants>>
  BY <1>3
<1>5. asks[c].facing \in Facing
  BY <1>1 DEF AskType
<1>6a. Grown(tracks, ts, fresh, asks[c].facing)
  <2>1. opened = Opened(TRUE, asks[c].facing) \/ opened = Opened(FALSE, asks[c].facing)
    BY <1>3, Zenon
  <2>2. /\ opened \in Seq(Track) /\ Len(opened) > 0
        /\ \A k \in DOMAIN opened : SwitchedOn(opened[k], asks[c].facing)
    BY <1>5, <2>1, OpenedType
  <2>3. ts = tracks \o opened /\ fresh = Fresh(tracks, opened)
    BY <1>3
  <2> QED
    BY <1>1, <2>2, <2>3, OpenedTracks
<1>6. /\ ts \in Seq(Track) /\ DOMAIN ts = DOMAIN tracks \cup fresh
      /\ fresh # {} /\ fresh \cap DOMAIN tracks = {} /\ fresh \subseteq Nat
      /\ \A t \in DOMAIN tracks : ts[t] = tracks[t]
      /\ \A t \in fresh : SwitchedOn(ts[t], asks[c].facing)
      /\ Later(tracks, ts)
  BY <1>6a DEF Grown
<1>7. /\ tracks' \in Seq(Track) /\ DOMAIN tracks' = DOMAIN ts /\ Later(tracks, tracks')
  BY <1>4, <1>6, StopTracks, LaterStill
<1>8. Done \in AskType /\ AskOK(Done, tracks', stream', request', facing') /\ Done.for # "getCam"
  BY <1>1, <1>2, UnderWay
<1>9. CASE IsCurrent(c)
  <2>1. mounted /\ asks[c].request = request
    BY <1>9 DEF IsCurrent
  <2>2. stream = {} /\ asks[c].facing = facing
    BY <1>2, <2>1 DEF AskOK
  <2>3. tracks' = Stop(ts, stream) /\ stream' = fresh /\ wants' = [mic |-> TRUE, camera |-> TRUE]
    BY <1>4, <1>9
  <2>4. \A d \in Ask \ {c} : ~(asks[d].for = "getCam" /\ asks[d].request = request)
    BY <1>2, <2>1 DEF Captured
  <2>5. ~(stream' \subseteq DOMAIN tracks)
    BY <1>6, <2>3
  <2>6. /\ asks' \in [Ask -> AskType]
        /\ \A d \in Ask : AskOK(asks'[d], tracks', stream', request', facing')
        /\ \A d, e \in Ask : asks'[d].for = "getCam" /\ asks'[e].for = "getCam"
                              /\ asks'[d].request = asks'[e].request => d = e
    BY <1>1, <1>2, <1>7, <1>8, <2>4, <2>5, OneAsk
  <2>7. \A t \in DOMAIN tracks' : tracks'[t] = ts[t]
    BY <1>6, <2>2, <2>3, StopTracks
  <2>8. \A t \in DOMAIN tracks : ~tracks[t].live
    BY <2>2 DEF Captured
  <2>9. \A t \in DOMAIN tracks' : tracks'[t].live =>
           mounted' /\ t \in stream' /\ ShowsCamera(tracks'[t], wants', facing')
    <3> SUFFICES ASSUME NEW t \in DOMAIN tracks', tracks'[t].live
                 PROVE  mounted' /\ t \in stream' /\ ShowsCamera(tracks'[t], wants', facing')
      OBVIOUS
    <3>1. t \in fresh /\ tracks'[t] = ts[t]
      BY <1>6, <1>7, <2>7, <2>8
    <3>2. ts[t].enabled = TRUE /\ ts[t].facing = facing'
      BY <1>2, <1>6, <2>2, <3>1 DEF SwitchedOn
    <3>3. wants'.mic = TRUE /\ wants'.camera = TRUE
      BY <2>3
    <3>4. mounted' /\ t \in stream'
      BY <1>2, <2>1, <2>3, <3>1
    <3> QED
      BY <3>1, <3>2, <3>3, <3>4 DEF ShowsCamera
  <2> QED
    BY <1>1, <1>2, <1>6, <1>7, <2>3, <2>6, <2>9 DEF Captured, CameraType
<1>10. CASE ~IsCurrent(c)
  <2>1. tracks' = Stop(ts, fresh) /\ UNCHANGED <<stream, wants>>
    BY <1>4, <1>10
  <2>2. /\ asks' \in [Ask -> AskType]
        /\ \A d \in Ask : AskOK(asks'[d], tracks', stream', request', facing')
        /\ \A d, e \in Ask : asks'[d].for = "getCam" /\ asks'[e].for = "getCam"
                              /\ asks'[d].request = asks'[e].request => d = e
    BY <1>1, <1>2, <1>7, <1>8, <2>1, OneAsk
  <2>3. \A t \in DOMAIN tracks' : tracks'[t].live => t \in DOMAIN tracks /\ tracks'[t] = tracks[t]
    BY <1>6, <1>7, <2>1, StopTracks
  <2>4. \A t \in DOMAIN tracks' : tracks'[t].live =>
           mounted' /\ t \in stream' /\ ShowsCamera(tracks'[t], wants', facing')
    BY <1>2, <2>1, <2>3 DEF Captured
  <2> QED
    BY <1>1, <1>2, <1>6, <1>7, <2>1, <2>2, <2>4 DEF Captured, CameraType
<1> QED
  BY <1>9, <1>10

\* ts2 has no track on but those of ts, as they were.
Dimmed(ts, ts2) ==
  /\ ts2 \in Seq(Track) /\ Later(ts, ts2)
  /\ \A t \in DOMAIN ts2 : ts2[t].live => t \in DOMAIN ts /\ ts2[t] = ts[t]

LEMMA StopDims ==
  ASSUME NEW ts \in Seq(Track), NEW s
  PROVE  Dimmed(ts, Stop(ts, s))
BY StopTracks DEF Dimmed

LEMMA DimmedStill ==
  ASSUME NEW t1, NEW t2, NEW t3, Dimmed(t1, t2), Dimmed(t2, t3)
  PROVE  Dimmed(t1, t3)
BY DEF Dimmed, Later

LEMMA StopFresh ==
  ASSUME NEW ts \in Seq(Track), NEW more, NEW fresh, NEW f, Grown(ts, more, fresh, f)
  PROVE  Dimmed(ts, Stop(more, fresh))
<1>1. /\ more \in Seq(Track) /\ DOMAIN more = DOMAIN ts \cup fresh
      /\ \A t \in DOMAIN ts : more[t] = ts[t]
      /\ Later(ts, more)
  BY DEF Grown
<1>2. /\ Stop(more, fresh) \in Seq(Track) /\ DOMAIN Stop(more, fresh) = DOMAIN more
      /\ Later(more, Stop(more, fresh))
      /\ \A t \in DOMAIN more : /\ Stop(more, fresh)[t].live => t \notin fresh
                                /\ t \notin fresh => Stop(more, fresh)[t] = more[t]
  BY <1>1, StopTracks
<1>3. Later(ts, Stop(more, fresh))
  BY <1>1, <1>2, LaterStill
<1> QED
  BY <1>1, <1>2, <1>3 DEF Dimmed

\* A step that only turns tracks off.
LEMMA DimmedStep ==
  ASSUME Captured, Dimmed(tracks, tracks'), UNCHANGED <<stream, request, mounted, wants, facing>>,
         \/ UNCHANGED asks
         \/ \E c \in Ask, a \in AskType :
              /\ asks' = [asks EXCEPT ![c] = a] /\ a.for # "getCam"
              /\ AskOK(a, tracks', stream, request, facing)
  PROVE  Captured'
<1>1. request \in Nat /\ Later(tracks, tracks') /\ tracks' \in Seq(Track) /\ stream' \subseteq DOMAIN tracks'
  BY DEF Captured, CameraType, Dimmed, Later
<1>2. /\ asks' \in [Ask -> AskType]
      /\ \A d \in Ask : AskOK(asks'[d], tracks', stream', request', facing')
      /\ \A d, e \in Ask : asks'[d].for = "getCam" /\ asks'[e].for = "getCam"
                            /\ asks'[d].request = asks'[e].request => d = e
  <2>1. CASE UNCHANGED asks
    BY <1>1, <2>1, NoAsk
  <2>2. CASE ~UNCHANGED asks
    <3>1. PICK c \in Ask, a \in AskType :
            /\ asks' = [asks EXCEPT ![c] = a] /\ a.for # "getCam"
            /\ AskOK(a, tracks', stream, request, facing)
      BY <2>2
    <3>2. AskOK(a, tracks', stream', request', facing')
      BY <3>1
    <3> QED
      BY <1>1, <3>1, <3>2, OneAsk
  <2> QED
    BY <2>1, <2>2
<1>3. \A t \in DOMAIN tracks' : tracks'[t].live =>
         mounted' /\ t \in stream' /\ ShowsCamera(tracks'[t], wants', facing')
  BY DEF Captured, Dimmed
<1> QED
  BY <1>1, <1>2, <1>3 DEF Captured, CameraType

LEMMA DoneStep ==
  ASSUME Captured, NEW c \in Ask, Dimmed(tracks, tracks'), asks' = [asks EXCEPT ![c] = Done],
         UNCHANGED <<stream, request, mounted, wants, facing>>
  PROVE  Captured'
<1>1. request \in Nat /\ facing \in Facing
  BY DEF Captured, CameraType
<1>2. Done \in AskType /\ AskOK(Done, tracks', stream, request, facing) /\ Done.for # "getCam"
  BY <1>1, UnderWay
<1> QED
  BY <1>2, DimmedStep

\* What reacquire reads before it awaits.
LEMMA AskedAgain ==
  ASSUME NEW for \in Reacquiring, NEW r \in Nat, NEW s \in SUBSET Nat, s # {}, NEW f \in Facing,
         NEW g \in Facing, for \in {"flipBack", "visible"} => g = f,
         NEW ts, s \subseteq DOMAIN ts, VideoOnly(for) => \A t \in s : ts[t].kind = "video" => ~ts[t].live
  PROVE  LET a == [for |-> for, request |-> r, current |-> s, facing |-> g]
         IN  a \in AskType /\ a.for # "getCam" /\ AskOK(a, ts, s, r, f)
BY DEF AskOK, AskType, Purposes, Reacquiring

LEMMA AskAgainStep ==
  ASSUME Captured, NEW c \in Ask, NEW for \in Reacquiring, NEW f \in Facing,
         for \in {"flipBack", "visible"} => f = facing, AskAgain(c, for, f)
  PROVE  Captured'
<1> DEFINE a == [for |-> for, request |-> request, current |-> stream, facing |-> f]
<1>1. /\ tracks \in Seq(Track) /\ request \in Nat /\ facing \in Facing
      /\ stream \in SUBSET Nat /\ stream \subseteq DOMAIN tracks
  BY DEF Captured, CameraType
<1>2. /\ stream # {} /\ asks' = [asks EXCEPT ![c] = a] /\ UNCHANGED <<stream, request, mounted, wants, facing>>
      /\ tracks' = IF VideoOnly(for) THEN Stop(tracks, OfKind(tracks, stream, "video")) ELSE tracks
  BY DEF AskAgain
<1>3. Dimmed(tracks, tracks')
  BY <1>1, <1>2, StopDims DEF Dimmed, Later
<1>4. VideoOnly(for) => \A t \in stream : tracks'[t].kind = "video" => ~tracks'[t].live
  <2> SUFFICES ASSUME VideoOnly(for), NEW t \in stream, tracks'[t].kind = "video" PROVE ~tracks'[t].live
    OBVIOUS
  <2>1. tracks' = Stop(tracks, OfKind(tracks, stream, "video"))
    BY <1>2
  <2>2. tracks'[t].kind = tracks[t].kind
    BY <1>1, <1>3 DEF Dimmed, Later
  <2>3. t \in OfKind(tracks, stream, "video")
    BY <2>2 DEF OfKind
  <2> QED
    BY <1>1, <2>1, <2>3, StopTracks
<1>5. stream \subseteq DOMAIN tracks'
  BY <1>1, <1>3 DEF Dimmed, Later
<1>6. a \in AskType /\ a.for # "getCam" /\ AskOK(a, tracks', stream, request, facing)
  BY <1>1, <1>2, <1>4, <1>5, AskedAgain
<1> HIDE DEF a
<1> QED
  BY <1>2, <1>3, <1>6, DimmedStep

\* Giving up what came late: with ts, the tracks as the step leaves them otherwise.
LEMMA GiveUpStep ==
  ASSUME Captured, NEW c \in Ask, NEW ts, Dimmed(tracks, ts), GiveUp(c, ts),
         UNCHANGED <<stream, request, mounted, wants, facing>>
  PROVE  Captured'
<1> DEFINE a == [for |-> "flipBack", request |-> request, current |-> stream, facing |-> facing]
<1>1. /\ tracks \in Seq(Track) /\ request \in Nat /\ facing \in Facing /\ ts \in Seq(Track)
      /\ stream \in SUBSET Nat /\ stream \subseteq DOMAIN tracks /\ stream \subseteq DOMAIN ts
  BY DEF Captured, CameraType, Dimmed, Later
<1>2. CASE asks[c].for = "flip" /\ stream # {}
  <2>1. asks' = [asks EXCEPT ![c] = a] /\ tracks' = Stop(ts, OfKind(ts, stream, "video"))
    BY <1>2 DEF GiveUp
  <2>2. Dimmed(ts, tracks') /\ Dimmed(tracks, tracks')
    BY <1>1, <2>1, StopDims, DimmedStill
  <2>3. \A t \in stream : tracks'[t].kind = "video" => ~tracks'[t].live
    <3> SUFFICES ASSUME NEW t \in stream, tracks'[t].kind = "video" PROVE ~tracks'[t].live
      OBVIOUS
    <3>1. t \in OfKind(ts, stream, "video")
      BY <1>1, <2>2 DEF Dimmed, Later, OfKind
    <3> QED
      BY <1>1, <2>1, <3>1, StopTracks
  <2>4. stream \subseteq DOMAIN tracks' /\ "flipBack" \in Reacquiring
    BY <1>1, <2>2 DEF Dimmed, Later, Reacquiring
  <2>5. a \in AskType /\ a.for # "getCam" /\ AskOK(a, tracks', stream, request, facing)
    BY <1>1, <1>2, <2>3, <2>4, AskedAgain
  <2> HIDE DEF a
  <2> QED
    BY <2>1, <2>2, <2>5, DimmedStep
<1>3. CASE ~(asks[c].for = "flip" /\ stream # {})
  <2>1. asks' = [asks EXCEPT ![c] = Done] /\ tracks' = ts
    BY <1>3 DEF GiveUp
  <2> QED
    BY <2>1, DoneStep
<1> QED
  BY <1>2, <1>3

LEMMA ReopensStep ==
  ASSUME Captured, NEW c \in Ask, reopens(c)
  PROVE  Captured'
<1>1. /\ tracks \in Seq(Track) /\ stream \subseteq DOMAIN tracks /\ request \in Nat /\ facing \in Facing
      /\ wants \in [mic : BOOLEAN, camera : BOOLEAN] /\ mounted \in BOOLEAN
      /\ asks[c] \in AskType /\ AskOK(asks[c], tracks, stream, request, facing)
  BY DEF Captured, CameraType
<1>2. asks[c].for \in Reacquiring /\ UNCHANGED <<request, mounted, wants>>
  BY DEF reopens, Reacquiring
<1>a. PICK keeps : keeps = IF VideoOnly(asks[c].for) THEN OfKind(tracks, asks[c].current, "audio") ELSE {}
  OBVIOUS
<1>b. PICK opened : opened = Opened(~VideoOnly(asks[c].for) /\ OfKind(tracks, asks[c].current, "audio") # {},
                                    asks[c].facing)
  OBVIOUS
<1>c. PICK fresh, ts, next : fresh = Fresh(tracks, opened) /\ ts = tracks \o opened /\ next = keeps \cup fresh
  OBVIOUS
<1>d. PICK halted : halted = IF VideoOnly(asks[c].for) THEN ts ELSE Stop(ts, asks[c].current)
  OBVIOUS
<1>3. \/ Overtaken(c) /\ GiveUp(c, Stop(ts, fresh)) /\ UNCHANGED <<stream, facing>>
      \/ /\ ~Overtaken(c)
         /\ tracks' = Enable(Enable(halted, OfKind(ts, next, "audio"), wants.mic),
                             OfKind(ts, fresh, "video"), wants.camera)
         /\ stream' = next
         /\ facing' = IF asks[c].for = "flip" THEN asks[c].facing ELSE facing
         /\ asks' = [asks EXCEPT ![c] = Done]
  BY <1>a, <1>b, <1>c, <1>d, Zenon DEF reopens
<1>4. Grown(tracks, ts, fresh, asks[c].facing)
  <2>1. opened = Opened(TRUE, asks[c].facing) \/ opened = Opened(FALSE, asks[c].facing)
    <3> DEFINE b == ~VideoOnly(asks[c].for) /\ OfKind(tracks, asks[c].current, "audio") # {}
    <3>1. b \in BOOLEAN /\ opened = Opened(b, asks[c].facing)
      BY <1>b
    <3> HIDE DEF b
    <3> QED
      BY <3>1, Zenon
  <2>2. /\ opened \in Seq(Track) /\ Len(opened) > 0
        /\ \A k \in DOMAIN opened : SwitchedOn(opened[k], asks[c].facing)
    BY <1>1, <2>1, OpenedType DEF AskType
  <2>3. ts = tracks \o opened /\ fresh = Fresh(tracks, opened)
    BY <1>c
  <2> QED
    BY <1>1, <2>2, <2>3, OpenedTracks
<1>5. CASE Overtaken(c)
  <2>1. GiveUp(c, Stop(ts, fresh)) /\ UNCHANGED <<stream, request, mounted, wants, facing>>
    BY <1>2, <1>3, <1>5
  <2>2. Dimmed(tracks, Stop(ts, fresh))
    BY <1>1, <1>4, StopFresh
  <2> QED
    BY <2>1, <2>2, GiveUpStep
<1>6. CASE ~Overtaken(c)
  <2>1. mounted /\ asks[c].request = request /\ stream = asks[c].current
    BY <1>6 DEF Overtaken, IsCurrent
  <2>2. PICK audios, videos, e :
          /\ audios = OfKind(ts, next, "audio") /\ videos = OfKind(ts, fresh, "video")
          /\ e = Enable(halted, audios, wants.mic) /\ tracks' = Enable(e, videos, wants.camera)
    <3> WITNESS OfKind(ts, next, "audio"), OfKind(ts, fresh, "video"),
                Enable(halted, OfKind(ts, next, "audio"), wants.mic)
    <3> QED
      BY <1>3, <1>6, Zenon
  <2>3. /\ stream' = next /\ asks' = [asks EXCEPT ![c] = Done]
        /\ facing' = IF asks[c].for = "flip" THEN asks[c].facing ELSE facing
        /\ halted = IF VideoOnly(asks[c].for) THEN ts ELSE Stop(ts, stream)
        /\ next = keeps \cup fresh
        /\ keeps = IF VideoOnly(asks[c].for) THEN OfKind(tracks, stream, "audio") ELSE {}
    BY <1>a, <1>c, <1>d, <1>3, <1>6, <2>1
  <2>4. facing' = asks[c].facing /\ facing' \in Facing
    BY <1>1, <1>2, <2>1, <2>3 DEF AskOK, AskType, Reacquiring
  <2>5. /\ ts \in Seq(Track) /\ DOMAIN ts = DOMAIN tracks \cup fresh
        /\ fresh # {} /\ fresh \cap DOMAIN tracks = {} /\ fresh \subseteq Nat
        /\ \A t \in DOMAIN tracks : ts[t] = tracks[t]
        /\ \A t \in fresh : SwitchedOn(ts[t], asks[c].facing)
        /\ Later(tracks, ts)
    BY <1>4 DEF Grown
  <2>6. /\ halted \in Seq(Track) /\ DOMAIN halted = DOMAIN ts /\ Later(ts, halted)
        /\ \A t \in DOMAIN ts : t \notin stream => halted[t] = ts[t]
        /\ ~VideoOnly(asks[c].for) => \A t \in stream : ~halted[t].live
        /\ VideoOnly(asks[c].for) => halted = ts
    <3>1. CASE VideoOnly(asks[c].for)
      BY <2>3, <2>5, <3>1 DEF Later
    <3>2. CASE ~VideoOnly(asks[c].for)
      <4>1. halted = Stop(ts, stream) /\ stream \subseteq DOMAIN ts
        BY <1>1, <2>3, <2>5, <3>2
      <4> QED
        BY <2>5, <3>2, <4>1, StopTracks
    <3> QED
      BY <3>1, <3>2
  <2>7. wants.mic \in BOOLEAN /\ wants.camera \in BOOLEAN
    BY <1>1
  <2>8. /\ e \in Seq(Track) /\ DOMAIN e = DOMAIN ts /\ Later(halted, e)
        /\ \A t \in DOMAIN ts : /\ t \in audios => e[t].enabled = wants.mic
                                /\ e[t].facing = halted[t].facing
    BY <2>2, <2>6, <2>7, EnableTracks
  <2>9. /\ tracks' \in Seq(Track) /\ DOMAIN tracks' = DOMAIN ts /\ Later(e, tracks')
        /\ \A t \in DOMAIN ts : /\ t \in videos => tracks'[t].enabled = wants.camera
                                /\ tracks'[t].facing = e[t].facing
                                /\ t \notin videos => tracks'[t] = e[t]
    BY <2>2, <2>7, <2>8, EnableTracks
  <2>10. Later(ts, tracks') /\ Later(tracks, tracks') /\ Later(halted, tracks')
    BY <2>5, <2>6, <2>8, <2>9, LaterStill
  <2>11. ~(stream' \subseteq DOMAIN tracks) /\ stream' \subseteq DOMAIN tracks'
    BY <1>1, <2>3, <2>5, <2>9 DEF OfKind
  <2>12. /\ asks' \in [Ask -> AskType]
         /\ \A d \in Ask : AskOK(asks'[d], tracks', stream', request', facing')
         /\ \A d, f \in Ask : asks'[d].for = "getCam" /\ asks'[f].for = "getCam"
                               /\ asks'[d].request = asks'[f].request => d = f
    <3>1. stream # {}
      BY <1>1, <1>2, <2>1 DEF AskOK
    <3>2. \A d \in Ask : ~(asks[d].for = "getCam" /\ asks[d].request = request)
      BY <3>1 DEF Captured, AskOK
    <3>3. request' = request /\ request' \in Nat
      BY <1>1, <1>2
    <3>4. Done \in AskType /\ AskOK(Done, tracks', stream', request', facing') /\ Done.for # "getCam"
      BY <2>4, <3>3, UnderWay
    <3> QED
      BY <2>3, <2>10, <2>11, <3>2, <3>3, <3>4, OneAsk
  <2>13. ASSUME NEW t \in DOMAIN tracks', tracks'[t].live
         PROVE  t \in stream' /\ ShowsCamera(tracks'[t], wants, facing')
    <3>1. /\ ts[t] \in Track /\ tracks'[t].kind = ts[t].kind /\ halted[t].live /\ ts[t].live
          /\ t \in DOMAIN ts
      <4>1. t \in DOMAIN ts /\ t \in DOMAIN halted /\ ts[t] \in Track
        <5>1. t \in DOMAIN ts /\ t \in DOMAIN halted
          BY <2>6, <2>9
        <5>2. ts \in Seq(Track)
          BY <2>5
        <5> QED
          BY <5>1, <5>2
      <4>2. tracks'[t].kind = ts[t].kind
        BY <2>10, <4>1 DEF Later
      <4>3. halted[t].live
        BY <2>10, <2>13, <4>1 DEF Later
      <4>4. ts[t].live
        BY <2>6, <4>1, <4>3 DEF Later
      <4> QED
        BY <4>1, <4>2, <4>3, <4>4
    <3>2. CASE t \in fresh
      <4>1. t \in stream' /\ t \in next /\ t \notin stream
        BY <1>1, <2>3, <2>5, <3>2
      <4>2. CASE ts[t].kind = "audio"
        <5>1. t \in audios /\ t \notin videos
          BY <2>2, <4>1, <4>2 DEF OfKind
        <5> QED
          BY <2>8, <2>9, <3>1, <4>1, <4>2, <5>1 DEF ShowsCamera
      <4>3. CASE ts[t].kind # "audio"
        <5>1. ts[t].kind = "video"
          BY <3>1, <4>3 DEF Track
        <5>2. t \in videos
          BY <2>2, <3>2, <5>1 DEF OfKind
        <5>3. tracks'[t].enabled = wants.camera
          BY <2>9, <3>1, <5>2
        <5>4. tracks'[t].facing = facing'
          <6>1. tracks'[t].facing = halted[t].facing
            BY <2>8, <2>9, <3>1
          <6>2. halted[t] = ts[t]
            BY <2>6, <3>1, <4>1
          <6>3. ts[t].facing = asks[c].facing
            BY <2>5, <3>2 DEF SwitchedOn
          <6> QED
            BY <2>4, <6>1, <6>2, <6>3
        <5> QED
          BY <3>1, <4>1, <4>3, <5>3, <5>4 DEF ShowsCamera
      <4> QED
        BY <4>2, <4>3
    <3>3. CASE t \notin fresh
      <4>1. t \in DOMAIN tracks /\ ts[t] = tracks[t]
        BY <2>5, <3>1, <3>3
      <4>2. t \in stream
        BY <3>1, <4>1 DEF Captured
      <4>3. VideoOnly(asks[c].for)
        BY <2>6, <3>1, <4>2
      <4>4. ts[t].kind # "video"
        BY <1>1, <2>1, <3>1, <4>1, <4>2, <4>3 DEF AskOK
      <4>5. ts[t].kind = "audio"
        BY <3>1, <4>4 DEF Track
      <4>6. t \in keeps /\ t \in next
        BY <2>3, <4>1, <4>2, <4>3, <4>5 DEF OfKind
      <4>7. t \in audios /\ t \notin videos
        BY <2>2, <3>3, <4>5, <4>6 DEF OfKind
      <4>8. tracks'[t].enabled = wants.mic /\ tracks'[t].kind = "audio"
        BY <2>8, <2>9, <3>1, <4>5, <4>7
      <4> QED
        BY <2>3, <4>6, <4>8 DEF ShowsCamera
    <3> QED
      BY <3>2, <3>3
  <2> QED
    BY <1>1, <1>2, <2>1, <2>4, <2>9, <2>11, <2>12, <2>13 DEF Captured, CameraType
<1> QED
  BY <1>5, <1>6

\* A button: the tracks of a kind of the stream follow it.
LEMMA EnabledStep ==
  ASSUME Captured, NEW kind \in {"audio", "video"}, NEW on \in BOOLEAN, mounted,
         wants' = IF kind = "audio" THEN [wants EXCEPT !.mic = on] ELSE [wants EXCEPT !.camera = on],
         tracks' = Enable(tracks, OfKind(tracks, stream, kind), on),
         UNCHANGED <<stream, request, mounted, facing, asks>>
  PROVE  Captured'
<1>1. /\ tracks \in Seq(Track) /\ stream \subseteq DOMAIN tracks /\ request \in Nat /\ facing \in Facing
      /\ wants \in [mic : BOOLEAN, camera : BOOLEAN] /\ mounted \in BOOLEAN
  BY DEF Captured, CameraType
<1>2. PICK some : some = OfKind(tracks, stream, kind)
  OBVIOUS
<1>3. /\ tracks' \in Seq(Track) /\ DOMAIN tracks' = DOMAIN tracks /\ Later(tracks, tracks')
      /\ \A t \in DOMAIN tracks : /\ t \in some => tracks'[t].enabled = on
                                  /\ tracks'[t].facing = tracks[t].facing
                                  /\ t \notin some => tracks'[t] = tracks[t]
  BY <1>1, <1>2, EnableTracks
<1>4. /\ asks' \in [Ask -> AskType]
      /\ \A d \in Ask : AskOK(asks'[d], tracks', stream', request', facing')
      /\ \A d, e \in Ask : asks'[d].for = "getCam" /\ asks'[e].for = "getCam"
                            /\ asks'[d].request = asks'[e].request => d = e
  BY <1>1, <1>3, NoAsk
<1>5. wants' \in [mic : BOOLEAN, camera : BOOLEAN]
  BY <1>1
<1>6. /\ kind = "audio" => wants'.mic = on /\ wants'.camera = wants.camera
      /\ kind = "video" => wants'.camera = on /\ wants'.mic = wants.mic
  BY <1>1
<1>7. ASSUME NEW t \in DOMAIN tracks', tracks'[t].live
      PROVE  t \in stream /\ ShowsCamera(tracks'[t], wants', facing)
  <2>1. /\ t \in DOMAIN tracks /\ tracks[t].live /\ tracks'[t].kind = tracks[t].kind
        /\ tracks[t].kind \in {"audio", "video"}
    <3>1. t \in DOMAIN tracks /\ tracks[t] \in Track
      BY <1>1, <1>3
    <3>2. tracks'[t].kind = tracks[t].kind
      BY <1>3, <3>1 DEF Later
    <3>3. tracks[t].live
      BY <1>3, <1>7, <3>1 DEF Later
    <3> QED
      BY <3>1, <3>2, <3>3 DEF Track
  <2>2. t \in stream /\ ShowsCamera(tracks[t], wants, facing)
    BY <2>1 DEF Captured
  <2>3. CASE tracks[t].kind = kind
    <3>1. t \in some
      BY <1>2, <2>2, <2>3 DEF OfKind
    <3>2. tracks'[t].enabled = on /\ tracks'[t].facing = tracks[t].facing
      BY <1>3, <2>1, <3>1
    <3> QED
      BY <1>6, <2>1, <2>2, <2>3, <3>2 DEF ShowsCamera
  <2>4. CASE tracks[t].kind # kind
    <3>1. tracks'[t] = tracks[t]
      BY <1>2, <1>3, <2>1, <2>4 DEF OfKind
    <3> QED
      BY <1>6, <2>1, <2>2, <2>4, <3>1 DEF ShowsCamera
  <2> QED
    BY <2>3, <2>4
<1> QED
  BY <1>1, <1>3, <1>4, <1>5, <1>7 DEF Captured, CameraType

LEMMA CapturedStep ==
  ASSUME Captured, [CameraNext]_cameraVars
  PROVE  Captured'
<1>1. /\ tracks \in Seq(Track) /\ stream \subseteq DOMAIN tracks /\ request \in Nat /\ facing \in Facing
      /\ wants \in [mic : BOOLEAN, camera : BOOLEAN] /\ mounted \in BOOLEAN
  BY DEF Captured, CameraType
<1>2. CASE unmount
  <2>1. /\ tracks' = Stop(tracks, stream) /\ stream' = {} /\ request' = request + 1 /\ mounted' = FALSE
        /\ UNCHANGED <<wants, facing, asks>>
    BY <1>2 DEF unmount
  <2>2. /\ tracks' \in Seq(Track) /\ Later(tracks, tracks') /\ \A t \in DOMAIN tracks' : ~tracks'[t].live
    BY <2>1, AllStopped
  <2>3. request' \in Nat /\ request' > request
    BY <1>1, <2>1
  <2>4. /\ asks' \in [Ask -> AskType]
        /\ \A d \in Ask : AskOK(asks'[d], tracks', stream', request', facing')
        /\ \A d, e \in Ask : asks'[d].for = "getCam" /\ asks'[e].for = "getCam"
                              /\ asks'[d].request = asks'[e].request => d = e
    BY <2>1, <2>2, <2>3, NoAsk
  <2> QED
    BY <1>1, <2>1, <2>2, <2>3, <2>4 DEF Captured, CameraType
<1>3. ASSUME NEW c \in Ask, retryCamera(c)
      PROVE  Captured'
  <2>1. mounted /\ AskForCamera(c, tracks, request)
    BY <1>3 DEF retryCamera
  <2>2. \A t \in DOMAIN tracks : ~tracks[t].live
    BY <1>3 DEF retryCamera, Captured
  <2>3. Later(tracks, tracks) /\ request >= request
    BY <1>1 DEF Later
  <2> QED
    BY <1>1, <2>1, <2>2, <2>3, AskForCameraStep
<1>4. ASSUME NEW c \in Ask, restartCamera(c)
      PROVE  Captured'
  <2>1. mounted /\ AskForCamera(c, Stop(tracks, stream), request + 1)
    BY <1>4 DEF restartCamera
  <2>2. request + 1 \in Nat /\ request + 1 >= request
    BY <1>1
  <2> QED
    BY <2>1, <2>2, AllStopped, AskForCameraStep
<1>5. ASSUME NEW c \in Ask, cameraFails(c)
      PROVE  Captured'
  <2>1. /\ asks[c].for = "getCam" /\ asks' = [asks EXCEPT ![c] = Done] /\ UNCHANGED <<request, mounted, wants, facing>>
        /\ IF IsCurrent(c) THEN tracks' = Stop(tracks, stream) /\ stream' = {}
                           ELSE UNCHANGED <<tracks, stream>>
    BY <1>5 DEF cameraFails
  <2>2. IsCurrent(c) => stream = {}
    BY <2>1 DEF IsCurrent, Captured, AskOK
  <2>3. UNCHANGED stream /\ Dimmed(tracks, tracks')
    <3>1. Dimmed(tracks, tracks)
      BY <1>1 DEF Dimmed, Later
    <3>2. Dimmed(tracks, Stop(tracks, stream))
      BY <1>1, StopDims
    <3> QED
      BY <2>1, <2>2, <3>1, <3>2
  <2> QED
    BY <2>1, <2>3, DoneStep
<1>6. ASSUME NEW c \in Ask, flipCamera(c) \/ onVisible(c)
      PROVE  Captured'
  <2>1. OtherSide(facing) \in Facing
    BY <1>1, OtherSideType
  <2>2. AskAgain(c, "flip", OtherSide(facing)) \/ AskAgain(c, "visible", facing)
    BY <1>6 DEF flipCamera, onVisible
  <2>3. CASE AskAgain(c, "flip", OtherSide(facing))
    BY <2>1, <2>3, AskAgainStep DEF Reacquiring
  <2>4. CASE AskAgain(c, "visible", facing)
    BY <1>1, <2>4, AskAgainStep DEF Reacquiring
  <2> QED
    BY <2>2, <2>3, <2>4
<1>7. ASSUME NEW c \in Ask, reopenFails(c)
      PROVE  Captured'
  <2>1. Dimmed(tracks, tracks)
    BY <1>1 DEF Dimmed, Later
  <2> QED
    BY <1>7, <2>1, GiveUpStep DEF reopenFails
<1>8. ASSUME NEW on \in BOOLEAN, setMicEnabled(on) \/ setCameraEnabled(on)
      PROVE  Captured'
  <2>1. CASE setMicEnabled(on)
    BY <2>1, EnabledStep DEF setMicEnabled
  <2>2. CASE setCameraEnabled(on)
    BY <2>2, EnabledStep DEF setCameraEnabled
  <2> QED
    BY <1>8, <2>1, <2>2
<1>9. ASSUME NEW kind \in {"audio", "video"}, SystemEnds(kind)
      PROVE  Captured'
  <2>1. tracks' = Stop(tracks, OfKind(tracks, stream, kind)) /\ UNCHANGED <<stream, request, mounted, wants, facing, asks>>
    BY <1>9 DEF SystemEnds
  <2>2. Dimmed(tracks, tracks')
    BY <1>1, <2>1, StopDims
  <2> QED
    BY <2>1, <2>2, DimmedStep
<1>10. CASE UNCHANGED cameraVars
  BY <1>10 DEF cameraVars, Captured, CameraType, AskOK, ShowsCamera
<1> QED
  BY <1>2, <1>3, <1>4, <1>5, <1>6, <1>7, <1>8, <1>9, <1>10, CameraOpensStep, ReopensStep DEF CameraNext

\* Whatever getUserMedia answers late (getCam, reacquire, flipCamera), no camera or
\* microphone is on but those the page shows, muted or dark as its buttons say, for
\* any number of calls under way at once (useMediaStream, stopStream).
THEOREM CaptureIsShownCorrect == CameraSpec => []CaptureIsShown
<1>1. Captured => CaptureIsShown
  BY DEF Captured, CameraType, ShowsCamera, CaptureIsShown
<1> QED
  BY <1>1, CapturedInit, CapturedStep, PTL DEF CameraSpec

(***************************************************************************)
(* Peer.                                                                   *)
(***************************************************************************)

LEMMA Ends == /\ \A e \in End : e = "offerer" \/ e = "answerer"
              /\ "offerer" \in End /\ "answerer" \in End
              /\ \A e \in End : Other(e) \in End /\ Other(e) # e /\ Other(Other(e)) = e
              /\ Other("offerer") = "answerer" /\ Other("answerer") = "offerer"
BY DEF End, Other

LEMMA TaskTypes ==
  /\ \A n \in Nat, is \in {"offer", "answer", "candidate"} :
       T(is, n) \in Task /\ T(is, n).is = is /\ T(is, n).of = n
  /\ \A is \in {"start", "restart"} : T(is, 0) \in Task /\ T(is, 0).is = is
  /\ \A t \in Task : t.of \in Nat /\ t.is \in {"offer", "answer", "candidate", "start", "restart"}
BY DEF Task, Signal, T

\* The line s of signals towards an end that has applied description r and got the
\* candidates `got` of it, when the other end has made description n and sent the
\* candidates of those in `sent`: the newest description is under way, once, exactly if
\* it is not applied, its candidates come after it, and none is lost.
Ordered(s, kind, n, r, sent, got) ==
  /\ r # n => \E i \in 1 .. Len(s) : s[i].is = kind
  /\ \A i \in 1 .. Len(s) : s[i].is = kind => s[i].of = n /\ r # n
  /\ \A i, j \in 1 .. Len(s) : s[i].is = kind /\ s[j].is = kind => i = j
  /\ \A i \in 1 .. Len(s) : s[i].is = "candidate" => s[i].of \in sent
  /\ \A i, j \in 1 .. Len(s) : s[i].is = "candidate" /\ s[i].of = n /\ s[j].is = kind => j < i
  /\ n \in sent => n \in got \/ \E i \in 1 .. Len(s) : s[i].is = "candidate" /\ s[i].of = n
  /\ got \subseteq {r} \cap sent
  /\ \A k \in sent : k \in Nat /\ k # 0 /\ (k <= r \/ k = n)

LEMMA NothingSent == \A kind : Ordered(<<>>, kind, 0, 0, {}, {})
BY DEF Ordered

LEMMA TailElements ==
  ASSUME NEW s \in Seq(Task), s # <<>>
  PROVE  /\ Tail(s) \in Seq(Task) /\ Head(s) = s[1] /\ Head(s) \in Task
         /\ Len(s) \in Nat \ {0} /\ Len(Tail(s)) = Len(s) - 1
         /\ \A i \in 1 .. Len(Tail(s)) : i + 1 \in 1 .. Len(s) /\ Tail(s)[i] = s[i + 1]
OBVIOUS

LEMMA AppendElements ==
  ASSUME NEW s \in Seq(Task), NEW t \in Task
  PROVE  /\ Append(s, t) \in Seq(Task)
         /\ Len(s) \in Nat /\ Len(Append(s, t)) = Len(s) + 1
         /\ \A i \in 1 .. Len(s) : Append(s, t)[i] = s[i]
         /\ Append(s, t)[Len(s) + 1] = t
OBVIOUS

\* Every element of s after its first is in the tail.
LEMMA InTail ==
  ASSUME NEW s \in Seq(Task), s # <<>>, NEW i \in 1 .. Len(s), i # 1
  PROVE  i - 1 \in 1 .. Len(Tail(s)) /\ Tail(s)[i - 1] = s[i]
OBVIOUS

\* A task of another kind is done: the line stays ordered.
LEMMA OtherTaskDone ==
  ASSUME NEW s \in Seq(Task), s # <<>>, NEW kind, NEW n, NEW r, NEW sent, NEW got,
         Ordered(s, kind, n, r, sent, got), Head(s).is \notin {kind, "candidate"}
  PROVE  Ordered(Tail(s), kind, n, r, sent, got)
<1>1. /\ s[1].is \notin {kind, "candidate"} /\ Len(s) \in Nat
      /\ \A i \in 1 .. Len(Tail(s)) : i \in Nat /\ i + 1 \in 1 .. Len(s) /\ Tail(s)[i] = s[i + 1]
  BY TailElements
<1>2. ASSUME r # n PROVE \E i \in 1 .. Len(Tail(s)) : Tail(s)[i].is = kind
  <2>1. PICK i \in 1 .. Len(s) : s[i].is = kind
    BY <1>2 DEF Ordered
  <2>2. i # 1
    BY <1>1, <2>1
  <2> QED
    BY <2>1, <2>2, InTail
<1>3. n \in sent => n \in got \/ \E i \in 1 .. Len(Tail(s)) : Tail(s)[i].is = "candidate" /\ Tail(s)[i].of = n
  BY <1>1, InTail DEF Ordered
<1>4. \A i, j \in 1 .. Len(Tail(s)) : Tail(s)[i].is = kind /\ Tail(s)[j].is = kind => i = j
  BY <1>1 DEF Ordered
<1>5. \A i, j \in 1 .. Len(Tail(s)) :
        Tail(s)[i].is = "candidate" /\ Tail(s)[i].of = n /\ Tail(s)[j].is = kind => j < i
  BY <1>1 DEF Ordered
<1>6. \A i \in 1 .. Len(Tail(s)) : /\ Tail(s)[i].is = kind => Tail(s)[i].of = n /\ r # n
                                   /\ Tail(s)[i].is = "candidate" => Tail(s)[i].of \in sent
  BY <1>1 DEF Ordered
<1> QED
  BY <1>2, <1>3, <1>4, <1>5, <1>6 DEF Ordered

\* The description is applied: it was the newest, and its candidates are still to come.
LEMMA DescriptionDone ==
  ASSUME NEW s \in Seq(Task), s # <<>>, NEW kind, NEW n \in Nat, NEW r \in Nat, NEW sent, NEW got,
         Ordered(s, kind, n, r, sent, got), Head(s).is = kind, kind # "candidate", r <= n
  PROVE  Head(s).of = n /\ r # n /\ Ordered(Tail(s), kind, n, n, sent, {})
<1>1. /\ Head(s) = s[1] /\ s[1].is = kind /\ Len(s) \in Nat \ {0}
      /\ \A i \in 1 .. Len(Tail(s)) : i \in Nat \ {0} /\ i + 1 \in 1 .. Len(s) /\ Tail(s)[i] = s[i + 1]
  BY TailElements
<1>2. Head(s).of = n /\ r # n
  BY <1>1 DEF Ordered
<1>3. \A i \in 1 .. Len(Tail(s)) : Tail(s)[i].is # kind
  BY <1>1 DEF Ordered
<1>4. n \in sent => \E i \in 1 .. Len(Tail(s)) : Tail(s)[i].is = "candidate" /\ Tail(s)[i].of = n
  BY <1>1, <1>2, InTail DEF Ordered
<1>5. \A i \in 1 .. Len(Tail(s)) : Tail(s)[i].is = "candidate" => Tail(s)[i].of \in sent
  BY <1>1 DEF Ordered
<1>6. \A k \in sent : k \in Nat /\ k # 0 /\ (k <= n \/ k = n)
  BY DEF Ordered
<1> QED
  BY <1>2, <1>3, <1>4, <1>5, <1>6 DEF Ordered

\* A candidate arrives: a description was applied before, and one of the newest is added.
LEMMA CandidateDone ==
  ASSUME NEW s \in Seq(Task), s # <<>>, NEW kind, NEW n \in Nat, NEW r \in Nat, NEW sent, NEW got,
         Ordered(s, kind, n, r, sent, got), Head(s).is = "candidate", kind # "candidate"
  PROVE  /\ r # 0
         /\ Ordered(Tail(s), kind, n, r, sent, IF r = Head(s).of THEN got \cup {Head(s).of} ELSE got)
<1> DEFINE k == Head(s).of
           new == IF r = k THEN got \cup {k} ELSE got
<1>1. /\ Head(s) = s[1] /\ s[1].is = "candidate" /\ 1 \in 1 .. Len(s) /\ Len(s) \in Nat
      /\ \A i \in 1 .. Len(Tail(s)) : i \in Nat \ {0} /\ i + 1 \in 1 .. Len(s) /\ Tail(s)[i] = s[i + 1]
  BY TailElements
<1>2. k \in sent /\ k \in Nat /\ k # 0 /\ (k <= r \/ k = n)
  BY <1>1 DEF Ordered
<1>3. k = n => r = n
  <2> SUFFICES ASSUME k = n, r # n PROVE FALSE
    OBVIOUS
  <2>1. PICK j \in 1 .. Len(s) : s[j].is = kind
    BY DEF Ordered
  <2>2. j < 1
    BY <1>1, <2>1 DEF Ordered
  <2> QED
    BY <2>2, <1>1
<1>4. r # 0
  BY <1>2, <1>3
<1>5. r # n => \E i \in 1 .. Len(Tail(s)) : Tail(s)[i].is = kind
  <2> SUFFICES ASSUME r # n PROVE \E i \in 1 .. Len(Tail(s)) : Tail(s)[i].is = kind
    OBVIOUS
  <2>1. PICK i \in 1 .. Len(s) : s[i].is = kind
    BY DEF Ordered
  <2>2. i # 1
    BY <1>1, <2>1
  <2> QED
    BY <2>1, <2>2, InTail
<1>6. n \in sent => n \in new \/ \E i \in 1 .. Len(Tail(s)) : Tail(s)[i].is = "candidate" /\ Tail(s)[i].of = n
  <2> SUFFICES ASSUME n \in sent, n \notin new
               PROVE  \E i \in 1 .. Len(Tail(s)) : Tail(s)[i].is = "candidate" /\ Tail(s)[i].of = n
    OBVIOUS
  <2>1. k # n /\ n \notin got
    BY <1>3
  <2>2. PICK i \in 1 .. Len(s) : s[i].is = "candidate" /\ s[i].of = n
    BY <2>1 DEF Ordered
  <2>3. i # 1
    BY <1>1, <2>1, <2>2
  <2> QED
    BY <2>2, <2>3, InTail
<1>7. new \subseteq {r} \cap sent
  BY <1>2 DEF Ordered
<1>8. \A i, j \in 1 .. Len(Tail(s)) : Tail(s)[i].is = kind /\ Tail(s)[j].is = kind => i = j
  BY <1>1 DEF Ordered
<1>9. \A i, j \in 1 .. Len(Tail(s)) :
        Tail(s)[i].is = "candidate" /\ Tail(s)[i].of = n /\ Tail(s)[j].is = kind => j < i
  BY <1>1 DEF Ordered
<1>10. \A i \in 1 .. Len(Tail(s)) : /\ Tail(s)[i].is = kind => Tail(s)[i].of = n /\ r # n
                                    /\ Tail(s)[i].is = "candidate" => Tail(s)[i].of \in sent
  BY <1>1 DEF Ordered
<1>11. \A q \in sent : q \in Nat /\ q # 0 /\ (q <= r \/ q = n)
  BY DEF Ordered
<1> HIDE DEF new
<1>12. Ordered(Tail(s), kind, n, r, sent, new)
  BY <1>5, <1>6, <1>7, <1>8, <1>9, <1>10, <1>11 DEF Ordered
<1> QED
  BY <1>4, <1>12 DEF new

\* What is put at the end of a line.
LEMMA OtherTaskAsked ==
  ASSUME NEW s \in Seq(Task), NEW t \in Task, NEW kind, NEW n, NEW r, NEW sent, NEW got,
         Ordered(s, kind, n, r, sent, got), t.is \notin {kind, "candidate"}
  PROVE  Ordered(Append(s, t), kind, n, r, sent, got)
<1> DEFINE u == Append(s, t)
<1>1. /\ Len(s) \in Nat /\ Len(u) = Len(s) + 1 /\ \A i \in 1 .. Len(s) : i \in 1 .. Len(u) /\ u[i] = s[i]
      /\ \A i \in 1 .. Len(u) : i \in 1 .. Len(s) \/ (u[i].is # kind /\ u[i].is # "candidate")
  BY AppendElements
<1> HIDE DEF u
<1>2. r # n => \E i \in 1 .. Len(u) : u[i].is = kind
  BY <1>1 DEF Ordered
<1>3. n \in sent => n \in got \/ \E i \in 1 .. Len(u) : u[i].is = "candidate" /\ u[i].of = n
  BY <1>1 DEF Ordered
<1>4. \A i \in 1 .. Len(u) : /\ u[i].is = kind => u[i].of = n /\ r # n
                             /\ u[i].is = "candidate" => u[i].of \in sent
  BY <1>1 DEF Ordered
<1>5. \A i, j \in 1 .. Len(u) : u[i].is = kind /\ u[j].is = kind => i = j
  BY <1>1 DEF Ordered
<1>6. \A i, j \in 1 .. Len(u) : u[i].is = "candidate" /\ u[i].of = n /\ u[j].is = kind => j < i
  BY <1>1 DEF Ordered
<1>7. Ordered(u, kind, n, r, sent, got)
  BY <1>2, <1>3, <1>4, <1>5, <1>6 DEF Ordered
<1> QED
  BY <1>7 DEF u

LEMMA DescriptionSent ==
  ASSUME NEW s \in Seq(Task), NEW kind, NEW n \in Nat, NEW m \in Nat, m > n, NEW sent, NEW got,
         NEW t \in Task, t.is = kind, t.of = m, kind # "candidate",
         Ordered(s, kind, n, n, sent, got)
  PROVE  Ordered(Append(s, t), kind, m, n, sent, got)
<1> DEFINE u == Append(s, t)
<1>1. /\ Len(s) \in Nat /\ Len(u) = Len(s) + 1 /\ \A i \in 1 .. Len(s) : u[i] = s[i]
      /\ u[Len(s) + 1] = t
  BY AppendElements
<1> HIDE DEF u
<1>2. \A i \in 1 .. Len(u) : i \in 1 .. Len(s) \/ i = Len(s) + 1
  BY <1>1
<1>3. /\ \A i \in 1 .. Len(s) : u[i].is # kind
      /\ \A i \in 1 .. Len(s) : u[i].is = "candidate" => u[i].of \in sent
  BY <1>1 DEF Ordered
<1>4. \A k \in sent : k \in Nat /\ k # 0 /\ k <= n
  BY DEF Ordered
<1>5. \E i \in 1 .. Len(u) : u[i].is = kind
  BY <1>1
<1>6. \A i \in 1 .. Len(u) : /\ u[i].is = kind => u[i].of = m /\ n # m /\ i = Len(s) + 1
                             /\ u[i].is = "candidate" => u[i].of \in sent /\ u[i].of # m
  BY <1>1, <1>2, <1>3, <1>4
<1>7. m \notin sent
  BY <1>4
<1>8. got \subseteq {n} \cap sent
  BY DEF Ordered
<1>9. Ordered(u, kind, m, n, sent, got)
  BY <1>4, <1>5, <1>6, <1>7, <1>8 DEF Ordered
<1> QED
  BY <1>9 DEF u

LEMMA CandidateSent ==
  ASSUME NEW s \in Seq(Task), NEW kind, NEW n \in Nat \ {0}, NEW r \in Nat, NEW sent, NEW got,
         NEW t \in Task, t.is = "candidate", t.of = n, kind # "candidate",
         Ordered(s, kind, n, r, sent, got)
  PROVE  Ordered(Append(s, t), kind, n, r, sent \cup {n}, got)
<1> DEFINE u == Append(s, t)
<1>1. /\ Len(s) \in Nat /\ Len(u) = Len(s) + 1 /\ \A i \in 1 .. Len(s) : i \in 1 .. Len(u) /\ u[i] = s[i]
      /\ u[Len(s) + 1] = t
  BY AppendElements
<1> HIDE DEF u
<1>2. \A i \in 1 .. Len(u) : i \in 1 .. Len(s) \/ i = Len(s) + 1
  BY <1>1
<1>3. r # n => \E i \in 1 .. Len(u) : u[i].is = kind
  BY <1>1 DEF Ordered
<1>4. \E i \in 1 .. Len(u) : u[i].is = "candidate" /\ u[i].of = n
  BY <1>1
<1>5. \A i \in 1 .. Len(u) : u[i].is = kind => i \in 1 .. Len(s) /\ u[i].of = n /\ r # n
  BY <1>1, <1>2 DEF Ordered
<1>6. \A i \in 1 .. Len(u) : u[i].is = "candidate" => u[i].of \in sent \cup {n}
  BY <1>1, <1>2 DEF Ordered
<1>7. \A i, j \in 1 .. Len(u) : u[i].is = kind /\ u[j].is = kind => i = j
  BY <1>1, <1>5 DEF Ordered
<1>8. \A i, j \in 1 .. Len(u) : u[i].is = "candidate" /\ u[i].of = n /\ u[j].is = kind => j < i
  BY <1>1, <1>2, <1>5 DEF Ordered
<1>9. got \subseteq {r} \cap (sent \cup {n}) /\ \A k \in sent \cup {n} : k \in Nat /\ k # 0 /\ (k <= r \/ k = n)
  BY DEF Ordered
<1>10. Ordered(u, kind, n, r, sent \cup {n}, got)
  BY <1>3, <1>4, <1>5, <1>6, <1>7, <1>8, <1>9 DEF Ordered
<1> QED
  BY <1>10 DEF u

\* The descriptions that arrive at an end.
Arrives(e) == IF e = "offerer" THEN "answer" ELSE "offer"

Lines ==
  \A e \in End :
    Ordered(chain[e], Arrives(e), local[Other(e)], remote[e], gathered[Other(e)], added[e])

\* The answerer's description is the newest offer or the one before; the offerer is
\* stable exactly if the newest is answered.
Rounds ==
  /\ remote["offerer"] <= local["answerer"] /\ remote["answerer"] <= local["offerer"]
  /\ remote["answerer"] = local["answerer"]
  /\ local["answerer"] \in {remote["offerer"], local["offerer"]}
  /\ signaling["answerer"] = "stable"
  /\ signaling["offerer"] = IF remote["offerer"] = local["offerer"] THEN "stable" ELSE "have-local-offer"
  /\ \A e \in End : queued[e] = {}

\* The call is started once, by the first task of the offerer.
Tasks ==
  /\ \A i \in 1 .. Len(chain["answerer"]) : chain["answerer"][i].is \in {"offer", "candidate"}
  /\ \A i \in 1 .. Len(chain["offerer"]) :
       /\ chain["offerer"][i].is \in {"start", "restart", "answer", "candidate"}
       /\ chain["offerer"][i].is = "start" => i = 1 /\ local["offerer"] = 0
  /\ "offerer" \notin joined => chain["offerer"] = <<>> /\ local["offerer"] = 0

Agreeing == stuck = TRUE \/ (Lines /\ Rounds /\ Tasks)

-----------------------------------------------------------------------------
(* Types.                                                                   *)

LEMMA PeerTypes ==
  ASSUME PeerTypeOK
  PROVE  /\ chain \in [End -> Seq(Task)] /\ local \in [End -> Nat] /\ remote \in [End -> Nat]
         /\ signaling \in [End -> {"stable", "have-local-offer", "have-remote-offer"}]
         /\ queued \in [End -> SUBSET Nat] /\ added \in [End -> SUBSET Nat]
         /\ gathered \in [End -> SUBSET Nat] /\ stuck \in BOOLEAN
BY DEF PeerTypeOK

LEMMA PeerMonitorTypes ==
  ASSUME PeerTypeOK
  PROVE  /\ joined \subseteq End /\ local \in [End -> Nat] /\ checking \in [End -> Nat] /\ breaks \in Nat
         /\ connection \in [End -> {"new", "connecting", "connected", "disconnected", "failed"}]
         /\ retried \subseteq End
         /\ timers \in [End -> SUBSET {"connect", "disconnected", "recovery"}]
         /\ outcome \in [End -> {"pending", "connected", "timeout", "ice-failed"}]
BY DEF PeerTypeOK

LEMMA RestType ==
  ASSUME chain \in [End -> Seq(Task)], NEW e \in End, chain[e] # <<>>
  PROVE  /\ Rest(e) \in [End -> Seq(Task)]
         /\ Rest(e)[e] = Tail(chain[e]) /\ Rest(e)[Other(e)] = chain[Other(e)]
         /\ Head(chain[e]) \in Task
<1>1. chain[e] \in Seq(Task) /\ Other(e) \in End /\ Other(e) # e
  BY Ends
<1>2. Tail(chain[e]) \in Seq(Task) /\ Head(chain[e]) \in Task
  BY <1>1, TailElements
<1> QED
  BY <1>1, <1>2 DEF Rest

LEMMA SendType ==
  ASSUME NEW line \in [End -> Seq(Task)], NEW e \in End, NEW signal \in Task, Send(e, line, signal)
  PROVE  /\ chain' \in [End -> Seq(Task)]
         /\ chain'[e] = line[e] /\ chain'[Other(e)] = Append(line[Other(e)], signal)
<1>1. Other(e) \in End /\ Other(e) # e /\ Append(line[Other(e)], signal) \in Seq(Task)
  BY Ends, AppendElements
<1> QED
  BY <1>1 DEF Send

NegotiatedType ==
  /\ chain' \in [End -> Seq(Task)] /\ local' \in [End -> Nat] /\ remote' \in [End -> Nat]
  /\ signaling' \in [End -> {"stable", "have-local-offer", "have-remote-offer"}]
  /\ queued' \in [End -> SUBSET Nat] /\ added' \in [End -> SUBSET Nat]
  /\ gathered' \in [End -> SUBSET Nat] /\ stuck' \in BOOLEAN

LEMMA OfferNowType ==
  ASSUME PeerTypeOK, NEW e \in End, chain[e] # <<>>, OfferNow(e)
  PROVE  /\ NegotiatedType
         /\ chain'[e] = Tail(chain[e])
         /\ chain'[Other(e)] = Append(chain[Other(e)], T("offer", local[e] + 1))
<1>1. local[e] \in Nat /\ local[e] + 1 \in Nat /\ T("offer", local[e] + 1) \in Task
  BY PeerTypes, TaskTypes
<1>2. Send(e, Rest(e), T("offer", local[e] + 1))
  BY DEF OfferNow
<1>3. /\ chain' \in [End -> Seq(Task)] /\ chain'[e] = Tail(chain[e])
      /\ chain'[Other(e)] = Append(chain[Other(e)], T("offer", local[e] + 1))
  <2>1. /\ Rest(e) \in [End -> Seq(Task)]
        /\ Rest(e)[e] = Tail(chain[e]) /\ Rest(e)[Other(e)] = chain[Other(e)]
    BY RestType, PeerTypes
  <2> QED
    BY <1>1, <1>2, <2>1, SendType
<1> QED
  BY <1>1, <1>3, PeerTypes DEF OfferNow, NegotiatedType

LEMMA NothingType ==
  ASSUME PeerTypeOK, NEW e \in End, chain[e] # <<>>, Nothing(e)
  PROVE  NegotiatedType
BY RestType, PeerTypes DEF Nothing, Negotiated, NegotiatedType

LEMMA TaskType ==
  ASSUME PeerTypeOK, NEW e \in End, RunTask(e)
  PROVE  PeerTypeOK'
<1> DEFINE t == Head(chain[e])
<1>0. chain[e] # <<>> /\ t \in Task /\ t.of \in Nat
  BY RestType, PeerTypes, TaskTypes DEF RunTask
<1>1. CASE t.is \in {"start", "restart"}
  <2>1. OfferNow(e) \/ Nothing(e)
    BY <1>1 DEF RunTask, restartIce
  <2> QED
    BY <1>0, <2>1, OfferNowType, NothingType DEF RunTask, NegotiatedType, PeerTypeOK, Monitor
<1>2. CASE t.is = "offer"
  <2>1. handleOffer(e, t.of)
    BY <1>2 DEF RunTask
  <2>2. CASE e = "offerer" \/ signaling[e] # "stable"
    BY <1>0, <2>1, <2>2, NothingType DEF RunTask, handleOffer, NegotiatedType, PeerTypeOK, Monitor
  <2>3. CASE ~(e = "offerer" \/ signaling[e] # "stable")
    <3>1. Apply(e, t.of) /\ local' = [local EXCEPT ![e] = t.of] /\ Send(e, Rest(e), T("answer", t.of))
          /\ UNCHANGED <<signaling, gathered, stuck>>
      BY <2>1, <2>3 DEF handleOffer
    <3>2. chain' \in [End -> Seq(Task)]
      BY <1>0, <3>1, RestType, SendType, TaskTypes, PeerTypes
    <3>3. NegotiatedType
      BY <1>0, <3>1, <3>2, PeerTypes DEF Apply, NegotiatedType
    <3> QED
      BY <3>3 DEF RunTask, NegotiatedType, PeerTypeOK, Monitor
  <2> QED
    BY <2>2, <2>3
<1>3. CASE t.is = "answer"
  <2>1. handleAnswer(e, t.of)
    BY <1>3 DEF RunTask
  <2>2. CASE signaling[e] # "have-local-offer"
    BY <1>0, <2>1, <2>2, NothingType DEF RunTask, handleAnswer, NegotiatedType, PeerTypeOK, Monitor
  <2>3. CASE signaling[e] = "have-local-offer"
    <3>1. /\ Apply(e, t.of) /\ signaling' = [signaling EXCEPT ![e] = "stable"]
          /\ chain' = Rest(e) /\ UNCHANGED <<local, gathered, stuck>>
      BY <2>1, <2>3 DEF handleAnswer
    <3>2. chain' \in [End -> Seq(Task)]
      BY <1>0, <3>1, RestType, PeerTypes
    <3>3. signaling' \in [End -> {"stable", "have-local-offer", "have-remote-offer"}]
      BY <3>1, PeerTypes
    <3>4. NegotiatedType
      BY <1>0, <3>1, <3>2, <3>3, PeerTypes DEF Apply, NegotiatedType
    <3> QED
      BY <3>4 DEF RunTask, NegotiatedType, PeerTypeOK, Monitor
  <2> QED
    BY <2>2, <2>3
<1>4. CASE t.is = "candidate"
  <2>1. handleCandidate(e, t.of)
    BY <1>4 DEF RunTask
  <2>2. /\ chain' = Rest(e) /\ UNCHANGED <<signaling, local, remote, gathered, stuck>>
        /\ queued' \in [End -> SUBSET Nat] /\ added' \in [End -> SUBSET Nat]
    <3>1. /\ chain' = Rest(e) /\ UNCHANGED <<signaling, local, remote, gathered, stuck>>
      BY <2>1 DEF handleCandidate
    <3>2. queued[e] \cup {t.of} \in SUBSET Nat /\ added[e] \cup {t.of} \in SUBSET Nat
      BY <1>0, PeerTypes
    <3>3. queued' = queued \/ queued' = [queued EXCEPT ![e] = @ \cup {t.of}]
      BY <2>1 DEF handleCandidate
    <3>4. \/ added' = added \/ added' = [added EXCEPT ![e] = @ \cup {t.of}]
          \/ added' = [added EXCEPT ![e] = @]
      BY <2>1 DEF handleCandidate
    <3>5. queued' \in [End -> SUBSET Nat]
      BY <3>2, <3>3, PeerTypes
    <3>6. added' \in [End -> SUBSET Nat]
      BY <3>2, <3>4, PeerTypes
    <3> QED
      BY <3>1, <3>5, <3>6
  <2>3. NegotiatedType
    BY <1>0, <2>2, RestType, PeerTypes DEF NegotiatedType
  <2> QED
    BY <2>3 DEF RunTask, NegotiatedType, PeerTypeOK, Monitor
<1> QED
  BY <1>0, <1>1, <1>2, <1>3, <1>4, TaskTypes

\* The restarts an end asks for are put at the end of its line.
AsksRestart(e) ==
  \/ chain' = chain
  \/ /\ e = "offerer"
     /\ \/ chain' = [chain EXCEPT ![e] = Append(@, T("restart", 0))]
        \/ chain' = [chain EXCEPT ![e] = Append(Append(@, T("restart", 0)), T("restart", 0))]

LEMMA RestartsAppended ==
  ASSUME NEW s \in Seq(Task), NEW r \in Task
  PROVE  /\ s \o <<>> = s /\ s \o <<r>> = Append(s, r) /\ s \o <<>> \o <<r>> = Append(s, r)
         /\ s \o <<r>> \o <<r>> = Append(Append(s, r), r) /\ s \o <<>> \o <<>> = s
         /\ s \o <<r>> \o <<>> = Append(s, r)
OBVIOUS

LEMMA Restarting ==
  ASSUME PeerTypeOK, NEW e \in End, DisconnectedTimer(e) \/ IceFails(e)
  PROVE  AsksRestart(e) /\ UNCHANGED <<Negotiated, joined>> /\ e \in joined
<1> DEFINE r == T("restart", 0)
<1>1. chain \in [End -> Seq(Task)] /\ chain[e] \in Seq(Task) /\ r \in Task
  BY PeerTypes, TaskTypes
<1>2. UNCHANGED <<Negotiated, joined>> /\ e \in joined
  BY DEF DisconnectedTimer, IceFails, Become, Watching, Running
<1>3. PICK own \in {<<>>, RestartOf(e)}, more \in {<<>>, RestartOf(e)} :
        chain' = [chain EXCEPT ![e] = @ \o own \o more]
  <2>1. CASE DisconnectedTimer(e)
    <3>1. chain' = [chain EXCEPT ![e] = IF connection[e] = "disconnected" THEN @ \o RestartOf(e) ELSE @]
      BY <2>1 DEF DisconnectedTimer
    <3>2. CASE connection[e] = "disconnected"
      BY <1>1, <3>1, <3>2, RestartsAppended DEF RestartOf
    <3>3. CASE connection[e] # "disconnected"
      BY <1>1, <3>1, <3>3, RestartsAppended
    <3> QED
      BY <3>2, <3>3
  <2>2. CASE IceFails(e)
    <3>1. PICK own \in {<<>>, RestartOf(e)} :
            chain' = [chain EXCEPT ![e] = @ \o own] \/ chain' = [chain EXCEPT ![e] = @ \o own \o RestartOf(e)]
      BY <2>2 DEF IceFails, onFailed
    <3>2. chain[e] \o own = chain[e] \o own \o <<>>
      BY <1>1, <3>1, RestartsAppended DEF RestartOf
    <3> QED
      BY <1>1, <3>1, <3>2
  <2> QED
    BY <2>1, <2>2
<1>4. CASE e = "offerer"
  <2>1. own \in {<<>>, <<r>>} /\ more \in {<<>>, <<r>>}
    BY <1>3, <1>4 DEF RestartOf
  <2> HIDE DEF r
  <2>2. chain[e] \o own \o more \in {chain[e], Append(chain[e], r), Append(Append(chain[e], r), r)}
    <3>1. /\ chain[e] \o <<>> \o <<>> = chain[e] /\ chain[e] \o <<>> \o <<r>> = Append(chain[e], r)
          /\ chain[e] \o <<r>> \o <<>> = Append(chain[e], r)
          /\ chain[e] \o <<r>> \o <<r>> = Append(Append(chain[e], r), r)
      BY <1>1, RestartsAppended
    <3> QED
      BY <2>1, <3>1
  <2> QED
    BY <1>1, <1>2, <1>3, <1>4, <2>2 DEF AsksRestart, r
<1>5. CASE e # "offerer"
  <2>1. chain[e] \o own \o more = chain[e]
    BY <1>1, <1>3, <1>5, RestartsAppended DEF RestartOf
  <2> QED
    BY <1>1, <1>2, <1>3, <2>1 DEF AsksRestart
<1> QED
  BY <1>4, <1>5

LEMMA AsksRestartType ==
  ASSUME PeerTypeOK, NEW e \in End, AsksRestart(e)
  PROVE  chain' \in [End -> Seq(Task)]
<1>1. T("restart", 0) \in Task /\ chain[e] \in Seq(Task) /\ chain \in [End -> Seq(Task)]
  BY PeerTypes, TaskTypes
<1>2. Append(chain[e], T("restart", 0)) \in Seq(Task)
  BY <1>1, AppendElements
<1>3. Append(Append(chain[e], T("restart", 0)), T("restart", 0)) \in Seq(Task)
  BY <1>1, <1>2, AppendElements
<1> QED
  BY <1>1, <1>2, <1>3 DEF AsksRestart

LEMMA BothTypes ==
  /\ Both(<<>>) \in [End -> Seq(Task)] /\ Both(0) \in [End -> Nat] /\ Both({}) \in [End -> SUBSET Nat]
  /\ Both("stable") \in [End -> {"stable", "have-local-offer", "have-remote-offer"}]
  /\ Both("new") \in [End -> {"new", "connecting", "connected", "disconnected", "failed"}]
  /\ Both({}) \in [End -> SUBSET {"connect", "disconnected", "recovery"}]
  /\ Both("pending") \in [End -> {"pending", "connected", "timeout", "ice-failed"}]
BY DEF Both

LEMMA PeerInitType == PeerInit => PeerTypeOK
<1> SUFFICES ASSUME PeerInit PROVE PeerTypeOK
  OBVIOUS
<1>1. /\ chain \in [End -> Seq(Task)] /\ local \in [End -> Nat] /\ remote \in [End -> Nat]
      /\ signaling \in [End -> {"stable", "have-local-offer", "have-remote-offer"}]
      /\ checking \in [End -> Nat] /\ queued \in [End -> SUBSET Nat]
      /\ added \in [End -> SUBSET Nat] /\ gathered \in [End -> SUBSET Nat]
  BY BothTypes DEF PeerInit
<1>2. /\ connection \in [End -> {"new", "connecting", "connected", "disconnected", "failed"}]
      /\ timers \in [End -> SUBSET {"connect", "disconnected", "recovery"}]
      /\ outcome \in [End -> {"pending", "connected", "timeout", "ice-failed"}]
  BY BothTypes DEF PeerInit
<1>3. /\ joined \subseteq End /\ stuck \in BOOLEAN /\ over \in BOOLEAN /\ breaks \in Nat
      /\ selfRestarted \in BOOLEAN /\ retried \subseteq End
  BY DEF PeerInit
<1> QED
  BY <1>1, <1>2, <1>3 DEF PeerTypeOK

LEMMA PeerNextType ==
  ASSUME PeerTypeOK, [PeerNext]_peerVars
  PROVE  PeerTypeOK'
<1>1. CASE UNCHANGED peerVars
  BY <1>1 DEF peerVars, PeerTypeOK
<1>2. CASE EndCall
  BY <1>2, BothTypes DEF EndCall, PeerTypeOK
<1>3. ASSUME NEW e \in End, Join(e)
      PROVE  PeerTypeOK'
  <2>1. /\ joined' = joined \cup {e} /\ timers' = [timers EXCEPT ![e] = {"connect"}]
        /\ chain' = [chain EXCEPT ![e] = IF e = "offerer" THEN Append(@, T("start", 0)) ELSE @]
        /\ UNCHANGED <<Negotiated, connection, checking, selfRestarted, retried, outcome, over, breaks>>
    BY <1>3 DEF Join
  <2>2. chain' \in [End -> Seq(Task)]
    BY <2>1, PeerTypes, TaskTypes, AppendElements
  <2> QED
    BY <2>1, <2>2 DEF PeerTypeOK, Negotiated
<1>4. ASSUME NEW e \in End, TaskThrows(e)
      PROVE  PeerTypeOK'
  <2>1. Head(chain[e]).of \in Nat /\ chain' \in [End -> Seq(Task)]
    BY <1>4, RestType, PeerTypes, TaskTypes DEF TaskThrows
  <2>2. /\ stuck' = TRUE /\ UNCHANGED <<joined, local, queued, added, gathered, connection, checking, Monitor, over, breaks>>
        /\ \/ UNCHANGED <<signaling, remote>>
           \/ /\ remote' = [remote EXCEPT ![e] = Head(chain[e]).of]
              /\ signaling' = [signaling EXCEPT ![e] = "have-remote-offer"]
    BY <1>4 DEF TaskThrows
  <2> QED
    BY <2>1, <2>2 DEF PeerTypeOK, Monitor
<1>5. ASSUME NEW e \in End, Gather(e)
      PROVE  PeerTypeOK'
  <2>1. local[e] \in Nat /\ T("candidate", local[e]) \in Task /\ chain \in [End -> Seq(Task)]
    BY PeerTypes, TaskTypes
  <2>2. chain' \in [End -> Seq(Task)]
    BY <1>5, <2>1, SendType DEF Gather
  <2> QED
    BY <1>5, <2>1, <2>2 DEF Gather, PeerTypeOK, Monitor
<1>6. ASSUME NEW e \in End, ConnectTimeout(e) \/ RecoveryTimeout(e)
      PROVE  PeerTypeOK'
  <2>1. /\ timers' \in [End -> SUBSET {"connect", "disconnected", "recovery"}]
        /\ outcome' \in [End -> {"pending", "connected", "timeout", "ice-failed"}]
    BY <1>6, PeerMonitorTypes DEF ConnectTimeout, RecoveryTimeout
  <2> QED
    BY <1>6, <2>1 DEF ConnectTimeout, RecoveryTimeout, PeerTypeOK, Negotiated
<1>7. ASSUME NEW e \in End, Checking(e) \/ IceConnects(e) \/ IceBreaks(e)
      PROVE  PeerTypeOK'
  <2>1. connection' \in [End -> {"new", "connecting", "connected", "disconnected", "failed"}]
    BY <1>7, PeerMonitorTypes DEF Checking, IceConnects, IceBreaks, Become
  <2>2. checking' \in [End -> Nat] /\ breaks' \in Nat
    BY <1>7, PeerMonitorTypes DEF Checking, IceConnects, IceBreaks, Become
  <2>3. /\ timers' \in [End -> SUBSET {"connect", "disconnected", "recovery"}]
        /\ outcome' \in [End -> {"pending", "connected", "timeout", "ice-failed"}]
    BY <1>7, PeerMonitorTypes DEF Checking, IceConnects, IceBreaks, onConnected, onDisconnected, Monitor
  <2>4. UNCHANGED <<joined, chain, signaling, local, remote, queued, added, gathered, stuck, selfRestarted,
                    retried, over>>
    BY <1>7 DEF Checking, IceConnects, IceBreaks, Become, onConnected, onDisconnected, Negotiated, Monitor
  <2> QED
    BY <2>1, <2>2, <2>3, <2>4 DEF PeerTypeOK
<1>8. ASSUME NEW e \in End, DisconnectedTimer(e) \/ IceFails(e)
      PROVE  PeerTypeOK'
  <2>1. chain' \in [End -> Seq(Task)] /\ UNCHANGED <<Negotiated, joined>>
    BY <1>8, Restarting, AsksRestartType
  <2>2. CASE DisconnectedTimer(e)
    BY <2>1, <2>2 DEF DisconnectedTimer, PeerTypeOK, Negotiated
  <2>3. CASE IceFails(e)
    <3>1. selfRestarted' \in BOOLEAN
      BY <2>3, Zenon DEF IceFails, onFailed
    <3>2. /\ timers' \in [End -> SUBSET {"connect", "disconnected", "recovery"}]
          /\ outcome' \in [End -> {"pending", "connected", "timeout", "ice-failed"}]
          /\ retried' \subseteq End
      <4> DEFINE kept == timers[e] \ {"disconnected"}
      <4>1. onFailed(e)
        BY <2>3 DEF IceFails
      <4>2. \/ /\ outcome' = [outcome EXCEPT ![e] = "ice-failed"]
               /\ timers' = [timers EXCEPT ![e] = {}] /\ retried' = retried
            \/ /\ retried' = retried \cup {e}
               /\ timers' = [timers EXCEPT ![e] = kept \cup {"recovery"}] /\ outcome' = outcome
        BY <4>1 DEF onFailed
      <4>3. kept \cup {"recovery"} \in SUBSET {"connect", "disconnected", "recovery"}
        BY PeerMonitorTypes
      <4> HIDE DEF kept
      <4> QED
        BY <4>2, <4>3, PeerMonitorTypes
    <3>3. /\ connection' \in [End -> {"new", "connecting", "connected", "disconnected", "failed"}]
          /\ UNCHANGED <<checking, over, breaks>>
      BY <2>3 DEF IceFails, Become, PeerTypeOK
    <3> QED
      BY <2>1, <3>1, <3>2, <3>3 DEF PeerTypeOK, Negotiated
  <2> QED
    BY <1>8, <2>2, <2>3
<1> QED
  BY <1>1, <1>2, <1>3, <1>4, <1>5, <1>6, <1>7, <1>8, TaskType DEF PeerNext

-----------------------------------------------------------------------------
(* The ends agree.                                                          *)

LEMMA PeerAgreesAtFirst ==
  ASSUME \A e \in End : chain[e] = <<>> /\ local[e] = 0 /\ remote[e] = 0 /\ signaling[e] = "stable"
                        /\ queued[e] = {} /\ added[e] = {} /\ gathered[e] = {}
  PROVE  Agreeing
<1> USE Ends
<1>1. Lines
  <2> SUFFICES ASSUME NEW e \in End
               PROVE  Ordered(chain[e], Arrives(e), local[Other(e)], remote[e], gathered[Other(e)], added[e])
    BY DEF Lines
  <2>1. chain[e] = <<>> /\ local[Other(e)] = 0 /\ remote[e] = 0 /\ gathered[Other(e)] = {} /\ added[e] = {}
    OBVIOUS
  <2>2. Ordered(<<>>, Arrives(e), 0, 0, {}, {})
    BY NothingSent
  <2> QED
    BY <2>1, <2>2
<1>2. Rounds
  BY DEF Rounds
<1>3. Tasks
  <2>1. chain["offerer"] = <<>> /\ chain["answerer"] = <<>> /\ local["offerer"] = 0 /\ 1 .. Len(<<>>) = {}
    OBVIOUS
  <2> QED
    BY <2>1 DEF Tasks
<1> QED
  BY <1>1, <1>2, <1>3 DEF Agreeing

LEMMA NothingNegotiated ==
  ASSUME Agreeing, UNCHANGED <<chain, Negotiated>>, joined \subseteq joined'
  PROVE  Agreeing'
BY DEF Agreeing, Lines, Rounds, Tasks, Arrives, Negotiated

LEMMA LinesOfBoth ==
  ASSUME NEW c, NEW l, NEW r, NEW g, NEW a,
         Ordered(c["offerer"], "answer", l["answerer"], r["offerer"], g["answerer"], a["offerer"]),
         Ordered(c["answerer"], "offer", l["offerer"], r["answerer"], g["offerer"], a["answerer"])
  PROVE  \A e \in End : Ordered(c[e], Arrives(e), l[Other(e)], r[e], g[Other(e)], a[e])
<1>1. Arrives("offerer") = "answer" /\ Arrives("answerer") = "offer"
  BY DEF Arrives
<1> QED
  BY <1>1, Ends

\* The line of the offerer grows by tasks of its own.
LEMMA OwnTaskAsked ==
  ASSUME PeerTypeOK, Agreeing, NEW s \in Seq(Task), NEW t \in Task,
         s = chain["offerer"] \/ \E r \in Task : r.is = "restart" /\ s = Append(chain["offerer"], r),
         chain' = [chain EXCEPT !["offerer"] = Append(s, t)],
         \/ t.is = "restart" /\ "offerer" \in joined
         \/ t.is = "start" /\ s = <<>> /\ local["offerer"] = 0,
         "offerer" \in joined', UNCHANGED Negotiated
  PROVE  Agreeing'
<1> SUFFICES ASSUME Lines, Rounds, Tasks PROVE (Lines /\ Rounds /\ Tasks)'
  BY DEF Agreeing, Negotiated
<1> USE PeerTypes, Ends
<1>1. chain'["offerer"] = Append(s, t) /\ chain'["answerer"] = chain["answerer"]
  OBVIOUS
<1>2. Ordered(s, "answer", local["answerer"], remote["offerer"], gathered["answerer"], added["offerer"])
  <2>1. Ordered(chain["offerer"], "answer", local["answerer"], remote["offerer"], gathered["answerer"],
                added["offerer"])
    BY DEF Lines, Arrives
  <2>2. ASSUME NEW r \in Task, r.is = "restart", s = Append(chain["offerer"], r)
        PROVE  Ordered(s, "answer", local["answerer"], remote["offerer"], gathered["answerer"], added["offerer"])
    BY <2>1, <2>2, OtherTaskAsked
  <2> QED
    BY <2>1, <2>2
<1>3. Ordered(Append(s, t), "answer", local["answerer"], remote["offerer"], gathered["answerer"],
              added["offerer"])
  BY <1>2, OtherTaskAsked
<1>4. Lines'
  BY <1>1, <1>3 DEF Lines, Arrives, Negotiated
<1>5. \A i \in 1 .. Len(s) : /\ s[i].is \in {"start", "restart", "answer", "candidate"}
                             /\ s[i].is = "start" => i = 1 /\ local["offerer"] = 0
  <2>1. ASSUME NEW r \in Task, r.is = "restart", s = Append(chain["offerer"], r)
        PROVE  \A i \in 1 .. Len(s) : /\ s[i].is \in {"start", "restart", "answer", "candidate"}
                                      /\ s[i].is = "start" => i = 1 /\ local["offerer"] = 0
    <3>1. /\ Len(chain["offerer"]) \in Nat /\ Len(s) = Len(chain["offerer"]) + 1
          /\ \A i \in 1 .. Len(chain["offerer"]) : s[i] = chain["offerer"][i]
          /\ s[Len(chain["offerer"]) + 1] = r
      BY <2>1, AppendElements
    <3> QED
      BY <2>1, <3>1 DEF Tasks
  <2> QED
    BY <2>1 DEF Tasks
<1>6. \A i \in 1 .. Len(Append(s, t)) :
        /\ Append(s, t)[i].is \in {"start", "restart", "answer", "candidate"}
        /\ Append(s, t)[i].is = "start" => i = 1 /\ local["offerer"] = 0
  <2>1. /\ Len(s) \in Nat /\ Len(Append(s, t)) = Len(s) + 1
        /\ \A i \in 1 .. Len(s) : Append(s, t)[i] = s[i]
        /\ Append(s, t)[Len(s) + 1] = t
    BY AppendElements
  <2>2. t.is = "start" => Len(s) = 0
    OBVIOUS
  <2> QED
    BY <1>5, <2>1, <2>2
<1>7. Tasks'
  BY <1>1, <1>6 DEF Tasks, Negotiated
<1>8. Rounds'
  BY DEF Rounds, Negotiated
<1> QED
  BY <1>4, <1>7, <1>8

\* What a finished task leaves of the offerer's and of the answerer's line.
LEMMA TailTasks ==
  ASSUME PeerTypeOK, Tasks
  PROVE  /\ chain["answerer"] # <<>> =>
              \A i \in 1 .. Len(Tail(chain["answerer"])) : Tail(chain["answerer"])[i].is \in {"offer", "candidate"}
         /\ chain["offerer"] # <<>> =>
              \A i \in 1 .. Len(Tail(chain["offerer"])) :
                Tail(chain["offerer"])[i].is \in {"restart", "answer", "candidate"}
<1> USE PeerTypes, Ends
<1>1. ASSUME chain["answerer"] # <<>>, NEW i \in 1 .. Len(Tail(chain["answerer"]))
      PROVE  Tail(chain["answerer"])[i].is \in {"offer", "candidate"}
  BY <1>1, TailElements DEF Tasks
<1>2. ASSUME chain["offerer"] # <<>>, NEW i \in 1 .. Len(Tail(chain["offerer"]))
      PROVE  Tail(chain["offerer"])[i].is \in {"restart", "answer", "candidate"}
  <2>1. /\ i + 1 \in 1 .. Len(chain["offerer"]) /\ i \in Nat \ {0} /\ Len(chain["offerer"]) \in Nat
        /\ Tail(chain["offerer"])[i] = chain["offerer"][i + 1]
    BY <1>2, TailElements
  <2>2. i + 1 # 1
    BY <2>1
  <2> QED
    BY <2>1, <2>2 DEF Tasks
<1> QED
  BY <1>1, <1>2

\* A signal sent to the answerer, or to the offerer, is one of those it gets.
LEMMA AppendTasks ==
  ASSUME NEW s \in Seq(Task), NEW t \in Task, NEW kinds, t.is \in kinds,
         \A i \in 1 .. Len(s) : s[i].is \in kinds
  PROVE  \A i \in 1 .. Len(Append(s, t)) : Append(s, t)[i].is \in kinds
BY AppendElements

LEMMA HeadTask ==
  ASSUME PeerTypeOK, Tasks
  PROVE  /\ chain["answerer"] # <<>> => Head(chain["answerer"]).is \in {"offer", "candidate"}
         /\ chain["offerer"] # <<>> => Head(chain["offerer"]).is \in {"start", "restart", "answer", "candidate"}
         /\ chain["offerer"] # <<>> /\ Head(chain["offerer"]).is = "start" => local["offerer"] = 0
<1> USE PeerTypes, Ends
<1>1. \A e \in End : chain[e] # <<>> => Head(chain[e]) = chain[e][1] /\ 1 \in 1 .. Len(chain[e])
  BY TailElements
<1> QED
  BY <1>1 DEF Tasks

\* The offerer makes an offer: only when it is stable, so the last one was answered.
LEMMA OfferAgrees ==
  ASSUME PeerTypeOK, Lines, Rounds, Tasks, "offerer" \in joined, "offerer" \in joined',
         chain["offerer"] # <<>>, Head(chain["offerer"]).is \in {"start", "restart"},
         signaling["offerer"] = "stable", OfferNow("offerer")
  PROVE  (Lines /\ Rounds /\ Tasks)'
<1> USE PeerTypes, Ends
<1> DEFINE n == local["offerer"]
<1>1. /\ chain'["offerer"] = Tail(chain["offerer"])
      /\ chain'["answerer"] = Append(chain["answerer"], T("offer", n + 1))
  BY OfferNowType
<1>2. /\ local'["offerer"] = n + 1 /\ local'["answerer"] = local["answerer"]
      /\ signaling'["offerer"] = "have-local-offer" /\ signaling'["answerer"] = signaling["answerer"]
      /\ UNCHANGED <<remote, queued, added, gathered, stuck>>
  BY DEF OfferNow
<1>3. n \in Nat /\ remote["offerer"] = n /\ local["answerer"] = n /\ remote["answerer"] = n
  BY DEF Rounds
<1>4. Rounds'
  BY <1>2, <1>3 DEF Rounds
<1>5. Ordered(Tail(chain["offerer"]), "answer", n, n, gathered["answerer"], added["offerer"])
  <2>1. Ordered(chain["offerer"], "answer", n, n, gathered["answerer"], added["offerer"])
    BY <1>3 DEF Lines, Arrives
  <2> QED
    BY <2>1, OtherTaskDone
<1>6. Ordered(Append(chain["answerer"], T("offer", n + 1)), "offer", n + 1, n, gathered["offerer"], added["answerer"])
  <2>1. Ordered(chain["answerer"], "offer", n, n, gathered["offerer"], added["answerer"])
    BY <1>3 DEF Lines, Arrives
  <2>2. T("offer", n + 1) \in Task /\ T("offer", n + 1).is = "offer" /\ T("offer", n + 1).of = n + 1
    BY <1>3, TaskTypes
  <2> QED
    BY <1>3, <2>1, <2>2, DescriptionSent
<1>7. Lines'
  <2>1. Ordered(chain'["offerer"], "answer", local'["answerer"], remote'["offerer"], gathered'["answerer"],
                added'["offerer"])
    BY <1>1, <1>2, <1>3, <1>5
  <2>2. Ordered(chain'["answerer"], "offer", local'["offerer"], remote'["answerer"], gathered'["offerer"],
                added'["answerer"])
    BY <1>1, <1>2, <1>3, <1>6
  <2> QED
    BY <2>1, <2>2, LinesOfBoth DEF Lines
<1>8. Tasks'
  <2>1. T("offer", n + 1) \in Task /\ T("offer", n + 1).is = "offer"
    BY <1>3, TaskTypes
  <2>2. \A i \in 1 .. Len(chain'["answerer"]) : chain'["answerer"][i].is \in {"offer", "candidate"}
    BY <1>1, <2>1, AppendTasks DEF Tasks
  <2>3. \A i \in 1 .. Len(chain'["offerer"]) : chain'["offerer"][i].is \in {"restart", "answer", "candidate"}
    BY <1>1, TailTasks
  <2> QED
    BY <2>2, <2>3 DEF Tasks
<1> QED
  BY <1>4, <1>7, <1>8

\* A task of the offerer that is not a signal and changes nothing.
LEMMA NothingAgrees ==
  ASSUME PeerTypeOK, Lines, Rounds, Tasks, "offerer" \in joined, "offerer" \in joined',
         chain["offerer"] # <<>>, Head(chain["offerer"]).is = "restart", Nothing("offerer")
  PROVE  (Lines /\ Rounds /\ Tasks)'
<1> USE PeerTypes, Ends
<1>1. /\ chain'["offerer"] = Tail(chain["offerer"]) /\ chain'["answerer"] = chain["answerer"]
      /\ UNCHANGED Negotiated
  BY RestType DEF Nothing
<1>2. Ordered(chain["offerer"], "answer", local["answerer"], remote["offerer"], gathered["answerer"], added["offerer"])
  BY DEF Lines, Arrives
<1>3. Ordered(Tail(chain["offerer"]), "answer", local["answerer"], remote["offerer"], gathered["answerer"],
              added["offerer"])
  BY <1>2, OtherTaskDone
<1>4. Lines'
  BY <1>1, <1>3 DEF Lines, Arrives, Negotiated
<1>5. Tasks'
  BY <1>1, TailTasks DEF Tasks, Negotiated
<1>6. Rounds'
  BY <1>1 DEF Rounds, Negotiated
<1> QED
  BY <1>4, <1>5, <1>6

\* The answerer takes the newest offer and answers it.
LEMMA AnswerAgrees ==
  ASSUME PeerTypeOK, Lines, Rounds, Tasks, joined' = joined,
         chain["answerer"] # <<>>, Head(chain["answerer"]).is = "offer",
         handleOffer("answerer", Head(chain["answerer"]).of)
  PROVE  (Lines /\ Rounds /\ Tasks)'
<1> DEFINE n == local["offerer"]
           old == local["answerer"]
<1>1. Ordered(chain["answerer"], "offer", n, remote["answerer"], gathered["offerer"], added["answerer"])
  BY Ends DEF Lines, Arrives
<1>2. /\ n \in Nat /\ old \in Nat /\ remote["answerer"] = old /\ old <= n
      /\ signaling["answerer"] = "stable" /\ \A e \in End : queued[e] = {}
  BY PeerTypes, Ends DEF Rounds
<1>3. /\ Head(chain["answerer"]).of = n /\ old # n
      /\ Ordered(Tail(chain["answerer"]), "offer", n, n, gathered["offerer"], {})
  <2>1. chain["answerer"] \in Seq(Task)
    BY PeerTypes, Ends
  <2> HIDE DEF n, old
  <2> QED
    BY <1>1, <1>2, <2>1, DescriptionDone
<1> USE PeerTypes, Ends
<1>4. old < n /\ remote["offerer"] = old
  BY <1>2, <1>3 DEF Rounds
<1>5. /\ Apply("answerer", n) /\ local' = [local EXCEPT !["answerer"] = n]
      /\ Send("answerer", Rest("answerer"), T("answer", n)) /\ UNCHANGED <<signaling, gathered, stuck>>
  BY <1>2, <1>3 DEF handleOffer
<1>6. T("answer", n) \in Task /\ T("answer", n).is = "answer" /\ T("answer", n).of = n
  BY <1>2, TaskTypes
<1>7. /\ chain'["answerer"] = Tail(chain["answerer"])
      /\ chain'["offerer"] = Append(chain["offerer"], T("answer", n))
  <2>1. /\ Rest("answerer") \in [End -> Seq(Task)] /\ Rest("answerer")["answerer"] = Tail(chain["answerer"])
        /\ Rest("answerer")["offerer"] = chain["offerer"]
    BY RestType
  <2> QED
    BY <1>5, <1>6, <2>1 DEF Send
<1>8. /\ local'["answerer"] = n /\ local'["offerer"] = n
      /\ remote'["answerer"] = n /\ remote'["offerer"] = old
      /\ added'["answerer"] = {} /\ added'["offerer"] = added["offerer"]
      /\ \A e \in End : queued'[e] = {}
  BY <1>2, <1>4, <1>5 DEF Apply
<1>9. Rounds'
  BY <1>2, <1>4, <1>5, <1>8 DEF Rounds
<1>10. Ordered(Append(chain["offerer"], T("answer", n)), "answer", n, old, gathered["answerer"], added["offerer"])
  <2>1. Ordered(chain["offerer"], "answer", old, old, gathered["answerer"], added["offerer"])
    BY <1>4 DEF Lines, Arrives
  <2> QED
    BY <1>2, <1>4, <1>6, <2>1, DescriptionSent
<1>11. Lines'
  <2>1. Ordered(chain'["offerer"], "answer", local'["answerer"], remote'["offerer"], gathered'["answerer"],
                added'["offerer"])
    BY <1>5, <1>7, <1>8, <1>10
  <2>2. Ordered(chain'["answerer"], "offer", local'["offerer"], remote'["answerer"], gathered'["offerer"],
                added'["answerer"])
    BY <1>3, <1>5, <1>7, <1>8
  <2> QED
    BY <2>1, <2>2, LinesOfBoth DEF Lines
<1>12. Tasks'
  <2>1. "offerer" \in joined
    BY <1>2, <1>4 DEF Tasks
  <2>2. \A i \in 1 .. Len(chain'["answerer"]) : chain'["answerer"][i].is \in {"offer", "candidate"}
    BY <1>7, TailTasks
  <2>3. n # 0
    BY <1>2, <1>4
  <2>4. \A i \in 1 .. Len(chain["offerer"]) : chain["offerer"][i].is \in {"restart", "answer", "candidate"}
    BY <2>3 DEF Tasks
  <2>5. \A i \in 1 .. Len(chain'["offerer"]) : chain'["offerer"][i].is \in {"restart", "answer", "candidate"}
    BY <1>6, <1>7, <2>4, AppendTasks
  <2> QED
    BY <2>1, <2>2, <2>5 DEF Tasks
<1> QED
  BY <1>9, <1>11, <1>12

\* The offerer takes the answer: to its newest offer, which it still has out.
LEMMA AnsweredAgrees ==
  ASSUME PeerTypeOK, Lines, Rounds, Tasks, joined' = joined,
         chain["offerer"] # <<>>, Head(chain["offerer"]).is = "answer",
         handleAnswer("offerer", Head(chain["offerer"]).of)
  PROVE  (Lines /\ Rounds /\ Tasks)'
<1> DEFINE n == local["answerer"]
<1>1. Ordered(chain["offerer"], "answer", n, remote["offerer"], gathered["answerer"], added["offerer"])
  BY Ends DEF Lines, Arrives
<1>2. n \in Nat /\ remote["offerer"] \in Nat /\ remote["offerer"] <= n /\ \A e \in End : queued[e] = {}
  BY PeerTypes, Ends DEF Rounds
<1>3. /\ Head(chain["offerer"]).of = n /\ remote["offerer"] # n
      /\ Ordered(Tail(chain["offerer"]), "answer", n, n, gathered["answerer"], {})
  <2>1. chain["offerer"] \in Seq(Task)
    BY PeerTypes, Ends
  <2> HIDE DEF n
  <2> QED
    BY <1>1, <1>2, <2>1, DescriptionDone
<1> USE PeerTypes, Ends
<1>4. n = local["offerer"] /\ signaling["offerer"] = "have-local-offer" /\ remote["answerer"] = n
  BY <1>3 DEF Rounds
<1>5. /\ Apply("offerer", n) /\ signaling' = [signaling EXCEPT !["offerer"] = "stable"]
      /\ chain' = Rest("offerer") /\ UNCHANGED <<local, gathered, stuck>>
  BY <1>3, <1>4 DEF handleAnswer
<1>6. chain'["offerer"] = Tail(chain["offerer"]) /\ chain'["answerer"] = chain["answerer"]
  BY <1>5, RestType
<1>7. /\ remote'["offerer"] = n /\ remote'["answerer"] = n
      /\ added'["offerer"] = {} /\ added'["answerer"] = added["answerer"]
      /\ \A e \in End : queued'[e] = {}
  BY <1>2, <1>4, <1>5 DEF Apply
<1>8. Rounds'
  BY <1>4, <1>5, <1>7 DEF Rounds
<1>9. Lines'
  BY <1>3, <1>4, <1>5, <1>6, <1>7 DEF Lines, Arrives
<1>10. Tasks'
  <2>1. "offerer" \in joined'
    BY DEF Tasks
  <2>2. \A i \in 1 .. Len(chain'["answerer"]) : chain'["answerer"][i].is \in {"offer", "candidate"}
    BY <1>6 DEF Tasks
  <2>3. \A i \in 1 .. Len(chain'["offerer"]) : chain'["offerer"][i].is \in {"restart", "answer", "candidate"}
    BY <1>6, TailTasks
  <2> QED
    BY <2>1, <2>2, <2>3 DEF Tasks
<1> QED
  BY <1>8, <1>9, <1>10

LEMMA CandidateAgrees ==
  ASSUME PeerTypeOK, Lines, Rounds, Tasks, joined' = joined, NEW e \in End,
         chain[e] # <<>>, Head(chain[e]).is = "candidate", handleCandidate(e, Head(chain[e]).of)
  PROVE  (Lines /\ Rounds /\ Tasks)'
<1> DEFINE o == Other(e)
           k == Head(chain[e]).of
           new == IF remote[e] = k THEN added[e] \cup {k} ELSE added[e]
<1>1. Ordered(chain[e], Arrives(e), local[o], remote[e], gathered[o], added[e])
  BY Ends DEF Lines
<1>2. remote[e] # 0 /\ Ordered(Tail(chain[e]), Arrives(e), local[o], remote[e], gathered[o], new)
  <2>1. chain[e] \in Seq(Task) /\ local[o] \in Nat /\ remote[e] \in Nat /\ Arrives(e) # "candidate"
    BY PeerTypes, Ends DEF Arrives
  <2> QED
    BY <1>1, <2>1, CandidateDone
<1> USE PeerTypes, Ends
<1>3. /\ added' = [added EXCEPT ![e] = new] /\ chain' = Rest(e)
      /\ UNCHANGED <<queued, signaling, local, remote, gathered, stuck>>
  BY <1>2 DEF handleCandidate
<1>4. chain'[e] = Tail(chain[e]) /\ chain'[o] = chain[o] /\ added'[e] = new /\ added'[o] = added[o]
  BY <1>3, RestType
<1>5. Rounds'
  BY <1>3 DEF Rounds
<1>6. Lines'
  <2> SUFFICES ASSUME NEW d \in End
               PROVE  Ordered(chain'[d], Arrives(d), local[Other(d)], remote[d], gathered[Other(d)], added'[d])
    BY <1>3 DEF Lines
  <2>1. d = e \/ d = o
    BY DEF End, Other
  <2> HIDE DEF new, o
  <2>2. CASE d = e
    BY <1>2, <1>4, <2>2 DEF o
  <2>3. CASE d = o
    BY <1>4, <2>3 DEF Lines
  <2> QED
    BY <2>1, <2>2, <2>3
<1>7. Tasks'
  <2>1. "offerer" \in joined => "offerer" \in joined'
    OBVIOUS
  <2>2. CASE e = "answerer"
    <3>1. /\ chain'["answerer"] = Tail(chain["answerer"]) /\ chain'["offerer"] = chain["offerer"]
          /\ chain["answerer"] # <<>> /\ local' = local
      BY <1>3, <1>4, <2>2
    <3>2. \A i \in 1 .. Len(chain'["answerer"]) : chain'["answerer"][i].is \in {"offer", "candidate"}
      BY <3>1, TailTasks
    <3> QED
      BY <3>1, <3>2 DEF Tasks
  <2>3. CASE e = "offerer"
    <3>1. /\ chain'["offerer"] = Tail(chain["offerer"]) /\ chain'["answerer"] = chain["answerer"]
          /\ chain["offerer"] # <<>> /\ local' = local
      BY <1>3, <1>4, <2>3
    <3>2. \A i \in 1 .. Len(chain'["offerer"]) : chain'["offerer"][i].is \in {"restart", "answer", "candidate"}
      BY <3>1, TailTasks
    <3>3. "offerer" \in joined'
      BY <2>1, <3>1 DEF Tasks
    <3> QED
      BY <3>1, <3>2, <3>3 DEF Tasks
  <2> QED
    BY <2>2, <2>3
<1> QED
  BY <1>5, <1>6, <1>7

LEMMA GatherAgrees ==
  ASSUME PeerTypeOK, Lines, Rounds, Tasks, NEW e \in End, Gather(e)
  PROVE  (Lines /\ Rounds /\ Tasks)'
<1> USE PeerTypes, Ends
<1> DEFINE o == Other(e)
           n == local[e]
<1>1. /\ n \in Nat \ {0} /\ gathered' = [gathered EXCEPT ![e] = @ \cup {n}]
      /\ Send(e, chain, T("candidate", n))
      /\ UNCHANGED <<joined, signaling, local, remote, queued, added, stuck>>
  BY DEF Gather
<1>2. T("candidate", n) \in Task /\ T("candidate", n).is = "candidate" /\ T("candidate", n).of = n
  BY <1>1, TaskTypes
<1>3. /\ chain'[e] = chain[e] /\ chain'[o] = Append(chain[o], T("candidate", n))
      /\ gathered'[e] = gathered[e] \cup {n} /\ gathered'[o] = gathered[o]
  <2>1. chain \in [End -> Seq(Task)]
    BY PeerTypes
  <2>2. chain'[e] = chain[e] /\ chain'[o] = Append(chain[o], T("candidate", n))
    BY <1>1, <1>2, <2>1 DEF Send
  <2> QED
    BY <1>1, <2>2
<1>4. Ordered(chain[o], Arrives(o), n, remote[o], gathered[e], added[o])
  BY DEF Lines
<1>5. Ordered(Append(chain[o], T("candidate", n)), Arrives(o), n, remote[o], gathered[e] \cup {n}, added[o])
  BY <1>1, <1>2, <1>4, CandidateSent DEF Arrives
<1>6. Lines'
  <2> SUFFICES ASSUME NEW d \in End
               PROVE  Ordered(chain'[d], Arrives(d), local[Other(d)], remote[d], gathered'[Other(d)], added[d])
    BY <1>1 DEF Lines
  <2>1. d = e \/ d = o
    BY DEF End, Other
  <2>2. CASE d = e
    BY <1>3, <2>2 DEF Lines
  <2>3. CASE d = o
    BY <1>3, <1>5, <2>3
  <2> QED
    BY <2>1, <2>2, <2>3
<1>7. Rounds'
  BY <1>1 DEF Rounds
<1>8. Tasks'
  <2>1. CASE e = "offerer"
    <3>1. /\ \A i \in 1 .. Len(chain["answerer"]) : chain["answerer"][i].is \in {"offer", "candidate"}
          /\ chain["answerer"] \in Seq(Task) /\ T("candidate", n).is \in {"offer", "candidate"}
      BY <1>2 DEF Tasks
    <3>2. chain'["answerer"] = Append(chain["answerer"], T("candidate", n)) /\ chain'["offerer"] = chain["offerer"]
      BY <1>3, <2>1
    <3>3. \A i \in 1 .. Len(chain'["answerer"]) : chain'["answerer"][i].is \in {"offer", "candidate"}
      BY <1>2, <3>1, <3>2, AppendTasks
    <3> QED
      BY <1>1, <3>2, <3>3 DEF Tasks
  <2>2. CASE e = "answerer"
    <3>1. local["offerer"] # 0
      BY <1>1, <2>2 DEF Rounds
    <3>2. \A i \in 1 .. Len(chain["offerer"]) : chain["offerer"][i].is \in {"restart", "answer", "candidate"}
      BY <3>1 DEF Tasks
    <3>3. \A i \in 1 .. Len(chain'["offerer"]) : chain'["offerer"][i].is \in {"restart", "answer", "candidate"}
      <4>1. chain'["offerer"] = Append(chain["offerer"], T("candidate", n)) /\ chain["offerer"] \in Seq(Task)
        BY <1>3, <2>2
      <4>2. T("candidate", n).is \in {"restart", "answer", "candidate"}
        BY <1>2
      <4> QED
        BY <1>2, <3>2, <4>1, <4>2, AppendTasks
    <3> QED
      BY <1>1, <1>3, <2>2, <3>1, <3>3 DEF Tasks
  <2> QED
    BY <2>1, <2>2
<1> QED
  BY <1>6, <1>7, <1>8

LEMMA AgreeingNext ==
  ASSUME PeerTypeOK, Agreeing, [PeerNext]_peerVars
  PROVE  Agreeing'
<1> USE PeerTypes, Ends
<1>1. CASE UNCHANGED peerVars
  BY <1>1, NothingNegotiated DEF peerVars, Negotiated
<1>2. CASE EndCall
  <2>1. \A e \in End : chain'[e] = <<>> /\ local'[e] = 0 /\ remote'[e] = 0 /\ signaling'[e] = "stable"
                        /\ queued'[e] = {} /\ added'[e] = {} /\ gathered'[e] = {}
    BY <1>2 DEF EndCall, Both
  <2>2. Lines'
    <3> SUFFICES ASSUME NEW e \in End
                 PROVE  Ordered(chain'[e], Arrives(e), local'[Other(e)], remote'[e], gathered'[Other(e)], added'[e])
      BY DEF Lines
    <3>1. /\ chain'[e] = <<>> /\ local'[Other(e)] = 0 /\ remote'[e] = 0 /\ gathered'[Other(e)] = {}
          /\ added'[e] = {}
      BY <2>1
    <3>2. Ordered(<<>>, Arrives(e), 0, 0, {}, {})
      BY NothingSent
    <3> QED
      BY <3>1, <3>2
  <2>3. Rounds'
    BY <2>1 DEF Rounds
  <2>4. Tasks'
    <3>1. chain'["offerer"] = <<>> /\ chain'["answerer"] = <<>> /\ local'["offerer"] = 0 /\ 1 .. Len(<<>>) = {}
      BY <2>1
    <3> QED
      BY <3>1 DEF Tasks
  <2> QED
    BY <2>2, <2>3, <2>4 DEF Agreeing
<1>3. CASE stuck' = TRUE
  BY <1>3 DEF Agreeing
<1>4. ASSUME NEW e \in End, stuck' # TRUE,
             ConnectTimeout(e) \/ RecoveryTimeout(e) \/ Checking(e) \/ IceConnects(e) \/ IceBreaks(e)
      PROVE  Agreeing'
  BY <1>4, NothingNegotiated DEF ConnectTimeout, RecoveryTimeout, Checking, IceConnects, IceBreaks,
       Become, onConnected, onDisconnected
<1>5. ASSUME NEW e \in End, stuck' # TRUE, DisconnectedTimer(e) \/ IceFails(e)
      PROVE  Agreeing'
  <2>1. AsksRestart(e) /\ UNCHANGED <<Negotiated, joined>> /\ e \in joined
    BY <1>5, Restarting
  <2>2. T("restart", 0) \in Task /\ T("restart", 0).is = "restart"
    BY TaskTypes
  <2>3. Append(chain["offerer"], T("restart", 0)) \in Seq(Task)
    BY <2>2, AppendElements
  <2>4. CASE chain' = chain
    BY <2>1, <2>4, NothingNegotiated
  <2>5. CASE chain' = [chain EXCEPT ![e] = Append(@, T("restart", 0))] /\ e = "offerer"
    BY <2>1, <2>2, <2>5, OwnTaskAsked
  <2>6. CASE chain' = [chain EXCEPT ![e] = Append(Append(@, T("restart", 0)), T("restart", 0))] /\ e = "offerer"
    BY <2>1, <2>2, <2>3, <2>6, OwnTaskAsked
  <2> QED
    BY <2>1, <2>4, <2>5, <2>6 DEF AsksRestart
<1>6. ASSUME NEW e \in End, stuck' # TRUE, Join(e)
      PROVE  Agreeing'
  <2>1. /\ e \notin joined /\ joined' = joined \cup {e} /\ UNCHANGED Negotiated
        /\ chain' = [chain EXCEPT ![e] = IF e = "offerer" THEN Append(@, T("start", 0)) ELSE @]
    BY <1>6 DEF Join
  <2>2. CASE e = "answerer"
    <3>1. chain' = chain
      BY <2>1, <2>2
    <3> QED
      BY <2>1, <3>1, NothingNegotiated
  <2>3. CASE e = "offerer"
    <3>1. T("start", 0) \in Task /\ T("start", 0).is = "start"
      BY TaskTypes
    <3>2. stuck # TRUE
      BY <1>6, <2>1 DEF Negotiated
    <3>3. chain["offerer"] = <<>> /\ local["offerer"] = 0
      BY <2>1, <2>3, <3>2 DEF Agreeing, Tasks
    <3> QED
      BY <2>1, <2>3, <3>1, <3>3, OwnTaskAsked
  <2> QED
    BY <2>2, <2>3
<1>7. ASSUME NEW e \in End, stuck' # TRUE, Gather(e)
      PROVE  Agreeing'
  <2>1. Lines /\ Rounds /\ Tasks
    BY <1>7 DEF Agreeing, Gather
  <2> QED
    BY <1>7, <2>1, GatherAgrees DEF Agreeing
<1>8. ASSUME NEW e \in End, stuck' # TRUE, RunTask(e)
      PROVE  Agreeing'
  <2> DEFINE t == Head(chain[e])
  <2>1. joined' = joined /\ e \in joined /\ chain[e] # <<>> /\ t \in Task
    BY <1>8, RestType DEF RunTask, Running
  <2>2. stuck' = stuck
    BY <1>8 DEF RunTask, OfferNow, restartIce, Nothing, handleOffer, handleAnswer, handleCandidate, Negotiated
  <2>3. Lines /\ Rounds /\ Tasks
    BY <1>8, <2>2 DEF Agreeing
  <2>4. CASE t.is = "candidate"
    BY <1>8, <2>1, <2>3, <2>4, CandidateAgrees DEF RunTask, Agreeing
  <2>5. CASE e = "answerer" /\ t.is = "offer"
    BY <1>8, <2>1, <2>3, <2>5, AnswerAgrees DEF RunTask, Agreeing
  <2>6. CASE e = "offerer" /\ t.is = "answer"
    BY <1>8, <2>1, <2>3, <2>6, AnsweredAgrees DEF RunTask, Agreeing
  <2>7. CASE e = "offerer" /\ t.is = "restart"
    BY <1>8, <2>1, <2>3, <2>7, OfferAgrees, NothingAgrees DEF RunTask, restartIce, Agreeing
  <2>8. CASE e = "offerer" /\ t.is = "start"
    <3>1. local["offerer"] = 0
      BY <2>1, <2>3, <2>8, HeadTask
    <3>2. signaling["offerer"] = "stable"
      BY <2>3, <3>1 DEF Rounds
    <3> QED
      BY <1>8, <2>1, <2>3, <2>8, <3>2, OfferAgrees DEF RunTask, Agreeing
  <2> QED
    BY <2>1, <2>3, <2>4, <2>5, <2>6, <2>7, <2>8, HeadTask
<1>9. ASSUME NEW e \in End, TaskThrows(e)
      PROVE  stuck' = TRUE
  BY <1>9 DEF TaskThrows
<1> QED
  BY <1>1, <1>2, <1>3, <1>4, <1>5, <1>6, <1>7, <1>8, <1>9 DEF PeerNext

\* When nothing is under way both ends have applied the offer and the answer of one
\* number and all its candidates, through any restarts and connection losses
\* (restartIce offers only when stable, handleDescription and the wire keep the order).
THEOREM DescriptionsAgreeCorrect == PeerSpec => []DescriptionsAgree
<1>1. PeerInit => Agreeing
  BY PeerAgreesAtFirst DEF PeerInit, Both
<1>2. PeerTypeOK /\ Agreeing => DescriptionsAgree
  <2> SUFFICES ASSUME PeerTypeOK, Agreeing, ~stuck, \A e \in End : chain[e] = <<>>, NEW e \in End
               PROVE  /\ signaling[e] = "stable"
                      /\ remote[e] = local[Other(e)] /\ local[e] = local[Other(e)]
                      /\ gathered[Other(e)] \cap {remote[e]} = added[e]
    BY DEF DescriptionsAgree
  <2>1. Lines /\ Rounds
    <3>1. stuck # TRUE
      BY Zenon
    <3> QED
      BY <3>1 DEF Agreeing
  <2>2. \A d \in End : /\ remote[d] = local[Other(d)]
                       /\ local[Other(d)] \in gathered[Other(d)] => local[Other(d)] \in added[d]
                       /\ added[d] \subseteq {remote[d]} \cap gathered[Other(d)]
    BY <2>1 DEF Lines, Ordered
  <2>3. remote["offerer"] = local["answerer"] /\ remote["answerer"] = local["offerer"]
    BY <2>2, Ends
  <2>4. \A d \in End : signaling[d] = "stable" /\ local[d] = local[Other(d)]
    BY <2>1, <2>3, Ends DEF Rounds
  <2> QED
    BY <2>2, <2>4
<1> QED
  BY <1>1, <1>2, PeerInitType, PeerNextType, AgreeingNext, PTL DEF PeerSpec

(***************************************************************************)
(* Signaling.                                                              *)
(***************************************************************************)

Flags == retryTimer \in BOOLEAN /\ awaitingSession \in BOOLEAN /\ stopped \in BOOLEAN

\* What is scheduled when a connection is gone.
LEMMA ReconnectLater ==
  ASSUME Flags, reconnectLater, UNCHANGED <<awaitingSession, stopped>>
  PROVE  Flags' /\ NeverStranded'
<1>1. retryTimer' \in BOOLEAN
  BY Zenon DEF reconnectLater
<1>2. stopped \/ awaitingSession \/ retryTimer'
  BY Zenon DEF reconnectLater
<1> QED
  BY <1>1, <1>2, Zenon DEF Flags, NeverStranded

LEMMA SessionAwaited ==
  ASSUME Flags, renewSession
  PROVE  Flags' /\ NeverStranded'
<1>1. awaitingSession' = TRUE /\ stopped' = stopped
  BY DEF renewSession
<1>2. retryTimer' \in BOOLEAN
  BY Zenon DEF renewSession
<1> QED
  BY <1>1, <1>2, Zenon DEF Flags, NeverStranded

LEMMA AsBefore ==
  ASSUME Flags, NeverStranded, UNCHANGED <<retryTimer, awaitingSession, stopped>>,
         link' = link \/ link' = "up"
  PROVE  Flags' /\ NeverStranded'
<1>1. link' # "down" \/ link' = link
  OBVIOUS
<1>2. retryTimer' = retryTimer /\ awaitingSession' = awaitingSession /\ stopped' = stopped
  OBVIOUS
<1>3. Flags'
  BY <1>2 DEF Flags
<1>4. CASE link' # "down"
  BY <1>3, <1>4, Zenon DEF NeverStranded
<1>5. CASE link' = link
  <2>1. (stopped \/ link # "down" \/ retryTimer \/ awaitingSession) /\ link' = link
    BY <1>5, Zenon DEF NeverStranded
  <2>2. stopped' \/ link' # "down" \/ retryTimer' \/ awaitingSession'
    BY <1>2, <2>1 DEF Flags
  <2> QED
    BY <1>3, <2>2, Zenon DEF NeverStranded
<1> QED
  BY <1>1, <1>4, <1>5

LEMMA NeverStrandedNext ==
  ASSUME Flags, NeverStranded, [SignalingNext]_signalingVars
  PROVE  Flags' /\ NeverStranded'
<1>1. CASE Lost \/ retry
  <2>1. reconnectLater /\ UNCHANGED <<awaitingSession, stopped>>
    BY <1>1 DEF Lost, retry, Disconnected
  <2> QED
    BY <2>1, ReconnectLater
<1>2. CASE RetryNow
  <2>1. /\ retryTimer' = FALSE /\ awaitingSession' = awaitingSession /\ stopped' = stopped
        /\ link' = IF stopped \/ link = "up" THEN link ELSE "connecting"
    BY <1>2 DEF RetryNow
  <2>2. stopped \/ link' # "down"
    BY <2>1
  <2> QED
    BY <2>1, <2>2, Zenon DEF Flags, NeverStranded
<1>3. CASE connect_error
  BY <1>3, ReconnectLater, SessionAwaited DEF connect_error
<1>4. CASE SessionReady
  <2>1. retryTimer' = (retryTimer \/ ~stopped) /\ awaitingSession' = FALSE /\ stopped' = stopped
    BY <1>4, Zenon DEF SessionReady
  <2>2. retryTimer' \in BOOLEAN /\ (retryTimer' \/ stopped)
    BY <2>1, Zenon
  <2> QED
    BY <2>1, <2>2, Zenon DEF Flags, NeverStranded
<1>5. CASE Receive
  <2>1. CASE renewSession
    BY <2>1, SessionAwaited
  <2>2. CASE stopped' = TRUE /\ retryTimer' = FALSE /\ awaitingSession' = awaitingSession
    BY <2>2, Zenon DEF Flags, NeverStranded
  <2>3. CASE UNCHANGED Comeback
    BY <2>3, AsBefore DEF Comeback
  <2> QED
    BY <1>5, <2>1, <2>2, <2>3 DEF Receive, helloAck
<1>6. CASE Connected \/ search
  BY <1>6, AsBefore DEF Connected, search
<1>7. CASE HelloTimeout \/ accept \/ decline \/ skip
  BY <1>7, AsBefore DEF HelloTimeout, accept, decline, skip, Comeback
<1>8. CASE \/ AdapterDelivers \/ hello \/ createRoomLocked \/ acceptLocked \/ partnerAccepts \/ startCall
           \/ leaveRoom \/ endRoomLocked \/ acceptTimeout \/ relaxTickLocked \/ replaceLocked \/ sessionExpiry
           \/ sessionRestricted \/ reapDeadInstancesLocked
  <2>1. UNCHANGED Client
    BY <1>8 DEF AdapterDelivers, hello, createRoomLocked, acceptLocked, partnerAccepts, startCall,
         leaveRoom, endRoomLocked, acceptTimeout, relaxTickLocked, replaceLocked, sessionExpiry,
         sessionRestricted, reapDeadInstancesLocked
  <2> QED
    BY <2>1, AsBefore DEF Client, Comeback
<1>9. CASE UNCHANGED signalingVars
  BY <1>9, AsBefore DEF signalingVars
<1> QED
  BY <1>1, <1>2, <1>3, <1>4, <1>5, <1>6, <1>7, <1>8, <1>9 DEF SignalingNext

\* A tab without a connection has a retry or a session under way, however losses, the
\* Retry button, refused handshakes, expiring sessions and late timers follow each
\* other: only a ban or another tab ends that (reconnectLater, renewSession, stop).
THEOREM NeverStrandedCorrect == SignalingSpec => []NeverStranded
<1>1. SignalingInit => Flags /\ NeverStranded
  BY DEF SignalingInit, Flags, NeverStranded
<1> QED
  BY <1>1, NeverStrandedNext, PTL DEF SignalingSpec

LEMMA ShowType ==
  ASSUME SignalingTypeOK, NEW st \in Statuses, NEW r \in Nat, Show(st, r)
  PROVE  screen' \in [status : Statuses, room : Nat]
BY DEF SignalingTypeOK, Show

LEMMA TellType ==
  ASSUME SignalingTypeOK, NEW r \in Nat, NEW is \in {"hello", "accept", "decline", "skip"}, Tell(is, r)
  PROVE  upward' \in Seq(Note)
<1>1. N(is, r) \in Note
  BY DEF N, Note
<1> QED
  BY <1>1 DEF SignalingTypeOK, Tell

LEMMA EmitType ==
  ASSUME SignalingTypeOK, NEW notes \in Seq(Note), Emit(notes) \/ EmitHere(notes)
  PROVE  downward' \in Seq(Note) /\ bus' \in Seq(Note) /\ overtaken' \in BOOLEAN
<1>1. downward \in Seq(Note) /\ bus \in Seq(Note) /\ overtaken \in BOOLEAN
  BY DEF SignalingTypeOK
<1>2. CASE EmitHere(notes)
  <2>1. overtaken' \in BOOLEAN
    BY <1>1, <1>2, Zenon DEF EmitHere
  <2> QED
    BY <1>1, <1>2, <2>1 DEF EmitHere
<1>3. CASE Emit(notes) /\ ~EmitHere(notes)
  <2>1. bus' = bus \o notes /\ UNCHANGED <<downward, overtaken>>
    BY <1>3 DEF Emit
  <2> QED
    BY <1>1, <2>1
<1> QED
  BY <1>2, <1>3

LEMMA SocketType ==
  ASSUME SignalingTypeOK, Lost \/ retry \/ RetryNow \/ connect_error \/ SessionReady \/ Connected \/ HelloTimeout
  PROVE  SignalingTypeOK'
<1> USE DEF SignalingTypeOK
<1>0. /\ retryTimer \in BOOLEAN /\ awaitingSession \in BOOLEAN /\ stopped \in BOOLEAN
      /\ asked \in BOOLEAN /\ untold \in BOOLEAN /\ overtaken \in BOOLEAN
      /\ <<>> \in Seq(Note) /\ NoSession \in [state : {"none", "idle", "waiting", "pending", "starting", "active"},
                                             room : Nat, accepted : BOOLEAN]
  BY DEF NoSession
<1>1. ASSUME reconnectLater PROVE retryTimer' \in BOOLEAN
  BY <1>1, Zenon DEF reconnectLater
<1>2. ASSUME renewSession PROVE retryTimer' \in BOOLEAN /\ awaitingSession' \in BOOLEAN
  BY <1>2, Zenon DEF renewSession
<1>3. ASSUME Disconnected PROVE SignalingTypeOK'
  <2>1. screen' \in [status : Statuses, room : Nat]
    <3>1. Show(IF asked THEN "unanswered" ELSE "connecting", 0)
      BY <1>3 DEF Disconnected
    <3> QED
      BY <3>1, ShowType DEF Statuses
  <2>2. retryTimer' \in BOOLEAN
    BY <1>1, <1>3 DEF Disconnected
  <2> QED
    BY <1>0, <1>3, <2>1, <2>2 DEF Disconnected, Drop
<1>4. CASE Lost
  BY <1>3, <1>4 DEF Lost
<1>5. CASE retry
  <2>1. CASE link = "up"
    BY <1>3, <1>5, <2>1 DEF retry
  <2>2. CASE link # "up"
    <3>1. retryTimer' \in BOOLEAN
      BY <1>1, <1>5, <2>2 DEF retry
    <3> QED
      BY <1>0, <1>5, <2>2, <3>1 DEF retry, Drop
  <2> QED
    BY <2>1, <2>2
<1>6. CASE RetryNow
  BY <1>0, <1>6 DEF RetryNow, Wires, Matcher
<1>7. CASE connect_error
  <2>1. retryTimer' \in BOOLEAN /\ awaitingSession' \in BOOLEAN /\ stopped' \in BOOLEAN
    BY <1>0, <1>1, <1>2, <1>7 DEF connect_error, renewSession
  <2> QED
    BY <1>0, <1>7, <2>1 DEF connect_error, Wires, Matcher
<1>8. CASE SessionReady
  <2>1. retryTimer' \in BOOLEAN
    BY <1>8, Zenon DEF SessionReady
  <2> QED
    BY <1>0, <1>8, <2>1 DEF SessionReady, Wires, Matcher
<1>9. CASE Connected
  <2>1. connectionSeq' \in Nat /\ upward' \in Seq(Note)
    BY <1>9, TellType DEF Connected, sayHello
  <2> QED
    BY <1>0, <1>9, <2>1 DEF Connected, sayHello, Matcher
<1>10. CASE HelloTimeout
  <2>1. screen' \in [status : Statuses, room : Nat]
    BY <1>10, ShowType DEF HelloTimeout, Statuses
  <2> QED
    BY <1>0, <1>10, <2>1 DEF HelloTimeout, Comeback, Wires, Matcher
<1> QED
  BY <1>4, <1>5, <1>6, <1>7, <1>8, <1>9, <1>10

LEMMA ButtonType ==
  ASSUME SignalingTypeOK, accept \/ decline \/ skip \/ search
  PROVE  SignalingTypeOK'
<1> USE DEF SignalingTypeOK
<1>0. screen.room \in Nat /\ asked \in BOOLEAN
  OBVIOUS
<1>1. CASE accept
  <2>1. screen' \in [status : Statuses, room : Nat] /\ upward' \in Seq(Note)
    BY <1>0, <1>1, ShowType, TellType DEF accept, Statuses
  <2> QED
    BY <1>1, <2>1 DEF accept, Comeback, Matcher
<1>2. CASE decline
  <2>1. upward' \in Seq(Note)
    BY <1>0, <1>2, TellType DEF decline
  <2> QED
    BY <1>2, <2>1 DEF decline, Comeback, Matcher
<1>3. CASE skip
  <2>1. upward' \in Seq(Note)
    BY <1>0, <1>3, TellType DEF skip
  <2> QED
    BY <1>0, <1>3, <2>1 DEF skip, Comeback, Matcher
<1>4. CASE search
  <2>1. connectionSeq' \in Nat /\ upward' \in Seq(Note)
    BY <1>4, TellType DEF search, sayHello
  <2> QED
    BY <1>4, <2>1 DEF search, sayHello, Matcher
<1> QED
  BY <1>1, <1>2, <1>3, <1>4

LEMMA ReceiveType ==
  ASSUME SignalingTypeOK, Receive
  PROVE  SignalingTypeOK'
<1> USE DEF SignalingTypeOK
<1> DEFINE m == Head(downward)
<1>00. downward # <<>> /\ m \in Note /\ Tail(downward) \in Seq(Note)
  BY DEF Receive
<1>01. {retryTimer, awaitingSession, asked} \subseteq BOOLEAN
  OBVIOUS
<1>0. /\ downward # <<>> /\ m \in Note /\ Tail(downward) \in Seq(Note) /\ m.of \in Nat
      /\ screen.room \in Nat /\ asked \in BOOLEAN /\ <<>> \in Seq(Note)
      /\ awaitingSession \in BOOLEAN /\ retryTimer \in BOOLEAN
      /\ NoSession \in [state : {"none", "idle", "waiting", "pending", "starting", "active"},
                        room : Nat, accepted : BOOLEAN]
  BY <1>00, <1>01 DEF Note, NoSession
<1> HIDE DEF m
<1>1. CASE /\ helloAck(m) /\ downward' = Tail(downward)
           /\ UNCHANGED <<skippedRoom, bus, Matcher>>
  <2>1. CASE UNCHANGED <<Comeback, asked, screen, upward>>
    BY <1>0, <1>1, <2>1 DEF Comeback, Matcher
  <2>2. CASE asked' = FALSE /\ (HelloOk \/ Show("error", 0)) /\ UNCHANGED <<Comeback, upward>>
    <3>1. screen' \in [status : Statuses, room : Nat]
      BY <1>0, <2>2, ShowType DEF HelloOk, Statuses
    <3> QED
      BY <1>0, <1>1, <2>2, <3>1 DEF Comeback, Matcher
  <2> QED
    BY <1>1, <2>1, <2>2 DEF helloAck
<1>2. CASE /\ Reduce(m) /\ IF m.is = "instant" THEN Tell("accept", m.of) ELSE UNCHANGED upward
           /\ downward' = Tail(downward)
           /\ UNCHANGED <<Comeback, asked, skippedRoom, bus, Matcher>>
  <2>1. screen' \in [status : Statuses, room : Nat]
    <3>1. \/ UNCHANGED screen
          \/ \E st \in Statuses, r \in Nat : Show(st, r)
      BY <1>0, <1>2 DEF Reduce, Statuses
    <3> QED
      BY <3>1, ShowType
  <2>2. upward' \in Seq(Note)
    BY <1>0, <1>2, TellType
  <2> QED
    BY <1>0, <1>2, <2>1, <2>2 DEF Comeback, Matcher
<1>3. CASE /\ renewSession /\ downward' = Tail(downward)
           /\ UNCHANGED <<link, connectionSeq, asked, screen, skippedRoom, upward, bus, Matcher>>
  <2>1. retryTimer' \in BOOLEAN /\ awaitingSession' \in BOOLEAN
    BY <1>3, Zenon DEF renewSession
  <2> QED
    BY <1>0, <1>3, <2>1 DEF renewSession, Matcher
<1>4. CASE m.is \in Terminal /\ Show(m.is, 0) /\ stopped' = TRUE /\ retryTimer' = FALSE /\ Drop /\ UNCHANGED awaitingSession
  <2>1. screen' \in [status : Statuses, room : Nat]
    BY <1>4, ShowType DEF Statuses
  <2> QED
    BY <1>0, <1>4, <2>1 DEF Drop
<1> QED
  BY <1>1, <1>2, <1>3, <1>4 DEF Receive, m

LEMMA MatcherType ==
  ASSUME SignalingTypeOK,
         \/ AdapterDelivers \/ hello \/ createRoomLocked \/ acceptLocked \/ partnerAccepts \/ startCall
         \/ leaveRoom \/ endRoomLocked \/ acceptTimeout \/ relaxTickLocked \/ replaceLocked \/ sessionExpiry
         \/ sessionRestricted \/ reapDeadInstancesLocked
  PROVE  SignalingTypeOK'
<1> DEFINE Sessions == [state : {"none", "idle", "waiting", "pending", "starting", "active"},
                        room : Nat, accepted : BOOLEAN]
           Clients == /\ retryTimer \in BOOLEAN /\ awaitingSession \in BOOLEAN /\ stopped \in BOOLEAN
                      /\ asked \in BOOLEAN /\ link \in {"down", "connecting", "up"}
                      /\ connectionSeq \in Nat /\ skippedRoom \in Nat /\ screen \in [status : Statuses, room : Nat]
           Servers == /\ untold \in BOOLEAN /\ overtaken \in BOOLEAN /\ rooms \in Nat /\ session \in Sessions
                      /\ upward \in Seq(Note) /\ downward \in Seq(Note) /\ bus \in Seq(Note)
<1>1. Clients /\ Servers
  BY DEF SignalingTypeOK
<1>2. UNCHANGED Client
  BY DEF AdapterDelivers, hello, createRoomLocked, acceptLocked, partnerAccepts, startCall,
     leaveRoom, endRoomLocked, acceptTimeout, relaxTickLocked, replaceLocked, sessionExpiry,
     sessionRestricted, reapDeadInstancesLocked
<1>3. Clients'
  BY <1>1, <1>2 DEF Client, Comeback
<1>4. Queued \in Sessions /\ Idle \in Sessions /\ NoSession \in Sessions
  BY DEF Queued, Idle, NoSession
<1>5. \A is \in {"ok", "refused", "banned", "waiting", "found", "instant", "start", "ended",
                 "accept-timeout", "replaced", "expired"}, of \in Nat : N(is, of) \in Note
  BY DEF N, Note
<1>6. \A a \in Note : <<a>> \in Seq(Note)
  OBVIOUS
<1>7. \A a, b \in Note : <<a, b>> \in Seq(Note)
  OBVIOUS
<1>8. upward # <<>> => Tail(upward) \in Seq(Note) /\ Head(upward).of \in Nat
  <2>1. upward # <<>> => Tail(upward) \in Seq(Note) /\ Head(upward) \in Note
    BY <1>1
  <2> QED
    BY <2>1 DEF Note
<1>9. session.room \in Nat
  BY <1>1
<1>10. ASSUME Ended PROVE downward' \in Seq(Note) /\ bus' \in Seq(Note) /\ overtaken' \in BOOLEAN
                          /\ session' \in Sessions /\ untold' \in BOOLEAN
  <2>1. CASE session' = Queued /\ Emit(<<N("ended", session.room), N("waiting", 0)>>) /\ UNCHANGED untold
    BY <1>1, <1>4, <1>5, <1>7, <1>9, <2>1, EmitType
  <2>2. CASE session' = Idle /\ untold' = TRUE /\ Emit(<<N("ended", session.room)>>)
    BY <1>4, <1>5, <1>6, <1>9, <2>2, EmitType
  <2> QED
    BY <1>10, <2>1, <2>2 DEF Ended
<1> HIDE DEF Sessions
<1>24. Servers' => SignalingTypeOK'
  BY <1>3 DEF SignalingTypeOK, Sessions
<1> SUFFICES Servers'
  BY <1>24
<1>11. CASE AdapterDelivers
  BY <1>1, <1>11 DEF AdapterDelivers, Matcher
<1>12. CASE hello
  <2>1. PICK notes \in Seq(Note) : EmitHere(notes)
    BY <1>5, <1>6, <1>7, <1>8, <1>12 DEF hello
  <2>2. downward' \in Seq(Note) /\ bus' \in Seq(Note) /\ overtaken' \in BOOLEAN
    BY <2>1, EmitType
  <2>3. session' \in Sessions /\ untold' \in BOOLEAN
    BY <1>1, <1>4, <1>12 DEF hello
  <2> QED
    BY <1>1, <1>8, <1>12, <2>2, <2>3 DEF hello
<1>13. CASE createRoomLocked
  <2>1. rooms' \in Nat
    BY <1>1, <1>13 DEF createRoomLocked
  <2>2. PICK mine \in BOOLEAN, both \in BOOLEAN :
          /\ session' = [state |-> IF both THEN "starting" ELSE "pending", room |-> rooms', accepted |-> mine]
          /\ Emit(<<N(IF mine THEN "instant" ELSE "found", rooms')>>)
    BY <1>13 DEF createRoomLocked
  <2>3. N(IF mine THEN "instant" ELSE "found", rooms') \in Note
    BY <1>5, <2>1
  <2>4. downward' \in Seq(Note) /\ bus' \in Seq(Note) /\ overtaken' \in BOOLEAN
    BY <1>6, <2>2, <2>3, EmitType
  <2>5. session' \in Sessions
    BY <2>1, <2>2 DEF Sessions
  <2> QED
    BY <1>1, <1>13, <2>1, <2>4, <2>5 DEF createRoomLocked
<1>14. CASE acceptLocked
  <2>1. session' \in Sessions
    BY <1>1, <1>14 DEF acceptLocked, Sessions
  <2> QED
    BY <1>1, <1>8, <1>14, <2>1 DEF acceptLocked
<1>15. CASE partnerAccepts
  <2>1. session' \in Sessions
    BY <1>1, <1>15 DEF partnerAccepts, Sessions
  <2> QED
    BY <1>1, <1>15, <2>1 DEF partnerAccepts, Wires
<1>16. CASE startCall
  <2>1. session' \in Sessions
    BY <1>1, <1>16 DEF startCall, Sessions
  <2>2. downward' \in Seq(Note) /\ bus' \in Seq(Note) /\ overtaken' \in BOOLEAN
    BY <1>5, <1>6, <1>9, <1>16, EmitType DEF startCall
  <2> QED
    BY <1>1, <1>16, <2>1, <2>2 DEF startCall
<1>17. CASE leaveRoom
  <2>1. CASE Ended
    BY <1>1, <1>8, <1>10, <1>17, <2>1 DEF leaveRoom
  <2>2. CASE UNCHANGED <<session, untold, downward, bus, overtaken>>
    BY <1>1, <1>8, <1>17, <2>2 DEF leaveRoom
  <2> QED
    BY <1>17, <2>1, <2>2 DEF leaveRoom
<1>18. CASE endRoomLocked
  BY <1>1, <1>10, <1>18 DEF endRoomLocked
<1>19. CASE acceptTimeout
  <2>1. downward' \in Seq(Note) /\ bus' \in Seq(Note) /\ overtaken' \in BOOLEAN
    BY <1>5, <1>6, <1>9, <1>19, EmitType DEF acceptTimeout
  <2> QED
    BY <1>1, <1>4, <1>19, <2>1 DEF acceptTimeout
<1>20. CASE relaxTickLocked
  <2>1. downward' \in Seq(Note) /\ bus' \in Seq(Note) /\ overtaken' \in BOOLEAN
    BY <1>5, <1>6, <1>20, EmitType DEF relaxTickLocked
  <2> QED
    BY <1>1, <1>20, <2>1 DEF relaxTickLocked
<1>21. CASE replaceLocked
  <2>1. downward' \in Seq(Note) /\ bus' \in Seq(Note) /\ overtaken' \in BOOLEAN
    BY <1>5, <1>6, <1>21, EmitType DEF replaceLocked
  <2> QED
    BY <1>1, <1>4, <1>21, <2>1 DEF replaceLocked
<1>22. CASE sessionExpiry
  <2>1. downward' \in Seq(Note) /\ bus' \in Seq(Note) /\ overtaken' \in BOOLEAN
    BY <1>5, <1>6, <1>22, EmitType DEF sessionExpiry
  <2> QED
    BY <1>1, <1>22, <2>1 DEF sessionExpiry
<1>23. CASE sessionRestricted
  <2>1. downward' \in Seq(Note) /\ bus' \in Seq(Note) /\ overtaken' \in BOOLEAN
    <3>1. CASE Emit(<<N("ended", session.room)>>)
      BY <1>5, <1>6, <1>9, <3>1, EmitType
    <3>2. CASE UNCHANGED <<downward, bus, overtaken>>
      BY <1>1, <3>2
    <3> QED
      BY <1>23, <3>1, <3>2 DEF sessionRestricted
  <2> QED
    BY <1>1, <1>4, <1>23, <2>1 DEF sessionRestricted
<1>25. CASE reapDeadInstancesLocked
  BY <1>1, <1>4, <1>25 DEF reapDeadInstancesLocked, Wires
<1> QED
  BY <1>11, <1>12, <1>13, <1>14, <1>15, <1>16, <1>17, <1>18, <1>19, <1>20, <1>21, <1>22, <1>23, <1>25

LEMMA SignalingNextType == SignalingTypeOK /\ [SignalingNext]_signalingVars => SignalingTypeOK'
<1> SUFFICES ASSUME SignalingTypeOK, [SignalingNext]_signalingVars PROVE SignalingTypeOK'
  OBVIOUS
<1>1. CASE UNCHANGED signalingVars
  BY <1>1 DEF signalingVars, SignalingTypeOK
<1> QED
  BY <1>1, SocketType, ButtonType, ReceiveType, MatcherType DEF SignalingNext

LEMMA SignalingInitType == SignalingInit => SignalingTypeOK
<1> SUFFICES ASSUME SignalingInit PROVE SignalingTypeOK
  OBVIOUS
<1>1. {retryTimer, awaitingSession, stopped, asked, untold, overtaken} \subseteq BOOLEAN
  BY Zenon DEF SignalingInit
<1>2. <<>> \in Seq(Note)
  OBVIOUS
<1> QED
  BY <1>1, <1>2 DEF SignalingInit, SignalingTypeOK, NoSession, Statuses

\* What a tab that has read everything up to here would show of the session; "acked" is
\* whatever it shows.
View == [is : {"none", "acked", "idle", "waiting", "left", "found", "instant", "active", "gone"}, of : Nat]
Offering == {"found", "instant"}
InCall == {"found", "instant", "active"}
ViewOf(is, of) == [is |-> is, of |-> of]

\* How a message takes one view to the next; nothing else is ever sent.
Moves(v, m, w) ==
  \/ v.is = "gone" /\ w = v
  \/ m.is \in Terminal /\ w.is = "gone"
  \/ m.is = "expired" /\ w = v
  \/ m.is \in {"ok", "refused"} /\ w.is = "acked"
  \/ m.is = "ok" /\ v.is \in InCall /\ w = v
  \/ m.is = "refused" /\ v.is \in {"none", "idle"} /\ w = v
  \/ m.is = "waiting" /\ v.is \in {"acked", "waiting", "left"} /\ w.is = "waiting"
  \/ m.is \in Offering /\ v.is = "waiting" /\ w.is = m.is /\ w.of = m.of
  \/ m.is = "start" /\ v.is \in Offering /\ v.of = m.of /\ w.is = "active" /\ w.of = m.of
  \/ m.is = "ended" /\ v.is \in InCall /\ v.of = m.of /\ w.is = "left"
  \/ m.is = "accept-timeout" /\ v.is = "found" /\ v.of = m.of /\ w.is = "idle"

\* h is the view after each number of messages of the line, from v to w.
IsPath(h, v, line, w) ==
  /\ h \in [0 .. Len(line) -> View]
  /\ h[0] = v /\ h[Len(line)] = w
  /\ \A k \in 1 .. Len(line) : Moves(h[k - 1], line[k], h[k])

\* Reading the whole line takes view v to view w.
Leads(v, line, w) == line \in Seq(Note) /\ \E h : IsPath(h, v, line, w)

\* The screen agrees with a view, or is the error an ack that never came left; a refused
\* hello shows as an error of its own.
OnScreen(v, scr, ask) ==
  LET err == scr.status = "unanswered" /\ ask = FALSE
      failed == scr = [status |-> "error", room |-> 0]
  IN  /\ v.is = "none" => ask = TRUE \/ err \/ failed
      /\ v.is = "idle" => err \/ failed \/ scr = [status |-> "idle", room |-> 0]
      /\ v.is \in {"waiting", "left"} => err \/ scr = [status |-> "waiting", room |-> 0]
      /\ v.is = "found" => err \/ (scr.status \in {"match-found", "starting-call"} /\ scr.room = v.of)
      /\ v.is = "instant" => err \/ scr = [status |-> "starting-call", room |-> v.of]
      /\ v.is = "active" => err \/ scr = [status |-> "in-call", room |-> v.of]

\* The server's session is the one a view tells of, unless it was left out of the queue
\* or removed and the tab not told.
Knows(w, ses, cap) ==
  \/ cap = TRUE /\ ses.state \in {"none", "idle"}
  \/ /\ w.is \notin {"acked", "left"}
     /\ w.is = "none" => ses.state = "none" /\ ses.room = 0
     /\ w.is = "idle" => ses.state = "idle" /\ ses.room = 0
     /\ w.is = "waiting" => ses.state = "waiting" /\ ses.room = 0
     /\ w.is \in Offering => ses.state \in {"pending", "starting"} /\ ses.room = w.of
     /\ w.is = "instant" \/ ses.state = "starting" => ses.accepted = TRUE \/ w.is = "gone"
     /\ w.is = "active" => ses.state = "active" /\ ses.room = w.of

\* Room r was offered to the user, who has not accepted it.
Offered(line, scr, r) ==
  \/ scr.status = "match-found" /\ scr.room = r
  \/ \E k \in 1 .. Len(line) : line[k].is = "found" /\ line[k].of = r

\* Rooms are offered once, and accepted by who was offered them.
OfferedOnce(line, up, scr, ses, rms) ==
  /\ \A k \in 1 .. Len(line) : line[k].is \in Offering => line[k].of <= rms
  /\ \A k, l \in 1 .. Len(line) :
       line[k].is \in Offering /\ line[l].is \in Offering /\ line[k].of = line[l].of => k = l
  /\ scr.status = "match-found" =>
       /\ scr.room <= rms
       /\ \A k \in 1 .. Len(line) : line[k].is = "found" => line[k].of # scr.room
  /\ \A k \in 1 .. Len(up) : up[k].is = "accept" => up[k].of <= rms /\ ~Offered(line, scr, up[k].of)
  /\ ses.accepted = TRUE => ~Offered(line, scr, ses.room)

\* The line leads from what the screen shows to what the server's session is.
Follows(v, scr, ask, line, w, ses, cap) ==
  /\ v \in View /\ w \in View
  /\ v.is # "gone" /\ OnScreen(v, scr, ask) /\ Knows(w, ses, cap) /\ Leads(v, line, w)

\* What is under way tells the tab of the session, and its offers are fresh.
Told(line, up, scr, ask, ses, rms, cap) ==
  /\ \E v, w : Follows(v, scr, ask, line, w, ses, cap)
  /\ OfferedOnce(line, up, scr, ses, rms)

\* Without a connection nothing is under way and the server has no session.
QuietLine ==
  link # "up" => /\ Wires = <<<<>>, <<>>, <<>>>> /\ session = NoSession
                 /\ asked = FALSE /\ untold = FALSE /\ overtaken = FALSE
                 /\ screen.status \in {"connecting", "error", "unanswered", "idle"} \cup Terminal

\* A terminal screen stays: the tab stopped, and a stopped tab has no link.
OverForGood ==
  /\ screen.status \in Terminal => stopped = TRUE
  /\ stopped = TRUE => link = "down"

\* While the replicas kept their order, the line tells the tab of the session.
InStep == link = "up" /\ overtaken = FALSE =>
            Told(downward \o bus, upward, screen, asked, session, rooms, untold)

\* The inductive invariant behind ScreenIsTrue.
Telling == QuietLine /\ OverForGood /\ InStep

LEMMA LeadsNothing ==
  ASSUME NEW v \in View
  PROVE  Leads(v, <<>>, v)
<1> DEFINE h == [k \in 0 .. 0 |-> v]
<1>1. h \in [0 .. Len(<<>>) -> View] /\ h[0] = v /\ h[Len(<<>>)] = v /\ 1 .. Len(<<>>) = {}
  OBVIOUS
<1>2. IsPath(h, v, <<>>, v)
  BY <1>1, Zenon DEF IsPath
<1> HIDE DEF h
<1>3. <<>> \in Seq(Note)
  OBVIOUS
<1> QED
  BY <1>2, <1>3, Zenon DEF Leads

LEMMA LeadsEmpty ==
  ASSUME NEW v, NEW w, Leads(v, <<>>, w)
  PROVE  v = w
<1>1. PICK h : IsPath(h, v, <<>>, w)
  BY Zenon DEF Leads
<1>2. Len(<<>>) = 0
  OBVIOUS
<1> QED
  BY <1>1, <1>2, Zenon DEF IsPath

LEMMA LeadsAppend ==
  ASSUME NEW v, NEW line, NEW w, Leads(v, line, w), NEW m \in Note, NEW x \in View, Moves(w, m, x)
  PROVE  Leads(v, Append(line, m), x)
<1>1. line \in Seq(Note)
  BY DEF Leads
<1>2. PICK h : IsPath(h, v, line, w)
  BY Zenon DEF Leads
<1> DEFINE n == Len(line)
           new == Append(line, m)
           g == [k \in 0 .. n + 1 |-> IF k = n + 1 THEN x ELSE h[k]]
<1>3. /\ n \in Nat /\ new \in Seq(Note) /\ Len(new) = n + 1 /\ new[n + 1] = m
      /\ \A k \in 1 .. n : new[k] = line[k]
  BY <1>1
<1>4. h \in [0 .. n -> View] /\ h[0] = v /\ h[n] = w /\ \A k \in 1 .. n : Moves(h[k - 1], line[k], h[k])
  BY <1>2, Zenon DEF IsPath
<1> HIDE DEF n, new
<1>5. /\ g \in [0 .. n + 1 -> View] /\ g[0] = v /\ g[n + 1] = x /\ g[n] = w
      /\ \A k \in 0 .. n : g[k] = h[k]
  BY <1>3, <1>4
<1> HIDE DEF g
<1>6. ASSUME NEW k \in 1 .. n + 1 PROVE Moves(g[k - 1], new[k], g[k])
  <2>1. CASE k = n + 1
    <3>1. k - 1 = n
      BY <1>3, <2>1
    <3>2. g[k - 1] = w /\ new[k] = m /\ g[k] = x
      BY <1>3, <1>5, <2>1, <3>1
    <3> QED
      BY <3>2, Zenon
  <2>2. CASE k # n + 1
    <3>1. k \in 1 .. n /\ k - 1 \in 0 .. n /\ k \in 0 .. n
      BY <1>3, <2>2
    <3>2. g[k - 1] = h[k - 1] /\ g[k] = h[k] /\ new[k] = line[k]
      BY <1>3, <1>5, <3>1
    <3>3. Moves(h[k - 1], line[k], h[k])
      BY <1>4, <3>1
    <3> QED
      BY <3>2, <3>3, Zenon
  <2> QED
    BY <2>1, <2>2
<1>7. IsPath(g, v, new, x)
  BY <1>3, <1>5, <1>6, Zenon DEF IsPath
<1>8. Leads(v, new, x)
  BY <1>3, <1>7, Zenon DEF Leads
<1> QED
  BY <1>8 DEF new

LEMMA LeadsTail ==
  ASSUME NEW v, NEW line, NEW w, Leads(v, line, w), line # <<>>
  PROVE  \E u \in View : Moves(v, Head(line), u) /\ Leads(u, Tail(line), w)
<1>1. line \in Seq(Note)
  BY DEF Leads
<1>2. PICK h : IsPath(h, v, line, w)
  BY Zenon DEF Leads
<1> DEFINE n == Len(line)
           rest == Tail(line)
           g == [k \in 0 .. n - 1 |-> h[k + 1]]
<1>3. /\ n \in Nat \ {0} /\ rest \in Seq(Note) /\ Len(rest) = n - 1 /\ Head(line) = line[1]
      /\ \A k \in 1 .. n - 1 : rest[k] = line[k + 1]
  BY <1>1
<1>4. h \in [0 .. n -> View] /\ h[0] = v /\ h[n] = w /\ \A k \in 1 .. n : Moves(h[k - 1], line[k], h[k])
  BY <1>2, Zenon DEF IsPath
<1> HIDE DEF n, rest
<1>5. /\ g \in [0 .. n - 1 -> View] /\ g[0] = h[1] /\ g[n - 1] = w
      /\ \A k \in 0 .. n - 1 : g[k] = h[k + 1]
  BY <1>3, <1>4
<1> HIDE DEF g
<1>6. ASSUME NEW k \in 1 .. n - 1 PROVE Moves(g[k - 1], rest[k], g[k])
  <2>1. k + 1 \in 1 .. n /\ k - 1 \in 0 .. n - 1 /\ k \in 0 .. n - 1 /\ (k + 1) - 1 = k /\ (k - 1) + 1 = k
    BY <1>3
  <2>2. g[k - 1] = h[k] /\ g[k] = h[k + 1] /\ rest[k] = line[k + 1]
    BY <1>3, <1>5, <2>1
  <2>3. Moves(h[(k + 1) - 1], line[k + 1], h[k + 1])
    BY <1>4, <2>1
  <2> QED
    BY <2>1, <2>2, <2>3
<1>7. IsPath(g, h[1], rest, w)
  BY <1>3, <1>5, <1>6, Zenon DEF IsPath
<1>8. Leads(h[1], rest, w)
  BY <1>3, <1>7, Zenon DEF Leads
<1>9. 1 \in 1 .. n /\ 1 \in 0 .. n /\ 1 - 1 = 0
  BY <1>3
<1>10. Moves(v, Head(line), h[1]) /\ h[1] \in View
  BY <1>3, <1>4, <1>9
<1> QED
  BY <1>8, <1>10 DEF rest

\* The tab asks for something, accepts what was offered, or shows something else.
LEMMA FreshAsk ==
  ASSUME NEW line, NEW up \in Seq(Note), NEW scr, NEW ses, NEW rms, OfferedOnce(line, up, scr, ses, rms),
         NEW m \in Note, m.is = "accept" => m.of <= rms /\ ~Offered(line, scr, m.of)
  PROVE  OfferedOnce(line, Append(up, m), scr, ses, rms)
<1>1. ASSUME NEW k \in 1 .. Len(Append(up, m)), Append(up, m)[k].is = "accept"
      PROVE  Append(up, m)[k].of <= rms /\ ~Offered(line, scr, Append(up, m)[k].of)
  <2>1. \/ k \in 1 .. Len(up) /\ Append(up, m)[k] = up[k]
        \/ Append(up, m)[k] = m
    OBVIOUS
  <2> QED
    BY <1>1, <2>1, Zenon DEF OfferedOnce
<1> QED
  BY <1>1, Zenon DEF OfferedOnce

LEMMA FreshShown ==
  ASSUME NEW line, NEW up, NEW scr, NEW scr2, NEW ses, NEW rms, OfferedOnce(line, up, scr, ses, rms),
         scr2.status # "match-found"
  PROVE  OfferedOnce(line, up, scr2, ses, rms)
<1>1. \A r : Offered(line, scr2, r) => Offered(line, scr, r)
  BY DEF Offered
<1> QED
  BY <1>1, Zenon DEF OfferedOnce

\* A message is read: what was offered is offered no more, unless the screen shows it.
LEMMA FreshHeard ==
  ASSUME NEW line \in Seq(Note), line # <<>>, NEW up, NEW scr, NEW scr2, NEW ses, NEW rms,
         OfferedOnce(line, up, scr, ses, rms),
         \/ scr2.status # "match-found"
         \/ scr2 = scr
         \/ Head(line).is = "found" /\ scr2.room = Head(line).of
  PROVE  /\ OfferedOnce(Tail(line), up, scr2, ses, rms)
         /\ Head(line).is = "instant" /\ scr2.status # "match-found" =>
              Head(line).of <= rms /\ ~Offered(Tail(line), scr2, Head(line).of)
<1> DEFINE rest == Tail(line)
<1>1. /\ 1 \in 1 .. Len(line) /\ Head(line) = line[1]
      /\ \A k \in 1 .. Len(rest) : k + 1 \in 1 .. Len(line) /\ rest[k] = line[k + 1] /\ k + 1 # 1
      /\ \A k, l \in 1 .. Len(rest) : k + 1 = l + 1 => k = l
  OBVIOUS
<1> HIDE DEF rest
<1>2. \A r : Offered(rest, scr2, r) => Offered(line, scr, r)
  BY <1>1 DEF Offered
<1>3. \A k \in 1 .. Len(rest) : rest[k].is \in Offering => rest[k].of <= rms
  BY <1>1, Zenon DEF OfferedOnce
<1>4. \A k, l \in 1 .. Len(rest) :
        rest[k].is \in Offering /\ rest[l].is \in Offering /\ rest[k].of = rest[l].of => k = l
  <2> SUFFICES ASSUME NEW k \in 1 .. Len(rest), NEW l \in 1 .. Len(rest), rest[k].is \in Offering,
                      rest[l].is \in Offering, rest[k].of = rest[l].of
               PROVE  k = l
    OBVIOUS
  <2>1. k + 1 \in 1 .. Len(line) /\ rest[k] = line[k + 1] /\ l + 1 \in 1 .. Len(line) /\ rest[l] = line[l + 1]
    BY <1>1
  <2>2. k + 1 = l + 1
    BY <2>1, Zenon DEF OfferedOnce
  <2> QED
    BY <1>1, <2>2
<1>5. \A k \in 1 .. Len(rest) : rest[k].is \in Offering /\ Head(line).is \in Offering => rest[k].of # Head(line).of
  <2> SUFFICES ASSUME NEW k \in 1 .. Len(rest), rest[k].is \in Offering, Head(line).is \in Offering,
                      rest[k].of = Head(line).of
               PROVE  FALSE
    OBVIOUS
  <2>1. k + 1 \in 1 .. Len(line) /\ rest[k] = line[k + 1] /\ k + 1 # 1
    BY <1>1
  <2>2. k + 1 = 1
    BY <1>1, <2>1, Zenon DEF OfferedOnce
  <2> QED
    BY <2>1, <2>2
<1>6. scr2.status = "match-found" =>
        /\ scr2.room <= rms
        /\ \A k \in 1 .. Len(rest) : rest[k].is = "found" => rest[k].of # scr2.room
  <2>1. CASE scr2 = scr
    BY <1>1, <2>1, Zenon DEF OfferedOnce
  <2>2. CASE Head(line).is = "found" /\ scr2.room = Head(line).of
    <3>1. Head(line).is \in Offering /\ \A k \in 1 .. Len(rest) : rest[k].is = "found" => rest[k].is \in Offering
      BY <2>2 DEF Offering
    <3>2. Head(line).of <= rms
      BY <1>1, <3>1, Zenon DEF OfferedOnce
    <3> QED
      BY <1>5, <2>2, <3>1, <3>2, Zenon
  <2> QED
    BY <2>1, <2>2
<1>7. OfferedOnce(rest, up, scr2, ses, rms)
  <2>1. \A k \in 1 .. Len(up) : up[k].is = "accept" => up[k].of <= rms /\ ~Offered(rest, scr2, up[k].of)
    BY <1>2, Zenon DEF OfferedOnce
  <2>2. ses.accepted = TRUE => ~Offered(rest, scr2, ses.room)
    BY <1>2, Zenon DEF OfferedOnce
  <2> QED
    BY <1>3, <1>4, <1>6, <2>1, <2>2, Zenon DEF OfferedOnce
<1>8. Head(line).is = "instant" /\ scr2.status # "match-found" =>
        Head(line).of <= rms /\ ~Offered(rest, scr2, Head(line).of)
  <2> SUFFICES ASSUME Head(line).is = "instant", scr2.status # "match-found"
               PROVE  Head(line).of <= rms /\ ~Offered(rest, scr2, Head(line).of)
    OBVIOUS
  <2>1. Head(line).is \in Offering /\ \A k \in 1 .. Len(rest) : rest[k].is = "found" => rest[k].is \in Offering
    BY DEF Offering
  <2>2. Head(line).of <= rms
    BY <1>1, <2>1, Zenon DEF OfferedOnce
  <2> QED
    BY <1>5, <2>1, <2>2, Zenon DEF Offered
<1> QED
  BY <1>7, <1>8 DEF rest

\* The server answers with messages that offer nothing, having read one more or not.
LEMMA FreshPlain ==
  ASSUME NEW line \in Seq(Note), NEW up, NEW up2, NEW scr, NEW ses, NEW ses2, NEW rms,
         OfferedOnce(line, up, scr, ses, rms), NEW notes \in Seq(Note),
         \A k \in 1 .. Len(notes) : notes[k].is \notin Offering,
         \A k \in 1 .. Len(up2) : \E l \in 1 .. Len(up) : up2[k] = up[l],
         ses2.accepted = TRUE =>
           \/ ses.accepted = TRUE /\ ses2.room = ses.room
           \/ \E k \in 1 .. Len(up) : up[k].is = "accept" /\ up[k].of = ses2.room
  PROVE  OfferedOnce(line \o notes, up2, scr, ses2, rms)
<1> DEFINE new == line \o notes
<1>1. \A k \in 1 .. Len(new) : \/ k \in 1 .. Len(line) /\ new[k] = line[k]
                              \/ new[k].is \notin Offering
  <2> SUFFICES ASSUME NEW k \in 1 .. Len(new), ~(k \in 1 .. Len(line) /\ new[k] = line[k])
               PROVE  new[k].is \notin Offering
    OBVIOUS
  <2>1. k - Len(line) \in 1 .. Len(notes) /\ new[k] = notes[k - Len(line)]
    OBVIOUS
  <2> QED
    BY <2>1, Zenon
<1> HIDE DEF new
<1>2. \A k \in 1 .. Len(new) : new[k].is = "found" \/ new[k].is \in Offering => k \in 1 .. Len(line) /\ new[k] = line[k]
  BY <1>1 DEF Offering
<1>3. \A r : Offered(new, scr, r) => Offered(line, scr, r)
  BY <1>2, Zenon DEF Offered
<1>4. \A k \in 1 .. Len(new) : new[k].is \in Offering => new[k].of <= rms
  BY <1>2, Zenon DEF OfferedOnce
<1>5. \A k, l \in 1 .. Len(new) :
        new[k].is \in Offering /\ new[l].is \in Offering /\ new[k].of = new[l].of => k = l
  BY <1>2, Zenon DEF OfferedOnce
<1>6. scr.status = "match-found" =>
        scr.room <= rms /\ \A k \in 1 .. Len(new) : new[k].is = "found" => new[k].of # scr.room
  BY <1>2, Zenon DEF OfferedOnce
<1>7. \A k \in 1 .. Len(up2) : up2[k].is = "accept" => up2[k].of <= rms /\ ~Offered(new, scr, up2[k].of)
  BY <1>3, Zenon DEF OfferedOnce
<1>8. ses2.accepted = TRUE => ~Offered(new, scr, ses2.room)
  BY <1>3, Zenon DEF OfferedOnce
<1>9. OfferedOnce(new, up2, scr, ses2, rms)
  BY <1>4, <1>5, <1>6, <1>7, <1>8, Zenon DEF OfferedOnce
<1> QED
  BY <1>9 DEF new

\* The server offers a room nobody has heard of.
LEMMA FreshRoom ==
  ASSUME NEW line \in Seq(Note), NEW up \in Seq(Note), NEW scr, scr.room \in Nat, NEW ses, NEW ses2, NEW rms \in Nat,
         OfferedOnce(line, up, scr, ses, rms), NEW m \in Note, m.is \in Offering, m.of = rms + 1,
         ses2.room = rms + 1, ses2.accepted = TRUE => m.is = "instant"
  PROVE  OfferedOnce(Append(line, m), up, scr, ses2, rms + 1)
<1> DEFINE new == Append(line, m)
<1>0. /\ Len(line) \in Nat /\ \A k \in 1 .. Len(line) : line[k] \in Note
      /\ \A k \in 1 .. Len(up) : up[k] \in Note
  OBVIOUS
<1>1. \A k \in 1 .. Len(new) : (k \in 1 .. Len(line) /\ new[k] = line[k]) \/ (k = Len(line) + 1 /\ new[k] = m)
  OBVIOUS
<1> HIDE DEF new
<1>2. \A i \in Note : i.of \in Nat
  BY DEF Note
<1>3. \A k \in 1 .. Len(line) : line[k].is \in Offering => line[k].of <= rms /\ line[k].of \in Nat
  BY <1>0, <1>2, Zenon DEF OfferedOnce
<1>4. \A k \in 1 .. Len(new) : new[k].is \in Offering => new[k].of <= rms + 1
  <2> TAKE k \in 1 .. Len(new)
  <2>1. CASE new[k] = m
    BY <2>1
  <2>2. CASE k \in 1 .. Len(line) /\ new[k] = line[k]
    BY <1>3, <2>2
  <2> QED
    BY <1>1, <2>1, <2>2
<1>5. \A k, l \in 1 .. Len(new) :
        new[k].is \in Offering /\ new[l].is \in Offering /\ new[k].of = new[l].of => k = l
  <2> SUFFICES ASSUME NEW k \in 1 .. Len(new), NEW l \in 1 .. Len(new), new[k].is \in Offering,
                      new[l].is \in Offering, new[k].of = new[l].of
               PROVE  k = l
    OBVIOUS
  <2>1. CASE k \in 1 .. Len(line) /\ new[k] = line[k] /\ l \in 1 .. Len(line) /\ new[l] = line[l]
    BY <2>1, Zenon DEF OfferedOnce
  <2>2. CASE k \in 1 .. Len(line) /\ new[k] = line[k] /\ new[l] = m
    BY <1>3, <2>2
  <2>3. CASE l \in 1 .. Len(line) /\ new[l] = line[l] /\ new[k] = m
    BY <1>3, <2>3
  <2> QED
    BY <1>1, <2>1, <2>2, <2>3
<1>6. scr.status = "match-found" =>
        scr.room <= rms + 1 /\ \A k \in 1 .. Len(new) : new[k].is = "found" => new[k].of # scr.room
  <2> SUFFICES ASSUME scr.status = "match-found"
               PROVE  scr.room <= rms + 1 /\ \A k \in 1 .. Len(new) : new[k].is = "found" => new[k].of # scr.room
    OBVIOUS
  <2>1. scr.room <= rms /\ \A k \in 1 .. Len(line) : line[k].is = "found" => line[k].of # scr.room
    BY DEF OfferedOnce
  <2> QED
    BY <1>1, <2>1
<1>7. ASSUME NEW r \in Nat, r <= rms, Offered(new, scr, r) PROVE Offered(line, scr, r)
  BY <1>1, <1>7 DEF Offered
<1>8. \A k \in 1 .. Len(up) : up[k].is = "accept" => up[k].of <= rms + 1 /\ ~Offered(new, scr, up[k].of)
  <2> SUFFICES ASSUME NEW k \in 1 .. Len(up), up[k].is = "accept"
               PROVE  up[k].of <= rms + 1 /\ ~Offered(new, scr, up[k].of)
    OBVIOUS
  <2>1. up[k].of <= rms /\ ~Offered(line, scr, up[k].of)
    BY DEF OfferedOnce
  <2>2. up[k].of \in Nat
    BY <1>0, <1>2
  <2>3. ~Offered(new, scr, up[k].of)
    BY <1>7, <2>1, <2>2, Zenon
  <2> QED
    BY <2>1, <2>2, <2>3
<1>9. ses2.accepted = TRUE => ~Offered(new, scr, ses2.room)
  <2> SUFFICES ASSUME m.is = "instant", Offered(new, scr, rms + 1) PROVE FALSE
    BY Zenon
  <2>1. CASE scr.status = "match-found" /\ scr.room = rms + 1
    <3>1. scr.room <= rms
      BY <2>1 DEF OfferedOnce
    <3> QED
      BY <2>1, <3>1
  <2>2. CASE \E k \in 1 .. Len(new) : new[k].is = "found" /\ new[k].of = rms + 1
    <3>1. PICK k \in 1 .. Len(new) : new[k].is = "found" /\ new[k].of = rms + 1
      BY <2>2
    <3>2. k \in 1 .. Len(line) /\ new[k] = line[k] /\ line[k].is \in Offering
      BY <1>1, <3>1 DEF Offering
    <3> QED
      BY <1>3, <3>1, <3>2
  <2> QED
    BY <2>1, <2>2 DEF Offered
<1>10. OfferedOnce(new, up, scr, ses2, rms + 1)
  BY <1>4, <1>5, <1>6, <1>8, <1>9, Zenon DEF OfferedOnce
<1> QED
  BY <1>10 DEF new

\* The messages of a section take the view of the session before to that of the one after.
LEMMA ToldOne ==
  ASSUME NEW line, NEW up, NEW up2, NEW scr, NEW ask, NEW ses, NEW ses2, NEW rms, NEW rms2, NEW cap, NEW cap2,
         Told(line, up, scr, ask, ses, rms, cap), NEW m \in Note,
         OfferedOnce(Append(line, m), up2, scr, ses2, rms2),
         \A w \in View : Knows(w, ses, cap) => \E x \in View : Moves(w, m, x) /\ Knows(x, ses2, cap2)
  PROVE  Told(Append(line, m), up2, scr, ask, ses2, rms2, cap2)
<1>1. PICK v, w : Follows(v, scr, ask, line, w, ses, cap)
  BY DEF Told
<1>2. PICK x \in View : Moves(w, m, x) /\ Knows(x, ses2, cap2)
  BY <1>1 DEF Follows
<1>3. Leads(v, Append(line, m), x)
  BY <1>1, <1>2, LeadsAppend DEF Follows
<1>4. Follows(v, scr, ask, Append(line, m), x, ses2, cap2)
  BY <1>1, <1>2, <1>3 DEF Follows
<1> QED
  BY <1>4, Zenon DEF Told

LEMMA ToldTwo ==
  ASSUME NEW line, NEW up, NEW up2, NEW scr, NEW ask, NEW ses, NEW ses2, NEW rms, NEW rms2, NEW cap, NEW cap2,
         Told(line, up, scr, ask, ses, rms, cap), NEW m \in Note, NEW n \in Note,
         OfferedOnce(Append(Append(line, m), n), up2, scr, ses2, rms2),
         \A w \in View : Knows(w, ses, cap) =>
           \E y \in View, x \in View : Moves(w, m, y) /\ Moves(y, n, x) /\ Knows(x, ses2, cap2)
  PROVE  Told(Append(Append(line, m), n), up2, scr, ask, ses2, rms2, cap2)
<1>1. PICK v, w : Follows(v, scr, ask, line, w, ses, cap)
  BY DEF Told
<1>2. PICK y \in View, x \in View : Moves(w, m, y) /\ Moves(y, n, x) /\ Knows(x, ses2, cap2)
  BY <1>1 DEF Follows
<1>3. Leads(v, Append(line, m), y)
  BY <1>1, <1>2, LeadsAppend DEF Follows
<1>4. Leads(v, Append(Append(line, m), n), x)
  BY <1>2, <1>3, LeadsAppend
<1>5. Follows(v, scr, ask, Append(Append(line, m), n), x, ses2, cap2)
  BY <1>1, <1>2, <1>4 DEF Follows
<1> QED
  BY <1>5, Zenon DEF Told

\* What is emitted is last of all that is under way, unless it overtakes.
LEMMA Emitted ==
  ASSUME SignalingTypeOK, NEW notes \in Seq(Note), Emit(notes) \/ EmitHere(notes), overtaken' = FALSE
  PROVE  overtaken = FALSE /\ downward' \o bus' = (downward \o bus) \o notes
<1>1. downward \in Seq(Note) /\ bus \in Seq(Note)
  BY DEF SignalingTypeOK
<1>0. overtaken \in BOOLEAN
  BY Zenon DEF SignalingTypeOK
<1>2. CASE EmitHere(notes)
  <2>1. overtaken = FALSE /\ bus = <<>>
    BY <1>0, <1>2, Zenon DEF EmitHere
  <2>2. downward' = downward \o notes /\ bus' = <<>>
    BY <1>2, <2>1 DEF EmitHere
  <2>3. downward \o <<>> = downward /\ (downward \o notes) \o <<>> = downward \o notes
    BY <1>1
  <2> QED
    BY <2>1, <2>2, <2>3
<1>3. CASE bus' = bus \o notes /\ UNCHANGED <<downward, overtaken>>
  <2>1. downward \o (bus \o notes) = (downward \o bus) \o notes
    BY <1>1
  <2> QED
    BY <1>3, <2>1
<1> QED
  BY <1>2, <1>3 DEF Emit

LEMMA NoteFields ==
  /\ \A is, of : N(is, of).is = is /\ N(is, of).of = of
  /\ \A is \in {"hello", "accept", "decline", "skip", "ok", "refused", "banned", "waiting", "found",
                "instant", "start", "ended", "accept-timeout", "replaced", "expired"}, of \in Nat :
       N(is, of) \in Note
BY DEF N, Note

\* The messages of hello, by the state of the session.
LEMMA HelloMoves ==
  ASSUME NEW ses, NEW cap, NEW w \in View, Knows(w, ses, cap), NEW m \in Note, NEW n \in Note
  PROVE  /\ ses.state \in {"none", "idle", "waiting"} /\ m.is = "ok" /\ n.is = "waiting" =>
              \E y \in View, x \in View : Moves(w, m, y) /\ Moves(y, n, x) /\ Knows(x, Queued, FALSE)
         /\ ses.state \in {"pending", "starting", "active"} /\ m.is = "ok" => Moves(w, m, w)
         /\ ses.state \in {"none", "idle"} /\ m.is = "refused" =>
              \E x \in View : Moves(w, m, x) /\ Knows(x, ses, cap)
<1>0. w.is \in {"none", "acked", "idle", "waiting", "left", "found", "instant", "active", "gone"}
  BY DEF View
<1>1. ASSUME ses.state \in {"none", "idle", "waiting"}, m.is = "ok", n.is = "waiting"
      PROVE  \E y \in View, x \in View : Moves(w, m, y) /\ Moves(y, n, x) /\ Knows(x, Queued, FALSE)
  <2>1. CASE w.is = "gone"
    <3>1. Moves(w, m, w) /\ Moves(w, n, w)
      BY <2>1 DEF Moves
    <3>2. Knows(w, Queued, FALSE)
      BY <2>1 DEF Knows, Queued, NoSession, Offering
    <3> QED
      BY <3>1, <3>2
  <2>2. CASE w.is # "gone"
    <3> DEFINE y == ViewOf("acked", 0)
               x == ViewOf("waiting", 0)
    <3>1. y \in View /\ x \in View /\ y.is = "acked" /\ x.is = "waiting"
      BY DEF View, ViewOf
    <3> HIDE DEF x, y
    <3>3. Moves(w, m, y)
      BY <1>1, <3>1 DEF Moves
    <3>4. Moves(y, n, x)
      BY <1>1, <3>1 DEF Moves
    <3>5. Knows(x, Queued, FALSE)
      BY <3>1 DEF Knows, Queued, NoSession, Offering
    <3> QED
      BY <3>1, <3>3, <3>4, <3>5
  <2> QED
    BY <2>1, <2>2
<1>2. ASSUME ses.state \in {"pending", "starting", "active"}, m.is = "ok" PROVE Moves(w, m, w)
  <2>1. w.is \in InCall \cup {"gone"}
    BY <1>0, <1>2 DEF Knows, Offering, InCall
  <2> QED
    BY <1>2, <2>1 DEF Moves, InCall
<1>3. ASSUME ses.state \in {"none", "idle"}, m.is = "refused"
      PROVE  \E x \in View : Moves(w, m, x) /\ Knows(x, ses, cap)
  <2>1. CASE cap = TRUE
    <3> DEFINE x == ViewOf("acked", 0)
    <3>1. x \in View /\ x.is = "acked"
      BY DEF View, ViewOf
    <3> HIDE DEF x
    <3>2. Moves(w, m, x) /\ Knows(x, ses, cap)
      BY <1>3, <2>1, <3>1 DEF Moves, Knows
    <3> QED
      BY <3>1, <3>2
  <2>2. CASE cap # TRUE
    <3>1. w.is \in {"none", "idle", "gone"}
      BY <1>0, <1>3, <2>2 DEF Knows, Offering
    <3>2. Moves(w, m, w)
      BY <1>3, <3>1 DEF Moves
    <3> QED
      BY <3>2
  <2> QED
    BY <2>1, <2>2
<1> QED
  BY <1>1, <1>2, <1>3

\* Banned, or replaced: whatever the tab reads next.
LEMMA GoneMoves ==
  ASSUME NEW w \in View, NEW m \in Note, m.is \in Terminal, NEW ses, NEW cap
  PROVE  \E x \in View : Moves(w, m, x) /\ Knows(x, ses, cap)
<1> DEFINE x == ViewOf("gone", 0)
<1>1. x \in View /\ x.is = "gone"
  BY DEF View, ViewOf
<1> HIDE DEF x
<1>2. Moves(w, m, x)
  BY <1>1 DEF Moves
<1>3. Knows(x, ses, cap)
  BY <1>1 DEF Knows, Offering
<1> QED
  BY <1>1, <1>2, <1>3

Paired == {"pending", "starting"}
Roomed == {"pending", "starting", "active"}

LEMMA EndedMoves ==
  ASSUME NEW ses, ses.state \in Roomed, NEW cap, NEW w \in View, Knows(w, ses, cap),
         NEW m \in Note, m.is = "ended", m.of = ses.room, NEW n \in Note, n.is = "waiting"
  PROVE  /\ \E x \in View : Moves(w, m, x) /\ Knows(x, Idle, TRUE)
         /\ \E y \in View, x \in View : Moves(w, m, y) /\ Moves(y, n, x) /\ Knows(x, Queued, cap)
<1>0. /\ w.is \in {"none", "acked", "idle", "waiting", "left", "found", "instant", "active", "gone"}
      /\ Queued.state = "waiting" /\ Queued.room = 0 /\ Idle.state = "idle" /\ Idle.room = 0
  BY DEF View, Queued, Idle, NoSession
<1>1. CASE w.is = "gone"
  <2>1. Moves(w, m, w) /\ Moves(w, n, w)
    BY <1>1 DEF Moves
  <2>2. Knows(w, Queued, cap) /\ Knows(w, Idle, TRUE)
    BY <1>0, <1>1 DEF Knows, Offering
  <2> QED
    BY <2>1, <2>2
<1>2. CASE w.is # "gone"
  <2> DEFINE y == ViewOf("left", 0)
             x == ViewOf("waiting", 0)
  <2>1. y \in View /\ x \in View /\ y.is = "left" /\ x.is = "waiting"
    BY DEF View, ViewOf
  <2> HIDE DEF x, y
  <2>2. w.is \in InCall /\ w.of = ses.room
    BY <1>0, <1>2 DEF Knows, Offering, InCall, Roomed
  <2>3. Moves(w, m, y)
    BY <2>1, <2>2 DEF Moves
  <2>4. Moves(y, n, x)
    BY <2>1 DEF Moves
  <2>5. Knows(x, Queued, cap) /\ Knows(y, Idle, TRUE)
    BY <1>0, <2>1 DEF Knows, Offering
  <2> QED
    BY <2>1, <2>3, <2>4, <2>5
<1> QED
  BY <1>1, <1>2

LEMMA TimeoutMoves ==
  ASSUME NEW ses, ses.state = "pending", ses.accepted = FALSE, NEW cap, NEW w \in View, Knows(w, ses, cap),
         NEW m \in Note, m.is = "accept-timeout", m.of = ses.room
  PROVE  \E x \in View : Moves(w, m, x) /\ Knows(x, Idle, cap)
<1>0. /\ w.is \in {"none", "acked", "idle", "waiting", "left", "found", "instant", "active", "gone"}
      /\ Idle.state = "idle" /\ Idle.room = 0
  BY DEF View, Idle, NoSession
<1>1. CASE w.is = "gone"
  <2>1. Moves(w, m, w)
    BY <1>1 DEF Moves
  <2>2. Knows(w, Idle, cap)
    BY <1>0, <1>1 DEF Knows, Offering
  <2> QED
    BY <2>1, <2>2
<1>2. CASE w.is # "gone"
  <2> DEFINE x == ViewOf("idle", 0)
  <2>1. x \in View /\ x.is = "idle"
    BY DEF View, ViewOf
  <2> HIDE DEF x
  <2>2. w.is = "found" /\ w.of = ses.room
    BY <1>0, <1>2 DEF Knows, Offering
  <2>3. Moves(w, m, x)
    BY <2>1, <2>2 DEF Moves
  <2>4. Knows(x, Idle, cap)
    BY <1>0, <2>1 DEF Knows, Offering
  <2> QED
    BY <2>1, <2>3, <2>4
<1> QED
  BY <1>1, <1>2

LEMMA StartMoves ==
  ASSUME NEW ses, ses.state = "starting", NEW ses2, ses2.state = "active", ses2.room = ses.room, ses.room \in Nat,
         NEW cap, NEW w \in View, Knows(w, ses, cap), NEW m \in Note, m.is = "start", m.of = ses.room
  PROVE  \E x \in View : Moves(w, m, x) /\ Knows(x, ses2, cap)
<1>0. w.is \in {"none", "acked", "idle", "waiting", "left", "found", "instant", "active", "gone"}
  BY DEF View
<1>1. CASE w.is = "gone"
  <2>1. Moves(w, m, w) /\ Knows(w, ses2, cap)
    BY <1>1 DEF Moves, Knows, Offering
  <2> QED
    BY <2>1
<1>2. CASE w.is # "gone"
  <2> DEFINE x == ViewOf("active", ses.room)
  <2>1. x \in View /\ x.is = "active" /\ x.of = ses.room
    BY DEF View, ViewOf
  <2> HIDE DEF x
  <2>2. w.is \in Offering /\ w.of = ses.room
    BY <1>0, <1>2 DEF Knows, Offering
  <2>3. Moves(w, m, x)
    BY <2>1, <2>2 DEF Moves
  <2>4. Knows(x, ses2, cap)
    BY <2>1 DEF Knows, Offering
  <2> QED
    BY <2>1, <2>3, <2>4
<1> QED
  BY <1>1, <1>2

LEMMA MatchMoves ==
  ASSUME NEW ses, ses.state = "waiting", NEW ses2, ses2.state \in Paired, NEW cap,
         NEW w \in View, Knows(w, ses, cap), NEW m \in Note, m.is \in Offering, ses2.room = m.of,
         m.is = "instant" \/ ses2.state = "starting" => ses2.accepted = TRUE
  PROVE  \E x \in View : Moves(w, m, x) /\ Knows(x, ses2, cap)
<1>0. w.is \in {"none", "acked", "idle", "waiting", "left", "found", "instant", "active", "gone"} /\ m.of \in Nat
  BY DEF View, Note
<1>1. CASE w.is = "gone"
  <2>1. Moves(w, m, w) /\ Knows(w, ses2, cap)
    BY <1>1 DEF Moves, Knows, Offering, Paired
  <2> QED
    BY <2>1
<1>2. CASE w.is # "gone"
  <2> DEFINE x == ViewOf(m.is, m.of)
  <2>1. x \in View /\ x.is = m.is /\ x.of = m.of
    BY <1>0 DEF View, ViewOf, Offering
  <2> HIDE DEF x
  <2>2. w.is = "waiting"
    BY <1>0, <1>2 DEF Knows, Offering, Paired
  <2>3. Moves(w, m, x)
    BY <2>1, <2>2 DEF Moves
  <2>4. Knows(x, ses2, cap)
    BY <2>1 DEF Knows, Offering, Paired
  <2> QED
    BY <2>1, <2>3, <2>4
<1> QED
  BY <1>1, <1>2

LEMMA ToldStill ==
  ASSUME NEW line, NEW up, NEW up2, NEW scr, NEW ask, NEW ses, NEW ses2, NEW rms, NEW cap, NEW cap2,
         Told(line, up, scr, ask, ses, rms, cap), OfferedOnce(line, up2, scr, ses2, rms),
         \A w \in View : Knows(w, ses, cap) => Knows(w, ses2, cap2)
  PROVE  Told(line, up2, scr, ask, ses2, rms, cap2)
<1>1. PICK v, w : Follows(v, scr, ask, line, w, ses, cap)
  BY DEF Told
<1>2. Follows(v, scr, ask, line, w, ses2, cap2)
  BY <1>1 DEF Follows
<1> QED
  BY <1>2, Zenon DEF Told

Section == \/ AdapterDelivers \/ hello \/ createRoomLocked \/ acceptLocked \/ partnerAccepts \/ startCall
           \/ leaveRoom \/ endRoomLocked \/ acceptTimeout \/ relaxTickLocked \/ replaceLocked \/ sessionExpiry
           \/ sessionRestricted \/ reapDeadInstancesLocked

\* Nothing happens to a socket that is not connected.
LEMMA SectionQuiet ==
  ASSUME SignalingTypeOK, Telling, Section
  PROVE  link = "up" /\ UNCHANGED Client /\ QuietLine' /\ OverForGood'
<1>1. UNCHANGED Client
  BY DEF Section, AdapterDelivers, hello, createRoomLocked, acceptLocked, partnerAccepts, startCall,
     leaveRoom, endRoomLocked, acceptTimeout, relaxTickLocked, replaceLocked, sessionExpiry,
     sessionRestricted, reapDeadInstancesLocked
<1>2. link = "up"
  <2> SUFFICES ASSUME link # "up" PROVE FALSE
    OBVIOUS
  <2>1. /\ upward = <<>> /\ bus = <<>> /\ session.state = "none"
    BY DEF Telling, QuietLine, Wires, NoSession
  <2> QED
    BY <2>1 DEF Section, AdapterDelivers, hello, createRoomLocked, acceptLocked, partnerAccepts, startCall,
     leaveRoom, endRoomLocked, acceptTimeout, relaxTickLocked, replaceLocked, sessionExpiry,
     sessionRestricted, reapDeadInstancesLocked, InRoom
<1> QED
  BY <1>1, <1>2 DEF Telling, QuietLine, OverForGood, Client, Comeback

\* The line as it was, and what the sections append to it.
LEMMA LineTypes ==
  ASSUME SignalingTypeOK
  PROVE  /\ downward \o bus \in Seq(Note) /\ upward \in Seq(Note) /\ session.room \in Nat /\ screen.room \in Nat
         /\ rooms \in Nat /\ connectionSeq \in Nat
         /\ \A m, n \in Note : /\ (downward \o bus) \o <<m>> = Append(downward \o bus, m)
                               /\ (downward \o bus) \o <<m, n>> = Append(Append(downward \o bus, m), n)
         /\ upward # <<>> => /\ Head(upward) \in Note /\ Head(upward).of \in Nat /\ Tail(upward) \in Seq(Note)
                             /\ 1 \in 1 .. Len(upward) /\ Head(upward) = upward[1]
                             /\ \A k \in 1 .. Len(Tail(upward)) : \E l \in 1 .. Len(upward) : Tail(upward)[k] = upward[l]
<1>1. downward \in Seq(Note) /\ bus \in Seq(Note) /\ upward \in Seq(Note) /\ session.room \in Nat
      /\ screen.room \in Nat /\ rooms \in Nat /\ connectionSeq \in Nat
  BY DEF SignalingTypeOK
<1> DEFINE line == downward \o bus
<1>2. line \in Seq(Note)
  BY <1>1
<1> HIDE DEF line
<1>3. \A m, n \in Note : line \o <<m>> = Append(line, m) /\ line \o <<m, n>> = Append(Append(line, m), n)
  BY <1>2
<1>4. ASSUME upward # <<>>
      PROVE /\ Head(upward) \in Note /\ Tail(upward) \in Seq(Note)
            /\ 1 \in 1 .. Len(upward) /\ Head(upward) = upward[1]
            /\ \A k \in 1 .. Len(Tail(upward)) : k + 1 \in 1 .. Len(upward) /\ Tail(upward)[k] = upward[k + 1]
  BY <1>1, <1>4
<1>5. \A m \in Note : m.of \in Nat
  BY DEF Note
<1> QED
  BY <1>1, <1>2, <1>3, <1>4, <1>5 DEF line

\* A section that emits one message, or two, of no room to accept.
LEMMA SectionOne ==
  ASSUME SignalingTypeOK, Telling, link = "up", NEW m \in Note, m.is \notin Offering,
         Emit(<<m>>) \/ EmitHere(<<m>>), UNCHANGED <<screen, asked, rooms>>,
         \A k \in 1 .. Len(upward') : \E l \in 1 .. Len(upward) : upward'[k] = upward[l],
         session'.accepted = TRUE => session.accepted = TRUE /\ session'.room = session.room,
         \A w \in View : Knows(w, session, untold) => \E x \in View : Moves(w, m, x) /\ Knows(x, session', untold')
  PROVE  InStep'
<1> SUFFICES ASSUME overtaken' = FALSE
             PROVE  Told((downward \o bus)', upward', screen', asked', session', rooms', untold')
  BY DEF InStep
<1> DEFINE line == downward \o bus
<1>1. <<m>> \in Seq(Note) /\ \A k \in 1 .. Len(<<m>>) : <<m>>[k].is \notin Offering
  OBVIOUS
<1>2. overtaken = FALSE /\ (downward \o bus)' = line \o <<m>>
  BY <1>1, Emitted
<1>3. line \in Seq(Note) /\ line \o <<m>> = Append(line, m)
  BY LineTypes
<1>4. Told(line, upward, screen, asked, session, rooms, untold)
  BY <1>2, Zenon DEF Telling, InStep
<1> HIDE DEF line
<1>5. OfferedOnce(line, upward, screen, session, rooms)
  BY <1>4, Zenon DEF Told
<1>6. OfferedOnce(line \o <<m>>, upward', screen, session', rooms)
  BY <1>1, <1>3, <1>5, FreshPlain
<1>7. Told(Append(line, m), upward', screen, asked, session', rooms, untold')
  BY <1>3, <1>4, <1>6, ToldOne
<1> QED
  BY <1>2, <1>3, <1>7

LEMMA SectionTwo ==
  ASSUME SignalingTypeOK, Telling, link = "up", NEW m \in Note, m.is \notin Offering, NEW n \in Note, n.is \notin Offering,
         Emit(<<m, n>>) \/ EmitHere(<<m, n>>), UNCHANGED <<screen, asked, rooms>>,
         \A k \in 1 .. Len(upward') : \E l \in 1 .. Len(upward) : upward'[k] = upward[l],
         session'.accepted = TRUE => session.accepted = TRUE /\ session'.room = session.room,
         \A w \in View : Knows(w, session, untold) =>
           \E y \in View, x \in View : Moves(w, m, y) /\ Moves(y, n, x) /\ Knows(x, session', untold')
  PROVE  InStep'
<1> SUFFICES ASSUME overtaken' = FALSE
             PROVE  Told((downward \o bus)', upward', screen', asked', session', rooms', untold')
  BY DEF InStep
<1> DEFINE line == downward \o bus
<1>1. <<m, n>> \in Seq(Note) /\ \A k \in 1 .. Len(<<m, n>>) : <<m, n>>[k].is \notin Offering
  OBVIOUS
<1>2. overtaken = FALSE /\ (downward \o bus)' = line \o <<m, n>>
  BY <1>1, Emitted
<1>3. line \in Seq(Note) /\ line \o <<m, n>> = Append(Append(line, m), n)
  BY LineTypes
<1>4. Told(line, upward, screen, asked, session, rooms, untold)
  BY <1>2, Zenon DEF Telling, InStep
<1> HIDE DEF line
<1>5. OfferedOnce(line, upward, screen, session, rooms)
  BY <1>4, Zenon DEF Told
<1>6. OfferedOnce(line \o <<m, n>>, upward', screen, session', rooms)
  BY <1>1, <1>3, <1>5, FreshPlain
<1>7. Told(Append(Append(line, m), n), upward', screen, asked, session', rooms, untold')
  BY <1>3, <1>4, <1>6, ToldTwo
<1> QED
  BY <1>2, <1>3, <1>7

\* A section, or the adapter, that emits nothing.
LEMMA SectionSilent ==
  ASSUME SignalingTypeOK, Telling, link = "up", (downward \o bus)' = downward \o bus,
         UNCHANGED <<screen, asked, rooms, overtaken>>,
         \A k \in 1 .. Len(upward') : \E l \in 1 .. Len(upward) : upward'[k] = upward[l],
         session'.accepted = TRUE =>
           \/ session.accepted = TRUE /\ session'.room = session.room
           \/ \E k \in 1 .. Len(upward) : upward[k].is = "accept" /\ upward[k].of = session'.room,
         \A w \in View : Knows(w, session, untold) => Knows(w, session', untold')
  PROVE  InStep'
<1> SUFFICES ASSUME overtaken' = FALSE
             PROVE  Told((downward \o bus)', upward', screen', asked', session', rooms', untold')
  BY DEF InStep
<1> DEFINE line == downward \o bus
<1>3. line \in Seq(Note) /\ <<>> \in Seq(Note) /\ \A k \in 1 .. Len(<<>>) : <<>>[k].is \notin Offering
  BY LineTypes
<1>4. Told(line, upward, screen, asked, session, rooms, untold)
  BY Zenon DEF Telling, InStep
<1> HIDE DEF line
<1>5. OfferedOnce(line, upward, screen, session, rooms)
  BY <1>4, Zenon DEF Told
<1>6. OfferedOnce(line \o <<>>, upward', screen, session', rooms)
  BY <1>3, <1>5, FreshPlain
<1>7. OfferedOnce(line, upward', screen, session', rooms)
  <2>1. line \o <<>> = line
    BY <1>3
  <2> QED
    BY <1>6, <2>1
<1>8. Told(line, upward', screen, asked, session', rooms, untold')
  BY <1>4, <1>7, ToldStill
<1> QED
  BY <1>8 DEF line

LEMMA SectionHello ==
  ASSUME SignalingTypeOK, Telling, link = "up", hello
  PROVE  InStep'
<1> DEFINE ack(is) == N(is, Head(upward).of)
           wait == N("waiting", 0)
<1>1. /\ upward # <<>> /\ upward' = Tail(upward) /\ UNCHANGED <<screen, asked, rooms>>
      /\ \A k \in 1 .. Len(upward') : \E l \in 1 .. Len(upward) : upward'[k] = upward[l]
      /\ Head(upward).of \in Nat
  BY LineTypes DEF hello, Client
<1>2. \A is \in {"ok", "refused", "banned"} : ack(is) \in Note /\ ack(is).is = is /\ is \notin Offering
  BY <1>1, NoteFields DEF Offering
<1>3. wait \in Note /\ wait.is = "waiting" /\ wait.is \notin Offering
  BY NoteFields DEF Offering
<1>4. session.state \in {"none", "idle", "waiting", "pending", "starting", "active"}
  BY DEF SignalingTypeOK
<1>5. N("banned", 0) \in Note /\ N("banned", 0).is = "banned" /\ "banned" \notin Offering
  BY NoteFields DEF Offering
<1> HIDE DEF ack, wait
<1>6. CASE /\ session.state \in {"none", "idle", "waiting"}
           /\ session' = Queued /\ untold' = FALSE
           /\ EmitHere(<<ack("ok"), wait>>)
  <2>1. session'.accepted # TRUE
    BY <1>6 DEF Queued, NoSession
  <2>2. \A w \in View : Knows(w, session, untold) =>
          \E y \in View, x \in View : Moves(w, ack("ok"), y) /\ Moves(y, wait, x) /\ Knows(x, session', untold')
    <3>1. ack("ok") \in Note /\ ack("ok").is = "ok"
      BY <1>2
    <3>2. ASSUME NEW w \in View, Knows(w, session, untold)
          PROVE  \E y \in View, x \in View : Moves(w, ack("ok"), y) /\ Moves(y, wait, x) /\ Knows(x, Queued, FALSE)
      BY <1>3, <1>6, <3>1, <3>2, HelloMoves
    <3> QED
      BY <1>6, <3>2
  <2> QED
    BY <1>1, <1>2, <1>3, <1>6, <2>1, <2>2, SectionTwo
<1>7. CASE /\ session.state \notin {"none", "idle", "waiting"}
           /\ EmitHere(<<ack("ok")>>) /\ UNCHANGED <<session, untold>>
  <2>1. \A w \in View : Knows(w, session, untold) =>
          \E x \in View : Moves(w, ack("ok"), x) /\ Knows(x, session', untold')
    BY <1>2, <1>3, <1>4, <1>7, HelloMoves
  <2> QED
    BY <1>1, <1>2, <1>7, <2>1, SectionOne
<1>8. CASE /\ session.state \in {"none", "idle"}
           /\ EmitHere(<<ack("refused")>>) /\ UNCHANGED <<session, untold>>
  <2>1. \A w \in View : Knows(w, session, untold) =>
          \E x \in View : Moves(w, ack("refused"), x) /\ Knows(x, session', untold')
    BY <1>2, <1>3, <1>8, HelloMoves
  <2> QED
    BY <1>1, <1>2, <1>8, <2>1, SectionOne
<1>9. CASE EmitHere(<<N("banned", 0)>>) /\ UNCHANGED <<session, untold>>
  <2>1. \A w \in View : Knows(w, session, untold) =>
          \E x \in View : Moves(w, N("banned", 0), x) /\ Knows(x, session', untold')
    BY <1>5, GoneMoves DEF Terminal
  <2> QED
    BY <1>1, <1>5, <1>9, <2>1, SectionOne
<1> QED
  BY <1>6, <1>7, <1>8, <1>9 DEF hello, ack, wait

LEMMA SectionMatch ==
  ASSUME SignalingTypeOK, Telling, link = "up", createRoomLocked
  PROVE  InStep'
<1> SUFFICES ASSUME overtaken' = FALSE
             PROVE  Told((downward \o bus)', upward', screen', asked', session', rooms', untold')
  BY DEF InStep
<1>1. /\ session.state = "waiting" /\ rooms' = rooms + 1 /\ UNCHANGED <<screen, asked, upward, untold>>
      /\ rooms \in Nat
  BY LineTypes DEF createRoomLocked, Client
<1>2. PICK mine \in BOOLEAN, both \in BOOLEAN :
        /\ both => mine
        /\ session' = [state |-> IF both THEN "starting" ELSE "pending", room |-> rooms', accepted |-> mine]
        /\ Emit(<<N(IF mine THEN "instant" ELSE "found", rooms')>>)
  BY DEF createRoomLocked
<1> DEFINE m == N(IF mine THEN "instant" ELSE "found", rooms')
<1>3. /\ m \in Note /\ m.is \in Offering /\ m.of = rooms + 1 /\ <<m>> \in Seq(Note)
      /\ mine = TRUE => m.is = "instant"
      /\ m.is = "instant" => mine = TRUE
  BY <1>1, NoteFields DEF Offering
<1>4. Emit(<<m>>)
  BY <1>2
<1> HIDE DEF m
<1>5. /\ session'.room = rooms + 1 /\ session'.state \in {"pending", "starting"}
      /\ session'.accepted = mine
      /\ session'.state = "starting" => mine = TRUE
  BY <1>1, <1>2
<1> DEFINE line == downward \o bus
<1>6. overtaken = FALSE /\ (downward \o bus)' = line \o <<m>>
  BY <1>3, <1>4, Emitted
<1>7. /\ line \in Seq(Note) /\ line \o <<m>> = Append(line, m) /\ upward \in Seq(Note)
      /\ screen.room \in Nat
  BY <1>3, LineTypes
<1>8. Told(line, upward, screen, asked, session, rooms, untold)
  BY <1>6, Zenon DEF Telling, InStep
<1> HIDE DEF line
<1>9. OfferedOnce(line, upward, screen, session, rooms)
  BY <1>8, Zenon DEF Told
<1>10. OfferedOnce(Append(line, m), upward, screen, session', rooms + 1)
  BY <1>1, <1>3, <1>5, <1>7, <1>9, FreshRoom
<1>11. \A w \in View : Knows(w, session, untold) => \E x \in View : Moves(w, m, x) /\ Knows(x, session', untold)
  <2> TAKE w \in View
  <2> HAVE Knows(w, session, untold)
  <2>1. /\ session'.room = m.of /\ session'.state \in Paired
        /\ m.is = "instant" \/ session'.state = "starting" => session'.accepted = TRUE
    BY <1>3, <1>5 DEF Paired
  <2> QED
    BY <1>1, <1>3, <2>1, MatchMoves
<1>12. Told(Append(line, m), upward, screen, asked, session', rooms + 1, untold)
  BY <1>3, <1>8, <1>10, <1>11, ToldOne
<1> QED
  BY <1>1, <1>6, <1>7, <1>12

LEMMA SectionEnded ==
  ASSUME SignalingTypeOK, Telling, link = "up", InRoom, Ended, UNCHANGED <<screen, asked, rooms>>,
         \A k \in 1 .. Len(upward') : \E l \in 1 .. Len(upward) : upward'[k] = upward[l]
  PROVE  InStep'
<1> DEFINE m == N("ended", session.room)
           n == N("waiting", 0)
<1>1. /\ m \in Note /\ m.is = "ended" /\ m.of = session.room /\ m.is \notin Offering
      /\ n \in Note /\ n.is = "waiting" /\ n.is \notin Offering
  BY LineTypes, NoteFields DEF Offering
<1>2. session.state \in Roomed
  BY DEF InRoom, Roomed
<1>3. Queued.accepted # TRUE /\ Idle.accepted # TRUE
  BY DEF Queued, Idle, NoSession
<1> HIDE DEF m, n
<1>4. CASE session' = Queued /\ Emit(<<m, n>>) /\ UNCHANGED untold
  <2>1. \A w \in View : Knows(w, session, untold) =>
          \E y \in View, x \in View : Moves(w, m, y) /\ Moves(y, n, x) /\ Knows(x, session', untold')
    <3>1. ASSUME NEW w \in View, Knows(w, session, untold)
          PROVE  \E y \in View, x \in View : Moves(w, m, y) /\ Moves(y, n, x) /\ Knows(x, Queued, untold)
      BY <1>1, <1>2, <3>1, EndedMoves
    <3> QED
      BY <1>4, <3>1
  <2> QED
    BY <1>1, <1>3, <1>4, <2>1, SectionTwo
<1>5. CASE session' = Idle /\ untold' = TRUE /\ Emit(<<m>>)
  <2>1. \A w \in View : Knows(w, session, untold) => \E x \in View : Moves(w, m, x) /\ Knows(x, session', untold')
    <3>1. ASSUME NEW w \in View, Knows(w, session, untold)
          PROVE  \E x \in View : Moves(w, m, x) /\ Knows(x, Idle, TRUE)
      BY <1>1, <1>2, <3>1, EndedMoves
    <3> QED
      BY <1>5, <3>1
  <2> QED
    BY <1>1, <1>3, <1>5, <2>1, SectionOne
<1> QED
  BY <1>4, <1>5 DEF Ended, m, n

LEMMA SectionAccept ==
  ASSUME SignalingTypeOK, Telling, link = "up", acceptLocked \/ partnerAccepts \/ AdapterDelivers
  PROVE  InStep'
<1>0. /\ session.accepted \in BOOLEAN
      /\ session.state \in {"none", "idle", "waiting", "pending", "starting", "active"}
      /\ downward \in Seq(Note) /\ bus \in Seq(Note)
  BY DEF SignalingTypeOK
<1>1. ASSUME NEW ses2, session.state = "pending", ses2.state \in {"pending", "starting"},
             ses2.room = session.room, ses2.accepted = TRUE
      PROVE  \A w \in View : Knows(w, session, untold) => Knows(w, ses2, untold)
  BY <1>1 DEF Knows, Offering
<1>2. CASE acceptLocked
  <2>1. /\ upward # <<>> /\ Head(upward).is = "accept" /\ upward' = Tail(upward)
        /\ UNCHANGED <<screen, asked, rooms, untold, overtaken, downward, bus>>
        /\ \A k \in 1 .. Len(upward') : \E l \in 1 .. Len(upward) : upward'[k] = upward[l]
        /\ 1 \in 1 .. Len(upward) /\ upward[1] = Head(upward)
    BY <1>2, LineTypes DEF acceptLocked, Client
  <2>2. CASE UNCHANGED session
    BY <2>1, <2>2, SectionSilent
  <2>3. CASE /\ session.state = "pending" /\ session.room = Head(upward).of
             /\ \E both \in BOOLEAN :
                  session' = [session EXCEPT !.accepted = TRUE, !.state = IF both THEN "starting" ELSE @]
    <3>1. session'.state \in {"pending", "starting"} /\ session'.room = session.room /\ session'.accepted = TRUE
      BY <2>3 DEF SignalingTypeOK
    <3>2. \A w \in View : Knows(w, session, untold) => Knows(w, session', untold)
      BY <1>1, <2>3, <3>1
    <3>3. \E k \in 1 .. Len(upward) : upward[k].is = "accept" /\ upward[k].of = session'.room
      BY <2>1, <2>3, <3>1
    <3> QED
      BY <2>1, <3>2, <3>3, SectionSilent
  <2> QED
    BY <1>2, <2>2, <2>3 DEF acceptLocked
<1>3. CASE partnerAccepts
  <2>1. /\ session.state = "pending" /\ session.accepted
        /\ session' = [session EXCEPT !.state = "starting"]
        /\ UNCHANGED <<screen, asked, rooms, untold, overtaken, downward, bus, upward>>
    BY <1>3 DEF partnerAccepts, Client, Wires
  <2>2. session.accepted = TRUE
    BY <1>0, <2>1, Zenon
  <2>3. session'.state = "starting" /\ session'.room = session.room /\ session'.accepted = TRUE
    BY <2>1, <2>2 DEF SignalingTypeOK
  <2>4. \A w \in View : Knows(w, session, untold) => Knows(w, session', untold)
    BY <1>1, <2>1, <2>3
  <2> QED
    BY <2>1, <2>2, <2>3, <2>4, SectionSilent
<1>4. CASE AdapterDelivers
  <2>1. /\ UNCHANGED <<screen, asked, rooms, untold, overtaken, session, upward>>
        /\ bus # <<>> /\ bus' = Tail(bus) /\ downward' = Append(downward, Head(bus))
    BY <1>4 DEF AdapterDelivers, Client, Matcher
  <2>2. Append(downward, Head(bus)) \o Tail(bus) = downward \o bus
    BY <1>0, <2>1
  <2> QED
    BY <2>1, <2>2, SectionSilent
<1> QED
  BY <1>2, <1>3, <1>4

LEMMA SectionTells ==
  ASSUME SignalingTypeOK, Telling, Section
  PROVE  Telling'
<1>1. link = "up" /\ UNCHANGED Client /\ QuietLine' /\ OverForGood'
  BY SectionQuiet
<1>2. UNCHANGED <<screen, asked>>
  BY <1>1 DEF Client
<1>3. \A k \in 1 .. Len(upward) : \E l \in 1 .. Len(upward) : upward[k] = upward[l]
  OBVIOUS
<1>4. /\ session.accepted \in BOOLEAN /\ session.room \in Nat
      /\ session.state \in {"none", "idle", "waiting", "pending", "starting", "active"}
  BY DEF SignalingTypeOK
<1>5. \A is \in {"start", "accept-timeout", "waiting", "replaced", "expired"}, of \in Nat :
        N(is, of) \in Note /\ N(is, of).is = is /\ N(is, of).of = of /\ is \notin Offering
  BY NoteFields DEF Offering
<1> SUFFICES InStep'
  BY <1>1 DEF Telling
<1>6. CASE startCall
  <2>1. /\ session.state = "starting" /\ session' = [session EXCEPT !.state = "active"]
        /\ Emit(<<N("start", session.room)>>) /\ UNCHANGED <<upward, rooms, untold>>
    BY <1>6 DEF startCall
  <2> DEFINE m == N("start", session.room)
  <2>5. m \in Note /\ m.is = "start" /\ m.of = session.room /\ m.is \notin Offering
    BY <1>4, <1>5
  <2>6. Emit(<<m>>)
    BY <2>1
  <2> HIDE DEF m
  <2>2. session'.state = "active" /\ session'.room = session.room /\ session'.accepted = session.accepted
    BY <2>1 DEF SignalingTypeOK
  <2>3. \A w \in View : Knows(w, session, untold) =>
          \E x \in View : Moves(w, m, x) /\ Knows(x, session', untold')
    BY <1>4, <2>1, <2>2, <2>5, StartMoves
  <2> QED
    BY <1>1, <1>2, <1>3, <2>1, <2>2, <2>3, <2>5, <2>6, SectionOne
<1>7. CASE leaveRoom
  <2>1. /\ upward # <<>> /\ upward' = Tail(upward) /\ UNCHANGED rooms
        /\ \A k \in 1 .. Len(upward') : \E l \in 1 .. Len(upward) : upward'[k] = upward[l]
    BY <1>7, LineTypes DEF leaveRoom
  <2>2. CASE InRoom /\ Ended
    BY <1>1, <1>2, <2>1, <2>2, SectionEnded
  <2>3. CASE UNCHANGED <<session, untold, downward, bus, overtaken>>
    BY <1>1, <1>2, <2>1, <2>3, SectionSilent
  <2> QED
    BY <1>7, <2>2, <2>3 DEF leaveRoom
<1>8. CASE endRoomLocked
  BY <1>1, <1>2, <1>3, <1>8, SectionEnded DEF endRoomLocked
<1>9. CASE acceptTimeout
  <2>1. /\ session.state = "pending" /\ ~session.accepted /\ session' = Idle
        /\ Emit(<<N("accept-timeout", session.room)>>) /\ UNCHANGED <<upward, rooms, untold>>
    BY <1>9 DEF acceptTimeout
  <2> DEFINE m == N("accept-timeout", session.room)
  <2>5. m \in Note /\ m.is = "accept-timeout" /\ m.of = session.room /\ m.is \notin Offering
    BY <1>4, <1>5
  <2>6. Emit(<<m>>)
    BY <2>1
  <2> HIDE DEF m
  <2>2. session.accepted = FALSE
    BY <1>4, <2>1, Zenon
  <2>3. \A w \in View : Knows(w, session, untold) =>
          \E x \in View : Moves(w, m, x) /\ Knows(x, session', untold')
    <3>1. ASSUME NEW w \in View, Knows(w, session, untold)
          PROVE  \E x \in View : Moves(w, m, x) /\ Knows(x, Idle, untold)
      BY <2>1, <2>2, <2>5, <3>1, TimeoutMoves
    <3> QED
      BY <2>1, <3>1
  <2>4. session'.accepted # TRUE
    BY <2>1 DEF Idle, NoSession
  <2> QED
    BY <1>1, <1>2, <1>3, <2>1, <2>3, <2>4, <2>5, <2>6, SectionOne
<1>10. CASE relaxTickLocked
  <2>1. /\ session.state = "waiting" /\ Emit(<<N("waiting", 0)>>) /\ UNCHANGED <<upward, session, rooms, untold>>
    BY <1>10 DEF relaxTickLocked
  <2> DEFINE m == N("waiting", 0)
  <2>5. m \in Note /\ m.is = "waiting" /\ m.is \notin Offering
    BY <1>5
  <2>6. Emit(<<m>>)
    BY <2>1
  <2> HIDE DEF m
  <2>2. \A w \in View : Knows(w, session, untold) => Moves(w, m, w) \/ w.is = "waiting"
    <3>1. \A w \in View : w.is \in {"none", "acked", "idle", "waiting", "left", "found", "instant", "active", "gone"}
      BY DEF View
    <3> QED
      BY <2>1, <2>5, <3>1 DEF Knows, Offering, Moves
  <2>3. \A w \in View : w.is = "waiting" => Moves(w, m, w)
    BY <2>5 DEF Moves
  <2>4. \A w \in View : Knows(w, session, untold) =>
          \E x \in View : Moves(w, m, x) /\ Knows(x, session', untold')
    BY <2>1, <2>2, <2>3
  <2> QED
    BY <1>1, <1>2, <1>3, <2>1, <2>4, <2>5, <2>6, SectionOne
<1>11. CASE replaceLocked
  <2>1. /\ session' = NoSession /\ Emit(<<N("replaced", 0)>>) /\ UNCHANGED <<upward, rooms, untold>>
    BY <1>11 DEF replaceLocked
  <2> DEFINE m == N("replaced", 0)
  <2>5. m \in Note /\ m.is = "replaced" /\ m.is \notin Offering
    BY <1>5
  <2>6. Emit(<<m>>)
    BY <2>1
  <2> HIDE DEF m
  <2>2. \A w \in View : Knows(w, session, untold) =>
          \E x \in View : Moves(w, m, x) /\ Knows(x, session', untold')
    BY <2>5, GoneMoves DEF Terminal
  <2>3. session'.accepted # TRUE
    BY <2>1 DEF NoSession
  <2> QED
    BY <1>1, <1>2, <1>3, <2>1, <2>2, <2>3, <2>5, <2>6, SectionOne
<1>12. CASE sessionExpiry
  <2>1. EmitHere(<<N("expired", 0)>>) /\ UNCHANGED <<upward, session, rooms, untold>>
    BY <1>12 DEF sessionExpiry
  <2> DEFINE m == N("expired", 0)
  <2>5. m \in Note /\ m.is = "expired" /\ m.is \notin Offering
    BY <1>5
  <2>6. EmitHere(<<m>>)
    BY <2>1
  <2> HIDE DEF m
  <2>2. \A w \in View : Moves(w, m, w)
    BY <2>5 DEF Moves
  <2>3. \A w \in View : Knows(w, session, untold) =>
          \E x \in View : Moves(w, m, x) /\ Knows(x, session', untold')
    BY <2>1, <2>2
  <2> QED
    BY <1>1, <1>2, <1>3, <2>1, <2>3, <2>5, <2>6, SectionOne
<1>13. CASE sessionRestricted
  <2>1. session' = Idle /\ untold' = TRUE /\ UNCHANGED <<upward, rooms>>
    BY <1>13 DEF sessionRestricted
  <2>2. CASE InRoom
    <3>1. Ended
      BY <1>13, <2>2 DEF sessionRestricted, Ended
    <3> QED
      BY <1>1, <1>2, <1>3, <2>1, <2>2, <3>1, SectionEnded
  <2>3. CASE UNCHANGED <<downward, bus, overtaken>>
    <3>1. session'.accepted # TRUE /\ \A w \in View : Knows(w, session', untold')
      BY <2>1 DEF Idle, NoSession, Knows
    <3> QED
      BY <1>1, <1>2, <1>3, <2>1, <2>3, <3>1, SectionSilent
  <2> QED
    BY <1>13, <2>2, <2>3 DEF sessionRestricted
<1>14. CASE reapDeadInstancesLocked
  <2>1. session' = NoSession /\ untold' = TRUE /\ UNCHANGED <<upward, downward, bus, rooms, overtaken>>
    BY <1>14 DEF reapDeadInstancesLocked, Wires
  <2>2. session'.accepted # TRUE /\ \A w \in View : Knows(w, session', untold')
    BY <2>1 DEF NoSession, Knows
  <2> QED
    BY <1>1, <1>2, <1>3, <2>1, <2>2, SectionSilent
<1> QED
  BY <1>1, <1>6, <1>7, <1>8, <1>9, <1>10, <1>11, <1>12, <1>13, <1>14, SectionHello, SectionMatch,
     SectionAccept DEF Section

\* The connection goes.
LEMMA DropTells ==
  ASSUME Telling, Drop, stopped = TRUE => stopped' = TRUE,
         \/ screen'.status \in {"connecting", "error", "unanswered", "idle"}
         \/ screen' = screen /\ screen.status \in Terminal
         \/ stopped' = TRUE /\ screen'.status \in Terminal
  PROVE  Telling'
<1>1. link' = "down"
  BY DEF Drop
<1>2. InStep'
  BY <1>1 DEF InStep
<1>3. QuietLine'
  BY DEF QuietLine, Drop, Wires
<1>4. OverForGood'
  BY <1>1 DEF Telling, OverForGood, Terminal
<1> QED
  BY <1>2, <1>3, <1>4 DEF Telling

LEMMA SocketTells ==
  ASSUME SignalingTypeOK, Telling, Lost \/ retry \/ RetryNow \/ connect_error \/ SessionReady \/ Connected
  PROVE  Telling'
<1>0. stopped \in BOOLEAN
  BY Zenon DEF SignalingTypeOK
<1>1. ASSUME Disconnected PROVE Telling'
  <2>1. Drop /\ stopped' = stopped /\ Show(IF asked THEN "unanswered" ELSE "connecting", 0)
    BY <1>1 DEF Disconnected
  <2>2. screen'.status \in {"connecting", "error", "unanswered", "idle"} \/ (screen' = screen /\ screen.status \in Terminal)
    BY <2>1 DEF Show
  <2> QED
    BY <1>0, <2>1, <2>2, DropTells
<1>2. CASE retry
  <2>1. CASE link = "up"
    BY <1>1, <1>2, <2>1 DEF retry
  <2>2. CASE link # "up"
    <3>1. Drop /\ stopped' = stopped /\ screen' = screen
      BY <1>2, <2>2 DEF retry
    <3>2. screen.status \in {"error", "unanswered", "idle"}
      BY <1>2 DEF retry
    <3> QED
      BY <1>0, <3>1, <3>2, DropTells
  <2> QED
    BY <2>1, <2>2
<1>3. CASE link' = link /\ UNCHANGED <<stopped, asked, screen, Wires, Matcher>>
  BY <1>3 DEF Telling, QuietLine, OverForGood, InStep, Wires, Matcher
<1>4. CASE link # "up" /\ link' # "up" /\ UNCHANGED <<stopped, asked, screen, Wires, Matcher>>
           /\ (stopped = TRUE => link' = "down")
  BY <1>4 DEF Telling, QuietLine, OverForGood, InStep, Wires, Matcher
<1>5. CASE RetryNow
  <2>1. stopped = TRUE => link = "down"
    BY DEF Telling, OverForGood
  <2>2. UNCHANGED <<stopped, asked, screen, Wires, Matcher>>
    BY <1>5 DEF RetryNow
  <2>3. link' = IF stopped \/ link = "up" THEN link ELSE "connecting"
    BY <1>5 DEF RetryNow
  <2>4. CASE stopped = TRUE \/ link = "up"
    <3>1. link' = link
      BY <2>3, <2>4, Zenon
    <3> QED
      BY <1>3, <2>2, <3>1
  <2>5. CASE stopped = FALSE /\ link # "up"
    <3>1. link' = "connecting"
      BY <2>3, <2>5, Zenon
    <3> QED
      BY <1>4, <2>2, <2>5, <3>1
  <2> QED
    BY <1>0, <2>4, <2>5, Zenon
<1>6. CASE connect_error
  BY <1>4, <1>6 DEF connect_error, renewSession
<1>7. CASE SessionReady
  BY <1>3, <1>7 DEF SessionReady
<1>8. CASE Connected
  <2>1. /\ link = "connecting" /\ link' = "up" /\ asked' = TRUE /\ upward' = Append(upward, N("hello", connectionSeq'))
        /\ UNCHANGED <<stopped, screen, downward, bus, Matcher>>
    BY <1>8 DEF Connected, sayHello, Tell
  <2>2. /\ upward = <<>> /\ downward = <<>> /\ bus = <<>> /\ session = NoSession /\ untold = FALSE
        /\ screen.status \in {"connecting", "error", "unanswered", "idle"} \cup Terminal
    BY <2>1 DEF Telling, QuietLine, Wires
  <2>3. QuietLine' /\ OverForGood'
    BY <2>1 DEF Telling, QuietLine, OverForGood
  <2> DEFINE m == N("hello", connectionSeq')
             v == ViewOf("none", 0)
  <2>4. m.is = "hello"
    BY NoteFields
  <2>5. v \in View /\ v.is = "none"
    BY DEF View, ViewOf
  <2> HIDE DEF m, v
  <2>6. OnScreen(v, screen, TRUE) /\ Knows(v, session, untold)
    BY <2>2, <2>5 DEF OnScreen, Knows, NoSession, Offering
  <2>7. Leads(v, <<>>, v)
    BY <2>5, LeadsNothing
  <2>8. Follows(v, screen, TRUE, <<>>, v, session, untold)
    BY <2>5, <2>6, <2>7, Zenon DEF Follows
  <2>9. OfferedOnce(<<>>, <<m>>, screen, session, rooms)
    BY <2>2, <2>4 DEF OfferedOnce, Terminal, NoSession
  <2>10. Told(<<>>, <<m>>, screen, TRUE, session, rooms, untold)
    BY <2>8, <2>9, Zenon DEF Told
  <2>11. (downward \o bus)' = <<>> /\ upward' = <<m>>
    BY <2>1, <2>2 DEF m
  <2>12. session' = session /\ rooms' = rooms /\ untold' = untold /\ screen' = screen
    BY <2>1 DEF Matcher
  <2>13. InStep'
    BY <2>1, <2>10, <2>11, <2>12 DEF InStep
  <2> QED
    BY <2>3, <2>13 DEF Telling
<1> QED
  BY <1>1, <1>2, <1>5, <1>6, <1>7, <1>8 DEF Lost

\* What the tab shows and asks changes, while nothing arrives.
LEMMA ToldAside ==
  ASSUME NEW line, NEW up, NEW up2, NEW scr, NEW scr2, NEW ask, NEW ask2, NEW ses, NEW rms, NEW cap,
         Told(line, up, scr, ask, ses, rms, cap), OfferedOnce(line, up2, scr2, ses, rms),
         \A v \in View : v.is # "gone" /\ OnScreen(v, scr, ask) => OnScreen(v, scr2, ask2)
  PROVE  Told(line, up2, scr2, ask2, ses, rms, cap)
<1>1. PICK v, w : Follows(v, scr, ask, line, w, ses, cap)
  BY DEF Told
<1>2. Follows(v, scr2, ask2, line, w, ses, cap)
  BY <1>1 DEF Follows
<1> QED
  BY <1>2, Zenon DEF Told

LEMMA ButtonTells ==
  ASSUME SignalingTypeOK, Telling, HelloTimeout \/ accept \/ decline \/ skip \/ search
  PROVE  Telling'
<1>1. /\ link = "up" /\ link' = "up" /\ UNCHANGED <<stopped, downward, bus, Matcher>>
  BY DEF HelloTimeout, accept, decline, skip, search, Comeback, Wires
<1>2. screen.status \notin Terminal /\ stopped # TRUE
  BY <1>1 DEF Telling, OverForGood
<1>3. QuietLine'
  BY <1>1 DEF QuietLine
<1>4. ASSUME screen'.status \notin Terminal PROVE OverForGood'
  BY <1>1, <1>2, <1>4 DEF OverForGood
<1>5. UNCHANGED <<session, rooms, untold, overtaken>>
  BY <1>1 DEF Matcher
<1>6. upward \in Seq(Note) /\ screen.room \in Nat
  BY DEF SignalingTypeOK
<1> DEFINE line == downward \o bus
<1>7. ASSUME overtaken = FALSE
      PROVE  /\ Told(line, upward, screen, asked, session, rooms, untold)
             /\ OfferedOnce(line, upward, screen, session, rooms)
  BY <1>1, <1>7, Zenon DEF Telling, InStep, Told
<1>8. line' = line
  BY <1>1
<1> HIDE DEF line
<1>9. ASSUME overtaken = FALSE => Told(line, upward', screen', asked', session, rooms, untold) PROVE InStep'
  BY <1>5, <1>8, <1>9 DEF InStep, line
<1>10. CASE HelloTimeout
  <2>1. asked' = FALSE /\ screen'.status = "unanswered" /\ upward' = upward
    BY <1>2, <1>10 DEF HelloTimeout, Show, Wires
  <2>2. ASSUME overtaken = FALSE PROVE Told(line, upward', screen', asked', session, rooms, untold)
    <3>1. OfferedOnce(line, upward, screen', session, rooms)
      BY <1>7, <2>1, <2>2, FreshShown
    <3>2. \A v \in View : v.is # "gone" /\ OnScreen(v, screen, asked) => OnScreen(v, screen', asked')
      BY <2>1 DEF OnScreen
    <3> QED
      BY <1>7, <2>1, <2>2, <3>1, <3>2, ToldAside
  <2>3. screen'.status \notin Terminal
    BY <2>1 DEF Terminal
  <2> QED
    BY <1>3, <1>4, <1>9, <2>2, <2>3 DEF Telling
<1>11. CASE accept
  <2> DEFINE m == N("accept", screen.room)
  <2>1. /\ asked' = asked /\ screen.status = "match-found" /\ screen' = [status |-> "starting-call", room |-> screen.room]
        /\ upward' = Append(upward, m)
    BY <1>2, <1>11 DEF accept, Show, Tell
  <2>2. m \in Note /\ m.is = "accept" /\ m.of = screen.room
    BY <1>6, NoteFields
  <2> HIDE DEF m
  <2>3. screen'.status = "starting-call" /\ screen'.room = screen.room
    BY <2>1
  <2>4. ASSUME overtaken = FALSE PROVE Told(line, upward', screen', asked', session, rooms, untold)
    <3>1. OfferedOnce(line, upward, screen', session, rooms)
      BY <1>7, <2>3, <2>4, FreshShown
    <3>2. screen.room <= rooms /\ ~Offered(line, screen', screen.room)
      <4>1. screen.room <= rooms /\ \A k \in 1 .. Len(line) : line[k].is = "found" => line[k].of # screen.room
        BY <1>7, <2>1, <2>4, Zenon DEF OfferedOnce
      <4> QED
        BY <2>3, <4>1 DEF Offered
    <3>3. OfferedOnce(line, Append(upward, m), screen', session, rooms)
      BY <1>6, <2>2, <3>1, <3>2, FreshAsk
    <3>4. \A v \in View : v.is # "gone" /\ OnScreen(v, screen, asked) => OnScreen(v, screen', asked')
      <4>1. \A v \in View : v.is \in {"none", "acked", "idle", "waiting", "left", "found", "instant", "active", "gone"}
        BY DEF View
      <4> QED
        BY <2>1, <2>3, <4>1 DEF OnScreen
    <3>5. OfferedOnce(line, upward', screen', session, rooms)
      BY <2>1, <3>3
    <3> QED
      BY <1>7, <2>4, <3>4, <3>5, ToldAside
  <2>5. screen'.status \notin Terminal
    BY <2>3 DEF Terminal
  <2> QED
    BY <1>3, <1>4, <1>9, <2>4, <2>5 DEF Telling
<1>12. ASSUME NEW m \in Note, m.is # "accept", upward' = Append(upward, m), screen' = screen,
              asked' = asked \/ (asked' = TRUE /\ screen.status = "idle")
       PROVE  Telling'
  <2>1. ASSUME overtaken = FALSE PROVE Told(line, upward', screen', asked', session, rooms, untold)
    <3>1. OfferedOnce(line, upward', screen, session, rooms)
      BY <1>6, <1>7, <1>12, <2>1, FreshAsk
    <3>2. \A v \in View : v.is # "gone" /\ OnScreen(v, screen, asked) => OnScreen(v, screen, asked')
      BY <1>12 DEF OnScreen
    <3> QED
      BY <1>7, <1>12, <2>1, <3>1, <3>2, ToldAside
  <2> QED
    BY <1>2, <1>3, <1>4, <1>9, <1>12, <2>1 DEF Telling
<1>13. CASE decline
  <2>1. upward' = Append(upward, N("decline", screen.room)) /\ screen' = screen /\ asked' = asked
    BY <1>13 DEF decline, Tell
  <2> QED
    BY <1>6, <1>12, <2>1, NoteFields
<1>14. CASE skip
  <2>1. upward' = Append(upward, N("skip", screen.room)) /\ screen' = screen /\ asked' = asked
    BY <1>14 DEF skip, Tell
  <2> QED
    BY <1>6, <1>12, <2>1, NoteFields
<1>15. CASE search
  <2>1. /\ upward' = Append(upward, N("hello", connectionSeq')) /\ screen' = screen /\ asked' = TRUE
        /\ screen.status = "idle" /\ connectionSeq' = connectionSeq + 1
    BY <1>15 DEF search, sayHello, Tell
  <2>2. connectionSeq' \in Nat
    BY <2>1 DEF SignalingTypeOK
  <2> QED
    BY <1>12, <2>1, <2>2, NoteFields
<1> QED
  BY <1>10, <1>11, <1>13, <1>14, <1>15

\* The next message is read.
LEMMA ToldRead ==
  ASSUME NEW line, NEW up, NEW up2, NEW scr, NEW scr2, NEW ask, NEW ask2, NEW ses, NEW rms, NEW cap,
         Told(line, up, scr, ask, ses, rms, cap), line # <<>>, Head(line).is \notin Terminal,
         OfferedOnce(Tail(line), up2, scr2, ses, rms),
         \A v, u \in View : v.is # "gone" /\ OnScreen(v, scr, ask) /\ Moves(v, Head(line), u) => OnScreen(u, scr2, ask2)
  PROVE  Told(Tail(line), up2, scr2, ask2, ses, rms, cap)
<1>1. PICK v, w : Follows(v, scr, ask, line, w, ses, cap)
  BY DEF Told
<1>2. PICK u \in View : Moves(v, Head(line), u) /\ Leads(u, Tail(line), w)
  BY <1>1, LeadsTail DEF Follows
<1>3. u.is # "gone"
  BY <1>1, <1>2 DEF Moves, Follows, Offering
<1>4. OnScreen(u, scr2, ask2)
  BY <1>1, <1>2 DEF Follows
<1>5. Follows(u, scr2, ask2, Tail(line), w, ses, cap)
  BY <1>1, <1>2, <1>3, <1>4 DEF Follows
<1> QED
  BY <1>5, Zenon DEF Told

\* The reducer's events change the screen as they change the view.
LEMMA ReduceCon ==
  ASSUME SignalingTypeOK, screen.status \notin Terminal, NEW m \in Note, m.is \in Ordinary, Reduce(m),
         NEW v \in View, NEW u \in View, v.is # "gone", OnScreen(v, screen, asked), Moves(v, m, u)
  PROVE  OnScreen(u, screen', asked)
<1>0. /\ \A st, r : Show(st, r) => screen' = [status |-> st, room |-> r]
      /\ screen = [status |-> screen.status, room |-> screen.room]
  BY DEF Show, SignalingTypeOK
<1>1. CASE m.is = "waiting"
  <2>1. u.is = "waiting"
    BY <1>1, Zenon DEF Moves, Terminal, Offering
  <2>2. screen' = [status |-> "waiting", room |-> 0]
    BY <1>0, <1>1 DEF Reduce
  <2> QED
    BY <2>1, <2>2 DEF OnScreen
<1>2. CASE m.is = "found"
  <2>1. u.is = "found" /\ u.of = m.of
    BY <1>2 DEF Moves, Terminal, Offering
  <2>2. screen' = [status |-> "match-found", room |-> m.of]
    BY <1>0, <1>2 DEF Reduce
  <2> QED
    BY <2>1, <2>2 DEF OnScreen
<1>3. CASE m.is = "instant"
  <2>1. u.is = "instant" /\ u.of = m.of
    BY <1>3 DEF Moves, Terminal, Offering
  <2>2. screen' = [status |-> "starting-call", room |-> m.of]
    BY <1>0, <1>3 DEF Reduce
  <2> QED
    BY <2>1, <2>2 DEF OnScreen
<1>4. CASE m.is = "start"
  <2>1. u.is = "active" /\ u.of = m.of /\ v.is \in Offering /\ v.of = m.of
    BY <1>4 DEF Moves, Terminal, Offering
  <2>2. \/ screen.status = "unanswered" /\ asked = FALSE
        \/ screen.status \in {"match-found", "starting-call"} /\ screen.room = m.of
    BY <2>1 DEF OnScreen, Offering
  <2>3. CASE screen.status = "unanswered" /\ asked = FALSE
    <3>1. screen' = screen
      BY <1>4, <2>3 DEF Reduce
    <3> QED
      BY <2>1, <2>3, <3>1 DEF OnScreen
  <2>4. CASE screen.status \in {"match-found", "starting-call"} /\ screen.room = m.of
    <3>1. screen' = [status |-> "in-call", room |-> m.of]
      BY <1>0, <1>4, <2>4 DEF Reduce
    <3> QED
      BY <2>1, <3>1 DEF OnScreen
  <2> QED
    BY <2>2, <2>3, <2>4
<1>5. CASE m.is = "ended"
  <2>1. u.is = "left" /\ v.is \in InCall /\ v.of = m.of
    BY <1>5 DEF Moves, Terminal, Offering
  <2>2. \/ screen.status = "unanswered" /\ asked = FALSE
        \/ screen.room = m.of
    BY <2>1 DEF OnScreen, InCall
  <2>3. CASE screen.room = m.of
    <3>1. screen' = [status |-> "waiting", room |-> 0]
      BY <1>0, <1>5, <2>3 DEF Reduce
    <3> QED
      BY <2>1, <3>1 DEF OnScreen
  <2>4. CASE screen.room # m.of /\ screen.status = "unanswered" /\ asked = FALSE
    <3>1. screen' = screen
      BY <1>5, <2>4 DEF Reduce
    <3> QED
      BY <2>1, <2>4, <3>1 DEF OnScreen
  <2> QED
    BY <2>2, <2>3, <2>4
<1>6. CASE m.is = "accept-timeout"
  <2>1. u.is = "idle" /\ v.is = "found" /\ v.of = m.of
    BY <1>6 DEF Moves, Terminal, Offering
  <2>2. \/ screen.status = "unanswered" /\ asked = FALSE
        \/ screen.room = m.of
    BY <2>1 DEF OnScreen
  <2>3. CASE screen.room = m.of
    <3>1. screen' = [status |-> "idle", room |-> 0]
      BY <1>0, <1>6, <2>3 DEF Reduce
    <3> QED
      BY <2>1, <3>1 DEF OnScreen
  <2>4. CASE screen.room # m.of /\ screen.status = "unanswered" /\ asked = FALSE
    <3>1. screen' = screen
      BY <1>6, <2>4 DEF Reduce
    <3> QED
      BY <2>1, <2>4, <3>1 DEF OnScreen
  <2> QED
    BY <2>2, <2>3, <2>4
<1> QED
  BY <1>1, <1>2, <1>3, <1>4, <1>5, <1>6 DEF Ordinary

\* The ack of a hello, one that counts and one that does not.
LEMMA AckCon ==
  ASSUME NEW m \in Note, m.is \in {"ok", "refused"}, NEW v \in View, NEW u \in View, v.is # "gone", Moves(v, m, u),
         NEW scr, NEW ask, OnScreen(v, scr, ask), NEW scr2, NEW ask2,
         \/ scr2 = scr /\ ask2 = ask
         \/ /\ ask = TRUE /\ ask2 = FALSE
            /\ \/ m.is = "ok" /\ (scr.status \in {"match-found", "starting-call", "in-call"} => scr2 = scr)
               \/ m.is = "refused" /\ scr2 = [status |-> "error", room |-> 0]
  PROVE  OnScreen(u, scr2, ask2)
<1>0. v.is \in {"none", "acked", "idle", "waiting", "left", "found", "instant", "active", "gone"}
  BY DEF View
<1>1. CASE m.is = "ok"
  <2>1. u.is = "acked" \/ (v.is \in InCall /\ u = v)
    BY <1>0, <1>1 DEF Moves, Terminal, Offering
  <2>2. CASE u.is = "acked"
    BY <2>2 DEF OnScreen
  <2>3. CASE v.is \in InCall /\ u = v
    <3>1. CASE scr2 = scr /\ ask2 = ask
      BY <2>3, <3>1
    <3>2. CASE ask = TRUE /\ ask2 = FALSE /\ (scr.status \in {"match-found", "starting-call", "in-call"} => scr2 = scr)
      <4>1. scr.status \in {"match-found", "starting-call", "in-call"}
        BY <2>3, <3>2 DEF OnScreen, InCall
      <4> QED
        BY <2>3, <3>2, <4>1 DEF OnScreen, InCall
    <3> QED
      BY <1>1, <3>1, <3>2
  <2> QED
    BY <2>1, <2>2, <2>3
<1>2. CASE m.is = "refused"
  <2>1. u.is = "acked" \/ (v.is \in {"none", "idle"} /\ u = v)
    BY <1>0, <1>2 DEF Moves, Terminal, Offering
  <2>4. CASE u.is = "acked"
    BY <2>4 DEF OnScreen
  <2>2. CASE u = v /\ scr2 = scr /\ ask2 = ask
    BY <2>2
  <2>3. CASE v.is \in {"none", "idle"} /\ u = v /\ ask2 = FALSE /\ scr2 = [status |-> "error", room |-> 0]
    BY <2>3 DEF OnScreen
  <2> QED
    BY <1>2, <2>1, <2>2, <2>3, <2>4
<1> QED
  BY <1>1, <1>2

LEMMA ReceiveTells ==
  ASSUME SignalingTypeOK, Telling, Receive
  PROVE  Telling'
<1> DEFINE m == Head(downward)
           line == downward \o bus
<1>0. /\ link = "up" /\ downward # <<>> /\ m \in Note /\ m.of \in Nat /\ upward \in Seq(Note)
      /\ line \in Seq(Note) /\ line # <<>> /\ Head(line) = m /\ Tail(downward) \o bus = Tail(line)
      /\ bus \in Seq(Note)
  <2>1. link = "up" /\ downward # <<>> /\ downward \in Seq(Note) /\ bus \in Seq(Note) /\ upward \in Seq(Note)
    BY DEF SignalingTypeOK, Receive
  <2>2. m \in Note /\ line \in Seq(Note) /\ line # <<>> /\ Head(line) = m /\ Tail(downward) \o bus = Tail(line)
    BY <2>1
  <2>3. m.of \in Nat
    BY <2>2 DEF Note
  <2> QED
    BY <2>1, <2>2, <2>3
<1>1. screen.status \notin Terminal /\ stopped # TRUE
  BY <1>0 DEF Telling, OverForGood
<1>2. /\ \A st, r : Show(st, r) => screen' = [status |-> st, room |-> r]
      /\ asked \in BOOLEAN
  BY <1>1, Zenon DEF Show, SignalingTypeOK
<1>3. ASSUME overtaken = FALSE
      PROVE  /\ Told(line, upward, screen, asked, session, rooms, untold)
             /\ OfferedOnce(line, upward, screen, session, rooms)
  BY <1>0, <1>3, Zenon DEF Telling, InStep, Told
<1> HIDE DEF m, line
\* What remains to be shown of a message after which the connection stays.
<1>4. ASSUME link' = "up", stopped' = stopped, screen'.status \notin Terminal,
             downward' = Tail(downward), UNCHANGED <<bus, Matcher>>,
             m.is \notin Terminal,
             \A v, u \in View :
               v.is # "gone" /\ OnScreen(v, screen, asked) /\ Moves(v, m, u) => OnScreen(u, screen', asked'),
             overtaken = FALSE => OfferedOnce(Tail(line), upward', screen', session, rooms)
      PROVE  Telling'
  <2>1. QuietLine' /\ OverForGood'
    BY <1>1, <1>4 DEF QuietLine, OverForGood
  <2>2. ASSUME overtaken' = FALSE
        PROVE  Told((downward \o bus)', upward', screen', asked', session', rooms', untold')
    <3>1. overtaken = FALSE /\ session' = session /\ rooms' = rooms /\ untold' = untold
      BY <1>4, <2>2 DEF Matcher
    <3>2. (downward \o bus)' = Tail(line)
      BY <1>0, <1>4
    <3>3. OfferedOnce(Tail(line), upward', screen', session, rooms)
      BY <1>4, <3>1
    <3>4. Told(Tail(line), upward', screen', asked', session, rooms, untold)
      BY <1>0, <1>3, <1>4, <3>1, <3>3, ToldRead
    <3> QED
      BY <3>1, <3>2, <3>4
  <2> QED
    BY <2>1, <2>2 DEF Telling, InStep
<1>5. ASSUME NEW scr2, overtaken = FALSE,
             scr2.status # "match-found" \/ scr2 = screen \/ (m.is = "found" /\ scr2.room = m.of)
      PROVE  /\ OfferedOnce(Tail(line), upward, scr2, session, rooms)
             /\ m.is = "instant" /\ scr2.status # "match-found" => m.of <= rooms /\ ~Offered(Tail(line), scr2, m.of)
  BY <1>0, <1>3, <1>5, FreshHeard
<1>6. CASE /\ m.is \in {"ok", "refused"} /\ helloAck(m) /\ downward' = Tail(downward)
           /\ UNCHANGED <<skippedRoom, bus, Matcher>>
  <2>1. /\ UNCHANGED Comeback /\ UNCHANGED upward
        /\ \/ screen' = screen /\ asked' = asked
           \/ /\ asked = TRUE /\ asked' = FALSE
              /\ \/ m.is = "ok" /\ HelloOk
                 \/ m.is = "refused" /\ Show("error", 0)
    <3>1. CASE m.of # connectionSeq \/ ~asked
      BY <1>6, <3>1, Zenon DEF helloAck
    <3>2. CASE ~(m.of # connectionSeq \/ ~asked)
      <4>1. asked = TRUE
        BY <1>2, <3>2, Zenon
      <4>2. /\ asked' = FALSE /\ UNCHANGED upward /\ UNCHANGED Comeback
            /\ \/ m.is = "ok" /\ HelloOk
               \/ m.is = "refused" /\ Show("error", 0)
        BY <1>6, <3>2, Zenon DEF helloAck
      <4> QED
        BY <4>1, <4>2, Zenon
    <3> QED
      BY <3>1, <3>2, Zenon
  <2>2. HelloOk => \/ screen' = screen
                   \/ screen.status \in {"connecting", "error", "unanswered", "idle"} /\ screen'.status = "waiting"
    BY <1>2 DEF HelloOk
  <2>3. Show("error", 0) => screen' = [status |-> "error", room |-> 0]
    BY <1>2
  <2>4. screen'.status \notin Terminal /\ (screen'.status # "match-found" \/ screen' = screen)
    BY <1>1, <2>1, <2>2, <2>3 DEF Terminal
  <2>5. m.is \notin Terminal
    BY <1>6 DEF Terminal
  <2>6. \/ screen' = screen /\ asked' = asked
        \/ /\ asked = TRUE /\ asked' = FALSE
           /\ \/ m.is = "ok" /\ (screen.status \in {"match-found", "starting-call", "in-call"} => screen' = screen)
              \/ m.is = "refused" /\ screen' = [status |-> "error", room |-> 0]
    BY <2>1, <2>2, <2>3
  <2>7. \A v, u \in View : v.is # "gone" /\ OnScreen(v, screen, asked) /\ Moves(v, m, u) => OnScreen(u, screen', asked')
    BY <1>0, <1>6, <2>6, AckCon
  <2>8. overtaken = FALSE => OfferedOnce(Tail(line), upward', screen', session, rooms)
    BY <1>5, <2>1, <2>4
  <2>9. link' = "up" /\ stopped' = stopped
    BY <1>0, <2>1 DEF Comeback
  <2> QED
    BY <1>4, <1>6, <2>4, <2>5, <2>7, <2>8, <2>9
<1>7. CASE /\ m.is \in Ordinary /\ Reduce(m)
           /\ IF m.is = "instant" THEN Tell("accept", m.of) ELSE UNCHANGED upward
           /\ downward' = Tail(downward)
           /\ UNCHANGED <<Comeback, asked, skippedRoom, bus, Matcher>>
  <2>1. m.is \notin Terminal
    BY <1>7 DEF Ordinary, Terminal
  <2>2. \/ screen' = screen /\ m.is \notin {"found", "instant"}
        \/ screen'.status \in {"waiting", "in-call", "idle"}
        \/ m.is = "found" /\ screen'.status = "match-found" /\ screen'.room = m.of
        \/ m.is = "instant" /\ screen'.status = "starting-call"
    BY <1>2, <1>7 DEF Reduce
  <2>3. screen'.status \notin Terminal
    BY <1>1, <2>2 DEF Terminal
  <2>4. \A v, u \in View : v.is # "gone" /\ OnScreen(v, screen, asked) /\ Moves(v, m, u) => OnScreen(u, screen', asked')
    BY <1>0, <1>1, <1>7, ReduceCon
  <2>5. ASSUME overtaken = FALSE PROVE OfferedOnce(Tail(line), upward', screen', session, rooms)
    <3>1. OfferedOnce(Tail(line), upward, screen', session, rooms)
      BY <1>5, <2>2, <2>5
    <3>2. CASE m.is = "instant"
      <4> DEFINE a == N("accept", m.of)
      <4>1. upward' = Append(upward, a)
        BY <1>7, <3>2 DEF Tell
      <4>2. a \in Note /\ a.is = "accept" /\ a.of = m.of
        BY <1>0, NoteFields
      <4> HIDE DEF a
      <4>3. screen'.status # "match-found" \/ screen' = screen
        BY <2>2, <3>2
      <4>4. screen'.status # "match-found"
        BY <1>2, <1>7, <3>2 DEF Reduce
      <4>5. m.of <= rooms /\ ~Offered(Tail(line), screen', m.of)
        BY <1>5, <2>5, <3>2, <4>4
      <4>6. OfferedOnce(Tail(line), Append(upward, a), screen', session, rooms)
        BY <1>0, <3>1, <4>2, <4>5, FreshAsk
      <4> QED
        BY <4>1, <4>6
    <3>3. CASE m.is # "instant"
      BY <1>7, <3>1, <3>3
    <3> QED
      BY <3>2, <3>3
  <2>6. link' = "up" /\ stopped' = stopped
    BY <1>0, <1>7 DEF Comeback
  <2> QED
    BY <1>4, <1>7, <2>1, <2>3, <2>4, <2>5, <2>6
<1>8. CASE /\ m.is = "expired" /\ renewSession /\ downward' = Tail(downward)
           /\ UNCHANGED <<link, connectionSeq, asked, screen, skippedRoom, upward, bus, Matcher>>
  <2>1. m.is \notin Terminal /\ screen' = screen /\ asked' = asked /\ upward' = upward
    BY <1>8 DEF Terminal
  <2>2. \A v, u \in View : v.is # "gone" /\ OnScreen(v, screen, asked) /\ Moves(v, m, u) => OnScreen(u, screen', asked')
    BY <1>8, <2>1 DEF Moves, Terminal, Offering
  <2>3. overtaken = FALSE => OfferedOnce(Tail(line), upward', screen', session, rooms)
    BY <1>5, <2>1
  <2>4. link' = "up" /\ stopped' = stopped
    BY <1>0, <1>8 DEF renewSession
  <2> QED
    BY <1>1, <1>4, <1>8, <2>1, <2>2, <2>3, <2>4
<1>9. CASE m.is \in Terminal /\ Show(m.is, 0) /\ stopped' = TRUE /\ Drop
  <2>1. stopped' = TRUE /\ screen'.status \in Terminal
    BY <1>2, <1>9
  <2> QED
    BY <1>9, <2>1, DropTells
<1> QED
  BY <1>6, <1>7, <1>8, <1>9 DEF Receive, m

LEMMA TellingNext == SignalingTypeOK /\ Telling /\ [SignalingNext]_signalingVars => Telling'
<1> SUFFICES ASSUME SignalingTypeOK, Telling, [SignalingNext]_signalingVars PROVE Telling'
  OBVIOUS
<1>1. CASE UNCHANGED signalingVars
  BY <1>1 DEF signalingVars, Telling, QuietLine, OverForGood, InStep, Wires
<1>2. CASE SignalingNext
  BY <1>2, SocketTells, ButtonTells, ReceiveTells, SectionTells DEF SignalingNext, Section
<1> QED
  BY <1>1, <1>2

LEMMA TellingInit == SignalingInit => Telling
BY DEF SignalingInit, Telling, QuietLine, OverForGood, InStep, Wires, Terminal

LEMMA TellingIsTrue == SignalingTypeOK /\ Telling => ScreenIsTrue
<1> SUFFICES ASSUME SignalingTypeOK, Telling, link = "up", ~asked, screen.status # "unanswered",
                    Wires = <<<<>>, <<>>, <<>>>>, ~overtaken, ~untold
             PROVE  Shows(session)
  BY Zenon DEF ScreenIsTrue
<1>1. asked = FALSE /\ overtaken = FALSE /\ untold = FALSE
  BY Zenon DEF SignalingTypeOK
<1>2. downward \o bus = <<>>
  BY DEF Wires
<1>3. Told(<<>>, upward, screen, asked, session, rooms, untold)
  BY <1>1, <1>2 DEF Telling, InStep
<1>4. PICK v, w : Follows(v, screen, asked, <<>>, w, session, untold)
  BY <1>3 DEF Told
<1>5. v \in View /\ v = w /\ v.is # "gone" /\ OnScreen(v, screen, asked) /\ Knows(v, session, untold)
  BY <1>4, LeadsEmpty DEF Follows
<1>6. session.accepted = TRUE => ~(screen.status = "match-found" /\ screen.room = session.room)
  BY <1>3 DEF Told, OfferedOnce, Offered
<1>7. session.accepted \in BOOLEAN
  BY DEF SignalingTypeOK
<1>8. v.is \in {"none", "acked", "idle", "waiting", "left", "found", "instant", "active", "gone"}
  BY <1>5 DEF View
<1>9. v.is \in {"none", "idle", "waiting", "found", "instant", "active"}
  BY <1>1, <1>5, <1>8 DEF OnScreen, Knows
<1>10. screen.room = session.room
  BY <1>1, <1>5, <1>9 DEF OnScreen, Knows, Offering
<1>11. CASE v.is \in {"none", "idle", "waiting", "active"}
  BY <1>1, <1>5, <1>10, <1>11 DEF OnScreen, Knows, Shows
<1>12. CASE v.is \in Offering
  <2>1. session.state \in {"pending", "starting"} /\ (session.state = "starting" => session.accepted = TRUE)
    BY <1>5, <1>12 DEF Knows
  <2>2. screen.status \in {"match-found", "starting-call"}
    BY <1>1, <1>5, <1>12 DEF OnScreen, Offering
  <2>3. session.accepted = TRUE => screen.status = "starting-call"
    BY <1>6, <1>10, <2>2
  <2> QED
    BY <1>7, <1>10, <2>1, <2>2, <2>3 DEF Shows
<1> QED
  BY <1>9, <1>11, <1>12 DEF Offering

\* When everything under way has arrived, the tab shows the session the server has, for
\* any number of hellos, rooms and messages under way (signalingReducer), unless messages
\* of two replicas changed their order, the session was left out of the queue or reaped
\* without a word, or the tab shows the error of a hello that was not answered in time.
THEOREM ScreenIsTrueCorrect == SignalingSpec => []ScreenIsTrue
<1>1. SignalingInit => SignalingTypeOK /\ Telling
  BY SignalingInitType, TellingInit
<1>2. SignalingTypeOK /\ Telling /\ [SignalingNext]_signalingVars => (SignalingTypeOK /\ Telling)'
  BY SignalingNextType, TellingNext
<1>3. SignalingTypeOK /\ Telling => ScreenIsTrue
  BY TellingIsTrue
<1> QED
  BY <1>1, <1>2, <1>3, PTL DEF SignalingSpec
=============================================================================
