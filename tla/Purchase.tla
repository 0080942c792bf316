------------------------------ MODULE Purchase ------------------------------
(***************************************************************************)
(* A purchase of coins in the browser (new-frontend/src/premium).  Once      *)
(* Razorpay's Checkout answers, the proof of payment is all the browser has *)
(* to claim the coins with.  It is put into the one slot of localStorage    *)
(* until POST /verify credits it or refuses it for good, retried by one     *)
(* loop at a time, and found again by the next page.                        *)
(*                                                                         *)
(* A payment is named by its order.  The server's answers are free: ok,     *)
(* refused for good, or to be retried (an error, no answer, no session).    *)
(* An action runs up to its next await.  One tab is modelled.               *)
(***************************************************************************)
EXTENDS FiniteSets

CONSTANTS
  Payment,     \* the purchases a user may make
  Storable,    \* those localStorage takes (private mode and a full quota take none)
  NoPayment

ASSUME PurchaseAssumption == NoPayment \notin Payment /\ Storable \subseteq Payment

VARIABLES
  page,        \* a page is open
  slot,        \* chizzy.pendingPayment
  buying,      \* where each buy() is
  loops,       \* settlePendingPayment of each payment
  settling,    \* the payment whose loop is the current handle
  fate,        \* history: what became of each payment
  overlapped   \* history: payments made while another one was unsettled, and those

purchaseVars == <<page, slot, buying, loops, settling, fate, overlapped>>

NoLoop == [phase |-> "none", cancelled |-> FALSE]
Answer == {"ok", "failed", "retry"}

PurchaseTypeOK ==
  /\ page \in BOOLEAN
  /\ {slot, settling} \subseteq Payment \cup {NoPayment}
  /\ buying \in [Payment -> {"none", "ordering", "checkout", "verifying", "done"}]
  /\ loops \in [Payment -> [phase : {"none", "posting", "waiting"}, cancelled : BOOLEAN]]
  /\ fate \in [Payment -> {"unpaid", "owed", "answered", "givenUp", "lost"}]
  /\ overlapped \subseteq Payment

PurchaseInit ==
  /\ page = TRUE /\ slot = NoPayment
  /\ buying = [p \in Payment |-> "none"]
  /\ loops = [p \in Payment |-> NoLoop] /\ settling = NoPayment
  /\ fate = [p \in Payment |-> "unpaid"] /\ overlapped = {}

\* The page works at getting this payment credited.
Pursued(p) ==
  \/ buying[p] = "verifying"
  \/ loops[p].phase # "none" /\ ~loops[p].cancelled

------------------------------------------------------------------------------
(* The loop.                                                                *)

\* A loop that waits ends when it is cancelled; one that posts sees it afterwards.
Cancel(l) ==
  [p \in Payment |-> IF p # settling THEN l[p]
                     ELSE IF l[p].phase = "posting" THEN [l[p] EXCEPT !.cancelled = TRUE]
                     ELSE NoLoop]

\* settle: one loop at a time.
settle(p, phase) ==
  /\ loops' = [Cancel(loops) EXCEPT ![p] = [phase |-> phase, cancelled |-> FALSE]]
  /\ settling' = p

\* The loop of p ends of itself: the slot is cleared, whatever it holds.
LoopEnds(p) ==
  /\ loops' = [loops EXCEPT ![p] = NoLoop]
  /\ settling' = IF settling = p THEN NoPayment ELSE settling
  /\ slot' = NoPayment

\* PENDING_GIVE_UP_MS are over before the loop waits once more.
GivesUp(p) == LoopEnds(p) /\ fate' = [fate EXCEPT ![p] = "givenUp"]

Waits(p) == loops' = [loops EXCEPT ![p].phase = "waiting"] /\ UNCHANGED <<slot, settling, fate>>

loopAnswered(p, answer) ==
  /\ loops[p].phase = "posting"
  /\ \/ /\ loops[p].cancelled
        /\ loops' = [loops EXCEPT ![p] = NoLoop]
        /\ fate' = IF answer = "retry" THEN fate ELSE [fate EXCEPT ![p] = "answered"]
        /\ UNCHANGED <<slot, settling>>
     \/ /\ ~loops[p].cancelled /\ answer # "retry"
        /\ LoopEnds(p)
        /\ fate' = [fate EXCEPT ![p] = "answered"]
     \/ /\ ~loops[p].cancelled /\ answer = "retry"
        /\ Waits(p) \/ GivesUp(p)
  /\ UNCHANGED <<page, buying, overlapped>>

\* The back-off is over.
loopWakes(p) ==
  /\ loops[p].phase = "waiting"
  /\ loops' = [loops EXCEPT ![p].phase = "posting"]
  /\ UNCHANGED <<page, slot, buying, settling, fate, overlapped>>

------------------------------------------------------------------------------
(* buy().                                                                   *)

\* The Buy buttons are off while a buy runs.
Busy == \E p \in Payment : buying[p] \in {"ordering", "checkout", "verifying"}

buy(p) ==
  /\ page /\ ~Busy /\ buying[p] = "none"
  /\ buying' = [buying EXCEPT ![p] = "ordering"]
  /\ UNCHANGED <<page, slot, loops, settling, fate, overlapped>>

orderCreated(p) ==
  /\ buying[p] = "ordering"
  /\ buying' = [buying EXCEPT ![p] = "checkout"]
  /\ UNCHANGED <<page, slot, loops, settling, fate, overlapped>>

\* The order is refused or fails; Checkout does not load, is dismissed or fails.
buyFails(p) ==
  /\ buying[p] \in {"ordering", "checkout"}
  /\ buying' = [buying EXCEPT ![p] = "done"]
  /\ UNCHANGED <<page, slot, loops, settling, fate, overlapped>>

\* Mutant.
SavedLater(p) == UNCHANGED slot

savePendingPayment(p) == slot' = IF p \in Storable THEN p ELSE slot

\* The handler of Checkout: from here on the user has paid.
paid(p) ==
  /\ buying[p] = "checkout"
  /\ buying' = [buying EXCEPT ![p] = "verifying"]
  /\ fate' = [fate EXCEPT ![p] = "owed"]
  /\ savePendingPayment(p)
  /\ LET others == {q \in Payment : Pursued(q) \/ fate[q] = "owed"}
     IN  overlapped' = overlapped \cup others \cup (IF others = {} THEN {} ELSE {p})
  /\ UNCHANGED <<page, loops, settling>>

\* The first answer of /verify; to be retried, it goes to the loop, which waits first.
verified(p, answer) ==
  /\ buying[p] = "verifying"
  /\ buying' = [buying EXCEPT ![p] = "done"]
  /\ \/ /\ answer # "retry"
        /\ slot' = NoPayment /\ fate' = [fate EXCEPT ![p] = "answered"]
        /\ UNCHANGED <<loops, settling>>
     \/ /\ answer = "retry"
        /\ settle(p, "waiting") /\ UNCHANGED <<slot, fate>>
  /\ UNCHANGED <<page, overlapped>>

------------------------------------------------------------------------------
(* The page.                                                                *)

\* The tab is closed, reloaded or killed: what the page held is gone.  So are the
\* proofs localStorage did not take.
closePage ==
  /\ page /\ page' = FALSE
  /\ buying' = [p \in Payment |-> IF buying[p] = "none" THEN "none" ELSE "done"]
  /\ loops' = [p \in Payment |-> NoLoop] /\ settling' = NoPayment
  /\ fate' = [p \in Payment |-> IF p \notin Storable /\ fate[p] = "owed" THEN "lost" ELSE fate[p]]
  /\ UNCHANGED <<slot, overlapped>>

\* A payment left over from an earlier page is settled on load.
openPage ==
  /\ ~page /\ page' = TRUE
  /\ IF slot = NoPayment THEN UNCHANGED <<loops, settling>> ELSE settle(slot, "posting")
  /\ UNCHANGED <<slot, buying, fate, overlapped>>

PurchaseNext ==
  \/ \E p \in Payment :
       \/ buy(p) \/ orderCreated(p) \/ buyFails(p) \/ paid(p) \/ loopWakes(p)
       \/ \E answer \in Answer : verified(p, answer) \/ loopAnswered(p, answer)
  \/ closePage \/ openPage

PurchaseSpec == PurchaseInit /\ [][PurchaseNext]_purchaseVars

------------------------------------------------------------------------------
(* Properties.                                                              *)

\* A proof the server has neither credited nor refused, before the ten minutes are
\* over, is not lost to a dropped connection or a closed tab (pendingPayment.ts): it
\* is in the slot, if that took it, and an open page pursues it.  Excepted: payments
\* made while another one was unsettled, which share the slot and the loop.
ProofSurvives ==
  \A p \in Payment :
    fate[p] = "owed" /\ p \notin overlapped => (p \in Storable => slot = p) /\ (page => Pursued(p))
=============================================================================
