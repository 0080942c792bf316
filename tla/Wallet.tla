------------------------------- MODULE Wallet -------------------------------
(***************************************************************************)
(* The wallet of one device (backend/src/billing): its balance, the ledger, *)
(* the days of the gender filter it unlocked and the orders it pays.        *)
(*                                                                         *)
(* A call of BillingService awaits the store between any two writes, so the *)
(* webhook and the checkout of one payment, an unlock and coins earned in a *)
(* call interleave.  The store's operations are atomic.  A write may fail,  *)
(* a process may die between two of them, and a write may have been applied  *)
(* although its caller was told that it failed (REDIS_CLIENT_OPTIONS:        *)
(* commandTimeout, and commands sent again after a reconnect).               *)
(***************************************************************************)
EXTENDS Integers, FiniteSetsExt

CONSTANTS
  Order,          \* the orders of this device
  Request,        \* the HTTP requests and rewards under way at once
  InitialCoins,
  PackCoins,      \* order.coins
  Price,          \* costPerDay() * days
  Reward,         \* coins of a reward, and of an admin's correction
  MaxSpending,    \* bound: unlocks, rewards and corrections of one behaviour
  NoOrder

ASSUME WalletAssumption ==
  /\ {InitialCoins, PackCoins, Price, Reward, MaxSpending} \subseteq Nat
  /\ NoOrder \notin Order
  /\ IsFiniteSet(Request)

VARIABLES
  balance,      \* the coins hash of the match store
  ledger,       \* the sum of the ledger's entries
  unlocks,      \* days of the filter granted by extendUnlock
  orders,       \* status of each order record
  payments,     \* Razorpay's state of each payment (external)
  claims,       \* the once: keys
  credits,      \* history: how often the coins of an order were added
  requests,     \* where each request is
  spent,        \* unlocks, rewards and corrections begun
  corrected,    \* history: coins an admin took away
  doubtful,     \* history: orders whose coins were added by an addBalance that threw
  abandoned,    \* history: orders whose claim stays taken and whose coins nobody adds
  mishap        \* history: a request ended after it had moved coins, before it recorded them

walletVars == <<balance, ledger, unlocks, orders, payments, claims, credits,
                requests, spent, corrected, doubtful, abandoned, mishap>>

Places == {"idle", "fetch", "claim", "add", "put", "record", "release", "undo", "extend"}
Resting == [at |-> "idle", order |-> NoOrder, delta |-> 0]

WalletTypeOK ==
  /\ balance \in Int /\ ledger \in Int
  /\ unlocks \in Nat /\ spent \in Nat /\ corrected \in Nat
  /\ orders \in [Order -> {"none", "created", "paid", "expired"}]
  /\ payments \in [Order -> {"none", "authorized", "captured"}]
  /\ claims \subseteq Order /\ doubtful \subseteq Order /\ abandoned \subseteq Order
  /\ credits \in [Order -> Nat]
  /\ requests \in [Request -> [at : Places, order : Order \cup {NoOrder}, delta : Int]]
  /\ mishap \in BOOLEAN

WalletInit ==
  /\ balance = InitialCoins /\ ledger = 0 /\ unlocks = 0
  /\ spent = 0 /\ corrected = 0 /\ doubtful = {} /\ abandoned = {}
  /\ orders = [o \in Order |-> "none"]
  /\ payments = [o \in Order |-> "none"]
  /\ claims = {}
  /\ credits = [o \in Order |-> 0]
  /\ requests = [r \in Request |-> Resting]
  /\ mishap = FALSE

Coins == <<balance, ledger, unlocks, corrected>>
Shop == <<orders, payments>>
Claim == <<claims, credits, doubtful, abandoned>>

Goto(r, at, o, delta) == requests' = [requests EXCEPT ![r] = [at |-> at, order |-> o, delta |-> delta]]
Continue(r, at) == requests' = [requests EXCEPT ![r].at = at]
Return(r) == requests' = [requests EXCEPT ![r] = Resting]

At(r, at) == requests[r].at = at
OrderOf(r) == requests[r].order

-----------------------------------------------------------------------------
(* Orders and payments.                                                     *)

createOrder(o) ==
  /\ orders[o] = "none"
  /\ orders' = [orders EXCEPT ![o] = "created"]
  /\ UNCHANGED <<Coins, payments, Claim, requests, spent, mishap>>

\* External: the buyer pays, Razorpay captures.
Pay(o) ==
  /\ orders[o] # "none"
  /\ \/ payments[o] = "none" /\ payments' = [payments EXCEPT ![o] = "authorized"]
     \/ payments[o] = "authorized" /\ payments' = [payments EXCEPT ![o] = "captured"]
  /\ UNCHANGED <<Coins, orders, Claim, requests, spent, mishap>>

\* UNPAID_ORDER_TTL_MS: the record of an order nobody credited goes.
OrderExpires(o) ==
  /\ orders[o] = "created"
  /\ orders' = [orders EXCEPT ![o] = "expired"]
  /\ UNCHANGED <<Coins, payments, Claim, requests, spent, mishap>>

\* The order is read here, and what was read is used after the awaits.  For a
\* paid or an unknown order the answer changes nothing: no action.
verifyCheckout(r, o) ==
  /\ At(r, "idle") /\ orders[o] = "created"
  /\ Goto(r, "fetch", o, PackCoins)
  /\ UNCHANGED <<Coins, Shop, Claim, spent, mishap>>

\* Captured: credit.  Authorized (payment_pending), or Razorpay fails (upstream): an answer.
fetchPayment(r) ==
  /\ At(r, "fetch")
  /\ \/ payments[OrderOf(r)] = "captured" /\ Continue(r, "claim")
     \/ Return(r)
  /\ UNCHANGED <<Coins, Shop, Claim, spent, mishap>>

\* payment.captured; Razorpay sends it again until it is answered "credited" or "ignored".
handleWebhook(r, o) ==
  /\ At(r, "idle") /\ payments[o] = "captured" /\ orders[o] = "created"
  /\ Goto(r, "claim", o, PackCoins)
  /\ UNCHANGED <<Coins, Shop, Claim, spent, mishap>>

-----------------------------------------------------------------------------
(* credit(): claim, add, put, record.                                       *)

\* Mutant.
claimOnceByRead(r) ==
  /\ At(r, "claim")
  /\ IF orders[OrderOf(r)] = "paid"
     THEN Return(r) /\ UNCHANGED claims
     ELSE Continue(r, "add") /\ claims' = claims \cup {OrderOf(r)}
  /\ UNCHANGED <<Coins, Shop, credits, doubtful, abandoned, spent, mishap>>

claimOnce(r) ==
  /\ At(r, "claim")
  /\ IF OrderOf(r) \in claims
     THEN Return(r) /\ UNCHANGED claims
     ELSE Continue(r, "add") /\ claims' = claims \cup {OrderOf(r)}
  /\ UNCHANGED <<Coins, Shop, credits, doubtful, abandoned, spent, mishap>>

\* The reply of the SET NX is lost, the command sent again: it finds its own key.
claimOnceAgain(r) ==
  /\ At(r, "claim") /\ OrderOf(r) \notin claims
  /\ claims' = claims \cup {OrderOf(r)}
  /\ abandoned' = abandoned \cup {OrderOf(r)}
  /\ Return(r)
  /\ UNCHANGED <<Coins, Shop, credits, doubtful, spent, mishap>>

AddCoins(o) ==
  /\ balance' = balance + PackCoins
  /\ credits' = [credits EXCEPT ![o] = @ + 1]

addBalance(r) ==
  /\ At(r, "add")
  /\ AddCoins(OrderOf(r))
  /\ Continue(r, "put")
  /\ UNCHANGED <<ledger, unlocks, corrected, Shop, claims, doubtful, abandoned, spent, mishap>>

\* addBalance throws: nothing moved, or the coins did and the reply was lost.
addBalanceThrows(r) ==
  /\ At(r, "add")
  /\ Continue(r, "release")
  /\ \/ UNCHANGED <<balance, credits, doubtful, mishap>>
     \/ /\ credits[OrderOf(r)] < 2   \* bound
        /\ AddCoins(OrderOf(r))
        /\ doubtful' = doubtful \cup {OrderOf(r)}
        /\ mishap' = TRUE
  /\ UNCHANGED <<ledger, unlocks, corrected, Shop, claims, abandoned, spent>>

\* Mutant.
releaseNothing(r) ==
  /\ At(r, "release")
  /\ Return(r)
  /\ UNCHANGED <<Coins, Shop, Claim, spent, mishap>>

releaseClaim(r) ==
  /\ At(r, "release")
  /\ claims' = claims \ {OrderOf(r)}
  /\ Return(r)
  /\ UNCHANGED <<Coins, Shop, credits, doubtful, abandoned, spent, mishap>>

putOrder(r) ==
  /\ At(r, "put")
  /\ orders' = [orders EXCEPT ![OrderOf(r)] = "paid"]
  /\ Continue(r, "record")
  /\ UNCHANGED <<Coins, payments, Claim, spent, mishap>>

record(r) ==
  /\ At(r, "record")
  /\ ledger' = ledger + requests[r].delta
  /\ Return(r)
  /\ UNCHANGED <<balance, unlocks, corrected, Shop, Claim, spent, mishap>>

-----------------------------------------------------------------------------
(* Spending and earning.                                                    *)

Begin(r) == At(r, "idle") /\ spent < MaxSpending /\ spent' = spent + 1

\* unlock(): debit takes the price, and looks at what is left.
debit(r) ==
  /\ Begin(r)
  /\ balance' = balance - Price
  /\ Goto(r, IF balance - Price >= 0 THEN "extend" ELSE "undo", NoOrder, -Price)
  /\ UNCHANGED <<ledger, unlocks, corrected, Shop, Claim, mishap>>

\* Mutant.
undoDebitToZero(r) ==
  /\ At(r, "undo")
  /\ balance' = 0
  /\ Return(r)
  /\ UNCHANGED <<ledger, unlocks, corrected, Shop, Claim, spent, mishap>>

undoDebit(r) ==
  /\ At(r, "undo")
  /\ balance' = balance + Price
  /\ Return(r)
  /\ UNCHANGED <<ledger, unlocks, corrected, Shop, Claim, spent, mishap>>

extendUnlock(r) ==
  /\ At(r, "extend")
  /\ unlocks' = unlocks + 1
  /\ Continue(r, "record")
  /\ UNCHANGED <<balance, ledger, corrected, Shop, Claim, spent, mishap>>

earn(r) ==
  /\ Begin(r)
  /\ balance' = balance + Reward
  /\ Goto(r, "record", NoOrder, Reward)
  /\ UNCHANGED <<ledger, unlocks, corrected, Shop, Claim, mishap>>

\* An admin may take the balance below zero on purpose.
adjust(r) ==
  /\ Begin(r)
  /\ balance' = balance - Reward
  /\ corrected' = corrected + Reward
  /\ Goto(r, "record", NoOrder, -Reward)
  /\ UNCHANGED <<ledger, unlocks, Shop, Claim, mishap>>

\* The next write of the request fails, or its process dies before it: the
\* coins it moved stay where they are, and its claim stays taken.
GivenUp(r) ==
  /\ requests[r].at # "idle"
  /\ mishap' = (mishap \/ requests[r].at \in {"put", "record", "extend", "undo"})
  /\ abandoned' = IF requests[r].at \in {"add", "release"} THEN abandoned \cup {OrderOf(r)} ELSE abandoned
  /\ Return(r)
  /\ UNCHANGED <<Coins, Shop, claims, credits, doubtful, spent>>

WalletStep(r) ==
  \/ claimOnce(r) \/ claimOnceAgain(r) \/ addBalance(r) \/ addBalanceThrows(r) \/ releaseClaim(r)
  \/ putOrder(r) \/ record(r) \/ fetchPayment(r)
  \/ debit(r) \/ undoDebit(r) \/ extendUnlock(r) \/ earn(r) \/ adjust(r)
  \/ GivenUp(r)
  \/ \E o \in Order : verifyCheckout(r, o) \/ handleWebhook(r, o)

WalletNext ==
  \/ \E o \in Order : createOrder(o) \/ Pay(o) \/ OrderExpires(o)
  \/ \E r \in Request : WalletStep(r)

WalletSpec == WalletInit /\ [][WalletNext]_walletVars

\* A request goes on, its writes do not fail for ever, and Razorpay repeats the
\* webhook while nobody has acknowledged it.
RequestGoesOn(r) ==
  \/ claimOnce(r) \/ releaseClaim(r) \/ putOrder(r) \/ record(r) \/ fetchPayment(r)
  \/ undoDebit(r) \/ extendUnlock(r)

-----------------------------------------------------------------------------
(* Properties.                                                              *)

\* The webhook and the checkout of one order, and all their retries, credit it
\* at most once; only an addBalance that was applied although it threw makes a
\* second credit possible (credit, claimOnce, releaseClaim).
CreditedOnce == \A o \in Order \ doubtful : credits[o] <= 1

\* BillingService.ts, credit: "a retry can never credit twice".
NeverCreditedTwice == \A o \in Order : credits[o] <= 1

\* What a request added to or took from the balance and has not recorded yet.
Unrecorded(r) ==
  IF requests[r].at \in {"put", "record", "extend", "undo"} THEN requests[r].delta ELSE 0

\* Coins taken by unlocks that will be refused and given back.
OnLoan(r) == IF At(r, "undo") THEN Price ELSE 0

\* The ledger explains the balance: whatever interleaves, the coins are the
\* initial ones, the recorded ones and those of requests under way; a refused
\* unlock leaves no trace (debit's compensating add), an earning meanwhile stays.
\* And unlocks never spend more than there is: with the coins on loan, the balance
\* goes below zero only by what an admin took away.  Excepted is what ends a request after
\* it moved coins: a death or a failed write, or an addBalance applied although it threw.
LedgerExplainsBalance ==
  mishap \/ /\ balance = InitialCoins + ledger + MapThenSumSet(Unrecorded, Request)
            /\ balance + MapThenSumSet(OnLoan, Request) >= -corrected

\* A captured payment is credited in the end, whatever fails on the way, unless its order
\* had expired or its claim was abandoned: the request that took it died before the coins,
\* or before it gave the claim back, or did not know that it was its own (credit,
\* handleWebhook, claimOnce).
PaymentsAreCredited ==
  \A o \in Order :
    payments[o] = "captured" ~> (credits[o] >= 1 \/ o \in abandoned \/ orders[o] = "expired")
=============================================================================
