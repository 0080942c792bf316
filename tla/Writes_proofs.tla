--------------------------- MODULE Writes_proofs ---------------------------
(* Theorems about requests and sections that stop between two writes:         *)
(* Wallet, for any orders, requests, prices and bounds, and RoomWrites, for     *)
(* any sockets, devices, rooms and number of sections cut short.               *)
EXTENDS Wallet, RoomWrites, Inductions, SequenceTheorems, TLAPS

(***************************************************************************)
(* Wallet: types.                                                          *)
(***************************************************************************)

\* A request past its first step of a payment names the order.
PaymentPlaces == {"fetch", "claim", "add", "put", "release"}
OrdersNamed == \A r \in Request : requests[r].at \in PaymentPlaces => requests[r].order \in Order

WalletTyped == WalletTypeOK /\ OrdersNamed

LEMMA ShopType ==
  ASSUME WalletTyped, NEW o \in Order, createOrder(o) \/ Pay(o) \/ OrderExpires(o)
  PROVE  WalletTyped'
BY DEF WalletTyped, WalletTypeOK, OrdersNamed, createOrder, Pay, OrderExpires, Coins, Claim

LEMMA CheckoutType ==
  ASSUME WalletTyped, NEW r \in Request, NEW o \in Order,
         verifyCheckout(r, o) \/ handleWebhook(r, o)
  PROVE  WalletTyped'
BY WalletAssumption DEF WalletTyped, WalletTypeOK, OrdersNamed, verifyCheckout, handleWebhook, Goto, At,
   Coins, Shop, Claim, Places, PaymentPlaces

LEMMA CreditType ==
  ASSUME WalletTyped, NEW r \in Request,
         fetchPayment(r) \/ claimOnce(r) \/ claimOnceAgain(r) \/ addBalance(r)
           \/ addBalanceThrows(r) \/ releaseClaim(r) \/ putOrder(r)
  PROVE  WalletTyped'
<1> USE WalletAssumption DEF WalletTyped, WalletTypeOK, OrdersNamed, At, OrderOf, Places, PaymentPlaces
<1>1. CASE fetchPayment(r)
  BY <1>1 DEF fetchPayment, Continue, Return, Resting, Coins, Shop, Claim
<1>2. CASE claimOnce(r)
  <2>1. CASE OrderOf(r) \in claims
    BY <1>2, <2>1 DEF claimOnce, Return, Resting, Coins, Shop
  <2>2. CASE OrderOf(r) \notin claims
    BY <1>2, <2>2 DEF claimOnce, Continue, Coins, Shop
  <2> QED
    BY <2>1, <2>2
<1>7. CASE claimOnceAgain(r)
  <2>1. claims' \subseteq Order /\ abandoned' \subseteq Order
    BY <1>7 DEF claimOnceAgain
  <2> QED
    BY <1>7, <2>1 DEF claimOnceAgain, Return, Resting, Coins, Shop
<1>3. CASE addBalance(r)
  BY <1>3 DEF addBalance, AddCoins, Continue, Shop
<1>4. CASE addBalanceThrows(r)
  <2>1. CASE UNCHANGED <<balance, credits, doubtful, mishap>>
    BY <1>4, <2>1 DEF addBalanceThrows, Continue, Shop
  <2>2. CASE AddCoins(OrderOf(r)) /\ doubtful' = doubtful \cup {OrderOf(r)} /\ mishap' = TRUE
    BY <1>4, <2>2 DEF addBalanceThrows, AddCoins, Continue, Shop
  <2> QED
    BY <1>4, <2>1, <2>2 DEF addBalanceThrows
<1>5. CASE releaseClaim(r)
  BY <1>5 DEF releaseClaim, Return, Resting, Coins, Shop
<1>6. CASE putOrder(r)
  BY <1>6 DEF putOrder, Continue, Coins, Claim
<1> QED
  BY <1>1, <1>2, <1>3, <1>4, <1>5, <1>6, <1>7

LEMMA SpendingType ==
  ASSUME WalletTyped, NEW r \in Request,
         record(r) \/ debit(r) \/ undoDebit(r) \/ extendUnlock(r) \/ earn(r) \/ adjust(r) \/ GivenUp(r)
  PROVE  WalletTyped'
<1> USE WalletAssumption DEF WalletTyped, WalletTypeOK, OrdersNamed, At, OrderOf, Places, PaymentPlaces
<1>1. CASE record(r)
  BY <1>1 DEF record, Return, Resting, Shop, Claim
<1>6. CASE GivenUp(r)
  <2>1. mishap' \in BOOLEAN
    BY <1>6 DEF GivenUp
  <2>2. abandoned' \subseteq Order
    BY <1>6 DEF GivenUp
  <2> QED
    BY <1>6, <2>1, <2>2 DEF GivenUp, Return, Resting, Coins, Shop
<1>2. CASE debit(r)
  BY <1>2 DEF debit, Begin, Goto, Shop, Claim
<1>3. CASE undoDebit(r)
  BY <1>3 DEF undoDebit, Return, Resting, Shop, Claim
<1>4. CASE extendUnlock(r)
  BY <1>4 DEF extendUnlock, Continue, Shop, Claim
<1>5. CASE earn(r) \/ adjust(r)
  BY <1>5 DEF earn, adjust, Begin, Goto, Shop, Claim
<1> QED
  BY <1>1, <1>2, <1>3, <1>4, <1>5, <1>6

LEMMA WalletNextType ==
  ASSUME WalletTyped, [WalletNext]_walletVars
  PROVE  WalletTyped'
<1>1. CASE UNCHANGED walletVars
  BY <1>1 DEF WalletTyped, WalletTypeOK, OrdersNamed, walletVars
<1>2. ASSUME NEW r \in Request, WalletStep(r)
      PROVE  WalletTyped'
  BY <1>2, CheckoutType, CreditType, SpendingType DEF WalletStep
<1> QED
  BY <1>1, <1>2, ShopType DEF WalletNext

LEMMA WalletInitType == WalletInit => WalletTyped
<1> SUFFICES ASSUME WalletInit PROVE WalletTyped
  OBVIOUS
<1>1. InitialCoins \in Nat
  BY WalletAssumption
<1>2. requests \in [Request -> [at : Places, order : Order \cup {NoOrder}, delta : Int]]
  BY DEF WalletInit, Resting, Places
<1>3. OrdersNamed
  BY DEF WalletInit, OrdersNamed, Resting, PaymentPlaces
<1>4. /\ orders \in [Order -> {"none", "created", "paid", "expired"}]
      /\ payments \in [Order -> {"none", "authorized", "captured"}]
      /\ credits \in [Order -> Nat]
  BY DEF WalletInit
<1>5. balance \in Int
  BY <1>1 DEF WalletInit
<1>6. mishap \in BOOLEAN
  BY Zenon DEF WalletInit
<1>7. /\ ledger \in Int /\ unlocks \in Nat /\ spent \in Nat /\ corrected \in Nat
      /\ claims \subseteq Order /\ doubtful \subseteq Order /\ abandoned \subseteq Order
  BY DEF WalletInit
<1>8. WalletTypeOK
  BY <1>2, <1>4, <1>5, <1>6, <1>7 DEF WalletTypeOK
<1> QED
  BY <1>3, <1>8 DEF WalletTyped

\* Every variable of the wallet keeps its type.
THEOREM WalletTypeCorrect == WalletSpec => []WalletTypeOK
<1>1. WalletTyped => WalletTypeOK
  BY DEF WalletTyped
<1> QED
  BY <1>1, WalletInitType, WalletNextType, PTL DEF WalletSpec

(***************************************************************************)
(* Credits.                                                                *)
(***************************************************************************)

\* The request holds the claim of o and has not added its coins for good.
Crediting(r, o) == requests[r].at \in {"add", "release"} /\ requests[r].order = o

\* Why an order is credited once: its coins are added by the one request that
\* took its claim, and a claim is given back only while they were not added.
ClaimGuards ==
  \A o \in Order \ doubtful :
    /\ credits[o] <= 1
    /\ o \notin claims => credits[o] = 0
    /\ \A r \in Request : Crediting(r, o) => o \in claims /\ credits[o] = 0
    /\ \A r, s \in Request : Crediting(r, o) /\ Crediting(s, o) => r = s

\* Nobody starts to credit an order, and neither its claim nor its credits change.
LEMMA OrderLeftAlone ==
  ASSUME ClaimGuards, UNCHANGED <<claims, credits, doubtful>>,
         \A r \in Request, o \in Order : Crediting(r, o)' => Crediting(r, o)
  PROVE  ClaimGuards'
BY DEF ClaimGuards

LEMMA ClaimGuardsStep ==
  ASSUME WalletTyped, ClaimGuards, NEW r \in Request,
         claimOnce(r) \/ claimOnceAgain(r) \/ addBalance(r) \/ addBalanceThrows(r) \/ releaseClaim(r)
  PROVE  ClaimGuards'
<1> USE DEF WalletTyped, WalletTypeOK, OrdersNamed, At, OrderOf, PaymentPlaces, Crediting, ClaimGuards
<1>1. CASE claimOnce(r)
  <2>1. CASE OrderOf(r) \in claims
    BY <1>1, <2>1 DEF claimOnce, Return, Resting
  <2>2. CASE OrderOf(r) \notin claims
    <3> SUFFICES ASSUME NEW o \in Order \ doubtful'
                 PROVE  /\ credits'[o] <= 1
                        /\ o \notin claims' => credits'[o] = 0
                        /\ \A s \in Request : Crediting(s, o)' => o \in claims' /\ credits'[o] = 0
                        /\ \A s, t \in Request : Crediting(s, o)' /\ Crediting(t, o)' => s = t
      BY DEF ClaimGuards
    <3>1. /\ UNCHANGED <<credits, doubtful>> /\ claims' = claims \cup {OrderOf(r)}
          /\ requests' = [requests EXCEPT ![r].at = "add"]
      BY <1>1, <2>2 DEF claimOnce, Continue
    <3>2. o = OrderOf(r) => credits[o] = 0 /\ \A s \in Request : ~Crediting(s, o)
      BY <2>2, <3>1
    <3>3. \A s \in Request : Crediting(s, o)' => Crediting(s, o) \/ (s = r /\ o = OrderOf(r))
      BY <3>1
    <3> QED
      BY <3>1, <3>2, <3>3
  <2> QED
    BY <2>1, <2>2
<1>2. CASE claimOnceAgain(r)
  BY <1>2 DEF claimOnceAgain, Return, Resting
<1>3. CASE addBalance(r)
  BY <1>3 DEF addBalance, AddCoins, Continue
<1>4. CASE addBalanceThrows(r)
  <2>1. CASE UNCHANGED <<credits, doubtful>>
    BY <1>4, <2>1 DEF addBalanceThrows, Continue
  <2>2. CASE AddCoins(OrderOf(r)) /\ doubtful' = doubtful \cup {OrderOf(r)}
    BY <1>4, <2>2 DEF addBalanceThrows, AddCoins, Continue
  <2> QED
    BY <1>4, <2>1, <2>2 DEF addBalanceThrows
<1>5. CASE releaseClaim(r)
  BY <1>5 DEF releaseClaim, Return, Resting
<1> QED
  BY <1>1, <1>2, <1>3, <1>4, <1>5

LEMMA ClaimGuardsElsewhere ==
  ASSUME WalletTyped, ClaimGuards, NEW r \in Request,
         \/ putOrder(r) \/ record(r) \/ fetchPayment(r) \/ debit(r) \/ undoDebit(r)
         \/ extendUnlock(r) \/ earn(r) \/ adjust(r) \/ GivenUp(r)
         \/ \E o \in Order : verifyCheckout(r, o) \/ handleWebhook(r, o)
  PROVE  ClaimGuards'
<1>1. UNCHANGED <<claims, credits, doubtful>>
  BY DEF putOrder, record, fetchPayment, debit, undoDebit, extendUnlock, earn, adjust, GivenUp,
         verifyCheckout, handleWebhook, Claim
<1>2. PICK at \in Places \ {"add", "release"}, o \in Order \cup {NoOrder} :
        \E delta : requests' = [requests EXCEPT ![r] = [at |-> at, order |-> o, delta |-> delta]]
  BY DEF putOrder, record, fetchPayment, debit, undoDebit, extendUnlock, earn, adjust, GivenUp,
         verifyCheckout, handleWebhook, Goto, Return, Continue, Resting, Places, WalletTyped, WalletTypeOK
<1>3. \A s \in Request, q \in Order : Crediting(s, q)' => Crediting(s, q)
  BY <1>2 DEF Crediting, WalletTyped, WalletTypeOK
<1> QED
  BY <1>1, <1>3, OrderLeftAlone

LEMMA ClaimGuardsNext ==
  ASSUME WalletTyped, ClaimGuards, [WalletNext]_walletVars
  PROVE  ClaimGuards'
<1>1. CASE UNCHANGED walletVars
  BY <1>1, OrderLeftAlone DEF walletVars, Claim, Crediting
<1>2. ASSUME NEW o \in Order, createOrder(o) \/ Pay(o) \/ OrderExpires(o)
      PROVE  ClaimGuards'
  BY <1>2, OrderLeftAlone DEF createOrder, Pay, OrderExpires, Claim, Crediting
<1>3. ASSUME NEW r \in Request, WalletStep(r)
      PROVE  ClaimGuards'
  BY <1>3, ClaimGuardsStep, ClaimGuardsElsewhere DEF WalletStep
<1> QED
  BY <1>1, <1>2, <1>3 DEF WalletNext

\* The webhook, the checkout and all their retries credit an order at most once
\* (credit, claimOnce, releaseClaim), for any number of orders and requests.
THEOREM CreditedAtMostOnce == WalletSpec => []CreditedOnce
<1>1. WalletInit => ClaimGuards
  BY DEF WalletInit, ClaimGuards, Crediting, Resting
<1>2. ClaimGuards => CreditedOnce
  BY DEF ClaimGuards, CreditedOnce
<1> QED
  BY <1>1, <1>2, WalletInitType, WalletNextType, ClaimGuardsNext, PTL DEF WalletSpec

\* Coins of an order that was added once for certain never come with its claim
\* free again: no later retry finds the order claimable.
ClaimOutlivesCredit == \A o \in Order \ doubtful : credits[o] = 1 => o \in claims

\* The claim of a credited order is never released (releaseClaim).
THEOREM ClaimIsKept == WalletSpec => []ClaimOutlivesCredit
<1>1. WalletInit => ClaimGuards
  BY DEF WalletInit, ClaimGuards, Crediting, Resting
<1>2. ClaimGuards => ClaimOutlivesCredit
  BY DEF ClaimGuards, ClaimOutlivesCredit
<1> QED
  BY <1>1, <1>2, WalletInitType, WalletNextType, ClaimGuardsNext, PTL DEF WalletSpec

(***************************************************************************)
(* Sums over the requests.  MapThenSumSet is a fold: a function of the sets   *)
(* of requests that is its own total over the set without its first element. *)
(* The library's induction takes an operator as a parameter; the induction    *)
(* here is over a set of sets, from the least number of a set of naturals.    *)
(***************************************************************************)

\* The element a fold over a set takes first.
First(s) == CHOOSE x \in s : TRUE

\* g gives the total of F over every set of requests, taken in the order of First.
Totals(g, F) ==
  /\ g \in [SUBSET Request -> Int]
  /\ \A s \in SUBSET Request : g[s] = IF s = {} THEN 0 ELSE F[First(s)] + g[s \ {First(s)}]

\* What is taken first from a set is in it.
LEMMA FirstIsIn ==
  ASSUME NEW s, s # {}
  PROVE  First(s) \in s
BY DEF First

\* Without its first element a set of requests is smaller.
LEMMA RestIsSmaller ==
  ASSUME NEW s \in SUBSET Request, s # {}
  PROVE  /\ s \ {First(s)} \in SUBSET Request
         /\ IsFiniteSet(s) /\ Cardinality(s) \in Nat
         /\ Cardinality(s \ {First(s)}) = Cardinality(s) - 1
<1>1. IsFiniteSet(s) /\ Cardinality(s) \in Nat
  BY FS_Subset, FS_CardinalityType, WalletAssumption
<1>2. First(s) \in s
  BY FirstIsIn
<1> QED
  BY <1>1, <1>2, FS_RemoveElement

\* A set of sets of requests that holds each set whose rest it holds, holds them all.
LEMMA EverySetOfRequests ==
  ASSUME NEW Q,
         \A s \in SUBSET Request : (s = {} \/ s \ {First(s)} \in Q) => s \in Q
  PROVE  SUBSET Request \subseteq Q
<1> DEFINE T == {n \in Nat : \E s \in SUBSET Request : s \notin Q /\ Cardinality(s) = n}
<1> SUFFICES ASSUME NEW u \in SUBSET Request, u \notin Q PROVE FALSE
  OBVIOUS
<1>1. Cardinality(u) \in Nat
  BY FS_Subset, FS_CardinalityType, WalletAssumption
<1>2. T # {} /\ T \in SUBSET Nat
  BY <1>1
<1>3. PICK n \in T : \A m \in T : n <= m
  BY <1>2, LeastNumber
<1>4. PICK s \in SUBSET Request : s \notin Q /\ Cardinality(s) = n
  BY <1>3
<1>5. s # {} /\ s \ {First(s)} \notin Q
  BY <1>4
<1>6. /\ s \ {First(s)} \in SUBSET Request /\ Cardinality(s) \in Nat
      /\ Cardinality(s \ {First(s)}) = Cardinality(s) - 1
  BY <1>5, RestIsSmaller
<1>7. Cardinality(s \ {First(s)}) \in Nat
  BY <1>6, FS_Subset, FS_CardinalityType, WalletAssumption
<1>8. n - 1 \in T
  BY <1>4, <1>5, <1>6, <1>7
<1> QED
  BY <1>2, <1>3, <1>8

\* Every function of the requests has its totals.
LEMMA TotalsExist ==
  ASSUME NEW F \in [Request -> Int]
  PROVE  \E g : Totals(g, F)
<1> DEFINE Upto(g, n) ==
             \A s \in SUBSET Request : Cardinality(s) <= n =>
               g[s] = IF s = {} THEN 0 ELSE F[First(s)] + g[s \ {First(s)}]
           Reached == {n \in Nat : \E g \in [SUBSET Request -> Int] : Upto(g, n)}
<1>1. 0 \in Reached
  <2>1. \A s \in SUBSET Request : Cardinality(s) <= 0 => s = {}
    BY FS_Subset, FS_CardinalityType, FS_EmptySet, WalletAssumption
  <2>2. Upto([s \in SUBSET Request |-> 0], 0)
    BY <2>1
  <2>3. [s \in SUBSET Request |-> 0] \in [SUBSET Request -> Int]
    OBVIOUS
  <2> QED
    BY <2>2, <2>3
<1>2. ASSUME NEW n \in Reached
      PROVE  n + 1 \in Reached
  <2>1. n \in Nat
    OBVIOUS
  <2>2. PICK g \in [SUBSET Request -> Int] : Upto(g, n)
    OBVIOUS
  <2> DEFINE h == [s \in SUBSET Request |-> IF s = {} THEN 0 ELSE F[First(s)] + g[s \ {First(s)}]]
  <2>3. \A s \in SUBSET Request : s # {} =>
          First(s) \in Request /\ s \ {First(s)} \in SUBSET Request
    BY FirstIsIn
  <2>4. h \in [SUBSET Request -> Int]
    BY <2>3
  <2>5. ASSUME NEW s \in SUBSET Request, Cardinality(s) <= n + 1, s # {}
        PROVE  h[s] = F[First(s)] + h[s \ {First(s)}]
    <3>1. /\ s \ {First(s)} \in SUBSET Request /\ Cardinality(s) \in Nat
          /\ Cardinality(s \ {First(s)}) = Cardinality(s) - 1
      BY <2>5, RestIsSmaller
    <3>2. Cardinality(s \ {First(s)}) <= n
      BY <2>1, <2>5, <3>1
    <3> DEFINE t == s \ {First(s)}
    <3>3. h[s] = F[First(s)] + g[t]
      BY <2>5
    <3>4. g[t] = IF t = {} THEN 0 ELSE F[First(t)] + g[t \ {First(t)}]
      BY <2>2, <3>1, <3>2
    <3>5. h[t] = IF t = {} THEN 0 ELSE F[First(t)] + g[t \ {First(t)}]
      BY <3>1
    <3>6. h[t] = g[t]
      BY <3>4, <3>5
    <3> QED
      BY <3>3, <3>6
  <2>6. h[{}] = 0
    OBVIOUS
  <2>7. Upto(h, n + 1)
    BY <2>5, <2>6
  <2> HIDE DEF h, Upto
  <2>8. n + 1 \in Nat
    BY <2>1
  <2> QED
    BY <2>4, <2>7, <2>8
<1> HIDE DEF Reached
<1>3. Nat \subseteq Reached
  <2> SUFFICES ASSUME NEW k \in Nat, k \notin Reached PROVE FALSE
    OBVIOUS
  <2> DEFINE T == {m \in Nat : m \notin Reached}
  <2>1. PICK n \in T : \A m \in T : n <= m
    <3>1. T # {} /\ T \in SUBSET Nat
      OBVIOUS
    <3> HIDE DEF T
    <3> QED
      BY <3>1, LeastNumber
  <2>2. n # 0 /\ n - 1 \in Nat
    BY <1>1
  <2>3. n - 1 \in Reached
    BY <2>1, <2>2
  <2> QED
    BY <1>2, <2>2, <2>3
<1>4. Cardinality(Request) \in Reached
  BY <1>3, FS_CardinalityType, WalletAssumption
<1>5. PICK g \in [SUBSET Request -> Int] : Upto(g, Cardinality(Request))
  BY <1>4 DEF Reached
<1>6. \A s \in SUBSET Request : Cardinality(s) <= Cardinality(Request)
  BY FS_Subset, WalletAssumption
<1>7. Totals(g, F)
  BY <1>5, <1>6 DEF Totals
<1> QED
  BY <1>7

\* Where two functions differ in one request, their totals differ by as much.
LEMMA TotalsDiffer ==
  ASSUME NEW F \in [Request -> Int], NEW G \in [Request -> Int], NEW g, NEW h,
         Totals(g, F), Totals(h, G), NEW r \in Request,
         \A s \in Request \ {r} : G[s] = F[s]
  PROVE  h[Request] = g[Request] + (G[r] - F[r])
<1> DEFINE Q == {s \in SUBSET Request : h[s] = g[s] + (IF r \in s THEN G[r] - F[r] ELSE 0)}
<1>1. ASSUME NEW s \in SUBSET Request, s = {} \/ s \ {First(s)} \in Q
      PROVE  s \in Q
  <2>1. CASE s = {}
    <3>1. g[s] = 0 /\ h[s] = 0 /\ r \notin s
      BY <2>1 DEF Totals
    <3> QED
      BY <3>1
  <2>2. ASSUME s # {} PROVE s \in Q
    <3> DEFINE x == First(s)
               t == s \ {x}
    <3>1. x \in s /\ x \in Request
      BY <2>2, FirstIsIn
    <3>2. t \in Q /\ t \in SUBSET Request
      BY <1>1, <2>2
    <3>3. g[s] = F[x] + g[t] /\ h[s] = G[x] + h[t]
      BY <2>2 DEF Totals
    <3>4. g[t] \in Int /\ h[t] \in Int /\ F[x] \in Int /\ G[x] \in Int /\ F[r] \in Int /\ G[r] \in Int
      BY <3>1, <3>2 DEF Totals
    <3>5. h[t] = g[t] + (IF r \in t THEN G[r] - F[r] ELSE 0)
      BY <3>2
    <3>6. CASE x = r
      <4>1. r \notin t /\ r \in s
        BY <3>1, <3>6
      <4>2. h[s] = g[s] + (G[r] - F[r])
        BY <3>3, <3>4, <3>5, <3>6, <4>1
      <4> QED
        BY <4>1, <4>2
    <3>7. CASE x # r
      <4>1. r \in t <=> r \in s
        BY <3>7
      <4>2. G[x] = F[x]
        BY <3>1, <3>7
      <4>3. h[s] = g[s] + (IF r \in t THEN G[r] - F[r] ELSE 0)
        BY <3>3, <3>4, <3>5, <4>2
      <4> QED
        BY <4>1, <4>3
    <3> QED
      BY <3>6, <3>7
  <2> QED
    BY <2>1, <2>2
<1>2. SUBSET Request \subseteq Q
  <2> HIDE DEF Q
  <2> QED
    BY <1>1, EverySetOfRequests
<1>3. Request \in Q
  BY <1>2
<1> QED
  BY <1>3

\* The total of zeros is zero.
LEMMA TotalsOfZeros ==
  ASSUME NEW F \in [Request -> {0}], NEW g, Totals(g, F)
  PROVE  g[Request] = 0
<1> DEFINE Q == {s \in SUBSET Request : g[s] = 0}
<1>1. ASSUME NEW s \in SUBSET Request, s = {} \/ s \ {First(s)} \in Q
      PROVE  s \in Q
  <2>1. CASE s = {}
    <3>1. g[s] = 0
      BY <2>1 DEF Totals
    <3> QED
      BY <3>1
  <2>2. CASE s # {}
    <3>1. First(s) \in Request
      BY <2>2, FirstIsIn
    <3>2. g[s] = F[First(s)] + g[s \ {First(s)}]
      BY <2>2 DEF Totals
    <3>3. F[First(s)] = 0 /\ g[s \ {First(s)}] = 0
      BY <1>1, <2>2, <3>1
    <3> QED
      BY <3>2, <3>3
  <2> QED
    BY <2>1, <2>2
<1>2. SUBSET Request \subseteq Q
  <2> HIDE DEF Q
  <2> QED
    BY <1>1, EverySetOfRequests
<1>3. Request \in Q
  BY <1>2
<1> QED
  BY <1>3

\* A total of naturals is not negative.
LEMMA TotalsOfNaturals ==
  ASSUME NEW F \in [Request -> Nat], NEW g, Totals(g, F)
  PROVE  g[Request] >= 0
<1> DEFINE Q == {s \in SUBSET Request : g[s] >= 0}
<1>1. ASSUME NEW s \in SUBSET Request, s = {} \/ s \ {First(s)} \in Q
      PROVE  s \in Q
  <2>1. CASE s = {}
    <3>1. g[s] = 0
      BY <2>1 DEF Totals
    <3> QED
      BY <3>1
  <2>2. CASE s # {}
    <3>1. First(s) \in Request
      BY <2>2, FirstIsIn
    <3>2. g[s] = F[First(s)] + g[s \ {First(s)}]
      BY <2>2 DEF Totals
    <3>3. F[First(s)] \in Nat /\ g[s \ {First(s)}] >= 0 /\ g[s \ {First(s)}] \in Int
      BY <1>1, <2>2, <3>1 DEF Totals
    <3> QED
      BY <3>2, <3>3
  <2> QED
    BY <2>1, <2>2
<1>2. SUBSET Request \subseteq Q
  <2> HIDE DEF Q
  <2> QED
    BY <1>1, EverySetOfRequests
<1>3. Request \in Q
  BY <1>2
<1> QED
  BY <1>3

(***************************************************************************)
(* The ledger.                                                             *)
(***************************************************************************)

\* The terms of the two sums of LedgerExplainsBalance, as functions.
UnrecordedCoins == [r \in Request |-> Unrecorded(r)]
CoinsOnLoan == [r \in Request |-> OnLoan(r)]

\* The sum over the requests is the total of its terms.
LEMMA SumUnrecorded ==
  ASSUME UnrecordedCoins \in [Request -> Int], NEW g, Totals(g, UnrecordedCoins)
  PROVE  MapThenSumSet(Unrecorded, Request) = g[Request]
<1> DEFINE Body(f) == [s \in SUBSET Request |->
             IF s = {} THEN 0
             ELSE Unrecorded(CHOOSE x \in s : TRUE) + f[s \ {CHOOSE x \in s : TRUE}]]
           it == CHOOSE f : f = Body(f)
           Q == {s \in SUBSET Request : it[s] = g[s]}
<1>1. \A s \in SUBSET Request : s # {} => First(s) \in Request /\ UnrecordedCoins[First(s)] = Unrecorded(First(s))
  BY FirstIsIn DEF UnrecordedCoins
<1>2. g = Body(g)
  BY <1>1 DEF Totals, First
<1>3. it = Body(it)
  BY <1>2
<1>4. MapThenSumSet(Unrecorded, Request) = it[Request]
  BY DEF MapThenSumSet, MapThenFoldSet
<1> HIDE DEF it
<1>5. \A s \in SUBSET Request :
        it[s] = IF s = {} THEN 0 ELSE Unrecorded(First(s)) + it[s \ {First(s)}]
  BY <1>3 DEF First
<1>6. \A s \in SUBSET Request :
        g[s] = IF s = {} THEN 0 ELSE Unrecorded(First(s)) + g[s \ {First(s)}]
  BY <1>1 DEF Totals
<1>7. \A s \in SUBSET Request : (s = {} \/ s \ {First(s)} \in Q) => s \in Q
  BY <1>5, <1>6
<1>8. SUBSET Request \subseteq Q
  <2> HIDE DEF Q
  <2> QED
    BY <1>7, EverySetOfRequests
<1> QED
  BY <1>4, <1>8

\* The same of the coins on loan.
LEMMA SumOnLoan ==
  ASSUME CoinsOnLoan \in [Request -> Int], NEW g, Totals(g, CoinsOnLoan)
  PROVE  MapThenSumSet(OnLoan, Request) = g[Request]
<1> DEFINE Body(f) == [s \in SUBSET Request |->
             IF s = {} THEN 0
             ELSE OnLoan(CHOOSE x \in s : TRUE) + f[s \ {CHOOSE x \in s : TRUE}]]
           it == CHOOSE f : f = Body(f)
           Q == {s \in SUBSET Request : it[s] = g[s]}
<1>1. \A s \in SUBSET Request : s # {} => First(s) \in Request /\ CoinsOnLoan[First(s)] = OnLoan(First(s))
  BY FirstIsIn DEF CoinsOnLoan
<1>2. g = Body(g)
  BY <1>1 DEF Totals, First
<1>3. it = Body(it)
  BY <1>2
<1>4. MapThenSumSet(OnLoan, Request) = it[Request]
  BY DEF MapThenSumSet, MapThenFoldSet
<1> HIDE DEF it
<1>5. \A s \in SUBSET Request :
        it[s] = IF s = {} THEN 0 ELSE OnLoan(First(s)) + it[s \ {First(s)}]
  BY <1>3 DEF First
<1>6. \A s \in SUBSET Request :
        g[s] = IF s = {} THEN 0 ELSE OnLoan(First(s)) + g[s \ {First(s)}]
  BY <1>1 DEF Totals
<1>7. \A s \in SUBSET Request : (s = {} \/ s \ {First(s)} \in Q) => s \in Q
  BY <1>5, <1>6
<1>8. SUBSET Request \subseteq Q
  <2> HIDE DEF Q
  <2> QED
    BY <1>7, EverySetOfRequests
<1> QED
  BY <1>4, <1>8

\* What a request carries is what it adds to the coins, or takes from them.
Deltas ==
  \A r \in Request :
    /\ requests[r].at \in {"fetch", "claim", "add", "put"} => requests[r].delta = PackCoins
    /\ requests[r].at \in {"extend", "undo"} => requests[r].delta = -Price

Explained ==
  mishap \/ \A g, h : Totals(g, UnrecordedCoins) /\ Totals(h, CoinsOnLoan) =>
              /\ balance = InitialCoins + ledger + g[Request]
              /\ balance + h[Request] >= -corrected

LEMMA SumTypes ==
  ASSUME WalletTyped
  PROVE  UnrecordedCoins \in [Request -> Int] /\ CoinsOnLoan \in [Request -> Nat]
BY WalletAssumption DEF WalletTyped, WalletTypeOK, UnrecordedCoins, CoinsOnLoan, Unrecorded, OnLoan

\* A step of one request that moves its unrecorded coins as it moves the balance and
\* the ledger, and overspends nothing.
Accounts(r) ==
  /\ UnrecordedCoins'[r] - UnrecordedCoins[r] = (balance' - balance) - (ledger' - ledger)
  /\ \/ balance' + CoinsOnLoan'[r] + corrected' >= balance + CoinsOnLoan[r] + corrected
     \/ balance' + corrected' >= 0

LEMMA ExplainedStep ==
  ASSUME WalletTyped, WalletTyped', Explained, NEW r \in Request,
         \A s \in Request \ {r} : requests'[s] = requests[s],
         mishap \/ mishap' \/ Accounts(r)
  PROVE  mishap \/ Explained'
<1> SUFFICES ASSUME ~mishap, ~mishap' PROVE Explained'
  BY DEF Explained
<1> SUFFICES ASSUME NEW g, NEW h, Totals(g, UnrecordedCoins'), Totals(h, CoinsOnLoan')
             PROVE  /\ balance' = InitialCoins + ledger' + g[Request]
                    /\ balance' + h[Request] >= -corrected'
  BY DEF Explained, Totals
<1>1. Accounts(r)
  OBVIOUS
<1>2. UnrecordedCoins \in [Request -> Int] /\ CoinsOnLoan \in [Request -> Nat]
  BY SumTypes
<1>3. UnrecordedCoins' \in [Request -> Int] /\ CoinsOnLoan' \in [Request -> Nat]
  BY WalletAssumption DEF WalletTyped, WalletTypeOK, UnrecordedCoins, CoinsOnLoan, Unrecorded, OnLoan
<1>4. CoinsOnLoan \in [Request -> Int] /\ CoinsOnLoan' \in [Request -> Int]
  BY <1>2, <1>3
<1>5. PICK p : Totals(p, UnrecordedCoins)
  BY <1>2, TotalsExist
<1>6. PICK q : Totals(q, CoinsOnLoan)
  BY <1>4, TotalsExist
<1>7. \A s \in Request \ {r} : UnrecordedCoins'[s] = UnrecordedCoins[s] /\ CoinsOnLoan'[s] = CoinsOnLoan[s]
  BY DEF UnrecordedCoins, CoinsOnLoan, Unrecorded, OnLoan, At
<1>8. g[Request] = p[Request] + (UnrecordedCoins'[r] - UnrecordedCoins[r])
  BY <1>2, <1>3, <1>5, <1>7, TotalsDiffer
<1>9. h[Request] = q[Request] + (CoinsOnLoan'[r] - CoinsOnLoan[r])
  BY <1>4, <1>6, <1>7, TotalsDiffer
<1>10. h[Request] >= 0
  BY <1>3, TotalsOfNaturals
<1>11. /\ balance = InitialCoins + ledger + p[Request]
       /\ balance + q[Request] >= -corrected
  BY <1>5, <1>6 DEF Explained
<1>12. /\ p[Request] \in Int /\ g[Request] \in Int /\ q[Request] \in Int /\ h[Request] \in Int
  BY <1>5, <1>6 DEF Totals
<1>13. /\ balance \in Int /\ ledger \in Int /\ corrected \in Int /\ InitialCoins \in Int
       /\ balance' \in Int /\ ledger' \in Int /\ corrected' \in Int
       /\ UnrecordedCoins[r] \in Int /\ UnrecordedCoins'[r] \in Int
       /\ CoinsOnLoan[r] \in Int /\ CoinsOnLoan'[r] \in Int
  BY <1>2, <1>3, <1>4, WalletAssumption DEF WalletTyped, WalletTypeOK
<1>14. balance' = InitialCoins + ledger' + g[Request]
  BY <1>1, <1>8, <1>11, <1>12, <1>13 DEF Accounts
<1>15. balance' + h[Request] >= -corrected'
  <2>1. CASE balance' + CoinsOnLoan'[r] + corrected' >= balance + CoinsOnLoan[r] + corrected
    BY <2>1, <1>9, <1>11, <1>12, <1>13
  <2>2. CASE balance' + corrected' >= 0
    <3>1. \A b, c, k \in Int : b + c >= 0 /\ k >= 0 => b + k >= -c
      OBVIOUS
    <3>2. balance' \in Int /\ corrected' \in Int /\ h[Request] \in Int
      BY <1>12, <1>13
    <3> QED
      BY <2>2, <1>10, <3>1, <3>2
  <2> QED
    BY <1>1, <2>1, <2>2 DEF Accounts
<1> QED
  BY <1>14, <1>15

LEMMA LedgerStep ==
  ASSUME WalletTyped, WalletTyped', Deltas, NEW r \in Request, WalletStep(r)
  PROVE  /\ Deltas'
         /\ \A s \in Request \ {r} : requests'[s] = requests[s]
         /\ mishap => mishap'
         /\ mishap \/ mishap' \/ Accounts(r)
<1> DEFINE Goal == /\ Deltas'
                   /\ \A s \in Request \ {r} : requests'[s] = requests[s]
                   /\ mishap => mishap'
                   /\ mishap \/ mishap' \/ Accounts(r)
<1>1. /\ balance \in Int /\ ledger \in Int /\ corrected \in Nat
      /\ Price \in Nat /\ PackCoins \in Nat /\ Reward \in Nat /\ requests[r].delta \in Int
      /\ requests \in [Request -> [at : Places, order : Order \cup {NoOrder}, delta : Int]]
      /\ DOMAIN requests = Request
  BY WalletAssumption DEF WalletTyped, WalletTypeOK
<1>2. /\ UnrecordedCoins[r] = Unrecorded(r) /\ UnrecordedCoins'[r] = Unrecorded(r)'
      /\ CoinsOnLoan[r] = OnLoan(r) /\ CoinsOnLoan'[r] = OnLoan(r)'
  BY DEF UnrecordedCoins, CoinsOnLoan
<1> USE <1>1, <1>2 DEF Deltas, Accounts, Unrecorded, OnLoan, At
<1>3. CASE fetchPayment(r)
  BY <1>3 DEF fetchPayment, Continue, Return, Resting, Coins, Shop, Claim
<1>4. CASE claimOnce(r)
  BY <1>4 DEF claimOnce, Continue, Return, Resting, Coins, Shop
<1>5. CASE claimOnceAgain(r)
  BY <1>5 DEF claimOnceAgain, Return, Resting, Coins, Shop
<1>6. CASE addBalance(r)
  BY <1>6 DEF addBalance, AddCoins, Continue, Shop
<1>7. CASE addBalanceThrows(r)
  BY <1>7 DEF addBalanceThrows, AddCoins, Continue, Shop
<1>8. CASE releaseClaim(r)
  BY <1>8 DEF releaseClaim, Return, Resting, Coins, Shop
<1>9. CASE putOrder(r)
  BY <1>9 DEF putOrder, Continue, Coins, Claim
<1>10. CASE record(r)
  BY <1>10 DEF record, Return, Resting, Shop, Claim
<1>11. CASE debit(r)
  <2>1. CASE balance - Price >= 0
    BY <1>11, <2>1 DEF debit, Begin, Goto, Shop, Claim
  <2>2. CASE ~(balance - Price >= 0)
    BY <1>11, <2>2 DEF debit, Begin, Goto, Shop, Claim
  <2> QED
    BY <2>1, <2>2
<1>12. CASE undoDebit(r)
  BY <1>12 DEF undoDebit, Return, Resting, Shop, Claim
<1>13. CASE extendUnlock(r)
  BY <1>13 DEF extendUnlock, Continue, Shop, Claim
<1>14. CASE earn(r)
  BY <1>14 DEF earn, Begin, Goto, Shop, Claim
<1>15. CASE adjust(r)
  BY <1>15 DEF adjust, Begin, Goto, Shop, Claim
<1>16. CASE GivenUp(r)
  <2>1. Deltas' /\ \A s \in Request \ {r} : requests'[s] = requests[s]
    BY <1>16 DEF GivenUp, Return, Resting
  <2>2. mishap => mishap'
    BY <1>16, Zenon DEF GivenUp
  <2>3. CASE requests[r].at \in {"put", "record", "extend", "undo"}
    <3>1. mishap'
      BY <1>16, <2>3, Zenon DEF GivenUp
    <3> QED
      BY <2>1, <2>2, <3>1
  <2>4. CASE requests[r].at \notin {"put", "record", "extend", "undo"}
    <3>1. Accounts(r)
      BY <1>16, <2>4 DEF GivenUp, Return, Resting, Coins
    <3> QED
      BY <2>1, <2>2, <3>1
  <2> QED
    BY <2>3, <2>4
<1>17. ASSUME NEW o \in Order, verifyCheckout(r, o) \/ handleWebhook(r, o) PROVE Goal
  BY <1>17 DEF verifyCheckout, handleWebhook, Goto, Coins, Shop, Claim
<1> QED
  BY <1>3, <1>4, <1>5, <1>6, <1>7, <1>8, <1>9, <1>10, <1>11, <1>12, <1>13, <1>14, <1>15, <1>16, <1>17
     DEF WalletStep

LEMMA LedgerNext ==
  ASSUME WalletTyped, Deltas, Explained, [WalletNext]_walletVars
  PROVE  Deltas' /\ Explained'
<1>1. CASE UNCHANGED <<balance, ledger, corrected, requests, mishap>>
  <2>1. Deltas'
    BY <1>1 DEF Deltas
  <2>2. UnrecordedCoins' = UnrecordedCoins /\ CoinsOnLoan' = CoinsOnLoan
    BY <1>1 DEF UnrecordedCoins, CoinsOnLoan, Unrecorded, OnLoan, At
  <2>3. Explained'
    BY <1>1, <2>2, Zenon DEF Explained, Totals
  <2> QED
    BY <2>1, <2>3
<1>2. ASSUME NEW o \in Order, createOrder(o) \/ Pay(o) \/ OrderExpires(o)
      PROVE  UNCHANGED <<balance, ledger, corrected, requests, mishap>>
  BY <1>2 DEF createOrder, Pay, OrderExpires, Coins
<1>3. ASSUME NEW r \in Request, WalletStep(r)
      PROVE  Deltas' /\ Explained'
  <2>1. WalletTyped'
    BY WalletNextType
  <2>2. /\ Deltas'
        /\ \A s \in Request \ {r} : requests'[s] = requests[s]
        /\ mishap => mishap'
        /\ mishap \/ mishap' \/ Accounts(r)
    BY <1>3, <2>1, LedgerStep
  <2>3. mishap \/ Explained'
    BY <2>1, <2>2, ExplainedStep
  <2>4. mishap' => Explained'
    BY DEF Explained
  <2> QED
    BY <2>2, <2>3, <2>4
<1> QED
  BY <1>1, <1>2, <1>3 DEF WalletNext, walletVars

LEMMA LedgerInit == WalletInit => Deltas /\ Explained
<1> SUFFICES ASSUME WalletInit PROVE Deltas /\ Explained
  OBVIOUS
<1>1. Deltas
  BY DEF WalletInit, Deltas, Resting
<1>2. UnrecordedCoins \in [Request -> {0}] /\ CoinsOnLoan \in [Request -> {0}]
  BY DEF WalletInit, Resting, UnrecordedCoins, CoinsOnLoan, Unrecorded, OnLoan, At
<1>3. \A g, h : Totals(g, UnrecordedCoins) /\ Totals(h, CoinsOnLoan) => g[Request] = 0 /\ h[Request] = 0
  BY <1>2, TotalsOfZeros
<1>4. balance = InitialCoins /\ ledger = 0 /\ corrected = 0 /\ InitialCoins \in Nat
  BY WalletAssumption DEF WalletInit
<1> QED
  BY <1>1, <1>3, <1>4 DEF Explained

LEMMA LedgerImplied == WalletTyped /\ Explained => LedgerExplainsBalance
<1> SUFFICES ASSUME WalletTyped, Explained PROVE LedgerExplainsBalance
  OBVIOUS
<1>1. UnrecordedCoins \in [Request -> Int] /\ CoinsOnLoan \in [Request -> Int]
  BY SumTypes
<1>2. PICK g : Totals(g, UnrecordedCoins)
  BY <1>1, TotalsExist
<1>3. PICK h : Totals(h, CoinsOnLoan)
  BY <1>1, TotalsExist
<1>4. MapThenSumSet(Unrecorded, Request) = g[Request]
  BY <1>1, <1>2, SumUnrecorded
<1>5. MapThenSumSet(OnLoan, Request) = h[Request]
  BY <1>1, <1>3, SumOnLoan
<1> QED
  BY <1>2, <1>3, <1>4, <1>5 DEF Explained, LedgerExplainsBalance

\* However credits, unlocks, rewards and corrections interleave, the ledger and the
\* requests under way account for every coin, and unlocks spend no coin that is not
\* there (debit, undoDebit, addBalance, record), for any finite number of requests,
\* unless one was cut short between two writes.
THEOREM LedgerExplainsCorrect == WalletSpec => []LedgerExplainsBalance
<1>1. WalletTyped /\ Deltas /\ Explained /\ [WalletNext]_walletVars
        => WalletTyped' /\ Deltas' /\ Explained'
  BY WalletNextType, LedgerNext
<1>2. WalletInit => WalletTyped /\ Deltas /\ Explained
  BY WalletInitType, LedgerInit
<1> QED
  BY <1>1, <1>2, LedgerImplied, PTL DEF WalletSpec

(***************************************************************************)
(* RoomWrites: what the writes of a section make of Redis and of the tabs.  *)
(***************************************************************************)

DB == [seat : [Socket -> Seats], room : [Socket -> RoomId \cup {NoRoom}],
       queue : SUBSET Socket, bound : [Owner -> Socket \cup {NoSocket}],
       phase : [RoomId -> {"gone"} \cup Taken],
       members : [RoomId -> Seq(Socket)], accepted : [RoomId -> SUBSET Socket]]
Shown == [Socket -> RoomId \cup {NoRoom}]
States == [db : DB, sh : Shown]

Writes ==
  [op : {"putSession"}, socket : Socket, seat : Seats, room : RoomId \cup {NoRoom}]
    \cup [op : {"deleteSession", "setDeviceSocket", "clearDeviceSocket", "addWaiting",
                "removeWaiting", "disconnect"}, socket : Socket]
    \cup [op : {"putRoom"}, room : RoomId, phase : Taken, members : Seq(Socket), accepted : SUBSET Socket]
    \cup [op : {"deleteRoom"}, room : RoomId]
    \cup [op : {"match:found", "match:ended"}, socket : Socket, room : RoomId]

AfterShown(sh, w) ==
  IF w.op = "match:found" THEN [sh EXCEPT ![w.socket] = w.room]
  ELSE IF w.op = "match:ended" /\ sh[w.socket] = w.room THEN [sh EXCEPT ![w.socket] = NoRoom]
  ELSE sh

Then(x, w) == [db |-> After(x.db, w), sh |-> AfterShown(x.sh, w)]

\* A room that is a call, or that a tab was told of.
Live(x, r) == x.db.phase[r] = "active" \/ (x.db.phase[r] # "gone" /\ \E s \in Socket : x.sh[s] = r)
Within(x, r) == {x.db.members[r][i] : i \in DOMAIN x.db.members[r]}
Seated(x, s, r) == x.db.room[s] = r /\ x.db.seat[s] \in Taken

Sound(x) ==
  /\ x \in States
  /\ \A r \in RoomId : \/ x.db.phase[r] = "gone" /\ x.db.members[r] = <<>>
                       \/ Len(x.db.members[r]) = 2
  /\ \A r \in RoomId : Live(x, r) => \A s \in Within(x, r) : Seated(x, s, r)

\* Nobody would miss s if its session changed.
Free(x, s) == \A r \in RoomId : Live(x, r) => s \notin Within(x, r)

\* The states a section passes through from x to y, each one sound.
IsTrace(tr, x, ws, y) ==
  /\ DOMAIN tr = 0 .. Len(ws)
  /\ tr[0] = x /\ tr[Len(ws)] = y
  /\ \A i \in 1 .. Len(ws) : tr[i] = Then(tr[i - 1], ws[i])
  /\ \A i \in 0 .. Len(ws) : Sound(tr[i])

Runs(x, ws, y) == ws \in Seq(Writes) /\ \E tr : IsTrace(tr, x, ws, y)

LEMMA RunsNothing ==
  ASSUME NEW x, Sound(x)
  PROVE  Runs(x, <<>>, x)
<1> DEFINE tr == [i \in 0 .. 0 |-> x]
<1>1. IsTrace(tr, x, <<>>, x)
  BY DEF IsTrace
<1> QED
  BY <1>1, EmptySeq DEF Runs

LEMMA RunsOne ==
  ASSUME NEW x, NEW w \in Writes, Sound(x), Sound(Then(x, w))
  PROVE  Runs(x, <<w>>, Then(x, w))
<1> DEFINE tr == [i \in 0 .. 1 |-> IF i = 0 THEN x ELSE Then(x, w)]
<1>1. Len(<<w>>) = 1 /\ <<w>>[1] = w /\ <<w>> \in Seq(Writes)
  OBVIOUS
<1>2. IsTrace(tr, x, <<w>>, Then(x, w))
  BY <1>1 DEF IsTrace
<1> QED
  BY <1>1, <1>2 DEF Runs

LEMMA RunsBoth ==
  ASSUME NEW x, NEW y, NEW z, NEW ws, NEW vs, Runs(x, ws, y), Runs(y, vs, z)
  PROVE  Runs(x, ws \o vs, z)
<1> DEFINE m == Len(ws)
           n == Len(vs)
<1>1. ws \in Seq(Writes) /\ vs \in Seq(Writes) /\ m \in Nat /\ n \in Nat
  BY DEF Runs
<1>2. /\ ws \o vs \in Seq(Writes) /\ Len(ws \o vs) = m + n
      /\ \A i \in 1 .. m : (ws \o vs)[i] = ws[i]
      /\ \A i \in m + 1 .. m + n : (ws \o vs)[i] = vs[i - m]
  BY <1>1
<1>3. PICK f : IsTrace(f, x, ws, y)
  BY DEF Runs
<1>4. PICK g : IsTrace(g, y, vs, z)
  BY DEF Runs
<1> DEFINE h == [i \in 0 .. m + n |-> IF i <= m THEN f[i] ELSE g[i - m]]
<1>5. \A i \in 1 .. m + n : h[i] = Then(h[i - 1], (ws \o vs)[i])
  <2> SUFFICES ASSUME NEW i \in 1 .. m + n PROVE h[i] = Then(h[i - 1], (ws \o vs)[i])
    OBVIOUS
  <2>1. CASE i <= m
    BY <1>1, <1>2, <1>3, <2>1 DEF IsTrace
  <2>2. CASE i = m + 1
    <3>1. h[i - 1] = y /\ h[i] = g[1] /\ (ws \o vs)[i] = vs[1]
      BY <1>1, <1>2, <1>3, <2>2 DEF IsTrace
    <3>2. g[1] = Then(g[0], vs[1]) /\ g[0] = y
      BY <1>1, <1>4, <2>2 DEF IsTrace
    <3> QED
      BY <3>1, <3>2
  <2>3. CASE i > m + 1
    <3>1. i - m \in 1 .. n /\ i - 1 \in 0 .. m + n /\ ~(i <= m) /\ ~(i - 1 <= m) /\ i \in m + 1 .. m + n
      BY <1>1, <2>3
    <3>2. h[i] = g[i - m] /\ h[i - 1] = g[(i - 1) - m] /\ (ws \o vs)[i] = vs[i - m]
      BY <1>2, <3>1
    <3>3. g[i - m] = Then(g[(i - m) - 1], vs[i - m])
      BY <1>4, <3>1 DEF IsTrace
    <3>4. (i - 1) - m = (i - m) - 1
      BY <1>1, <2>3
    <3> QED
      BY <3>2, <3>3, <3>4
  <2> QED
    BY <1>1, <2>1, <2>2, <2>3
<1>6. h[0] = x /\ h[m + n] = z
  <2>1. h[0] = x
    BY <1>1, <1>3 DEF IsTrace
  <2>2. CASE n = 0
    BY <1>1, <1>3, <1>4, <2>2 DEF IsTrace
  <2>3. CASE n > 0
    <3>1. ~(m + n <= m) /\ (m + n) - m = n /\ m + n \in 0 .. m + n
      BY <1>1, <2>3
    <3>2. g[n] = z
      BY <1>4 DEF IsTrace
    <3> QED
      BY <2>1, <3>1, <3>2
  <2> QED
    BY <1>1, <2>1, <2>2, <2>3
<1>7. \A i \in 0 .. m + n : Sound(h[i])
  BY <1>1, <1>3, <1>4 DEF IsTrace
<1>8. IsTrace(h, x, ws \o vs, z)
  BY <1>2, <1>5, <1>6, <1>7 DEF IsTrace
<1> QED
  BY <1>2, <1>8 DEF Runs

LEMMA RunsOn ==
  ASSUME NEW x, NEW y, NEW ws, Runs(x, ws, y), ws # <<>>
  PROVE  Runs(Then(x, Head(ws)), Tail(ws), y)
<1> DEFINE n == Len(ws)
<1>1. /\ ws \in Seq(Writes) /\ n \in Nat \ {0}
      /\ Tail(ws) \in Seq(Writes) /\ Len(Tail(ws)) = n - 1
      /\ \A i \in 1 .. n - 1 : Tail(ws)[i] = ws[i + 1]
      /\ Head(ws) = ws[1]
  BY DEF Runs
<1>2. PICK f : IsTrace(f, x, ws, y)
  BY DEF Runs
<1> DEFINE g == [i \in 0 .. n - 1 |-> f[i + 1]]
<1>3. \A i \in 1 .. n - 1 : g[i] = Then(g[i - 1], Tail(ws)[i])
  BY <1>1, <1>2 DEF IsTrace
<1>4. g[0] = Then(x, Head(ws)) /\ g[n - 1] = y
  BY <1>1, <1>2 DEF IsTrace
<1>5. \A i \in 0 .. n - 1 : Sound(g[i])
  BY <1>1, <1>2 DEF IsTrace
<1>6. IsTrace(g, Then(x, Head(ws)), Tail(ws), y)
  BY <1>1, <1>3, <1>4, <1>5 DEF IsTrace
<1> QED
  BY <1>1, <1>6 DEF Runs

LEMMA RunsSound ==
  ASSUME NEW x, NEW y, NEW ws, Runs(x, ws, y)
  PROVE  Sound(x) /\ Sound(y)
<1>1. PICK f : IsTrace(f, x, ws, y)
  BY DEF Runs
<1>2. Len(ws) \in Nat
  BY DEF Runs
<1> QED
  BY <1>1, <1>2 DEF IsTrace

(***************************************************************************)
(* AfterAll is the end of a run.                                           *)
(***************************************************************************)

\* What a write makes of the records.
LEMMA AfterType ==
  ASSUME NEW db \in DB, NEW w \in Writes
  PROVE  After(db, w) \in DB
<1> USE DEF After, DB, Writes
<1>1. CASE w.op = "putSession"
  BY <1>1
<1>2. CASE w.op = "deleteSession"
  <2>1. w.socket \in Socket /\ After(db, w) = [db EXCEPT !.seat[w.socket] = "none", !.room[w.socket] = NoRoom]
    BY <1>2
  <2> QED
    BY <2>1 DEF Seats
<1>3. CASE w.op = "setDeviceSocket"
  BY <1>3
<1>4. CASE w.op = "clearDeviceSocket"
  BY <1>4
<1>5. CASE w.op = "addWaiting"
  BY <1>5
<1>6. CASE w.op = "removeWaiting"
  BY <1>6
<1>7. CASE w.op = "putRoom"
  BY <1>7
<1>8. CASE w.op = "deleteRoom"
  <2>1. w.room \in RoomId /\ After(db, w) = [db EXCEPT !.phase[w.room] = "gone", !.members[w.room] = <<>>,
                                                      !.accepted[w.room] = {}]
    BY <1>8
  <2>2. <<>> \in Seq(Socket)
    OBVIOUS
  <2> QED
    BY <2>1, <2>2
<1>9. CASE w.op \in {"match:found", "match:ended", "disconnect"}
  BY <1>9
<1> QED
  BY <1>1, <1>2, <1>3, <1>4, <1>5, <1>6, <1>7, <1>8, <1>9

\* AfterAll makes the writes one by one.
LEMMA AfterAllOneByOne ==
  ASSUME NEW db \in DB, NEW ws \in Seq(Writes)
  PROVE  \E g : /\ g[1 .. 0] = db /\ AfterAll(db, ws) = g[1 .. Len(ws)]
                /\ \A k \in 1 .. Len(ws) : g[1 .. k] = After(g[1 .. k - 1], ws[k])
<1> DEFINE n == Len(ws)
           step == [x \in DB \X Writes |-> After(x[1], x[2])]
           Op(f) == [s \in SUBSET (1 .. n) |-> IF s = {} THEN db ELSE After(f[s \ {Max(s)}], ws[Max(s)])]
           it == CHOOSE f : f = Op(f)
<1>1. n \in Nat /\ DOMAIN ws = 1 .. n
  OBVIOUS
<1>2. step \in [DB \X Writes -> DB]
  BY AfterType
<1>3. PICK f : f = FoldStep(f, step, db, ws, Len(ws)) /\ \A s \in SUBSET (1 .. Len(ws)) : f[s] \in DB
  <2>1. Foldable(DB, Writes, step, db, ws)
    BY <1>2 DEF Foldable
  <2>2. \E f : FoldsTo(f, DB, step, db, ws)
    BY <2>1, FoldsExist
  <2> QED
    BY <2>2 DEF FoldsTo
<1>4. f = Op(f)
  <2>1. ASSUME NEW s \in SUBSET (1 .. n), s # {}
        PROVE  step[<<f[s \ {Max(s)}], ws[Max(s)]>>] = After(f[s \ {Max(s)}], ws[Max(s)])
    <3>1. Max(s) \in 1 .. n
      BY <1>1, <2>1, MaxIsIn
    <3>2. ws[Max(s)] \in Writes /\ f[s \ {Max(s)}] \in DB
      BY <1>3, <3>1
    <3> QED
      BY <3>2
  <2> HIDE DEF step
  <2> QED
    BY <1>3, <2>1 DEF FoldStep
<1>5. it = Op(it)
  BY <1>4
<1>6. AfterAll(db, ws) = it[1 .. n]
  BY <1>1 DEF AfterAll, FoldLeft, MapThenFoldSet
<1> HIDE DEF it
<1>7. it[1 .. 0] = db
  <2>1. 1 .. 0 = {}
    OBVIOUS
  <2> QED
    BY <1>5, <2>1
<1>8. ASSUME NEW k \in 1 .. n
      PROVE  it[1 .. k] = After(it[1 .. k - 1], ws[k])
  <2>1. k \in Nat \ {0} /\ 1 .. k \in SUBSET (1 .. n)
    BY <1>1
  <2>2. Max(1 .. k) = k /\ (1 .. k) \ {Max(1 .. k)} = 1 .. k - 1 /\ 1 .. k # {}
    BY <2>1, LastOfFirst
  <2> QED
    BY <1>5, <2>1, <2>2
<1> QED
  BY <1>6, <1>7, <1>8

LEMMA AfterAllIsTheEnd ==
  ASSUME NEW x, NEW y, NEW ws, Runs(x, ws, y)
  PROVE  AfterAll(x.db, ws) = y.db
<1> DEFINE n == Len(ws)
<1>1. ws \in Seq(Writes) /\ n \in Nat
  BY DEF Runs
<1>2. PICK f : IsTrace(f, x, ws, y)
  BY DEF Runs
<1>0. x.db \in DB
  BY RunsSound DEF Sound, States
<1>3. PICK g : /\ g[1 .. 0] = x.db /\ AfterAll(x.db, ws) = g[1 .. n]
               /\ \A k \in 1 .. n : g[1 .. k] = After(g[1 .. k - 1], ws[k])
  BY <1>0, <1>1, AfterAllOneByOne
<1> DEFINE Q == {k \in 0 .. n : g[1 .. k] = f[k].db}
<1>4. 0 \in Q
  BY <1>1, <1>2, <1>3 DEF IsTrace
<1>5. ASSUME NEW k \in 0 .. n - 1, k \in Q
      PROVE  k + 1 \in Q
  <2>1. k + 1 \in 1 .. n /\ (k + 1) - 1 = k /\ k + 1 \in 0 .. n
    BY <1>1
  <2>2. g[1 .. k + 1] = After(g[1 .. k], ws[k + 1])
    BY <1>3, <2>1
  <2>3. f[k + 1] = Then(f[k], ws[k + 1])
    BY <1>2, <2>1 DEF IsTrace
  <2>4. f[k + 1].db = After(f[k].db, ws[k + 1])
    BY <2>3 DEF Then
  <2>5. g[1 .. k] = f[k].db
    BY <1>5
  <2> QED
    BY <2>1, <2>2, <2>4, <2>5
<1>6. 0 .. n \subseteq Q
  <2> HIDE DEF Q
  <2> QED
    BY <1>1, <1>4, <1>5, UpTo
<1>7. n \in Q
  BY <1>1, <1>6
<1> QED
  BY <1>2, <1>3, <1>7 DEF IsTrace

(***************************************************************************)
(* Writes that only take sessions out of rooms.                            *)
(***************************************************************************)

\* From x to y rooms only go, and tabs only forget.
Shrunk(x, y) ==
  /\ \A r \in RoomId : \/ y.db.phase[r] = "gone"
                       \/ y.db.phase[r] = x.db.phase[r] /\ y.db.members[r] = x.db.members[r]
  /\ \A s \in Socket : y.sh[s] \in {x.sh[s], NoRoom}

Leaving(x, w) ==
  \/ w.op \in {"setDeviceSocket", "clearDeviceSocket", "addWaiting", "removeWaiting", "disconnect",
               "deleteRoom", "match:ended"}
  \/ w.op \in {"putSession", "deleteSession"} /\ Free(x, w.socket)

LEMMA ShrunkIsOrder ==
  /\ \A x : Shrunk(x, x)
  /\ \A x, y, z : Shrunk(x, y) /\ Shrunk(y, z) => Shrunk(x, z)
<1>1. \A x : Shrunk(x, x)
  BY DEF Shrunk
<1>2. ASSUME NEW x, NEW y, NEW z, Shrunk(x, y), Shrunk(y, z) PROVE Shrunk(x, z)
  <2>1. \A s \in Socket : z.sh[s] \in {x.sh[s], NoRoom}
    BY <1>2 DEF Shrunk
  <2>2. ASSUME NEW r \in RoomId
        PROVE  \/ z.db.phase[r] = "gone"
               \/ z.db.phase[r] = x.db.phase[r] /\ z.db.members[r] = x.db.members[r]
    BY <1>2 DEF Shrunk
  <2> QED
    BY <2>1, <2>2 DEF Shrunk
<1> QED
  BY <1>1, <1>2

LEMMA ShrunkKeepsFree ==
  ASSUME NEW x, NEW y, Shrunk(x, y), NEW s, Free(x, s)
  PROVE  Free(y, s)
<1> SUFFICES ASSUME NEW r \in RoomId, Live(y, r) PROVE s \notin Within(y, r)
  BY DEF Free
<1>1. y.db.phase[r] # "gone"
  BY DEF Live
<1>2. y.db.phase[r] = x.db.phase[r] /\ y.db.members[r] = x.db.members[r]
  BY <1>1 DEF Shrunk
<1>3. \A t \in Socket : y.sh[t] = r => x.sh[t] = r
  BY RoomWritesAssumption DEF Shrunk
<1>4. Live(x, r)
  BY <1>2, <1>3 DEF Live
<1> QED
  BY <1>2, <1>4 DEF Free, Within

LEMMA ShrunkKeepsLeaving ==
  ASSUME NEW x, NEW y, Shrunk(x, y), NEW w, Leaving(x, w)
  PROVE  Leaving(y, w)
BY ShrunkKeepsFree DEF Leaving

\* What each write makes of a state.
LEMMA ThenState ==
  ASSUME NEW x \in States, NEW w \in Writes
  PROVE  Then(x, w) \in States
<1>1. x.db \in DB /\ x.sh \in Shown
  BY DEF States
<1>2. After(x.db, w) \in DB
  BY <1>1, AfterType
<1>3. AfterShown(x.sh, w) \in Shown
  BY <1>1 DEF AfterShown, Shown, Writes
<1> QED
  BY <1>2, <1>3 DEF Then, States

\* A leaving write keeps every room it leaves whole.
LEMMA LeavingStep ==
  ASSUME NEW x, NEW w \in Writes, Sound(x), Leaving(x, w)
  PROVE  Sound(Then(x, w)) /\ Shrunk(x, Then(x, w))
<1> DEFINE y == Then(x, w)
<1>1. x \in States /\ y \in States
  BY ThenState DEF Sound
<1>2. x.db \in DB /\ x.sh \in Shown /\ y.db \in DB /\ y.sh \in Shown
  BY <1>1 DEF States
<1>3. y.db = After(x.db, w) /\ y.sh = AfterShown(x.sh, w)
  BY DEF Then
<1>4. \A s \in Socket : y.sh[s] \in {x.sh[s], NoRoom}
  BY <1>2, <1>3 DEF AfterShown, Leaving, Shown, Writes
<1>5. ASSUME NEW r \in RoomId
      PROVE  \/ y.db.phase[r] = "gone" /\ y.db.members[r] = <<>>
             \/ y.db.phase[r] = x.db.phase[r] /\ y.db.members[r] = x.db.members[r]
  <2>1. CASE w.op = "deleteRoom"
    <3>1. w.room \in RoomId /\ y.db = [x.db EXCEPT !.phase[w.room] = "gone", !.members[w.room] = <<>>,
                                                  !.accepted[w.room] = {}]
      BY <1>3, <2>1 DEF After, Writes
    <3>2. /\ y.db.phase = [x.db.phase EXCEPT ![w.room] = "gone"]
          /\ y.db.members = [x.db.members EXCEPT ![w.room] = <<>>]
      BY <1>2, <3>1 DEF DB
    <3> QED
      BY <1>2, <3>1, <3>2 DEF DB
  <2>2. CASE w.op # "deleteRoom"
    BY ZenonT(60), <1>2, <1>3, <2>2 DEF After, DB, Writes, Leaving
  <2> QED
    BY <2>1, <2>2
<1>6. Shrunk(x, y)
  BY <1>4, <1>5 DEF Shrunk
<1>7. ASSUME NEW r \in RoomId
      PROVE  \/ y.db.phase[r] = "gone" /\ y.db.members[r] = <<>>
             \/ Len(y.db.members[r]) = 2
  BY <1>5 DEF Sound
<1>8. ASSUME NEW r \in RoomId, Live(y, r), NEW s \in Within(y, r)
      PROVE  Seated(y, s, r)
  <2>1. y.db.phase[r] = x.db.phase[r] /\ y.db.members[r] = x.db.members[r]
    BY <1>5, <1>8 DEF Live
  <2>2. Live(x, r)
    BY <1>4, <1>8, <2>1, RoomWritesAssumption DEF Live
  <2>3. s \in Within(x, r) /\ Seated(x, s, r)
    BY <1>8, <2>1, <2>2 DEF Within, Sound
  <2>4. ~Free(x, s) /\ s \in Socket
    <3>1. x.db.members[r] \in Seq(Socket)
      BY <1>2 DEF DB
    <3> QED
      BY <2>2, <2>3, <3>1 DEF Free, Within
  <2>5. y.db.seat[s] = x.db.seat[s] /\ y.db.room[s] = x.db.room[s]
    <3>1. CASE w.op \in {"putSession", "deleteSession"}
      <4>1. w.socket # s /\ w.socket \in Socket
        BY <2>4, <3>1 DEF Leaving, Writes
      <4>2. CASE w.op = "putSession"
        <5>1. y.db = [x.db EXCEPT !.seat[w.socket] = w.seat, !.room[w.socket] = w.room]
          BY <1>3, <4>2 DEF After
        <5>2. /\ y.db.seat = [x.db.seat EXCEPT ![w.socket] = w.seat]
              /\ y.db.room = [x.db.room EXCEPT ![w.socket] = w.room]
          BY <1>2, <5>1 DEF DB
        <5> QED
          BY <1>2, <2>4, <4>1, <5>2 DEF DB
      <4>3. CASE w.op = "deleteSession"
        <5>1. y.db = [x.db EXCEPT !.seat[w.socket] = "none", !.room[w.socket] = NoRoom]
          BY <1>3, <4>3 DEF After
        <5>2. /\ y.db.seat = [x.db.seat EXCEPT ![w.socket] = "none"]
              /\ y.db.room = [x.db.room EXCEPT ![w.socket] = NoRoom]
          BY <1>2, <5>1 DEF DB
        <5> QED
          BY <1>2, <2>4, <4>1, <5>2 DEF DB
      <4> QED
        BY <3>1, <4>2, <4>3
    <3>2. CASE w.op \notin {"putSession", "deleteSession"}
      BY <1>2, <1>3, <3>2 DEF After, DB, Leaving, Writes
    <3> QED
      BY <3>1, <3>2
  <2> QED
    BY <2>3, <2>5 DEF Seated
<1>9. Sound(y)
  BY <1>1, <1>7, <1>8 DEF Sound
<1> QED
  BY <1>6, <1>9

\* All of ws leave.
AllLeaving(x, ws) == ws \in Seq(Writes) /\ \A i \in DOMAIN ws : Leaving(x, ws[i])

LEMMA LeaveBoth ==
  ASSUME NEW x, NEW ws, NEW vs, AllLeaving(x, ws), AllLeaving(x, vs)
  PROVE  AllLeaving(x, ws \o vs)
<1>1. ws \in Seq(Writes) /\ vs \in Seq(Writes)
  BY DEF AllLeaving
<1>2. ws \o vs \in Seq(Writes) /\ Len(ws \o vs) = Len(ws) + Len(vs)
  BY <1>1
<1>3. ASSUME NEW i \in DOMAIN (ws \o vs) PROVE Leaving(x, (ws \o vs)[i])
  <2>1. CASE i <= Len(ws)
    <3>1. (ws \o vs)[i] = ws[i] /\ i \in DOMAIN ws
      BY <1>1, <1>2, <2>1
    <3> QED
      BY <3>1 DEF AllLeaving
  <2>2. CASE i > Len(ws)
    <3>1. (ws \o vs)[i] = vs[i - Len(ws)] /\ i - Len(ws) \in DOMAIN vs
      BY <1>1, <1>2, <2>2
    <3> QED
      BY <3>1 DEF AllLeaving
  <2> QED
    BY <1>1, <1>2, <2>1, <2>2
<1> QED
  BY <1>2, <1>3 DEF AllLeaving

LEMMA LeaveFew ==
  ASSUME NEW x
  PROVE  /\ AllLeaving(x, <<>>)
         /\ \A v \in Writes : Leaving(x, v) => AllLeaving(x, <<v>>)
         /\ \A v, w \in Writes : Leaving(x, v) /\ Leaving(x, w) => AllLeaving(x, <<v, w>>)
         /\ \A u, v, w \in Writes :
              Leaving(x, u) /\ Leaving(x, v) /\ Leaving(x, w) => AllLeaving(x, <<u, v, w>>)
<1>1. AllLeaving(x, <<>>)
  BY DEF AllLeaving
<1>2. ASSUME NEW v \in Writes, Leaving(x, v) PROVE AllLeaving(x, <<v>>)
  BY <1>2 DEF AllLeaving
<1>3. ASSUME NEW v \in Writes, NEW w \in Writes, Leaving(x, v), Leaving(x, w)
      PROVE  AllLeaving(x, <<v, w>>)
  BY <1>3 DEF AllLeaving
<1>4. ASSUME NEW u \in Writes, NEW v \in Writes, NEW w \in Writes,
             Leaving(x, u), Leaving(x, v), Leaving(x, w)
      PROVE  AllLeaving(x, <<u, v, w>>)
  BY <1>4 DEF AllLeaving
<1> QED
  BY <1>1, <1>2, <1>3, <1>4

\* Any number of leaving writes keeps every state on the way sound.
LEMMA RunsLeaving ==
  ASSUME NEW x, NEW ws, Sound(x), AllLeaving(x, ws)
  PROVE  \E y : Runs(x, ws, y) /\ Shrunk(x, y)
<1> DEFINE n == Len(ws)
           Q == {k \in 0 .. n : \E y : Runs(x, SubSeq(ws, 1, k), y) /\ Shrunk(x, y)}
<1>1. ws \in Seq(Writes) /\ n \in Nat /\ DOMAIN ws = 1 .. n
  BY DEF AllLeaving
<1>2. 0 \in Q
  <2>1. SubSeq(ws, 1, 0) = <<>>
    BY <1>1
  <2>2. Runs(x, SubSeq(ws, 1, 0), x) /\ Shrunk(x, x)
    BY <2>1, RunsNothing, ShrunkIsOrder
  <2>3. 0 \in 0 .. n
    BY <1>1
  <2> QED
    BY <2>2, <2>3
<1>3. ASSUME NEW k \in 0 .. n - 1, k \in Q
      PROVE  k + 1 \in Q
  <2>1. k \in Nat /\ k + 1 \in 1 .. n
    BY <1>1
  <2>2. PICK y : Runs(x, SubSeq(ws, 1, k), y) /\ Shrunk(x, y)
    BY <1>3
  <2> DEFINE w == ws[k + 1]
  <2>3. w \in Writes /\ Leaving(x, w)
    BY <1>1, <2>1 DEF AllLeaving
  <2>4. Sound(Then(y, w)) /\ Shrunk(y, Then(y, w)) /\ Sound(y)
    BY <2>2, <2>3, RunsSound, ShrunkKeepsLeaving, LeavingStep
  <2>5. Runs(y, <<w>>, Then(y, w))
    BY <2>3, <2>4, RunsOne
  <2>6. SubSeq(ws, 1, k + 1) = SubSeq(ws, 1, k) \o <<w>>
    BY <1>1, <2>1
  <2>7. Runs(x, SubSeq(ws, 1, k + 1), Then(y, w))
    BY <2>2, <2>5, <2>6, RunsBoth
  <2>8. Shrunk(x, Then(y, w))
    BY <2>2, <2>4, ShrunkIsOrder
  <2> QED
    BY <2>1, <2>7, <2>8
<1>4. 0 .. n \subseteq Q
  <2> HIDE DEF Q
  <2> QED
    BY <1>1, <1>2, <1>3, UpTo
<1>5. n \in Q /\ SubSeq(ws, 1, n) = ws
  BY <1>1, <1>4
<1> QED
  BY <1>5

(***************************************************************************)
(* The pieces of sections.                                                 *)
(***************************************************************************)

LEMMA EndRoomRuns ==
  ASSUME NEW x, Sound(x), NEW r \in RoomId, Len(x.db.members[r]) = 2, NEW told, NEW idle
  PROVE  \E y : /\ Runs(x, EndRoomLocked(x.db, r, told, idle), y)
                /\ Shrunk(x, y) /\ y.db.phase[r] = "gone"
<1> DEFINE w == DeleteRoom(r)
           x1 == Then(x, w)
           m == x.db.members[r]
           Go(s) ==
             (IF s \in told THEN <<MatchEnded(s, r)>> ELSE <<>>) \o
             (IF s \notin told \/ x.db.room[s] # r THEN <<>>
              ELSE IF s \in idle THEN <<PutSession(s, "idle", NoRoom)>> ELSE EnqueueLocked(s))
<1>1. EndRoomLocked(x.db, r, told, idle) = <<w>> \o (Go(m[1]) \o Go(m[2]))
  BY DEF EndRoomLocked, ForMembers
<1>2. w \in Writes /\ Leaving(x, w)
  BY DEF DeleteRoom, Writes, Leaving
<1>3. Sound(x1) /\ Shrunk(x, x1)
  BY <1>2, LeavingStep
<1>4. x1.db.phase[r] = "gone"
  BY DEF Then, After, DeleteRoom, Sound, States, DB
<1>5. ASSUME NEW s \in Socket, x.db.room[s] = r PROVE Free(x1, s)
  <2> SUFFICES ASSUME NEW q \in RoomId, Live(x1, q), s \in Within(x1, q) PROVE FALSE
    BY DEF Free
  <2>1. x1.db.phase[q] # "gone" /\ q # r
    BY <1>4 DEF Live
  <2>2. x1.db.phase[q] = x.db.phase[q] /\ x1.db.members[q] = x.db.members[q]
    BY <1>3, <2>1 DEF Shrunk
  <2>3. Live(x, q) /\ s \in Within(x, q)
    BY <1>3, <2>2, RoomWritesAssumption DEF Live, Within, Shrunk
  <2>4. x.db.room[s] = q
    BY <2>3 DEF Sound, Seated
  <2> QED
    BY <1>5, <2>1, <2>4
<1>6. ASSUME NEW s \in Socket PROVE AllLeaving(x1, Go(s))
  <2>1. MatchEnded(s, r) \in Writes /\ Leaving(x1, MatchEnded(s, r))
    BY DEF MatchEnded, Writes, Leaving
  <2>2. AllLeaving(x1, IF s \in told THEN <<MatchEnded(s, r)>> ELSE <<>>)
    BY <2>1, LeaveFew
  <2>3. /\ PutSession(s, "idle", NoRoom) \in Writes /\ PutSession(s, "waiting", NoRoom) \in Writes
        /\ AddWaiting(s) \in Writes /\ Leaving(x1, AddWaiting(s))
    BY DEF PutSession, AddWaiting, Writes, Leaving, Seats
  <2>4. ASSUME x.db.room[s] = r
        PROVE  AllLeaving(x1, <<PutSession(s, "idle", NoRoom)>>) /\ AllLeaving(x1, EnqueueLocked(s))
    <3>1. Leaving(x1, PutSession(s, "idle", NoRoom)) /\ Leaving(x1, PutSession(s, "waiting", NoRoom))
      BY <1>5, <2>4 DEF PutSession, Leaving
    <3> QED
      BY <2>3, <3>1, LeaveFew DEF EnqueueLocked
  <2>5. AllLeaving(x1, IF s \notin told \/ x.db.room[s] # r THEN <<>>
                  ELSE IF s \in idle THEN <<PutSession(s, "idle", NoRoom)>> ELSE EnqueueLocked(s))
    BY <2>4, LeaveFew
  <2> QED
    BY <2>2, <2>5, LeaveBoth
<1>7. m[1] \in Socket /\ m[2] \in Socket
  BY DEF Sound, States, DB
<1> HIDE DEF Go, w, x1
<1>8. PICK y : Runs(x1, Go(m[1]) \o Go(m[2]), y) /\ Shrunk(x1, y)
  BY <1>3, <1>6, <1>7, LeaveBoth, RunsLeaving
<1>9. Runs(x, <<w>>, x1)
  BY <1>2, <1>3, RunsOne, RunsSound DEF x1
<1>10. Runs(x, EndRoomLocked(x.db, r, told, idle), y)
  BY <1>1, <1>8, <1>9, RunsBoth
<1>11. Shrunk(x, y) /\ y.db.phase[r] = "gone"
  BY <1>3, <1>4, <1>8, ShrunkIsOrder DEF Shrunk
<1> QED
  BY <1>10, <1>11

LEMMA RemoveSessionRuns ==
  ASSUME NEW x, Sound(x), NEW s \in Socket
  PROVE  \E y : Runs(x, RemoveSessionLocked(x.db, s), y) /\ Shrunk(x, y)
<1> DEFINE r == x.db.room[s]
           in == r # NoRoom /\ s \in ToSet(x.db.members[r])
           end == IF in THEN EndRoomLocked(x.db, r, {Other(x.db.members[r], s)}, {}) ELSE <<>>
           rest == <<RemoveWaiting(s), DeleteSession(s), ClearDeviceSocket(s)>>
<1>1. RemoveSessionLocked(x.db, s) = end \o rest
  BY DEF RemoveSessionLocked
<1>2. r \in RoomId \cup {NoRoom}
  BY DEF Sound, States, DB
<1>3. \E y : Runs(x, end, y) /\ Shrunk(x, y) /\ (in => y.db.phase[r] = "gone")
  <2>1. CASE in
    <3>1. r \in RoomId /\ x.db.members[r] # <<>>
      BY <1>2, <2>1 DEF ToSet
    <3>2. Len(x.db.members[r]) = 2
      BY <3>1 DEF Sound
    <3>3. \A q \in RoomId : \A told, idle : Len(x.db.members[q]) = 2 =>
            \E y : /\ Runs(x, EndRoomLocked(x.db, q, told, idle), y)
                   /\ Shrunk(x, y) /\ y.db.phase[q] = "gone"
      BY EndRoomRuns
    <3>4. \E y : /\ Runs(x, EndRoomLocked(x.db, r, {Other(x.db.members[r], s)}, {}), y)
                 /\ Shrunk(x, y) /\ y.db.phase[r] = "gone"
      <4> HIDE DEF r
      <4> QED
        BY <3>1, <3>2, <3>3
    <3>5. end = EndRoomLocked(x.db, r, {Other(x.db.members[r], s)}, {})
      BY <2>1
    <3> HIDE DEF end
    <3> QED
      BY <3>4, <3>5
  <2>2. CASE ~in
    BY <2>2, RunsNothing, ShrunkIsOrder
  <2> QED
    BY <2>1, <2>2
<1> HIDE DEF end
<1>4. PICK y : Runs(x, end, y) /\ Shrunk(x, y) /\ (in => y.db.phase[r] = "gone")
  BY <1>3
<1>5. Free(y, s)
  <2> SUFFICES ASSUME NEW q \in RoomId, Live(y, q), s \in Within(y, q) PROVE FALSE
    BY DEF Free
  <2>1. y.db.phase[q] # "gone"
    BY DEF Live
  <2>2. y.db.phase[q] = x.db.phase[q] /\ y.db.members[q] = x.db.members[q]
    BY <1>4, <2>1 DEF Shrunk
  <2>3. Live(x, q) /\ s \in Within(x, q)
    BY <1>4, <2>2, RoomWritesAssumption DEF Live, Within, Shrunk
  <2>4. x.db.room[s] = q
    BY <2>3 DEF Sound, Seated
  <2>5. in
    BY <2>3, <2>4, RoomWritesAssumption DEF ToSet, Within
  <2> QED
    BY <1>4, <2>1, <2>4, <2>5
<1>6. AllLeaving(y, rest)
  <2>1. /\ RemoveWaiting(s) \in Writes /\ DeleteSession(s) \in Writes /\ ClearDeviceSocket(s) \in Writes
        /\ Leaving(y, RemoveWaiting(s)) /\ Leaving(y, DeleteSession(s)) /\ Leaving(y, ClearDeviceSocket(s))
    BY <1>5 DEF RemoveWaiting, DeleteSession, ClearDeviceSocket, Writes, Leaving
  <2> QED
    BY <2>1, LeaveFew
<1> HIDE DEF rest
<1>7. PICK z : Runs(y, rest, z) /\ Shrunk(y, z)
  BY <1>4, <1>6, RunsSound, RunsLeaving
<1> QED
  BY <1>1, <1>4, <1>7, RunsBoth, ShrunkIsOrder

LEMMA ReplaceRuns ==
  ASSUME NEW x, Sound(x), NEW s \in Socket
  PROVE  \E y : Runs(x, ReplaceLocked(x.db, s), y) /\ Shrunk(x, y)
<1> DEFINE remove == IF x.db.seat[s] = "none" THEN <<>> ELSE RemoveSessionLocked(x.db, s)
<1>1. ReplaceLocked(x.db, s) = remove \o <<DisconnectSocket(s)>>
  BY DEF ReplaceLocked
<1>2. PICK y : Runs(x, remove, y) /\ Shrunk(x, y)
  <2>1. CASE x.db.seat[s] = "none"
    BY <2>1, RunsNothing, ShrunkIsOrder
  <2>2. CASE x.db.seat[s] # "none"
    BY <2>2, RemoveSessionRuns
  <2> QED
    BY <2>1, <2>2
<1>3. AllLeaving(y, <<DisconnectSocket(s)>>)
  <2>1. DisconnectSocket(s) \in Writes /\ Leaving(y, DisconnectSocket(s))
    BY DEF DisconnectSocket, Writes, Leaving
  <2> QED
    BY <2>1, LeaveFew
<1>4. PICK z : Runs(y, <<DisconnectSocket(s)>>, z) /\ Shrunk(y, z)
  BY <1>2, <1>3, RunsSound, RunsLeaving
<1> HIDE DEF remove
<1> QED
  BY <1>1, <1>2, <1>4, RunsBoth, ShrunkIsOrder

\* A room both of whose members sit in it may become a call.
Full(x, r) ==
  /\ Sound(x) /\ x.db.phase[r] # "gone"
  /\ \A s \in Within(x, r) : Seated(x, s, r)

\* Putting a full room again, as a call or not, with its members.
LEMMA FullPutRoom ==
  ASSUME NEW x, NEW r \in RoomId, Full(x, r), NEW ph \in Taken, NEW acc \in SUBSET Socket
  PROVE  /\ PutRoom(r, ph, x.db.members[r], acc) \in Writes
         /\ Full(Then(x, PutRoom(r, ph, x.db.members[r], acc)), r)
         /\ Then(x, PutRoom(r, ph, x.db.members[r], acc)).db =
              [x.db EXCEPT !.phase[r] = ph, !.accepted[r] = acc]
<1> DEFINE w == PutRoom(r, ph, x.db.members[r], acc)
           y == Then(x, w)
<1>1. x.db \in DB /\ x.sh \in Shown
  BY DEF Full, Sound, States
<1>2. w \in Writes
  BY <1>1 DEF PutRoom, Writes, DB
<1>3. y.sh = x.sh /\ y.db = [x.db EXCEPT !.phase[r] = ph, !.members[r] = x.db.members[r], !.accepted[r] = acc]
  BY DEF Then, After, AfterShown, PutRoom
<1>4. y.db = [x.db EXCEPT !.phase[r] = ph, !.accepted[r] = acc]
  <2>1. [x.db.members EXCEPT ![r] = x.db.members[r]] = x.db.members
    BY <1>1 DEF DB
  <2>2. y.db = [x.db EXCEPT !.phase = [x.db.phase EXCEPT ![r] = ph],
                            !.members = [x.db.members EXCEPT ![r] = x.db.members[r]],
                            !.accepted = [x.db.accepted EXCEPT ![r] = acc]]
    BY <1>1, <1>3 DEF DB
  <2> QED
    BY <1>1, <2>1, <2>2 DEF DB
<1>5. y \in States
  BY <1>2, ThenState DEF Full, Sound
<1>6. /\ y.db.members = x.db.members /\ y.db.seat = x.db.seat /\ y.db.room = x.db.room
      /\ y.db.phase[r] = ph /\ \A q \in RoomId \ {r} : y.db.phase[q] = x.db.phase[q]
  BY <1>1, <1>4 DEF DB
<1>7. \A q \in RoomId : \/ y.db.phase[q] = "gone" /\ y.db.members[q] = <<>>
                        \/ Len(y.db.members[q]) = 2
  BY <1>6 DEF Full, Sound
<1>8. ASSUME NEW q \in RoomId, Live(y, q), NEW s \in Within(y, q) PROVE Seated(y, s, q)
  BY <1>3, <1>6, <1>8 DEF Full, Sound, Live, Within, Seated
<1>9. Sound(y)
  BY <1>5, <1>7, <1>8 DEF Sound
<1>10. y.db.phase[r] # "gone" /\ \A s \in Within(y, r) : Seated(y, s, r)
  BY <1>6 DEF Full, Within, Seated, Taken
<1> QED
  BY <1>2, <1>4, <1>9, <1>10 DEF Full

LEMMA FullPutSession ==
  ASSUME NEW x, NEW r \in RoomId, Full(x, r), NEW s \in Socket, x.db.room[s] = r
  PROVE  /\ PutSession(s, "active", r) \in Writes
         /\ Full(Then(x, PutSession(s, "active", r)), r)
         /\ Then(x, PutSession(s, "active", r)).db = [x.db EXCEPT !.seat[s] = "active"]
<1> DEFINE w == PutSession(s, "active", r)
           y == Then(x, w)
<1>1. x.db \in DB /\ x.sh \in Shown
  BY DEF Full, Sound, States
<1>2. w \in Writes
  BY DEF PutSession, Writes, Seats
<1>3. y.sh = x.sh /\ y.db = [x.db EXCEPT !.seat[s] = "active", !.room[s] = r]
  BY DEF Then, After, AfterShown, PutSession
<1>4. y.db = [x.db EXCEPT !.seat[s] = "active"]
  <2>1. [x.db.room EXCEPT ![s] = r] = x.db.room
    BY <1>1 DEF DB
  <2>2. y.db = [x.db EXCEPT !.seat = [x.db.seat EXCEPT ![s] = "active"],
                            !.room = [x.db.room EXCEPT ![s] = r]]
    BY <1>1, <1>3 DEF DB
  <2> QED
    BY <1>1, <2>1, <2>2 DEF DB
<1>5. y \in States
  BY <1>2, ThenState DEF Full, Sound
<1>6. /\ y.db.members = x.db.members /\ y.db.phase = x.db.phase /\ y.db.room = x.db.room
      /\ \A t \in Socket : y.db.seat[t] = IF t = s THEN "active" ELSE x.db.seat[t]
  BY <1>1, <1>4 DEF DB
<1>7. \A t \in Socket, q \in RoomId : Seated(x, t, q) => Seated(y, t, q)
  BY <1>6 DEF Seated, Taken
<1>8. \A q \in RoomId : /\ Within(y, q) = Within(x, q) /\ (Live(y, q) <=> Live(x, q))
                        /\ Within(x, q) \subseteq Socket
  BY <1>1, <1>3, <1>6 DEF Within, Live, DB
<1>9. Sound(y)
  BY <1>5, <1>6, <1>7, <1>8 DEF Sound, Full
<1>10. y.db.phase[r] # "gone" /\ \A t \in Within(y, r) : Seated(y, t, r)
  BY <1>6, <1>7, <1>8 DEF Full
<1> QED
  BY <1>2, <1>4, <1>9, <1>10 DEF Full

LEMMA ActivateRuns ==
  ASSUME NEW x, NEW r \in RoomId, Full(x, r), NEW db, db.members[r] = x.db.members[r],
         db.room = x.db.room, db.accepted[r] \in SUBSET Socket
  PROVE  \E y : Runs(x, ActivateRoomLocked(db, r), y)
<1> DEFINE m == x.db.members[r]
           acc == db.accepted[r]
           w == PutRoom(r, "active", m, acc)
           Activate(s) == IF db.room[s] = r THEN <<PutSession(s, "active", r)>> ELSE <<>>
<1>1. ActivateRoomLocked(db, r) = <<w>> \o (Activate(m[1]) \o Activate(m[2]))
  BY DEF ActivateRoomLocked, ForMembers
<1>2. x.db \in DB /\ acc \in SUBSET Socket /\ "active" \in Taken /\ Len(m) = 2
  BY DEF Full, Sound, States, DB, Taken
<1>3. m[1] \in Socket /\ m[2] \in Socket
  BY <1>2 DEF DB
<1>4. w \in Writes /\ Full(Then(x, w), r) /\ Then(x, w).db.room = x.db.room
  <2>1. /\ w \in Writes /\ Full(Then(x, w), r)
        /\ Then(x, w).db = [x.db EXCEPT !.phase[r] = "active", !.accepted[r] = acc]
    <3>1. \A ph \in Taken, ac \in SUBSET Socket :
            /\ PutRoom(r, ph, x.db.members[r], ac) \in Writes
            /\ Full(Then(x, PutRoom(r, ph, x.db.members[r], ac)), r)
            /\ Then(x, PutRoom(r, ph, x.db.members[r], ac)).db =
                 [x.db EXCEPT !.phase[r] = ph, !.accepted[r] = ac]
      BY FullPutRoom
    <3> HIDE DEF acc
    <3> QED
      BY <1>2, <3>1
  <2>2. [x.db EXCEPT !.phase[r] = "active", !.accepted[r] = acc].room = x.db.room
    BY <1>2 DEF DB
  <2> QED
    BY <2>1, <2>2
<1>5. Runs(x, <<w>>, Then(x, w))
  BY <1>4, RunsOne DEF Full
<1>6. ASSUME NEW z, Full(z, r), z.db.room = x.db.room, NEW s \in Socket
      PROVE  \E y : Runs(z, Activate(s), y) /\ Full(y, r) /\ y.db.room = x.db.room
  <2>1. CASE x.db.room[s] = r
    <3> DEFINE v == PutSession(s, "active", r)
    <3>1. v \in Writes /\ Full(Then(z, v), r) /\ Then(z, v).db.room = x.db.room
      <4>1. /\ v \in Writes /\ Full(Then(z, v), r)
            /\ Then(z, v).db = [z.db EXCEPT !.seat[s] = "active"]
        BY <1>6, <2>1, FullPutSession
      <4>2. [z.db EXCEPT !.seat[s] = "active"].room = z.db.room
        BY <1>6 DEF Full, Sound, States, DB
      <4> QED
        BY <1>6, <4>1, <4>2
    <3>2. Runs(z, <<v>>, Then(z, v))
      BY <1>6, <3>1, RunsOne DEF Full
    <3> QED
      BY <2>1, <3>1, <3>2
  <2>2. CASE x.db.room[s] # r
    BY <1>6, <2>2, RunsNothing DEF Full
  <2> QED
    BY <2>1, <2>2
<1> HIDE DEF w, Activate
<1>7. PICK y1 : Runs(Then(x, w), Activate(m[1]), y1) /\ Full(y1, r) /\ y1.db.room = x.db.room
  BY <1>3, <1>4, <1>6
<1>8. PICK y2 : Runs(y1, Activate(m[2]), y2)
  BY <1>3, <1>6, <1>7
<1>9. Runs(Then(x, w), Activate(m[1]) \o Activate(m[2]), y2)
  BY <1>7, <1>8, RunsBoth
<1>10. Runs(x, <<w>> \o (Activate(m[1]) \o Activate(m[2])), y2)
  BY <1>5, <1>9, RunsBoth
<1> QED
  BY <1>1, <1>10

(***************************************************************************)
(* A room is made.                                                         *)
(***************************************************************************)

\* The room is there for a and b alone, and no tab was told.
Opened(x, a, b, r) ==
  /\ Sound(x) /\ Free(x, a) /\ Free(x, b)
  /\ x.db.phase[r] = "pending" /\ x.db.members[r] = <<a, b>>
  /\ \A s \in Socket : x.sh[s] # r

LEMMA OpenRoom ==
  ASSUME NEW x, Sound(x), NEW a \in Socket, NEW b \in Socket, NEW r \in RoomId, NEW acc \in SUBSET Socket,
         Free(x, a), Free(x, b), x.db.phase[r] = "gone", \A s \in Socket : x.sh[s] # r
  PROVE  /\ PutRoom(r, "pending", <<a, b>>, acc) \in Writes
         /\ Opened(Then(x, PutRoom(r, "pending", <<a, b>>, acc)), a, b, r)
<1> DEFINE w == PutRoom(r, "pending", <<a, b>>, acc)
           y == Then(x, w)
<1>1. x.db \in DB /\ x.sh \in Shown
  BY DEF Sound, States
<1>2. w \in Writes
  BY DEF PutRoom, Writes, Taken
<1>3. y.sh = x.sh /\ y.db = [x.db EXCEPT !.phase[r] = "pending", !.members[r] = <<a, b>>, !.accepted[r] = acc]
  BY DEF Then, After, AfterShown, PutRoom
<1>4. y \in States
  BY <1>2, ThenState DEF Sound
<1>5. /\ y.db.seat = x.db.seat /\ y.db.room = x.db.room
      /\ y.db.phase[r] = "pending" /\ y.db.members[r] = <<a, b>>
      /\ \A q \in RoomId \ {r} : y.db.phase[q] = x.db.phase[q] /\ y.db.members[q] = x.db.members[q]
  <2>1. y.db.seat = x.db.seat /\ y.db.room = x.db.room
    BY <1>1, <1>3 DEF DB
  <2>2. y.db.phase = [x.db.phase EXCEPT ![r] = "pending"]
    BY <1>1, <1>3 DEF DB
  <2>3. y.db.members = [x.db.members EXCEPT ![r] = <<a, b>>]
    BY <1>1, <1>3 DEF DB
  <2>4. \A q \in RoomId : y.db.phase[q] = IF q = r THEN "pending" ELSE x.db.phase[q]
    BY <1>1, <2>2 DEF DB
  <2>5. \A q \in RoomId : y.db.members[q] = IF q = r THEN <<a, b>> ELSE x.db.members[q]
    BY <1>1, <2>3 DEF DB
  <2> QED
    BY <2>1, <2>4, <2>5
<1>6. ~Live(y, r) /\ \A q \in RoomId \ {r} : (Live(y, q) <=> Live(x, q)) /\ Within(y, q) = Within(x, q)
  BY <1>3, <1>5 DEF Live, Within
<1>7. \A q \in RoomId : \/ y.db.phase[q] = "gone" /\ y.db.members[q] = <<>>
                        \/ Len(y.db.members[q]) = 2
  <2>1. Len(y.db.members[r]) = 2
    BY <1>5
  <2> QED
    BY <1>5, <2>1 DEF Sound
<1>8. \A q \in RoomId : Live(y, q) => \A s \in Within(y, q) : Seated(y, s, q)
  BY <1>5, <1>6 DEF Sound, Seated
<1>9. Sound(y)
  BY <1>4, <1>7, <1>8 DEF Sound
<1>10. Free(y, a) /\ Free(y, b)
  BY <1>6 DEF Free
<1> QED
  BY <1>2, <1>3, <1>5, <1>9, <1>10 DEF Opened

LEMMA SeatInRoom ==
  ASSUME NEW x, NEW a \in Socket, NEW b \in Socket, NEW r \in RoomId, Opened(x, a, b, r),
         NEW c \in {a, b}
  PROVE  \E y : /\ Runs(x, <<PutSession(c, "pending", r), RemoveWaiting(c)>>, y)
                /\ Opened(y, a, b, r) /\ Seated(y, c, r)
                /\ \A d \in Socket : Seated(x, d, r) => Seated(y, d, r)
<1> DEFINE w == PutSession(c, "pending", r)
           v == RemoveWaiting(c)
           y == Then(x, w)
           z == Then(y, v)
<1>1. /\ Sound(x) /\ Free(x, c) /\ c \in Socket
      /\ x.db.phase[r] = "pending" /\ x.db.members[r] = <<a, b>>
  BY DEF Opened
<1>2. w \in Writes /\ v \in Writes
  BY <1>1 DEF PutSession, RemoveWaiting, Writes, Seats
<1>3. Leaving(x, w) /\ Leaving(y, v)
  BY <1>1 DEF PutSession, RemoveWaiting, Leaving
<1>4. Sound(y) /\ Sound(z) /\ Shrunk(x, y) /\ Shrunk(y, z)
  BY <1>1, <1>2, <1>3, LeavingStep
<1>5. x.db \in DB /\ y.db \in DB
  BY <1>1, <1>4 DEF Sound, States
<1>6. y.sh = x.sh /\ y.db = [x.db EXCEPT !.seat[c] = "pending", !.room[c] = r]
  BY DEF Then, After, AfterShown, PutSession
<1>7. z.sh = y.sh /\ z.db = [y.db EXCEPT !.queue = @ \ {c}]
  BY DEF Then, After, AfterShown, RemoveWaiting
<1>8. /\ z.db.phase = x.db.phase /\ z.db.members = x.db.members /\ z.sh = x.sh
      /\ \A d \in Socket : /\ z.db.seat[d] = IF d = c THEN "pending" ELSE x.db.seat[d]
                           /\ z.db.room[d] = IF d = c THEN r ELSE x.db.room[d]
  <2>1. /\ z.db.phase = x.db.phase /\ z.db.members = x.db.members /\ z.sh = x.sh
        /\ z.db.seat = y.db.seat /\ z.db.room = y.db.room
    BY <1>5, <1>6, <1>7 DEF DB
  <2>2. /\ y.db.seat = [x.db.seat EXCEPT ![c] = "pending"]
        /\ y.db.room = [x.db.room EXCEPT ![c] = r]
    BY <1>5, <1>6 DEF DB
  <2>3. /\ \A d \in Socket : y.db.seat[d] = IF d = c THEN "pending" ELSE x.db.seat[d]
        /\ \A d \in Socket : y.db.room[d] = IF d = c THEN r ELSE x.db.room[d]
    <3>1. x.db.seat \in [Socket -> Seats] /\ x.db.room \in [Socket -> RoomId \cup {NoRoom}]
      BY <1>5 DEF DB
    <3> HIDE DEF y
    <3> QED
      BY <1>1, <2>2, <3>1
  <2> HIDE DEF y, z
  <2> QED
    BY <2>1, <2>3
<1>9. Shrunk(x, z)
  BY <1>4, ShrunkIsOrder
<1>10. Opened(z, a, b, r)
  BY <1>4, <1>8, <1>9, ShrunkKeepsFree DEF Opened
<1>11. Seated(z, c, r) /\ \A d \in Socket : Seated(x, d, r) => Seated(z, d, r)
  BY <1>1, <1>8 DEF Seated, Taken
<1> HIDE DEF y, z
<1>0. <<w>> \o <<v>> = <<w, v>>
  <2> HIDE DEF w, v
  <2>1. <<w>> \in Seq(Writes) /\ <<v>> \in Seq(Writes) /\ <<w, v>> \in Seq(Writes)
    BY <1>2
  <2>2. <<w>> \o <<v>> \in Seq(Writes) /\ Len(<<w>> \o <<v>>) = 2
    BY <2>1, ConcatProperties
  <2>3. \A i \in 1 .. 2 : (<<w>> \o <<v>>)[i] = <<w, v>>[i]
    BY <2>1, ConcatProperties
  <2> QED
    BY <2>1, <2>2, <2>3, SeqEqual
<1> HIDE DEF w, v
<1>12. Runs(x, <<w>>, y) /\ Runs(y, <<v>>, z)
  BY <1>1, <1>2, <1>4, RunsOne DEF y, z
<1>13. Runs(x, <<w, v>>, z)
  <2>1. Runs(x, <<w>> \o <<v>>, z)
    BY <1>12, RunsBoth
  <2> QED
    BY <1>0, <2>1
<1> QED
  BY <1>10, <1>11, <1>13 DEF w, v

LEMMA TellRoom ==
  ASSUME NEW x, NEW r \in RoomId, Full(x, r), NEW c \in Socket
  PROVE  \E y : Runs(x, <<MatchFound(c, r)>>, y) /\ Full(y, r)
<1> DEFINE w == MatchFound(c, r)
           y == Then(x, w)
<1>1. x.db \in DB /\ x.sh \in Shown /\ Sound(x)
  BY DEF Full, Sound, States
<1>2. w \in Writes
  BY DEF MatchFound, Writes
<1>3. y.db = x.db /\ y.sh = [x.sh EXCEPT ![c] = r]
  BY DEF Then, After, AfterShown, MatchFound
<1>4. y \in States
  BY <1>1, <1>2, ThenState DEF Sound
<1>5. \A q \in RoomId : Within(y, q) = Within(x, q) /\ \A s \in Socket : Seated(y, s, q) <=> Seated(x, s, q)
  BY <1>3 DEF Within, Seated
<1>6. \A q \in RoomId \ {r} : Live(y, q) => Live(x, q)
  <2>1. \A q \in RoomId \ {r}, s \in Socket : y.sh[s] = q => x.sh[s] = q
    BY <1>1, <1>3 DEF Shown
  <2> QED
    BY <1>3, <2>1 DEF Live
<1>7. \A q \in RoomId : Within(x, q) \subseteq Socket
  BY <1>1 DEF Within, DB
<1>8. \A q \in RoomId : Live(y, q) => \A s \in Within(y, q) : Seated(y, s, q)
  BY <1>1, <1>5, <1>6, <1>7 DEF Full, Sound
<1>9. Sound(y)
  BY <1>1, <1>3, <1>4, <1>8 DEF Sound
<1>10. Full(y, r)
  BY <1>3, <1>5, <1>7, <1>9 DEF Full
<1> QED
  BY <1>1, <1>2, <1>9, <1>10, RunsOne

LEMMA CreateRoomRuns ==
  ASSUME NEW x, Sound(x), NEW a \in Socket, NEW b \in Socket, NEW r \in RoomId,
         Free(x, a), Free(x, b), x.db.phase[r] = "gone", \A s \in Socket : x.sh[s] # r
  PROVE  \E y : Runs(x, CreateRoomLocked(x.db, a, b, r), y)
<1> DEFINE eager == {a, b} \cap Eager
           w == PutRoom(r, "pending", <<a, b>>, eager)
           Seat(s) == <<PutSession(s, "pending", r), RemoveWaiting(s)>>
           Found(s) == <<MatchFound(s, r)>>
           created == <<w>> \o (Seat(a) \o Seat(b)) \o (Found(a) \o Found(b))
<1>1. CreateRoomLocked(x.db, a, b, r) =
        IF eager = {a, b} THEN created \o ActivateRoomLocked(AfterAll(x.db, created), r) ELSE created
  BY DEF CreateRoomLocked, ForMembers
<1>2. w \in Writes /\ Opened(Then(x, w), a, b, r)
  BY OpenRoom
<1>3. Runs(x, <<w>>, Then(x, w))
  BY <1>2, RunsOne DEF Opened
<1>4. PICK y1 : /\ Runs(Then(x, w), Seat(a), y1)
                /\ Opened(y1, a, b, r) /\ Seated(y1, a, r)
  BY <1>2, SeatInRoom
<1>5. PICK y2 : /\ Runs(y1, Seat(b), y2)
                /\ Opened(y2, a, b, r) /\ Seated(y2, a, r) /\ Seated(y2, b, r)
  BY <1>4, SeatInRoom
<1>6. Full(y2, r)
  <2>1. Within(y2, r) = {a, b}
    BY <1>5 DEF Opened, Within
  <2> QED
    BY <1>5, <2>1 DEF Opened, Full
<1>7. PICK y3 : Runs(y2, Found(a), y3) /\ Full(y3, r)
  BY <1>6, TellRoom
<1>8. PICK y4 : Runs(y3, Found(b), y4) /\ Full(y4, r)
  BY <1>7, TellRoom
<1> HIDE DEF w, Seat, Found
<1>9. Runs(x, created, y4)
  <2>1. Runs(Then(x, w), Seat(a) \o Seat(b), y2) /\ Runs(y2, Found(a) \o Found(b), y4)
    BY <1>4, <1>5, <1>7, <1>8, RunsBoth
  <2>2. Runs(x, <<w>> \o (Seat(a) \o Seat(b)), y2)
    BY <1>3, <2>1, RunsBoth
  <2> QED
    BY <2>1, <2>2, RunsBoth
<1> HIDE DEF created
<1>10. AfterAll(x.db, created) = y4.db
  BY <1>9, AfterAllIsTheEnd
<1>11. PICK y5 : Runs(y4, ActivateRoomLocked(y4.db, r), y5)
  BY <1>8, ActivateRuns DEF Full, Sound, States, DB
<1>12. Runs(x, created \o ActivateRoomLocked(AfterAll(x.db, created), r), y5)
  BY <1>9, <1>10, <1>11, RunsBoth
<1> QED
  BY <1>1, <1>9, <1>12

(***************************************************************************)
(* The pass.                                                               *)
(***************************************************************************)

LEMMA FiniteSetToSeq ==
  ASSUME NEW S, IsFiniteSet(S)
  PROVE  SetToSeq(S) \in Seq(S)
<1> DEFINE n == Cardinality(S)
<1>1. n \in Nat /\ ExistsBijection(1 .. n, S)
  BY FS_CardinalityType
<1>2. \E f \in [1 .. n -> S] : IsInjective(f)
  BY <1>1 DEF ExistsBijection, Bijection, Injection, IsInjective
<1>3. SetToSeq(S) \in [1 .. n -> S]
  BY <1>2 DEF SetToSeq
<1> QED
  BY <1>1, <1>3

LEMMA PassRuns ==
  ASSUME NEW x, Sound(x), \A s \in Socket : x.sh[s] \in {shown[s], NoRoom},
         NEW pass \in MatchPasses(x.db)
  PROVE  \E y : Runs(x, pass, y)
<1> DEFINE db == x.db
           waiting == {s \in db.queue : db.seat[s] = "waiting"}
           gone == {RemoveWaiting(s) : s \in db.queue \ waiting}
           stale == SetToSeq(gone)
           free == {r \in RoomId : db.phase[r] = "gone" /\ \A s \in Socket : db.room[s] # r /\ shown[s] # r}
           clean == AfterAll(db, stale)
<1>0. db \in DB /\ x.sh \in Shown /\ db.queue \subseteq Socket
  BY DEF Sound, States, DB
<1>1. \/ pass = stale
      \/ \E a \in waiting, b \in waiting, r \in free : pass = stale \o CreateRoomLocked(clean, a, b, r)
  <2>1. MatchPasses(db) = {stale} \cup
          {stale \o CreateRoomLocked(clean, p[1], p[2], p[3]) :
             p \in {q \in waiting \X waiting \X free : OwnerOf[q[1]] # OwnerOf[q[2]]}}
    BY DEF MatchPasses
  <2> HIDE DEF stale, clean, waiting, free
  <2> QED
    BY <2>1
<1>2. AllLeaving(x, stale)
  <2>1. gone \subseteq {w \in Writes : Leaving(x, w)}
    BY <1>0 DEF RemoveWaiting, Writes, Leaving
  <2>2. IsFiniteSet(gone)
    <3> DEFINE Q == db.queue \ waiting
               f == [s \in Q |-> RemoveWaiting(s)]
    <3>1. IsFiniteSet(Q)
      BY <1>0, RoomWritesAssumption, FS_Subset
    <3>2. f \in Surjection(Q, gone)
      BY DEF Surjection
    <3> QED
      BY <3>1, <3>2, FS_Surjection
  <2> HIDE DEF gone
  <2>3. stale \in Seq(gone)
    BY <2>2, FiniteSetToSeq
  <2> HIDE DEF stale
  <2>4. stale \in Seq(Writes) /\ \A i \in DOMAIN stale : stale[i] \in gone
    BY <2>1, <2>3
  <2> QED
    BY <2>1, <2>4 DEF AllLeaving
<1> HIDE DEF stale
<1>3. PICK y : Runs(x, stale, y) /\ Shrunk(x, y)
  BY <1>2, RunsLeaving
<1>4. clean = y.db
  BY <1>3, AfterAllIsTheEnd
<1>5. ASSUME NEW a \in waiting, NEW b \in waiting, NEW r \in free
      PROVE  \E z : Runs(x, stale \o CreateRoomLocked(clean, a, b, r), z)
  <2>1. a \in Socket /\ b \in Socket /\ r \in RoomId /\ db.seat[a] = "waiting" /\ db.seat[b] = "waiting"
    BY <1>0
  <2>2. Free(x, a) /\ Free(x, b)
    BY <2>1 DEF Free, Sound, Seated, Taken
  <2>3. Free(y, a) /\ Free(y, b)
    BY <1>3, <2>2, ShrunkKeepsFree
  <2>4. y.db.phase[r] = "gone"
    BY <1>3, <2>1 DEF Shrunk
  <2>5. \A s \in Socket : y.sh[s] # r
    BY <1>3, <2>1, RoomWritesAssumption DEF Shrunk
  <2>6. Sound(y)
    BY <1>3, RunsSound
  <2>7. PICK z : Runs(y, CreateRoomLocked(y.db, a, b, r), z)
    BY <2>1, <2>3, <2>4, <2>5, <2>6, CreateRoomRuns
  <2> QED
    BY <1>3, <1>4, <2>7, RunsBoth
<1> HIDE DEF waiting, free, clean
<1>6. CASE pass = stale
  BY <1>3, <1>6
<1>7. CASE pass # stale
  <2>1. PICK a \in waiting, b \in waiting, r \in free : pass = stale \o CreateRoomLocked(clean, a, b, r)
    BY <1>1, <1>7
  <2> QED
    BY <1>5, <2>1
<1> QED
  BY <1>6, <1>7

(***************************************************************************)
(* The sections.                                                           *)
(***************************************************************************)

Now == [db |-> redis, sh |-> shown]

\* Whatever the section under the lock still has to write, every state on the way is sound.
WholeOnTheWay == \E y : Runs(Now, todo, y)

LEMMA ThenPassRuns ==
  ASSUME NEW ws, NEW y, Runs(Now, ws, y), Shrunk(Now, y), NEW all \in ThenPass(ws)
  PROVE  \E z : Runs(Now, all, z)
<1>1. PICK pass \in MatchPasses(AfterAll(redis, ws)) : all = ws \o pass
  BY DEF ThenPass
<1>2. AfterAll(redis, ws) = y.db
  BY AfterAllIsTheEnd DEF Now
<1>3. \A s \in Socket : y.sh[s] \in {shown[s], NoRoom}
  BY DEF Shrunk, Now
<1>4. Sound(y)
  BY RunsSound
<1>5. PICK z : Runs(y, pass, z)
  BY <1>1, <1>2, <1>3, <1>4, PassRuns
<1> QED
  BY <1>1, <1>5, RunsBoth

LEMMA HelloRuns ==
  ASSUME Sound(Now), NEW s \in Socket, hello(s)
  PROVE  \E z : Runs(Now, todo', z)
<1> DEFINE previous == redis.bound[OwnerOf[s]]
           fresh == redis.seat[s] = "none"
           replace == IF fresh /\ previous \notin {s, NoSocket} THEN ReplaceLocked(redis, previous) ELSE <<>>
           put == IF fresh THEN <<SetDeviceSocket(s), PutSession(s, "idle", NoRoom)>>
                  ELSE <<PutSession(s, redis.seat[s], redis.room[s])>>
           v == PutSession(s, redis.seat[s], redis.room[s])
<1>1. todo' \in (IF redis.seat[s] \in Taken THEN {put} ELSE ThenPass(replace \o put \o EnqueueLocked(s)))
  BY DEF hello, Begins
<1>2. redis \in DB /\ Now.db = redis /\ Now \in States
  BY DEF Sound, States, Now
<1>3. v \in Writes
  BY <1>2 DEF PutSession, Writes, DB
<1>4. CASE redis.seat[s] \in Taken
  <2>1. ~fresh
    BY <1>4 DEF Taken
  <2>2. todo' = <<v>>
    BY <1>1, <1>4, <2>1
  <2>3. Then(Now, v) = Now
    <3>1. After(redis, v) = [redis EXCEPT !.seat[s] = redis.seat[s], !.room[s] = redis.room[s]]
      BY DEF After, PutSession
    <3>2. After(redis, v) = redis
      <4>1. /\ [redis.seat EXCEPT ![s] = redis.seat[s]] = redis.seat
            /\ [redis.room EXCEPT ![s] = redis.room[s]] = redis.room
        BY <1>2 DEF DB
      <4>2. After(redis, v) = [redis EXCEPT !.seat = [redis.seat EXCEPT ![s] = redis.seat[s]],
                                            !.room = [redis.room EXCEPT ![s] = redis.room[s]]]
        BY <1>2, <3>1 DEF DB
      <4>3. [redis EXCEPT !.seat = redis.seat, !.room = redis.room] = redis
        BY <1>2 DEF DB
      <4> QED
        BY <4>1, <4>2, <4>3
    <3>3. AfterShown(shown, v) = shown
      BY DEF AfterShown, PutSession
    <3> QED
      BY <3>2, <3>3 DEF Then, Now
  <2> HIDE DEF v
  <2> QED
    BY <1>3, <2>2, <2>3, RunsOne
<1>5. CASE redis.seat[s] \notin Taken
  <2>1. Free(Now, s)
    BY <1>5, <1>2 DEF Free, Sound, Seated
  <2>2. PICK y1 : Runs(Now, replace, y1) /\ Shrunk(Now, y1)
    <3>1. CASE fresh /\ previous \notin {s, NoSocket}
      <4>1. previous \in Socket
        BY <1>2, <3>1, RoomWritesAssumption DEF DB
      <4>2. \E y : Runs(Now, ReplaceLocked(Now.db, previous), y) /\ Shrunk(Now, y)
        BY <4>1, ReplaceRuns
      <4> QED
        BY <1>2, <3>1, <4>2
    <3>2. CASE ~(fresh /\ previous \notin {s, NoSocket})
      BY <3>2, RunsNothing, ShrunkIsOrder
    <3> QED
      BY <3>1, <3>2
  <2>3. Free(y1, s) /\ Sound(y1)
    BY <2>1, <2>2, ShrunkKeepsFree, RunsSound
  <2>4. /\ SetDeviceSocket(s) \in Writes /\ PutSession(s, "idle", NoRoom) \in Writes
        /\ PutSession(s, "waiting", NoRoom) \in Writes /\ AddWaiting(s) \in Writes
        /\ Leaving(y1, SetDeviceSocket(s)) /\ Leaving(y1, PutSession(s, "idle", NoRoom))
        /\ Leaving(y1, PutSession(s, "waiting", NoRoom)) /\ Leaving(y1, AddWaiting(s))
    BY <2>3 DEF SetDeviceSocket, PutSession, AddWaiting, Writes, Leaving, Seats
  <2>5. Leaving(y1, v)
    BY <2>3 DEF PutSession, Leaving
  <2> HIDE DEF v
  <2>6. AllLeaving(y1, put) /\ AllLeaving(y1, EnqueueLocked(s))
    <3>1. AllLeaving(y1, <<SetDeviceSocket(s), PutSession(s, "idle", NoRoom)>>) /\ AllLeaving(y1, <<v>>)
      BY <1>3, <2>4, <2>5, LeaveFew
    <3> QED
      BY <2>4, <3>1, LeaveFew DEF EnqueueLocked, v
  <2> HIDE DEF replace, put
  <2>7. PICK y2 : Runs(y1, put, y2) /\ Shrunk(y1, y2)
    BY <2>3, <2>6, RunsLeaving
  <2>8. AllLeaving(y2, EnqueueLocked(s))
    BY <2>6, <2>7, ShrunkKeepsLeaving DEF AllLeaving
  <2>9. PICK y3 : Runs(y2, EnqueueLocked(s), y3) /\ Shrunk(y2, y3)
    BY <2>7, <2>8, RunsSound, RunsLeaving
  <2>10. Runs(Now, replace \o put \o EnqueueLocked(s), y3)
    BY <2>2, <2>7, <2>9, RunsBoth
  <2>11. Shrunk(Now, y3)
    BY <2>2, <2>7, <2>9, ShrunkIsOrder
  <2> QED
    BY <1>1, <1>5, <2>10, <2>11, ThenPassRuns
<1> QED
  BY <1>4, <1>5

\* Whoever was told of a room that is there sits in it, with the other one.
LEMMA MemberIsSeated ==
  ASSUME Sound(Now), NEW s \in Socket, NEW r \in RoomId, MemberRoomLocked(s, r)
  PROVE  Full(Now, r) /\ Len(redis.members[r]) = 2
<1>1. Now.db = redis /\ Now.sh = shown
  BY DEF Now
<1>2. shown[s] = r /\ redis.phase[r] # "gone"
  BY DEF MemberRoomLocked
<1> QED
  BY <1>1, <1>2 DEF Full, Live, Sound

LEMMA AcceptRuns ==
  ASSUME Sound(Now), NEW s \in Socket, NEW r \in RoomId, accept(s, r)
  PROVE  \E z : Runs(Now, todo', z)
<1> DEFINE acc == redis.accepted[r] \cup {s}
           both == PutRoom(r, "pending", redis.members[r], acc)
           one == redis.accepted[r] = {}
           db == After(redis, both)
<1>1. MemberRoomLocked(s, r) /\ todo' = IF one THEN <<both>> ELSE ActivateRoomLocked(db, r)
  BY DEF accept, Begins
<1>2. Full(Now, r) /\ Now.db = redis /\ Sound(Now)
  BY <1>1, MemberIsSeated DEF Now
<1>3. redis \in DB /\ acc \in SUBSET Socket /\ "pending" \in Taken
  BY <1>2 DEF Sound, States, DB, Taken
<1>4. both \in Writes /\ Full(Then(Now, both), r)
  BY <1>2, <1>3, FullPutRoom
<1>5. Runs(Now, <<both>>, Then(Now, both))
  BY <1>2, <1>4, RunsOne DEF Full
<1>6. db = [redis EXCEPT !.phase[r] = "pending", !.members[r] = redis.members[r], !.accepted[r] = acc]
  BY DEF After, PutRoom
<1>7. db.members[r] = redis.members[r] /\ db.room = redis.room /\ db.accepted[r] = acc
  BY ZenonT(60), <1>3, <1>6 DEF DB
<1>8. \E z : Runs(Now, ActivateRoomLocked(db, r), z)
  BY <1>2, <1>3, <1>7, ActivateRuns
<1> QED
  BY <1>1, <1>5, <1>8

LEMMA EndingRuns ==
  ASSUME Sound(Now), NEW r \in RoomId, Len(redis.members[r]) = 2, NEW told, NEW idle,
         todo' \in ThenPass(EndRoomLocked(redis, r, told, idle))
  PROVE  \E z : Runs(Now, todo', z)
<1>1. Now.db = redis
  BY DEF Now
<1> QED
  BY <1>1, EndRoomRuns, ThenPassRuns

LEMMA SectionRuns ==
  ASSUME Sound(Now),
         \/ \E s \in Socket : hello(s) \/ removeGone(s)
         \/ \E s \in Socket, r \in RoomId : accept(s, r) \/ leave(s, r)
         \/ \E r \in RoomId : expire(r)
  PROVE  UNCHANGED <<redis, shown>> /\ \E z : Runs(Now, todo', z)
<1> DEFINE Goal == UNCHANGED <<redis, shown>> /\ \E z : Runs(Now, todo', z)
<1>0. Now.db = redis
  BY DEF Now
<1>1. ASSUME NEW s \in Socket, hello(s) PROVE Goal
  BY <1>1, HelloRuns DEF hello, Begins
<1>2. ASSUME NEW s \in Socket, removeGone(s) PROVE Goal
  <2>1. todo' \in ThenPass(RemoveSessionLocked(redis, s)) /\ UNCHANGED <<redis, shown>>
    BY <1>2 DEF removeGone, Begins
  <2> QED
    BY <1>0, <2>1, RemoveSessionRuns, ThenPassRuns
<1>3. ASSUME NEW s \in Socket, NEW r \in RoomId, accept(s, r) PROVE Goal
  BY <1>3, AcceptRuns DEF accept, Begins
<1>4. ASSUME NEW s \in Socket, NEW r \in RoomId, leave(s, r) PROVE Goal
  <2>1. /\ todo' \in ThenPass(EndRoomLocked(redis, r, ToSet(redis.members[r]), {}))
        /\ UNCHANGED <<redis, shown>> /\ MemberRoomLocked(s, r)
    BY <1>4 DEF leave, Begins
  <2> QED
    BY <2>1, MemberIsSeated, EndingRuns
<1>5. ASSUME NEW r \in RoomId, expire(r) PROVE Goal
  <2>1. PICK late : todo' \in ThenPass(EndRoomLocked(redis, r, ToSet(redis.members[r]), late))
    BY <1>5 DEF expire, Begins
  <2>2. Len(redis.members[r]) = 2
    BY <1>0, <1>5 DEF expire, Sound
  <2>3. UNCHANGED <<redis, shown>>
    BY <1>5 DEF expire, Begins
  <2> QED
    BY <2>1, <2>2, <2>3, EndingRuns
<1> QED
  BY <1>1, <1>2, <1>3, <1>4, <1>5

LEMMA WritesNextWhole ==
  ASSUME WholeOnTheWay, [WritesNext]_writesVars
  PROVE  WholeOnTheWay'
<1>1. PICK y : Runs(Now, todo, y)
  BY DEF WholeOnTheWay
<1>2. Sound(Now)
  BY <1>1, RunsSound
<1>3. ASSUME UNCHANGED <<redis, shown>>, NEW z, Runs(Now, todo', z) PROVE WholeOnTheWay'
  <2>1. Now' = Now
    BY <1>3 DEF Now
  <2>2. Runs(Now', todo', z)
    BY <1>3, <2>1
  <2> QED
    BY <2>2 DEF WholeOnTheWay
<1>4. ASSUME \/ \E s \in Socket : hello(s) \/ removeGone(s)
             \/ \E s \in Socket, r \in RoomId : accept(s, r) \/ leave(s, r)
             \/ \E r \in RoomId : expire(r)
      PROVE  WholeOnTheWay'
  BY <1>2, <1>3, <1>4, SectionRuns
<1>5. ASSUME NEW s \in Socket, SocketGoes(s) PROVE WholeOnTheWay'
  <2>1. UNCHANGED <<redis, todo, shown>>
    BY <1>5 DEF SocketGoes
  <2> QED
    BY <1>1, <1>3, <2>1
<1>6. CASE UNCHANGED writesVars
  <2>1. UNCHANGED <<redis, todo, shown>>
    BY <1>6 DEF writesVars
  <2> QED
    BY <1>1, <1>3, <2>1
<1>7. CASE Interrupt
  <2>1. UNCHANGED <<redis, shown>> /\ todo' = <<>>
    BY <1>7 DEF Interrupt
  <2>2. Runs(Now, <<>>, Now)
    BY <1>2, RunsNothing
  <2> QED
    BY <1>3, <2>1, <2>2
<1>8. CASE Write
  <2> DEFINE w == Head(todo)
  <2>1. /\ todo # <<>> /\ todo' = Tail(todo) /\ redis' = After(redis, w)
        /\ shown' = AfterShown(shown, w)
    BY <1>8 DEF Write, AfterShown
  <2>2. Now' = Then(Now, w)
    BY <2>1 DEF Now, Then
  <2>3. Runs(Then(Now, w), Tail(todo), y)
    BY <1>1, <2>1, RunsOn
  <2>4. Runs(Now', todo', y)
    BY <2>1, <2>2, <2>3
  <2> QED
    BY <2>4 DEF WholeOnTheWay
<1> QED
  BY <1>4, <1>5, <1>6, <1>7, <1>8 DEF WritesNext

LEMMA WritesInitWhole == WritesInit => WholeOnTheWay
<1> SUFFICES ASSUME WritesInit PROVE WholeOnTheWay
  OBVIOUS
<1>1. redis \in DB /\ shown \in Shown
  BY DEF WritesInit, DB, Shown, Seats
<1>2. Now \in States /\ Now.db = redis
  BY <1>1 DEF Now, States
<1>3. \A r \in RoomId : redis.phase[r] = "gone" /\ redis.members[r] = <<>>
  BY DEF WritesInit
<1>4. Sound(Now)
  BY <1>2, <1>3 DEF Sound, Live
<1>5. todo = <<>>
  BY DEF WritesInit
<1> QED
  BY <1>4, <1>5, RunsNothing DEF WholeOnTheWay

\* While a room is active both its members are in it, wherever a section stopped between
\* two writes (endRoomLocked, createRoomLocked, activateRoomLocked), for any number of
\* sockets, devices and rooms and any number of stopped sections.
THEOREM CallsAreWholeCorrect == (WritesInit /\ [][WritesNext]_writesVars) => []CallsAreWhole
<1>1. WholeOnTheWay => CallsAreWhole
  <2> SUFFICES ASSUME WholeOnTheWay PROVE CallsAreWhole
    OBVIOUS
  <2>1. Sound(Now) /\ Now.db = redis
    BY RunsSound DEF WholeOnTheWay, Now
  <2> QED
    BY <2>1 DEF CallsAreWhole, Sound, Live, Within, Seated, ToSet
<1> QED
  BY <1>1, WritesInitWhole, WritesNextWhole, PTL
=============================================================================
