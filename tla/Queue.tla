-------------------------------- MODULE Queue --------------------------------
(***************************************************************************)
(* The waiting queue and the match pass (backend/src/match): who may meet   *)
(* whom, and which server looks at which pair, and when.                    *)
(*                                                                         *)
(* A pass does not try all pairs.  It tries those of the sessions that its  *)
(* server marked dirty, and relies on the marks: of the ladder              *)
(* (`relaxing`), of blocks that lapse (`wakeAt`) and of the handlers.  Marks *)
(* live in one server's memory, so a pass that failed, a crash or a change  *)
(* of priority loses them, and a slice of the queue is rechecked now and    *)
(* then.  Match.tla leaves the choice of pairs free; here it is the code's.  *)
(*                                                                         *)
(* Every action is one section under the match lock.  A person stands for   *)
(* a session and its device.  Bans are left to Match.tla: nobody is banned.  *)
(***************************************************************************)
EXTENDS Integers, FiniteSets, SequencesExt

CONSTANTS
  Person, Server,
  Profile,            \* [Person -> [gender, language, topics]]
  Filters,            \* the filters a person may choose: [gender, language]
  Primary,            \* the primary subtag of each language (primaryLanguage)
  RelaxTopics, RelaxLanguage, LowDelay,  \* the Ladder, in ticks
  BlockTicks,         \* how long a skip or a decline keeps a pair apart
  Budget,             \* recheckPairBudget
  Horizon,            \* bound: the clock stops here
  MaxJoins,           \* bound: times anybody is put into the queue
  MaxLosses           \* bound: failed passes, crashes and changes of priority

ASSUME QueueAssumption ==
  /\ IsFiniteSet(Person) /\ Filters # {}
  /\ {RelaxTopics, RelaxLanguage, LowDelay, BlockTicks, Budget, Horizon} \subseteq Nat

VARIABLES
  store,      \* waiting (oldest first), since, filters, rooms (pairs), blocks (until)
  memory,     \* of each server: dirty, relaxing, wakeAt, recheckCursor
  low,        \* devices of low priority (SafetySignals.lowPriority)
  open,       \* the flags let anybody be matched
  now,
  joins, losses,
  unmarked    \* history: waiting persons that lost a mark

queueVars == <<store, memory, low, open, now, joins, losses, unmarked>>

Held == -1
MaxStep == 2
NoLapse == Horizon + BlockTicks + 1    \* no entry in wakeAt
Unknown == [since |-> 0, step |-> MaxStep, low |-> FALSE]   \* no entry in relaxing
Pair == {pair \in SUBSET Person : Cardinality(pair) = 2}

QueueTypeOK ==
  /\ store \in [waiting : {q \in SeqOf(Person, Cardinality(Person)) : IsInjective(q)},
                since : [Person -> 0 .. Horizon], filters : [Person -> Filters],
                rooms : SUBSET Pair, blocks : [Pair -> 0 .. Horizon + BlockTicks]]
  /\ memory \in [Server -> [dirty : SUBSET Person,
                            relaxing : [Person -> [since : 0 .. Horizon, step : Held .. MaxStep, low : BOOLEAN]],
                            wakeAt : [Person -> 1 .. NoLapse],
                            recheckCursor : 0 .. 2 * Cardinality(Person)]]
  /\ low \subseteq Person /\ unmarked \subseteq ToSet(store.waiting)
  /\ open \in BOOLEAN /\ now \in 0 .. Horizon

------------------------------------------------------------------------------
(* The hard rules and the ladder.                                           *)

\* a's filters let b in.  The gender filter is never "unspecified".
Accepts(s, a, b) ==
  /\ s.filters[a].gender \in {"all", Profile[b].gender}
  /\ \/ s.filters[a].language = "any"
     \/ Primary[s.filters[a].language] = Primary[Profile[b].language]

IsCompatible(s, a, b) == a # b /\ Accepts(s, a, b) /\ Accepts(s, b, a)

RelaxStep(waited, isLow) ==
  LET effective == waited - (IF isLow THEN LowDelay ELSE 0)
  IN  CASE effective < 0             -> Held
        [] effective \in 0 .. RelaxTopics - 1 -> 0
        [] effective \in RelaxTopics .. RelaxLanguage - 1 -> 1
        [] OTHER                     -> MaxStep

MeetsPreferences(s, a, b, step) ==
  \/ step = MaxStep
  \/ /\ step # Held
     /\ \/ s.filters[a].language # "any" \/ s.filters[b].language # "any"
        \/ Primary[Profile[a].language] = Primary[Profile[b].language]
     /\ step = 0 => Profile[a].topics \cap Profile[b].topics # {}

PairStep(stepA, stepB) == IF Held \in {stepA, stepB} THEN Held ELSE Max({stepA, stepB})

StepOf(s, p) == RelaxStep(now - s.since[p], p \in low)

\* Nothing but a block keeps the two apart at this moment.
Suits(s, a, b) ==
  /\ IsCompatible(s, a, b)
  /\ MeetsPreferences(s, a, b, PairStep(StepOf(s, a), StepOf(s, b)))

------------------------------------------------------------------------------
(* The pass (matchPassLocked).                                              *)

\* waiting[i] looks for the oldest partner behind it.  The plan holds the rooms
\* to make, who is taken, and wakeAt with the blocks met on the way.
Seek(s, focus, plan, i) ==
  LET a == s.waiting[i]
      at(j) == s.waiting[j]
      behind == {j \in i + 1 .. Len(s.waiting) :
                   at(j) \notin plan.taken /\ {a, at(j)} \cap focus # {} /\ Suits(s, a, at(j))}
      found == {j \in behind : s.blocks[{a, at(j)}] <= now}
      met == {j \in behind \ found : \A k \in found : j < k}
      partner == {at(j) : j \in {k \in found : k = Min(found)}}
  IN  IF a \in plan.taken \/ StepOf(s, a) = Held THEN plan
      ELSE [rooms |-> plan.rooms \cup {{a, b} : b \in partner},
            taken |-> plan.taken \cup partner \cup (IF partner = {} THEN {} ELSE {a}),
            wake  |-> [plan.wake EXCEPT ![a] = Min({@} \cup {s.blocks[{a, at(j)}] : j \in met})]]

\* The slice of the queue a recheck adds to the marks, and the cursor after it.
SliceSize(n) == Max({1, Budget \div n})
RecheckSlice(m, q) ==
  {q[((m.recheckCursor + k) % Len(q)) + 1] : k \in 0 .. Min({SliceSize(Len(q)), Len(q)}) - 1}
\* Mutant.
CursorStays(m, n) == IF SliceSize(n) >= n THEN 0 ELSE m.recheckCursor % n
NextCursor(m, n) == IF SliceSize(n) >= n THEN 0 ELSE (m.recheckCursor % n) + SliceSize(n)

\* The one plan of a pass over s (in a set, so that TLC works it out once).
Plans(s, focus, wake) ==
  FoldLeft(LAMBDA plans, i : {Seek(s, focus, plan, i) : plan \in plans},
           {[rooms |-> {}, taken |-> {}, wake |-> wake]},
           [i \in 1 .. Len(s.waiting) |-> i])

\* A queue without those of T, the others in their order.
Without(queue, T) == FoldLeft(LAMBDA rest, p : IF p \in T THEN rest ELSE Append(rest, p), <<>>, queue)

\* A section of server r ends with a pass over what it made of the store and of
\* its memory; a closed queue is kept, with its marks.
EndSection(r, s, m, recheck) ==
  LET n == Len(s.waiting)
      slice == IF recheck /\ n > 1 THEN RecheckSlice(m, s.waiting) ELSE {}
  IN  \/ /\ ~open
         /\ store' = s
         /\ memory' = [memory EXCEPT ![r] = m]
         /\ unmarked' = unmarked \cap ToSet(s.waiting)
      \/ /\ open
         /\ \E focus \in {m.dirty \cup slice} : \E plan \in Plans(s, focus, m.wakeAt) :
              /\ store' = [s EXCEPT !.waiting = Without(@, plan.taken),
                                    !.rooms = @ \cup plan.rooms]
              /\ memory' = [memory EXCEPT ![r] =
                   [m EXCEPT !.dirty = {}, !.wakeAt = plan.wake,
                             !.recheckCursor = IF recheck /\ n > 1 THEN NextCursor(m, n) ELSE m.recheckCursor,
                             !.relaxing = [p \in Person |-> IF p \in plan.taken THEN Unknown ELSE m.relaxing[p]]]]
              /\ unmarked' = (unmarked \cap ToSet(s.waiting)) \ plan.taken

------------------------------------------------------------------------------
(* The sections.                                                            *)

\* enqueueLocked of each of `order`, on the store and then on the memory.  A session
\* that waits already keeps its place (hello).
Waiting(s, p) == p \in ToSet(s.waiting)
Enqueue(s, order) ==
  [s EXCEPT !.waiting = @ \o Without(order, ToSet(@)),
            !.since = [p \in Person |-> IF p \in ToSet(order) /\ ~Waiting(s, p) THEN now ELSE @[p]]]
Mark(s, m, T) ==
  [m EXCEPT !.dirty = @ \cup T,
            !.relaxing = [p \in Person |->
               IF p \in T THEN [since |-> s.since[p], step |-> IF p \in low THEN Held ELSE 0, low |-> p \in low]
               ELSE m.relaxing[p]]]

InAnyRoom(p) == \E pair \in store.rooms : p \in pair

\* Time for the whole ladder and a block is left before the clock stops.
TimeIsLeft == joins < MaxJoins /\ now + LowDelay + RelaxLanguage <= Horizon

\* session:hello of a new, an idle or a waiting session (hello).
helloLocked(r, p, f) ==
  /\ TimeIsLeft /\ ~InAnyRoom(p)
  /\ joins' = joins + 1
  /\ LET s == Enqueue([store EXCEPT !.filters[p] = f], <<p>>)
     IN  EndSection(r, s, Mark(s, memory[r], {p}), FALSE)
  /\ UNCHANGED <<low, open, now, losses>>

\* A room ends; those who stay are put back, the pair perhaps blocked, by decline,
\* skip, timeout, callFailed, disconnect or a reaped partner (endRoomLocked).
endRoom(r, pair, order, blocked) ==
  /\ TimeIsLeft /\ pair \in store.rooms /\ ToSet(order) \subseteq pair
  /\ joins' = joins + 1
  /\ LET s == Enqueue([store EXCEPT !.rooms = @ \ {pair},
                                    !.blocks[pair] = IF blocked THEN Max({@, now + BlockTicks}) ELSE @],
                      order)
     IN  EndSection(r, s, Mark(s, memory[r], ToSet(order)), FALSE)
  /\ UNCHANGED <<low, open, now, losses>>

\* A waiting session goes (disconnect; another server's when its own died).
disconnect(r, p) ==
  /\ Waiting(store, p)
  /\ EndSection(r, [store EXCEPT !.waiting = Without(@, {p})],
                [memory[r] EXCEPT !.wakeAt[p] = NoLapse, !.relaxing[p] = Unknown], FALSE)
  /\ UNCHANGED <<low, open, now, joins, losses>>

\* session:preferences that change something.
updatePreferences(r, p, f) ==
  /\ joins < MaxJoins /\ joins' = joins + 1
  /\ f # store.filters[p] /\ (Waiting(store, p) \/ InAnyRoom(p))
  /\ LET s == [store EXCEPT !.filters[p] = f]
     IN  IF Waiting(store, p)
         THEN EndSection(r, s, [memory[r] EXCEPT !.dirty = @ \cup {p}], FALSE)
         ELSE store' = s /\ UNCHANGED <<memory, unmarked>>
  /\ UNCHANGED <<low, open, now, losses>>

\* relaxTickLocked: sessions whose step went up are marked.
RelaxTick(m) ==
  LET step(p) == RelaxStep(now - m.relaxing[p].since, m.relaxing[p].low)
      changed == {p \in Person : step(p) > m.relaxing[p].step}
      known(p) == Waiting(store, p) /\ store.since[p] = m.relaxing[p].since
  IN  [m EXCEPT !.dirty = @ \cup {p \in changed : known(p)},
                !.relaxing = [p \in Person |->
                   IF p \notin changed THEN m.relaxing[p]
                   ELSE IF ~known(p) \/ step(p) = MaxStep THEN Unknown
                   ELSE [m.relaxing[p] EXCEPT !.step = step(p)]]]

\* Mutant.
WakeLate(m) ==
  [m EXCEPT !.dirty = @ \cup {p \in Person : m.wakeAt[p] < now},
            !.wakeAt = [p \in Person |-> IF @[p] < now THEN NoLapse ELSE @[p]]]

\* Blocks that lapsed mark the sessions they held back.
Wake(m) ==
  [m EXCEPT !.dirty = @ \cup {p \in Person : m.wakeAt[p] <= now},
            !.wakeAt = [p \in Person |-> IF m.wakeAt[p] <= now THEN NoLapse ELSE m.wakeAt[p]]]

\* A recheck also forgets the lapse times of sessions that left, if two wait.
Forget(m, recheck) ==
  [m EXCEPT !.wakeAt = [p \in Person |->
     IF recheck /\ open /\ Len(store.waiting) > 1 /\ ~Waiting(store, p) THEN NoLapse ELSE @[p]]]

\* The sweeper's section; now and then it rechecks (runSweep).
sweep(r, recheck) ==
  /\ \E m \in {Forget(RelaxTick(Wake(memory[r])), recheck)} : EndSection(r, store, m, recheck)
  /\ UNCHANGED <<low, open, now, joins, losses>>

Forgetful == [dirty |-> {}, relaxing |-> [p \in Person |-> Unknown],
              wakeAt |-> [p \in Person |-> NoLapse], recheckCursor |-> 0]
Marked(m, p) == p \in m.dirty \/ m.wakeAt[p] # NoLapse \/ m.relaxing[p] # Unknown

\* A sweep that fails once its marks are taken: the pass throws on its first read.
passFails(r) ==
  /\ losses < MaxLosses /\ losses' = losses + 1 /\ open
  /\ LET m == RelaxTick(Wake(memory[r]))
     IN  /\ m.dirty # {}
         /\ memory' = [memory EXCEPT ![r] = [m EXCEPT !.dirty = {}]]
         /\ unmarked' = unmarked \cup (m.dirty \cap ToSet(store.waiting))
  /\ UNCHANGED <<store, low, open, now, joins>>

\* A server dies and starts again; the sessions of its sockets go by disconnect.
crash(r) ==
  /\ losses < MaxLosses /\ losses' = losses + 1
  /\ memory' = [memory EXCEPT ![r] = Forgetful]
  /\ unmarked' = unmarked \cup {p \in ToSet(store.waiting) : Marked(memory[r], p)}
  /\ UNCHANGED <<store, low, open, now, joins>>

\* A device gets, or loses, its low priority (SafetySignals.markLow; the window ends).
priorityChanges(p) ==
  /\ losses < MaxLosses /\ losses' = losses + 1
  /\ low' = IF p \in low THEN low \ {p} ELSE low \cup {p}
  /\ unmarked' = unmarked \cup ({p} \cap ToSet(store.waiting))
  /\ UNCHANGED <<store, memory, open, now, joins>>

\* Staffed hours end, or the kill switch (external to the queue).
flagsChange ==
  /\ losses < MaxLosses /\ losses' = losses + 1
  /\ open' = ~open
  /\ UNCHANGED <<store, memory, low, now, joins, unmarked>>

tick ==
  /\ now < Horizon /\ now' = now + 1
  /\ UNCHANGED <<store, memory, low, open, joins, losses, unmarked>>

------------------------------------------------------------------------------
QueueInit ==
  /\ store = [waiting |-> <<>>, since |-> [p \in Person |-> 0],
              filters |-> [p \in Person |-> CHOOSE f \in Filters : TRUE],
              rooms |-> {}, blocks |-> [pair \in Pair |-> 0]]
  /\ memory = [r \in Server |-> Forgetful]
  /\ low = {} /\ open = TRUE /\ now = 0
  /\ joins = 0 /\ losses = 0 /\ unmarked = {}

QueueNext ==
  \/ tick \/ flagsChange
  \/ \E p \in Person : priorityChanges(p)
  \/ \E r \in Server :
       \/ \E p \in Person, f \in Filters : helloLocked(r, p, f) \/ updatePreferences(r, p, f)
       \/ \E p \in Person : disconnect(r, p)
       \/ \E pair \in store.rooms, order \in SeqOf(Person, 2), blocked \in BOOLEAN :
            IsInjective(order) /\ endRoom(r, pair, order, blocked)
       \/ \E recheck \in BOOLEAN : sweep(r, recheck)
       \/ passFails(r) \/ crash(r)

QueueSpec == QueueInit /\ [][QueueNext]_queueVars

------------------------------------------------------------------------------
(* Properties.                                                              *)

\* r's next sweep looks at p.
IsDue(r, p) == p \in RelaxTick(Wake(memory[r])).dirty

\* The claim of matchPassLocked, that passes over the marked sessions miss none of
\* the pairs a full pass makes: two waiting sessions that could be matched right
\* now are due to be looked at by some server's next sweep, whoever queued them,
\* unless one of them lost its mark.
NobodyIsOverlooked ==
  \A a, b \in ToSet(store.waiting) :
    Suits(store, a, b) /\ store.blocks[{a, b}] <= now
      => \/ {a, b} \cap unmarked # {}
         \/ \E r \in Server : IsDue(r, a) \/ IsDue(r, b)

\* Lost marks only delay: in the end no two sessions wait that the hard rules let
\* meet, as long as the flags stay open (addRecheckSlice).
PairsMeetInTheEnd ==
  []<>open => <>[]~\E a, b \in ToSet(store.waiting) : IsCompatible(store, a, b)
=============================================================================
