---------------------------- MODULE Match_proofs ----------------------------
(* Theorems about Match, for any sockets, devices, replicas, rooms and        *)
(* environment.                                                               *)
EXTENDS Match, TLAPS

(***************************************************************************)
(* The store operators keep the store's type.                              *)
(***************************************************************************)

LEMMA EnqueueType ==
  ASSUME NEW w \in Store, NEW S \in SUBSET Socket
  PROVE  Enqueue(w, S) \in Store
BY DEF Enqueue, Store, States

LEMMA EndRoomsType ==
  ASSUME NEW w \in Store, NEW R, NEW told \in SUBSET Socket, NEW late, NEW capped
  PROVE  EndRooms(w, R, told, late, capped) \in Store
<1> DEFINE here == {s \in told : w.room[s] \in R /\ s \in w.members[w.room[s]]}
           back == {s \in here \ late : DeviceOf[s] \notin capped \cup w.banned}
           over == [w EXCEPT
                 !.phase = [r \in Room |-> IF r \in R THEN EndedPhase ELSE w.phase[r]],
                 !.members = [r \in Room |-> IF r \in R /\ EndedPhase = "free"
                                               THEN {} ELSE w.members[r]],
                 !.accepted = [r \in Room |-> IF r \in R THEN {} ELSE w.accepted[r]],
                 !.state = [s \in Socket |-> IF s \in here THEN "idle" ELSE w.state[s]],
                 !.room  = [s \in Socket |-> IF s \in here THEN NoRoom ELSE w.room[s]]]
<1>1. EndedPhase \in Phases
  BY DEF EndedPhase, Phases
<1>2. over \in Store
  BY <1>1 DEF Store, States
<1>3. back \in SUBSET Socket
  OBVIOUS
<1>4. EndRooms(w, R, told, late, capped) = Enqueue(over, back)
  BY DEF EndRooms
<1> QED
  BY <1>2, <1>3, <1>4, EnqueueType

LEMMA RemoveSessionsType ==
  ASSUME NEW w \in Store, NEW S \in SUBSET Socket, NEW capped
  PROVE  RemoveSessions(w, S, capped) \in Store
<1> DEFINE e == EndRooms(w, {w.room[s] : s \in {x \in S : InRoom(w, x)}}, Socket \ S, {}, capped)
<1>1. e \in Store
  BY EndRoomsType
<1>2. RemoveSessions(w, S, capped) =
        [e EXCEPT
        !.state  = [s \in Socket |-> IF s \in S THEN "none" ELSE e.state[s]],
        !.room   = [s \in Socket |-> IF s \in S THEN NoRoom ELSE e.room[s]],
        !.queue  = e.queue \ S,
        !.device = [d \in Device |-> IF e.device[d] \in S THEN NoSocket ELSE e.device[d]]]
  BY DEF RemoveSessions
<1>3. ASSUME NEW x \in Store
      PROVE  [x EXCEPT
        !.state  = [s \in Socket |-> IF s \in S THEN "none" ELSE x.state[s]],
        !.room   = [s \in Socket |-> IF s \in S THEN NoRoom ELSE x.room[s]],
        !.queue  = x.queue \ S,
        !.device = [d \in Device |-> IF x.device[d] \in S THEN NoSocket ELSE x.device[d]]]
             \in Store
  BY DEF Store, States
<1> HIDE DEF e
<1> QED
  BY <1>1, <1>2, <1>3

LEMMA BlockPairType ==
  ASSUME NEW w \in Store, NEW pair \in SUBSET Device
  PROVE  BlockPair(w, pair) \in Store
BY DEF BlockPair, Store

LEMMA ActivateType ==
  ASSUME NEW w \in Store, NEW R
  PROVE  Activate(w, R) \in Store
BY DEF Activate, Store, States, Phases

LEMMA DevicesType ==
  ASSUME NEW S \in SUBSET Socket
  PROVE  Devices(S) \in SUBSET Device
BY ConstantsOK DEF Devices


LEMMA CandidatesType ==
  ASSUME NEW w \in Store, NEW focus, NEW c \in Candidates(w, focus)
  PROVE  /\ c \in SUBSET Socket
         /\ \E a, b \in Socket : c = {a, b} /\ Matchable(w, a, b) /\ a \in w.queue /\ b \in w.queue
<1>1. PICK x \in (focus \cap w.queue) \X w.queue : Matchable(w, x[1], x[2]) /\ c = {x[1], x[2]}
  BY DEF Candidates
<1>2. w.queue \in SUBSET Socket
  BY DEF Store
<1>3. x[1] \in w.queue /\ x[2] \in w.queue
  BY <1>1
<1> QED
  BY <1>1, <1>2, <1>3

LEMMA CreateRoomsType ==
  ASSUME NEW w \in Store, NEW M \in SUBSET SUBSET Socket, NEW id \in [M -> Room]
  PROVE  CreateRooms(w, M, id) \in Store
<1> DEFINE new == {id[p] : p \in M}
           of(r) == CHOOSE p \in M : id[p] = r
           pended == [w EXCEPT
        !.state = [s \in Socket |-> IF s \in UNION M THEN "pending" ELSE w.state[s]],
        !.room  = [s \in Socket |-> IF s \in UNION M
                                      THEN id[CHOOSE p \in M : s \in p] ELSE w.room[s]],
        !.queue = {s \in w.queue \ UNION M : w.state[s] = "waiting"},
        !.phase = [r \in Room |-> IF r \in new THEN "pending" ELSE w.phase[r]],
        !.members = [r \in Room |-> IF r \in new THEN of(r) ELSE w.members[r]],
        !.accepted = [r \in Room |-> IF r \in new THEN of(r) \cap Instant ELSE w.accepted[r]]]
<1>1. \A r \in new : of(r) \in M /\ id[of(r)] = r
  OBVIOUS
<1>2. \A s \in UNION M : (CHOOSE p \in M : s \in p) \in M /\ s \in (CHOOSE p \in M : s \in p)
  OBVIOUS
<1>3. \A r \in new : of(r) \in SUBSET Socket
  BY <1>1
<1>4. \A s \in UNION M : id[CHOOSE p \in M : s \in p] \in Room
  BY <1>2
<1> HIDE DEF of
<1>5. pended \in Store
  BY <1>3, <1>4 DEF Store, States, Phases
<1>6. CreateRooms(w, M, id) = Activate(pended, {id[p] : p \in BothInstant(M)})
  BY DEF CreateRooms, of
<1> HIDE DEF pended
<1> QED
  BY <1>5, <1>6, ActivateType

LEMMA MatchPassType ==
  ASSUME TypeOK, NEW i \in Instance, NEW w \in Store, NEW extra, MatchPass(i, w, extra)
  PROVE  /\ store' \in Store
         /\ starting' \subseteq Instance \X Room
         /\ deadline' \in [Room -> {"open", "edge", "late"}]
         /\ started' \subseteq Room
         /\ spared' \subseteq Socket
<1> DEFINE focus == (w.queue \ store.queue) \cup extra
<1>1. PICK M \in SUBSET Candidates(w, focus) : \E id \in [M -> FreeRooms(w)] :
         /\ store' = CreateRooms(w, M, id)
         /\ starting' = starting \cup {<<i, id[p]>> : p \in BothInstant(M)}
         /\ deadline' = [r \in Room |-> IF r \in {id[p] : p \in M} \/ w.phase[r] # "pending"
                                          THEN "open" ELSE deadline[r]]
  BY DEF MatchPass
<1>2. PICK id \in [M -> FreeRooms(w)] :
         /\ store' = CreateRooms(w, M, id)
         /\ starting' = starting \cup {<<i, id[p]>> : p \in BothInstant(M)}
         /\ deadline' = [r \in Room |-> IF r \in {id[p] : p \in M} \/ w.phase[r] # "pending"
                                          THEN "open" ELSE deadline[r]]
  BY <1>1
<1>3. M \in SUBSET SUBSET Socket
  BY CandidatesType
<1>4. id \in [M -> Room]
  BY DEF FreeRooms
<1>5. store' \in Store
  BY <1>2, <1>3, <1>4, CreateRoomsType
<1>6. starting' \subseteq Instance \X Room
  BY <1>2, <1>4 DEF TypeOK, BothInstant
<1>7. deadline' \in [Room -> {"open", "edge", "late"}]
  BY <1>2 DEF TypeOK
<1>8. started' \subseteq Room /\ spared' \subseteq Socket
  BY DEF MatchPass, TypeOK
<1> QED
  BY <1>5, <1>6, <1>7, <1>8

LEMMA EndsType ==
  ASSUME NEW w \in Store, NEW S \in SUBSET Socket, NEW r \in Room, NEW capped, NEW late
  PROVE  /\ Devices(w.members[r]) \in SUBSET Device
         /\ EndRooms(BlockPair(w, Devices(w.members[r])), {r}, Socket, late, capped) \in Store
<1>1. Devices(w.members[r]) \in SUBSET Device
  BY DevicesType DEF Store
<1> QED
  BY <1>1, BlockPairType, EndRoomsType

LEMMA BlockAndEndType ==
  ASSUME TypeOK, NEW s \in Socket, InRoom(store, s), BlockAndEnd(s)
  PROVE  /\ store' \in Store
         /\ starting' \subseteq Instance \X Room
         /\ deadline' \in [Room -> {"open", "edge", "late"}]
         /\ started' \subseteq Room
         /\ spared' \subseteq Socket
<1>1. store \in Store /\ store.room[s] \in Room
  BY DEF TypeOK, InRoom, Store
<1>2. PICK capped \in Caps : MatchPass(HomeOf[s],
              EndRooms(BlockPair(store, Devices(store.members[store.room[s]])),
                       {store.room[s]}, Socket, {}, capped), {})
  BY DEF BlockAndEnd
<1> QED
  BY <1>1, <1>2, EndsType, MatchPassType, ConstantsOK

LEMMA ExpireRoomsType ==
  ASSUME NEW w \in Store, NEW capped
  PROVE  ExpireRooms(w, capped) \in Store
<1> DEFINE due  == Expired(w)
           late == {s \in Socket : w.room[s] \in due /\ s \notin w.accepted[w.room[s]]}
           b == [w EXCEPT !.blocked = @ \cup {Devices(w.members[r]) : r \in due}]
<1>1. due \in SUBSET Room
  BY DEF Expired
<1>2. {Devices(w.members[r]) : r \in due} \in SUBSET SUBSET Device
  BY <1>1, DevicesType DEF Store
<1>3. b \in Store
  BY <1>2 DEF Store
<1>4. ExpireRooms(w, capped) = EndRooms(b, due, Socket, late, capped)
  BY DEF ExpireRooms
<1> HIDE DEF b, late, due
<1> QED
  BY <1>3, <1>4, EndRoomsType

(***************************************************************************)
(* Type correctness of a step.                                             *)
(***************************************************************************)

LEMMA SocketStepType ==
  ASSUME TypeOK, NEW s \in Socket, SocketStep(s)
  PROVE  TypeOK'
<1>1. CASE Connect(s)
  BY <1>1 DEF TypeOK, Connect
<1>2. CASE HelloCheck(s)
  BY <1>2 DEF TypeOK, HelloCheck
<1>3. CASE HelloRefused(s)
  BY <1>3 DEF TypeOK, HelloRefused
<1>4. CASE HelloKeeps(s)
  BY <1>4 DEF TypeOK, HelloKeeps
<1>5. CASE HelloLocked(s)
  <2> DEFINE first == store.state[s] = "none"
             old == IF first THEN Replaced(s) ELSE {}
  <2>1. PICK capped \in Caps :
          LET w     == RemoveSessions(store, old, capped)
              bound == IF first THEN [w EXCEPT !.device[DeviceOf[s]] = s] ELSE w
          IN /\ MatchPass(HomeOf[s], Enqueue(bound, {s}), {s})
             /\ Disconnected(old, HomeOf[s])
             /\ local' = (local \ {o \in old : HomeOf[o] = HomeOf[s]}) \cup {s}
             /\ orphaned' = orphaned \ {o \in old : HomeOf[o] = HomeOf[s]}
    BY <1>5 DEF HelloLocked
  <2>2. old \in SUBSET Socket
    BY ConstantsOK DEF Replaced, TypeOK, Store
  <2> HIDE DEF old
  <2> DEFINE w == RemoveSessions(store, old, capped)
             bound == IF first THEN [w EXCEPT !.device[DeviceOf[s]] = s] ELSE w
  <2>3. w \in Store
    BY <2>2, RemoveSessionsType DEF TypeOK
  <2> HIDE DEF w
  <2>4. bound \in Store
    BY <2>3, ConstantsOK DEF Store
  <2>5. Enqueue(bound, {s}) \in Store
    BY <2>4, EnqueueType
  <2>6. MatchPass(HomeOf[s], Enqueue(bound, {s}), {s})
    BY <2>1 DEF w
  <2> HIDE DEF bound
  <2>7. HomeOf[s] \in Instance
    BY ConstantsOK
  <2>8. /\ store' \in Store
        /\ starting' \subseteq Instance \X Room
        /\ deadline' \in [Room -> {"open", "edge", "late"}]
        /\ started' \subseteq Room
        /\ spared' \subseteq Socket
    BY <2>5, <2>6, <2>7, MatchPassType
  <2>9. conn' \in [Socket -> {"new", "up", "kicked", "down"}] /\ cleanup' \subseteq Socket
    BY <2>1, <2>2 DEF Disconnected, TypeOK
  <2>10. local' \subseteq Socket /\ orphaned' \subseteq Socket /\ helloing' \subseteq Socket
    BY <1>5, <2>1 DEF TypeOK, HelloLocked
  <2> QED
    BY <1>5, <2>8, <2>9, <2>10 DEF TypeOK, HelloLocked
<1>6. CASE Disconnect(s)
  BY <1>6 DEF TypeOK, Disconnect
<1>7. CASE DisconnectLocked(s)
  <2>1. CASE store.state[s] = "none"
    BY <1>7, <2>1 DEF TypeOK, DisconnectLocked
  <2>2. CASE store.state[s] # "none"
    <3>1. PICK capped \in Caps : MatchPass(HomeOf[s], RemoveSessions(store, {s}, capped), {})
      BY <1>7, <2>2 DEF DisconnectLocked
    <3>2. RemoveSessions(store, {s}, capped) \in Store
      BY RemoveSessionsType DEF TypeOK
    <3>3. /\ store' \in Store
          /\ starting' \subseteq Instance \X Room
          /\ deadline' \in [Room -> {"open", "edge", "late"}]
          /\ started' \subseteq Room
          /\ spared' \subseteq Socket
      BY <3>1, <3>2, MatchPassType, ConstantsOK
    <3> QED
      BY <1>7, <3>3 DEF TypeOK, DisconnectLocked
  <2> QED
    BY <2>1, <2>2
<1>8. CASE DisconnectFails(s)
  BY <1>8 DEF TypeOK, DisconnectFails
<1>9. CASE TickOrphans(s)
  BY <1>9 DEF TypeOK, TickOrphans, Disconnected
<1>10. CASE Accept(s)
  <2> DEFINE r == store.room[s]
             w == [store EXCEPT !.accepted[r] = @ \cup {s}]
  <2>1. store \in Store /\ r \in Room
    BY <1>10 DEF TypeOK, Accept, InRoom, Store
  <2>2. w \in Store
    BY <2>1 DEF Store
  <2>3. Activate(w, {r}) \in Store
    BY <2>2, ActivateType
  <2>4. store' = Activate(w, {r}) \/ store' = w
    BY <1>10 DEF Accept
  <2>5. starting' \subseteq Instance \X Room /\ deadline' \in [Room -> {"open", "edge", "late"}]
    BY <1>10, <2>1, ConstantsOK DEF Accept, TypeOK
  <2> QED
    BY <1>10, <2>2, <2>3, <2>4, <2>5 DEF TypeOK, Accept, RoomStep
<1>11. CASE Decline(s)
  BY <1>11, BlockAndEndType DEF TypeOK, Decline, RoomStep
<1>12. CASE Skip(s)
  BY <1>12, BlockAndEndType DEF TypeOK, Skip, RoomStep
<1>13. CASE CallFailed(s)
  BY <1>13, BlockAndEndType DEF TypeOK, CallFailed, RoomStep
<1>14. CASE UpdatePreferences(s)
  <2>1. /\ store' \in Store
        /\ starting' \subseteq Instance \X Room
        /\ deadline' \in [Room -> {"open", "edge", "late"}]
        /\ started' \subseteq Room
        /\ spared' \subseteq Socket
    BY <1>14, MatchPassType, ConstantsOK DEF UpdatePreferences, TypeOK
  <2> QED
    BY <1>14, <2>1 DEF TypeOK, UpdatePreferences, RoomStep
<1>15. CASE \E r \in Room : ReportCheck(s, r)
  <2>1. PICK r \in Room : ReportCheck(s, r)
    BY <1>15
  <2>2. Devices(store.members[r]) \in SUBSET Device
    BY DevicesType DEF TypeOK, Store
  <2>3. reported' \subseteq Room \X Device /\ reporting' \subseteq Report
    BY <2>1, <2>2, ConstantsOK DEF TypeOK, ReportCheck, Report
  <2> QED
    BY <2>1, <2>3 DEF TypeOK, ReportCheck
<1> QED
  BY <1>1, <1>2, <1>3, <1>4, <1>5, <1>6, <1>7, <1>8, <1>9, <1>10, <1>11, <1>12, <1>13,
     <1>14, <1>15 DEF SocketStep

LEMMA InstanceStepType ==
  ASSUME TypeOK, NEW i \in Instance, InstanceStep(i)
  PROVE  TypeOK'
<1>1. ASSUME NEW reap \in BOOLEAN, Sweep(i, reap)
      PROVE  TypeOK'
  <2> DEFINE dead  == IF reap THEN (store.known \ store.beating) \ {i} ELSE {}
             ghost == IF reap THEN Ghosts(i) ELSE {}
             gone  == SessionsOf(dead) \cup (SessionsOf({i}) \cap ghost)
  <2>1. PICK extra \in SUBSET store.queue, capped \in Caps :
          /\ \E w \in {[RemoveSessions(store, gone, capped) EXCEPT !.known = @ \ dead]} :
             \E e \in {ExpireRooms(w, capped)} : MatchPass(i, e, extra)
          /\ local' = local \ ghost /\ orphaned' = orphaned \ ghost
    BY <1>1 DEF Sweep
  <2>2. gone \in SUBSET Socket
    BY DEF SessionsOf
  <2> HIDE DEF gone
  <2> DEFINE x == RemoveSessions(store, gone, capped)
             w == [x EXCEPT !.known = @ \ dead]
  <2>3. x \in Store
    BY <2>2, RemoveSessionsType DEF TypeOK
  <2>4. MatchPass(i, ExpireRooms(w, capped), extra)
    BY <2>1
  <2> HIDE DEF x
  <2>5. w \in Store
    BY <2>3 DEF Store
  <2> HIDE DEF w
  <2>6. ExpireRooms(w, capped) \in Store
    BY <2>5, ExpireRoomsType
  <2>7. /\ store' \in Store
        /\ starting' \subseteq Instance \X Room
        /\ deadline' \in [Room -> {"open", "edge", "late"}]
        /\ started' \subseteq Room
        /\ spared' \subseteq Socket
    BY <2>4, <2>6, MatchPassType
  <2> QED
    BY <1>1, <2>1, <2>7 DEF TypeOK, Sweep
<1>2. CASE Lapse(i)
  BY <1>2 DEF TypeOK, Lapse, StoreOnly, Store
<1>3. CASE Beat(i)
  BY <1>3 DEF TypeOK, Beat, StoreOnly, Store
<1>4. ASSUME Die(i)
      PROVE  TypeOK'
  BY <1>4 DEF TypeOK, Die, InRoomOf
<1>5. CASE Crash(i) \/ Exit(i)
  BY <1>4, <1>5 DEF Crash, Exit
<1>6. CASE Stop(i)
  BY <1>6 DEF TypeOK, Stop
<1>7. CASE ShutdownLocked(i)
  <2>1. PICK capped \in Caps :
          MatchPass(i, [RemoveSessions(store, SessionsOf({i}), capped)
                          EXCEPT !.known = @ \ {i}, !.beating = @ \ {i}], {})
    BY <1>7 DEF ShutdownLocked
  <2> DEFINE x == RemoveSessions(store, SessionsOf({i}), capped)
             w == [x EXCEPT !.known = @ \ {i}, !.beating = @ \ {i}]
  <2>2. SessionsOf({i}) \in SUBSET Socket
    BY DEF SessionsOf
  <2>3. x \in Store
    BY <2>2, RemoveSessionsType DEF TypeOK
  <2>4. MatchPass(i, w, {})
    BY <2>1
  <2> HIDE DEF x
  <2>5. w \in Store
    BY <2>3 DEF Store
  <2> HIDE DEF w
  <2>6. /\ store' \in Store
        /\ starting' \subseteq Instance \X Room
        /\ deadline' \in [Room -> {"open", "edge", "late"}]
        /\ started' \subseteq Room
        /\ spared' \subseteq Socket
    BY <2>4, <2>5, MatchPassType
  <2> QED
    BY <1>7, <2>6 DEF TypeOK, ShutdownLocked
<1>8. CASE ShutdownFails(i)
  BY <1>8 DEF TypeOK, ShutdownFails
<1>9. CASE \E r \in Room : StartCall(i, r) \/ StartCallDropped(i, r)
  BY <1>9 DEF TypeOK, StartCall, StartCallDropped
<1>10. ASSUME NEW d \in Device, Restrict(i, d)
       PROVE  TypeOK'
  <2>1. store' \in Store
    BY <1>10 DEF TypeOK, Restrict, Store
  <2> QED
    BY <1>10, <2>1 DEF TypeOK, Restrict
<1>11. ASSUME NEW d \in Device, RestrictLocked(i, d)
       PROVE  TypeOK'
  <2> DEFINE s == store.device[d]
  <2>1. CASE s = NoSocket \/ store.state[s] = "none"
    BY <1>11, <2>1 DEF TypeOK, RestrictLocked
  <2>2. CASE ~(s = NoSocket \/ store.state[s] = "none")
    <3> DEFINE e(capped) == IF InRoom(store, s)
                        THEN EndRooms(store, {store.room[s]}, Socket, {}, capped) ELSE store
               w(capped) == [e(capped) EXCEPT !.state[s] = "idle", !.room[s] = NoRoom,
                                              !.queue = @ \ {s}]
    <3>1. PICK capped \in Caps : MatchPass(i, w(capped), {})
      BY <1>11, <2>2 DEF RestrictLocked
    <3>2. store \in Store /\ s \in Socket
      BY <2>2 DEF TypeOK, Store
    <3>3. e(capped) \in Store
      BY <3>2, EndRoomsType
    <3> HIDE DEF e
    <3>4. w(capped) \in Store
      BY <3>2, <3>3 DEF Store, States
    <3> HIDE DEF w
    <3>5. /\ store' \in Store
          /\ starting' \subseteq Instance \X Room
          /\ deadline' \in [Room -> {"open", "edge", "late"}]
          /\ started' \subseteq Room
          /\ spared' \subseteq Socket
      BY <3>1, <3>4, MatchPassType
    <3> QED
      BY <1>11, <3>5 DEF TypeOK, RestrictLocked
  <2> QED
    BY <2>1, <2>2
<1>12. CASE \E d \in Device : RestrictFails(i, d)
  BY <1>12 DEF TypeOK, RestrictFails, InRoomOf
<1> QED
  BY <1>1, <1>2, <1>3, <1>5, <1>6, <1>7, <1>8, <1>9, <1>10, <1>11, <1>12 DEF InstanceStep

LEMMA NextType ==
  ASSUME TypeOK, [Next]_vars
  PROVE  TypeOK'
<1>1. CASE \E s \in Socket : SocketStep(s)
  BY <1>1, SocketStepType
<1>2. CASE \E i \in Instance : InstanceStep(i)
  BY <1>2, InstanceStepType
<1>3. ASSUME NEW r \in Room, PassDeadline(r)
      PROVE  TypeOK'
  BY <1>3 DEF TypeOK, PassDeadline
<1>4. ASSUME NEW r \in Room, Forget(r)
      PROVE  TypeOK'
  <2>1. store' \in Store
    BY <1>4 DEF TypeOK, Forget, Store, Phases
  <2> QED
    BY <1>4, <2>1 DEF TypeOK, Forget
<1>5. ASSUME NEW x \in reporting, ReportLocked(x)
      PROVE  TypeOK'
  <2>1. x \in Report /\ reporting' \subseteq Report
    BY <1>5 DEF TypeOK, ReportLocked
  <2>2. x.by \in Socket /\ x.pair \in SUBSET Device
    BY <2>1 DEF Report
  <2>3. CASE InRoom(store, x.by) /\ store.room[x.by] = x.room
    <3>1. BlockAndEnd(x.by)
      BY <1>5, <2>3 DEF ReportLocked
    <3>2. /\ store' \in Store
          /\ starting' \subseteq Instance \X Room
          /\ deadline' \in [Room -> {"open", "edge", "late"}]
          /\ started' \subseteq Room
          /\ spared' \subseteq Socket
      BY <2>2, <2>3, <3>1, BlockAndEndType
    <3> QED
      BY <1>5, <2>1, <3>2 DEF TypeOK, ReportLocked
  <2>4. CASE ~(InRoom(store, x.by) /\ store.room[x.by] = x.room)
    <3>1. store' \in Store
      BY <1>5, <2>2, <2>4, BlockPairType DEF TypeOK, ReportLocked
    <3> QED
      BY <1>5, <2>1, <2>4, <3>1 DEF TypeOK, ReportLocked
  <2> QED
    BY <2>3, <2>4
<1>6. ASSUME NEW pair \in store.blocked, Unblock(pair)
      PROVE  TypeOK'
  <2>1. store' \in Store
    BY <1>6 DEF TypeOK, Unblock, Store
  <2> QED
    BY <1>6, <2>1 DEF TypeOK, Unblock, StoreOnly
<1>7. ASSUME NEW d \in Device, Lift(d)
      PROVE  TypeOK'
  <2>1. store' \in Store
    BY <1>7 DEF TypeOK, Lift, Store
  <2> QED
    BY <1>7, <2>1 DEF TypeOK, Lift, StoreOnly
<1>8. CASE UNCHANGED vars
  BY <1>8 DEF TypeOK, vars
<1> QED
  BY <1>1, <1>2, <1>3, <1>4, <1>5, <1>6, <1>7, <1>8 DEF Next, RoomLapse

\* Every variable keeps its type, whatever sections, crashes and timers interleave.
THEOREM TypeCorrect == Spec => []TypeOK
<1>1. Init => TypeOK
  BY ConstantsOK DEF Init, TypeOK, Store, States, Phases
<1>2. TypeOK /\ [Next]_vars => TypeOK'
  BY NextType
<1> QED
  BY <1>1, <1>2, PTL DEF Spec

(***************************************************************************)
(* The consistency of rooms, sessions, queue and device bindings: an        *)
(* inductive invariant of the store alone, kept by every operator a section *)
(* is made of; then who is never in a room: blocked pairs and banned        *)
(* devices.                                                                *)
(***************************************************************************)
\* The inductive invariant, on a value of the store.
Consistent(w) ==
  /\ w \in Store
  /\ RoomsMatch(w)
  /\ QueueMatches(w)
  /\ Bound(w)
  /\ Consented(w)

\* Blocks, bans and the replica list play no part in it.
LEMMA SameSessions ==
  ASSUME NEW w, Consistent(w), NEW x \in Store,
         x.state = w.state, x.room = w.room, x.queue = w.queue, x.device = w.device,
         x.phase = w.phase, x.members = w.members, x.accepted = w.accepted
  PROVE  Consistent(x)
BY DEF Consistent, RoomsMatch, InRoom, QueueMatches, Bound, Consented

(***************************************************************************)
(* What ending rooms does to each session and room: e is w after the rooms R *)
(* ended and their members among `told` were idled or re-queued.            *)
(***************************************************************************)
Ended(w, e, R, told) ==
  /\ e.device = w.device
  /\ \A r \in Room : IF r \in R THEN e.phase[r] \notin Live
                     ELSE /\ e.phase[r] = w.phase[r]
                          /\ e.members[r] = w.members[r]
                          /\ e.accepted[r] = w.accepted[r]
  /\ \A s \in Socket :
       IF s \in told /\ w.room[s] \in R /\ s \in w.members[w.room[s]]
         THEN /\ e.room[s] = NoRoom
              /\ \/ e.state[s] = "idle" /\ (s \in e.queue <=> s \in w.queue)
                 \/ e.state[s] = "waiting" /\ s \in e.queue
         ELSE /\ e.room[s] = w.room[s]
              /\ e.state[s] = w.state[s]
              /\ s \in e.queue <=> s \in w.queue

LEMMA EndRoomsFacts ==
  ASSUME NEW w \in Store, NEW R, NEW told \in SUBSET Socket, NEW late, NEW capped
  PROVE  /\ EndRooms(w, R, told, late, capped) \in Store
         /\ Ended(w, EndRooms(w, R, told, late, capped), R, told)
<1> DEFINE here == {s \in told : w.room[s] \in R /\ s \in w.members[w.room[s]]}
           back == {s \in here \ late : DeviceOf[s] \notin capped \cup w.banned}
           over == [w EXCEPT
                 !.phase = [r \in Room |-> IF r \in R THEN EndedPhase ELSE w.phase[r]],
                 !.members = [r \in Room |-> IF r \in R /\ EndedPhase = "free"
                                               THEN {} ELSE w.members[r]],
                 !.accepted = [r \in Room |-> IF r \in R THEN {} ELSE w.accepted[r]],
                 !.state = [s \in Socket |-> IF s \in here THEN "idle" ELSE w.state[s]],
                 !.room  = [s \in Socket |-> IF s \in here THEN NoRoom ELSE w.room[s]]]
           e == EndRooms(w, R, told, late, capped)
<1>1. EndedPhase \in Phases /\ EndedPhase \notin Live
  BY DEF EndedPhase, Phases, Live
<1>2. /\ over \in Store
      /\ over.phase = [r \in Room |-> IF r \in R THEN EndedPhase ELSE w.phase[r]]
      /\ over.members = [r \in Room |-> IF r \in R /\ EndedPhase = "free"
                                               THEN {} ELSE w.members[r]]
      /\ over.accepted = [r \in Room |-> IF r \in R THEN {} ELSE w.accepted[r]]
      /\ over.state = [s \in Socket |-> IF s \in here THEN "idle" ELSE w.state[s]]
      /\ over.room  = [s \in Socket |-> IF s \in here THEN NoRoom ELSE w.room[s]]
      /\ over.queue = w.queue /\ over.device = w.device
  BY <1>1 DEF Store, States
<1>3. back \in SUBSET here
  OBVIOUS
<1>4. e = Enqueue(over, back)
  BY DEF EndRooms
<1>5. e \in Store
  BY EndRoomsType
<1> HIDE DEF over, back, e
<1>6. /\ e.state = [s \in Socket |-> IF s \in back THEN "waiting" ELSE over.state[s]]
      /\ e.room  = [s \in Socket |-> IF s \in back THEN NoRoom ELSE over.room[s]]
      /\ e.queue = over.queue \cup back
      /\ e.phase = over.phase /\ e.members = over.members /\ e.accepted = over.accepted
      /\ e.device = over.device
  BY <1>2, <1>4 DEF Enqueue, Store
<1>7. \A r \in Room : IF r \in R THEN e.phase[r] \notin Live
                            ELSE /\ e.phase[r] = w.phase[r]
                                 /\ e.members[r] = w.members[r]
                                 /\ e.accepted[r] = w.accepted[r]
  BY <1>1, <1>2, <1>6
<1>8. \A s \in Socket :
              IF s \in told /\ w.room[s] \in R /\ s \in w.members[w.room[s]]
                THEN /\ e.room[s] = NoRoom
                     /\ \/ e.state[s] = "idle" /\ (s \in e.queue <=> s \in w.queue)
                        \/ e.state[s] = "waiting" /\ s \in e.queue
                ELSE /\ e.room[s] = w.room[s]
                     /\ e.state[s] = w.state[s]
                     /\ s \in e.queue <=> s \in w.queue
  BY <1>2, <1>3, <1>6
<1> QED
  BY <1>2, <1>5, <1>6, <1>7, <1>8 DEF Ended, e

LEMMA EndRoomsConsistent ==
  ASSUME NEW w, Consistent(w), NEW R \in SUBSET Room, NEW late, NEW capped,
         NEW e, e = EndRooms(w, R, Socket, late, capped)
  PROVE  Consistent(e)
<1>0. w \in Store /\ Socket \in SUBSET Socket
  BY DEF Consistent
<1>1. w \in Store /\ e \in Store /\ Ended(w, e, R, Socket)
  BY <1>0, EndRoomsFacts
<1>2. \A r \in Room : IF r \in R THEN e.phase[r] \notin Live
                      ELSE /\ e.phase[r] = w.phase[r]
                           /\ e.members[r] = w.members[r]
                           /\ e.accepted[r] = w.accepted[r]
  BY <1>1 DEF Ended
<1>3. \A s \in Socket :
              IF w.room[s] \in R /\ s \in w.members[w.room[s]]
                THEN /\ e.room[s] = NoRoom
                     /\ \/ e.state[s] = "idle" /\ (s \in e.queue <=> s \in w.queue)
                        \/ e.state[s] = "waiting" /\ s \in e.queue
                ELSE /\ e.room[s] = w.room[s]
                     /\ e.state[s] = w.state[s]
                     /\ s \in e.queue <=> s \in w.queue
  BY <1>1 DEF Ended
<1>4. e.device = w.device
  BY <1>1 DEF Ended
<1>5. \A s \in Socket : w.room[s] \in R => w.state[s] \in Live /\ s \notin w.queue
  BY ConstantsOK DEF Consistent, RoomsMatch, QueueMatches, Live
<1>6. RoomsMatch(e)
  <2>1. ASSUME NEW r \in Room, e.phase[r] \in Live
        PROVE  /\ \A s \in e.members[r] : e.room[s] = r /\ e.state[s] = e.phase[r]
               /\ \E a, b \in Socket : e.members[r] = {a, b} /\ DeviceOf[a] # DeviceOf[b]
    <3>1. r \notin R /\ w.phase[r] \in Live /\ e.members[r] = w.members[r] /\ e.phase[r] = w.phase[r]
      BY <1>2, <2>1
    <3>2. \A s \in w.members[r] : s \in Socket
      BY <1>1 DEF Store
    <3> QED
      BY <1>3, <3>1, <3>2 DEF Consistent, RoomsMatch
  <2>2. ASSUME NEW s \in Socket
        PROVE  IF e.state[s] \in Live THEN InRoom(e, s) ELSE e.room[s] = NoRoom
    <3>1. CASE w.room[s] \in R /\ s \in w.members[w.room[s]]
      BY <1>3, <3>1 DEF Live
    <3>2. CASE ~(w.room[s] \in R /\ s \in w.members[w.room[s]])
      <4>1. e.room[s] = w.room[s] /\ e.state[s] = w.state[s]
        BY <1>3, <3>2
      <4>2. CASE w.state[s] \in Live
        <5>1. InRoom(w, s)
          BY <4>2 DEF Consistent, RoomsMatch
        <5>2. w.room[s] \in Room \ R
          BY <1>1, <3>2, <5>1 DEF InRoom, Store
        <5> QED
          BY <1>2, <4>1, <4>2, <5>1, <5>2 DEF InRoom
      <4>3. CASE w.state[s] \notin Live
        BY <4>1, <4>3 DEF Consistent, RoomsMatch
      <4> QED
        BY <4>2, <4>3
    <3> QED
      BY <3>1, <3>2
  <2> QED
    BY <2>1, <2>2 DEF RoomsMatch
<1>7. QueueMatches(e)
  BY <1>1, <1>3, <1>5 DEF Consistent, QueueMatches, Store
<1>8. Bound(e)
  BY <1>3, <1>4, <1>5 DEF Consistent, Bound, Live
<1>9. Consented(e)
  BY <1>2 DEF Consistent, Consented, Live
<1> QED
  BY <1>1, <1>6, <1>7, <1>8, <1>9 DEF Consistent

LEMMA RemoveSessionsConsistent ==
  ASSUME NEW w, Consistent(w), NEW S \in SUBSET Socket, NEW capped,
         NEW x, x = RemoveSessions(w, S, capped)
  PROVE  /\ Consistent(x)
         /\ \A s \in Socket \ S : w.state[s] \notin Live => x.state[s] = w.state[s]
         /\ \A d \in Device : x.device[d] = IF w.device[d] \in S THEN NoSocket ELSE w.device[d]
<1> DEFINE R == {w.room[s] : s \in {y \in S : InRoom(w, y)}}
           e == EndRooms(w, R, Socket \ S, {}, capped)
<1>0. w \in Store /\ Socket \ S \in SUBSET Socket
  BY DEF Consistent
<1>a. e \in Store
  BY <1>0, EndRoomsType
<1>b. x \in Store
  BY <1>0, RemoveSessionsType
<1>1. w \in Store /\ e \in Store /\ x \in Store /\ Socket \ S \in SUBSET Socket
  BY <1>0, <1>a, <1>b
<1>c. RemoveSessions(w, S, capped) = [e EXCEPT
        !.state  = [s \in Socket |-> IF s \in S THEN "none" ELSE e.state[s]],
        !.room   = [s \in Socket |-> IF s \in S THEN NoRoom ELSE e.room[s]],
        !.queue  = e.queue \ S,
        !.device = [d \in Device |-> IF e.device[d] \in S THEN NoSocket ELSE e.device[d]]]
  BY DEF RemoveSessions
<1>2. x = [e EXCEPT
        !.state  = [s \in Socket |-> IF s \in S THEN "none" ELSE e.state[s]],
        !.room   = [s \in Socket |-> IF s \in S THEN NoRoom ELSE e.room[s]],
        !.queue  = e.queue \ S,
        !.device = [d \in Device |-> IF e.device[d] \in S THEN NoSocket ELSE e.device[d]]]
  BY <1>c
<1>3. R \in SUBSET Room
  <2>1. \A y \in Socket : w.room[y] \in Room \cup {NoRoom}
    BY <1>1 DEF Store
  <2> QED
    BY <2>1 DEF InRoom
<1>4. \A s \in S : InRoom(w, s) => w.room[s] \in R
  OBVIOUS
<1> HIDE DEF R
<1>5. Ended(w, e, R, Socket \ S)
  BY <1>1, EndRoomsFacts
<1> HIDE DEF e
<1>6. /\ x.state  = [s \in Socket |-> IF s \in S THEN "none" ELSE e.state[s]]
      /\ x.room   = [s \in Socket |-> IF s \in S THEN NoRoom ELSE e.room[s]]
      /\ x.queue  = e.queue \ S
      /\ x.device = [d \in Device |-> IF e.device[d] \in S THEN NoSocket ELSE e.device[d]]
      /\ x.phase = e.phase /\ x.members = e.members /\ x.accepted = e.accepted
  BY <1>1, <1>2 DEF Store
<1>7. \A r \in Room : IF r \in R THEN x.phase[r] \notin Live
                            ELSE /\ x.phase[r] = w.phase[r]
                                 /\ x.members[r] = w.members[r]
                                 /\ x.accepted[r] = w.accepted[r]
  BY <1>5, <1>6 DEF Ended
<1>8. \A s \in S : x.state[s] = "none" /\ x.room[s] = NoRoom /\ s \notin x.queue
  BY <1>6
<1>9. \A s \in Socket \ S :
              IF w.room[s] \in R /\ s \in w.members[w.room[s]]
                THEN /\ x.room[s] = NoRoom
                     /\ \/ x.state[s] = "idle" /\ (s \in x.queue <=> s \in w.queue)
                        \/ x.state[s] = "waiting" /\ s \in x.queue
                ELSE /\ x.room[s] = w.room[s]
                     /\ x.state[s] = w.state[s]
                     /\ s \in x.queue <=> s \in w.queue
  BY <1>5, <1>6 DEF Ended
<1>10. \A d \in Device : x.device[d] = IF w.device[d] \in S THEN NoSocket ELSE w.device[d]
  BY <1>5, <1>6 DEF Ended
<1> HIDE <1>2
<1>11. \A s \in Socket : w.room[s] \in R => w.state[s] \in Live /\ s \notin w.queue
  BY <1>3, ConstantsOK DEF Consistent, RoomsMatch, QueueMatches, Live
<1>12. RoomsMatch(x)
  <2>1. ASSUME NEW r \in Room, x.phase[r] \in Live
        PROVE  /\ \A s \in x.members[r] : x.room[s] = r /\ x.state[s] = x.phase[r]
               /\ \E a, b \in Socket : x.members[r] = {a, b} /\ DeviceOf[a] # DeviceOf[b]
    <3>1. r \notin R /\ w.phase[r] \in Live /\ x.members[r] = w.members[r] /\ x.phase[r] = w.phase[r]
      BY <1>7, <2>1
    <3>2. \A s \in w.members[r] :
             s \in Socket /\ w.room[s] = r /\ w.state[s] = w.phase[r] /\ InRoom(w, s)
      BY <1>1, <3>1 DEF Store, Consistent, RoomsMatch
    <3>3. \A s \in w.members[r] : s \in Socket \ S
      BY <1>4, <3>1, <3>2
    <3>4. \A s \in w.members[r] : x.room[s] = r /\ x.state[s] = w.phase[r]
      BY <1>9, <3>1, <3>2, <3>3
    <3> QED
      BY <3>1, <3>4 DEF Consistent, RoomsMatch
  <2>2. ASSUME NEW s \in Socket
        PROVE  IF x.state[s] \in Live THEN InRoom(x, s) ELSE x.room[s] = NoRoom
    <3>1. CASE s \in S
      BY <1>8, <3>1 DEF Live
    <3>2. CASE s \notin S /\ w.room[s] \in R /\ s \in w.members[w.room[s]]
      BY <1>9, <3>2 DEF Live
    <3>3. CASE s \notin S /\ ~(w.room[s] \in R /\ s \in w.members[w.room[s]])
      <4>1. x.room[s] = w.room[s] /\ x.state[s] = w.state[s]
        BY <1>9, <3>3
      <4>2. CASE w.state[s] \in Live
        <5>1. InRoom(w, s)
          BY <4>2 DEF Consistent, RoomsMatch
        <5>2. w.room[s] \in Room \ R
          BY <1>1, <3>3, <5>1 DEF InRoom, Store
        <5> QED
          BY <1>7, <4>1, <4>2, <5>1, <5>2 DEF InRoom
      <4>3. CASE w.state[s] \notin Live
        BY <4>1, <4>3 DEF Consistent, RoomsMatch
      <4> QED
        BY <4>2, <4>3
    <3> QED
      BY <3>1, <3>2, <3>3
  <2> QED
    BY <2>1, <2>2 DEF RoomsMatch
<1>13. QueueMatches(x)
  BY <1>1, <1>8, <1>9, <1>11 DEF Consistent, QueueMatches, Store
<1>14. Bound(x)
  BY <1>8, <1>9, <1>10, <1>11, ConstantsOK DEF Consistent, Bound, Live
<1>15. Consented(x)
  BY <1>7 DEF Consistent, Consented, Live
<1>16. \A s \in Socket \ S : w.state[s] \notin Live => x.state[s] = w.state[s]
  BY <1>9, <1>11
<1> QED
  BY <1>1, <1>10, <1>12, <1>13, <1>14, <1>15, <1>16 DEF Consistent

(***************************************************************************)
(* Joining the queue, and leaving it for idle.                             *)
(***************************************************************************)

\* A hello: a session that is not in a room is queued, a new one is bound first to its
\* device, which no other session holds.
LEMMA HelloConsistent ==
  ASSUME NEW w, Consistent(w), NEW s \in Socket,
         w.state[s] \in {"none", "idle", "waiting"},
         w.state[s] = "none" => w.device[DeviceOf[s]] = NoSocket,
         NEW b, b = IF w.state[s] = "none" THEN [w EXCEPT !.device[DeviceOf[s]] = s] ELSE w
  PROVE  Consistent(Enqueue(b, {s}))
<1> DEFINE x == Enqueue(b, {s})
<1>1. w \in Store /\ b \in Store
  BY ConstantsOK DEF Consistent, Store
<1>2. x \in Store
  BY <1>1, EnqueueType
<1>3. /\ b.state = w.state /\ b.room = w.room /\ b.queue = w.queue
      /\ b.phase = w.phase /\ b.members = w.members /\ b.accepted = w.accepted
      /\ b.device = IF w.state[s] = "none" THEN [w.device EXCEPT ![DeviceOf[s]] = s]
                                            ELSE w.device
  BY <1>1 DEF Store
<1>4. /\ x.state = [t \in Socket |-> IF t \in {s} THEN "waiting" ELSE b.state[t]]
      /\ x.room  = [t \in Socket |-> IF t \in {s} THEN NoRoom ELSE b.room[t]]
      /\ x.queue = b.queue \cup {s}
      /\ x.phase = b.phase /\ x.members = b.members /\ x.accepted = b.accepted
      /\ x.device = b.device
  BY <1>1 DEF Enqueue, Store
<1> HIDE DEF x
<1>5. \A t \in Socket : IF t = s THEN x.state[t] = "waiting" /\ x.room[t] = NoRoom
                        ELSE x.state[t] = w.state[t] /\ x.room[t] = w.room[t]
  BY <1>3, <1>4
<1>6. w.state[s] \notin Live
  BY DEF Live
<1>7. RoomsMatch(x)
  <2>1. ASSUME NEW r \in Room, x.phase[r] \in Live
        PROVE  /\ \A t \in x.members[r] : x.room[t] = r /\ x.state[t] = x.phase[r]
               /\ \E a, c \in Socket : x.members[r] = {a, c} /\ DeviceOf[a] # DeviceOf[c]
    <3>1. w.phase[r] \in Live /\ x.members[r] = w.members[r] /\ x.phase[r] = w.phase[r]
      BY <1>3, <1>4, <2>1
    <3>2. \A t \in w.members[r] : t \in Socket /\ t # s
      BY <1>1, <1>6, <3>1 DEF Store, Consistent, RoomsMatch
    <3> QED
      BY <1>5, <3>1, <3>2 DEF Consistent, RoomsMatch
  <2>2. \A t \in Socket : IF x.state[t] \in Live THEN InRoom(x, t) ELSE x.room[t] = NoRoom
    BY <1>3, <1>4, <1>5 DEF Consistent, RoomsMatch, InRoom, Live
  <2> QED
    BY <2>1, <2>2 DEF RoomsMatch
<1>8. QueueMatches(x)
  BY <1>3, <1>4, <1>5 DEF Consistent, QueueMatches
<1>9. Bound(x)
  <2>1. ASSUME NEW t \in Socket
        PROVE  x.state[t] # "none" <=> x.device[DeviceOf[t]] = t
    <3>1. w.state[t] # "none" <=> w.device[DeviceOf[t]] = t
      BY DEF Consistent, Bound
    <3>2. w.state[s] # "none" <=> w.device[DeviceOf[s]] = s
      BY DEF Consistent, Bound
    <3>3. w.device \in [Device -> Socket \cup {NoSocket}] /\ DeviceOf[s] \in Device
          /\ DeviceOf[t] \in Device /\ NoSocket # t
      BY <1>1, ConstantsOK DEF Store
    <3> QED
      BY <1>3, <1>4, <1>5, <3>1, <3>2, <3>3
  <2> QED
    BY <2>1 DEF Bound
<1>10. Consented(x)
  BY <1>3, <1>4 DEF Consistent, Consented
<1> QED
  BY <1>2, <1>7, <1>8, <1>9, <1>10 DEF Consistent, x

\* restrictionApplied's last write: the session of no room becomes idle.
LEMMA IdleConsistent ==
  ASSUME NEW w, Consistent(w), NEW s \in Socket, w.state[s] \in {"idle", "waiting"}
  PROVE  Consistent([w EXCEPT !.state[s] = "idle", !.room[s] = NoRoom, !.queue = @ \ {s}])
<1> DEFINE x == [w EXCEPT !.state[s] = "idle", !.room[s] = NoRoom, !.queue = @ \ {s}]
<1>1. w \in Store
  BY DEF Consistent
<1>2. /\ x \in Store
      /\ x.state = [w.state EXCEPT ![s] = "idle"] /\ x.room = [w.room EXCEPT ![s] = NoRoom]
      /\ x.queue = w.queue \ {s} /\ x.device = w.device
      /\ x.phase = w.phase /\ x.members = w.members /\ x.accepted = w.accepted
  BY <1>1 DEF Store, States
<1> HIDE DEF x
<1>3. \A t \in Socket : IF t = s THEN x.state[t] = "idle" /\ x.room[t] = NoRoom
                        ELSE x.state[t] = w.state[t] /\ x.room[t] = w.room[t]
  BY <1>1, <1>2 DEF Store
<1>4. RoomsMatch(x)
  <2>1. ASSUME NEW r \in Room, x.phase[r] \in Live
        PROVE  /\ \A t \in x.members[r] : x.room[t] = r /\ x.state[t] = x.phase[r]
               /\ \E a, c \in Socket : x.members[r] = {a, c} /\ DeviceOf[a] # DeviceOf[c]
    <3>1. w.phase[r] \in Live /\ x.members[r] = w.members[r] /\ x.phase[r] = w.phase[r]
      BY <1>2, <2>1
    <3>2. \A t \in w.members[r] : t \in Socket /\ t # s
      BY <1>1, <3>1 DEF Store, Consistent, RoomsMatch, Live
    <3> QED
      BY <1>3, <3>1, <3>2 DEF Consistent, RoomsMatch
  <2>2. \A t \in Socket : IF x.state[t] \in Live THEN InRoom(x, t) ELSE x.room[t] = NoRoom
    BY <1>2, <1>3 DEF Consistent, RoomsMatch, InRoom, Live
  <2> QED
    BY <2>1, <2>2 DEF RoomsMatch
<1>5. QueueMatches(x)
  BY <1>2, <1>3 DEF Consistent, QueueMatches
<1>6. Bound(x)
  BY <1>2, <1>3 DEF Consistent, Bound
<1>7. Consented(x)
  BY <1>2 DEF Consistent, Consented
<1> QED
  BY <1>2, <1>4, <1>5, <1>6, <1>7 DEF Consistent, x

(***************************************************************************)
(* Rooms: made by a pass, and made active.                                 *)
(***************************************************************************)

LEMMA ActivateConsistent ==
  ASSUME NEW w, Consistent(w), NEW R \in SUBSET Room,
         \A r \in R : w.phase[r] = "pending" /\ w.members[r] \subseteq w.accepted[r]
  PROVE  Consistent(Activate(w, R))
<1> DEFINE x == Activate(w, R)
<1>1. w \in Store /\ x \in Store
  BY ActivateType DEF Consistent
<1>2. /\ x.phase = [r \in Room |-> IF r \in R THEN "active" ELSE w.phase[r]]
      /\ x.state = [s \in Socket |-> IF w.room[s] \in R /\ w.state[s] # "none"
                                        THEN "active" ELSE w.state[s]]
      /\ x.room = w.room /\ x.queue = w.queue /\ x.device = w.device
      /\ x.members = w.members /\ x.accepted = w.accepted
  BY <1>1 DEF Activate, Store
<1> HIDE DEF x
<1>3. \A s \in Socket : w.room[s] \in R => w.state[s] \in Live
  BY ConstantsOK DEF Consistent, RoomsMatch
<1>4. \A s \in Socket : IF w.room[s] \in R THEN x.state[s] = "active" ELSE x.state[s] = w.state[s]
  BY <1>2, <1>3 DEF Live
<1>5. RoomsMatch(x)
  <2>1. ASSUME NEW r \in Room, x.phase[r] \in Live
        PROVE  /\ \A s \in x.members[r] : x.room[s] = r /\ x.state[s] = x.phase[r]
               /\ \E a, b \in Socket : x.members[r] = {a, b} /\ DeviceOf[a] # DeviceOf[b]
    <3>1. w.phase[r] \in Live
      BY <1>2, <2>1 DEF Live
    <3>2. \A s \in w.members[r] : s \in Socket /\ w.room[s] = r /\ w.state[s] = w.phase[r]
      BY <1>1, <3>1 DEF Store, Consistent, RoomsMatch
    <3>3. \A s \in w.members[r] : x.state[s] = x.phase[r]
      BY <1>2, <1>4, <3>2
    <3> QED
      BY <1>2, <3>1, <3>2, <3>3 DEF Consistent, RoomsMatch
  <2>2. ASSUME NEW s \in Socket
        PROVE  IF x.state[s] \in Live THEN InRoom(x, s) ELSE x.room[s] = NoRoom
    <3>1. CASE w.state[s] \in Live
      <4>1. InRoom(w, s) /\ w.room[s] \in Room
        BY <1>1, <3>1 DEF Consistent, RoomsMatch, InRoom, Store
      <4> QED
        BY <1>2, <1>4, <3>1, <4>1 DEF InRoom, Live
    <3>2. CASE w.state[s] \notin Live
      BY <1>2, <1>3, <1>4, <3>2 DEF Consistent, RoomsMatch
    <3> QED
      BY <3>1, <3>2
  <2> QED
    BY <2>1, <2>2 DEF RoomsMatch
<1>6. QueueMatches(x)
  BY <1>2, <1>3, <1>4 DEF Consistent, QueueMatches, Live
<1>7. Bound(x)
  BY <1>2, <1>3, <1>4 DEF Consistent, Bound, Live
<1>8. Consented(x)
  BY <1>2 DEF Consistent, Consented
<1> QED
  BY <1>1, <1>5, <1>6, <1>7, <1>8 DEF Consistent, x

LEMMA CreateRoomsConsistent ==
  ASSUME NEW w, Consistent(w), NEW M \in SUBSET SUBSET Socket, NEW id \in [M -> Room],
         \A p \in M : \E a, b \in Socket :
           /\ p = {a, b} /\ DeviceOf[a] # DeviceOf[b]
           /\ w.state[a] = "waiting" /\ w.state[b] = "waiting",
         \A p, q \in M : p # q => p \cap q = {},
         \A p, q \in M : id[p] = id[q] => p = q,
         \A p \in M : w.phase[id[p]] = "free"
  PROVE  Consistent(CreateRooms(w, M, id))
<1> DEFINE new == {id[p] : p \in M}
           of(r) == CHOOSE p \in M : id[p] = r
           pair(s) == CHOOSE p \in M : s \in p
           inst == {id[p] : p \in BothInstant(M)}
           x == [w EXCEPT
        !.state = [s \in Socket |-> IF s \in UNION M THEN "pending" ELSE w.state[s]],
        !.room  = [s \in Socket |-> IF s \in UNION M THEN id[pair(s)] ELSE w.room[s]],
        !.queue = {s \in w.queue \ UNION M : w.state[s] = "waiting"},
        !.phase = [r \in Room |-> IF r \in new THEN "pending" ELSE w.phase[r]],
        !.members = [r \in Room |-> IF r \in new THEN of(r) ELSE w.members[r]],
        !.accepted = [r \in Room |-> IF r \in new THEN of(r) \cap Instant ELSE w.accepted[r]]]
<1>1. w \in Store
  BY DEF Consistent
<1>2. \A p \in M : id[p] \in new /\ of(id[p]) = p
  OBVIOUS
<1>3. \A r \in new : r \in Room /\ of(r) \in M /\ id[of(r)] = r
  OBVIOUS
<1>4. \A p \in M : \A s \in p : s \in UNION M /\ pair(s) = p
  OBVIOUS
<1>5. \A s \in UNION M : pair(s) \in M /\ s \in pair(s)
  OBVIOUS
<1>6. \A s \in UNION M : s \in Socket /\ w.state[s] = "waiting"
  OBVIOUS
<1> HIDE DEF of, pair, new
<1>7. x \in Store
  <2>1. \A r \in new : of(r) \in SUBSET Socket
    BY <1>3
  <2>2. \A s \in UNION M : id[pair(s)] \in Room
    BY <1>5
  <2> QED
    BY <1>1, <2>1, <2>2 DEF Store, States, Phases
<1>8. /\ x.state = [s \in Socket |-> IF s \in UNION M THEN "pending" ELSE w.state[s]]
      /\ x.room  = [s \in Socket |-> IF s \in UNION M THEN id[pair(s)] ELSE w.room[s]]
      /\ x.queue = {s \in w.queue \ UNION M : w.state[s] = "waiting"}
      /\ x.phase = [r \in Room |-> IF r \in new THEN "pending" ELSE w.phase[r]]
      /\ x.members = [r \in Room |-> IF r \in new THEN of(r) ELSE w.members[r]]
      /\ x.accepted = [r \in Room |-> IF r \in new THEN of(r) \cap Instant ELSE w.accepted[r]]
      /\ x.device = w.device
  BY <1>1 DEF Store
<1>9. CreateRooms(w, M, id) = Activate(x, inst)
  BY DEF CreateRooms, of, pair, new
<1> HIDE DEF x
<1>10. \A p \in M : /\ x.phase[id[p]] = "pending" /\ x.members[id[p]] = p
                     /\ x.accepted[id[p]] = p \cap Instant
  BY <1>2, <1>8
<1>11. \A r \in Room \ new : /\ x.phase[r] = w.phase[r] /\ x.members[r] = w.members[r]
                             /\ x.accepted[r] = w.accepted[r]
  BY <1>8
<1>12. \A p \in M : \A s \in p : x.state[s] = "pending" /\ x.room[s] = id[p]
  BY <1>4, <1>6, <1>8
<1>13. \A s \in Socket \ UNION M : x.state[s] = w.state[s] /\ x.room[s] = w.room[s]
  BY <1>8
<1>14. RoomsMatch(x)
  <2>1. ASSUME NEW r \in Room, x.phase[r] \in Live
        PROVE  /\ \A s \in x.members[r] : x.room[s] = r /\ x.state[s] = x.phase[r]
               /\ \E a, b \in Socket : x.members[r] = {a, b} /\ DeviceOf[a] # DeviceOf[b]
    <3>1. CASE r \in new
      <4>1. PICK p \in M : r = id[p]
        BY <1>3, <3>1
      <4> QED
        BY <1>10, <1>12, <4>1
    <3>2. CASE r \notin new
      <4>1. w.phase[r] \in Live /\ x.members[r] = w.members[r] /\ x.phase[r] = w.phase[r]
        BY <1>11, <2>1, <3>2
      <4>2. \A s \in w.members[r] : s \in Socket /\ w.room[s] = r /\ w.state[s] = w.phase[r]
        BY <1>1, <4>1 DEF Store, Consistent, RoomsMatch
      <4>3. \A s \in w.members[r] : s \notin UNION M
        BY <1>6, <4>1, <4>2 DEF Live
      <4> QED
        BY <1>13, <4>1, <4>2, <4>3 DEF Consistent, RoomsMatch
    <3> QED
      BY <3>1, <3>2
  <2>2. ASSUME NEW s \in Socket
        PROVE  IF x.state[s] \in Live THEN InRoom(x, s) ELSE x.room[s] = NoRoom
    <3>1. CASE s \in UNION M
      <4>1. PICK p \in M : s \in p
        BY <3>1
      <4>2. id[p] # NoRoom
        BY ConstantsOK
      <4> QED
        BY <1>10, <1>12, <4>1, <4>2 DEF InRoom, Live
    <3>2. CASE s \notin UNION M
      <4>1. CASE w.state[s] \in Live
        <5>1. InRoom(w, s) /\ w.room[s] \in Room
          BY <1>1, <4>1 DEF Consistent, RoomsMatch, InRoom, Store
        <5>2. w.room[s] \notin new
          BY <5>1 DEF InRoom, Live, new
        <5> QED
          BY <1>11, <1>13, <3>2, <4>1, <5>1, <5>2 DEF InRoom
      <4>2. CASE w.state[s] \notin Live
        BY <1>13, <3>2, <4>2 DEF Consistent, RoomsMatch
      <4> QED
        BY <4>1, <4>2
    <3> QED
      BY <3>1, <3>2
  <2> QED
    BY <2>1, <2>2 DEF RoomsMatch
<1>15. QueueMatches(x)
  BY <1>1, <1>6, <1>8 DEF Consistent, QueueMatches
<1>16. Bound(x)
  BY <1>6, <1>8 DEF Consistent, Bound
<1>17. Consented(x)
  BY <1>8 DEF Consistent, Consented
<1>18. Consistent(x)
  BY <1>7, <1>14, <1>15, <1>16, <1>17 DEF Consistent
<1>19. inst \in SUBSET Room
  BY DEF BothInstant
<1>20. \A r \in inst : x.phase[r] = "pending" /\ x.members[r] \subseteq x.accepted[r]
  BY <1>10 DEF BothInstant
<1> QED
  BY <1>9, <1>18, <1>19, <1>20, ActivateConsistent

LEMMA MatchPassConsistent ==
  ASSUME NEW i, NEW w, Consistent(w), NEW extra, MatchPass(i, w, extra)
  PROVE  Consistent(store')
<1> DEFINE focus == (w.queue \ store.queue) \cup extra
<1>a. PICK M \in SUBSET Candidates(w, focus) :
         /\ IsPass(M, w, focus)
         /\ \E id \in [M -> FreeRooms(w)] :
              /\ \A p, q \in M : id[p] = id[q] => p = q
              /\ store' = CreateRooms(w, M, id)
  BY DEF MatchPass
<1>1. PICK id \in [M -> FreeRooms(w)] :
         /\ \A p, q \in M : id[p] = id[q] => p = q
         /\ store' = CreateRooms(w, M, id)
  BY <1>a
<1>2. w \in Store
  BY DEF Consistent
<1>3. \A p \in M : p \in SUBSET Socket
  BY <1>2, CandidatesType
<1>4. ASSUME NEW p \in M
      PROVE  \E a, b \in Socket :
               /\ p = {a, b} /\ DeviceOf[a] # DeviceOf[b]
               /\ w.state[a] = "waiting" /\ w.state[b] = "waiting"
  <2>1. p \in Candidates(w, focus)
    OBVIOUS
  <2> HIDE DEF focus
  <2>2. \E a, b \in Socket : p = {a, b} /\ Matchable(w, a, b) /\ a \in w.queue /\ b \in w.queue
    BY <1>2, <2>1, CandidatesType
  <2> QED
    BY <2>2 DEF Matchable
<1>5. \A p, q \in M : p # q => p \cap q = {}
  BY <1>a DEF IsPass
<1>6. id \in [M -> Room] /\ \A p \in M : w.phase[id[p]] = "free"
  BY DEF FreeRooms
<1> QED
  BY <1>1, <1>3, <1>4, <1>5, <1>6, CreateRoomsConsistent

(***************************************************************************)
(* The steps.                                                              *)
(***************************************************************************)

\* The pair of a room is blocked and the room ends for both.
LEMMA BlockAndEndConsistent ==
  ASSUME Consistent(store), NEW s \in Socket, InRoom(store, s), BlockAndEnd(s)
  PROVE  Consistent(store')
<1> DEFINE r == store.room[s]
           b == BlockPair(store, Devices(store.members[r]))
<1>1. PICK capped \in Caps :
        MatchPass(HomeOf[s], EndRooms(b, {r}, Socket, {}, capped), {})
  BY DEF BlockAndEnd
<1>2. store \in Store /\ r \in Room
  BY DEF Consistent, InRoom, Store
<1>3. b \in Store
  BY <1>2, EndsType, BlockPairType
<1>4. Consistent(b)
  BY <1>2, <1>3, SameSessions DEF BlockPair, Store
<1> HIDE DEF b
<1>5. Consistent(EndRooms(b, {r}, Socket, {}, capped))
  BY <1>2, <1>4, EndRoomsConsistent
<1> QED
  BY <1>1, <1>5, MatchPassConsistent

LEMMA ExpireRoomsConsistent ==
  ASSUME NEW w, Consistent(w), NEW capped
  PROVE  Consistent(ExpireRooms(w, capped))
<1> DEFINE due  == Expired(w)
           late == {s \in Socket : w.room[s] \in due /\ s \notin w.accepted[w.room[s]]}
           b == [w EXCEPT !.blocked = @ \cup {Devices(w.members[r]) : r \in due}]
<1>1. w \in Store /\ due \in SUBSET Room
  BY DEF Consistent, Expired
<1>2. {Devices(w.members[r]) : r \in due} \in SUBSET SUBSET Device
  BY <1>1, DevicesType DEF Store
<1>3. b \in Store
  BY <1>1, <1>2 DEF Store
<1>4. Consistent(b)
  BY <1>1, <1>3, SameSessions DEF Store
<1>5. ExpireRooms(w, capped) = EndRooms(b, due, Socket, late, capped)
  BY DEF ExpireRooms
<1> HIDE DEF b, due, late
<1> QED
  BY <1>1, <1>4, <1>5, EndRoomsConsistent

LEMMA HelloStepConsistent ==
  ASSUME Consistent(store), NEW s \in Socket, HelloLocked(s)
  PROVE  Consistent(store')
<1> DEFINE first == store.state[s] = "none"
           old == IF first THEN Replaced(s) ELSE {}
<1>1. PICK capped \in Caps :
        LET w     == RemoveSessions(store, old, capped)
            bound == IF first THEN [w EXCEPT !.device[DeviceOf[s]] = s] ELSE w
        IN MatchPass(HomeOf[s], Enqueue(bound, {s}), {s})
  BY DEF HelloLocked
<1>2. store \in Store /\ store.state[s] \in {"none", "idle", "waiting"} /\ DeviceOf[s] \in Device
  BY ConstantsOK DEF Consistent, HelloLocked
<1>3. old \in SUBSET Socket /\ s \notin old
  BY <1>2 DEF Replaced, Store
<1>4. first => store.device[DeviceOf[s]] \in old \cup {NoSocket}
  BY <1>2 DEF Replaced, Consistent, Bound
<1> HIDE DEF old
<1> DEFINE w == RemoveSessions(store, old, capped)
           bound == IF first THEN [w EXCEPT !.device[DeviceOf[s]] = s] ELSE w
<1>5. Consistent(w) /\ w.state[s] = store.state[s]
      /\ \A d \in Device : w.device[d] = IF store.device[d] \in old THEN NoSocket
                                                               ELSE store.device[d]
  BY <1>2, <1>3, RemoveSessionsConsistent DEF Live
<1>6. MatchPass(HomeOf[s], Enqueue(bound, {s}), {s})
  BY <1>1
<1> HIDE DEF w
<1>7. first => w.device[DeviceOf[s]] = NoSocket
  BY <1>2, <1>4, <1>5
<1>8. bound = IF w.state[s] = "none" THEN [w EXCEPT !.device[DeviceOf[s]] = s] ELSE w
  BY <1>5
<1> HIDE DEF bound
<1>9. Consistent(Enqueue(bound, {s}))
  BY <1>2, <1>5, <1>7, <1>8, HelloConsistent
<1> QED
  BY <1>6, <1>9, MatchPassConsistent

LEMMA RestrictStepConsistent ==
  ASSUME Consistent(store), NEW i \in Instance, NEW d \in Device, RestrictLocked(i, d)
  PROVE  Consistent(store')
<1> DEFINE s == store.device[d]
<1>1. CASE s = NoSocket \/ store.state[s] = "none"
  BY <1>1 DEF RestrictLocked
<1>2. CASE ~(s = NoSocket \/ store.state[s] = "none")
  <2> DEFINE e(capped) == IF InRoom(store, s)
                 THEN EndRooms(store, {store.room[s]}, Socket, {}, capped) ELSE store
  <2>1. PICK capped \in Caps :
          MatchPass(i, [e(capped) EXCEPT !.state[s] = "idle", !.room[s] = NoRoom,
                                         !.queue = @ \ {s}], {})
    BY <1>2 DEF RestrictLocked
  <2>2. store \in Store /\ s \in Socket /\ Socket \in SUBSET Socket
    BY <1>2 DEF Consistent, Store
  <2>3. Consistent(e(capped)) /\ e(capped).state[s] \in {"idle", "waiting"}
    <3>1. CASE InRoom(store, s)
      <4> DEFINE x == EndRooms(store, {store.room[s]}, Socket, {}, capped)
      <4>1. {store.room[s]} \in SUBSET Room
        BY <2>2, <3>1 DEF InRoom, Store
      <4>2. Consistent(x)
        BY <4>1, EndRoomsConsistent
      <4>3. Ended(store, x, {store.room[s]}, Socket)
        BY <2>2, EndRoomsFacts
      <4> HIDE DEF x
      <4>4. x.state[s] \in {"idle", "waiting"}
        BY <2>2, <3>1, <4>3 DEF Ended, InRoom
      <4> QED
        BY <3>1, <4>2, <4>4 DEF x
    <3>2. CASE ~InRoom(store, s)
      BY <1>2, <2>2, <3>2 DEF Consistent, RoomsMatch, Store, States, Live
    <3> QED
      BY <3>1, <3>2
  <2> HIDE DEF e
  <2> QED
    BY <2>1, <2>2, <2>3, IdleConsistent, MatchPassConsistent
<1> QED
  BY <1>1, <1>2

LEMMA AcceptConsistent ==
  ASSUME Consistent(store), NEW s \in Socket, Accept(s)
  PROVE  Consistent(store')
<1> DEFINE r == store.room[s]
           w == [store EXCEPT !.accepted[r] = @ \cup {s}]
<1>1. store \in Store /\ r \in Room /\ store.phase[r] = "pending"
  BY DEF Consistent, Accept, InRoom, Store
<1>2. /\ w \in Store
      /\ w.accepted = [store.accepted EXCEPT ![r] = @ \cup {s}]
      /\ w.state = store.state /\ w.room = store.room /\ w.queue = store.queue
      /\ w.device = store.device /\ w.phase = store.phase /\ w.members = store.members
  BY <1>1 DEF Store
<1>3. \/ store' = w
      \/ store' = Activate(w, {r}) /\ w.accepted[r] = w.members[r]
  BY DEF Accept
<1> HIDE DEF w
<1>4. RoomsMatch(w) /\ QueueMatches(w) /\ Bound(w)
  BY <1>2 DEF Consistent, RoomsMatch, InRoom, QueueMatches, Bound
<1>5. Consented(w)
  BY <1>1, <1>2 DEF Consistent, Consented
<1>6. Consistent(w)
  BY <1>2, <1>4, <1>5 DEF Consistent
<1>7. {r} \in SUBSET Room /\ \A q \in {r} : w.phase[q] = "pending"
  BY <1>1, <1>2
<1> QED
  BY <1>3, <1>6, <1>7, ActivateConsistent

LEMMA SocketStepConsistent ==
  ASSUME Consistent(store), NEW s \in Socket, SocketStep(s)
  PROVE  Consistent(store')
<1>1. CASE \/ Connect(s) \/ HelloCheck(s) \/ HelloRefused(s) \/ HelloKeeps(s) \/ Disconnect(s)
           \/ DisconnectFails(s) \/ TickOrphans(s) \/ \E r \in Room : ReportCheck(s, r)
  BY <1>1 DEF Connect, HelloCheck, HelloRefused, HelloKeeps, Disconnect, DisconnectFails,
              TickOrphans, ReportCheck
<1>2. CASE HelloLocked(s)
  BY <1>2, HelloStepConsistent
<1>3. CASE DisconnectLocked(s)
  <2>1. ASSUME NEW capped, MatchPass(HomeOf[s], RemoveSessions(store, {s}, capped), {})
        PROVE  Consistent(store')
    <3>1. Consistent(RemoveSessions(store, {s}, capped))
      BY RemoveSessionsConsistent
    <3> QED
      BY <2>1, <3>1, MatchPassConsistent
  <2> QED
    BY <1>3, <2>1 DEF DisconnectLocked
<1>4. CASE Accept(s)
  BY <1>4, AcceptConsistent
<1>5. CASE Decline(s) \/ Skip(s) \/ CallFailed(s)
  BY <1>5, BlockAndEndConsistent DEF Decline, Skip, CallFailed
<1>6. CASE UpdatePreferences(s)
  BY <1>6, MatchPassConsistent DEF UpdatePreferences
<1> QED
  BY <1>1, <1>2, <1>3, <1>4, <1>5, <1>6 DEF SocketStep

\* A write of the replica list alone.
LEMMA ReplicasConsistent ==
  ASSUME NEW w, Consistent(w), NEW K \in SUBSET Instance, NEW B \in SUBSET Instance
  PROVE  Consistent([w EXCEPT !.known = K, !.beating = B])
<1> DEFINE x == [w EXCEPT !.known = K, !.beating = B]
<1>1. w \in Store
  BY DEF Consistent
<1>2. /\ x \in Store
      /\ x.state = w.state /\ x.room = w.room /\ x.queue = w.queue /\ x.device = w.device
      /\ x.phase = w.phase /\ x.members = w.members /\ x.accepted = w.accepted
  BY <1>1 DEF Store
<1> HIDE DEF x
<1>3. Consistent(x)
  BY <1>2, SameSessions
<1> QED
  BY <1>3 DEF x

LEMMA SweepConsistent ==
  ASSUME Consistent(store), NEW i \in Instance, NEW reap \in BOOLEAN, Sweep(i, reap)
  PROVE  Consistent(store')
<1> DEFINE dead  == IF reap THEN (store.known \ store.beating) \ {i} ELSE {}
           ghost == IF reap THEN Ghosts(i) ELSE {}
           gone  == SessionsOf(dead) \cup (SessionsOf({i}) \cap ghost)
           x(capped) == RemoveSessions(store, gone, capped)
           w(capped) == [x(capped) EXCEPT !.known = @ \ dead]
<1>a. PICK extra \in SUBSET store.queue, capped \in Caps :
        \E y \in {[RemoveSessions(store, gone, capped) EXCEPT !.known = @ \ dead]} :
        \E e \in {ExpireRooms(y, capped)} : MatchPass(i, e, extra)
  BY DEF Sweep
<1>1. MatchPass(i, ExpireRooms(w(capped), capped), extra)
  BY <1>a
<1>2. gone \in SUBSET Socket
  BY DEF SessionsOf
<1> HIDE DEF gone
<1>3. Consistent(x(capped))
  BY <1>2, RemoveSessionsConsistent
<1> HIDE DEF x, dead
<1>4. x(capped) \in Store
  BY <1>3 DEF Consistent
<1>5. w(capped) = [x(capped) EXCEPT !.known = x(capped).known \ dead,
                                    !.beating = x(capped).beating]
  BY <1>4 DEF Store
<1>6. x(capped).known \ dead \in SUBSET Instance /\ x(capped).beating \in SUBSET Instance
  BY <1>4 DEF Store
<1>7. Consistent(w(capped))
  BY <1>3, <1>5, <1>6, ReplicasConsistent
<1> HIDE DEF w
<1> QED
  BY <1>1, <1>7, ExpireRoomsConsistent, MatchPassConsistent

LEMMA InstanceStepConsistent ==
  ASSUME Consistent(store), NEW i \in Instance, InstanceStep(i)
  PROVE  Consistent(store')
<1>1. CASE \E reap \in BOOLEAN : Sweep(i, reap)
  BY <1>1, SweepConsistent
<1>2. store \in Store
  BY DEF Consistent
<1>3. CASE Lapse(i) \/ Beat(i)
  <2>1. PICK K \in SUBSET Instance, B \in SUBSET Instance :
          store' = [store EXCEPT !.known = K, !.beating = B]
    <3>1. CASE Lapse(i)
      <4>1. store' = [store EXCEPT !.known = store.known, !.beating = store.beating \ {i}]
        BY <1>2, <3>1 DEF Lapse, Store
      <4> QED
        BY <1>2, <4>1 DEF Store
    <3>2. CASE Beat(i)
      <4>1. store' = [store EXCEPT !.known = store.known \cup {i},
                                   !.beating = store.beating \cup {i}]
        BY <1>2, <3>2 DEF Beat, Store
      <4> QED
        BY <1>2, <4>1 DEF Store
    <3> QED
      BY <1>3, <3>1, <3>2
  <2> QED
    BY <2>1, ReplicasConsistent
<1>4. CASE ShutdownLocked(i)
  <2> DEFINE x(capped) == RemoveSessions(store, SessionsOf({i}), capped)
  <2>1. PICK capped : MatchPass(i, [x(capped) EXCEPT !.known = @ \ {i}, !.beating = @ \ {i}], {})
    BY <1>4 DEF ShutdownLocked
  <2>2. SessionsOf({i}) \in SUBSET Socket
    BY DEF SessionsOf
  <2>3. Consistent(x(capped))
    BY <2>2, RemoveSessionsConsistent
  <2> HIDE DEF x
  <2>4. x(capped).known \ {i} \in SUBSET Instance /\ x(capped).beating \ {i} \in SUBSET Instance
    BY <2>3 DEF Consistent, Store
  <2>5. Consistent([x(capped) EXCEPT !.known = @ \ {i}, !.beating = @ \ {i}])
    BY <2>3, <2>4, ReplicasConsistent
  <2> QED
    BY <2>1, <2>5, MatchPassConsistent
<1>5. CASE Crash(i) \/ Exit(i) \/ Stop(i) \/ ShutdownFails(i)
  BY <1>5 DEF Crash, Exit, Die, Stop, ShutdownFails
<1>6. CASE \E r \in Room : StartCall(i, r) \/ StartCallDropped(i, r)
  BY <1>6 DEF StartCall, StartCallDropped
<1>7. ASSUME NEW d \in Device, Restrict(i, d)
      PROVE  Consistent(store')
  BY <1>2, <1>7, SameSessions DEF Restrict, Store
<1>8. CASE \E d \in Device : RestrictLocked(i, d)
  BY <1>8, RestrictStepConsistent
<1>9. CASE \E d \in Device : RestrictFails(i, d)
  BY <1>9 DEF RestrictFails
<1> QED
  BY <1>1, <1>3, <1>4, <1>5, <1>6, <1>7, <1>8, <1>9 DEF InstanceStep

LEMMA ForgetConsistent ==
  ASSUME NEW w, Consistent(w), NEW r \in Room, w.phase[r] = "ended"
  PROVE  Consistent([w EXCEPT !.phase[r] = "free", !.members[r] = {}])
<1> DEFINE x == [w EXCEPT !.phase[r] = "free", !.members[r] = {}]
<1>1. w \in Store
  BY DEF Consistent
<1>2. /\ x \in Store
      /\ x.phase = [w.phase EXCEPT ![r] = "free"]
      /\ x.members = [w.members EXCEPT ![r] = {}]
      /\ x.state = w.state /\ x.room = w.room /\ x.queue = w.queue /\ x.device = w.device
      /\ x.accepted = w.accepted
  BY <1>1 DEF Store, Phases
<1> HIDE DEF x
<1>3. \A q \in Room :
        /\ (x.phase[q] \in Live) <=> (w.phase[q] \in Live)
        /\ (w.phase[q] \in Live) => (x.phase[q] = w.phase[q] /\ x.members[q] = w.members[q])
  BY <1>1, <1>2 DEF Store, Live
<1>a. x.state = w.state /\ x.room = w.room
  BY <1>2
<1>4. ASSUME NEW s \in Socket, InRoom(w, s)
      PROVE  InRoom(x, s)
  <2>1. w.room[s] \in Room
    BY <1>1, <1>4 DEF InRoom, Store
  <2> QED
    BY <1>a, <1>3, <1>4, <2>1 DEF InRoom
<1>5. RoomsMatch(x)
  <2>1. \A s \in Socket : IF x.state[s] \in Live THEN InRoom(x, s) ELSE x.room[s] = NoRoom
    BY <1>a, <1>4 DEF Consistent, RoomsMatch
  <2>2. \A q \in Room : x.phase[q] \in Live =>
          /\ \A s \in x.members[q] : x.room[s] = q /\ x.state[s] = x.phase[q]
          /\ \E a, b \in Socket : x.members[q] = {a, b} /\ DeviceOf[a] # DeviceOf[b]
    BY <1>a, <1>3 DEF Consistent, RoomsMatch
  <2> QED
    BY <2>1, <2>2 DEF RoomsMatch
<1>6. QueueMatches(x) /\ Bound(x)
  BY <1>2 DEF Consistent, QueueMatches, Bound
<1>7. Consented(x)
  BY <1>2, <1>3 DEF Consistent, Consented, Live
<1> QED
  BY <1>2, <1>5, <1>6, <1>7 DEF Consistent, x

LEMMA StepConsistent ==
  ASSUME TypeOK, Consistent(store), [Next]_vars
  PROVE  Consistent(store')
<1>1. store \in Store
  BY DEF TypeOK
<1>2. CASE \E s \in Socket : SocketStep(s)
  BY <1>2, SocketStepConsistent
<1>3. CASE \E i \in Instance : InstanceStep(i)
  BY <1>3, InstanceStepConsistent
<1>4. ASSUME NEW r \in Room, PassDeadline(r)
      PROVE  Consistent(store')
  BY <1>4 DEF PassDeadline
<1>5. ASSUME NEW r \in Room, Forget(r)
      PROVE  Consistent(store')
  BY <1>5, ForgetConsistent DEF Forget
<1>6. ASSUME NEW x \in reporting, ReportLocked(x)
      PROVE  Consistent(store')
  <2>1. x.by \in Socket /\ x.pair \in SUBSET Device
    BY DEF TypeOK, Report
  <2>2. CASE InRoom(store, x.by) /\ store.room[x.by] = x.room
    BY <1>6, <2>1, <2>2, BlockAndEndConsistent DEF ReportLocked
  <2>3. CASE ~(InRoom(store, x.by) /\ store.room[x.by] = x.room)
    <3>1. store' = BlockPair(store, x.pair)
      BY <1>6, <2>3 DEF ReportLocked
    <3>2. store' \in Store
      BY <1>1, <2>1, <3>1, BlockPairType
    <3> QED
      BY <1>1, <3>1, <3>2, SameSessions DEF BlockPair, Store
  <2> QED
    BY <2>2, <2>3
<1>7. ASSUME NEW pair \in store.blocked, Unblock(pair)
      PROVE  Consistent(store')
  BY <1>1, <1>7, SameSessions DEF Unblock, Store
<1>8. ASSUME NEW d \in Device, Lift(d)
      PROVE  Consistent(store')
  BY <1>1, <1>8, SameSessions DEF Lift, Store
<1>9. CASE UNCHANGED vars
  BY <1>9 DEF vars
<1> QED
  BY <1>2, <1>3, <1>4, <1>5, <1>6, <1>7, <1>8, <1>9 DEF Next, RoomLapse

LEMMA InitConsistent ==
  ASSUME Init
  PROVE  Consistent(store)
<1>1. store \in Store
  BY ConstantsOK DEF Init, Store, States, Phases
<1> QED
  BY <1>1, ConstantsOK DEF Init, Consistent, RoomsMatch, InRoom, QueueMatches, Bound, Consented,
                           Live

\* The store is consistent between any two sections: rooms, sessions, the queue index, the
\* device bindings and the accepts agree, whatever handlers, sweeps, crashes and shutdowns
\* of however many replicas interleave.
THEOREM StoreConsistent == Spec => []Consistent(store)
<1>1. TypeOK /\ Consistent(store) /\ [Next]_vars => Consistent(store)'
  BY StepConsistent
<1> QED
  BY <1>1, InitConsistent, TypeCorrect, PTL DEF Spec

\* A session is in a room's state exactly while it is one of that room's two members.
THEOREM RoomsMatchCorrect == Spec => []RoomsMatchSessions
<1>1. Consistent(store) => RoomsMatchSessions
  BY DEF Consistent, RoomsMatchSessions
<1> QED
  BY <1>1, StoreConsistent, PTL

\* The queue index holds the waiting sessions and nothing else.
THEOREM QueueCorrect == Spec => []QueueHoldsTheWaiting
<1>1. Consistent(store) => QueueHoldsTheWaiting
  BY DEF Consistent, QueueHoldsTheWaiting
<1> QED
  BY <1>1, StoreConsistent, PTL

\* A device never has two sessions.
THEOREM OneSessionCorrect == Spec => []OneSessionPerDevice
<1>1. Consistent(store) => OneSessionPerDevice
  BY DEF Consistent, OneSessionPerDevice
<1> QED
  BY <1>1, StoreConsistent, PTL

\* No call without the consent of each of its two sides.
THEOREM ConsentCorrect == Spec => []NoCallWithoutConsent
<1>1. Consistent(store) => NoCallWithoutConsent
  BY DEF Consistent, NoCallWithoutConsent
<1> QED
  BY <1>1, StoreConsistent, PTL

(***************************************************************************)
(* Who may be in a room together, who in none, and how often a call starts. *)
(***************************************************************************)

\* BlockedPairsApart of a value of the store.
PairsApart(w) == \A r \in Room : w.phase[r] \in Live => Devices(w.members[r]) \notin w.blocked

\* The sessions in a room whose device is banned are among S.
OnlyTheseStay(w, S) ==
  \A s \in Socket : DeviceOf[s] \in w.banned /\ w.state[s] \in Live => s \in S

\* The rooms that are pending or active in x are so in w.
SamePhases(w, x) == \A r \in Room : x.phase[r] \in Live => w.phase[r] = x.phase[r]

\* Between the store's values w and x nobody was put where he may not be, and no room
\* was made or went active.
Careful(w, x) ==
  /\ PairsApart(w) => PairsApart(x)
  /\ \A S \in SUBSET Socket : OnlyTheseStay(w, S) => OnlyTheseStay(x, S)
  /\ SamePhases(w, x)

\* CallsStartOnce is inductive once it says that a pending room has no call:start, sent
\* or under way.
Starts ==
  /\ CallsStartOnce
  /\ \A r \in Room : store.phase[r] = "pending"
       => r \notin started /\ \A i \in Instance : <<i, r>> \notin starting

\* A replica that is not up does not come back.
ReplicasEnd == \A j \in Instance : proc'[j] = "up" => proc[j] = "up"

StartsKept == ReplicasEnd /\ Starts => Starts'

\* The step from the value w of the store keeps the pairs apart and the banned out, but for
\* those in the rooms that failed restrictions left them in.
KeptFrom(w) ==
  /\ PairsApart(w) => PairsApart(store')
  /\ \A S \in SUBSET Socket :
       OnlyTheseStay(w, spared \cup S) => OnlyTheseStay(store', spared' \cup S)

Kept == KeptFrom(store) /\ StartsKept

LEMMA CarefulTwice ==
  ASSUME NEW w, NEW x, NEW y, Careful(w, x), Careful(x, y)
  PROVE  Careful(w, y)
BY DEF Careful, SamePhases

\* Rooms and sessions only leave, bans stay as they are.
LEMMA LeavingIsCareful ==
  ASSUME NEW w, NEW x, x.blocked \subseteq w.blocked, x.banned \subseteq w.banned,
         \A r \in Room : x.phase[r] \in Live => w.phase[r] = x.phase[r] /\ x.members[r] = w.members[r],
         \A s \in Socket : x.state[s] \in Live => w.state[s] \in Live
  PROVE  Careful(w, x)
<1>1. PairsApart(w) => PairsApart(x)
  BY DEF PairsApart
<1>2. ASSUME NEW S \in SUBSET Socket, OnlyTheseStay(w, S)
      PROVE  OnlyTheseStay(x, S)
  BY <1>2 DEF OnlyTheseStay
<1> QED
  BY <1>1, <1>2 DEF Careful, SamePhases

\* Two rooms never have the same pair of devices: a device has one session, and a session
\* is in one room.
LEMMA PairsAreDistinct ==
  ASSUME NEW w, Consistent(w), NEW r \in Room, NEW q \in Room,
         w.phase[r] \in Live, w.phase[q] \in Live, Devices(w.members[r]) = Devices(w.members[q])
  PROVE  r = q
<1>1. w \in Store
  BY DEF Consistent
<1>2. PICK a \in Socket : a \in w.members[r]
  BY DEF Consistent, RoomsMatch
<1>3. PICK b \in w.members[q] : DeviceOf[b] = DeviceOf[a]
  BY <1>2 DEF Devices
<1>4. b \in Socket
  BY <1>1 DEF Store
<1>5. w.room[a] = r /\ w.room[b] = q /\ w.state[a] # "none" /\ w.state[b] # "none"
  BY <1>2, <1>3 DEF Consistent, RoomsMatch, Live
<1>6. w.device[DeviceOf[a]] = a /\ w.device[DeviceOf[b]] = b
  BY <1>2, <1>4, <1>5 DEF Consistent, Bound
<1> QED
  BY <1>3, <1>5, <1>6

LEMMA EndRoomsRules ==
  ASSUME NEW w \in Store, NEW R, NEW told \in SUBSET Socket, NEW late, NEW capped,
         NEW e, e = EndRooms(w, R, told, late, capped)
  PROVE  e.blocked = w.blocked /\ e.banned = w.banned
BY DEF EndRooms, Enqueue, Store

\* Rooms that end may have their pairs blocked as they do.
LEMMA EndingIsCareful ==
  ASSUME NEW w, Consistent(w), NEW R \in SUBSET Room, \A r \in R : w.phase[r] \in Live,
         NEW b \in Store,
         b.state = w.state, b.room = w.room, b.phase = w.phase, b.members = w.members,
         b.banned = w.banned, b.blocked \subseteq w.blocked \cup {Devices(w.members[r]) : r \in R},
         NEW late, NEW capped, NEW e, e = EndRooms(b, R, Socket, late, capped)
  PROVE  Careful(w, e)
<1>0. Socket \in SUBSET Socket
  OBVIOUS
<1>1. Ended(b, e, R, Socket)
  BY <1>0, EndRoomsFacts
<1>2. e.blocked = b.blocked /\ e.banned = w.banned
  BY <1>0, EndRoomsRules
<1>3. \A r \in Room : IF r \in R THEN e.phase[r] \notin Live
                      ELSE e.phase[r] = w.phase[r] /\ e.members[r] = w.members[r]
  BY <1>1 DEF Ended
<1>4. \A s \in Socket : e.state[s] \in Live => w.state[s] \in Live
  BY <1>1 DEF Ended, Live
<1>5. ASSUME PairsApart(w), NEW r \in Room, e.phase[r] \in Live
      PROVE  Devices(e.members[r]) \notin e.blocked
  <2>1. r \notin R /\ w.phase[r] \in Live /\ e.members[r] = w.members[r]
    BY <1>3, <1>5
  <2>2. Devices(w.members[r]) \notin w.blocked
    BY <1>5, <2>1 DEF PairsApart
  <2>3. \A q \in R : Devices(w.members[q]) # Devices(w.members[r])
    BY <2>1, PairsAreDistinct
  <2> QED
    BY <1>2, <2>1, <2>2, <2>3
<1>6. PairsApart(w) => PairsApart(e)
  BY <1>5 DEF PairsApart
<1>7. ASSUME NEW S \in SUBSET Socket, OnlyTheseStay(w, S)
      PROVE  OnlyTheseStay(e, S)
  BY <1>2, <1>4, <1>7 DEF OnlyTheseStay
<1>8. SamePhases(w, e)
  BY <1>3 DEF SamePhases
<1> QED
  BY <1>6, <1>7, <1>8 DEF Careful

LEMMA RemovingIsCareful ==
  ASSUME NEW w, Consistent(w), NEW S \in SUBSET Socket, NEW capped,
         NEW x, x = RemoveSessions(w, S, capped)
  PROVE  Careful(w, x)
<1> DEFINE R == {w.room[s] : s \in {y \in S : InRoom(w, y)}}
           e == EndRooms(w, R, Socket \ S, {}, capped)
<1>1. w \in Store /\ Socket \ S \in SUBSET Socket
  BY DEF Consistent
<1>2. e \in Store
  BY <1>1, EndRoomsType
<1>3. RemoveSessions(w, S, capped) = [e EXCEPT
        !.state  = [s \in Socket |-> IF s \in S THEN "none" ELSE e.state[s]],
        !.room   = [s \in Socket |-> IF s \in S THEN NoRoom ELSE e.room[s]],
        !.queue  = e.queue \ S,
        !.device = [d \in Device |-> IF e.device[d] \in S THEN NoSocket ELSE e.device[d]]]
  BY DEF RemoveSessions
<1> HIDE DEF R
<1>4. Ended(w, e, R, Socket \ S)
  BY <1>1, EndRoomsFacts
<1>5. e.blocked = w.blocked /\ e.banned = w.banned
  BY <1>1, EndRoomsRules
<1> HIDE DEF e
<1>6. /\ x.state  = [s \in Socket |-> IF s \in S THEN "none" ELSE e.state[s]]
      /\ x.phase = e.phase /\ x.members = e.members
      /\ x.blocked = w.blocked /\ x.banned = w.banned
  BY <1>2, <1>3, <1>5 DEF Store
<1>7. \A r \in Room : x.phase[r] \in Live => w.phase[r] = x.phase[r] /\ x.members[r] = w.members[r]
  BY <1>4, <1>6 DEF Ended
<1>8. \A s \in Socket : x.state[s] \in Live => w.state[s] \in Live
  BY <1>4, <1>6 DEF Ended, Live
<1> QED
  BY <1>6, <1>7, <1>8, LeavingIsCareful

LEMMA HelloIsCareful ==
  ASSUME NEW w \in Store, NEW s \in Socket,
         NEW b, b = w \/ b = [w EXCEPT !.device[DeviceOf[s]] = s]
  PROVE  Careful(w, Enqueue(b, {s}))
<1> DEFINE x == Enqueue(b, {s})
<1>1. /\ b.state = w.state /\ b.phase = w.phase /\ b.members = w.members
      /\ b.blocked = w.blocked /\ b.banned = w.banned /\ b \in Store
  BY ConstantsOK DEF Store
<1>2. /\ x.state = [t \in Socket |-> IF t \in {s} THEN "waiting" ELSE w.state[t]]
      /\ x.phase = w.phase /\ x.members = w.members
      /\ x.blocked = w.blocked /\ x.banned = w.banned
  BY <1>1 DEF Enqueue, Store
<1> HIDE DEF x
<1>3. \A t \in Socket : x.state[t] \in Live => w.state[t] \in Live
  BY <1>2 DEF Live
<1>4. Careful(w, x)
  BY <1>2, <1>3, LeavingIsCareful
<1> QED
  BY <1>4 DEF x

\* A pass makes rooms only of pairs that are neither blocked nor banned.
LEMMA PassKeeps ==
  ASSUME NEW i \in Instance, NEW w, Consistent(w), NEW extra, MatchPass(i, w, extra)
  PROVE  KeptFrom(w) /\ (SamePhases(store, w) => StartsKept)
<1> DEFINE focus == (w.queue \ store.queue) \cup extra
<1>1. PICK M \in SUBSET Candidates(w, focus) :
         \E id \in [M -> FreeRooms(w)] :
              /\ \A p, q \in M : id[p] = id[q] => p = q
              /\ store' = CreateRooms(w, M, id)
              /\ starting' = starting \cup {<<i, id[p]>> : p \in BothInstant(M)}
  BY DEF MatchPass
<1>2. PICK id \in [M -> FreeRooms(w)] :
         /\ \A p, q \in M : id[p] = id[q] => p = q
         /\ store' = CreateRooms(w, M, id)
         /\ starting' = starting \cup {<<i, id[p]>> : p \in BothInstant(M)}
  BY <1>1
<1>3. w \in Store
  BY DEF Consistent
<1>b. /\ started' = {r \in started : w.phase[r] = "active"}
      /\ spared' = {s \in spared : InRoom(w, s)}
  BY DEF MatchPass
<1>4. ASSUME NEW p \in M
      PROVE  /\ p \in SUBSET Socket
             /\ Devices(p) \notin w.blocked
             /\ \A s \in p : DeviceOf[s] \notin w.banned
  <2>1. p \in Candidates(w, focus)
    OBVIOUS
  <2> HIDE DEF focus
  <2>2. PICK a \in Socket, b \in Socket : p = {a, b} /\ Matchable(w, a, b)
    BY <1>3, <2>1, CandidatesType
  <2>3. Devices(p) = {DeviceOf[a], DeviceOf[b]}
    BY <2>2 DEF Devices
  <2> QED
    BY <2>2, <2>3 DEF Matchable
<1>5. id \in [M -> Room]
  BY DEF FreeRooms
<1> HIDE DEF focus
<1> DEFINE new == {id[p] : p \in M}
           of(r) == CHOOSE p \in M : id[p] = r
           inst == {id[p] : p \in BothInstant(M)}
           x == [w EXCEPT
        !.state = [s \in Socket |-> IF s \in UNION M THEN "pending" ELSE w.state[s]],
        !.room  = [s \in Socket |-> IF s \in UNION M
                                      THEN id[CHOOSE p \in M : s \in p] ELSE w.room[s]],
        !.queue = {s \in w.queue \ UNION M : w.state[s] = "waiting"},
        !.phase = [r \in Room |-> IF r \in new THEN "pending" ELSE w.phase[r]],
        !.members = [r \in Room |-> IF r \in new THEN of(r) ELSE w.members[r]],
        !.accepted = [r \in Room |-> IF r \in new THEN of(r) \cap Instant ELSE w.accepted[r]]]
           y == Activate(x, inst)
<1>6. store' = y
  BY <1>2 DEF CreateRooms
<1>7. \A r \in new : of(r) \in M
  OBVIOUS
<1>8. inst \subseteq new
  BY DEF BothInstant
<1>c. \A r \in new : w.phase[r] = "free" /\ \A j \in Instance : <<j, r>> \notin starting
  BY DEF FreeRooms
<1>d. /\ \A j, r : <<j, r>> \in starting' <=> <<j, r>> \in starting \/ (j = i /\ r \in inst)
      /\ inst \subseteq Room
  BY <1>2, <1>5 DEF BothInstant
<1> HIDE DEF of, new, inst
<1>9. /\ x.state = [s \in Socket |-> IF s \in UNION M THEN "pending" ELSE w.state[s]]
      /\ x.room  = [s \in Socket |-> IF s \in UNION M
                                      THEN id[CHOOSE p \in M : s \in p] ELSE w.room[s]]
      /\ x.phase = [r \in Room |-> IF r \in new THEN "pending" ELSE w.phase[r]]
      /\ x.members = [r \in Room |-> IF r \in new THEN of(r) ELSE w.members[r]]
      /\ x.blocked = w.blocked /\ x.banned = w.banned
      /\ x = [w EXCEPT !.state = x.state, !.room = x.room, !.queue = x.queue,
                       !.phase = x.phase, !.members = x.members, !.accepted = x.accepted]
  BY <1>3 DEF Store
<1>a. x \in Store
  <2>1. \A s \in UNION M : (CHOOSE p \in M : s \in p) \in M
    OBVIOUS
  <2>2. \A s \in UNION M : id[CHOOSE p \in M : s \in p] \in Room
    BY <1>5, <2>1
  <2>3. \A r \in new : of(r) \in SUBSET Socket
    BY <1>4, <1>7
  <2> QED
    BY <1>3, <2>2, <2>3 DEF Store, States, Phases
<1> HIDE DEF x
<1>10. /\ y.phase = [r \in Room |-> IF r \in inst THEN "active" ELSE x.phase[r]]
       /\ y.state = [s \in Socket |-> IF x.room[s] \in inst /\ x.state[s] # "none"
                                         THEN "active" ELSE x.state[s]]
       /\ y.members = x.members /\ y.blocked = w.blocked /\ y.banned = w.banned
  BY <1>9, <1>a DEF Activate, Store
<1> HIDE DEF y
<1>11. ASSUME NEW r \in Room, y.phase[r] \in Live
       PROVE  \/ w.phase[r] \in Live /\ y.members[r] = w.members[r]
              \/ Devices(y.members[r]) \notin w.blocked
  <2>1. CASE r \in new
    BY <1>4, <1>7, <1>9, <1>10, <2>1
  <2>2. CASE r \notin new
    BY <1>8, <1>9, <1>10, <1>11, <2>2
  <2> QED
    BY <2>1, <2>2
<1>12. ASSUME NEW s \in Socket, y.state[s] \in Live
       PROVE  w.state[s] \in Live \/ DeviceOf[s] \notin w.banned
  <2>1. CASE s \in UNION M
    BY <1>4, <2>1
  <2>2. CASE s \notin UNION M
    <3>1. x.state[s] = w.state[s] /\ x.room[s] = w.room[s]
      BY <1>9, <2>2
    <3>2. CASE x.room[s] \in inst /\ x.state[s] # "none"
      <4>1. w.room[s] \in new /\ w.room[s] # NoRoom
        BY <1>5, <1>8, <3>1, <3>2, ConstantsOK DEF new
      <4> QED
        BY <4>1 DEF Consistent, RoomsMatch
    <3>3. CASE ~(x.room[s] \in inst /\ x.state[s] # "none")
      BY <1>10, <1>12, <3>1, <3>3
    <3> QED
      BY <3>2, <3>3
  <2> QED
    BY <2>1, <2>2
<1>13. PairsApart(w) => PairsApart(y)
  BY <1>10, <1>11 DEF PairsApart
<1>14. ASSUME NEW S \in SUBSET Socket, OnlyTheseStay(w, spared \cup S)
       PROVE  OnlyTheseStay(y, spared' \cup S)
  <2>1. \A s \in Socket : w.state[s] \in Live => InRoom(w, s)
    BY DEF Consistent, RoomsMatch
  <2> QED
    BY <1>b, <1>10, <1>12, <1>14, <2>1 DEF OnlyTheseStay
<1>15. ASSUME SamePhases(store, w), ReplicasEnd, Starts
       PROVE  Starts'
  <2>1. \A r \in Room : store'.phase[r] = IF r \in inst THEN "active"
                                          ELSE IF r \in new THEN "pending" ELSE w.phase[r]
    BY <1>6, <1>8, <1>9, <1>10
  <2>2. ASSUME NEW r \in Room
        PROVE  /\ \A j, k \in Instance : <<j, r>> \in starting' /\ <<k, r>> \in starting' => j = k
               /\ r \in started' => \A j \in Instance : <<j, r>> \notin starting'
    BY <1>15, <1>8, <1>b, <1>c, <1>d DEF Starts, CallsStartOnce
  <2>3. ASSUME NEW r \in Room, store'.phase[r] = "active", "lockFails" \notin Env,
               \A j \in Instance : proc'[j] = "up"
        PROVE  r \in started' \/ \E j \in Instance : <<j, r>> \in starting'
    <3>1. CASE r \in inst
      BY <1>d, <3>1
    <3>2. CASE r \notin inst
      <4>1. w.phase[r] = "active" /\ store.phase[r] = "active"
        BY <1>15, <2>1, <2>3, <3>2 DEF SamePhases, Live
      <4>2. r \in started \/ \E j \in Instance : <<j, r>> \in starting
        BY <1>15, <2>3, <4>1 DEF Starts, CallsStartOnce, ReplicasEnd
      <4> QED
        BY <1>b, <1>d, <4>1, <4>2
    <3> QED
      BY <3>1, <3>2
  <2>4. ASSUME NEW r \in Room, store'.phase[r] = "pending"
        PROVE  r \notin started' /\ \A j \in Instance : <<j, r>> \notin starting'
    <3>1. CASE r \in new
      BY <1>b, <1>c, <1>d, <2>1, <2>4, <3>1
    <3>2. CASE r \notin new
      <4>1. w.phase[r] = "pending" /\ store.phase[r] = "pending" /\ r \notin inst
        BY <1>8, <1>15, <2>1, <2>4, <3>2 DEF SamePhases, Live
      <4> QED
        BY <1>15, <1>b, <1>d, <4>1 DEF Starts
    <3> QED
      BY <3>1, <3>2
  <2> QED
    BY <2>2, <2>3, <2>4 DEF Starts, CallsStartOnce
<1>16. KeptFrom(w)
  BY <1>6, <1>13, <1>14 DEF KeptFrom
<1>17. SamePhases(store, w) => StartsKept
  BY <1>15 DEF StartsKept
<1> QED
  BY <1>16, <1>17

\* A section that ends in a pass: what it does before, and the pass.
LEMMA SectionIsKept ==
  ASSUME NEW i \in Instance, NEW w, Consistent(w), Careful(store, w), NEW extra,
         MatchPass(i, w, extra)
  PROVE  Kept
<1>1. KeptFrom(w) /\ StartsKept
  BY PassKeeps DEF Careful
<1>2. ASSUME NEW S \in SUBSET Socket, OnlyTheseStay(store, spared \cup S)
      PROVE  OnlyTheseStay(store', spared' \cup S)
  <2> DEFINE T == (spared \cup S) \cap Socket
  <2>1. OnlyTheseStay(store, T)
    BY <1>2 DEF OnlyTheseStay
  <2>2. OnlyTheseStay(w, T)
    BY <2>1 DEF Careful
  <2>3. OnlyTheseStay(w, spared \cup S)
    BY <2>2 DEF OnlyTheseStay
  <2> QED
    BY <1>1, <2>3 DEF KeptFrom
<1>3. PairsApart(store) => PairsApart(store')
  BY <1>1 DEF KeptFrom, Careful
<1> QED
  BY <1>1, <1>2, <1>3 DEF Kept, KeptFrom

\* call:start is as it was, and no room was made or went active.
LEMMA QuietStarts ==
  ASSUME SamePhases(store, store'), starting' = starting, started' = started
  PROVE  StartsKept
<1> SUFFICES ASSUME ReplicasEnd, Starts
             PROVE  Starts'
  BY DEF StartsKept
<1>1. \A r \in Room : store'.phase[r] \in Live => store.phase[r] = store'.phase[r]
  BY DEF SamePhases
<1> QED
  BY <1>1 DEF Starts, CallsStartOnce, ReplicasEnd, Live

\* A step without a pass.
LEMMA QuietIsKept ==
  ASSUME Careful(store, store'), spared' = spared, starting' = starting, started' = started
  PROVE  Kept
<1>1. StartsKept
  BY QuietStarts DEF Careful
<1>2. ASSUME NEW S \in SUBSET Socket, OnlyTheseStay(store, spared \cup S)
      PROVE  OnlyTheseStay(store', spared' \cup S)
  <2> DEFINE T == (spared \cup S) \cap Socket
  <2>1. OnlyTheseStay(store, T)
    BY <1>2 DEF OnlyTheseStay
  <2>2. OnlyTheseStay(store', T)
    BY <2>1 DEF Careful
  <2> QED
    BY <2>2 DEF OnlyTheseStay
<1> QED
  BY <1>1, <1>2 DEF Kept, KeptFrom, Careful

\* A step that leaves the store alone.
LEMMA StoreIsKept ==
  ASSUME store' = store, spared' = spared, StartsKept
  PROVE  Kept
BY DEF Kept, KeptFrom

LEMMA BlockAndEndIsKept ==
  ASSUME Consistent(store), NEW s \in Socket, InRoom(store, s), BlockAndEnd(s)
  PROVE  Kept
<1> DEFINE r == store.room[s]
           b == BlockPair(store, Devices(store.members[r]))
<1>1. PICK capped \in Caps :
        MatchPass(HomeOf[s], EndRooms(b, {r}, Socket, {}, capped), {})
  BY DEF BlockAndEnd
<1>2. store \in Store /\ r \in Room /\ {r} \in SUBSET Room /\ store.phase[r] \in Live
  BY DEF Consistent, InRoom, Store
<1>3. b \in Store
  BY <1>2, EndsType, BlockPairType
<1>4. /\ b.state = store.state /\ b.room = store.room /\ b.phase = store.phase
      /\ b.members = store.members /\ b.banned = store.banned
      /\ b.queue = store.queue /\ b.device = store.device /\ b.accepted = store.accepted
      /\ b.blocked = store.blocked \cup {Devices(store.members[r])}
  BY <1>2 DEF BlockPair, Store
<1>5. Consistent(b)
  BY <1>3, <1>4, SameSessions
<1> HIDE DEF b
<1>6. b.blocked \subseteq store.blocked \cup {Devices(store.members[q]) : q \in {r}}
  BY <1>4
<1> DEFINE e == EndRooms(b, {r}, Socket, {}, capped)
<1>7. Consistent(e)
  BY <1>2, <1>5, EndRoomsConsistent
<1>8. Careful(store, e)
  BY <1>2, <1>3, <1>4, <1>6, EndingIsCareful
<1>9. MatchPass(HomeOf[s], e, {}) /\ HomeOf[s] \in Instance
  BY <1>1, ConstantsOK
<1> HIDE DEF e
<1> QED
  BY <1>7, <1>8, <1>9, SectionIsKept

LEMMA ExpiringIsCareful ==
  ASSUME NEW w, Consistent(w), NEW capped
  PROVE  Careful(w, ExpireRooms(w, capped))
<1> DEFINE due  == Expired(w)
           late == {s \in Socket : w.room[s] \in due /\ s \notin w.accepted[w.room[s]]}
           b == [w EXCEPT !.blocked = @ \cup {Devices(w.members[r]) : r \in due}]
           e == EndRooms(b, due, Socket, late, capped)
<1>1. w \in Store /\ due \in SUBSET Room /\ \A r \in due : w.phase[r] \in Live
  BY DEF Consistent, Expired, Live
<1>2. {Devices(w.members[r]) : r \in due} \in SUBSET SUBSET Device
  BY <1>1, DevicesType DEF Store
<1>3. /\ b \in Store
      /\ b.state = w.state /\ b.room = w.room /\ b.phase = w.phase
      /\ b.members = w.members /\ b.banned = w.banned
      /\ b.blocked \subseteq w.blocked \cup {Devices(w.members[r]) : r \in due}
  BY <1>1, <1>2 DEF Store
<1>4. ExpireRooms(w, capped) = e
  BY DEF ExpireRooms
<1> HIDE DEF b, due, late
<1>5. Careful(w, e)
  BY <1>1, <1>3, EndingIsCareful
<1> QED
  BY <1>4, <1>5

LEMMA HelloLockedIsKept ==
  ASSUME Consistent(store), NEW s \in Socket, HelloLocked(s)
  PROVE  Kept
<1> DEFINE first == store.state[s] = "none"
           old == IF first THEN Replaced(s) ELSE {}
<1>1. PICK capped \in Caps :
        LET w     == RemoveSessions(store, old, capped)
            bound == IF first THEN [w EXCEPT !.device[DeviceOf[s]] = s] ELSE w
        IN MatchPass(HomeOf[s], Enqueue(bound, {s}), {s})
  BY DEF HelloLocked
<1>2. store \in Store /\ store.state[s] \in {"none", "idle", "waiting"} /\ DeviceOf[s] \in Device
  BY ConstantsOK DEF Consistent, HelloLocked
<1>3. old \in SUBSET Socket /\ s \notin old
  BY <1>2 DEF Replaced, Store
<1>4. first => store.device[DeviceOf[s]] \in old \cup {NoSocket}
  BY <1>2 DEF Replaced, Consistent, Bound
<1> HIDE DEF old
<1> DEFINE w == RemoveSessions(store, old, capped)
           bound == IF first THEN [w EXCEPT !.device[DeviceOf[s]] = s] ELSE w
           x == Enqueue(bound, {s})
<1>5. Consistent(w) /\ w.state[s] = store.state[s]
      /\ \A d \in Device : w.device[d] = IF store.device[d] \in old THEN NoSocket
                                                               ELSE store.device[d]
  BY <1>2, <1>3, RemoveSessionsConsistent DEF Live
<1>6. Careful(store, w)
  BY <1>3, RemovingIsCareful
<1>7. MatchPass(HomeOf[s], x, {s})
  BY <1>1
<1> HIDE DEF w
<1>8. w \in Store
  BY <1>5 DEF Consistent
<1>9. first => w.device[DeviceOf[s]] = NoSocket
  BY <1>2, <1>4, <1>5
<1>10. bound = IF w.state[s] = "none" THEN [w EXCEPT !.device[DeviceOf[s]] = s] ELSE w
  BY <1>5
<1>11. bound = w \/ bound = [w EXCEPT !.device[DeviceOf[s]] = s]
  OBVIOUS
<1> HIDE DEF bound
<1>12. Consistent(x)
  BY <1>2, <1>5, <1>9, <1>10, HelloConsistent
<1>13. Careful(w, x)
  BY <1>8, <1>11, HelloIsCareful
<1> HIDE DEF x
<1>14. Careful(store, x) /\ HomeOf[s] \in Instance
  BY <1>6, <1>13, CarefulTwice, ConstantsOK
<1> QED
  BY <1>7, <1>12, <1>14, SectionIsKept

LEMMA SweepIsKept ==
  ASSUME Consistent(store), NEW i \in Instance, NEW reap \in BOOLEAN, Sweep(i, reap)
  PROVE  Kept
<1> DEFINE dead  == IF reap THEN (store.known \ store.beating) \ {i} ELSE {}
           ghost == IF reap THEN Ghosts(i) ELSE {}
           gone  == SessionsOf(dead) \cup (SessionsOf({i}) \cap ghost)
           x(capped) == RemoveSessions(store, gone, capped)
           w(capped) == [x(capped) EXCEPT !.known = @ \ dead]
<1>a. PICK extra \in SUBSET store.queue, capped \in Caps :
        \E y \in {[RemoveSessions(store, gone, capped) EXCEPT !.known = @ \ dead]} :
        \E e \in {ExpireRooms(y, capped)} : MatchPass(i, e, extra)
  BY DEF Sweep
<1>1. MatchPass(i, ExpireRooms(w(capped), capped), extra)
  BY <1>a
<1>2. gone \in SUBSET Socket
  BY DEF SessionsOf
<1> HIDE DEF gone
<1>3. Consistent(x(capped)) /\ Careful(store, x(capped))
  BY <1>2, RemoveSessionsConsistent, RemovingIsCareful
<1> HIDE DEF x, dead
<1>4. x(capped) \in Store
  BY <1>3 DEF Consistent
<1>5. w(capped) = [x(capped) EXCEPT !.known = x(capped).known \ dead,
                                    !.beating = x(capped).beating]
  BY <1>4 DEF Store
<1>6. x(capped).known \ dead \in SUBSET Instance /\ x(capped).beating \in SUBSET Instance
  BY <1>4 DEF Store
<1>7. Consistent(w(capped))
  BY <1>3, <1>5, <1>6, ReplicasConsistent
<1>8. /\ w(capped).blocked = x(capped).blocked /\ w(capped).banned = x(capped).banned
      /\ w(capped).phase = x(capped).phase /\ w(capped).members = x(capped).members
      /\ w(capped).state = x(capped).state
  BY <1>4 DEF Store
<1>9. Careful(x(capped), w(capped))
  BY <1>8, LeavingIsCareful
<1> HIDE DEF w
<1>10. Consistent(ExpireRooms(w(capped), capped)) /\ Careful(w(capped), ExpireRooms(w(capped), capped))
  BY <1>7, ExpireRoomsConsistent, ExpiringIsCareful
<1>11. Careful(store, w(capped))
  BY <1>3, <1>9, CarefulTwice
<1>12. Careful(store, ExpireRooms(w(capped), capped))
  BY <1>10, <1>11, CarefulTwice
<1> QED
  BY <1>1, <1>10, <1>12, SectionIsKept

LEMMA ShutdownIsKept ==
  ASSUME Consistent(store), NEW i \in Instance, ShutdownLocked(i)
  PROVE  Kept
<1> DEFINE x(capped) == RemoveSessions(store, SessionsOf({i}), capped)
           w(capped) == [x(capped) EXCEPT !.known = @ \ {i}, !.beating = @ \ {i}]
<1>1. PICK capped : MatchPass(i, w(capped), {})
  BY DEF ShutdownLocked
<1>2. SessionsOf({i}) \in SUBSET Socket
  BY DEF SessionsOf
<1>3. Consistent(x(capped)) /\ Careful(store, x(capped))
  BY <1>2, RemoveSessionsConsistent, RemovingIsCareful
<1> HIDE DEF x
<1>4. x(capped) \in Store
  BY <1>3 DEF Consistent
<1>5. x(capped).known \ {i} \in SUBSET Instance /\ x(capped).beating \ {i} \in SUBSET Instance
  BY <1>4 DEF Store
<1>6. Consistent(w(capped))
  BY <1>3, <1>5, ReplicasConsistent
<1>7. /\ w(capped).blocked = x(capped).blocked /\ w(capped).banned = x(capped).banned
      /\ w(capped).phase = x(capped).phase /\ w(capped).members = x(capped).members
      /\ w(capped).state = x(capped).state
  BY <1>4 DEF Store
<1>8. Careful(x(capped), w(capped))
  BY <1>7, LeavingIsCareful
<1> HIDE DEF w
<1>9. Careful(store, w(capped))
  BY <1>3, <1>8, CarefulTwice
<1> QED
  BY <1>1, <1>6, <1>9, SectionIsKept

LEMMA AcceptIsKept ==
  ASSUME Consistent(store), NEW s \in Socket, Accept(s)
  PROVE  Kept
<1> DEFINE r == store.room[s]
           w == [store EXCEPT !.accepted[r] = @ \cup {s}]
<1>1. store \in Store /\ r \in Room /\ store.phase[r] = "pending"
  BY DEF Consistent, Accept, InRoom, Store
<1>2. /\ w \in Store
      /\ w.state = store.state /\ w.room = store.room /\ w.phase = store.phase
      /\ w.members = store.members /\ w.blocked = store.blocked /\ w.banned = store.banned
  BY <1>1 DEF Store
<1>3. /\ \/ store' = w /\ starting' = starting
         \/ store' = Activate(w, {r}) /\ starting' = starting \cup {<<HomeOf[s], r>>}
      /\ started' = started /\ spared' = spared
  BY DEF Accept
<1> HIDE DEF w
<1> HIDE DEF r
<1>4. /\ store'.blocked = store.blocked /\ store'.banned = store.banned
      /\ store'.members = store.members
      /\ \A q \in Room : q # r => store'.phase[q] = store.phase[q]
      /\ \/ store'.phase[r] = "pending" /\ starting' = starting
         \/ store'.phase[r] = "active" /\ starting' = starting \cup {<<HomeOf[s], r>>}
      /\ \A t \in Socket : store.room[t] # r => store'.state[t] = store.state[t]
  <2>1. CASE store' = w /\ starting' = starting
    BY <1>1, <1>2, <2>1
  <2>2. CASE store' = Activate(w, {r}) /\ starting' = starting \cup {<<HomeOf[s], r>>}
    <3> DEFINE x == Activate(w, {r})
    <3>1. /\ x.blocked = w.blocked /\ x.banned = w.banned /\ x.members = w.members
          /\ x.phase = [q \in Room |-> IF q \in {r} THEN "active" ELSE w.phase[q]]
          /\ x.state = [t \in Socket |-> IF w.room[t] \in {r} /\ w.state[t] # "none"
                                            THEN "active" ELSE w.state[t]]
      BY <1>2 DEF Activate, Store
    <3> HIDE DEF x
    <3>2. store' = x
      BY <2>2 DEF x
    <3>3. store'.phase[r] = "active"
      BY <1>1, <3>1, <3>2
    <3>4. \A q \in Room : q # r => store'.phase[q] = store.phase[q]
      BY <1>2, <3>1, <3>2
    <3>5. \A t \in Socket : store.room[t] # r => store'.state[t] = store.state[t]
      BY <1>2, <3>1, <3>2
    <3>6. /\ store'.blocked = store.blocked /\ store'.banned = store.banned
          /\ store'.members = store.members
      BY <1>2, <3>1, <3>2
    <3> QED
      BY <2>2, <3>3, <3>4, <3>5, <3>6
  <2> QED
    BY <1>3, <2>1, <2>2
<1>5. \A q \in Room : store'.phase[q] \in Live => store.phase[q] \in Live
  BY <1>1, <1>4 DEF Live
<1>6. \A t \in Socket : store'.state[t] \in Live => store.state[t] \in Live
  <2>1. \A t \in Socket : store.room[t] = r => store.state[t] \in Live
    BY <1>1, ConstantsOK DEF Consistent, RoomsMatch
  <2> QED
    BY <1>4, <2>1
<1>7. KeptFrom(store)
  BY <1>3, <1>4, <1>5, <1>6 DEF KeptFrom, PairsApart, OnlyTheseStay
<1>8. ASSUME ReplicasEnd, Starts
      PROVE  Starts'
  <2>0. r \notin started /\ \A j \in Instance : <<j, r>> \notin starting
    BY <1>1, <1>8 DEF Starts
  <2>1. ASSUME NEW q \in Room, q # r
        PROVE  /\ store'.phase[q] = store.phase[q]
               /\ q \in started' <=> q \in started
               /\ \A j \in Instance : <<j, q>> \in starting' <=> <<j, q>> \in starting
    BY <1>3, <1>4, <2>1
  <2>2. ASSUME NEW q \in Room, q # r
        PROVE  /\ \A j, k \in Instance : <<j, q>> \in starting' /\ <<k, q>> \in starting' => j = k
               /\ q \in started' => \A j \in Instance : <<j, q>> \notin starting'
               /\ store'.phase[q] = "active" /\ "lockFails" \notin Env
                    /\ (\A j \in Instance : proc'[j] = "up")
                    => q \in started' \/ \E j \in Instance : <<j, q>> \in starting'
               /\ store'.phase[q] = "pending"
                    => q \notin started' /\ \A j \in Instance : <<j, q>> \notin starting'
    BY <1>8, <2>1, <2>2 DEF Starts, CallsStartOnce, ReplicasEnd
  <2>3. /\ \A j, k \in Instance : <<j, r>> \in starting' /\ <<k, r>> \in starting' => j = k
        /\ r \notin started'
        /\ store'.phase[r] = "active" => \E j \in Instance : <<j, r>> \in starting'
        /\ store'.phase[r] = "pending" => \A j \in Instance : <<j, r>> \notin starting'
    BY <1>3, <1>4, <2>0, ConstantsOK
  <2> QED
    BY <2>2, <2>3 DEF Starts, CallsStartOnce
<1> QED
  BY <1>7, <1>8 DEF Kept, StartsKept

\* The sessions of the devices D.
SessionsWith(D) == {s \in Socket : DeviceOf[s] \in D}

\* restrictionApplied's section takes d out of its room for as long as d is banned.
LEMMA RestrictLockedRemoves ==
  ASSUME Consistent(store), NEW i \in Instance, NEW d \in Device, RestrictLocked(i, d)
  PROVE  /\ PairsApart(store) => PairsApart(store')
         /\ \A S \in SUBSET Socket :
              OnlyTheseStay(store, spared \cup S) => OnlyTheseStay(store', spared' \cup (S \ SessionsWith({d})))
         /\ StartsKept
<1> DEFINE s == store.device[d]
<1>1. store \in Store /\ Socket \in SUBSET Socket
  BY DEF Consistent
<1>2. \A t \in Socket : DeviceOf[t] = d /\ store.state[t] # "none" => t = s
  BY DEF Consistent, Bound
<1>3. CASE s = NoSocket \/ store.state[s] = "none"
  <2>1. store' = store /\ spared' = spared /\ starting' = starting /\ started' = started
    BY <1>3 DEF RestrictLocked
  <2>2. \A t \in Socket : store.state[t] \in Live => DeviceOf[t] # d
    BY <1>2, <1>3, ConstantsOK DEF Live
  <2>3. StartsKept
    BY <2>1, QuietStarts DEF SamePhases
  <2> QED
    BY <2>1, <2>2, <2>3 DEF OnlyTheseStay, SessionsWith
<1>4. CASE ~(s = NoSocket \/ store.state[s] = "none")
  <2>1. s \in Socket
    BY <1>1, <1>4 DEF Store
  <2> DEFINE e(capped) == IF InRoom(store, s)
                 THEN EndRooms(store, {store.room[s]}, Socket, {}, capped) ELSE store
             x(capped) == [e(capped) EXCEPT !.state[s] = "idle", !.room[s] = NoRoom,
                                            !.queue = @ \ {s}]
  <2>2. PICK capped \in Caps : MatchPass(i, x(capped), {})
    BY <1>4 DEF RestrictLocked
  <2>3. /\ Consistent(e(capped)) /\ Careful(store, e(capped))
        /\ e(capped).state[s] \in {"idle", "waiting"}
        /\ e(capped).device = store.device
    <3>1. CASE InRoom(store, s)
      <4> DEFINE z == EndRooms(store, {store.room[s]}, Socket, {}, capped)
      <4>1. {store.room[s]} \in SUBSET Room /\ \A r \in {store.room[s]} : store.phase[r] \in Live
        <5>1. store.room[s] \in Room
          BY <1>1, <2>1, <3>1 DEF InRoom, Store
        <5> QED
          BY <3>1, <5>1 DEF InRoom
      <4>2. Consistent(z)
        BY <4>1, EndRoomsConsistent
      <4>3. Careful(store, z)
        BY <1>1, <4>1, EndingIsCareful
      <4>4. Ended(store, z, {store.room[s]}, Socket)
        BY <1>1, EndRoomsFacts
      <4> HIDE DEF z
      <4>5. z.state[s] \in {"idle", "waiting"} /\ z.device = store.device
        BY <2>1, <3>1, <4>4 DEF Ended, InRoom
      <4> QED
        BY <3>1, <4>2, <4>3, <4>5 DEF z
    <3>2. CASE ~InRoom(store, s)
      <4>1. store.state[s] \in {"idle", "waiting"}
        BY <1>1, <1>4, <2>1, <3>2 DEF Consistent, RoomsMatch, Store, States, Live
      <4>2. Careful(store, store)
        BY DEF Careful, SamePhases
      <4> QED
        BY <3>2, <4>1, <4>2
    <3> QED
      BY <3>1, <3>2
  <2> HIDE DEF e
  <2>4. Consistent(x(capped))
    BY <2>1, <2>3, IdleConsistent
  <2>5. e(capped) \in Store
    BY <2>3 DEF Consistent
  <2>6. /\ x(capped).blocked = e(capped).blocked /\ x(capped).banned = e(capped).banned
        /\ x(capped).phase = e(capped).phase /\ x(capped).members = e(capped).members
        /\ x(capped).device = e(capped).device
        /\ x(capped).state = [e(capped).state EXCEPT ![s] = "idle"]
    BY <2>5 DEF Store
  <2>7. \A t \in Socket : x(capped).state[t] \in Live => e(capped).state[t] \in Live
    BY <2>5, <2>6 DEF Store, Live
  <2>8. Careful(e(capped), x(capped))
    BY <2>6, <2>7, LeavingIsCareful
  <2>9. x(capped).state[s] = "idle" /\ x(capped).device[d] = s
    BY <2>1, <2>3, <2>5, <2>6 DEF Store
  <2> HIDE DEF x
  <2>10. \A t \in Socket : x(capped).state[t] \in Live => DeviceOf[t] # d
    BY <2>1, <2>4, <2>9 DEF Consistent, Bound, Live
  <2>11. Careful(store, x(capped))
    BY <2>3, <2>8, CarefulTwice
  <2>12. KeptFrom(x(capped)) /\ StartsKept
    BY <2>2, <2>4, <2>11, PassKeeps DEF Careful
  <2>13. PairsApart(store) => PairsApart(store')
    BY <2>11, <2>12 DEF Careful, KeptFrom
  <2>14. ASSUME NEW S \in SUBSET Socket, OnlyTheseStay(store, spared \cup S)
         PROVE  OnlyTheseStay(store', spared' \cup (S \ SessionsWith({d})))
    <3> DEFINE T == (spared \cup S) \cap Socket
    <3>1. OnlyTheseStay(store, T)
      BY <2>14 DEF OnlyTheseStay
    <3>2. OnlyTheseStay(x(capped), T)
      BY <2>11, <3>1 DEF Careful
    <3>3. OnlyTheseStay(x(capped), spared \cup (S \ SessionsWith({d})))
      BY <2>10, <3>2 DEF OnlyTheseStay, SessionsWith
    <3>4. S \ SessionsWith({d}) \in SUBSET Socket
      OBVIOUS
    <3> QED
      BY <2>12, <3>3, <3>4 DEF KeptFrom
  <2> QED
    BY <2>12, <2>13, <2>14
<1> QED
  BY <1>3, <1>4

\* A report whose room is over when its section runs: it only blocks the pair.
LateReport ==
  \E x \in reporting : ReportLocked(x) /\ ~(InRoom(store, x.by) /\ store.room[x.by] = x.room)

\* The sessions of devices whose restriction still waits for its section.
Waiting == SessionsWith({d \in Device : \E i \in Instance : <<i, d>> \in restricting})

\* What a step that is neither a restriction's nor a late report's does.
Ordinary == Kept /\ restricting' = restricting

\* Restrictions whose section will not come leave their devices in the rooms they are in.
Abandons ==
  /\ store' = store
  /\ \A s \in Socket : s \in spared \/ s \in Waiting
       => s \in spared' \/ s \in Waiting' \/ ~InRoom(store, s)

LEMMA SocketStepIsOrdinary ==
  ASSUME Consistent(store), NEW s \in Socket, SocketStep(s)
  PROVE  Ordinary
<1>0. HomeOf[s] \in Instance /\ Careful(store, store)
  BY ConstantsOK DEF Careful, SamePhases
<1>1. CASE \/ Connect(s) \/ HelloCheck(s) \/ HelloRefused(s) \/ HelloKeeps(s) \/ Disconnect(s)
           \/ DisconnectFails(s) \/ TickOrphans(s) \/ \E r \in Room : ReportCheck(s, r)
  <2>1. /\ store' = store /\ restricting' = restricting
        /\ spared' = spared /\ starting' = starting /\ started' = started
    BY <1>1 DEF Connect, HelloCheck, HelloRefused, HelloKeeps, Disconnect, DisconnectFails,
                TickOrphans, ReportCheck
  <2> QED
    BY <1>0, <2>1, QuietIsKept DEF Ordinary
<1>2. CASE HelloLocked(s)
  <2>1. restricting' = restricting
    BY <1>2 DEF HelloLocked
  <2> QED
    BY <1>2, <2>1, HelloLockedIsKept DEF Ordinary
<1>3. CASE DisconnectLocked(s)
  <2>1. restricting' = restricting
    BY <1>3 DEF DisconnectLocked
  <2>2. CASE store.state[s] = "none"
    <3>1. store' = store /\ spared' = spared /\ starting' = starting /\ started' = started
      BY <1>3, <2>2 DEF DisconnectLocked
    <3> QED
      BY <1>0, <2>1, <3>1, QuietIsKept DEF Ordinary
  <2>3. CASE store.state[s] # "none"
    <3>1. PICK capped \in Caps : MatchPass(HomeOf[s], RemoveSessions(store, {s}, capped), {})
      BY <1>3, <2>3 DEF DisconnectLocked
    <3> DEFINE x == RemoveSessions(store, {s}, capped)
    <3>2. {s} \in SUBSET Socket
      OBVIOUS
    <3>3. Consistent(x) /\ Careful(store, x)
      BY <3>2, RemoveSessionsConsistent, RemovingIsCareful
    <3>4. MatchPass(HomeOf[s], x, {})
      BY <3>1
    <3> HIDE DEF x
    <3> QED
      BY <1>0, <2>1, <3>3, <3>4, SectionIsKept DEF Ordinary
  <2> QED
    BY <2>2, <2>3
<1>4. CASE Accept(s)
  <2>1. restricting' = restricting
    BY <1>4 DEF Accept, RoomStep
  <2> QED
    BY <1>4, <2>1, AcceptIsKept DEF Ordinary
<1>5. CASE Decline(s) \/ Skip(s) \/ CallFailed(s)
  <2>1. InRoom(store, s) /\ BlockAndEnd(s) /\ restricting' = restricting
    BY <1>5 DEF Decline, Skip, CallFailed, RoomStep
  <2> QED
    BY <2>1, BlockAndEndIsKept DEF Ordinary
<1>6. CASE UpdatePreferences(s)
  <2>1. MatchPass(HomeOf[s], store, {s}) /\ restricting' = restricting
    BY <1>6 DEF UpdatePreferences, RoomStep
  <2> QED
    BY <1>0, <2>1, SectionIsKept DEF Ordinary
<1> QED
  BY <1>1, <1>2, <1>3, <1>4, <1>5, <1>6 DEF SocketStep

\* call:start goes out, or is lost with a replica that stopped or by a failure.
LEMMA StartCallKeepsStarts ==
  ASSUME TypeOK, NEW i \in Instance, NEW r \in Room, StartCall(i, r) \/ StartCallDropped(i, r)
  PROVE  StartsKept
<1> SUFFICES ASSUME ReplicasEnd, Starts
             PROVE  Starts'
  BY DEF StartsKept
<1>1. store' = store /\ proc' = proc /\ starting' = starting \ {<<i, r>>} /\ <<i, r>> \in starting
  BY DEF StartCall, StartCallDropped
<1>2. CASE StartCall(i, r)
  <2>1. started' = IF store.phase[r] = "active" THEN started \cup {r} ELSE started
    BY <1>2 DEF StartCall
  <2>2. \A j \in Instance : <<j, r>> \notin starting'
    BY <1>1 DEF Starts, CallsStartOnce
  <2> QED
    BY <1>1, <2>1, <2>2 DEF Starts, CallsStartOnce
<1>3. CASE StartCallDropped(i, r)
  <2>1. started' = started /\ (proc[i] # "up" \/ "lockFails" \in Env)
    BY <1>3 DEF StartCallDropped
  <2> QED
    BY <1>1, <2>1 DEF Starts, CallsStartOnce
<1> QED
  BY <1>2, <1>3

LEMMA DieOutcome ==
  ASSUME TypeOK, NEW i \in Instance, Die(i)
  PROVE  Abandons /\ StartsKept
<1>1. store' = store /\ started' = started /\ starting' \subseteq starting /\ proc'[i] = "down"
  BY DEF Die, TypeOK
<1>2. ASSUME ReplicasEnd, Starts
      PROVE  Starts'
  BY <1>1, <1>2 DEF Starts, CallsStartOnce
<1>3. ASSUME NEW s \in Socket, s \in spared \/ s \in Waiting, InRoom(store, s)
      PROVE  s \in spared' \/ s \in Waiting'
  <2>1. CASE s \in spared
    BY <2>1 DEF Die
  <2>2. CASE s \in Waiting
    <3>1. PICK j \in Instance : <<j, DeviceOf[s]>> \in restricting /\ DeviceOf[s] \in Device
      BY <2>2 DEF Waiting, SessionsWith
    <3>2. CASE j = i
      BY <1>3, <3>1, <3>2 DEF Die, InRoomOf
    <3>3. CASE j # i
      <4>1. <<j, DeviceOf[s]>> \in restricting'
        BY <3>1, <3>3 DEF Die
      <4> QED
        BY <3>1, <4>1 DEF Waiting, SessionsWith
    <3> QED
      BY <3>2, <3>3
  <2> QED
    BY <1>3, <2>1, <2>2
<1> QED
  BY <1>1, <1>2, <1>3 DEF Abandons, StartsKept

LEMMA RestrictFailsOutcome ==
  ASSUME NEW i \in Instance, NEW d \in Device, RestrictFails(i, d)
  PROVE  Abandons /\ StartsKept
<1>1. store' = store /\ started' = started /\ starting' = starting
  BY DEF RestrictFails
<1>2. StartsKept
  BY <1>1, QuietStarts DEF SamePhases
<1>3. ASSUME NEW s \in Socket, s \in spared \/ s \in Waiting, InRoom(store, s)
      PROVE  s \in spared' \/ s \in Waiting'
  <2>1. CASE s \in spared \/ DeviceOf[s] = d
    BY <1>3, <2>1 DEF RestrictFails, InRoomOf
  <2>2. CASE s \in Waiting /\ DeviceOf[s] # d
    <3>1. PICK j \in Instance : <<j, DeviceOf[s]>> \in restricting /\ DeviceOf[s] \in Device
      BY <2>2 DEF Waiting, SessionsWith
    <3>2. <<j, DeviceOf[s]>> \in restricting'
      BY <2>2, <3>1 DEF RestrictFails
    <3> QED
      BY <3>1, <3>2 DEF Waiting, SessionsWith
  <2> QED
    BY <1>3, <2>1, <2>2
<1> QED
  BY <1>1, <1>2, <1>3 DEF Abandons

LEMMA InstanceStepOutcome ==
  ASSUME TypeOK, Consistent(store), NEW i \in Instance, InstanceStep(i)
  PROVE  /\ \/ Ordinary \/ Abandons
            \/ \E d \in Device : Restrict(i, d) \/ RestrictLocked(i, d)
         /\ StartsKept
<1>1. ASSUME NEW reap \in BOOLEAN, Sweep(i, reap)
      PROVE  Ordinary
  <2>1. restricting' = restricting
    BY <1>1 DEF Sweep
  <2> QED
    BY <1>1, <2>1, SweepIsKept DEF Ordinary
<1>2. ASSUME Lapse(i) \/ Beat(i)
      PROVE  Ordinary
  <2>1. store \in Store
    BY DEF TypeOK
  <2>2. /\ store'.blocked = store.blocked /\ store'.banned = store.banned
        /\ store'.phase = store.phase /\ store'.members = store.members
        /\ store'.state = store.state
    <3>1. CASE Lapse(i)
      BY <2>1, <3>1 DEF Lapse, Store
    <3>2. CASE Beat(i)
      BY <2>1, <3>2 DEF Beat, Store
    <3> QED
      BY <1>2, <3>1, <3>2
  <2>3. /\ restricting' = restricting /\ spared' = spared
        /\ starting' = starting /\ started' = started
    BY <1>2 DEF Lapse, Beat, StoreOnly
  <2>4. Careful(store, store')
    BY <2>2, LeavingIsCareful
  <2> QED
    BY <2>3, <2>4, QuietIsKept DEF Ordinary
<1>3. ASSUME ShutdownLocked(i)
      PROVE  Ordinary
  <2>1. restricting' = restricting
    BY <1>3 DEF ShutdownLocked
  <2> QED
    BY <1>3, <2>1, ShutdownIsKept DEF Ordinary
<1>4. ASSUME Crash(i) \/ Exit(i)
      PROVE  Abandons /\ StartsKept
  BY <1>4, DieOutcome DEF Crash, Exit
<1>5. ASSUME Stop(i) \/ ShutdownFails(i)
      PROVE  Ordinary
  <2>1. /\ store' = store /\ restricting' = restricting /\ spared' = spared
        /\ starting' = starting /\ started' = started
    BY <1>5 DEF Stop, ShutdownFails
  <2> QED
    BY <2>1, QuietStarts, StoreIsKept DEF Ordinary, SamePhases
<1>6. ASSUME NEW r \in Room, StartCall(i, r) \/ StartCallDropped(i, r)
      PROVE  Ordinary
  <2>1. store' = store /\ restricting' = restricting /\ spared' = spared
    BY <1>6 DEF StartCall, StartCallDropped
  <2> QED
    BY <1>6, <2>1, StartCallKeepsStarts, StoreIsKept DEF Ordinary
<1>7. ASSUME NEW d \in Device, Restrict(i, d)
      PROVE  StartsKept
  <2>1. store'.phase = store.phase /\ starting' = starting /\ started' = started
    BY <1>7 DEF Restrict, TypeOK, Store
  <2> QED
    BY <2>1, QuietStarts DEF SamePhases
<1>8. ASSUME NEW d \in Device, RestrictLocked(i, d)
      PROVE  StartsKept
  BY <1>8, RestrictLockedRemoves
<1>9. ASSUME NEW d \in Device, RestrictFails(i, d)
      PROVE  Abandons /\ StartsKept
  BY <1>9, RestrictFailsOutcome
<1>10. Ordinary => StartsKept
  BY DEF Ordinary, Kept
<1> QED
  BY <1>1, <1>2, <1>3, <1>4, <1>5, <1>6, <1>7, <1>8, <1>9, <1>10 DEF InstanceStep

LEMMA StepOutcome ==
  ASSUME TypeOK, Consistent(store), [Next]_vars
  PROVE  /\ \/ Ordinary \/ Abandons \/ LateReport
            \/ \E i \in Instance, d \in Device : Restrict(i, d) \/ RestrictLocked(i, d)
         /\ StartsKept
<1>0. store \in Store /\ (Ordinary => StartsKept) /\ Careful(store, store)
  BY DEF TypeOK, Ordinary, Kept, Careful, SamePhases
<1>1. CASE \E s \in Socket : SocketStep(s)
  BY <1>0, <1>1, SocketStepIsOrdinary
<1>2. CASE \E i \in Instance : InstanceStep(i)
  BY <1>2, InstanceStepOutcome
<1>3. ASSUME NEW r \in Room, RoomLapse(r)
      PROVE  Ordinary
  <2>1. /\ restricting' = restricting /\ spared' = spared
        /\ starting' = starting /\ started' = started
    BY <1>3 DEF RoomLapse, PassDeadline, Forget
  <2>2. CASE PassDeadline(r)
    BY <1>0, <2>1, <2>2, QuietIsKept DEF PassDeadline, Ordinary
  <2>3. CASE Forget(r)
    <3>1. /\ store'.blocked = store.blocked /\ store'.banned = store.banned
          /\ store'.state = store.state
          /\ store'.phase = [store.phase EXCEPT ![r] = "free"]
          /\ store'.members = [store.members EXCEPT ![r] = {}]
      BY <1>0, <2>3 DEF Forget, Store
    <3>2. \A q \in Room : store'.phase[q] \in Live
             => store.phase[q] = store'.phase[q] /\ store'.members[q] = store.members[q]
      BY <1>0, <3>1 DEF Store, Live
    <3>3. Careful(store, store')
      BY <3>1, <3>2, LeavingIsCareful
    <3> QED
      BY <2>1, <3>3, QuietIsKept DEF Ordinary
  <2> QED
    BY <1>3, <2>2, <2>3 DEF RoomLapse
<1>4. ASSUME NEW x \in reporting, ReportLocked(x)
      PROVE  Ordinary \/ (LateReport /\ StartsKept)
  <2>1. CASE InRoom(store, x.by) /\ store.room[x.by] = x.room
    <3>1. BlockAndEnd(x.by) /\ restricting' = restricting
      BY <1>4, <2>1 DEF ReportLocked
    <3>2. x.by \in Socket
      BY DEF TypeOK, Report
    <3> QED
      BY <2>1, <3>1, <3>2, BlockAndEndIsKept DEF Ordinary
  <2>2. CASE ~(InRoom(store, x.by) /\ store.room[x.by] = x.room)
    <3>1. store' = BlockPair(store, x.pair) /\ starting' = starting /\ started' = started
      BY <1>4, <2>2 DEF ReportLocked
    <3>2. store'.phase = store.phase
      BY <1>0, <3>1 DEF BlockPair, Store
    <3>3. StartsKept
      BY <3>1, <3>2, QuietStarts DEF SamePhases
    <3> QED
      BY <1>4, <2>2, <3>3 DEF LateReport
  <2> QED
    BY <2>1, <2>2
<1>5. ASSUME NEW y, Unblock(y) \/ Lift(y)
      PROVE  Ordinary
  <2>1. /\ store'.blocked \subseteq store.blocked /\ store'.banned \subseteq store.banned
        /\ store'.phase = store.phase /\ store'.members = store.members
        /\ store'.state = store.state
    <3>1. CASE Unblock(y)
      BY <1>0, <3>1 DEF Unblock, Store
    <3>2. CASE Lift(y)
      BY <1>0, <3>2 DEF Lift, Store
    <3> QED
      BY <1>5, <3>1, <3>2
  <2>2. /\ restricting' = restricting /\ spared' = spared
        /\ starting' = starting /\ started' = started
    BY <1>5 DEF Unblock, Lift, StoreOnly
  <2>3. Careful(store, store')
    BY <2>1, LeavingIsCareful
  <2> QED
    BY <2>2, <2>3, QuietIsKept DEF Ordinary
<1>6. ASSUME UNCHANGED vars
      PROVE  Ordinary
  <2>1. /\ store' = store /\ restricting' = restricting /\ spared' = spared
        /\ starting' = starting /\ started' = started
    BY <1>6 DEF vars
  <2> QED
    BY <1>0, <2>1, QuietIsKept DEF Ordinary
<1> QED
  BY <1>0, <1>1, <1>2, <1>3, <1>4, <1>5, <1>6 DEF Next

LEMMA StepKeepsPairsApart ==
  ASSUME TypeOK, Consistent(store), [Next]_vars, PairsApart(store)
  PROVE  PairsApart(store') \/ LateReport
<1>1. CASE Ordinary
  BY <1>1 DEF Ordinary, Kept, KeptFrom
<1>2. CASE Abandons
  BY <1>2 DEF Abandons
<1>3. ASSUME NEW i \in Instance, NEW d \in Device, Restrict(i, d)
      PROVE  PairsApart(store')
  <2>1. /\ store'.blocked = store.blocked
        /\ store'.phase = store.phase /\ store'.members = store.members
    BY <1>3 DEF Restrict, TypeOK, Store
  <2> QED
    BY <2>1 DEF PairsApart
<1>4. ASSUME NEW i \in Instance, NEW d \in Device, RestrictLocked(i, d)
      PROVE  PairsApart(store')
  BY <1>4, RestrictLockedRemoves
<1> QED
  BY <1>1, <1>2, <1>3, <1>4, StepOutcome

LEMMA StepKeepsTheBannedOut ==
  ASSUME TypeOK, Consistent(store), [Next]_vars, OnlyTheseStay(store, spared \cup Waiting)
  PROVE  OnlyTheseStay(store', spared' \cup Waiting')
<1>0. store \in Store /\ Waiting \in SUBSET Socket
  BY DEF TypeOK, Waiting, SessionsWith
<1>1. CASE Ordinary
  <2>1. OnlyTheseStay(store', spared' \cup Waiting)
    BY <1>0, <1>1 DEF Ordinary, Kept, KeptFrom
  <2>2. Waiting' = Waiting
    BY <1>1 DEF Ordinary, Waiting, SessionsWith
  <2> QED
    BY <2>1, <2>2
<1>2. CASE Abandons
  <2>1. \A s \in Socket : store.state[s] \in Live => InRoom(store, s)
    BY DEF Consistent, RoomsMatch
  <2> QED
    BY <1>2, <2>1 DEF Abandons, OnlyTheseStay
<1>3. CASE LateReport
  <2>1. PICK x \in reporting :
          store' = BlockPair(store, x.pair) /\ restricting' = restricting /\ spared' = spared
    BY <1>3 DEF LateReport, ReportLocked
  <2>2. store'.banned = store.banned /\ store'.state = store.state
    BY <1>0, <2>1 DEF BlockPair, Store
  <2> QED
    BY <2>1, <2>2 DEF OnlyTheseStay, Waiting, SessionsWith
<1>4. ASSUME NEW i \in Instance, NEW d \in Device, Restrict(i, d)
      PROVE  OnlyTheseStay(store', spared' \cup Waiting')
  <2>1. store'.banned = store.banned \cup {d} /\ store'.state = store.state /\ spared' = spared
    BY <1>0, <1>4 DEF Restrict, Store
  <2>2. Waiting \cup SessionsWith({d}) \subseteq Waiting'
    BY <1>4 DEF Restrict, Waiting, SessionsWith
  <2> QED
    BY <2>1, <2>2 DEF OnlyTheseStay, SessionsWith
<1>5. ASSUME NEW i \in Instance, NEW d \in Device, RestrictLocked(i, d)
      PROVE  OnlyTheseStay(store', spared' \cup Waiting')
  <2>1. OnlyTheseStay(store', spared' \cup (Waiting \ SessionsWith({d})))
    BY <1>0, <1>5, RestrictLockedRemoves
  <2>2. Waiting \ SessionsWith({d}) \subseteq Waiting'
    BY <1>5 DEF RestrictLocked, Waiting, SessionsWith
  <2> QED
    BY <2>1, <2>2 DEF OnlyTheseStay
<1> QED
  BY <1>1, <1>2, <1>3, <1>4, <1>5, StepOutcome

LEMMA ReplicaSteps ==
  ASSUME TypeOK, [Next]_vars
  PROVE  ReplicasEnd
<1> SUFFICES ASSUME NEW j \in Instance, proc'[j] = "up"
             PROVE  proc[j] = "up"
  BY DEF ReplicasEnd
<1>1. CASE \E s \in Socket : SocketStep(s)
  <2>1. proc' = proc
    BY <1>1 DEF SocketStep, Connect, HelloCheck, HelloRefused, HelloKeeps, HelloLocked,
         Disconnect, DisconnectLocked, DisconnectFails, TickOrphans, Accept, Decline, Skip,
         CallFailed, UpdatePreferences, RoomStep, ReportCheck
  <2> QED
    BY <2>1
<1>2. ASSUME NEW i \in Instance, InstanceStep(i)
      PROVE  proc[j] = "up"
  <2>1. CASE \/ \E reap \in BOOLEAN : Sweep(i, reap)
             \/ Lapse(i) \/ Beat(i)
             \/ \E r \in Room : StartCall(i, r) \/ StartCallDropped(i, r)
             \/ \E d \in Device : Restrict(i, d) \/ RestrictLocked(i, d) \/ RestrictFails(i, d)
    BY <2>1 DEF Sweep, Lapse, Beat, StoreOnly, StartCall, StartCallDropped, Restrict,
                RestrictLocked, RestrictFails
  <2>2. CASE Crash(i) \/ Exit(i)
    BY <2>2 DEF Crash, Exit, Die, TypeOK
  <2>3. CASE Stop(i) \/ ShutdownLocked(i) \/ ShutdownFails(i)
    BY <2>3 DEF Stop, ShutdownLocked, ShutdownFails, TypeOK
  <2> QED
    BY <1>2, <2>1, <2>2, <2>3 DEF InstanceStep
<1>3. CASE \/ \E r \in Room : RoomLapse(r)
           \/ \E x \in reporting : ReportLocked(x)
           \/ \E pair \in store.blocked : Unblock(pair)
           \/ \E d \in Device : Lift(d)
  BY <1>3 DEF RoomLapse, PassDeadline, Forget, ReportLocked, Unblock, Lift, StoreOnly
<1>4. CASE UNCHANGED vars
  BY <1>4 DEF vars
<1> QED
  BY <1>1, <1>2, <1>3, <1>4 DEF Next

LEMMA NoReportsAppear ==
  ASSUME "report" \notin Env, reporting = {}, [Next]_vars
  PROVE  reporting' = {} /\ ~LateReport
<1>1. ASSUME NEW s \in Socket, SocketStep(s)
      PROVE  reporting' = {}
  <2>1. ~ \E r \in Room : ReportCheck(s, r)
    BY DEF ReportCheck
  <2> QED
    BY <1>1, <2>1 DEF SocketStep, Connect, HelloCheck, HelloRefused, HelloKeeps, HelloLocked,
         Disconnect, DisconnectLocked, DisconnectFails, TickOrphans, Accept, Decline, Skip,
         CallFailed, UpdatePreferences, RoomStep
<1>2. ASSUME NEW i \in Instance, InstanceStep(i)
      PROVE  reporting' = {}
  <2>1. CASE Crash(i) \/ Exit(i)
    BY <2>1 DEF Crash, Exit, Die
  <2>2. CASE ~(Crash(i) \/ Exit(i))
    BY <1>2, <2>2 DEF InstanceStep, Sweep, Lapse, Beat, StoreOnly, Stop, ShutdownLocked,
         ShutdownFails, StartCall, StartCallDropped, Restrict, RestrictLocked, RestrictFails
  <2> QED
    BY <2>1, <2>2
<1>3. ASSUME \/ \E r \in Room : RoomLapse(r)
             \/ \E pair \in store.blocked : Unblock(pair)
             \/ \E d \in Device : Lift(d)
      PROVE  reporting' = {}
  BY <1>3 DEF RoomLapse, PassDeadline, Forget, Unblock, Lift, StoreOnly
<1>4. ASSUME UNCHANGED vars
      PROVE  reporting' = {}
  BY <1>4 DEF vars
<1>5. ~LateReport
  BY DEF LateReport
<1> QED
  BY <1>1, <1>2, <1>3, <1>4, <1>5 DEF Next

LEMMA InitCalls ==
  ASSUME Init
  PROVE  PairsApart(store) /\ OnlyTheseStay(store, spared \cup Waiting) /\ Starts
BY DEF Init, PairsApart, OnlyTheseStay, Live, Starts, CallsStartOnce

\* The only thing that leaves a blocked pair in a room together is the report of an earlier
\* room of the pair that comes late: every pass, expiry, decline, skip and failed call keeps
\* blocked pairs apart, whoever interleaves.
THEOREM OnlyLateReportsBlockACall ==
  Spec => [][BlockedPairsApart => BlockedPairsApart' \/ LateReport]_vars
<1>1. BlockedPairsApart <=> PairsApart(store)
  BY DEF BlockedPairsApart, PairsApart
<1>2. BlockedPairsApart' <=> PairsApart(store')
  BY DEF BlockedPairsApart, PairsApart
<1>3. TypeOK /\ Consistent(store) /\ [Next]_vars
        => [BlockedPairsApart => BlockedPairsApart' \/ LateReport]_vars
  BY <1>1, <1>2, StepKeepsPairsApart
<1> QED
  BY <1>3, TypeCorrect, StoreConsistent, PTL DEF Spec

\* Without reports no blocked pair is ever in a room together.
THEOREM BlockedPairsApartCorrect ==
  ASSUME "report" \notin Env
  PROVE  Spec => []BlockedPairsApart
<1>1. Init => PairsApart(store) /\ reporting = {}
  BY InitCalls DEF Init
<1>2. TypeOK /\ Consistent(store) /\ PairsApart(store) /\ reporting = {} /\ [Next]_vars
        => (PairsApart(store) /\ reporting = {})'
  BY StepKeepsPairsApart, NoReportsAppear
<1>3. PairsApart(store) => BlockedPairsApart
  BY DEF BlockedPairsApart, PairsApart
<1> QED
  BY <1>1, <1>2, <1>3, TypeCorrect, StoreConsistent, PTL DEF Spec

\* A banned device is in a call only until its restriction's section comes, on any number
\* of replicas and whatever fails; where that section is lost, with its replica or because
\* withLock rejected, it stays in the one room it was in and gets into no other.
THEOREM BannedStaysOutCorrect == Spec => []BannedStaysOutOfCalls
<1>1. Init => OnlyTheseStay(store, spared \cup Waiting)
  BY InitCalls
<1>2. TypeOK /\ Consistent(store) /\ [Next]_vars /\ OnlyTheseStay(store, spared \cup Waiting)
        => OnlyTheseStay(store, spared \cup Waiting)'
  BY StepKeepsTheBannedOut
<1>3. OnlyTheseStay(store, spared \cup Waiting) => BannedStaysOutOfCalls
  BY DEF OnlyTheseStay, Waiting, SessionsWith, BannedStaysOutOfCalls
<1> QED
  BY <1>1, <1>2, <1>3, TypeCorrect, StoreConsistent, PTL DEF Spec

\* However accepts, passes and replicas interleave, an active room has one startCall under
\* way or one call:start sent, never two; none is lost while every replica is up and no
\* section fails.
THEOREM CallsStartOnceCorrect == Spec => []CallsStartOnce
<1>1. Init => Starts
  BY InitCalls
<1>2. TypeOK /\ Consistent(store) /\ [Next]_vars /\ Starts => Starts'
  BY StepOutcome, ReplicaSteps DEF StartsKept
<1>3. Starts => CallsStartOnce
  BY DEF Starts
<1> QED
  BY <1>1, <1>2, <1>3, TypeCorrect, StoreConsistent, PTL DEF Spec
=============================================================================
