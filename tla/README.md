# A TLA+ model of a random video chat

The repository is a random video chat: a Node backend (`backend/`, N replicas sharing one
Redis) that matches anonymous devices, a React frontend (`new-frontend/`) and a deploy
script (`deploy/`). The media goes peer to peer over WebRTC. What can go wrong in an
interesting way is who is in the queue, who is in which room, who was told what, who was
paid and who was banned, while sockets drop, tabs race, answers come late, replicas restart
and Redis stalls. That is what this project models, model-checks with TLC and proves
about with TLAPS.

Paths below are relative to the repository; `MatchService.ts` is
`backend/src/match/MatchService.ts`, `RedisStore.ts` is `backend/src/store/RedisStore.ts`.

## 1. Inventory

| Component | State | Operations | Talks to |
|---|---|---|---|
| Match service (`match/MatchService.ts`) | per replica: `local` (its sockets), `orphaned`, `stopped`, dirty marks, `wakeAt`, timers | hello, updatePreferences, accept, decline, skip, connected, report, callFailed, disconnect, restrictionApplied/Lifted, sweep (reap, ghosts, expiry), tickRewards, start/shutdown | the store (always under `withLock` when two sessions or a room change), the emitter, enforcement, TURN, billing |
| Match store (`store/`) | sessions, rooms, waiting index, device bindings, pair blocks, bans, instances and their heartbeats, coins, friends, reports | single-key reads and writes, `withLock`, `heartbeat`, `listDeadInstances`, `forgetInstance` | Redis |
| The lock (`RedisStore.withLock`) | key `lock:match`, a promise chain per process, a lease and its renewal timer | acquire, renew, release | Redis |
| Compatibility, relax ladder (`match/compatibility.ts`, `match/relax.ts`) | none (functions of sessions and clock) | isCompatible, meetsPreferences, ladder steps | match pass |
| Realtime (`realtime/socket.ts`, `session/handshake.ts`, `shed/`) | connected sockets, counters per process, address, network and session, a load verdict | upgrade, session handshake, count, close, events, emit to / disconnect a socket of any replica | match service, Socket.IO Redis adapter |
| Process lifecycle (`server.ts`, `index.ts`) | a close promise, a forced-exit timer | start, close, forced exit | all |
| Heartbeats (`RedisStore.ts`) | a key with a TTL per replica, the replica list, `reapAllowedAt` per process | heartbeat, listDeadInstances, forgetInstance | the sweep |
| Session and queue gates (`session/`) | lockouts, new devices of a day, per-minute and per-hour counters, signed tokens | create session, rotate the secret, admit to the queue | store, flags |
| Enforcement (`enforcement/`) | reports, restrictions, evidence files, ended-room records | submitReport, view, dismiss, escalate, restrict, lift, appeal, sweep | feature store, files, match service |
| Billing (`billing/`) | wallets, orders, ledger, unlocks, claims | order, checkout, webhook, credit, unlock, earn, adjust | feature store, Razorpay |
| TURN (`turn/`), flags (`flags/`) | hourly counters, a spend document, a poller lease, a failure streak, flag caches | iceServers, poll, step down, failsafe, refresh | HTTP, feature store |
| Frontend signaling (`hooks/useSignaling.ts`) | the reducer state of one tab, a retry timer | server events, buttons, reconnects | the socket |
| Frontend call (`lib/peerSession.ts`, `lib/connectivity.ts`, `hooks/usePeerConnection.ts`) | an RTCPeerConnection, a task chain, two timers | offer, answer, candidates, ICE restart, giving up | the other tab, through the server |
| Frontend camera (`hooks/useMediaStream.ts`) | the stream on screen, mute and camera wishes | open, flip, retry, resume, stop | getUserMedia |
| Frontend moderation (`moderation/`) | a monitor per call, one shared model in a worker | sample, classify, blur, reveal | the worker, the server |
| Frontend purchases (`premium/`) | one stored proof of payment, one retry loop | buy, verify, settle, reload | billing, Razorpay Checkout |
| Frontend session gate (`pages/gate/Gate.tsx`, `lib/session.ts`) | screen, form over the page, tokens in localStorage | load, submit, renew silently, back off | session API, the socket |
| Deployment (`deploy/deploy.sh`) | installed files, saved files, tags | install, release, start, verify, roll back | Docker |
| Safety signals, Spark prompts, captions, HTTP API | counters, cooldowns | relays and checks | the above |

**How they interact.** A socket event is a call of a match service handler. It checks
what it can without the lock (stopping? banned? rate?), waits for `withLock`, re-reads
the session, changes sessions and rooms, runs a match pass in the same section, and
emits to sockets that may live on other replicas. Timers do the rest: the sweep (expired
rooms, dead replicas, ghosts), tickRewards, the heartbeat, the lease renewal.

**Hard behaviours.** Everything read before the lock may be stale under it. A socket can
close at any point of its own hello. Two tabs of a device race, on one replica or on
two. Replicas die with sessions in the queue and in calls with sockets of others; a live
replica can be reaped when its heartbeat lapses. startCall awaits credentials without
the lock. Shutdown races with hellos that already wait. The lock is a lease: it can
lapse under a stalled section, commands are re-sent, callers give up in the middle of a
queue. `PROJECT.json` lists these hazards line by line, with the properties that cover
each or the reason none does.

The frontend has no locks either, but an await in every handler: the camera, the model,
the payment and the session request all answer late, into a page that has moved on.

**What makes each component correct.** Match service and store: section 3. Lock: section 4.
The rest: section 5, one row each.

## 2. Modules

| Module | What it is |
|---|---|
| `Match` | matchmaking and the call lifecycle over the shared store, all replicas |
| `MCMatch` | small instances of it, with six configurations |
| `Match_proofs` | type correctness; the store invariants and action properties of `Match` |
| `MatchSections` | what `withLock` promises, abstractly |
| `MatchLock` | `RedisStore.withLock` in detail |
| `MCMatchLock` | a small instance of it |
| `RoomWrites` | the locked sections of the match service write by write, and what is left when one stops half way |
| `Queue` | which pairs a match pass looks at, and when: ladder, marks, blocks, recheck slices |
| `Queue_proofs`, `Inductions` | its types and that a pass overlooks nobody; inductions over numbers and folds, without operators as parameters |
| `Heartbeats` | liveness keys of replicas through outages of Redis |
| `Gate` | the session gate and the queue gate |
| `Enforcement`, `Enforcement_proofs` | the life of one report, its evidence and its restrictions |
| `Restrictions` | the marks of a restriction, and the requests for a session and hellos they keep out |
| `Wallet` | the coins of one device |
| `Relay`, `Spend` | issuing TURN credentials; the spend cap of TURN and the flags it steps down |
| `Sockets` | who holds a place of a process, an address, a network, a session |
| `Deploy` | deploy.sh on one host |
| `Signaling` | one tab against the server's session of its socket |
| `Peer` | both ends of one call |
| `Camera`, `Moderation`, `Purchase`, `GatePage` | the local camera; the blur over the partner; a purchase; the session gate of the page |
| `Gate_proofs` | proofs about `Gate` and `Restrictions` |
| `Writes_proofs` | proofs about `Wallet` and `RoomWrites`: what stops between two writes |
| `Replicas_proofs` | proofs about `MatchLock` (and that it implements `MatchSections`), `Heartbeats`, `Sockets`, `Relay`, `Deploy` |
| `Tab_proofs` | proofs about `GatePage`, `Purchase`, `Moderation`, `Camera`, `Peer`, `Signaling` |
| `MCServices`, `MCClients`, `MCProgress` | small instances of the modules from `Queue` to `GatePage`: safety of the server's parts, safety of the tab's and of `Restrictions`, liveness |

`Match` takes a locked section as one step. `MatchLock` shows what that rests on: sections
enter one at a time as long as nobody overran a lease; `RoomWrites` opens a section up into its
writes. `Queue` refines the free choice `Match`
makes in a pass, `Heartbeats` the steps `Lapse` and `Beat`, `Signaling` the client `Match` takes to be
anybody; these links are by reading, only lock and promise are linked by a refinement.
Definitions marked "Mutant" are plausible bugs used to show that a property can fail; no
specification uses them.

The modules behind `MCServices`, `MCClients` and `MCProgress` share no state. Their instances
are put side by side: the variable `part` says which of them a behaviour runs, and the others
stay as they start. The states of a run are the sum of its parts', not the product.

## 3. Match

**State.** `store` is a record with what Redis holds: per session its state and room, the
queue index, the device bindings, per room its phase, members and acceptances, the pair
blocks, bans, the known replicas (`instances` set) and those whose heartbeat is alive.
`conn`, `local`, `orphaned`, `proc` are the sockets and the replicas. Two histories: `started`
(rooms whose call:start went out) and `spared` (sessions still in the room a restriction's section
failed to end). What a handler carries
across an await is explicit: `helloing` (checked, waits for the lock), `cleanup` (closed,
handler waits), `reporting`, `restricting`, `starting` (startCall waits for credentials).
`deadline` is where a pending room's accept window stands; at the `edge` an accept and
the sweep both consider the room theirs, as the code's two grace comparisons allow.

**Actions.** One per handler, split where the handler awaits outside the lock: `HelloCheck`
/ `HelloRefused` / `HelloKeeps` / `HelloLocked`, `Disconnect` / `DisconnectLocked` /
`DisconnectFails`, `ReportCheck` / `ReportLocked`, `Restrict` / `RestrictLocked` / `RestrictFails`, `StartCall` /
`StartCallDropped`, `Stop` / `ShutdownLocked` / `ShutdownFails` / `Exit`, then `Accept`,
`Decline`, `Skip`, `CallFailed`, `UpdatePreferences`, `Sweep` (reap, ghosts, expired rooms and the
pass, in that order, in one section), `TickOrphans`, `Beat`, `Lapse`, `Crash`. The `...Locked`
helpers of the code are operators from store to store (`EndRooms`, `RemoveSessions`,
`Activate`, `CreateRooms`, ...), composed as the code calls them, so an action is the whole
section with the match pass at its end.

**Abstractions.** A pass picks pairs first come first served; `IsPass` says what every such
order yields: disjoint candidate pairs to which none can be added. The ladder, dirty marks
and recheck slices only decide which sessions a sweep's pass looks at, and that is a free
choice (`extra`). Filters are the constant `Apart`. A session's mode is fixed per socket.
Room ids are reused when nothing refers to them, to keep the model finite. The queue
gate's refusal to re-queue is a free choice among `Caps`. `Env` switches the environment's
other freedoms on: refused hellos, the kill switch, a failing lock, reports,
restrictions, forced exits.

**Runs.** Every run names the properties it checks; each property has a mutant it detects.

| Run | Instance | Shows |
|---|---|---|
| `core` | 3 sockets of 2 devices, 1 replica, 2 rooms, restrictions, failing sections | consent, blocks and bans |
| `report` | 2 sockets, 1 replica, 2 rooms, reports, refused hellos, kill switch, match caps, failing sections, shutdown | the queue index is exact, with stale reports and half-failed cleanups |
| `replicas` | 3 sockets (two tabs on two replicas), 2 replicas, crash, reaping alive, shutdown | rooms match sessions, a device has one session, and a call is started once, across replicas |
| `live` | 2 sockets on 2 replicas, one may crash, one may be reaped alive | with fair sweeps: gone sessions are removed, pending rooms resolve, orphaned sockets are dropped |
| `gone_session`, `lost_start` | 2 sockets | findings 1 and 2 of section 7 |

**Why these bounds.** Every handler touches at most one room, its two members and one more
socket of a member's device, so two sockets are the least that meet and three with two
of one device the least in which a tab is replaced while its room lives. Two rooms let an
old report meet a newer room of the same pair; one is enough elsewhere, because an id
is free again once its room ended. Two replicas suffice for "another replica": no handler
involves three. The replica that may crash is not the one that may lapse, and the one that
drains does so without forced exits or failing sections in `replicas`: a replica that lapses
and then crashes, or drains and fails, leaves the session of finding 1 again.
`BlockedPairsApart` is stated without late reports, which block a pair that may have met
again in the meantime (the code ends no new room for an old report, on purpose); section 6 proves that
nothing else can break it.
`BannedStaysOutOfCalls` has two exceptions. One is the time between the ban's write and its locked
section. The other is a section that never ran, because `withLock` rejected and `restrict()` does not
try again (`RestrictFails`), or because the replica ended first: the device then stays in the room it
was in at that moment (`spared`) and joins no other. `core` has such failures, section 6 proves the
rest for crashes and exits too, and section 7 says why the call may go on at all.
`CallsStartOnce` speaks of two replicas: that at most one startCall is on its way for a room, none
after call:start went out, and one of the two for every active room, unless a replica ended or a
section failed (finding 2).

**Fairness.** A live replica's sweep timer fires again and again (`setInterval`), its
tickRewards runs with it, clocks pass deadlines, a startCall settles, a dead replica's
heartbeat key expires. Nothing else is fair: no user acts, no handler succeeds, no
replica fails. The liveness properties hold from the sweeps alone.

## 4. The lock

`MatchSections` is the promise: a section enters only when every other one inside has
overrun, that is lost its lease; an overrun section never gets the lock back.

`MatchLock` is the code: calls of a process queue on a promise chain (`ahead`, `tail`, `slots`)
with a deadline; the call in front polls `SET NX PX`; a re-sent SET is recognised by the
GET; the section runs with a renewal timer fenced by the token; release deletes the key
only if it is still its own. `Faulty` processes may have commands fail, replies lost,
stall for any time, or crash. Time is counted in renewal periods (`LOCK_TTL_MS / 3`);
`LOCK_WAIT_MS` and `LOCK_HOLD_MAX_MS` are only known to pass at some time (`late`, `old`),
which includes every real timing. Redis itself is external and keeps its data: a failover that
forgets the key is not modelled.

| Run | Instance | Shows |
|---|---|---|
| `lock` | 2 calls of a healthy process, 1 of a faulty one, lease of 3 periods, `FairSpec` | the promise is kept, a healthy holder loses its lease only when hung, a lapse is always logged, nobody keeps the key, every call is answered |

Two calls of one process are the least of which one waits behind the other and may give up.
That any number of them let at most one past the local queue is proved
(`LocalExclusionCorrect`), not repeated by a run. The code's ratio of lease to renewal is 3;
the proof covers any lease of at least 2 periods.

**Fairness.** Time passes, timers and deadlines fire, live processes run their callbacks.
No section ever has to end and no command of a faulty process has to succeed.

The model keeps one surprise of the code: a command may take `REDIS_COMMAND_TIMEOUT_MS`
(5 s) and the lease lasts 3 s, so a SET whose reply was lost can be recognised by the GET
when little of the lease is left. The promise still holds (the section then overruns and is
reported), which `GetOwn` and the refinement show.

## 5. The other components

An action runs up to the next await of the code; what it carries over is in a record of the
request (`requests`, `calls`, `visits`, `poll`, `chain`, ...). A history variable is commented so.

### Server (run `services`, `Restrictions` in `clients`; liveness in `progress`)

| Module | State and actions | Property |
|---|---|---|
| `Gate` | lockouts, new devices per secret, the queue's length; a request goes create, lock or admit, count, mark, issue; a hello looks at max_waiting before and in its section; `lockouts` is the history of finished rulings, kept apart from the keys `isLocked` reads | `LockedStaysOut`: a device or browser a finished lockout named gets no session for a later request on any replica, until some replica has changed its secret twice. `CeilingsHold`: how far concurrent requests overshoot |
| `Enforcement` | one report, two copies of its frame, a restriction per request; every reviewer action reads, then puts a whole document back | `EvidenceSurvives`: a whole copy of the frame exists wherever a request dies. `EscalationStands`: the report stays on hold and its device is banned |
| `Restrictions` | rulings with their documents, two indexes, the mark of an address, the match store's ban; requests and hellos that read them one after another | `TheRestrictedStayOut`: nobody restricted gets a session, a place in the queue or a match by another device id, browser or address |
| `Relay` | hourly counters per device and address, one request in flight per replica and device | `CredentialsAreCapped`: no window pays for more sets than its cap |
| `Wallet` | balance, ledger, unlock days, orders, claims; webhook and checkout of an order, unlocks, rewards, corrections | `CreditedOnce`; `LedgerExplainsBalance` (coins equal what is recorded or under way, and unlocks never overspend); `PaymentsAreCredited` (liveness) |
| `Heartbeats` | remaining TTL of each key, who is connected, who may reap when | `NotReapedForAnOutage`; `TheDeadAreReaped` (liveness) |
| `Spend` | flag steps in the store and in caches, lease, streaks, egress | `SpendIsCapped`, `BlindSpendIsCut` (liveness) |
| `Sockets` | open connections, four counters, the load verdict's streak | `PlacesAreExact`: closes that race the handshake lose no place |
| `RoomWrites` | the keys of sessions, queue, devices and rooms, the writes a section still has to make | `CallsAreWhole`: an active room has both its members in it, wherever a section stopped. `PartnersAreRequeued` does not hold: run `stranded` |
| `Deploy` | files, tags and saved files on a host, where the script is | `RollbackIsVerified`: a rollback starts a tag with the files it was verified with |
| `Queue` | waiting list, clock, blocks, per server marks and wake times | `NobodyIsOverlooked`: passes over marked sessions miss no pair; `PairsMeetInTheEnd` (liveness) |

### Tab (run `clients`; liveness in `progress`)

| Module | State and actions | Property |
|---|---|---|
| `Signaling` | link, three wires, the reducer's status and room, the server's session, which may be paused, banned or reaped behind the open socket | `ScreenIsTrue`: once everything has arrived the tab shows what the server has. `NeverStranded`: a tab always has a retry or a session on its way |
| `Peer` | per end the signaling state, descriptions, candidates, task chain, timers | `DescriptionsAgree`; `CallsAreDecided` (liveness) |
| `Camera` | tracks that are on, the stream shown, calls of getUserMedia under way | `CaptureIsShown`: what is on is on screen, muted and facing as the buttons say |
| `Moderation` | a monitor per call, one model that loads, runs, hangs or fails | `VideoIsCleared`: the video is uncovered only for reasons of this call |
| `Purchase` | the stored proof, where each buy() is, retry loops | `ProofSurvives`: an unanswered proof of payment is stored and pursued |
| `GatePage` | screen, form over the page, one session request with its retries, tokens | `NeverLeftWaiting`: a socket that waits for a session is being served |

**Faults.** A write may fail, have been applied although its caller was told otherwise, or
be the last one of a process that dies: `Wallet`, `Enforcement`, `Spend`. A section
stops between two writes: `RoomWrites`. A process crashes and
another starts: `Heartbeats`, `Spend`, `Queue` (marks lost). Secrets roll at different times: `Gate`.
Messages of one replica arrive in order, of two in any order, and die with the socket:
`Signaling`. Signals of a restart are lost and arrive before a tab listens: `Peer`. Tabs close and
reopen: `Purchase`. Scripts are killed: `Deploy`.

**Bounds of `services`.** Two requests, replicas and devices in each part: no step looks at
more than one other. `Gate`: 2 secrets after the first, so a rotation while another rolls; one
new device per day and one waiting session, which two requests already exceed. `Enforcement`: the
report, two reviewers (symmetric: they differ in nothing) and one other request; time passes where at
most one reviewer has asked (what two reviewers and the sweep do together is proved). `Relay`: one
device on two replicas and one that shares its address, caps of 1, two hours. `Wallet`:
one order, two requests at once, 2 spendings, prices above the first balance. `Heartbeats`: TTL of 3
intervals as in the code, two outages, one restart. `Sockets`: five connections of two
addresses in one network with limits that each bind somewhere (3, 2, 4, 1). `Deploy`: two tags and two
versions of the files. `Queue`: three sessions of which the third suits either of the others
at different steps of the ladder, 4 ticks, blocks of 3, 3 joins; `RoomWrites`: two tabs of one device and one of another, two rooms, one
section that stops half way. In `Queue` two servers (the first to act is the first, by symmetry),
changing filters, and marks lost of two waiting sessions are three parts because all at once are too
many states. The low priority cache of a few seconds is left out.

**Bounds of `clients`.** `Signaling`: 3 hellos (a lost one and two reconnects), 2 rooms, one message
on a wire before the next is emitted. `Peer`: 3 offers or breaks together. `Camera`: three
calls of getUserMedia, the most of which two are overtaken. `Moderation`: 3 calls, the real streak of 3.
`Purchase`: three payments of which localStorage takes two. `GatePage`: 2 automatic retries.
`Restrictions`: two rulings on one of two devices that share a browser or not, one address, one request
or hello at a time next to one ruling or lift, a pause of one tick and a ban of two.
In `progress` `Wallet` has one spending, `MaxTries` is 2, and `Queue` has one server and a ladder without
its middle step.

**Exceptions stated in the properties**, each because the code does not promise more:
`CreditedOnce` speaks of orders whose addBalance never threw after it was applied (see
finding 4); `LedgerExplainsBalance` of wallets where no request ended between moving coins and recording
or returning them, and no such addBalance (`mishap`); `PaymentsAreCredited` of orders that had not expired and whose claim was
not `abandoned`: the request that took it died before the coins or before it gave the claim back, or did not
recognise its own key (section 7); `LockedStaysOut` of lockouts decided while all replicas had one secret
(one decided in the middle of a rolling rotation is written under a secret the replicas not yet restarted
do not know, so they let the browser in); `EscalationStands` of reports
no stale copy was put over (documents have no version) and, for the ban, of requests that
were answered (one that dies between the put and the ban bans nobody, and sent again finds
the report escalated); `NotReapedForAnOutage` of replicas that lived through the outage (a
process started afterwards has `reapAllowedAt` 0); `NobodyIsOverlooked` of sessions whose mark was
not lost (`unmarked`); `ScreenIsTrue` of sessions that were not left idle or removed without a word to the reducer: by the hourly match
caps, a pause or a ban, or reaped while the socket stayed open (`untold`); of tabs that do not show the error of a hello
unanswered within ACK_TIMEOUT_MS (status "unanswered": the server may have queued or matched them, and they show
the error until Retry or the next message that names a status); and of messages that were not
overtaken by another replica's (`overtaken`); `RollbackIsVerified` of
runs that were not killed and did not fail over their own tag (`astray`); `ProofSurvives` of payments
made while no other one was unsettled (`overlapped`: one slot and one loop serve all); `TheRestrictedStayOut` of an
address whose mark a newer ban took over and, for matches, of devices with two rulings or a ruling and
a lift at once (section 7); `NeverLeftWaiting` of
bans that took the form away while what it sent was under way (`abandoned`).

**Fairness of `progress`**, no more than the code's timers and retries give.
`WalletFair`: an await returns; a claim or a credit that requests ask for again and again gets through to Redis for one of them; Razorpay
repeats its webhook until it is answered 2xx. `HeartbeatsFair`: intervals fire, a client that
lost Redis connects again (ioredis retries), the sweep runs. `SpendFair`: the lease lapses, the
refresh and poll timers fire. `PeerFair`: the monitor's two timers fire and ICE ends its checks.
`QueueFair`: time passes and each server's sweep rechecks at its interval. No write has to
succeed the first time, nobody has to pay, poll or search, and no replica has to stay up.

## 6. What is proved

All proofs are checked by TLAPS to the leaves, for every value of the constants. They assume only
the named assumptions on constants, one per module (`ConstantsOK`, `LockConstantsOK`,
`WalletAssumption`, `EnforcementAssumption` with `MissingAssumption`, and so on): typing, model values apart
from the sets they are not in, finite sets of requests, connections, sockets and persons, a lease of two
periods or more. TLC evaluates all of them.

**Match** is proved in `Match_proofs`, its lock in `Replicas_proofs`.

- `TypeCorrect`: `Spec => []TypeOK`, one lemma per store operator, then
  one case per action.
- The store: the inductive invariant is `Consistent(store)`: rooms match sessions,
  the queue index is exact, device bindings are exact, active rooms have consent. The store
  properties cannot be proved one by one (the device binding
  tells whom a hello replaces; the room a session points to tells whom `EndRooms` touches), so
  they are carried together. Each store operator is shown to turn a consistent store into
  a consistent one, under what its callers guarantee; every action is a composition of
  them. `StoreConsistent` is the invariant, `RoomsMatchCorrect`, `QueueCorrect`,
  `OneSessionCorrect`, `ConsentCorrect` read the properties off it. They hold for any number of sockets, devices, replicas and rooms, any
  faults, and any environment.
- Blocks and bans: `Careful` says of every section that it only takes sessions
  out of rooms, or puts in pairs neither blocked nor banned. `OnlyLateReportsBlockACall` holds in any
  environment (the one step that leaves a blocked pair in a room is a report whose own room was
  already replaced), and `BlockedPairsApartCorrect` (nobody reports) is its corollary for `core`.
  `BannedStaysOutCorrect` assumes nothing of the environment: whoever is banned and in a room has its
  section still to come, or has been in that room since the section failed (`spared`).
- Starts: `CallsStartOnceCorrect`. What has to be carried along is that a room is activated out of
  pending only, so that an active room already has its startCall, and that an id is free again only
  when no startCall knows it.
- The lock: `LockTypeCorrect`; `Owned` (a section that did not lapse owns the key; a
  lapsed one never gets it back) gives `LapsesAreLoggedCorrect` and, with a step-by-step
  mapping, `LockKeepsPromise`: the lock implements `MatchSections`. `Healthy` carries the time
  left of a healthy holder's lease for `HealthyKeepsLeaseCorrect`. The predicate `Queue` there asserts
  an order of the calls of a process that the slots follow, for `LocalExclusionCorrect`.

**The queue** (`Queue_proofs`).

- `NobodyIsOverlookedCorrect`: the property speaks of the pairs that could meet *now*, and time alone can
  make a pair one of them (a step of the ladder, a block that ends), so it is not inductive. `Watch` looks ahead:
  of any two that wait with their marks, and any moment `t` from now on at which they could meet, some
  server's memory makes it look at one of them by `t`, because the session is marked, is to be woken by
  then, or by then stands above the step noted for it (`DueAt`). Next to it, `Tracked`: somebody has noted each session's
  wait and priority, and no step it has not reached. `StepAtGrows` is what lets a note made early serve later.
- The pass is the hard step. `Sought` is its own invariant, along the seekers: two behind one another in
  the queue that are free, marked and could meet but for a block have a block that still
  stands, and the first of them is woken when it ends. `GrowingPlan` is the fold over the queue that says so.
- `QueueTypeCorrect` carries the types and that nobody is in the queue twice.

**What stops between two writes** (`Writes_proofs`).

- `WalletTypeCorrect`; `ClaimGuards` says that at most one request is between the
  claim of an order and its coins, that the order is then claimed and not credited, and that an
  unclaimed order is not credited: a claim is given back only while nothing was added. From it
  `CreditedAtMostOnce` and `ClaimIsKept` (a credited order stays claimed).
- `LedgerExplainsCorrect`: `Explained` is the ledger's equation with what each request has moved and
  not recorded, `Deltas` bounds what a request may carry. The property sums over the requests with a fold.
  `Totals` says of a function of sets of requests that it is its own total over each set without its first
  element; such a function exists for every finite set (`TotalsExist`), is the fold (`SumOnLoan`), and
  two of them whose summands differ at one request differ by that (`TotalsDiffer`).
- `CallsAreWholeCorrect`: a section is a list of writes, so the invariant, `WholeOnTheWay`, speaks of
  the rest of the list: every state it still passes through is `Sound`. `Sound` asks more than
  the property: in a room that a tab was told of, too, both are seated, or an accept would
  activate a room somebody had left. Writes that are `Leaving` (a room goes, or a session changes that
  nobody in a call would miss) keep a state sound in any number and order; a new
  room is `Opened` before anybody is seated, `Full` once both are, and only then told or activated. That
  `AfterAll` is where such a list ends (`AfterAllIsTheEnd`) is a fold taken apart, write by write
  (`AfterAllOneByOne`).

Inductions over data are first-order (`Inductions`): `LeastNumber` (a set of naturals has a least element, from the
well-foundedness of `<`) applied to the sizes, or the positions, at which a claim fails. A fold takes its
step as a function (`Foldable`): the recursive function behind it exists and stays in the set the
step maps into (`FoldsExist`), and its value at `1 .. k` is one step from that at `1 .. k - 1` (`LastOfFirst`).

**The gates and enforcement.**

- `Gate_proofs`: `GateTypeCorrect`; `LockoutsKept` (a lockout decided under one secret left its
  keys under that secret) with `NobodyLate` (no request under way began after a lockout of its device or
  browser) for `LockoutHolds`; `CountsBounded` (new devices counted and
  admitted to be counted stay below the limit plus the number of requests) for `CeilingsAreKept`.
- `TheRestrictedStayOutCorrect`, also there: `KeptOut` relates each standing ruling to what a request can
  meet. Its document and indexes lead to it (`Led`, `Made`), its address is marked unless a newer ban took the
  mark (`Addressed`), the match store holds its end for a device with one ruling at a time (`Marked`,
  `OneAtATime`), who has a session or asks for one is linked to its browser (`LinkedVisitors`), and a request
  or hello that has already looked for a ruling found it over (`EntriesKept`).
- `Enforcement_proofs`: `EnforcementTypeCorrect`; `Kept` = `Untouched`, `NotYetStored`, `ErasedCopies`, `DropsLast`,
  `OneWhole`: before the report is stored nobody has touched the frame, and whoever is about to
  erase the original does so next to a complete copy, whoever interleaves, for `EvidenceAlwaysSurvives`.
  `Held` and `Banning` follow an escalation through its requests (`EscalationsArePursued`: while it
  has no ban some request is on its way to one; `RulingsHold`: what stands was ruled) for
  `EscalationStandsCorrect`.

**Replicas and the host** (`Replicas_proofs`).

- `HeartbeatsTypeCorrect`; `Patient` says that the intervals a connected replica has
  watched and those it still waits make a whole TTL, for `OutagesReapNobody`.
- `SocketsInv` carries the counters' exactness with `OwnPlaces` (whoever gives a
  place back on close is one who holds it), for `PlacesAreExactCorrect`.
- `RelayInv` with `Budget`: the sets made and the requests that may still be answered are no more than what was
  counted below the cap. That only finitely many requests are pending is part of the induction, so the
  replicas need not be finitely many, for `CredentialsAreCappedCorrect`.
- `DeployInv`: what the running script has seen of the host (`RunInv`) and what the host's files, saved
  files and tags say of each other (`HostInv`), for `RollbackIsVerifiedCorrect`.

**The tab** (`Tab_proofs`). Each of these follows what a late answer may still touch.

- `NeverLeftWaitingCorrect`: `Attended`, a socket that waits is served by a request, a retry or a form.
- `ProofSurvivesCorrect`: `ProofKept`; a payment made alone is in the slot (`Alone`), and a page that closed
  leaves it there for the next (`ClosedPage`).
- `VideoIsClearedCorrect`: `Watched`; every monitor but the current call's is stopped and its deadline is
  over, and the current one, `Cleared` by its own verdicts, is what the page shows.
- `CaptureIsShownCorrect`: `Captured`; tracks that are on belong to the stream shown, and a call of getUserMedia
  that answers late still knows which tracks it is to replace and whether it is the last one (`AskOK`).
- `DescriptionsAgreeCorrect`: `Agreeing`, unless a step threw: what is on the way to an end is what it lacks, a
  description before its candidates (`Lines`), whose round it is (`Rounds`), and what the chains still have to
  do (`Tasks`).
- `NeverStrandedCorrect`: inductive as it stands, next to the types of its flags.
- `ScreenIsTrueCorrect`: `Telling`. The messages between server and tab, those on their way followed by those
  the bus still holds, are one line. Read in order (`Moves`), it takes a *view* of the session from the one the
  screen agrees with (`OnScreen`) to the one the server's session agrees with (`Knows`); the server's steps
  extend the line at one end and the tab's shorten it at the other. That an accept does not put the screen
  ahead of the server needs `OfferedOnce`: a room is offered once, and accepted only by a tab that read the
  offer. A session that was left out of the queue or removed without a word is known to any view (`untold`),
  and the ack of the next hello leads from any view to one that claims nothing of the screen ("acked"), until
  queue:waiting. `QuietLine` and `OverForGood` cover a tab without a connection. The view is the argument's own: no
  variable of the model holds it.

**Only model-checked:** liveness and fairness (out of the prover's reach), and what the four runs of
section 7 deny. Every safety property a passing run checks is a theorem.

## 7. Findings

1. `gone_session`: hello checks `stopped` before it waits for the lock and not under it. A
   hello queued behind shutdown's section leaves a session on a replica that has just been
   forgotten. If the process is forced out before that socket's cleanup, no survivor ever
   reaps it, contrary to docs/ARCHITECTURE.md:385.
2. `lost_start`: startCall runs on the replica whose section activated the room. If that one
   dies, a call between two sockets of another replica stays active and never starts,
   contrary to docs/LIMITS.md:474.
3. `stranded`: endRoomLocked deletes the room before it puts its members back into the queue. If
   the section stops in between, later sweeps and hellos leave the partner where it is, in a room
   that is gone, until its socket closes, contrary to docs/ARCHITECTURE.md:520-521 (partners are
   re-queued, failed cleanups are repaired). The order is what keeps calls whole (`CallsAreWhole`).
4. `credit_twice`: the claim of a payment is given back when addBalance throws, "before any
   coins moved" (BillingService.ts:332). A command that timed out or lost its reply may have
   been applied; the webhook's retry then credits the order again, contrary to
   BillingService.ts:312.
**Excepted in a property**, in as many words, and no less real. The formulas without the exception
are false of the model.

- A restriction may leave its device in its call (`BannedStaysOutOfCalls`, `spared`): restrictionApplied
  writes the ban and then waits for the lock. When withLock rejects (LOCK_TIMEOUT, a Redis error),
  restrict() (EnforcementService.ts:520) fails with it and nothing tries the section again, although
  docs/ARCHITECTURE.md:530 says that the room ends. No replica has to die for this. The device
  joins no other room.
- A captured payment may never be credited (`PaymentsAreCredited`, `abandoned`): its claim is taken before the
  coins are added (BillingService.ts:326) and does not say whose it is. A process that dies in between, or a
  SET NX sent again that finds its own key, leaves it taken: every later delivery of the webhook is
  answered as already credited, although BillingService.ts:6 says that a purchase is credited exactly once.

**Smaller divergences** met on the way, excepted in a property or outside the model, without
a run of their own. A hello that times out shows an error while the server may have queued or matched the
tab; only Retry, or a message that names a status, ends that (`useSignaling.ts:544`). `MatchService.ts:555` says a restricted device is never re-queued; a hello
that passed the ban check before the restriction's section queues it (passes skip it, `BannedStaysOutOfCalls`).
`EnforcementService.ts:296` speaks of a ban recorded against an address; a newer ban takes the mark over, and
lifting it frees the address although the older ban stands. The match store's ban (`MatchService.ts:562`,
`592`) is overwritten by a shorter ruling, or by a lift that looked before a newer ruling. `deploy.sh:176` says the saved copy belongs to a verified tag; a killed run, or
one that failed over the tag it replaced, breaks that for the next. `pendingPayment.ts:4` says
the proof is kept until it is answered; a second purchase takes its slot. `blurGate.ts:4` says SAFE_STREAK consecutive
frames; a frame the model could not judge does not end the streak while the status is unavailable.

## 8. Not modelled

Of the match service: call:connected, the coins and friends of tickRewards, relays (signal,
chat, typing), telemetry. Of the store: photos, reports, coins, friends, key layout. Of the sockets:
event rate limits, payload validation, the parser and adapter. Of the gate: per-minute rates,
Turnstile, regions, staffed hours, match caps. Of enforcement: reporter weights and the ladder
(any outcome is allowed), takedowns, the audit trail, and a frame whose write failed at submission
(`EnforcementService.ts:353`). Of TURN: the static provider's key and a failed write to its cache.
Of the wallet: a re-sent addCoins, next to the re-sent claim. Of the
frontend: the face gate, the photo check, chat, captions, statistics, and the screens.

Not modelled at all: safety signals (counters and text matching), Spark prompts and captions
(relays with a cooldown), the HTTP API (routing and validation over the services above),
configuration, payload types (`protocol.ts`, once per side), catalogues and phrase lists,
internationalisation, the admin pages and the presentational components. They are most of
the repository's lines, and keep no state whose interleavings matter beyond a counter, a cache or a
form.

## 9. Plan

Done: the core and the lock; the queue, heartbeats, wallet, gates, enforcement, TURN and
spend cap, sockets, deployment; the tab's signaling, call, camera, blur, purchase and gate page.

Left, most valuable first:

1. The weights and the ladder of enforcement, against a reference definition.
2. call:connected and tickRewards in `Match`, with the wallet's reward.
3. The face gate, and Spark's turns between two clients.
