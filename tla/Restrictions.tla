---------------------------- MODULE Restrictions ----------------------------
(***************************************************************************)
(* What keeps a restricted person out                                       *)
(* (backend/src/enforcement/EnforcementService.ts, session/SessionService.ts,*)
(* match/MatchService.ts).                                                  *)
(*                                                                         *)
(* A restriction is one document and up to four marks that lead to it: the   *)
(* indexes of its device and of its browser, the mark of an address, and the *)
(* ban that match passes look at.  They are written one after the other, and *)
(* read one after the other by requests for a session and by hellos.        *)
(*                                                                         *)
(* A ruling is a restriction with the request that makes it and the one that *)
(* lifts it.  Reports, evidence and appeals are in Enforcement.  A tick is the *)
(* shortest restriction (ten minutes): requests do not span one.             *)
(***************************************************************************)
EXTENDS Integers, FiniteSetsExt

CONSTANTS
  Visitor, Browser,         \* device ids, browsers (fingerprints)
  Households,             \* the ways device ids may share browsers
  Place,                  \* addresses
  Accused,                \* bound: the devices that are ruled on
  Ruling,
  Entry,                  \* requests for a session, and hellos, under way at once
  PauseTicks, BanTicks,   \* how long a restriction may last
  NetworkTtl,             \* NETWORK_BAN_TTL_MS
  LastTick,                \* bound of the clock
  MaxUnderWay,            \* bound: rulings and lifts under way at once
  Nobody                  \* no browser, address or ruling

ASSUME RestrictionsAssumption ==
  /\ Visitor # {} /\ Place # {}
  /\ Accused \subseteq Visitor /\ Households \subseteq [Visitor -> Browser]
  /\ Nobody \notin Browser \cup Place \cup Ruling
  /\ {PauseTicks, BanTicks, NetworkTtl, LastTick} \subseteq Nat

VARIABLES
  browserOf,   \* the browser of each device id; it does not change
  clock,
  rulings,
  index,       \* entries <<device or browser, ruling>>
  linked,        \* the browser remembered of each device (KEY.fingerprint)
  noted,       \* the address of its last session (KEY.network), written before its token is signed
  addressBan,  \* the mark of each address (KEY.networkBan)
  mark,        \* the match store's ban of each device
  entries,     \* where each request for a session, or hello, is
  inQueue,     \* devices whose session waits
  crossed,     \* history: devices with two rulings, or a ruling and a lift, at once
  eclipsed,    \* history: rulings whose mark of the address another one replaced
  letIn      \* history: where somebody restricted got in

restrictionsVars ==
  <<browserOf, clock, rulings, index, linked, noted, addressBan, mark, entries, inQueue, crossed, eclipsed, letIn>>

Durations == {PauseTicks, BanTicks}
Ends == {0} \cup {t + d : t \in 0 .. LastTick, d \in Durations \cup {NetworkTtl}}
RulingPlaces == {"none", "index", "browser", "network", "address", "mirror", "section", "done"}

RestrictionsTypeOK ==
  /\ browserOf \in Households /\ clock \in 0 .. LastTick
  /\ rulings \in [Ruling -> [at : RulingPlaces, device : Visitor, browser : Browser \cup {Nobody},
                             address : Place \cup {Nobody}, made : 0 .. LastTick, until : Ends,
                             lift : {"no", "read", "mirror", "done"}, rest : Ends]]
  /\ index \subseteq (Visitor \cup Browser) \X Ruling
  /\ linked \in [Visitor -> Browser \cup {Nobody}] /\ noted \in [Visitor -> Place \cup {Nobody}]
  /\ addressBan \in [Place -> [by : Ruling \cup {Nobody}, until : Ends]]
  /\ mark \in [Visitor -> Ends]
  /\ inQueue \subseteq Visitor /\ crossed \subseteq Visitor
  /\ entries \in [Entry -> [at : {"none", "link", "device", "network", "issue", "hello", "ban", "lock"},
                            who : Visitor, address : Place, barred : SUBSET Ruling]]
  /\ eclipsed \subseteq Ruling /\ letIn \subseteq {"session", "hello", "pass"}

NoEntryYet == [at |-> "none", who |-> CHOOSE d \in Visitor : TRUE,
               address |-> CHOOSE a \in Place : TRUE, barred |-> {}]

RestrictionsInit ==
  /\ browserOf \in Households
  /\ clock = 0 /\ index = {} /\ letIn = {} /\ crossed = {} /\ eclipsed = {}
  /\ inQueue = {}
  /\ linked = [d \in Visitor |-> Nobody] /\ noted = [d \in Visitor |-> Nobody]
  /\ addressBan = [a \in Place |-> [by |-> Nobody, until |-> 0]]
  /\ mark = [d \in Visitor |-> 0]
  /\ rulings = [r \in Ruling |-> [at |-> "none", device |-> CHOOSE d \in Visitor : TRUE, browser |-> Nobody,
                                  address |-> Nobody, made |-> 0, until |-> 0, lift |-> "no", rest |-> 0]]
  /\ entries = [e \in Entry |-> NoEntryYet]
-----------------------------------------------------------------------------
(* Which restrictions there are.                                            *)

Lifted(r) == rulings[r].lift # "no"
isActive(r) == rulings[r].at \notin {"none", "index"} /\ ~Lifted(r) /\ rulings[r].until > clock
IsBan(r) == rulings[r].until - rulings[r].made >= BanTicks
UnderWay(r) == rulings[r].at \notin {"none", "done"} \/ rulings[r].lift \notin {"no", "done"}

\* Mutant: only the device's own index.
activeOfDevice(d, b) == {r \in Ruling : <<d, r>> \in index /\ isActive(r)}

\* activeForDevice: what the two indexes lead to.
activeForDevice(d, b) ==
  {r \in Ruling : (<<d, r>> \in index \/ <<b, r>> \in index) /\ isActive(r)}

activeForNetwork(a) ==
  {r \in Ruling : /\ addressBan[a].by = r /\ addressBan[a].until > clock
                  /\ IsBan(r) /\ isActive(r)}

\* Rulings that were answered and stand: what ought to keep out a device, and
\* somebody with this browser or at this address.
Standing == {r \in Ruling : rulings[r].at = "done" /\ isActive(r)}
Bars(d, b) == {r \in Standing : rulings[r].device = d \/ (b # Nobody /\ rulings[r].browser = b)}
BarsAddress(a) ==
  {r \in Standing \ eclipsed : IsBan(r) /\ rulings[r].address = a /\ clock < rulings[r].made + NetworkTtl}

-----------------------------------------------------------------------------
(* Making a restriction, and lifting it.                                    *)

\* Another ruling of the device stands or is under way.
Crosses(r, d) ==
  LET others == {q \in Ruling \ {r} : rulings[q].at # "none" /\ rulings[q].device = d}
  IN  crossed' = IF \E q \in others : UnderWay(q) \/ isActive(q)
                 THEN crossed \cup {d} ELSE crossed

Ruled(r, change) == rulings' = [rulings EXCEPT ![r] = change]
RulingBegins(r) == Cardinality({q \in Ruling \ {r} : UnderWay(q)}) < MaxUnderWay
NoEntry == UNCHANGED <<browserOf, clock, linked, noted, entries, letIn>>

\* restrict: the document is made with the browser the device is linked to.  New
\* rulings differ in nothing but their names: take any.
NextRuling == CHOOSE r \in Ruling : rulings[r].at = "none"
rule(r) ==
  /\ rulings[r].at = "none" /\ r = NextRuling /\ RulingBegins(r)
  /\ \E d \in Accused, t \in Durations :
       /\ Ruled(r, [rulings[r] EXCEPT !.at = "index", !.device = d, !.browser = linked[d],
                                      !.made = clock, !.until = clock + t])
       /\ Crosses(r, d)
  /\ NoEntry /\ UNCHANGED <<index, addressBan, mark, inQueue, eclipsed>>

\* The document, which nothing leads to yet, and its indexes.
addToIndex(r) ==
  LET u == rulings[r] IN
  /\ \/ u.at = "index"
        /\ index' = index \cup {<<u.device, r>>}
        /\ Ruled(r, [u EXCEPT !.at = IF u.browser # Nobody THEN "browser" ELSE "network"])
     \/ u.at = "browser"
        /\ index' = index \cup {<<u.browser, r>>}
        /\ Ruled(r, [u EXCEPT !.at = "network"])
  /\ NoEntry /\ UNCHANGED <<addressBan, mark, inQueue, crossed, eclipsed>>

\* banNetwork: the address of the last session of the device, then its mark.
banNetwork(r) ==
  LET u == rulings[r] IN
  /\ \/ u.at = "network"
        /\ Ruled(r, IF IsBan(r) /\ noted[u.device] # Nobody
                    THEN [u EXCEPT !.at = "address", !.address = noted[u.device]]
                    ELSE [u EXCEPT !.at = "mirror"])
        /\ UNCHANGED <<addressBan, eclipsed>>
     \/ u.at = "address"
        /\ LET end == u.made + NetworkTtl
           IN  addressBan' = [addressBan EXCEPT ![u.address] =
                                [by |-> r, until |-> IF u.until < end THEN u.until ELSE end]]
        /\ eclipsed' = eclipsed \cup ({addressBan[u.address].by} \ {Nobody, r})
        /\ Ruled(r, [u EXCEPT !.at = "mirror"])
  /\ NoEntry /\ UNCHANGED <<index, mark, inQueue, crossed>>

\* restrictionApplied: the match store's ban, then the locked section.
restrictionApplied(r) ==
  LET u == rulings[r] IN
  /\ \/ u.at = "mirror"
        /\ mark' = [mark EXCEPT ![u.device] = u.until]
        /\ Ruled(r, [u EXCEPT !.at = "section"])
        /\ UNCHANGED inQueue
     \/ u.at = "section"
        /\ inQueue' = inQueue \ {u.device}
        /\ Ruled(r, [u EXCEPT !.at = "done"])
        /\ UNCHANGED mark
  /\ NoEntry /\ UNCHANGED <<index, addressBan, crossed, eclipsed>>

\* lift: a dismissed report, or an appeal that was overturned.  The ban becomes
\* what is left for the device.
lift(r) ==
  LET u == rulings[r] IN
  /\ \/ u.lift = "no" /\ u.at \in {"mirror", "section", "done"} /\ RulingBegins(r)
        /\ Ruled(r, [u EXCEPT !.lift = "read"]) /\ Crosses(r, u.device) /\ UNCHANGED mark
     \/ u.lift = "read"
        /\ LET left == {rulings[q].until : q \in activeForDevice(u.device, linked[u.device])}
           IN  Ruled(r, [u EXCEPT !.lift = "mirror", !.rest = Max(left \cup {0})])
        /\ UNCHANGED <<mark, crossed>>
     \/ u.lift = "mirror"
        /\ mark' = [mark EXCEPT ![u.device] = u.rest]
        /\ Ruled(r, [u EXCEPT !.lift = "done"]) /\ UNCHANGED crossed
  /\ NoEntry /\ UNCHANGED <<index, addressBan, inQueue, eclipsed>>

-----------------------------------------------------------------------------
(* Coming in.                                                               *)

NoRuling == UNCHANGED <<browserOf, clock, rulings, index, addressBan, mark, crossed, eclipsed>>
Goes(e, at) ==
  entries' = [entries EXCEPT ![e] = IF at = "none" THEN NoEntryYet ELSE [@ EXCEPT !.at = at]]
Slips(e, where) ==
  LET d == entries[e].who
      own == {r \in Ruling : rulings[r].device = d \/ rulings[r].browser = browserOf[d]}
  IN  letIn' = IF \E r \in entries[e].barred : isActive(r) /\ (r \in own \/ r \notin eclipsed)
                 THEN letIn \cup {where} ELSE letIn

\* POST /api/session.
requestSession(e) ==
  /\ entries[e].at = "none"
  /\ \E d \in Visitor, a \in Place :
       entries' = [entries EXCEPT ![e] = [at |-> "link", who |-> d, address |-> a,
                                          barred |-> Bars(d, browserOf[d]) \cup BarsAddress(a)]]
  /\ NoRuling /\ UNCHANGED <<linked, noted, inQueue, letIn>>

CheckSession(e) ==
  LET d == entries[e].who IN
  /\ \/ entries[e].at = "link"
        /\ linked' = [linked EXCEPT ![d] = browserOf[d]] /\ Goes(e, "device")
     \/ entries[e].at = "device"
        /\ Goes(e, IF activeForDevice(d, browserOf[d]) # {} THEN "none" ELSE "network")
        /\ UNCHANGED linked
     \/ entries[e].at = "network"
        /\ Goes(e, IF activeForNetwork(entries[e].address) # {} THEN "none" ELSE "issue")
        /\ UNCHANGED linked
  /\ NoRuling /\ UNCHANGED <<noted, inQueue, letIn>>

issue(e) ==
  /\ entries[e].at = "issue"
  /\ noted' = [noted EXCEPT ![entries[e].who] = entries[e].address]
  /\ Slips(e, "session") /\ Goes(e, "none")
  /\ NoRuling /\ UNCHANGED <<linked, inQueue>>

HasToken == {d \in Visitor : noted[d] # Nobody}

\* hello: the restrictions of the device and of the browser it is linked to, the
\* ban, then the locked section, which looks at neither again.
beginHello(e) ==
  /\ entries[e].at = "none"
  /\ \E d \in HasToken \ inQueue :
       entries' = [entries EXCEPT ![e].at = "hello", ![e].who = d, ![e].barred = Bars(d, linked[d])]
  /\ NoRuling /\ UNCHANGED <<linked, noted, inQueue, letIn>>

CheckHello(e) ==
  LET d == entries[e].who IN
  /\ \/ entries[e].at = "hello"
        /\ Goes(e, IF activeForDevice(d, linked[d]) # {} THEN "none" ELSE "ban")
     \/ entries[e].at = "ban" /\ Goes(e, IF mark[d] > clock THEN "none" ELSE "lock")
  /\ NoRuling /\ UNCHANGED <<linked, noted, inQueue, letIn>>

joinQueue(e) ==
  /\ entries[e].at = "lock"
  /\ inQueue' = inQueue \cup {entries[e].who}
  /\ Slips(e, "hello") /\ Goes(e, "none")
  /\ NoRuling /\ UNCHANGED <<linked, noted>>

\* A pass takes a session that waits out of the queue, unless its device is banned.
pass(d) ==
  /\ d \in inQueue /\ mark[d] <= clock
  /\ inQueue' = inQueue \ {d}
  /\ letIn' = IF d \notin crossed /\ \E r \in Standing : rulings[r].device = d
                THEN letIn \cup {"pass"} ELSE letIn
  /\ NoRuling /\ UNCHANGED <<linked, noted, entries>>

\* Ten minutes pass; no request takes that long.
TenMinutes ==
  /\ clock < LastTick
  /\ \A r \in Ruling : ~UnderWay(r)
  /\ \A e \in Entry : entries[e].at = "none"
  /\ clock' = clock + 1
  /\ UNCHANGED <<browserOf, rulings, index, linked, noted, addressBan, mark, entries, inQueue, crossed,
                 eclipsed, letIn>>

RestrictionsNext ==
  \/ \E r \in Ruling : \/ rule(r) \/ addToIndex(r) \/ banNetwork(r)
                       \/ restrictionApplied(r) \/ lift(r)
  \/ \E e \in Entry : \/ requestSession(e) \/ CheckSession(e) \/ issue(e)
                      \/ beginHello(e) \/ CheckHello(e) \/ joinQueue(e)
  \/ \E d \in Visitor : pass(d)
  \/ TenMinutes

RestrictionsSpec == RestrictionsInit /\ [][RestrictionsNext]_restrictionsVars

-----------------------------------------------------------------------------
(* Properties.                                                              *)

\* Once a restriction was answered, no session and no place in the queue goes to a
\* request that begins while it stands, from its device, from its browser under
\* another device id or, for NETWORK_BAN_TTL_MS after a ban, from its address
\* (SessionService.requestSession, MatchService.hello); and nobody restricted is matched,
\* whatever hello was under way.  Two promises end where the code's do: the mark
\* of an address belongs to the newest ban of that address (banNetwork), and the
\* match store's ban to the newest ruling or lift of the device (setBan).
TheRestrictedStayOut == letIn = {}

=============================================================================
