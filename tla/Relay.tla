------------------------------- MODULE Relay -------------------------------
(***************************************************************************)
(* Issuing TURN credentials for a call (turn/TurnService.ts, store.ts).     *)
(* Requests of one device share the one in flight on their replica; across  *)
(* replicas only the store's counters hold them to the hourly caps, per     *)
(* device and per address.  The counters are fixed windows: each hit counts *)
(* in the hour it is made.                                                  *)
(***************************************************************************)
EXTENDS Integers, FiniteSetsExt

CONSTANTS
  Device,
  Asking,           \* pairs of a replica and a device that asks there
  AddressOf,        \* the address bound to the device at hello, or NoAddress
  NoAddress,
  PerDevice,        \* turnMaxPerDeviceHour
  PerAddress,       \* turnMaxPerIpHour
  MaxHours,         \* bound: hours of one behaviour
  MaxHits           \* bound: requests of a device counted in one hour

ASSUME RelayAssumption ==
  /\ \A q \in Asking : q[2] \in Device
  /\ {PerDevice, PerAddress, MaxHours, MaxHits} \subseteq Nat

Address == {AddressOf[d] : d \in Device} \ {NoAddress}

VARIABLES
  cache,        \* devices with a cached set
  deviceHits, addressHits,      \* the counters of this hour
  inflight,     \* the request of each replica and device
  issued,       \* history: sets made for a request whose device was counted in this hour
  charged,      \* history: the same for its address
  hour

relayVars == <<cache, deviceHits, addressHits, inflight, issued, charged, hour>>
History == <<issued, charged, hour>>

NoRequest == [at |-> "none", device |-> 0, address |-> 0, old |-> {}]

RelayTypeOK ==
  /\ cache \subseteq Device /\ hour \in Nat
  /\ deviceHits \in [Device -> Nat] /\ addressHits \in [Address -> Nat]
  /\ inflight \in [Asking -> [at : {"none", "countDevice", "countAddress", "generate"},
                                        device : Nat, address : Nat, old : SUBSET {"device", "address"}]]
  /\ issued \in [Device -> Nat] /\ charged \in [Address -> Nat]

RelayInit ==
  /\ cache = {}
  /\ deviceHits = [d \in Device |-> 0] /\ addressHits = [a \in Address |-> 0]
  /\ inflight = [q \in Asking |-> NoRequest]
  /\ issued = [d \in Device |-> 0] /\ charged = [a \in Address |-> 0]
  /\ hour = 0

Answer(q) == inflight' = [inflight EXCEPT ![q] = NoRequest]

\* relayServers, issue.  A device with a request in flight on this replica, a cached
\* set or no address, or with turn_enabled off, is answered without a new set.
relayServers(q) ==
  /\ inflight[q].at = "none" /\ q[2] \notin cache
  /\ AddressOf[q[2]] # NoAddress
  /\ inflight' = [inflight EXCEPT ![q].at = "countDevice"]
  /\ UNCHANGED <<cache, deviceHits, addressHits, History>>

hitDevice(q) ==
  /\ inflight[q].at = "countDevice" /\ deviceHits[q[2]] < MaxHits
  /\ deviceHits' = [deviceHits EXCEPT ![q[2]] = @ + 1]
  /\ inflight' = [inflight EXCEPT ![q].at = "countAddress", ![q].device = deviceHits'[q[2]]]
  /\ UNCHANGED <<cache, addressHits, History>>

\* Mutant.
BothOver(device, address) == device > PerDevice /\ address > PerAddress

Over(device, address) == device > PerDevice \/ address > PerAddress

hitAddress(q) ==
  LET a == AddressOf[q[2]] IN
  /\ inflight[q].at = "countAddress"
  /\ addressHits' = [addressHits EXCEPT ![a] = @ + 1]
  /\ IF Over(inflight[q].device, addressHits'[a]) THEN Answer(q)
     ELSE inflight' = [inflight EXCEPT ![q].at = "generate", ![q].address = addressHits'[a]]
  /\ UNCHANGED <<cache, deviceHits, History>>

\* The provider answers: the set is cached for turnCacheSeconds.
generate(q) ==
  LET d == q[2]
      a == AddressOf[d]
  IN
  /\ inflight[q].at = "generate"
  /\ cache' = cache \cup {d}
  /\ issued' = IF "device" \in inflight[q].old THEN issued ELSE [issued EXCEPT ![d] = @ + 1]
  /\ charged' = IF "address" \in inflight[q].old THEN charged ELSE [charged EXCEPT ![a] = @ + 1]
  /\ Answer(q)
  /\ UNCHANGED <<deviceHits, addressHits, hour>>

\* A store or provider error: STUN only.  What was counted stays counted.
IssueFails(q) ==
  /\ inflight[q].at # "none"
  /\ Answer(q)
  /\ UNCHANGED <<cache, deviceHits, addressHits, History>>

CacheExpires(d) ==
  /\ d \in cache /\ cache' = cache \ {d}
  /\ UNCHANGED <<deviceHits, addressHits, inflight, History>>

\* The windows end: new counters.  A request remembers what it has been counted in.
NextHour ==
  /\ hour < MaxHours /\ hour' = hour + 1
  /\ deviceHits' = [d \in Device |-> 0] /\ addressHits' = [a \in Address |-> 0]
  /\ issued' = [d \in Device |-> 0] /\ charged' = [a \in Address |-> 0]
  /\ inflight' = [q \in Asking |->
       [inflight[q] EXCEPT !.old = IF inflight[q].at = "generate" THEN {"device", "address"}
                                   ELSE IF inflight[q].at = "countAddress" THEN {"device"} ELSE @]]
  /\ UNCHANGED cache

RelayNext ==
  \/ NextHour
  \/ \E q \in Asking : relayServers(q) \/ hitDevice(q) \/ hitAddress(q) \/ generate(q) \/ IssueFails(q)
  \/ \E d \in Device : CacheExpires(d)

RelaySpec == RelayInit /\ [][RelayNext]_relayVars

-----------------------------------------------------------------------------
(* Properties.                                                              *)

\* However many replicas ask at once and wherever the hour ends, no window pays
\* for more credential sets of a device, or of an address, than its cap (issue).
CredentialsAreCapped ==
  /\ \A d \in Device : issued[d] <= PerDevice
  /\ \A a \in Address : charged[a] <= PerAddress
=============================================================================
