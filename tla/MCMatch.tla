------------------------------ MODULE MCMatch ------------------------------
(* Small instances of Match for TLC: s3 is a second tab of s1's device.        *)
EXTENDS Match, TLC

CONSTANTS s1, s2, s3, d1, d2, i1, i2

\* Three sockets: two tabs of one device, on two replicas or on one, and a partner.
TabsDeviceOf == s1 :> d1 @@ s2 :> d2 @@ s3 :> d1
TabsHomeOf   == s1 :> i1 @@ s2 :> i2 @@ s3 :> i2
OneHome      == s1 :> i1 @@ s2 :> i1 @@ s3 :> i1

\* Two sockets, one on each replica.
PairDeviceOf == s1 :> d1 @@ s2 :> d2
PairHomeOf   == s1 :> i1 @@ s2 :> i2
PairOneHome  == s1 :> i1 @@ s2 :> i1

NoCaps   == {{}}
SomeCaps == {{}, {d2}}

RoomSymmetry == Permutations(Room)
=============================================================================
