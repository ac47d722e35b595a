----------------------------- MODULE MCGateway -----------------------------
(* Instances of Gateway for TLC: entries, candidates and requests.         *)
EXTENDS Gateway, TLC

CONSTANTS u1, u2, t1, t2, r1, r2

OneEntryEach == t1 :> u1 @@ t2 :> u2
OneEntry     == t1 :> u1

Failover     == r1 :> <<u1, u2>>
SameUpstream == r1 :> <<u1>> @@ r2 :> <<u1>>
SamePrimary  == r1 :> <<u1, u2>> @@ r2 :> <<u1>>
=============================================================================
