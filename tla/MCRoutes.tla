------------------------------- MODULE MCRoutes -------------------------------
(***************************************************************************)
(* Instances of Routes for TLC.                                            *)
(***************************************************************************)
EXTENDS Routes, TLC

CONSTANTS web, old, dup, api, r1, r2, h1, h2

\* Container 1 serves r1 (web) with a timed retention and container 2 serves it too
\* (old), for ever; container 3 wants r1 as well (dup) and serves r2 (api), both of
\* which go away at once.
ThreeOwners == web :> 1 @@ old :> 2 @@ dup :> 3 @@ api :> 3
ThreeRoutes == web :> r1 @@ old :> r1 @@ dup :> r1 @@ api :> r2
ThreePolicies ==
  web :> "timed" @@ old :> "forever" @@ dup :> "immediate" @@ api :> "immediate"
TwoHosts == r1 :> h1 @@ r2 :> h2

\* Container 1 serves r1 (web) for ever; container 2 serves r1 too (old), with a
\* timed retention, and r2 (api), which goes away at once.
TwoOwners   == web :> 1 @@ old :> 2 @@ api :> 2
TwoRoutes   == web :> r1 @@ old :> r1 @@ api :> r2
TwoPolicies == web :> "forever" @@ old :> "timed" @@ api :> "immediate"

\* The two routes as paths of one host.
SharedHost == r1 :> h1 @@ r2 :> h1

\* One container that is retained as a whole.
SoleOwner  == web :> 1
SoleRoute  == web :> r1
SoleHost   == r1 :> h1
SolePolicy == web :> "timed"
=============================================================================
