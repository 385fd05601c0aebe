------------------------------ MODULE MCDnsSync ------------------------------
(***************************************************************************)
(* Instances of DnsSync for TLC.                                           *)
(***************************************************************************)
EXTENDS DnsSync, TLC

CONSTANTS h1, h2, z1, z2, t1, t2

\* Two hosts in two zones: one zone can fail while the other is served.
TwoZones == h1 :> z1 @@ h2 :> z2

\* Two hosts in one zone: their operations are split into batches.
SharedZone == h1 :> z1 @@ h2 :> z1

\* One host.
SoleZone == h1 :> z1

\* Hosts of one zone are interchangeable.
SameZone == Permutations({h1, h2})

One(t) == [tgt |-> t, form |-> "canon"]

\* Users write a foreign record, or one for the tunnel.
UserBasic == {One(t1), One(Foreign)}

\* Users write only foreign records.
UserForeign == {One(Foreign)}

\* Users write a foreign record, or any spelling of one for the first tunnel.
UserForms ==
  {One(t1), One(Foreign)} \cup [tgt : {t1}, form : {"dot", "case"}]

=============================================================================
