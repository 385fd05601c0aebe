------------------------------- MODULE MCManager -------------------------------
(***************************************************************************)
(* An instance of Manager for TLC: the apex of a zone and a host below it, *)
(* which a zone of its own may be delegated to.                            *)
(***************************************************************************)
EXTENDS Manager, TLC

CONSTANTS p1, p2, t1, t2

TwoHosts == "dev.ex.com" :> <<"dev.ex.com", "ex.com">> @@ "ex.com" :> <<"ex.com">>
=============================================================================
