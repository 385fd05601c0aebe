------------------------------- MODULE MCLabels -------------------------------
(***************************************************************************)
(* Instances of Labels for TLC: label sets that meet each class of values  *)
(* the parser tells apart, alone and in pairs.                             *)
(***************************************************************************)
EXTENDS Labels, TLC

\* "A" is the host name "a" with capitals.
MCLower == "a" :> "a" @@ "A" :> "a" @@ "b" :> "b"
MCNets  == <<"backend", "bridge">>

Unset   == [kind |-> None, n |-> 0]
Days(n) == [kind |-> "days", n |-> n]
Time(n) == [kind |-> "duration", n |-> n]
Says(k) == [kind |-> k, n |-> 0]

Plain == [host |-> "a", path |-> NoPath, service |-> None, port |-> "ok", network |-> None,
          team |-> {}, delete_retention |-> Unset, retention |-> Unset]

MCServices ==
  {Plain,
   [Plain EXCEPT !.host = "A", !.path = "/x", !.retention = Days(0), !.service = "bad"],
   [Plain EXCEPT !.host = "b", !.team = {"red", "blue"}, !.retention = Days(2)],
   [Plain EXCEPT !.host = NoHost, !.delete_retention = Says("forever")],
   [Plain EXCEPT !.host = Bad, !.port = None],
   [Plain EXCEPT !.service = "ok", !.delete_retention = Says("invalid"), !.retention = Says("forever")],
   [Plain EXCEPT !.host = "b", !.port = "range", !.network = "backend"],
   [Plain EXCEPT !.path = "/y", !.delete_retention = Time(16), !.retention = Time(4)],
   [Plain EXCEPT !.host = "b", !.port = "bad", !.network = "host", !.delete_retention = Days(9)]}

Clause(m, args)   == [matcher |-> m, quoted |-> TRUE, args |-> args]
Unquoted(m, args) == [matcher |-> m, quoted |-> FALSE, args |-> args]

Web == [kind |-> "http", ops |-> FALSE, clauses |-> <<Clause("Host", {"A"})>>,
        middlewares |-> FALSE, server |-> "ok"]

MCRouters ==
  {Web,
   [Web EXCEPT !.clauses = <<Clause("Host", {"a", "b"}), Clause("Path", {"/x"})>>, !.server = "bad"],
   [Web EXCEPT !.clauses = <<Clause("Host", {"b"}), Clause("Path", {"/x", "/y"}), Clause("Path", {"/y"})>>],
   [Web EXCEPT !.clauses = <<Clause("Host", {"a"}), Unquoted("Path", {"/x"})>>],
   [Web EXCEPT !.ops = TRUE],
   [Web EXCEPT !.clauses = <<Clause("Host", {"b"}), Clause("other", {"/x"})>>],
   [Web EXCEPT !.clauses = <<Clause("Path", {"/x"})>>],
   [Web EXCEPT !.clauses = <<Unquoted("Host", {"a"})>>],
   [Web EXCEPT !.middlewares = TRUE],
   [Web EXCEPT !.server = "missing"],
   [Web EXCEPT !.kind = "tcp"],
   [Web EXCEPT !.kind = "tcp", !.clauses = <<Clause("HostSNI", {"a"})>>, !.middlewares = TRUE],
   [Web EXCEPT !.kind = "tcp", !.clauses = <<Clause("HostSNI", {"b", Bad})>>, !.server = "range"]}

MCGlobals == {[delete_retention |-> Unset, retention |-> Says("forever")],
              [delete_retention |-> Days(1), retention |-> Unset]}

MCContainers ==
  {[hostmode |-> FALSE, ip |-> "backend" :> NoIP @@ "bridge" :> "10.0.0.1", network |-> "backend"],
   [hostmode |-> FALSE, ip |-> "backend" :> Absent @@ "bridge" :> NoIP, network |-> None]}

MCOthers == {[running |-> {}, later |-> {}],
             [running |-> {<<"a", "/x">>}, later |-> {<<"b", NoPath>>}]}
=============================================================================
