----------------------------- MODULE MCAggregator -----------------------------
(* Requests of every kind that meet in one aggregator.                       *)
EXTENDS Aggregator

Path(c, i, vs) == [cluster |-> c, id |-> i, cves |-> vs]

P1 == Path("c1", 1, {"v"})
P2 == Path("c2", 1, {"v"})
P3 == Path("c2", 2, {"v", "x"})
P4 == Path("c2", 2, {"x"})

R1 == [id |-> "r1", cve |-> "y", clusters |-> {"c1", "c2"}]

MCPaths   == {P1, P2, P3, P4}
MCReports == {R1}
MCPeers   == {"peer"}

Add(p)    == [op |-> "add", path |-> p]
Sync(p)   == [op |-> "sync", peer |-> "peer", paths |-> {p}, reports |-> {R1}]
Join      == [op |-> "register", peer |-> "peer"]
Ask(what) == [op |-> what]

MCRequests == 1 .. 4

(* Two clusters report the same CVE while clients read; a peer syncs a path  *)
(* that a cluster reports again; a peer is registered while it syncs.        *)
MCLoads ==
  {<<Add(P1), Add(P2), Ask("stats"), Ask("correlations")>>,
   <<Add(P1), Add(P2), Sync(P3), Ask("stats")>>,
   <<Add(P1), Add(P4), Sync(P3), Ask("correlations")>>,
   <<Add(P1), Sync(P3), Join, Ask("peers")>>}

(* Two reports and nothing else.                                             *)
MCTwoRequests == 1 .. 2
MCTwoLoads    == {<<Add(P1), Add(P2)>>}
=============================================================================
