---------------------------- MODULE AttackChains ----------------------------
(***************************************************************************)
(* The attack chains of attack_graph.rs: a graph of services, CVEs, entry  *)
(* points and assets that grows with every build_from_k8s, and the chains  *)
(* from an entry to a database that its analyzer finds. Nodes are known by *)
(* the position at which they were added (petgraph's NodeIndex).           *)
(*                                                                         *)
(* A node has the id of node_id; what else is in it (image, package, CVSS) *)
(* stays what it was when the id was first added.                          *)
(***************************************************************************)
EXTENDS Integers, SequencesExt, FiniteSets

CONSTANTS
  Kind,         (* [id -> "external" "service" "cve" "database"]             *)
  Addresses,
  Named,        (* <<service, address>>: the name holds the address          *)
  Reports,      (* what build_from_k8s is called with                        *)
  Manual,       (* edges the graph's owner adds                              *)
  MaxAsked      (* bound: requests                                           *)

Ids == DOMAIN Kind
IdsOf(k) == {i \in Ids : Kind[i] = k}

LinkKinds == {"exploits", "depends", "plain", "access", "encrypted"}

Findings    == [type : {"finding"}, cve : IdsOf("cve"), service : IdsOf("service")]
Connections == [type : {"connection"}, source : Addresses, dest : Addresses, encrypted : BOOLEAN]

ASSUME ChainsAssumption ==
  /\ Named \subseteq IdsOf("service") \X Addresses
  /\ \A r \in Reports : /\ r.services \in Seq(IdsOf("service"))
                        /\ r.findings \in Seq(Findings)
                        /\ r.connections \in Seq(Connections)
  /\ Manual \subseteq [type : {"edge"}, from : Ids, to : Ids, kind : LinkKinds]
  /\ MaxAsked \in Nat

VARIABLES
  nodes,        (* ids, in the order they were added                         *)
  links,        (* edges [from, to, kind] between positions, oldest first    *)
  requested     (* history: the requests, those without effect too, in order *)

chainVars == <<nodes, links, requested>>

ChainsInit == nodes = <<>> /\ links = <<>> /\ requested = <<>>

(* node_indices: the position inserted last for an id.                       *)
Position(order, id) ==
  CHOOSE i \in DOMAIN order : order[i] = id /\ \A j \in DOMAIN order : order[j] = id => j <= i

(* Faulty: an id that is there already is added again.                       *)
WithNodeAgain(order, id) == Append(order, id)

(* add_node.                                                                 *)
WithNode(order, id) == IF id \in Range(order) THEN order ELSE Append(order, id)

(* find_service_by_ip: the first service whose name holds the address.       *)
Holders(order, a) == {i \in DOMAIN order : <<order[i], a>> \in Named}

FirstOf(S) == CHOOSE i \in S : \A j \in S : i <= j

(* add_edge, between nodes that are there.                                   *)
Joined(order, from, to, kind) ==
  IF {from, to} \subseteq Range(order)
    THEN <<[from |-> Position(order, from), to |-> Position(order, to), kind |-> kind]>>
    ELSE <<>>

(* The edge of a connection joins services; without both there is none.      *)
Connects(order, conn) ==
  LET from == Holders(order, conn.source)  to == Holders(order, conn.dest)
  IN  IF from = {} \/ to = {} THEN <<>>
      ELSE <<[from |-> FirstOf(from), to |-> FirstOf(to),
              kind |-> IF conn.encrypted THEN "encrypted" ELSE "plain"]>>

Node(id) == [type |-> "node", id |-> id]

(* The id that a request brings.                                             *)
Adds(r, id) == (r.type = "node" /\ r.id = id) \/ (r.type = "finding" /\ r.cve = id)

WithNodeOf(order, r) ==
  IF r.type = "node" THEN WithNode(order, r.id)
  ELSE IF r.type = "finding" THEN WithNode(order, r.cve) ELSE order

(* The edge of a finding goes to its service if that is known by now.        *)
EdgesOf(order, r) ==
  IF r.type = "finding" THEN Joined(order, r.cve, r.service, "exploits")
  ELSE IF r.type = "connection" THEN Connects(order, r)
  ELSE IF r.type = "edge" THEN Joined(order, r.from, r.to, r.kind) ELSE <<>>

Handled(graph, r) ==
  LET order == WithNodeOf(graph.nodes, r)
  IN  [nodes |-> order, links |-> graph.links \o EdgesOf(order, r)]

HandledAll(graph, requests) ==
  LET after[n \in 0 .. Len(requests)] ==
        IF n = 0 THEN graph ELSE Handled(after[n - 1], requests[n])
  IN  after[Len(requests)]

Ask(requests) ==
  LET graph == HandledAll([nodes |-> nodes, links |-> links], requests)
  IN  /\ Len(requested) + Len(requests) <= MaxAsked
      /\ nodes' = graph.nodes /\ links' = graph.links
      /\ requested' = requested \o requests

(* build_from_k8s: the services, then the findings, then the connections.    *)
BuildFromK8s ==
  \E r \in Reports :
    Ask([i \in DOMAIN r.services |-> Node(r.services[i])] \o r.findings \o r.connections)

(* add_node and add_edge, which the owner of the graph uses for entry        *)
(* points, assets and what leads to them.                                    *)
AddByHand == \E m \in Manual : Ask(<<Node(m.from), Node(m.to), m>>)

(* The analyzer of the next section reads.                                   *)
Analyse == UNCHANGED chainVars

ChainsNext == BuildFromK8s \/ AddByHand \/ Analyse

ChainsSpec == ChainsInit /\ [][ChainsNext]_chainVars
-----------------------------------------------------------------------------
(* The analyzer. Costs in tenths; LeadsTo, ten less ten times its            *)
(* confidence, is never added by this code.                                  *)
EdgeCost(kind) ==
  CASE kind = "exploits" -> 10 [] kind = "depends" -> 15 [] kind = "plain" -> 20
    [] kind = "access" -> 30 [] OTHER -> 50

EntryPoints    == {i \in DOMAIN nodes : Kind[nodes[i]] = "external"}
CriticalAssets == {i \in DOMAIN nodes : Kind[nodes[i]] = "database"}

Between(i, j) == {k \in DOMAIN links : links[k].from = i /\ links[k].to = j}

Steps(path) == 1 .. Len(path) - 1

(* The ways from one node to another that visit no node twice.               *)
Ways(start, goal) ==
  {p \in UNION {[1 .. n -> DOMAIN nodes] : n \in 1 .. Len(nodes)} :
     /\ p[1] = start /\ p[Len(p)] = goal /\ IsInjective(p)
     /\ \A i \in Steps(p) : Between(p[i], p[i + 1]) # {}}

LowestOf(S) == CHOOSE x \in S : \A y \in S : x <= y

StepCost(path, i) == LowestOf({EdgeCost(links[k].kind) : k \in Between(path[i], path[i + 1])})

CostOf(path) ==
  LET upto[n \in 0 .. Len(path) - 1] == IF n = 0 THEN 0 ELSE upto[n - 1] + StepCost(path, n)
  IN  upto[Len(path) - 1]

(* astar without a heuristic: one of the cheapest ways, if there is any.     *)
FindPath(start, goal) ==
  {p \in Ways(start, goal) : \A q \in Ways(start, goal) : CostOf(p) <= CostOf(q)}

(* build_chain. find_edge returns the newest of parallel edges, not the one  *)
(* that made the way cheap.                                                  *)
BuildChain(path) ==
  [ids   |-> [i \in DOMAIN path |-> nodes[path[i]]],
   edges |-> [i \in Steps(path) |->
                links[CHOOSE k \in Between(path[i], path[i + 1]) :
                        \A l \in Between(path[i], path[i + 1]) : l <= k].kind]]

(* find_attack_chains.                                                       *)
AttackChains ==
  {BuildChain(p) : p \in UNION {FindPath(e, t) : e \in EntryPoints, t \in CriticalAssets}}

CanReach(i, j) == Ways(i, j) # {}

(* find_lateral_movement: the strongly connected components of two or more.  *)
LateralMovement ==
  {zone \in {{j \in DOMAIN nodes : CanReach(i, j) /\ CanReach(j, i)} : i \in DOMAIN nodes} :
     Cardinality(zone) > 1}
-----------------------------------------------------------------------------
(* What the requests amount to, told without the graph. An id is known from *)
(* the request that brings it, and an address belongs to the first id known  *)
(* that holds it.                                                            *)
Known(past, n, id) == \E k \in 1 .. n : Adds(past[k], id)

Owns(past, n, id, address) ==
  /\ <<id, address>> \in Named
  /\ \E k \in 1 .. n :
       /\ Adds(past[k], id)
       /\ \A j \in 1 .. k - 1, x \in Ids : Adds(past[j], x) => <<x, address>> \notin Named

(* The n-th request draws an edge between ids that are known by then.        *)
Draws(past, n, a, b) ==
  LET r == past[n]
  IN  \/ r.type = "finding" /\ a = r.cve /\ b = r.service /\ Known(past, n, b)
      \/ r.type = "connection" /\ Owns(past, n, a, r.source) /\ Owns(past, n, b, r.dest)
      \/ r.type = "edge" /\ a = r.from /\ b = r.to /\ Known(past, n, a) /\ Known(past, n, b)

Seen(past) == {p \in Ids \X Ids : \E n \in 1 .. Len(past) : Draws(past, n, p[1], p[2])}

(* What was seen leads from one id to another if no set that holds all that  *)
(* follows from its members holds the one without the other.                 *)
Closed(seen, T) == \A p \in seen : p[1] \in T => p[2] \in T

Leads(seen, a, b) == \A T \in SUBSET Ids : a \in T /\ b \notin T => ~Closed(seen, T)

(* The requests decide, in the order in which they came: a finding counts if *)
(* its service was named before it, a connection if for both its addresses a *)
(* service was, the first that holds the address; one that comes before      *)
(* leaves no trace and has to be asked again. There is a chain exactly       *)
(* between an entry and a database that what counts connects, each step of   *)
(* it is one that counts, and the zones of lateral movement are the sets of  *)
(* two or more that lead to each other. (attack_graph.rs)                    *)
ChainsFollowWhatWasSeen ==
  LET seen == Seen(requested)
      chains == AttackChains
  IN  /\ {<<c.ids[1], c.ids[Len(c.ids)]>> : c \in chains} =
           {p \in IdsOf("external") \X IdsOf("database") : Leads(seen, p[1], p[2])}
      /\ \A c \in chains :
           /\ Len(c.edges) = Len(c.ids) - 1
           /\ \A i \in DOMAIN c.edges : <<c.ids[i], c.ids[i + 1]>> \in seen
      /\ {{nodes[i] : i \in zone} : zone \in LateralMovement} =
           {Z \in {{b \in Ids : Leads(seen, a, b) /\ Leads(seen, b, a)} : a \in Ids} :
              Cardinality(Z) > 1}
=============================================================================
