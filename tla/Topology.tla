------------------------------ MODULE Topology ------------------------------
(***************************************************************************)
(* A graph descriptor from the caller's lists of nodes and edges to the    *)
(* replay of the captured graph on the CPU backend: validate_topology      *)
(* (topology.cpp), the execution order CpuBackend::capture computes, and   *)
(* CpuBackend::replay, which runs the nodes in that order.                 *)
(*                                                                         *)
(* capture_graph validates the same descriptor several times (finalize,    *)
(* capture_graph itself, CpuBackend::capture and validate); the model      *)
(* validates it once.  finalize's sort of nodes and edges by id changes    *)
(* neither the verdict nor the order and is left to Compatibility.         *)
(*                                                                         *)
(* The deque ready is the set of its members: it is filled in the          *)
(* iteration order of an unordered_map, which is left open, so that        *)
(* validation pops any member, and capture sorts it before every pop.      *)
(* A buffer holds the id of the node that last wrote it.                   *)
(***************************************************************************)
EXTENDS Naturals, Sequences, FiniteSets

CONSTANTS
  NodeLists,  \* sequences of [id, category, src, dst]: the nodes of a descriptor
  Edges,      \* records [id, from, to, kind]: the edges it may have
  MaxEdges,   \* bound on the number of its edges
  Inputs,     \* ReplayBuffers.inputs.size()
  Outputs     \* ReplayBuffers.outputs.size()

Category == {"Kernel", "MemoryCopy", "MemorySet", "HostOperation"}
Node == [id : Nat, category : Category, src : Nat, dst : Nat]

ASSUME GraphAssumption ==
  /\ NodeLists \subseteq Seq(Node)
  /\ \A e \in Edges : e.from \in Nat /\ e.to \in Nat
  /\ MaxEdges \in Nat /\ Inputs \in Nat /\ Outputs \in Nat

VARIABLES
  nodes, edges,  \* the descriptor
  pc,            \* where the call is
  result,        \* "Pending", "Ok" or the error code of the validation
  in_degree,     \* edges into a node from nodes not yet popped
  ready,         \* nodes to be popped
  order,         \* nodes popped so far, in order
  step,          \* nodes of order that replay has passed
  outputs,       \* last writer of each output buffer, 0 before the first
  replayed       \* whether replay returned ok, "Pending" until it returns

vars == <<nodes, edges, pc, result, in_degree, ready, order, step, outputs, replayed>>

Init ==
  /\ nodes \in NodeLists /\ edges = << >>
  /\ pc = "build" /\ result = "Pending"
  /\ in_degree = << >> /\ ready = {} /\ order = << >>
  /\ step = 0 /\ outputs = [b \in 0 .. Outputs - 1 |-> 0] /\ replayed = "Pending"

\* The caller lists the edges of the descriptor, then asks for a capture.
AddEdge(e) ==
  /\ pc = "build" /\ Len(edges) < MaxEdges
  /\ edges' = Append(edges, e)
  /\ UNCHANGED <<nodes, pc, result, in_degree, ready, order, step, outputs, replayed>>

Submit ==
  /\ pc = "build" /\ pc' = "check"
  /\ UNCHANGED <<nodes, edges, result, in_degree, ready, order, step, outputs, replayed>>
-----------------------------------------------------------------------------
(***************************************************************************)
(* validate_topology.                                                      *)
(***************************************************************************)
Ids == {nodes[i].id : i \in DOMAIN nodes}
DuplicateNode == \E i, j \in DOMAIN nodes : i # j /\ nodes[i].id = nodes[j].id

\* The four checks on an edge, in the code's order; the last two against earlier edges.
SelfCycle(i) == edges[i].from = edges[i].to
Dangling(i) == edges[i].from \notin Ids \/ edges[i].to \notin Ids
RepeatedId(i) == \E j \in 1 .. i - 1 : edges[j].id = edges[i].id
SamePair(i, j) == edges[i].from = edges[j].from /\ edges[i].to = edges[j].to
RepeatedPairOfKind(i) == \E j \in 1 .. i - 1 : SamePair(i, j) /\ edges[j].kind = edges[i].kind
RepeatedPair(i) == \E j \in 1 .. i - 1 : SamePair(i, j)
Faulty(i) == SelfCycle(i) \/ Dangling(i) \/ RepeatedId(i) \/ RepeatedPair(i)
Fault(i) ==
  IF SelfCycle(i) THEN "TopologySelfCycle"
  ELSE IF Dangling(i) THEN "TopologyDanglingEdge"
  ELSE IF RepeatedId(i) THEN "TopologyDuplicateId"
  ELSE IF RepeatedPairOfKind(i) THEN "TopologyDuplicateEdge" ELSE "Contradictory"

Reject(error) ==
  /\ result' = error /\ pc' = "done"
  /\ UNCHANGED <<nodes, edges, in_degree, ready, order, step, outputs, replayed>>

\* The in-degrees, and the nodes that have none: where both of Kahn's loops start.
InDegree(n) == Cardinality({i \in DOMAIN edges : edges[i].to = n})
StartKahn ==
  /\ in_degree' = [n \in Ids |-> InDegree(n)]
  /\ ready' = {n \in Ids : InDegree(n) = 0}
  /\ order' = << >>

Check ==
  /\ pc = "check"
  /\ \/ DuplicateNode /\ Reject("TopologyDuplicateId")
     \/ /\ ~DuplicateNode
        /\ \E i \in DOMAIN edges :
             Faulty(i) /\ (\A j \in 1 .. i - 1 : ~Faulty(j)) /\ Reject(Fault(i))
     \/ /\ ~DuplicateNode /\ \A i \in DOMAIN edges : ~Faulty(i)
        /\ StartKahn /\ pc' = "visit"
        /\ UNCHANGED <<nodes, edges, result, step, outputs, replayed>>

\* Both loops pop a node and push the successors it was the last to hold back.
Adj(cur) == {edges[i].to : i \in {j \in DOMAIN edges : edges[j].from = cur}}
FreedEarly(cur) == Adj(cur)
Freed(cur) == {n \in Adj(cur) : in_degree[n] = 1}
PopReversed(cur) ==
  /\ order' = <<cur>> \o order
  /\ in_degree' = [n \in Ids |-> IF n \in Adj(cur) THEN in_degree[n] - 1 ELSE in_degree[n]]
  /\ ready' = (ready \ {cur}) \cup Freed(cur)
  /\ UNCHANGED <<nodes, edges, pc, result, step, outputs, replayed>>
Pop(cur) ==
  /\ order' = Append(order, cur)
  /\ in_degree' = [n \in Ids |-> IF n \in Adj(cur) THEN in_degree[n] - 1 ELSE in_degree[n]]
  /\ ready' = (ready \ {cur}) \cup Freed(cur)
  /\ UNCHANGED <<nodes, edges, pc, result, step, outputs, replayed>>

Visit(cur) == pc = "visit" /\ cur \in ready /\ Pop(cur)

\* visited is the length of order; "Ok" is where CpuBackend::capture's own loop starts.
AllVisitedUnchecked == TRUE
AllVisited == Len(order) = Len(nodes)
Visited ==
  /\ pc = "visit" /\ ready = {}
  /\ \/ ~AllVisited /\ Reject("TopologyCycle")
     \/ /\ AllVisited /\ result' = "Ok" /\ pc' = "order"
        /\ StartKahn
        /\ UNCHANGED <<nodes, edges, step, outputs, replayed>>
-----------------------------------------------------------------------------
(***************************************************************************)
(* CpuBackend::capture and replay.                                         *)
(***************************************************************************)
LeastReadyUnsorted(cur) == cur \in ready
LeastReady(cur) == cur \in ready /\ \A n \in ready : cur <= n
Order(cur) == pc = "order" /\ LeastReady(cur) /\ Pop(cur)

Captured ==
  /\ pc = "order" /\ ready = {}
  /\ pc' = "replay"
  /\ UNCHANGED <<nodes, edges, result, in_degree, ready, order, step, outputs, replayed>>

NodeOf(id) == nodes[CHOOSE i \in DOMAIN nodes : nodes[i].id = id]
Writes(n) == n.category \in {"Kernel", "MemoryCopy", "MemorySet"}
Reads(n) == n.category \in {"Kernel", "MemoryCopy"}
OutOfRange(n) == (Reads(n) /\ n.src >= Inputs) \/ (Writes(n) /\ n.dst >= Outputs)

\* One node of the loop: a buffer index out of range ends the replay where it is, with
\* what earlier nodes wrote left in the buffers.
ReplayNode ==
  /\ pc = "replay" /\ step < Len(order)
  /\ LET n == NodeOf(order[step + 1]) IN
     \/ /\ OutOfRange(n)
        /\ replayed' = "Failed" /\ pc' = "done" /\ UNCHANGED <<step, outputs>>
     \/ /\ ~OutOfRange(n)
        /\ outputs' = IF Writes(n) THEN [outputs EXCEPT ![n.dst] = n.id] ELSE outputs
        /\ step' = step + 1 /\ UNCHANGED <<replayed, pc>>
  /\ UNCHANGED <<nodes, edges, result, in_degree, ready, order>>

Replayed ==
  /\ pc = "replay" /\ step = Len(order)
  /\ replayed' = "Ok" /\ pc' = "done"
  /\ UNCHANGED <<nodes, edges, result, in_degree, ready, order, step, outputs>>

Next ==
  \/ \E e \in Edges : AddEdge(e)
  \/ Submit \/ Check \/ Visited \/ Captured \/ ReplayNode \/ Replayed
  \/ \E cur \in ready : Visit(cur) \/ Order(cur)

Spec == Init /\ [][Next]_vars
-----------------------------------------------------------------------------
(***************************************************************************)
(* Properties.                                                             *)
(***************************************************************************)
\* The shape of the state; in particular no in-degree of either loop goes below zero.
TTypeOK ==
  /\ nodes \in NodeLists /\ edges \in Seq(Edges)
  /\ pc \in {"build", "check", "visit", "order", "replay", "done"}
  /\ result \in {"Pending", "Ok", "TopologyDuplicateId", "TopologySelfCycle", "TopologyDanglingEdge",
                 "TopologyDuplicateEdge", "Contradictory", "TopologyCycle"}
  /\ ready \subseteq Ids /\ order \in Seq(Ids)
  /\ pc \in {"visit", "order", "replay"} => in_degree \in [Ids -> Nat]
  /\ step \in 0 .. Len(order)
  /\ DOMAIN outputs = 0 .. Outputs - 1 /\ \A b \in DOMAIN outputs : outputs[b] \in Ids \cup {0}
  /\ replayed \in {"Pending", "Ok", "Failed"}

\* What docs/topology.md lists: unique ids, at most one edge from one node to another,
\* no edge to itself or out of the graph, no cycle.  A finite graph has a cycle when some
\* of its nodes all have a predecessor among themselves.
WellFormed ==
  /\ ~DuplicateNode
  /\ \A i \in DOMAIN edges : edges[i].from # edges[i].to /\ {edges[i].from, edges[i].to} \subseteq Ids
  /\ \A i, j \in DOMAIN edges : i # j => edges[i].id # edges[j].id /\ ~SamePair(i, j)
Cyclic(S) == S # {} /\ \A n \in S : \E i \in DOMAIN edges : edges[i].to = n /\ edges[i].from \in S
Acyclic == \A S \in SUBSET Ids : ~Cyclic(S)

\* validate_topology returns success exactly for the well-formed acyclic graphs, in
\* whatever order it lists and visits them.
VerdictCorrect == result # "Pending" => (result = "Ok" <=> WellFormed /\ Acyclic)

\* An order of all the nodes that puts every node after the ones it depends on.
Respects(s) ==
  \A i \in DOMAIN edges : \E j, k \in DOMAIN s :
    j < k /\ s[j] = edges[i].from /\ s[k] = edges[i].to
TopologicalOrders ==
  {s \in [1 .. Len(nodes) -> Ids] : (\A i, j \in DOMAIN s : i # j => s[i] # s[j]) /\ Respects(s)}

\* CpuBackend::capture's order runs every node after the nodes it depends on.
OrderRespectsEdges == pc = "replay" => Respects(order)

\* ... and it is one order per graph, the least by node id, however the graph was listed
\* and whatever order the hash maps iterate in: two captures replay alike.
OrderIsLeast ==
  pc = "replay" =>
    /\ order \in TopologicalOrders
    /\ \A s \in TopologicalOrders \ {order} :
         \E k \in DOMAIN order : order[k] < s[k] /\ \A j \in 1 .. k - 1 : order[j] = s[j]

\* Of two writers of a buffer, one depending on the other through any number of edges,
\* a completed replay leaves what the dependent one wrote.
Closed(S) == \A i \in DOMAIN edges : edges[i].from \in S => edges[i].to \in S
Reachable(m, n) == m # n /\ \A S \in SUBSET Ids : m \in S /\ Closed(S) => n \in S
DependentWriteWins ==
  replayed = "Ok" =>
    \A m, n \in Ids :
      /\ Reachable(m, n) /\ Writes(NodeOf(m)) /\ Writes(NodeOf(n)) /\ NodeOf(m).dst = NodeOf(n).dst
      => outputs[NodeOf(n).dst] # m
=============================================================================
