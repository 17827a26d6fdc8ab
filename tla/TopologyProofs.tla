--------------------------- MODULE TopologyProofs ---------------------------
(***************************************************************************)
(* validate_topology's verdict and CpuBackend::capture's order, for every  *)
(* graph: all lists of nodes and edges, of any length.                     *)
(*                                                                         *)
(* Both loops are Kahn's.  The invariant of a loop, Kahn, says what the    *)
(* counters count (the edges from nodes not popped yet), that ready holds  *)
(* exactly the nodes no such edge holds back, that every popped node was   *)
(* popped after its predecessors, and that no popped node is on a cycle.   *)
(* A loop that ends with nodes left has found a cycle: each of them has a  *)
(* predecessor among them.  One that pops them all has found an order.     *)
(***************************************************************************)
EXTENDS Topology, FiniteSetTheorems, TLAPS

Popped == {order[k] : k \in DOMAIN order}
Held(n) == {i \in DOMAIN edges : edges[i].to = n /\ edges[i].from \notin Popped}

Degrees == in_degree \in [Ids -> Nat] /\ \A n \in Ids : in_degree[n] = Cardinality(Held(n))
ReadyFree == ready = {n \in Ids \ Popped : in_degree[n] = 0}
Injective == \A j, k \in DOMAIN order : j # k => order[j] # order[k]
Ordered ==
  \A k \in DOMAIN order, i \in DOMAIN edges :
    edges[i].to = order[k] => \E j \in 1 .. k - 1 : order[j] = edges[i].from
NotCyclic == \A S \in SUBSET Ids : Cyclic(S) => S \cap Popped = {}
Kahn == Degrees /\ ReadyFree /\ Injective /\ Ordered /\ NotCyclic

\* The inductive invariant.
Progress ==
  /\ pc \in {"build", "check", "visit"} => result = "Pending"
  /\ pc \in {"order", "replay"} => result = "Ok"
  /\ pc \in {"build", "check", "visit", "order"} => step = 0
KahnInv == pc \in {"visit", "order"} => WellFormed /\ Kahn
TInv == TTypeOK /\ Progress /\ KahnInv /\ VerdictCorrect /\ OrderRespectsEdges
-----------------------------------------------------------------------------
(***************************************************************************)
(* Lists and counts.                                                       *)
(***************************************************************************)
\* The edges of a list that have some property are finite in number (what in_degree
\* counts).
LEMMA EdgesFinite ==
  ASSUME edges \in Seq(Edges), NEW T \in SUBSET DOMAIN edges
  PROVE  IsFiniteSet(T) /\ Cardinality(T) \in Nat
<1>1. DOMAIN edges = 1 .. Len(edges) /\ Len(edges) \in Nat
  OBVIOUS
<1>2. IsFiniteSet(DOMAIN edges)
  BY <1>1, FS_Interval
<1> QED
  BY <1>2, FS_Subset, FS_CardinalityType

\* A list without repetitions has as many members as entries.
LEMMA DistinctCount ==
  ASSUME NEW S, NEW s \in Seq(S), \A j, k \in DOMAIN s : j # k => s[j] # s[k]
  PROVE  LET T == {s[k] : k \in DOMAIN s} IN IsFiniteSet(T) /\ Cardinality(T) = Len(s)
<1> DEFINE T == {s[k] : k \in DOMAIN s}
<1>1. DOMAIN s = 1 .. Len(s) /\ Len(s) \in Nat
  OBVIOUS
<1>2. s \in Bijection(1 .. Len(s), T)
  <2>1. s \in [1 .. Len(s) -> T]
    BY <1>1
  <2>2. \A t \in T : \E k \in 1 .. Len(s) : s[k] = t
    BY <1>1
  <2>3. \A j, k \in 1 .. Len(s) : s[j] = s[k] => j = k
    BY <1>1
  <2> HIDE DEF T
  <2> QED
    BY <2>1, <2>2, <2>3 DEF Bijection, Injection, Surjection, IsInjective
<1>3. ExistsBijection(1 .. Len(s), T)
  BY <1>2 DEF ExistsBijection
<1>4. ASSUME NEW n \in Nat PROVE IsFiniteSet(1 .. n) /\ Cardinality(1 .. n) = n
  <2>1. IsFiniteSet(1 .. n) /\ Cardinality(1 .. n) = IF 1 > n THEN 0 ELSE n - 1 + 1
    BY ONLY n \in Nat, FS_Interval
  <2> QED BY ONLY n \in Nat, <2>1
<1> QED
  BY <1>1, <1>3, <1>4, FS_Bijection

\* Without a repeated id, a loop that popped Len(nodes) nodes has popped them all, which
\* is what comparing visited with nodes.size() tests.
LEMMA AllPopped ==
  ASSUME TTypeOK, WellFormed, Injective
  PROVE  AllVisited <=> Popped = Ids
<1> DEFINE ids == [i \in DOMAIN nodes |-> nodes[i].id]
<1>1. nodes \in Seq(Node) /\ order \in Seq(Ids)
  BY GraphAssumption DEF TTypeOK
<1>2. ids \in Seq(Ids) /\ Len(ids) = Len(nodes) /\ DOMAIN ids = DOMAIN nodes
  BY <1>1 DEF Ids
<1>3. \A j, k \in DOMAIN ids : j # k => ids[j] # ids[k]
  BY DEF WellFormed, DuplicateNode
<1>4. Ids = {ids[k] : k \in DOMAIN ids}
  BY DEF Ids
<1> HIDE DEF ids
<1>5. IsFiniteSet(Ids) /\ Cardinality(Ids) = Len(nodes)
  BY <1>2, <1>3, <1>4, DistinctCount
<1>6. IsFiniteSet(Popped) /\ Cardinality(Popped) = Len(order)
  BY <1>1, DistinctCount DEF Injective, Popped
<1>7. Popped \in SUBSET Ids
  BY <1>1 DEF Popped
<1> QED
  BY <1>5, <1>6, <1>7, FS_Subset DEF AllVisited
-----------------------------------------------------------------------------
(***************************************************************************)
(* Kahn's loop.                                                            *)
(***************************************************************************)
\* The checks that precede the loops are the definition of a well-formed graph.
LEMMA ChecksWellFormed ==
  ASSUME edges \in Seq(Edges)
  PROVE  WellFormed <=> ~DuplicateNode /\ \A i \in DOMAIN edges : ~Faulty(i)
<1>1. DOMAIN edges = 1 .. Len(edges) /\ Len(edges) \in Nat
  OBVIOUS
<1>2. ASSUME NEW i \in DOMAIN edges, WellFormed PROVE ~Faulty(i)
  BY <1>1, <1>2 DEF WellFormed, Faulty, SelfCycle, Dangling, RepeatedId, RepeatedPair
<1>3. ASSUME \A i \in DOMAIN edges : ~Faulty(i), NEW i \in DOMAIN edges, NEW j \in DOMAIN edges, i # j
      PROVE  edges[i].id # edges[j].id /\ ~SamePair(i, j)
  <2>1. CASE i < j
    <3>1. ~Faulty(j) /\ i \in 1 .. j - 1
      BY <1>1, <1>3, <2>1
    <3> QED BY <3>1 DEF Faulty, RepeatedId, RepeatedPair, SamePair
  <2>2. CASE j < i
    <3>1. ~Faulty(i) /\ j \in 1 .. i - 1
      BY <1>1, <1>3, <2>2
    <3> QED BY <3>1 DEF Faulty, RepeatedId, RepeatedPair, SamePair
  <2> QED BY <1>1, <1>3, <2>1, <2>2
<1> QED
  BY <1>2, <1>3 DEF WellFormed, Faulty, SelfCycle, Dangling

\* The graph is the same in both states of a step that changes neither list.
LEMMA SameGraph ==
  ASSUME UNCHANGED <<nodes, edges>>
  PROVE  /\ Ids' = Ids /\ WellFormed' = WellFormed /\ Acyclic' = Acyclic
         /\ \A S : Cyclic(S)' = Cyclic(S)
BY DEF Ids, WellFormed, Acyclic, Cyclic, DuplicateNode, SamePair

\* Both loops start with the invariant.
LEMMA StartsKahn ==
  ASSUME TTypeOK, UNCHANGED <<nodes, edges>>, StartKahn
  PROVE  Kahn' /\ ready' \subseteq Ids
<1>1. edges \in Seq(Edges)
  BY DEF TTypeOK
<1>2. Ids' = Ids
  BY SameGraph
<1>3. DOMAIN order' = {} /\ Popped' = {}
  BY DEF StartKahn, Popped
<1>4. \A n : Held(n)' = {i \in DOMAIN edges : edges[i].to = n}
  BY <1>3 DEF Held
<1>5. \A n \in Ids : InDegree(n) \in Nat
  BY <1>1, EdgesFinite DEF InDegree
<1>6. Degrees'
  BY <1>2, <1>4, <1>5 DEF Degrees, StartKahn, InDegree
<1>7. ReadyFree'
  BY <1>2, <1>3 DEF ReadyFree, StartKahn
<1>8. Injective' /\ Ordered' /\ NotCyclic'
  BY <1>3 DEF Injective, Ordered, NotCyclic
<1> QED
  BY <1>6, <1>7, <1>8 DEF Kahn, StartKahn

\* A pop of either loop keeps it.  The edges that held a successor back lose the one
\* from the popped node, of which there is at most one since the pairs are distinct.
LEMMA PopKahn ==
  ASSUME TTypeOK, WellFormed, Kahn, NEW cur \in ready, Pop(cur)
  PROVE  Kahn' /\ ready' \subseteq Ids /\ order' \in Seq(Ids)
<1>1. edges \in Seq(Edges) /\ order \in Seq(Ids) /\ DOMAIN order = 1 .. Len(order) /\ Len(order) \in Nat
  BY DEF TTypeOK
<1>2. Ids' = Ids /\ (\A S : Cyclic(S)' = Cyclic(S)) /\ edges' = edges
  BY SameGraph DEF Pop
<1>3. cur \in Ids /\ cur \notin Popped /\ in_degree[cur] = 0
  BY DEF Kahn, ReadyFree
<1>4. /\ order' = Append(order, cur) /\ DOMAIN order' = 1 .. Len(order) + 1
      /\ order'[Len(order) + 1] = cur /\ \A k \in 1 .. Len(order) : order'[k] = order[k]
  BY <1>1, <1>3 DEF Pop
<1>5. Popped' = Popped \cup {cur}
  BY <1>1, <1>4 DEF Popped
<1>6. \A i \in DOMAIN edges : edges[i].to = cur => edges[i].from \in Popped
  <2>1. Cardinality(Held(cur)) = 0
    BY <1>3 DEF Kahn, Degrees
  <2>2. IsFiniteSet(Held(cur))
    BY <1>1, EdgesFinite DEF Held
  <2>3. Held(cur) = {}
    BY <2>1, <2>2, FS_EmptySet
  <2> QED BY <2>3 DEF Held
<1>7. \A n \in Ids : /\ n \in Adj(cur) => Cardinality(Held(n)') = Cardinality(Held(n)) - 1
                     /\ n \in Adj(cur) => Cardinality(Held(n)) # 0
                     /\ n \notin Adj(cur) => Held(n)' = Held(n)
  <2> SUFFICES ASSUME NEW n \in Ids
               PROVE  /\ n \in Adj(cur) => Cardinality(Held(n)') = Cardinality(Held(n)) - 1
                      /\ n \in Adj(cur) => Cardinality(Held(n)) # 0
                      /\ n \notin Adj(cur) => Held(n)' = Held(n)
    OBVIOUS
  <2>1. IsFiniteSet(Held(n)) /\ Cardinality(Held(n)) \in Nat
    BY <1>1, EdgesFinite DEF Held
  <2>2. ASSUME n \in Adj(cur)
        PROVE  Cardinality(Held(n)') = Cardinality(Held(n)) - 1 /\ Cardinality(Held(n)) # 0
    <3>1. PICK i \in DOMAIN edges : edges[i].from = cur /\ edges[i].to = n
      BY <2>2 DEF Adj
    <3>2. i \in Held(n)
      BY <1>3, <3>1 DEF Held
    <3>3. \A j \in DOMAIN edges : edges[j].from = cur /\ edges[j].to = n => j = i
      BY <3>1 DEF WellFormed, SamePair
    <3>4. Held(n)' = Held(n) \ {i}
      BY <1>2, <1>5, <3>1, <3>3 DEF Held
    <3>5. Cardinality(Held(n) \ {i}) = Cardinality(Held(n)) - 1
      BY <2>1, <3>2, FS_RemoveElement
    <3>6. Cardinality(Held(n)) # 0
      BY <2>1, <3>2, FS_EmptySet
    <3> QED BY ONLY <3>4, <3>5, <3>6
  <2>3. ASSUME n \notin Adj(cur) PROVE Held(n)' = Held(n)
    BY <1>2, <1>5, <2>3 DEF Held, Adj
  <2> QED BY <2>2, <2>3
<1>8. in_degree \in [Ids -> Nat] /\ \A n \in Ids : in_degree[n] = Cardinality(Held(n))
  BY DEF Kahn, Degrees
<1>9. \A n \in Ids : in_degree'[n] = IF n \in Adj(cur) THEN in_degree[n] - 1 ELSE in_degree[n]
  BY DEF Pop
<1>10. \A n \in Ids : in_degree'[n] \in Nat /\ in_degree'[n] = Cardinality(Held(n)')
  BY <1>7, <1>8, <1>9
<1>11. Degrees'
  <2>1. in_degree' \in [Ids -> Nat]
    BY <1>10 DEF Pop
  <2> QED BY <1>2, <1>10, <2>1 DEF Degrees
<1>12. ready' = {n \in Ids \ Popped' : in_degree'[n] = 0}
  <2>1. \A n \in Adj(cur) : n \in Ids /\ n \notin Popped
    <3> SUFFICES ASSUME NEW i \in DOMAIN edges, edges[i].from = cur
                 PROVE  edges[i].to \in Ids /\ edges[i].to \notin Popped
      BY DEF Adj
    <3>1. edges[i].to \in Ids
      BY DEF WellFormed
    <3>2. ASSUME edges[i].to \in Popped PROVE cur \in Popped
      <4>1. PICK k \in DOMAIN order : edges[i].to = order[k]
        BY <3>2 DEF Popped
      <4>2. PICK j \in 1 .. k - 1 : order[j] = cur
        BY <4>1 DEF Kahn, Ordered
      <4> QED BY <1>1, <4>2 DEF Popped
    <3> QED BY <1>3, <3>1, <3>2
  <2>2. cur \notin Adj(cur)
    BY DEF Adj, WellFormed
  <2>3. \A n \in Adj(cur) : in_degree[n] # 0
    BY <1>7, <1>8, <2>1
  <2>4. \A n : n \in ready <=> n \in Ids /\ n \notin Popped /\ in_degree[n] = 0
    BY DEF Kahn, ReadyFree
  <2>5. \A n : n \in ready' <=> (n \in ready /\ n # cur) \/ (n \in Adj(cur) /\ in_degree[n] = 1)
    BY DEF Pop, Freed
  <2>6. ASSUME NEW n PROVE n \in ready' <=> n \in Ids /\ n \notin Popped' /\ in_degree'[n] = 0
    <3>1. CASE n \in Adj(cur)
      BY <1>5, <1>8, <1>9, <2>1, <2>2, <2>3, <2>4, <2>5, <3>1
    <3>2. CASE n \notin Adj(cur)
      BY <1>5, <1>9, <2>4, <2>5, <3>2
    <3> QED BY <3>1, <3>2
  <2> QED BY <2>6
<1>13. ReadyFree'
  BY <1>2, <1>12 DEF ReadyFree
<1>14. Injective'
  BY <1>1, <1>3, <1>4 DEF Kahn, Injective, Popped
<1>15. Ordered'
  <2> SUFFICES ASSUME NEW k \in 1 .. Len(order) + 1, NEW i \in DOMAIN edges, edges[i].to = order'[k]
               PROVE  \E j \in 1 .. k - 1 : order'[j] = edges[i].from
    BY <1>2, <1>4 DEF Ordered
  <2>1. CASE k = Len(order) + 1
    BY <1>1, <1>4, <1>6, <2>1 DEF Popped
  <2>2. CASE k \in 1 .. Len(order)
    <3>1. PICK j \in 1 .. k - 1 : order[j] = edges[i].from
      BY <1>1, <1>4, <2>2 DEF Kahn, Ordered
    <3> QED BY <1>1, <1>4, <2>2, <3>1
  <2> QED BY <1>1, <2>1, <2>2
<1>16. NotCyclic'
  <2> SUFFICES ASSUME NEW S \in SUBSET Ids, Cyclic(S) PROVE S \cap Popped' = {}
    BY <1>2 DEF NotCyclic
  <2>1. S \cap Popped = {}
    BY DEF Kahn, NotCyclic
  <2>2. cur \notin S
    BY <1>6, <2>1 DEF Cyclic
  <2> QED BY <1>5, <2>1, <2>2
<1> QED
  BY <1>1, <1>2, <1>3, <1>4, <1>11, <1>12, <1>13, <1>14, <1>15, <1>16 DEF Kahn

\* A loop with nothing left to pop has popped all the nodes exactly if there is no cycle.
LEMMA KahnEnds ==
  ASSUME TTypeOK, WellFormed, Kahn, ready = {}
  PROVE  Acyclic <=> Popped = Ids
<1>1. edges \in Seq(Edges) /\ Popped \subseteq Ids
  BY DEF TTypeOK, Popped
<1>2. ASSUME Popped = Ids PROVE Acyclic
  BY <1>2 DEF Acyclic, Cyclic, Kahn, NotCyclic
<1>3. ASSUME Popped # Ids PROVE Cyclic(Ids \ Popped)
  <2> SUFFICES ASSUME NEW n \in Ids \ Popped
               PROVE  \E i \in DOMAIN edges : edges[i].to = n /\ edges[i].from \in Ids \ Popped
    BY <1>1, <1>3 DEF Cyclic
  <2>1. Cardinality(Held(n)) # 0
    BY DEF Kahn, ReadyFree, Degrees
  <2>2. Held(n) # {}
    BY <2>1, FS_EmptySet
  <2>3. PICK i \in DOMAIN edges : edges[i].to = n /\ edges[i].from \notin Popped
    BY <2>2 DEF Held
  <2> QED BY <2>3 DEF WellFormed
<1> QED
  BY <1>2, <1>3 DEF Acyclic
-----------------------------------------------------------------------------
(***************************************************************************)
(* The steps.                                                              *)
(***************************************************************************)
\* What CpuBackend::replay looks up by id is the node of that id.
LEMMA NodeOfId ==
  ASSUME nodes \in Seq(Node), NEW id \in Ids
  PROVE  NodeOf(id) \in Node /\ NodeOf(id).id = id
<1>1. \E i \in DOMAIN nodes : nodes[i].id = id
  BY DEF Ids
<1>2. PICK i \in DOMAIN nodes : nodes[i].id = id /\ NodeOf(id) = nodes[i]
  BY <1>1 DEF NodeOf
<1> QED
  BY <1>2

\* A caller adding an edge or submitting the descriptor.
LEMMA BuildStep ==
  ASSUME TInv, (\E e \in Edges : AddEdge(e)) \/ Submit
  PROVE  TInv'
<1>1. CASE \E e \in Edges : AddEdge(e)
  BY <1>1 DEF AddEdge, TInv, TTypeOK, Progress, KahnInv, VerdictCorrect, OrderRespectsEdges, Ids
<1>2. CASE Submit
  BY <1>2 DEF Submit, TInv, TTypeOK, Progress, KahnInv, VerdictCorrect, OrderRespectsEdges, Ids
<1> QED
  BY <1>1, <1>2

\* The checks either reject a graph that is not well formed or start the first loop.
LEMMA CheckStep ==
  ASSUME TInv, Check
  PROVE  TInv'
<1>1. TTypeOK /\ pc = "check" /\ result = "Pending" /\ step = 0
  BY DEF TInv, Progress, Check
<1>2. UNCHANGED <<nodes, edges>>
  BY DEF Check, Reject
<1>3. Ids' = Ids /\ WellFormed' = WellFormed
  BY <1>2, SameGraph
<1>4. edges \in Seq(Edges) /\ (WellFormed <=> ~DuplicateNode /\ \A i \in DOMAIN edges : ~Faulty(i))
  BY <1>1, ChecksWellFormed DEF TTypeOK
<1>5. CASE ~WellFormed
  <2>1. PICK error \in {"TopologyDuplicateId", "TopologySelfCycle", "TopologyDanglingEdge",
                         "TopologyDuplicateEdge", "Contradictory"} : Reject(error)
    BY <1>4, <1>5 DEF Check, Fault
  <2>2. TTypeOK'
    BY <1>1, <1>3, <2>1 DEF TTypeOK, Reject
  <2> QED
    BY <1>3, <1>5, <2>1, <2>2
    DEF TInv, Reject, Progress, KahnInv, VerdictCorrect, OrderRespectsEdges
<1>6. CASE WellFormed
  <2>1. /\ StartKahn /\ pc' = "visit"
        /\ UNCHANGED <<nodes, edges, result, step, outputs, replayed>>
    BY <1>4, <1>6 DEF Check
  <2>2. Kahn' /\ ready' \subseteq Ids
    BY <1>1, <2>1, StartsKahn
  <2>3. in_degree' \in [Ids -> Nat] /\ order' = << >>
    BY <1>3, <2>1, <2>2 DEF Kahn, Degrees, StartKahn
  <2>4. TTypeOK'
    BY <1>1, <1>3, <2>1, <2>2, <2>3 DEF TTypeOK
  <2> QED
    BY <1>1, <1>3, <1>6, <2>1, <2>2, <2>4
    DEF TInv, Progress, KahnInv, VerdictCorrect, OrderRespectsEdges
<1> QED
  BY <1>5, <1>6

\* A pop of either loop.
LEMMA PopStep ==
  ASSUME TInv, NEW cur \in ready, pc \in {"visit", "order"}, Pop(cur)
  PROVE  TInv'
<1>1. TTypeOK /\ WellFormed /\ Kahn /\ step = 0
  BY DEF TInv, KahnInv, Progress
<1>2. Kahn' /\ ready' \subseteq Ids /\ order' \in Seq(Ids)
  BY <1>1, PopKahn
<1>3. Ids' = Ids /\ WellFormed' = WellFormed /\ Acyclic' = Acyclic
  BY SameGraph DEF Pop
<1>4. in_degree' \in [Ids -> Nat]
  BY <1>2, <1>3 DEF Kahn, Degrees
<1>5. UNCHANGED <<nodes, edges, pc, result, step, outputs, replayed>>
  BY DEF Pop
<1>6. TTypeOK'
  BY <1>1, <1>2, <1>3, <1>4, <1>5 DEF TTypeOK
<1> QED
  BY <1>1, <1>2, <1>3, <1>5, <1>6 DEF TInv, Progress, KahnInv, VerdictCorrect, OrderRespectsEdges

\* The end of the first loop: the verdict on cycles.
LEMMA VisitedStep ==
  ASSUME TInv, Visited
  PROVE  TInv'
<1>1. TTypeOK /\ WellFormed /\ Kahn /\ step = 0 /\ ready = {}
  BY DEF TInv, KahnInv, Progress, Visited
<1>2. Acyclic <=> AllVisited
  BY <1>1, AllPopped, KahnEnds DEF Kahn
<1>3. UNCHANGED <<nodes, edges, step, outputs, replayed>>
  BY DEF Visited, Reject
<1>4. Ids' = Ids /\ WellFormed' = WellFormed /\ Acyclic' = Acyclic
  BY <1>3, SameGraph
<1>5. CASE ~AllVisited
  <2>1. Reject("TopologyCycle")
    BY <1>5 DEF Visited
  <2>2. TTypeOK'
    BY <1>1, <1>4, <2>1 DEF TTypeOK, Reject
  <2> QED
    BY <1>2, <1>4, <1>5, <2>1, <2>2
    DEF TInv, Reject, Progress, KahnInv, VerdictCorrect, OrderRespectsEdges
<1>6. CASE AllVisited
  <2>1. StartKahn /\ result' = "Ok" /\ pc' = "order"
    BY <1>6 DEF Visited
  <2>2. Kahn' /\ ready' \subseteq Ids
    BY <1>1, <1>3, <2>1, StartsKahn
  <2>3. in_degree' \in [Ids -> Nat] /\ order' = << >>
    BY <1>4, <2>1, <2>2 DEF Kahn, Degrees, StartKahn
  <2>4. TTypeOK'
    BY <1>1, <1>3, <1>4, <2>1, <2>2, <2>3 DEF TTypeOK
  <2> QED
    BY <1>1, <1>2, <1>3, <1>4, <1>6, <2>1, <2>2, <2>4
    DEF TInv, Progress, KahnInv, VerdictCorrect, OrderRespectsEdges
<1> QED
  BY <1>5, <1>6

\* The end of the second loop: since the graph has no cycle, order holds all its nodes.
LEMMA CapturedStep ==
  ASSUME TInv, Captured
  PROVE  TInv'
<1>1. TTypeOK /\ WellFormed /\ Kahn /\ step = 0 /\ ready = {} /\ result = "Ok"
  BY DEF TInv, KahnInv, Progress, Captured
<1>2. pc' = "replay" /\ UNCHANGED <<nodes, edges, result, in_degree, ready, order, step, outputs, replayed>>
  BY DEF Captured
<1>3. Ids' = Ids /\ WellFormed' = WellFormed /\ Acyclic' = Acyclic
  BY <1>2, SameGraph
<1>4. Popped = Ids
  BY <1>1, KahnEnds DEF TInv, VerdictCorrect
<1>5. Respects(order)
  <2> SUFFICES ASSUME NEW i \in DOMAIN edges
               PROVE  \E j, k \in DOMAIN order :
                        j < k /\ order[j] = edges[i].from /\ order[k] = edges[i].to
    BY DEF Respects
  <2>1. DOMAIN order = 1 .. Len(order) /\ Len(order) \in Nat
    BY <1>1 DEF TTypeOK
  <2>2. PICK k \in DOMAIN order : order[k] = edges[i].to
    BY <1>1, <1>4 DEF WellFormed, Popped
  <2>3. PICK j \in 1 .. k - 1 : order[j] = edges[i].from
    BY <1>1, <2>2 DEF Kahn, Ordered
  <2> QED BY <2>1, <2>2, <2>3
<1>6. TTypeOK'
  BY <1>1, <1>2, <1>3 DEF TTypeOK, Captured
<1>7. OrderRespectsEdges'
  BY <1>2, <1>5 DEF OrderRespectsEdges, Respects
<1> QED
  BY <1>1, <1>2, <1>3, <1>6, <1>7 DEF TInv, Progress, KahnInv, VerdictCorrect

\* Replay changes neither the graph nor the order, and writes in range.
LEMMA ReplayStep ==
  ASSUME TInv, ReplayNode \/ Replayed
  PROVE  TInv'
<1>1. TTypeOK /\ pc = "replay" /\ result = "Ok"
  BY DEF TInv, Progress, ReplayNode, Replayed
<1>2. UNCHANGED <<nodes, edges, result, in_degree, ready, order>> /\ pc' \in {"replay", "done"}
  BY <1>1 DEF ReplayNode, Replayed
<1>3. Ids' = Ids /\ WellFormed' = WellFormed /\ Acyclic' = Acyclic
  BY <1>2, SameGraph
<1>4. /\ step' \in 0 .. Len(order) /\ replayed' \in {"Pending", "Ok", "Failed"}
      /\ DOMAIN outputs' = DOMAIN outputs /\ \A b \in DOMAIN outputs : outputs'[b] \in Ids \cup {0}
  <2>1. CASE ReplayNode
    <3> DEFINE n == NodeOf(order[step + 1])
    <3>1. order[step + 1] \in Ids
      BY <1>1, <2>1 DEF TTypeOK, ReplayNode
    <3>2. n \in Node /\ n.id \in Ids
      BY <1>1, <3>1, NodeOfId, GraphAssumption DEF TTypeOK
    <3>3. CASE OutOfRange(n)
      BY <1>1, <2>1, <3>3 DEF TTypeOK, ReplayNode
    <3>4. CASE ~OutOfRange(n)
      <4>1. /\ outputs' = IF Writes(n) THEN [outputs EXCEPT ![n.dst] = n.id] ELSE outputs
            /\ step' = step + 1 /\ replayed' = replayed /\ step < Len(order)
        BY <2>1, <3>4 DEF ReplayNode
      <4> HIDE DEF n
      <4> QED BY <1>1, <3>2, <4>1 DEF TTypeOK
    <3> QED BY <3>3, <3>4
  <2>2. CASE Replayed
    BY <1>1, <2>2 DEF TTypeOK, Replayed
  <2> QED BY <2>1, <2>2
<1>5. TTypeOK'
  BY <1>1, <1>2, <1>3, <1>4 DEF TTypeOK
<1>6. OrderRespectsEdges'
  BY <1>1, <1>2 DEF TInv, OrderRespectsEdges, Respects
<1> QED
  BY <1>1, <1>2, <1>3, <1>5, <1>6 DEF TInv, Progress, KahnInv, VerdictCorrect

\* The invariant of validation, capture and replay.
LEMMA TInvAlways == Spec => []TInv
<1>1. Init => TInv
  BY DEF Init, TInv, TTypeOK, Progress, KahnInv, VerdictCorrect, OrderRespectsEdges
<1>2. TInv /\ [Next]_vars => TInv'
  <2> SUFFICES ASSUME TInv, [Next]_vars PROVE TInv'
    OBVIOUS
  <2>1. CASE UNCHANGED vars
    <3>1. Ids' = Ids /\ WellFormed' = WellFormed /\ Acyclic' = Acyclic /\ \A S : Cyclic(S)' = Cyclic(S)
      BY <2>1, SameGraph DEF vars
    <3>2. Popped' = Popped /\ \A n : Held(n)' = Held(n)
      BY <2>1 DEF vars, Popped, Held
    <3>3. Kahn' = Kahn
      <4>1. Degrees' = Degrees
        BY <2>1, <3>1, <3>2 DEF vars, Degrees
      <4>2. ReadyFree' = ReadyFree
        BY <2>1, <3>1, <3>2 DEF vars, ReadyFree
      <4>3. Injective' = Injective /\ Ordered' = Ordered
        BY <2>1 DEF vars, Injective, Ordered
      <4>4. NotCyclic' = NotCyclic
        BY <3>1, <3>2 DEF NotCyclic
      <4> QED BY <4>1, <4>2, <4>3, <4>4 DEF Kahn
    <3>4. TTypeOK' /\ Progress' /\ OrderRespectsEdges'
      BY <2>1, <3>1 DEF vars, TInv, TTypeOK, Progress, OrderRespectsEdges, Respects
    <3> QED
      BY <2>1, <3>1, <3>3, <3>4 DEF vars, TInv, KahnInv, VerdictCorrect
  <2>2. ASSUME NEW cur \in ready, Visit(cur) \/ Order(cur) PROVE TInv'
    BY <2>2, PopStep DEF Visit, Order
  <2> QED
    BY <2>1, <2>2, BuildStep, CheckStep, VisitedStep, CapturedStep, ReplayStep DEF Next
<1> QED
  BY <1>1, <1>2, PTL DEF Spec

\* Type correctness of validate_topology, CpuBackend::capture and replay.
THEOREM TypeCorrect == Spec => []TTypeOK
<1>1. TInv => TTypeOK
  BY DEF TInv
<1> QED
  BY <1>1, TInvAlways, PTL

\* validate_topology accepts exactly the well-formed acyclic graphs, for all graphs and
\* all orders its hash maps may iterate in.
THEOREM VerdictCorrectAlways == Spec => []VerdictCorrect
<1>1. TInv => VerdictCorrect
  BY DEF TInv
<1> QED
  BY <1>1, TInvAlways, PTL

\* The order CpuBackend::capture hands to replay puts both ends of every edge in it, the
\* dependent node second.
THEOREM OrderRespectsEdgesAlways == Spec => []OrderRespectsEdges
<1>1. TInv => OrderRespectsEdges
  BY DEF TInv
<1> QED
  BY <1>1, TInvAlways, PTL
=============================================================================
