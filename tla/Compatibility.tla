---------------------------- MODULE Compatibility ----------------------------
(***************************************************************************)
(* Whether a cached graph may serve a request: the facts cache.cpp derives *)
(* from a request and, after a restart, from the stored descriptor; the    *)
(* key that digests them; decide_compatibility and is_dependency_fresh.    *)
(*                                                                         *)
(* The state is one request (want), one cached entry and a policy.  The    *)
(* entry was captured for the request have and may have been recovered     *)
(* from disk since.  The steps vary the two requests and the policy, one   *)
(* field at a time, so that the reachable states are all the pairs within  *)
(* MaxEdits changes of Base.                                               *)
(*                                                                         *)
(* A scalar field is a number: only equality matters.  A digest is the     *)
(* value it digests.  Reasons and their wording are left out, and so are   *)
(* the edges and the fields of a node that only its encoding reads (name,  *)
(* kernel, launch, indices): they count for the topology alone, as the     *)
(* fields kept here do.                                                    *)
(***************************************************************************)
EXTENDS Canonical, FiniteSets

CONSTANTS
  Base,         \* the request everything starts from
  Shapes,       \* ShapeDescriptors a node may have
  Bindings,     \* BindingDescriptors a node may have
  Dependencies, \* sequences of KernelIdentityRefs a request may have
  MaxEdits      \* bound on the changes made to Base

ASSUME BoundAssumption == MaxEdits \in Nat

\* The scalar fields of a request, by the part of it they are in.  Backend, runtime
\* and device are given twice: in the request and in the graph descriptor it carries.
WorkloadField == ToSet(WorkloadTags)
IdentityField == ToSet(IdentityTags)
SyncField == ToSet(SyncTags)

Toggle == {"allow_rebinding", "allow_dynamic_shape", "require_exact_backend",
           "require_exact_architecture", "require_exact_runtime", "require_exact_abis",
           "require_exact_topology", "require_exact_dependencies", "allow_model_revision_lax",
           "namespace_filter"}
\* namespace_filter stands for a filter that is set, to namespace 0.
DefaultPolicy == Toggle \ {"allow_model_revision_lax", "namespace_filter"}

VARIABLES
  want,       \* the request of the lookup
  have,       \* the request the entry was captured for
  facts,      \* the entry's CompatibilityFacts
  recovered,  \* whether the entry came back from disk
  policy,     \* the toggles that are on
  edits

vars == <<want, have, facts, recovered, policy, edits>>
-----------------------------------------------------------------------------
(***************************************************************************)
(* CompatibilityFacts.                                                     *)
(***************************************************************************)
\* What encode_node in topology.cpp writes of a node for the digest: shape and layout
\* only with a datatype.
EncodedUnbound(n) == [n EXCEPT !.binding = DefaultBinding]
Encoded(n) == IF n.datatype = "None" THEN [n EXCEPT !.shape = NoShape, !.layout = 0] ELSE n

\* canonical_topology sorts the nodes by id before it encodes them.
CanonicalTopology(nodes) == {Encoded(nodes[i]) : i \in DOMAIN nodes}

Tensors(nodes) == SelectSeq(nodes, LAMBDA n : n.datatype # "None")
LastOf(s, default) == IF s = << >> THEN default ELSE Last(s)

\* The part of make_facts and facts_from_descriptor_and_workload that reads the nodes,
\* in the order they are in: the last tensor node decides the binding.
NodeFacts(nodes) ==
  LET t == Tensors(nodes) IN
  [topology     |-> CanonicalTopology(nodes),
   datatypes    |-> Map(LAMBDA n : n.datatype, t),
   layouts      |-> Map(LAMBDA n : n.layout, t),
   shapes       |-> Map(LAMBDA n : n.shape, t),
   scalar       |-> LastOf(SelectSeq(Map(LAMBDA n : n.scalar, t),
                                     LAMBDA x : x # NotSpecialized), NotSpecialized),
   quantization |-> LastOf(SelectSeq(Map(LAMBDA n : n.quantization, nodes),
                                     LAMBDA x : x # NoQuantization), NoQuantization),
   binding      |-> LastOf(Map(LAMBDA n : n.binding, t), DefaultBinding),
   alignment    |-> IF t = << >> THEN 128
                    ELSE CHOOSE a \in {t[i].alignment : i \in DOMAIN t} :
                           \A i \in DOMAIN t : t[i].alignment <= a]

\* make_facts takes backend, runtime and device from the request ...
MakeFacts(r) == [workload |-> r.workload, revision |-> r.revision, identity |-> r.identity,
                 sync |-> r.sync, dependencies |-> r.dependencies, nodes |-> NodeFacts(r.nodes)]

\* ... facts_from_descriptor_and_workload from the descriptor, whose nodes finalize had
\* sorted by id before the entry was written to disk.
SortedById(nodes) == SortSeq(nodes, LAMBDA m, n : m.id < n.id)
Descriptor(r) == [identity |-> r.descriptor_identity, sync |-> r.sync,
                  nodes |-> SortedById(r.nodes), dependencies |-> r.dependencies]
Metadata(r) == [workload |-> r.workload, revision |-> r.revision]
ReadBack(r) == decode_entry_payload(encode_entry_payload(Descriptor(r), Metadata(r)))
RecoveredFacts(e) ==
  LET g == e.descriptor IN
  [workload |-> e.md.workload, revision |-> e.md.revision, identity |-> g.identity,
   sync |-> g.sync, dependencies |-> g.dependencies, nodes |-> NodeFacts(g.nodes)]

\* GraphCompatibilityKey::build digests what encode_facts writes, which is every fact.
KeyWithoutDependencies(f) == <<f.workload, f.revision, f.identity, f.sync, f.nodes>>
Key(f) == <<f.workload, f.revision, f.identity, f.sync, f.nodes, f.dependencies>>
-----------------------------------------------------------------------------
(***************************************************************************)
(* decide_compatibility(req, cand, p), p being the set of toggles on.      *)
(***************************************************************************)
Correctness(f) == {d \in ToSet(f.dependencies) : d.contributes}

\* Every correctness-contributing dependency of the candidate is one of the request's,
\* as far as the string name|generation|digest tells; the ABI is not part of it.
DependencyKey(d) == <<d.name, d.generation, d.digest>>
DependenciesCovered(req, cand) ==
  \A d \in Correctness(cand) : \E c \in Correctness(req) : DependencyKey(c) = DependencyKey(d)

\* A binding or alignment that differs is acceptable only if the candidate's may change.
BindingDiffers(m, n) ==
  \/ m.alignment # n.alignment
  \/ m.binding.schema # n.binding.schema
  \/ m.binding.class # n.binding.class
  \/ m.binding.alignment # n.binding.alignment
Rebindable(cand, p) ==
  /\ "allow_rebinding" \in p /\ cand.nodes.binding.eligible
  /\ cand.nodes.binding.class \notin {"RecaptureRequired", "Immutable"}

\* Shapes that differ are acceptable only where the candidate's is dynamic and wide enough.
DynamicAccepted(r, c, p) ==
  /\ "allow_dynamic_shape" \in p /\ Len(c) = Len(r) /\ r # << >>
  /\ \A i \in DOMAIN r : r[i].dims = c[i].dims \/ (c[i].dynamic /\ c[i].max_rank >= Len(r[i].dims))

\* An empty revision (0) matches any other.
RevisionDiffers(req, cand) == req.revision # 0 /\ cand.revision # 0 /\ req.revision # cand.revision
LaxRevisionInverted(p) == "allow_model_revision_lax" \notin p
LaxRevision(p) == "allow_model_revision_lax" \in p

\* The class of each check in the code's order, and when it is the answer if no earlier
\* one was: first what rejects the candidate, then what it takes to accept it.
Verdicts(req, cand, p) ==
  LET differ(field) == req.identity[field] # cand.identity[field]
      strict(toggle, field) == toggle \in p /\ differ(field)
      r == req.nodes
      c == cand.nodes
  IN <<
    <<"Workload", req.workload["logical_name"] # cand.workload["logical_name"]>>,
    <<"PolicyRejected", "namespace_filter" \in p /\ req.workload["namespace"] # 0>>,
    <<"Backend", differ("backend") \/ strict("require_exact_backend", "backend_version")>>,
    <<"Architecture", differ("vendor") \/ differ("architecture")
                        \/ strict("require_exact_architecture", "compute")>>,
    <<"Runtime", strict("require_exact_runtime", "runtime_version")>>,
    <<"DriverGeneration", differ("driver_version")>>,
    <<"GraphABI", strict("require_exact_abis", "graph_abi")>>,
    <<"KernelABI", strict("require_exact_abis", "kernel_abi")>>,
    <<"CaptureMode", req.sync["capture_mode"] # cand.sync["capture_mode"]>>,
    <<"StreamSemantics", req.sync["stream_semantics"] # cand.sync["stream_semantics"]>>,
    <<"Topology", "require_exact_topology" \in p /\ r.topology # c.topology>>,
    <<"Dependency", "require_exact_dependencies" \in p /\ ~DependenciesCovered(req, cand)>>,
    <<"Datatype", r.datatypes # c.datatypes>>,
    <<"Layout", r.layouts # c.layouts>>,
    <<"Specialization", r.scalar # c.scalar>>,
    <<"Quantization", r.quantization # c.quantization>>,
    <<"Alignment", r.alignment # c.alignment /\ ~Rebindable(cand, p)>>,
    <<"MemoryBinding", BindingDiffers(r, c) /\ ~Rebindable(cand, p)>>,
    <<"Shape", r.shapes # c.shapes /\ ~DynamicAccepted(r.shapes, c.shapes, p)>>,
    <<"ModelRevision", RevisionDiffers(req, cand) /\ ~LaxRevision(p)>>,
    <<"CompatibleWithRebinding", BindingDiffers(r, c)>>,
    <<"CompatibleWithDynamicShape", r.shapes # c.shapes>>,
    <<"Exact", TRUE>> >>

Decide(req, cand, p) ==
  LET v == Verdicts(req, cand, p)
      true == {i \in DOMAIN v : v[i][2]}
  IN v[CHOOSE i \in true : \A j \in true : i <= j][1]

Accepted == {"Exact", "CompatibleWithRebinding", "CompatibleWithDynamicShape"}

\* is_dependency_fresh: captured dependencies of a name the request still has agree with it.
DependencyFresh(req, cand) ==
  \A d \in Correctness(req), c \in Correctness(cand) :
    c.name = d.name => c.generation = d.generation /\ c.digest = d.digest /\ c.abi = d.abi
-----------------------------------------------------------------------------
(***************************************************************************)
(* Inputs, and what happens to the entry.                                  *)
(***************************************************************************)
\* A request with one field changed, two of its nodes swapped, or a node changed.
FieldEdits(r) ==
  {[r EXCEPT !.workload[f] = 1 - @] : f \in WorkloadField}
    \cup {[r EXCEPT !.identity[f] = 1 - @, !.descriptor_identity[f] = 1 - @] : f \in IdentityField}
    \cup {[r EXCEPT !.descriptor_identity["runtime_version"] = 1 - @]}
    \cup {[r EXCEPT !.sync[f] = 1 - @] : f \in SyncField}
    \cup {[r EXCEPT !.revision = x] : x \in 0 .. 2}
    \cup {[r EXCEPT !.dependencies = x] : x \in Dependencies}
NodeEdits(n) ==
  {[n EXCEPT !.datatype = x] : x \in {"None", "F32", "F16"}}
    \cup {[n EXCEPT !.shape = x] : x \in Shapes}
    \cup {[n EXCEPT !.binding = x] : x \in Bindings}
    \cup {[n EXCEPT !.scalar = x] : x \in {NotSpecialized, 2}}
    \cup {[n EXCEPT !.quantization = x] : x \in {NoQuantization, 8}}
    \cup {[n EXCEPT !.layout = x] : x \in {0, 1}}
    \cup {[n EXCEPT !.alignment = x] : x \in {64, 128}}
Edits(r) ==
  FieldEdits(r)
    \cup {[r EXCEPT !.nodes = Reverse(@)]}
    \cup {[r EXCEPT !.nodes[i] = n] : <<i, n>> \in
            UNION {{i} \X NodeEdits(r.nodes[i]) : i \in DOMAIN r.nodes}}

Init ==
  /\ want = Base /\ have = Base /\ facts = MakeFacts(Base)
  /\ recovered = FALSE /\ policy = DefaultPolicy /\ edits = 0

EditRequest ==
  /\ edits < MaxEdits /\ edits' = edits + 1
  /\ want' \in Edits(want) \ {want}
  /\ UNCHANGED <<have, facts, recovered, policy>>

EditPolicy ==
  /\ edits < MaxEdits /\ edits' = edits + 1
  /\ \E toggle \in Toggle :
       policy' = IF toggle \in policy THEN policy \ {toggle} ELSE policy \cup {toggle}
  /\ UNCHANGED <<want, have, facts, recovered>>

\* capture_graph builds the entry for the request it was asked for.
Capture ==
  /\ ~recovered /\ have # want
  /\ have' = want /\ facts' = MakeFacts(want)
  /\ UNCHANGED <<want, recovered, policy, edits>>

\* A restart: the entry is written to disk, and recover decodes it, or skips the file.
\* What it decodes depends on the entry alone, so that it may as well happen before the
\* request is changed again.
Recover ==
  /\ ~recovered /\ want = have
  /\ LET e == ReadBack(have) IN e # Refused /\ facts' = RecoveredFacts(e)
  /\ recovered' = TRUE
  /\ UNCHANGED <<want, have, policy, edits>>

Next == EditRequest \/ EditPolicy \/ Capture \/ Recover
Spec == Init /\ [][Next]_vars
-----------------------------------------------------------------------------
(***************************************************************************)
(* Properties.                                                             *)
(***************************************************************************)
Decision(p) == Decide(MakeFacts(want), facts, p)
Compatible(p) == Decision(p) \in Accepted
NamespaceAdmitted == "namespace_filter" \in policy => want.workload["namespace"] = 0
UniqueNames(r) ==
  \A i, j \in DOMAIN r.dependencies : r.dependencies[i].name = r.dependencies[j].name => i = j

\* The engine's single flight and its current generations go by the key: a request
\* with the key of an entry is an exact, fresh match for it whatever the policy (but
\* for a namespace filter, and for dependencies that share a name).
KeyDeterminesDecision ==
  /\ Key(MakeFacts(want)) = Key(facts) /\ NamespaceAdmitted /\ UniqueNames(want)
  => Decision(policy) = "Exact" /\ DependencyFresh(MakeFacts(want), facts)

\* Policy toggles only ever restrict: what decide_compatibility accepts with a
\* require_exact toggle on, or an allow toggle off, it accepts without it.
Looser(p, toggle) ==
  IF toggle \in {"allow_rebinding", "allow_dynamic_shape", "allow_model_revision_lax"}
  THEN p \cup {toggle} ELSE p \ {toggle}
PolicyMonotone == Compatible(policy) => \A toggle \in Toggle : Compatible(Looser(policy, toggle))

\* canonical_topology covers bindings and shapes, so that under require_exact_topology,
\* the default, an entry serves a request that lists its nodes in the same order only
\* as an exact match: a rebinding or a dynamic shape needs a policy without that toggle.
InIdOrder(r) == SortedById(r.nodes) = r.nodes
ExactTopologyIsExact ==
  /\ "require_exact_topology" \in policy /\ InIdOrder(want) /\ InIdOrder(have)
  /\ Compatible(policy)
  => Decision(policy) = "Exact"

\* A request whose nodes are in id order and whose descriptor repeats its identity gets
\* from disk the facts, and so the key, that its entry was captured with, if its lists
\* are within the decoders' limits: what serialize_descriptor leaves out is nothing the
\* facts depend on, and what it writes decode_entry_payload reads.
WithinLimits(r) == Len(r.nodes) <= CountLimit /\ Len(r.dependencies) <= CountLimit
RecoveredFactsAgree ==
  /\ have = want /\ ~recovered /\ have.identity = have.descriptor_identity /\ InIdOrder(have) /\ WithinLimits(have)
  => LET e == ReadBack(have) IN e # Refused /\ RecoveredFacts(e) = facts

\* The key's canonical bytes name the facts they were made from: from_canonical reads
\* them back as those facts, and reads no stream with a field lost, doubled or moved, at
\* the top or in a nested record, as the same facts, although the decoders skip what
\* follows the last field and take nested fields in any order.
CanonicalIsUnique ==
  /\ have = want /\ ~recovered /\ WithinLimits(have)
  /\ policy = DefaultPolicy /\ edits < MaxEdits   \* the damage is one edit more
  => LET stream == encode_facts(facts) IN
     /\ from_canonical(stream) = facts
     /\ \A s \in Damaged(stream) : s # stream => from_canonical(s) # facts
=============================================================================
