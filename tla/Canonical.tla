------------------------------ MODULE Canonical ------------------------------
(***************************************************************************)
(* The tagged streams of canonical.hpp, which keys and files are made of:  *)
(* the encoders and decoders of serialization.cpp (nodes, dependencies,    *)
(* descriptor) and of compatibility.cpp (shapes, dependencies, facts).     *)
(*                                                                         *)
(* A stream is a sequence of fields <<tag, value>>; a nested record is a   *)
(* stream again.  A field the reader cannot delimit ends the stream for    *)
(* it, so that a torn stream is a shorter one with the field Torn at its   *)
(* end.  The widths of scalars are left out, and fields that only travel   *)
(* together are one (both halves of an id; what a scalar or quantization   *)
(* has besides its first value).                                           *)
(***************************************************************************)
EXTENDS Naturals, Sequences, SequencesExt

CONSTANTS
  CountLimit,  \* the most elements a decoder accepts in one list (4096, 8192)
  Refused      \* a model value: what a decoder returns for a stream it refuses

ASSUME CountAssumption == CountLimit \in Nat

Torn == <<"torn", 0>>

Field(tag, value) == << <<tag, value>> >>
When(condition, stream) == IF condition THEN stream ELSE << >>
Repeated(count, tag, values) ==
  Field(count, Len(values)) \o [i \in DOMAIN values |-> <<tag, values[i]>>]
\* From left to right, in as many steps as seq has elements.
Through(Op(_, _), start, seq) ==
  LET after[i \in 0 .. Len(seq)] == IF i = 0 THEN start ELSE Op(after[i - 1], seq[i])
  IN after[Len(seq)]
Each(tags, record) == [i \in DOMAIN tags |-> <<tags[i], record[tags[i]]>>]

NotSpecialized == 0
NoQuantization == 0
NoShape == [dims |-> << >>, dynamic |-> FALSE, max_rank |-> 0]
DefaultBinding == [class |-> "Immutable", schema |-> 0, alignment |-> 128, eligible |-> FALSE]
NoNode == [id |-> 0, datatype |-> "None", layout |-> 0, shape |-> NoShape, scalar |-> NotSpecialized,
           quantization |-> NoQuantization, binding |-> DefaultBinding, alignment |-> 128]
NoDep == [name |-> "", generation |-> 0, digest |-> 0, abi |-> 1, contributes |-> TRUE]
-----------------------------------------------------------------------------
(***************************************************************************)
(* Records whose decoder takes fields in any order, over default values.   *)
(***************************************************************************)
ShapeTags == <<"dims", "dynamic", "max_rank">>
DepTags == <<"name", "generation", "abi", "digest", "contributes">>

\* A list of dimensions is appended to the one already there.
SetShape(s, f) == IF f[1] = "dims" THEN [s EXCEPT !.dims = @ \o f[2]] ELSE [s EXCEPT ![f[1]] = f[2]]
Tags(stream) == {stream[i][1] : i \in DOMAIN stream}

encode_shape(s) ==
  When(s.dims # << >>, Field("dims", s.dims)) \o Field("dynamic", s.dynamic)
    \o When(s.max_rank # 0, Field("max_rank", s.max_rank))
decode_shape(stream) ==
  IF Tags(stream) \subseteq ToSet(ShapeTags) THEN Through(SetShape, NoShape, stream) ELSE Refused

encode_dep(d) == Each(DepTags, d)
decode_dep(stream) ==
  IF Tags(stream) \subseteq ToSet(DepTags)
  THEN Through(LAMBDA d, f : [d EXCEPT ![f[1]] = f[2]], NoDep, stream) ELSE Refused

\* A node without a datatype is written without shape and layout.
encode_nodeUnscaled(n) ==
  Field("id", n.id)
    \o When(n.datatype # "None",
            encode_shape(n.shape) \o Field("datatype", n.datatype) \o Field("layout", n.layout))
    \o Each(<<"quantization", "binding", "alignment">>, n)
encode_node(n) ==
  Field("id", n.id)
    \o When(n.datatype # "None",
            encode_shape(n.shape) \o Field("datatype", n.datatype) \o Field("layout", n.layout))
    \o When(n.scalar # NotSpecialized, Field("scalar", n.scalar))
    \o Each(<<"quantization", "binding", "alignment">>, n)
SetNode(n, f) ==
  IF f[1] \in ToSet(ShapeTags) THEN [n EXCEPT !.shape = SetShape(@, f)] ELSE [n EXCEPT ![f[1]] = f[2]]
decode_node(stream) ==
  IF Tags(stream) \subseteq ToSet(ShapeTags) \cup (DOMAIN NoNode \ {"shape"})
  THEN Through(SetNode, NoNode, stream) ELSE Refused
-----------------------------------------------------------------------------
(***************************************************************************)
(* Records whose decoder expects the encoder's order: one step of a fold   *)
(* for each part of the grammar.                                           *)
(***************************************************************************)
\* A reader: what is left of the stream, and the values read so far by their tags.
Reading(stream) == [ok |-> TRUE, rest |-> stream, got |-> << >>]
Fail(r) == [r EXCEPT !.ok = FALSE]
At(r, tag) == r.rest # << >> /\ Head(r.rest)[1] = tag

One(tag) == [form |-> "one", tag |-> tag]
Many(count, tag) == [form |-> "many", tag |-> count, item |-> tag]
Option(tag, none, item) == [form |-> "option", tag |-> tag, none |-> none, item |-> item]

\* The nested record of a field with the given tag.
Item(tag, value) ==
  CASE tag = "node" -> decode_node(value)
    [] tag = "dep" -> decode_dep(value)
    [] tag \in {"input_shape", "output_shape"} -> decode_shape(value)
    [] OTHER -> value

Take(r, n, value) == [r EXCEPT !.rest = SubSeq(@, n + 1, Len(@)), !.got = @ @@ (Head(r.rest)[1] :> value)]
Expect(r, g) ==
  IF ~r.ok \/ ~At(r, g.tag) THEN Fail(r)
  ELSE LET value == Head(r.rest)[2] IN
    CASE g.form = "one" -> Take(r, 1, value)
      [] g.form = "many" ->
           IF value > CountLimit \/ value >= Len(r.rest) THEN Fail(r)
           ELSE LET items == [i \in 1 .. value |-> Item(g.item, r.rest[i + 1][2])] IN
                IF \A i \in 1 .. value : r.rest[i + 1][1] = g.item /\ items[i] # Refused
                THEN Take(r, value + 1, items) ELSE Fail(r)
      [] g.form = "option" ->
           IF value = g.none THEN Take(r, 1, value)
           ELSE LET next == [r EXCEPT !.rest = Tail(@)] IN
                IF At(next, g.item) THEN Take(r, 2, Head(next.rest)[2]) ELSE Fail(r)
Read(stream, grammar) == Through(Expect, Reading(stream), grammar)
Named(tags, got) == [t \in ToSet(tags) |-> got[t]]

IdentityTags == <<"backend", "backend_version", "runtime_version", "graph_abi", "kernel_abi",
                  "driver_version", "vendor", "architecture", "compute", "device_index">>
SyncTags == <<"capture_mode", "stream_semantics">>
WorkloadTags == <<"logical_name", "logical_version", "namespace", "policy_generation">>
Ones(tags) == [i \in DOMAIN tags |-> One(tags[i])]
Map(F(_), seq) == [i \in DOMAIN seq |-> F(seq[i])]

serialize_descriptor(g) ==
  Each(IdentityTags, g.identity) \o Each(SyncTags, g.sync)
    \o Repeated("node_count", "node", Map(encode_node, g.nodes))
    \o Repeated("dep_count", "dep", Map(encode_dep, g.dependencies))
DescriptorGrammar == Ones(IdentityTags \o SyncTags) \o <<Many("node_count", "node"), Many("dep_count", "dep")>>
deserialize_descriptor(stream) ==
  LET r == Read(stream, DescriptorGrammar) IN
  IF ~r.ok \/ r.rest # << >> THEN Refused
  ELSE [identity |-> Named(IdentityTags, r.got), sync |-> Named(SyncTags, r.got),
        nodes |-> r.got["node_count"], dependencies |-> r.got["dep_count"]]

\* The metadata of an entry; its numbers travel with the revision.
MetadataTags == WorkloadTags \o <<"revision">>
serialize_metadata(m) == Each(WorkloadTags, m.workload) \o Field("revision", m.revision)
deserialize_metadata(stream) ==
  LET r == Read(stream, Ones(MetadataTags)) IN
  IF ~r.ok \/ r.rest # << >> THEN Refused
  ELSE [workload |-> Named(WorkloadTags, r.got), revision |-> r.got["revision"]]

\* The payload of a file: both parts, in any order, the last of a kind counting.
encode_entry_payload(g, m) == Field("desc", serialize_descriptor(g)) \o Field("md", serialize_metadata(m))
decode_entry_payload(stream) ==
  LET part(tag) == SelectSeq(stream, LAMBDA f : f[1] = tag)
      desc == Map(LAMBDA f : deserialize_descriptor(f[2]), part("desc"))
      md == Map(LAMBDA f : deserialize_metadata(f[2]), part("md")) IN
  IF Tags(stream) = {"desc", "md"} /\ Refused \notin ToSet(desc) \cup ToSet(md)
  THEN [descriptor |-> Last(desc), md |-> Last(md)] ELSE Refused

\* No fact has output shapes; revision and policy generation are written twice.
encode_facts(f) ==
  LET n == f.nodes IN
  Each(WorkloadTags, f.workload) \o Field("workload_revision", f.revision)
    \o Each(IdentityTags, f.identity) \o Each(SyncTags, f.sync) \o Field("topology", n.topology)
    \o Repeated("input_shapes", "input_shape", Map(encode_shape, n.shapes))
    \o Repeated("output_shapes", "output_shape", << >>)
    \o Repeated("datatypes", "datatype", n.datatypes) \o Repeated("layouts", "layout", n.layouts)
    \o Field("scalar", n.scalar) \o When(n.scalar # NotSpecialized, Field("scalar_value", n.scalar))
    \o Field("quantization", n.quantization)
    \o When(n.quantization # NoQuantization, Field("group_size", n.quantization))
    \o Field("binding", n.binding) \o Field("alignment", n.alignment) \o Field("schema", n.binding.schema)
    \o Repeated("dependencies", "dep", Map(encode_dep, f.dependencies))
    \o Field("revision", f.revision) \o Field("policy", f.workload["policy_generation"])
FactsGrammar ==
  Ones(WorkloadTags \o <<"workload_revision">> \o IdentityTags \o SyncTags \o <<"topology">>)
    \o <<Many("input_shapes", "input_shape"), Many("output_shapes", "output_shape"),
         Many("datatypes", "datatype"), Many("layouts", "layout"),
         Option("scalar", NotSpecialized, "scalar_value"),
         Option("quantization", NoQuantization, "group_size")>>
    \o Ones(<<"binding", "alignment", "schema">>)
    \o <<Many("dependencies", "dep"), One("revision"), One("policy")>>
\* What follows the last field is not looked at.
decode_facts(stream) ==
  LET r == Read(stream, FactsGrammar) IN
  IF ~r.ok THEN Refused
  ELSE [workload |-> Named(WorkloadTags, r.got), revision |-> r.got["revision"],
        identity |-> Named(IdentityTags, r.got), sync |-> Named(SyncTags, r.got),
        dependencies |-> r.got["dependencies"],
        nodes |-> [topology |-> r.got["topology"], datatypes |-> r.got["datatypes"],
                   layouts |-> r.got["layouts"], shapes |-> r.got["input_shapes"],
                   scalar |-> r.got["scalar"], quantization |-> r.got["quantization"],
                   binding |-> r.got["binding"], alignment |-> r.got["alignment"]]]

from_canonicalAsDecoded(stream) == decode_facts(stream)
from_canonical(stream) ==
  LET f == decode_facts(stream) IN IF f # Refused /\ encode_facts(f) = stream THEN f ELSE Refused
-----------------------------------------------------------------------------
\* A stream with one field lost, doubled or moved, with its end torn off, with more at
\* its end, or with such damage in one of its nested records.
DamagedHere(s) ==
  {RemoveAt(s, i) : i \in DOMAIN s} \cup {InsertAt(s, i, s[i]) : i \in DOMAIN s}
    \cup {[s EXCEPT ![i] = s[i + 1], ![i + 1] = s[i]] : i \in 1 .. Len(s) - 1}
    \cup {Append(SubSeq(s, 1, i), Torn) : i \in 0 .. Len(s)}
Damaged(s) ==
  DamagedHere(s)
    \cup UNION {{[s EXCEPT ![i] = <<s[i][1], t>>] : t \in DamagedHere(s[i][2])} :
                i \in {i \in DOMAIN s : s[i][1] \in {"node", "dep", "input_shape"}}}
=============================================================================
