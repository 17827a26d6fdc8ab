--------------------------- MODULE MCCompatibility ---------------------------
(***************************************************************************)
(* A request with two tensor nodes: the first bound immutably, the second  *)
(* replay-mutable and dynamic in shape, and two dependencies.              *)
(***************************************************************************)
EXTENDS Compatibility

Shape(dims, dynamic, max_rank) == [dims |-> dims, dynamic |-> dynamic, max_rank |-> max_rank]
MCShapes == {Shape(<<4>>, FALSE, 0), Shape(<<4>>, TRUE, 2), Shape(<<4, 4>>, FALSE, 0),
             Shape(<<4, 4, 4>>, FALSE, 0)}

Binding(class, schema, eligible) ==
  [class |-> class, schema |-> schema, alignment |-> 128, eligible |-> eligible]
MCBindings == {Binding("Immutable", 0, FALSE), Binding("Immutable", 1, FALSE),
               Binding("ReplayMutable", 0, TRUE), Binding("ReplayMutable", 1, TRUE),
               Binding("RecaptureRequired", 0, TRUE)}

Node(id, binding, shape) ==
  [id |-> id, datatype |-> "F32", layout |-> 0, shape |-> shape, scalar |-> 0, quantization |-> 0,
   binding |-> binding, alignment |-> 128]

Kernel(name, generation, digest, abi, contributes) ==
  [name |-> name, generation |-> generation, digest |-> digest, abi |-> abi, contributes |-> contributes]
MCDependencies ==
  {<<Kernel("k", 1, 0, 0, TRUE)>>, <<Kernel("k", 2, 0, 0, TRUE)>>, <<Kernel("k", 1, 1, 0, TRUE)>>,
   <<Kernel("k", 1, 0, 1, TRUE)>>, <<Kernel("k", 1, 0, 0, FALSE)>>, << >>,
   <<Kernel("k", 1, 0, 0, TRUE), Kernel("l", 1, 0, 0, TRUE)>>,
   <<Kernel("k", 1, 0, 0, TRUE), Kernel("k", 2, 0, 0, TRUE)>>,
   <<Kernel("k", 1, 0, 0, TRUE), Kernel("l", 1, 0, 0, TRUE), Kernel("m", 1, 0, 0, TRUE)>>}

MCBase ==
  [workload |-> [f \in WorkloadField |-> 0], revision |-> 1,
   identity |-> [f \in IdentityField |-> 0], descriptor_identity |-> [f \in IdentityField |-> 0],
   sync |-> [f \in SyncField |-> 0], dependencies |-> <<Kernel("k", 1, 0, 0, TRUE)>>,
   nodes |-> <<Node(1, Binding("Immutable", 0, FALSE), Shape(<<4>>, FALSE, 0)),
               Node(2, Binding("ReplayMutable", 0, TRUE), Shape(<<4>>, TRUE, 2))>>]
=============================================================================
