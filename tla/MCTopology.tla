----------------------------- MODULE MCTopology -----------------------------
(***************************************************************************)
(* A graph of Top nodes listed out of id order, three of which write the   *)
(* same buffer; two kernels, also out of order, one of them with a buffer  *)
(* out of range; a list that repeats an id.  Edges cover all pairs of      *)
(* nodes, and one of each kind of malformed edge.  The two kernels are     *)
(* captured on the CUDA backend as well.                                   *)
(***************************************************************************)
EXTENDS CudaBackend

CONSTANT Top  \* the largest node id

N(id, category, dst) == [id |-> id, category |-> category, src |-> 0, dst |-> dst]
TwoKernels == <<N(2, "Kernel", 7), N(1, "Kernel", 0)>>
MCCudaLists == {TwoKernels}
MCNodeLists ==
  {<<N(3, "Kernel", 0), N(1, "MemoryCopy", 0), N(2, "MemorySet", 0)>>
     \o [i \in 1 .. Top - 3 |-> N(i + 3, "HostOperation", 9)],
   TwoKernels,
   <<N(1, "Kernel", 0), N(2, "Kernel", 0), N(1, "MemorySet", 0)>>}

E(id, from, to, kind) == [id |-> id, from |-> from, to |-> to, kind |-> kind]
MCEdges ==
  {E(10 * p[1] + p[2], p[1], p[2], "Data") : p \in {q \in (1 .. Top) \X (1 .. Top) : q[1] # q[2]}}
    \cup {E(11, 1, 1, "Data"), E(100, 1, 2, "Data"), E(101, 1, 2, "Control"),
          E(102, 1, Top + 1, "Data"), E(100, 2, 3, "Data")}
=============================================================================
