---------------------------- MODULE CudaBackend ----------------------------
(***************************************************************************)
(* The CUDA backend (cuda_backend.cu) beside the CPU backend of Topology:  *)
(* a validated descriptor is captured on one or the other.  Capture chains *)
(* an input copy, the kernels and an output copy; callers that share the   *)
(* executable replay and rebind it from their own threads, each with its   *)
(* own host buffers, under the mutex of the handle.                        *)
(*                                                                         *)
(* A launch is queued on the stream of the handle and runs one graph node  *)
(* at a time, with the copy parameters it was launched with, while its     *)
(* caller waits in cudaStreamSynchronize.  Every CUDA call that reports an *)
(* error may fail; a failed synchronize ends what was queued.  The         *)
(* contents of a buffer are the input it comes from, then the kernels that *)
(* were applied to it; << >> is a buffer nothing was copied to.            *)
(***************************************************************************)
EXTENDS Topology

LOCAL INSTANCE SequencesExt

CONSTANTS
  Callers,      \* threads with a lease on the executable
  CudaLists,    \* the node lists captured on this backend
  MaxCaptures,  \* bound on the captures of the descriptor
  MaxReplays    \* bound on the replays of a caller

Handle == 0  \* owner of the handle's own buffers h_in and h_out

ASSUME CudaAssumption ==
  Callers \subseteq Nat \ {Handle} /\ MaxCaptures \in Nat /\ MaxReplays \in Nat

VARIABLES
  handle,   \* "none", "captured", "validating" or "resident"
  captures, \* captures so far
  mtx,      \* caller that holds the mutex of the handle, Handle when it is free
  h2d, d2h, \* owner of the host buffers the two copies are bound to
  stream,   \* launches queued: the copies' owners, and the node to run next
  mem,      \* contents of the device buffers
  host,     \* contents of the output buffers of the callers and of the handle
  call,     \* where a caller is in replay
  replays,  \* replays a caller began
  digest    \* what the last replay of a caller returned the digest of, << >> if it failed

cuda == <<handle, captures, mtx, h2d, d2h, stream, mem, host, call, replays, digest>>

CudaInit ==
  /\ Init
  /\ handle = "none" /\ captures = 0 /\ mtx = Handle /\ h2d = Handle /\ d2h = Handle
  /\ stream = << >> /\ mem = << >>
  /\ host = [t \in Callers \cup {Handle} |-> << >>]
  /\ call = [t \in Callers |-> "idle"]
  /\ replays = [t \in Callers |-> 0] /\ digest = [t \in Callers |-> << >>]
-----------------------------------------------------------------------------
(***************************************************************************)
(* capture and validate.  The nodes are in the order finalize left them.   *)
(***************************************************************************)
ById(m, n) == m.id < n.id
Kernels == SelectSeq(SortSeq(nodes, ById), LAMBDA n : n.category = "Kernel")

\* Any of the CUDA calls may fail: the engine gets an error and no handle.
Capture ==
  /\ pc = "order" /\ order = << >> /\ nodes \in CudaLists
  /\ handle = "none" /\ captures < MaxCaptures
  /\ captures' = captures + 1
  /\ \/ Kernels # << >> /\ handle' = "captured"
     \/ handle' = "none"
  /\ mem' = [b \in 0 .. Len(Kernels) |-> << >>]
  /\ h2d' = Handle /\ d2h' = Handle
  /\ UNCHANGED <<mtx, stream, host, call, replays, digest>>

Launch == stream' = Append(stream, [from |-> h2d, to |-> d2h, node |-> 0])

\* One launch over the handle's own buffers, without the mutex: only capture_graph has
\* the handle yet, and drops it when the validation fails.
Validate ==
  /\ handle = "captured"
  /\ \/ Launch /\ handle' = "validating"
     \/ handle' = "none" /\ UNCHANGED stream
  /\ UNCHANGED <<captures, mtx, h2d, d2h, mem, host, call, replays, digest>>

Validated ==
  /\ handle = "validating"
  /\ \/ stream = << >> /\ handle' = "resident"
     \/ handle' = "none"
  /\ stream' = << >>
  /\ UNCHANGED <<captures, mtx, h2d, d2h, mem, host, call, replays, digest>>
-----------------------------------------------------------------------------
\* The device runs the next node of the first launch: the input copy into buffer 0,
\* kernel k from buffer k - 1 into buffer k, the output copy from the last buffer.
Run ==
  /\ stream # << >>
  /\ LET launch == Head(stream)
         k == launch.node
     IN /\ mem' = IF k = 0 THEN [mem EXCEPT ![0] = <<launch.from>>]
                  ELSE IF k <= Len(Kernels)
                  THEN [mem EXCEPT ![k] = Append(mem[k - 1], Kernels[k].id)]
                  ELSE mem
        /\ host' = IF k > Len(Kernels) THEN [host EXCEPT ![launch.to] = mem[Len(Kernels)]]
                   ELSE host
        /\ stream' = IF k > Len(Kernels) THEN Tail(stream)
                     ELSE [stream EXCEPT ![1].node = k + 1]
  /\ UNCHANGED <<handle, captures, mtx, h2d, d2h, call, replays, digest>>
-----------------------------------------------------------------------------
(***************************************************************************)
(* replay, rebind and unload.                                              *)
(***************************************************************************)
Goto(t, s) == call' = [call EXCEPT ![t] = s]
At(t, s) == call[t] = s

Replay(t) ==
  /\ handle = "resident" /\ At(t, "idle") /\ replays[t] < MaxReplays
  /\ replays' = [replays EXCEPT ![t] = @ + 1]
  /\ digest' = [digest EXCEPT ![t] = << >>]
  /\ Goto(t, "lock")
  /\ UNCHANGED <<handle, captures, mtx, h2d, d2h, stream, mem, host>>

LockSkipped(t) ==
  /\ At(t, "lock") /\ Goto(t, "h2d")
  /\ UNCHANGED <<handle, captures, mtx, h2d, d2h, stream, mem, host, replays, digest>>
Lock(t) ==
  /\ At(t, "lock") /\ mtx = Handle
  /\ mtx' = t /\ Goto(t, "h2d")
  /\ UNCHANGED <<handle, captures, h2d, d2h, stream, mem, host, replays, digest>>

\* Every way out of replay gives the mutex back.
Return(t) == mtx' = Handle /\ Goto(t, "idle")

SetH2D(t) ==
  /\ At(t, "h2d")
  /\ \/ h2d' = t /\ Goto(t, "d2h") /\ UNCHANGED mtx
     \/ Return(t) /\ UNCHANGED h2d
  /\ UNCHANGED <<handle, captures, d2h, stream, mem, host, replays, digest>>

SetD2H(t) ==
  /\ At(t, "d2h")
  /\ \/ d2h' = t /\ Goto(t, "launch") /\ UNCHANGED mtx
     \/ Return(t) /\ UNCHANGED d2h
  /\ UNCHANGED <<handle, captures, h2d, stream, mem, host, replays, digest>>

ReplayLaunch(t) ==
  /\ At(t, "launch")
  /\ \/ Launch /\ Goto(t, "sync") /\ UNCHANGED mtx
     \/ Return(t) /\ UNCHANGED stream
  /\ UNCHANGED <<handle, captures, h2d, d2h, mem, host, replays, digest>>

Synchronize(t) ==
  /\ At(t, "sync")
  /\ \/ stream = << >> /\ Goto(t, "digest") /\ UNCHANGED <<mtx, stream>>
     \/ Return(t) /\ stream' = << >>
  /\ UNCHANGED <<handle, captures, h2d, d2h, mem, host, replays, digest>>

Digest(t) ==
  /\ At(t, "digest")
  /\ digest' = [digest EXCEPT ![t] = host[t]]
  /\ Return(t)
  /\ UNCHANGED <<handle, captures, h2d, d2h, stream, mem, host, replays>>

\* rebind binds either copy, or both, and does not look at what the calls return.
Rebind(t) ==
  /\ handle = "resident" /\ At(t, "idle") /\ mtx = Handle
  /\ h2d' \in {h2d, t} /\ d2h' \in {d2h, t}
  /\ UNCHANGED <<handle, captures, mtx, stream, mem, host, call, replays, digest>>

\* unload, after the engine found no lease on the entry.
Unload ==
  /\ handle = "resident" /\ mtx = Handle /\ \A t \in Callers : At(t, "idle")
  /\ handle' = "none" /\ mem' = << >>
  /\ UNCHANGED <<captures, mtx, h2d, d2h, stream, host, call, replays, digest>>

CudaNext ==
  \/ Capture \/ Validate \/ Validated \/ Run \/ Unload
  \/ \E t \in Callers :
       \/ Replay(t) \/ Lock(t) \/ SetH2D(t) \/ SetD2H(t) \/ ReplayLaunch(t)
       \/ Synchronize(t) \/ Digest(t) \/ Rebind(t)

\* A descriptor is captured on one backend.
BackendsNext ==
  \/ captures = 0 /\ Next /\ UNCHANGED cuda
  \/ CudaNext /\ UNCHANGED vars

BackendsSpec == CudaInit /\ [][BackendsNext]_<<vars, cuda>>
-----------------------------------------------------------------------------
\* A replay that returned success has in its caller's output buffer, and in its digest,
\* the caller's own input with every kernel applied once, whatever replays, rebinds and
\* failed calls of other callers fell between: the executable is shared, its copy
\* parameters and device buffers are too.  When every edge leads to a greater node id
\* the kernels were applied in an order that respects the edges.
RespectsKernels(s) ==
  \A i \in DOMAIN edges :
    {edges[i].from, edges[i].to} \subseteq Range(s) =>
      \E j, k \in DOMAIN s : j < k /\ s[j] = edges[i].from /\ s[k] = edges[i].to
CudaReplayIsOwn ==
  \A t \in Callers :
    At(t, "idle") /\ digest[t] # << >> =>
      LET applied == Tail(digest[t]) IN
      /\ Head(digest[t]) = t /\ host[t] = digest[t]
      /\ IsInjective(applied)
      /\ Range(applied) = {n.id : n \in {m \in Range(nodes) : m.category = "Kernel"}}
      /\ (\A i \in DOMAIN edges : edges[i].from < edges[i].to) => RespectsKernels(applied)
=============================================================================
