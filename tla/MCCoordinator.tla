--------------------------- MODULE MCCoordinator ----------------------------
(***************************************************************************)
(* The coordinator in an environment that sends every kind of message with *)
(* current, old, future and unset authority.  Graphs "g" and "h" differ in *)
(* key and artifact; "i" has the artifact of "g" under another workload.   *)
(***************************************************************************)
EXTENDS Coordinator, TLC

MCKeyOf == [x \in Graphs |-> CASE x = "g" -> "kg" [] x = "h" -> "kh" [] x = "i" -> "ki"]
MCArtifactOf == [x \in Graphs |-> IF x = "h" THEN "H" ELSE "G"]

From(type) == [Blank EXCEPT !.type = type, !.request_id = 1]
MCMessages ==
  {[From("Register") EXCEPT !.worker_id = w, !.worker_boot = b, !.epoch = e] :
     w \in WorkerIds, b \in Boots, e \in {1, 2}}
  \cup {[From("Lookup") EXCEPT !.body = g, !.cache_gen = c] : g \in Graphs \cup {None}, c \in {0, 1}}
  \cup {[From("CaptureResult") EXCEPT !.body = a, !.capture_attempt = n, !.cache_gen = c, !.epoch = c,
                                      !.worker_id = w, !.worker_boot = 1, !.status = st] :
          a \in Artifacts \cup {None}, n \in 1 .. MaxAttempts, c \in {1, 2},
          w \in WorkerIds, st \in {"Ok", "CaptureFailed"}}
  \cup {[From("ReplayInstruct") EXCEPT !.body = a, !.graph_gen = n] :
          a \in Artifacts \cup {None}, n \in {0, 2}}
  \cup {[From("Invalidate") EXCEPT !.roll = b] : b \in BOOLEAN}
  \cup {From(type) : type \in {"Hello", "ReplayResult", "Shutdown", "Welcome", "Undecodable"}}

Symmetry == Permutations(Socks)
\* Nothing reads the frame that was sent last.
StateView == <<authority, workers, catalog, waiting, conns, running>>
=============================================================================
