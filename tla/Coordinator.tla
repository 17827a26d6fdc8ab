---------------------------- MODULE Coordinator -----------------------------
(***************************************************************************)
(* The coordinator process of src/tools/coordinator_main.cpp: a single     *)
(* select loop in which handling one frame is one step.  It stands alone   *)
(* here, in an environment that may send it any message on any connection; *)
(* Cluster composes it with workers, clients and the network.              *)
(*                                                                         *)
(* A message is a record in which 0 is an unset field (valid() is false).  *)
(* Its payload is abstracted to the graph (descriptor and workload) or the *)
(* artifact it carries; None is a payload that does not decode.  Socket    *)
(* handles are reused, as the operating system reuses them.                *)
(***************************************************************************)
EXTENDS Naturals, FiniteSets

CONSTANTS
  Socks,        \* socket handles
  WorkerIds,    \* positive numbers
  Boots,        \* WorkerBootIds, positive numbers
  RequestIds,   \* positive numbers
  Graphs,       \* what clients look up
  KeyOf,        \* [Graphs -> keys]  digest of the facts the Lookup handler collects
  ArtifactOf,   \* [Graphs -> artifacts]  artifact id after finalize in the worker
  None,
  MaxGen,       \* bound on cache_gen, hence on epoch
  Messages,     \* what the environment may send
  MaxAttempts   \* bound on capture_counter

Keys == {KeyOf[g] : g \in Graphs}
Artifacts == {ArtifactOf[g] : g \in Graphs}
\* The two families of names under which graphs are registered.
ByKey(k) == <<"key", k>>
ByArtifact(a) == <<"artifact", a>>
Names == {ByKey(k) : k \in Keys} \cup {ByArtifact(a) : a \in Artifacts}

ASSUME CoordinatorAssumption ==
  /\ WorkerIds \subseteq Nat \ {0} /\ Boots \subseteq Nat \ {0} /\ RequestIds \subseteq Nat \ {0}
  /\ KeyOf \in [Graphs -> Keys] /\ ArtifactOf \in [Graphs -> Artifacts]
  /\ None \notin Graphs \cup Artifacts
  /\ MaxGen \in Nat /\ MaxAttempts \in Nat

VARIABLES
  epoch, cache_gen, graph_gen_counter, capture_counter,
  worker_boot,       \* worker id -> latest boot
  worker_connected,  \* set of worker ids
  worker_sock,       \* worker id -> socket; entries are never removed
  graphs,            \* name -> [artifact, generation, worker_id, cache_gen_at_publish]
  invalidated,       \* set of names
  pending,           \* capture attempt -> [client_sock, worker_id, request_id, key]
  pending_replays,   \* request id -> client socket
  conns,             \* open socket -> [is_worker, worker_id, worker_boot]
  out,               \* the frame the last step sent: [to, msg]
  running

authority == <<epoch, cache_gen>>
workers == <<worker_boot, worker_connected, worker_sock>>
catalog == <<graph_gen_counter, graphs, invalidated>>
waiting == <<capture_counter, pending, pending_replays>>
cvars == <<authority, workers, catalog, waiting, conns, out, running>>

Types == {"Register", "RegisterAck", "Hello", "Welcome", "Lookup", "LookupResult",
          "CaptureInstruct", "CaptureResult", "ReplayInstruct", "ReplayResult",
          "Invalidate", "InvalidateAck", "Shutdown", "Undecodable"}
Blank == [type |-> "Undecodable", request_id |-> 0, epoch |-> 0, cache_gen |-> 0, worker_id |-> 0,
          worker_boot |-> 0, graph_gen |-> 0, capture_attempt |-> 0, roll |-> FALSE,
          status |-> "Ok", body |-> None]
Message == [type : Types, request_id : Nat, epoch : Nat, cache_gen : Nat, worker_id : Nat,
            worker_boot : Nat, graph_gen : Nat, capture_attempt : Nat, roll : BOOLEAN,
            status : STRING, body : Graphs \cup Artifacts \cup {None}]
Entry == [artifact : Artifacts, generation : Nat, worker_id : WorkerIds, cache_gen_at_publish : Nat]
PendingCapture == [client_sock : Socks, worker_id : WorkerIds, request_id : Nat, key : Keys]
Conn == [is_worker : BOOLEAN, worker_id : Nat, worker_boot : Nat]

\* A worker registers with an id and a boot of its own.
ASSUME MessagesAssumption ==
  /\ Messages \subseteq Message
  /\ \A m \in Messages : m.type = "Register" => m.worker_id \in WorkerIds /\ m.worker_boot \in Boots

Put(f, k, v) == [x \in DOMAIN f \cup {k} |-> IF x = k THEN v ELSE f[x]]
Drop(f, k) == [x \in DOMAIN f \ {k} |-> f[x]]
NoFrame == [to |-> None, msg |-> Blank]

CInit ==
  /\ epoch = 1 /\ cache_gen = 1 /\ graph_gen_counter = 1 /\ capture_counter = 0
  /\ worker_boot = << >> /\ worker_connected = {} /\ worker_sock = << >>
  /\ graphs = << >> /\ invalidated = {}
  /\ pending = << >> /\ pending_replays = << >>
  /\ conns = << >> /\ out = NoFrame /\ running = TRUE
-----------------------------------------------------------------------------
Send(s, m) == out' = [to |-> s, msg |-> m]

\* send_status, and the answers that carry a graph: the current authority is
\* stamped on every frame.
SendStatusUncorrelated(s, type, request_id, status) ==
  Send(s, [Blank EXCEPT !.type = type, !.status = status, !.epoch = epoch, !.cache_gen = cache_gen])
SendStatus(s, type, request_id, status) ==
  Send(s, [Blank EXCEPT !.type = type, !.request_id = request_id, !.status = status,
                        !.epoch = epoch, !.cache_gen = cache_gen])

BootFor(w) == IF w \in DOMAIN worker_boot THEN worker_boot[w] ELSE 0
StaleEpoch(m) == m.epoch # 0 /\ m.epoch # epoch
StaleCacheGenUnchecked(m) == FALSE
StaleCacheGen(m) == m.cache_gen # 0 /\ m.cache_gen # cache_gen
StaleBoot(m) == /\ m.worker_id # 0 /\ BootFor(m.worker_id) # 0
                /\ m.worker_boot # 0 /\ m.worker_boot # BootFor(m.worker_id)

Accept(s) ==
  /\ running /\ s \notin DOMAIN conns
  /\ conns' = Put(conns, s, [is_worker |-> FALSE, worker_id |-> 0, worker_boot |-> 0])
  /\ out' = NoFrame
  /\ UNCHANGED <<authority, workers, catalog, waiting, running>>

\* The connection is dropped and the worker on it, if any, leaves worker_connected.
CloseWith(s, connected, sockets) ==
  /\ s \in DOMAIN conns
  /\ worker_connected' = connected /\ worker_sock' = sockets
  /\ conns' = Drop(conns, s)
  /\ out' = NoFrame
  /\ UNCHANGED <<authority, worker_boot, catalog, waiting, running>>

CloseKeepsWorker(s) == CloseWith(s, worker_connected, worker_sock)
\* End of stream, an error or an oversized frame.  pending, pending_replays and
\* worker_sock keep whatever they say about the socket.
Close(s) ==
  CloseWith(s, IF conns[s].is_worker THEN worker_connected \ {conns[s].worker_id}
                                     ELSE worker_connected, worker_sock)

(***************************************************************************)
(* Register and Hello precede the authority checks.                        *)
(***************************************************************************)
RegisterRefused(m) == /\ m.worker_id \in worker_connected
                      /\ BootFor(m.worker_id) # 0 /\ BootFor(m.worker_id) # m.worker_boot

Register(s, m) ==
  /\ m.type = "Register"
  /\ \/ /\ StaleEpoch(m)
        /\ SendStatus(s, "RegisterAck", m.request_id, "StaleEpoch")
        /\ UNCHANGED <<conns, workers>>
     \/ /\ ~StaleEpoch(m) /\ RegisterRefused(m)
        /\ SendStatus(s, "RegisterAck", m.request_id, "StaleWorkerBoot")
        /\ UNCHANGED <<conns, workers>>
     \/ /\ ~StaleEpoch(m) /\ ~RegisterRefused(m)
        /\ conns' = [conns EXCEPT ![s] = [is_worker |-> TRUE, worker_id |-> m.worker_id,
                                          worker_boot |-> m.worker_boot]]
        /\ worker_boot' = Put(worker_boot, m.worker_id, m.worker_boot)
        /\ worker_connected' = worker_connected \cup {m.worker_id}
        /\ worker_sock' = Put(worker_sock, m.worker_id, s)
        /\ SendStatus(s, "RegisterAck", m.request_id, "Ok")
  /\ UNCHANGED <<authority, catalog, waiting, running>>

Hello(s, m) ==
  /\ m.type = "Hello"
  /\ SendStatus(s, "Welcome", m.request_id, IF StaleEpoch(m) THEN "StaleEpoch" ELSE "Ok")
  /\ UNCHANGED <<authority, workers, catalog, waiting, conns, running>>

Undecodable(s, m) ==
  /\ m.type = "Undecodable"
  /\ SendStatus(s, "LookupResult", 0, "Malformed")
  /\ UNCHANGED <<authority, workers, catalog, waiting, conns, running>>

Checked == Types \ {"Register", "Hello", "Undecodable"}
ResultType(m) == IF m.type = "ReplayInstruct" THEN "ReplayResult" ELSE "LookupResult"

\* A message under an authority that is no longer the current one is answered on its
\* own connection, whoever is waiting for what it would have completed.
RejectStale(s, m) ==
  /\ m.type \in Checked
  /\ \/ StaleEpoch(m) /\ SendStatus(s, ResultType(m), m.request_id, "StaleEpoch")
     \/ /\ ~StaleEpoch(m) /\ StaleCacheGen(m)
        /\ SendStatus(s, "LookupResult", m.request_id, "StaleCacheGeneration")
     \/ /\ ~StaleEpoch(m) /\ ~StaleCacheGen(m) /\ StaleBoot(m)
        /\ SendStatus(s, "LookupResult", m.request_id, "StaleWorkerBoot")
  /\ UNCHANGED <<authority, workers, catalog, waiting, conns, running>>

Authorized(m, type) == m.type = type /\ ~StaleEpoch(m) /\ ~StaleCacheGen(m) /\ ~StaleBoot(m)

(***************************************************************************)
(* The handlers of authorized messages.                                    *)
(***************************************************************************)
Live(name) == name \in DOMAIN graphs /\ name \notin invalidated

LookupHit(s, m) ==
  LET name == ByKey(KeyOf[m.body]) IN
  /\ Authorized(m, "Lookup") /\ m.body \in Graphs /\ Live(name)
  /\ Send(s, [Blank EXCEPT !.type = "LookupResult", !.request_id = m.request_id, !.epoch = epoch,
                           !.cache_gen = cache_gen, !.graph_gen = graphs[name].generation,
                           !.body = graphs[name].artifact])
  /\ UNCHANGED <<authority, workers, catalog, waiting, conns, running>>

\* A payload that does not decode, or a miss without any worker.
LookupFails(s, m) ==
  /\ Authorized(m, "Lookup")
  /\ \/ /\ m.body \notin Graphs
        /\ \E status \in {"InvalidRequest", "Malformed"} :
             SendStatus(s, "LookupResult", m.request_id, status)
     \/ /\ m.body \in Graphs /\ ~Live(ByKey(KeyOf[m.body])) /\ worker_connected = {}
        /\ SendStatus(s, "LookupResult", m.request_id, "WorkerUnavailable")
  /\ UNCHANGED <<authority, workers, catalog, waiting, conns, running>>

NextAttemptUncounted == capture_counter
NextAttempt == capture_counter + 1

\* A miss goes to the connected worker with the smallest id, whether or not an attempt
\* for the same key is pending already.
LookupDispatch(s, m) ==
  /\ Authorized(m, "Lookup") /\ m.body \in Graphs /\ ~Live(ByKey(KeyOf[m.body]))
  /\ capture_counter < MaxAttempts
  /\ \E w \in worker_connected :
       /\ \A v \in worker_connected : w <= v
       /\ capture_counter' = NextAttempt
       /\ pending' = Put(pending, NextAttempt,
            [client_sock |-> s, worker_id |-> w, request_id |-> m.request_id, key |-> KeyOf[m.body]])
       /\ Send(worker_sock[w],
            [Blank EXCEPT !.type = "CaptureInstruct", !.epoch = epoch, !.cache_gen = cache_gen,
                          !.worker_id = w, !.worker_boot = worker_boot[w],
                          !.capture_attempt = NextAttempt, !.body = m.body])
  /\ UNCHANGED <<authority, workers, catalog, pending_replays, conns, running>>

CaptureDuplicate(s, m) ==
  /\ Authorized(m, "CaptureResult") /\ m.capture_attempt \notin DOMAIN pending
  /\ SendStatus(s, "LookupResult", m.request_id, "DuplicateCaptureCompletion")
  /\ UNCHANGED <<authority, workers, catalog, waiting, conns, running>>

\* Who is answered when an attempt completes, and what its success is registered as.
WaiterSender(s, m) == s
Waiter(s, m) == pending[m.capture_attempt].client_sock
NextGraphGenLoaded == graph_gen_counter
NextGraphGen == graph_gen_counter + 1
PublishedAsKey(m) == {ByKey(pending[m.capture_attempt].key)}
PublishedAs(m) == {ByKey(pending[m.capture_attempt].key), ByArtifact(m.body)}

\* The worker reports a failure, or (a generation having been taken) its payload does
\* not decode.
CaptureFailed(s, m) ==
  LET pc == pending[m.capture_attempt] IN
  /\ Authorized(m, "CaptureResult") /\ m.capture_attempt \in DOMAIN pending
  /\ m.status # "Ok" \/ m.body \notin Artifacts
  /\ pending' = Drop(pending, m.capture_attempt)
  /\ graph_gen_counter' = IF m.status = "Ok" THEN NextGraphGen ELSE graph_gen_counter
  /\ SendStatus(Waiter(s, m), "LookupResult", pc.request_id, "CaptureFailed")
  /\ UNCHANGED <<authority, workers, graphs, invalidated, capture_counter, pending_replays, conns,
                 running>>

\* The graph is registered under the key of the lookup and under its artifact id, with
\* a new generation.
CapturePublish(s, m) ==
  LET pc == pending[m.capture_attempt]
      names == PublishedAs(m)
      new == [artifact |-> m.body, generation |-> NextGraphGen,
              worker_id |-> pc.worker_id, cache_gen_at_publish |-> cache_gen] IN
  /\ Authorized(m, "CaptureResult") /\ m.capture_attempt \in DOMAIN pending
  /\ m.status = "Ok" /\ m.body \in Artifacts
  /\ pending' = Drop(pending, m.capture_attempt)
  /\ graph_gen_counter' = NextGraphGen
  /\ graphs' = [n \in DOMAIN graphs \cup names |-> IF n \in names THEN new ELSE graphs[n]]
  /\ invalidated' = invalidated \ names
  /\ Send(Waiter(s, m),
          [Blank EXCEPT !.type = "LookupResult", !.request_id = pc.request_id, !.epoch = epoch,
                        !.cache_gen = cache_gen, !.graph_gen = NextGraphGen,
                        !.body = m.body])
  /\ UNCHANGED <<authority, workers, capture_counter, pending_replays, conns, running>>

\* A replay is refused for a graph that is unknown, invalidated or of another
\* generation, or whose worker never registered.
ReplayError(m) ==
  LET name == ByArtifact(m.body) IN
  IF m.body \notin Artifacts THEN "InvalidRequest"
  ELSE IF ~Live(name) \/ (m.graph_gen # 0 /\ m.graph_gen # graphs[name].generation)
       THEN "StaleGraphGeneration"
  ELSE IF graphs[name].worker_id \notin DOMAIN worker_sock THEN "WorkerUnavailable"
  ELSE "Ok"

ReplayRefused(s, m) ==
  /\ Authorized(m, "ReplayInstruct") /\ ReplayError(m) # "Ok"
  /\ SendStatus(s, "ReplayResult", m.request_id, ReplayError(m))
  /\ UNCHANGED <<authority, workers, catalog, waiting, conns, running>>

\* Whether the worker is still connected is not asked.
ReplayForward(s, m) ==
  LET e == graphs[ByArtifact(m.body)]
      w == e.worker_id IN
  /\ Authorized(m, "ReplayInstruct") /\ ReplayError(m) = "Ok"
  /\ pending_replays' = Put(pending_replays, m.request_id, s)
  /\ Send(worker_sock[w],
          [Blank EXCEPT !.type = "ReplayInstruct", !.request_id = m.request_id, !.epoch = epoch,
                        !.cache_gen = cache_gen, !.worker_id = w, !.worker_boot = worker_boot[w],
                        !.graph_gen = e.generation, !.body = m.body])
  /\ UNCHANGED <<authority, workers, catalog, capture_counter, pending, conns, running>>

\* The result goes to the socket noted for its request id, and back to the sender when
\* there is none.
ReplayResult(s, m) ==
  LET known == m.request_id \in DOMAIN pending_replays IN
  /\ Authorized(m, "ReplayResult")
  /\ pending_replays' = Drop(pending_replays, m.request_id)
  /\ Send(IF known THEN pending_replays[m.request_id] ELSE s,
          [Blank EXCEPT !.type = "ReplayResult", !.request_id = m.request_id, !.epoch = epoch,
                        !.cache_gen = cache_gen, !.status = m.status, !.body = m.body])
  /\ UNCHANGED <<authority, workers, catalog, capture_counter, pending, conns, running>>

AllInvalidatedByKey == invalidated \cup {n \in DOMAIN graphs : n[1] = "key"}
AllInvalidated == invalidated \cup DOMAIN graphs

Invalidate(s, m) ==
  /\ Authorized(m, "Invalidate") /\ cache_gen < MaxGen
  /\ cache_gen' = cache_gen + 1
  /\ epoch' = IF m.roll THEN epoch + 1 ELSE epoch
  /\ invalidated' = AllInvalidated
  /\ Send(s, [Blank EXCEPT !.type = "InvalidateAck", !.request_id = m.request_id,
                           !.epoch = epoch', !.cache_gen = cache_gen'])
  /\ UNCHANGED <<workers, graph_gen_counter, graphs, waiting, conns, running>>

\* The loop ends with the round in which it is told to; a message of any other type
\* is dropped.
Shutdown(s, m) ==
  /\ Authorized(m, "Shutdown")
  /\ running' = FALSE /\ out' = NoFrame
  /\ UNCHANGED <<authority, workers, catalog, waiting, conns>>

Ignored(s, m) ==
  /\ \E type \in {"RegisterAck", "Welcome", "LookupResult", "CaptureInstruct", "InvalidateAck"} :
       Authorized(m, type)
  /\ out' = NoFrame
  /\ UNCHANGED <<authority, workers, catalog, waiting, conns, running>>

Exit ==
  /\ ~running /\ conns # << >>
  /\ conns' = << >> /\ out' = NoFrame
  /\ UNCHANGED <<authority, workers, catalog, waiting, running>>

\* One frame, of whatever kind.
Handle(s, m) ==
  /\ s \in DOMAIN conns
  /\ \/ Register(s, m) \/ Hello(s, m) \/ Undecodable(s, m) \/ RejectStale(s, m)
     \/ LookupHit(s, m) \/ LookupFails(s, m) \/ LookupDispatch(s, m)
     \/ CaptureDuplicate(s, m) \/ CaptureFailed(s, m) \/ CapturePublish(s, m)
     \/ ReplayRefused(s, m) \/ ReplayForward(s, m) \/ ReplayResult(s, m)
     \/ Invalidate(s, m) \/ Shutdown(s, m) \/ Ignored(s, m)

\* The environment connects, disconnects and sends at will.
CNext ==
  \/ \E s \in Socks : Accept(s) \/ Close(s) \/ \E m \in Messages : Handle(s, m)
  \/ Exit

CSpec == CInit /\ [][CNext]_cvars
-----------------------------------------------------------------------------
\* The shape of the coordinator's state.
CTypeOK ==
  /\ epoch \in Nat \ {0} /\ cache_gen \in Nat \ {0} /\ graph_gen_counter \in Nat
  /\ capture_counter \in Nat
  /\ DOMAIN worker_boot \subseteq WorkerIds /\ worker_boot \in [DOMAIN worker_boot -> Boots]
  /\ DOMAIN worker_sock = DOMAIN worker_boot /\ worker_sock \in [DOMAIN worker_sock -> Socks]
  /\ worker_connected \subseteq DOMAIN worker_boot
  /\ DOMAIN graphs \subseteq Names /\ graphs \in [DOMAIN graphs -> Entry]
  /\ invalidated \subseteq DOMAIN graphs
  /\ DOMAIN pending \subseteq Nat /\ pending \in [DOMAIN pending -> PendingCapture]
  /\ DOMAIN pending_replays \subseteq Nat /\ pending_replays \in [DOMAIN pending_replays -> Socks]
  /\ DOMAIN conns \subseteq Socks /\ conns \in [DOMAIN conns -> Conn]
  /\ running \in BOOLEAN

\* A graph that lookups still hit or replays still reach was published under the
\* current cache generation: no completion slips in around an invalidation.
LiveIsCurrent == \A n \in DOMAIN graphs : Live(n) => graphs[n].cache_gen_at_publish = cache_gen

\* A name never goes back to an older generation, nor does another graph reuse one:
\* two names with one generation are the key and the artifact of one capture.
GenerationNamesOneCapture ==
  \A n, o \in DOMAIN graphs :
    /\ graphs[n].generation <= graph_gen_counter
    /\ graphs[n].generation = graphs[o].generation => graphs[n] = graphs[o]

\* An attempt completes at most once: an attempt that left pending never comes back,
\* so a second CaptureResult for it can only be refused.
AttemptCompletesOnce ==
  [][/\ \A a \in DOMAIN pending' \ DOMAIN pending : a > capture_counter
     /\ \A a \in DOMAIN pending : a <= capture_counter]_cvars

\* The authority under which messages are judged never moves back, and with a
\* generation that grows a name only passes to a newer capture.
AuthorityMonotonic ==
  [][/\ epoch <= epoch' /\ cache_gen <= cache_gen'
     /\ \A n \in DOMAIN graphs :
          n \in DOMAIN graphs' /\ (graphs'[n] # graphs[n] => graphs'[n].generation > graphs[n].generation)]_cvars
=============================================================================
