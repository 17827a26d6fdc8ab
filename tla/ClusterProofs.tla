---------------------------- MODULE ClusterProofs ----------------------------
(***************************************************************************)
(* First the coordinator by itself, under any messages: it keeps its       *)
(* catalogue consistent with its authority.  Then the coordinator among    *)
(* workers that die and restart, clients that leave, and socket handles    *)
(* that are used again.  All for any numbers of them.                      *)
(*                                                                         *)
(* The second argument follows a connection: a handle has one live owner,  *)
(* a registration is the first frame of its connection, so that a          *)
(* connection that registered keeps its worker and boot; what is sent to   *)
(* it, and what comes back over it, is of that boot.                       *)
(***************************************************************************)
EXTENDS Cluster, TLAPS

-----------------------------------------------------------------------------
(***************************************************************************)
(* The coordinator.  Four handlers write the state these theorems are      *)
(* about; StepCases separates them from the rest once, and each invariant  *)
(* is then shown to survive those four.                                    *)
(***************************************************************************)
Quiet == UNCHANGED <<epoch, cache_gen, graph_gen_counter, capture_counter, graphs, invalidated, pending>>
Dispatches == \E s \in Socks, m \in Messages : LookupDispatch(s, m)
Fails == \E s \in Socks, m \in Messages : CaptureFailed(s, m)
Publishes == \E s \in Socks, m \in Messages : CapturePublish(s, m)
Invalidates == \E s \in Socks, m \in Messages : Invalidate(s, m)

\* Every step but a dispatch, a capture's completion and an invalidation leaves the
\* authority, the catalogue and the pending captures alone.
LEMMA StepCases ==
  ASSUME [CNext]_cvars
  PROVE  Quiet \/ Dispatches \/ Fails \/ Publishes \/ Invalidates
<1>1. CASE UNCHANGED cvars
  BY <1>1, Zenon DEF Quiet, cvars, authority, catalog, waiting
<1>2. CASE Exit
  BY <1>2, Zenon DEF Quiet, Exit, authority, catalog, waiting
<1>3. ASSUME NEW s \in Socks, Accept(s) \/ Close(s) PROVE Quiet
  BY <1>3, Zenon DEF Quiet, Accept, Close, CloseWith, authority, catalog, waiting
<1>4. ASSUME NEW s \in Socks, NEW m \in Messages, Handle(s, m)
      PROVE  Quiet \/ Dispatches \/ Fails \/ Publishes \/ Invalidates
  <2>1. CASE \/ Register(s, m) \/ Hello(s, m) \/ Undecodable(s, m) \/ RejectStale(s, m)
             \/ LookupHit(s, m) \/ LookupFails(s, m) \/ CaptureDuplicate(s, m)
    BY <2>1, Zenon DEF Quiet, Register, Hello, Undecodable, RejectStale, LookupHit, LookupFails,
                CaptureDuplicate, authority, catalog, waiting
  <2>2. CASE \/ ReplayRefused(s, m) \/ ReplayForward(s, m) \/ ReplayResult(s, m)
             \/ Shutdown(s, m) \/ Ignored(s, m)
    BY <2>2, Zenon DEF Quiet, ReplayRefused, ReplayForward, ReplayResult, Shutdown, Ignored,
                authority, catalog, waiting
  <2>3. CASE LookupDispatch(s, m) \/ CaptureFailed(s, m) \/ CapturePublish(s, m) \/ Invalidate(s, m)
    BY <2>3, Zenon DEF Dispatches, Fails, Publishes, Invalidates
  <2> QED BY <1>4, <2>1, <2>2, <2>3, Zenon DEF Handle
<1> QED BY <1>1, <1>2, <1>3, <1>4, Zenon DEF CNext
-----------------------------------------------------------------------------
\* The empty map of any type.
LEMMA EmptyType ==
  ASSUME NEW S, NEW K PROVE DOMAIN << >> \subseteq K /\ << >> \in [DOMAIN << >> -> S]
  OBVIOUS

\* The parts of CTypeOK that change together.
AuthorityType == epoch \in Nat \ {0} /\ cache_gen \in Nat \ {0}
CounterType == graph_gen_counter \in Nat /\ capture_counter \in Nat
WorkersType ==
  /\ DOMAIN worker_boot \subseteq WorkerIds /\ worker_boot \in [DOMAIN worker_boot -> Boots]
  /\ DOMAIN worker_sock = DOMAIN worker_boot /\ worker_sock \in [DOMAIN worker_sock -> Socks]
  /\ worker_connected \subseteq DOMAIN worker_boot
GraphsType ==
  /\ DOMAIN graphs \subseteq Names /\ graphs \in [DOMAIN graphs -> Entry]
  /\ invalidated \subseteq DOMAIN graphs
PendingType == DOMAIN pending \subseteq Nat /\ pending \in [DOMAIN pending -> PendingCapture]
ReplaysType ==
  DOMAIN pending_replays \subseteq Nat /\ pending_replays \in [DOMAIN pending_replays -> Socks]
ConnsType == DOMAIN conns \subseteq Socks /\ conns \in [DOMAIN conns -> Conn]

TypeOfParts == /\ AuthorityType /\ CounterType /\ WorkersType /\ GraphsType /\ PendingType
               /\ ReplaysType /\ ConnsType /\ running \in BOOLEAN

\* CTypeOK is the conjunction of its parts, in a state and in the next one.
LEMMA TypeParts == (CTypeOK <=> TypeOfParts) /\ (CTypeOK' <=> TypeOfParts')
  BY Zenon DEF TypeOfParts, CTypeOK, AuthorityType, CounterType, WorkersType, GraphsType, PendingType,
       ReplaysType,
         ConnsType

\* The coordinator starts well-typed: every map is empty.
LEMMA InitType == CInit => CTypeOK
<1> SUFFICES ASSUME CInit PROVE CTypeOK
  BY Zenon
<1>1. AuthorityType /\ CounterType /\ running \in BOOLEAN
  BY DEF CInit, AuthorityType, CounterType
<1>2. WorkersType /\ GraphsType
  BY EmptyType, Zenon DEF CInit, WorkersType, GraphsType
<1>3. PendingType /\ ReplaysType /\ ConnsType
  BY EmptyType, Zenon DEF CInit, PendingType, ReplaysType, ConnsType
<1> QED BY <1>1, <1>2, <1>3, TypeParts, Zenon DEF TypeOfParts

\* Steps that change connections and workers only.
LEMMA ConnectionType ==
  ASSUME CTypeOK, NEW s \in Socks, Accept(s) \/ Close(s) PROVE CTypeOK'
<1> USE DEF TypeOfParts
<1> TypeOfParts
  BY TypeParts, Zenon
<1> SUFFICES TypeOfParts'
  BY TypeParts, Zenon
<1>1. ConnsType'
  <2>1. CASE Accept(s)
    <3>1. [is_worker |-> FALSE, worker_id |-> 0, worker_boot |-> 0] \in Conn
      BY Zenon DEF Conn
    <3>2. conns' = Put(conns, s, [is_worker |-> FALSE, worker_id |-> 0, worker_boot |-> 0])
      BY <2>1, Zenon DEF Accept
    <3> QED BY <3>1, <3>2, Zenon DEF Put, ConnsType
  <2>2. CASE Close(s)
    BY <2>2, Zenon DEF Drop, Close, CloseWith, ConnsType
  <2> QED BY <2>1, <2>2, Zenon
<1>2. WorkersType'
  BY Zenon DEF Accept, Close, CloseWith, workers, WorkersType
<1>3. UNCHANGED <<authority, catalog, waiting, running>>
  BY Zenon DEF Accept, Close, CloseWith
<1>4. (AuthorityType /\ CounterType /\ GraphsType /\ PendingType /\ ReplaysType /\ running \in BOOLEAN)'
  BY <1>3, Zenon DEF authority, catalog, waiting, AuthorityType, CounterType, GraphsType, PendingType,
              ReplaysType
<1> QED BY <1>1, <1>2, <1>4, Zenon

\* Registering a worker writes worker_boot, worker_sock and worker_connected together.
LEMMA RegisterType ==
  ASSUME CTypeOK, NEW s \in DOMAIN conns, NEW m \in Messages, Register(s, m) PROVE CTypeOK'
<1> USE DEF TypeOfParts
<1> TypeOfParts
  BY TypeParts, Zenon
<1> SUFFICES TypeOfParts'
  BY TypeParts, Zenon
<1>0. /\ m \in Message /\ s \in Socks
      /\ m.worker_id \in WorkerIds /\ m.worker_boot \in Boots
  BY MessagesAssumption, Zenon DEF Register, ConnsType
<1>1. ConnsType'
  <2>1. [is_worker |-> TRUE, worker_id |-> m.worker_id, worker_boot |-> m.worker_boot] \in Conn
    BY <1>0, Zenon DEF Conn, Message
  <2> QED BY <2>1, Zenon DEF Register, ConnsType
<1>2. WorkersType'
  <2>1. CASE UNCHANGED workers
    BY <2>1, Zenon DEF workers, WorkersType
  <2>2. CASE /\ worker_boot' = Put(worker_boot, m.worker_id, m.worker_boot)
             /\ worker_connected' = worker_connected \cup {m.worker_id}
             /\ worker_sock' = Put(worker_sock, m.worker_id, s)
    <3>1. /\ DOMAIN worker_boot' = DOMAIN worker_boot \cup {m.worker_id}
          /\ DOMAIN worker_boot' \subseteq WorkerIds /\ worker_boot' \in [DOMAIN worker_boot' -> Boots]
      BY <1>0, <2>2, Zenon DEF Put, WorkersType
    <3>2. /\ DOMAIN worker_sock' = DOMAIN worker_sock \cup {m.worker_id}
          /\ worker_sock' \in [DOMAIN worker_sock' -> Socks]
      BY <1>0, <2>2, Zenon DEF Put, WorkersType
    <3> QED BY <2>2, <3>1, <3>2, Zenon DEF WorkersType
  <2> QED BY <2>1, <2>2, Zenon DEF Register
<1>3. (AuthorityType /\ CounterType /\ GraphsType /\ PendingType /\ ReplaysType /\ running \in BOOLEAN)'
  BY Zenon DEF Register, authority, catalog, waiting, AuthorityType, CounterType, GraphsType, PendingType,
         ReplaysType
<1> QED BY <1>1, <1>2, <1>3, Zenon

\* Handlers that write nothing but the frame they send and the running flag.
LEMMA AnswerType ==
  ASSUME CTypeOK, NEW s \in Socks, NEW m \in Messages,
         UNCHANGED <<authority, workers, catalog, waiting, conns>>, running' \in BOOLEAN
  PROVE  CTypeOK'
<1> USE DEF TypeOfParts
<1> TypeOfParts
  BY TypeParts, Zenon
<1> SUFFICES TypeOfParts'
  BY TypeParts, Zenon
<1> QED BY Zenon DEF authority, workers, catalog, waiting, AuthorityType, CounterType, WorkersType,
               GraphsType, PendingType, ReplaysType, ConnsType

\* A dispatch notes who waits for what; only the pending captures change.
LEMMA DispatchType ==
  ASSUME CTypeOK, NEW s \in DOMAIN conns, NEW m \in Messages, LookupDispatch(s, m) PROVE CTypeOK'
<1> USE DEF TypeOfParts
<1> TypeOfParts
  BY TypeParts, Zenon
<1> SUFFICES TypeOfParts'
  BY TypeParts, Zenon
<1>0. m \in Message /\ s \in Socks
  BY MessagesAssumption, Zenon DEF ConnsType
<1>1. capture_counter' = capture_counter + 1
  BY Zenon DEF LookupDispatch, NextAttempt
<1>2. PICK w \in worker_connected :
        pending' = Put(pending, capture_counter + 1,
          [client_sock |-> s, worker_id |-> w, request_id |-> m.request_id, key |-> KeyOf[m.body]])
  BY Zenon DEF LookupDispatch, NextAttempt
<1>3. [client_sock |-> s, worker_id |-> w, request_id |-> m.request_id, key |-> KeyOf[m.body]]
        \in PendingCapture
  BY <1>0, Zenon DEF LookupDispatch, PendingCapture, Message, WorkersType, Keys
<1>4. PendingType'
  BY <1>2, <1>3 DEF Put, PendingType, CounterType
<1>5. UNCHANGED <<authority, workers, catalog, pending_replays, conns, running>>
  BY Zenon DEF LookupDispatch
<1>6. (AuthorityType /\ CounterType /\ WorkersType /\ GraphsType /\ ReplaysType /\ ConnsType
        /\ running \in BOOLEAN)'
  BY <1>1, <1>5 DEF authority, workers, catalog, AuthorityType, CounterType, WorkersType, GraphsType,
                    ReplaysType, ConnsType
<1> QED BY <1>4, <1>6, Zenon

\* A completion takes its attempt out of pending, and a success enters two names.
LEMMA CompletionType ==
  ASSUME CTypeOK, NEW s \in DOMAIN conns, NEW m \in Messages,
         CaptureFailed(s, m) \/ CapturePublish(s, m)
  PROVE  CTypeOK'
<1> USE DEF TypeOfParts
<1> TypeOfParts
  BY TypeParts, Zenon
<1> SUFFICES TypeOfParts'
  BY TypeParts, Zenon
<1>0. m \in Message /\ m.capture_attempt \in DOMAIN pending
  BY MessagesAssumption, Zenon DEF CaptureFailed, CapturePublish
<1>1. PendingType'
  BY Zenon DEF Drop, CaptureFailed, CapturePublish, PendingType
<1>2. CounterType'
  BY DEF CaptureFailed, CapturePublish, NextGraphGen, CounterType
<1>3. GraphsType'
  <2>1. CASE CaptureFailed(s, m)
    BY <2>1, Zenon DEF CaptureFailed, GraphsType
  <2>2. CASE CapturePublish(s, m)
    <3> DEFINE new == [artifact |-> m.body, generation |-> NextGraphGen,
                       worker_id |-> pending[m.capture_attempt].worker_id,
                       cache_gen_at_publish |-> cache_gen]
    <3>1. /\ m.body \in Artifacts
          /\ graphs' = [n \in DOMAIN graphs \cup PublishedAs(m) |->
                          IF n \in PublishedAs(m) THEN new ELSE graphs[n]]
          /\ invalidated' = invalidated \ PublishedAs(m)
      BY <2>2, Zenon DEF CapturePublish
    <3>2. new \in Entry
      BY <1>0, <3>1 DEF Entry, NextGraphGen, PendingType, PendingCapture, CounterType, AuthorityType
    <3>3. PublishedAs(m) \subseteq Names
      BY <1>0, <3>1, Zenon DEF PublishedAs, Names, PendingType, PendingCapture
    <3> HIDE DEF new
    <3> QED BY <3>1, <3>2, <3>3, Zenon DEF GraphsType
  <2> QED BY <2>1, <2>2, Zenon
<1>4. UNCHANGED <<authority, workers, pending_replays, conns, running>>
  BY Zenon DEF CaptureFailed, CapturePublish
<1>5. (AuthorityType /\ WorkersType /\ ReplaysType /\ ConnsType /\ running \in BOOLEAN)'
  BY <1>4, Zenon DEF authority, workers, AuthorityType, WorkersType, ReplaysType, ConnsType
<1> QED BY <1>1, <1>2, <1>3, <1>5, Zenon

\* Forwarding a replay notes its client, and its result takes the note away.
LEMMA ReplayType ==
  ASSUME CTypeOK, NEW s \in DOMAIN conns, NEW m \in Messages, ReplayForward(s, m) \/ ReplayResult(s, m)
  PROVE  CTypeOK'
<1> USE DEF TypeOfParts
<1> TypeOfParts
  BY TypeParts, Zenon
<1> SUFFICES TypeOfParts'
  BY TypeParts, Zenon
<1>0. m.request_id \in Nat /\ s \in Socks
  BY MessagesAssumption, Zenon DEF ConnsType, Message
<1>1. ReplaysType'
  BY <1>0, Zenon DEF Put, Drop, ReplayForward, ReplayResult, ReplaysType
<1>2. UNCHANGED <<authority, workers, catalog, capture_counter, pending, conns, running>>
  BY Zenon DEF ReplayForward, ReplayResult
<1>3. (AuthorityType /\ CounterType /\ WorkersType /\ GraphsType /\ PendingType /\ ConnsType
        /\ running \in BOOLEAN)'
  BY <1>2, Zenon DEF authority, workers, catalog, AuthorityType, CounterType, WorkersType, GraphsType,
              PendingType, ConnsType
<1> QED BY <1>1, <1>3, Zenon

\* An invalidation raises the authority and marks names of the catalogue.
LEMMA InvalidateType ==
  ASSUME CTypeOK, NEW s \in DOMAIN conns, NEW m \in Messages, Invalidate(s, m) PROVE CTypeOK'
<1> USE DEF TypeOfParts
<1> TypeOfParts
  BY TypeParts, Zenon
<1> SUFFICES TypeOfParts'
  BY TypeParts, Zenon
<1>1. AuthorityType'
  BY DEF Invalidate, AuthorityType
<1>2. GraphsType'
  BY Zenon DEF Invalidate, AllInvalidated, GraphsType
<1>3. UNCHANGED <<workers, graph_gen_counter, waiting, conns, running>>
  BY Zenon DEF Invalidate
<1>4. (CounterType /\ WorkersType /\ PendingType /\ ReplaysType /\ ConnsType /\ running \in BOOLEAN)'
  BY <1>3, Zenon DEF workers, waiting, CounterType, WorkersType, PendingType, ReplaysType, ConnsType
<1> QED BY <1>1, <1>2, <1>4, Zenon

\* Every step keeps the coordinator's state well-typed.
LEMMA StepType == CTypeOK /\ [CNext]_cvars => CTypeOK'
<1> SUFFICES ASSUME CTypeOK, [CNext]_cvars PROVE CTypeOK'
  BY Zenon
<1>1. CASE UNCHANGED cvars
  BY <1>1, Zenon DEF cvars, authority, workers, catalog, waiting, CTypeOK
<1>2. CASE Exit
  BY <1>2, EmptyType, Zenon DEF Exit, authority, workers, catalog, waiting, CTypeOK
<1>3. ASSUME NEW s \in Socks, Accept(s) \/ Close(s) PROVE CTypeOK'
  BY <1>3, ConnectionType, Zenon
<1>4. ASSUME NEW s \in Socks, NEW m \in Messages, Handle(s, m) PROVE CTypeOK'
  <2>0. s \in DOMAIN conns /\ running \in BOOLEAN
    BY <1>4, Zenon DEF Handle, CTypeOK
  <2>1. CASE Register(s, m)
    BY <2>0, <2>1, RegisterType, Zenon
  <2>2. CASE Hello(s, m) \/ Undecodable(s, m) \/ RejectStale(s, m) \/ LookupHit(s, m)
    BY <2>0, <2>2, AnswerType, Zenon DEF Hello, Undecodable, RejectStale, LookupHit
  <2>3. CASE LookupFails(s, m) \/ CaptureDuplicate(s, m) \/ ReplayRefused(s, m) \/ Ignored(s, m)
    BY <2>0, <2>3, AnswerType, Zenon DEF LookupFails, CaptureDuplicate, ReplayRefused, Ignored
  <2>4. CASE Shutdown(s, m)
    BY <2>0, <2>4, AnswerType, Zenon DEF Shutdown
  <2>5. CASE LookupDispatch(s, m)
    BY <2>0, <2>5, DispatchType, Zenon
  <2>6. CASE CaptureFailed(s, m) \/ CapturePublish(s, m)
    BY <2>0, <2>6, CompletionType, Zenon
  <2>7. CASE ReplayForward(s, m) \/ ReplayResult(s, m)
    BY <2>0, <2>7, ReplayType, Zenon
  <2>8. CASE Invalidate(s, m)
    BY <2>0, <2>8, InvalidateType, Zenon
  <2> QED BY <1>4, <2>1, <2>2, <2>3, <2>4, <2>5, <2>6, <2>7, <2>8, Zenon DEF Handle
<1> QED BY <1>1, <1>2, <1>3, <1>4, Zenon DEF CNext

\* The state of coordinator_main.cpp is well-typed in every reachable state.
THEOREM TypeCorrect == CSpec => []CTypeOK
  BY InitType, StepType, PTL DEF CSpec
-----------------------------------------------------------------------------
\* What a successful completion does to the catalogue.
LEMMA PublishEffect ==
  ASSUME CTypeOK, Publishes
  PROVE  \E names \in SUBSET Names, new \in Entry :
           /\ new.generation = graph_gen_counter + 1 /\ new.cache_gen_at_publish = cache_gen
           /\ graphs' = [n \in DOMAIN graphs \cup names |-> IF n \in names THEN new ELSE graphs[n]]
           /\ invalidated' = invalidated \ names
           /\ graph_gen_counter' = graph_gen_counter + 1
           /\ UNCHANGED <<epoch, cache_gen, capture_counter>>
<1>1. PICK s \in Socks, m \in Messages : CapturePublish(s, m)
  BY Zenon DEF Publishes
<1> DEFINE names == PublishedAs(m)
           new == [artifact |-> m.body, generation |-> NextGraphGen,
                   worker_id |-> pending[m.capture_attempt].worker_id,
                   cache_gen_at_publish |-> cache_gen]
<1>2. /\ m.body \in Artifacts /\ m.capture_attempt \in DOMAIN pending
      /\ graphs' = [n \in DOMAIN graphs \cup names |-> IF n \in names THEN new ELSE graphs[n]]
      /\ invalidated' = invalidated \ names
      /\ graph_gen_counter' = NextGraphGen
      /\ UNCHANGED <<epoch, cache_gen, capture_counter>>
  BY <1>1, Zenon DEF CapturePublish, authority
<1>3. new \in Entry /\ new.generation = graph_gen_counter + 1 /\ new.cache_gen_at_publish = cache_gen
  BY <1>2 DEF Entry, NextGraphGen, CTypeOK, PendingCapture
<1>4. names \in SUBSET Names
  BY <1>2, Zenon DEF PublishedAs, Names, CTypeOK, PendingCapture
<1>5. graph_gen_counter' = graph_gen_counter + 1
  BY <1>2, Zenon DEF NextGraphGen
<1> HIDE DEF names, new
<1> QED BY <1>2, <1>3, <1>4, <1>5, Zenon

\* A graph under a name that is live was published under the current cache generation.
THEOREM LiveIsCurrentAlways == CSpec => []LiveIsCurrent
<1>1. CInit => LiveIsCurrent
  BY DEF CInit, LiveIsCurrent
<1>2. CTypeOK /\ LiveIsCurrent /\ [CNext]_cvars => LiveIsCurrent'
  <2> SUFFICES ASSUME CTypeOK, LiveIsCurrent, [CNext]_cvars PROVE LiveIsCurrent'
    BY Zenon
  <2>1. CASE Quiet \/ Dispatches \/ Fails
    BY <2>1, Zenon DEF Quiet, Dispatches, Fails, LookupDispatch, CaptureFailed, authority, catalog,
                LiveIsCurrent, Live
  <2>2. CASE Publishes
    BY <2>2, PublishEffect, Zenon DEF LiveIsCurrent, Live
  <2>3. CASE Invalidates
    BY <2>3, Zenon DEF Invalidates, Invalidate, AllInvalidated, LiveIsCurrent, Live
  <2> QED BY <2>1, <2>2, <2>3, StepCases, Zenon
<1> QED BY <1>1, <1>2, TypeCorrect, PTL DEF CSpec

\* A generation names one capture: names that share it hold the same graph.
THEOREM GenerationUnique == CSpec => []GenerationNamesOneCapture
<1>1. CInit => GenerationNamesOneCapture
  BY DEF CInit, GenerationNamesOneCapture
<1>2. CTypeOK /\ GenerationNamesOneCapture /\ [CNext]_cvars => GenerationNamesOneCapture'
  <2> SUFFICES ASSUME CTypeOK, GenerationNamesOneCapture, [CNext]_cvars
               PROVE  GenerationNamesOneCapture'
    BY Zenon
  <2>0. graph_gen_counter \in Nat /\ \A n \in DOMAIN graphs : graphs[n].generation \in Nat
    BY Zenon DEF CTypeOK, Entry
  <2>1. CASE Quiet \/ Dispatches \/ Invalidates
    BY <2>1, Zenon DEF Quiet, Dispatches, Invalidates, LookupDispatch, Invalidate, catalog,
                GenerationNamesOneCapture
  <2>2. CASE Fails
    <3>1. graphs' = graphs /\ graph_gen_counter' \in {graph_gen_counter, graph_gen_counter + 1}
      BY <2>2, Zenon DEF Fails, CaptureFailed, NextGraphGen
    <3> QED BY <2>0, <3>1 DEF GenerationNamesOneCapture
  <2>3. CASE Publishes
    <3>1. PICK names \in SUBSET Names, new \in Entry :
            /\ new.generation = graph_gen_counter + 1
            /\ graphs' = [n \in DOMAIN graphs \cup names |-> IF n \in names THEN new ELSE graphs[n]]
            /\ graph_gen_counter' = graph_gen_counter + 1
            /\ UNCHANGED <<epoch, cache_gen>>
      BY <2>3, PublishEffect, Zenon
    <3> QED BY <2>0, <3>1 DEF GenerationNamesOneCapture
  <2> QED BY <2>1, <2>2, <2>3, StepCases, Zenon
<1> QED BY <1>1, <1>2, TypeCorrect, PTL DEF CSpec
-----------------------------------------------------------------------------
\* The attempts that are pending were all counted.
PendingCounted == \A a \in DOMAIN pending : a <= capture_counter

\* The completion of a capture only takes its attempt out of pending.
LEMMA CompletionDrops ==
  ASSUME Fails \/ Publishes
  PROVE  DOMAIN pending' \subseteq DOMAIN pending /\ UNCHANGED capture_counter
<1>1. PICK s \in Socks, m \in Messages : CaptureFailed(s, m) \/ CapturePublish(s, m)
  BY Zenon DEF Fails, Publishes
<1>2. pending' = Drop(pending, m.capture_attempt) /\ UNCHANGED capture_counter
  <2>1. CASE CaptureFailed(s, m)
    BY <2>1, Zenon DEF CaptureFailed
  <2>2. CASE CapturePublish(s, m)
    BY <2>2, Zenon DEF CapturePublish
  <2> QED BY <1>1, <2>1, <2>2, Zenon
<1> QED BY ONLY <1>2, Zenon DEF Drop

\* capture_counter is never behind an attempt that Lookup left pending.
LEMMA PendingCountedAlways == CSpec => []PendingCounted
<1>1. CInit => PendingCounted
  BY DEF CInit, PendingCounted
<1>2. CTypeOK /\ PendingCounted /\ [CNext]_cvars => PendingCounted'
  <2> SUFFICES ASSUME CTypeOK, PendingCounted, [CNext]_cvars PROVE PendingCounted'
    BY Zenon
  <2>0. capture_counter \in Nat /\ DOMAIN pending \subseteq Nat
    BY Zenon DEF CTypeOK
  <2>1. CASE Quiet \/ Invalidates
    BY <2>1, Zenon DEF Quiet, Invalidates, Invalidate, waiting, PendingCounted
  <2>2. CASE Fails \/ Publishes
    BY <2>2, CompletionDrops, Zenon DEF PendingCounted
  <2>3. CASE Dispatches
    <3>1. /\ capture_counter' = capture_counter + 1
          /\ DOMAIN pending' = DOMAIN pending \cup {capture_counter + 1}
      BY <2>3, Zenon DEF Dispatches, LookupDispatch, NextAttempt, Put
    <3> QED BY <2>0, <3>1 DEF PendingCounted
  <2> QED BY <2>1, <2>2, <2>3, StepCases, Zenon
<1> QED BY <1>1, <1>2, TypeCorrect, PTL DEF CSpec

\* No step brings back an attempt that has left pending: a capture completes once.
THEOREM AttemptCompletesOnceAlways == CSpec => AttemptCompletesOnce
<1>1. CTypeOK /\ PendingCounted /\ [CNext]_cvars =>
        [/\ \A a \in DOMAIN pending' \ DOMAIN pending : a > capture_counter
         /\ \A a \in DOMAIN pending : a <= capture_counter]_cvars
  <2> SUFFICES ASSUME CTypeOK, PendingCounted, [CNext]_cvars
               PROVE  \A a \in DOMAIN pending' \ DOMAIN pending : a > capture_counter
    BY Zenon DEF PendingCounted
  <2>1. CASE Quiet \/ Invalidates
    BY <2>1, Zenon DEF Quiet, Invalidates, Invalidate, waiting
  <2>2. CASE Fails \/ Publishes
    BY <2>2, CompletionDrops, Zenon
  <2>3. CASE Dispatches
    <3>1. DOMAIN pending' = DOMAIN pending \cup {capture_counter + 1}
      BY <2>3, Zenon DEF Dispatches, LookupDispatch, NextAttempt, Put
    <3> QED BY <3>1 DEF CTypeOK
  <2> QED BY <2>1, <2>2, <2>3, StepCases, Zenon
<1> QED BY <1>1, TypeCorrect, PendingCountedAlways, PTL DEF CSpec, AttemptCompletesOnce

\* The epoch and the cache generation never move back, and a name only passes on to a
\* newer generation.
THEOREM AuthorityMonotonicAlways == CSpec => AuthorityMonotonic
<1>1. CTypeOK /\ GenerationNamesOneCapture /\ [CNext]_cvars =>
        [/\ epoch <= epoch' /\ cache_gen <= cache_gen'
         /\ \A n \in DOMAIN graphs :
              n \in DOMAIN graphs' /\ (graphs'[n] # graphs[n] =>
                                         graphs'[n].generation > graphs[n].generation)]_cvars
  <2> SUFFICES ASSUME CTypeOK, GenerationNamesOneCapture, [CNext]_cvars
               PROVE  /\ epoch <= epoch' /\ cache_gen <= cache_gen'
                      /\ \A n \in DOMAIN graphs :
                           n \in DOMAIN graphs' /\ (graphs'[n] # graphs[n] =>
                                                      graphs'[n].generation > graphs[n].generation)
    BY Zenon
  <2>0. /\ epoch \in Nat /\ cache_gen \in Nat /\ graph_gen_counter \in Nat
        /\ \A n \in DOMAIN graphs : graphs[n].generation \in Nat
    BY Zenon DEF CTypeOK, Entry
  <2>1. CASE Quiet \/ Dispatches \/ Fails
    <3>1. UNCHANGED <<epoch, cache_gen, graphs>>
      BY <2>1, Zenon DEF Quiet, Dispatches, Fails, LookupDispatch, CaptureFailed, authority, catalog
    <3> QED BY <2>0, <3>1
  <2>2. CASE Publishes
    <3>1. PICK names \in SUBSET Names, new \in Entry :
            /\ new.generation = graph_gen_counter + 1
            /\ graphs' = [n \in DOMAIN graphs \cup names |-> IF n \in names THEN new ELSE graphs[n]]
            /\ graph_gen_counter' = graph_gen_counter + 1
            /\ UNCHANGED <<epoch, cache_gen>>
      BY <2>2, PublishEffect, Zenon
    <3> QED BY <2>0, <3>1 DEF GenerationNamesOneCapture
  <2>3. CASE Invalidates
    BY <2>0, <2>3 DEF Invalidates, Invalidate
  <2> QED BY <2>1, <2>2, <2>3, StepCases, Zenon
<1> QED BY <1>1, TypeCorrect, GenerationUnique, PTL DEF CSpec, AuthorityMonotonic
-----------------------------------------------------------------------------
(***************************************************************************)
(* Queues, whatever their elements are.                                    *)
(***************************************************************************)
Items(q) == {q[i] : i \in DOMAIN q}
IsQueue(q) == q \in Seq(Items(q))

\* Any sequence is one of its own elements.
LEMMA QueueOf == ASSUME NEW S, NEW p \in Seq(S) PROVE IsQueue(p)
  BY DEF IsQueue, Items

\* The empty queue.
LEMMA EmptyQueue == IsQueue(<< >>) /\ DOMAIN << >> = {}
<1>1. << >> \in Seq({})
  OBVIOUS
<1>2. IsQueue(<< >>)
  BY <1>1, QueueOf, Zenon
<1>3. Len(<< >>) = 0 /\ DOMAIN << >> = 1 .. Len(<< >>)
  BY <1>1
<1> QED BY <1>2, <1>3

\* What Append puts where.
LEMMA Appended ==
  ASSUME NEW q, NEW m, IsQueue(q)
  PROVE  /\ IsQueue(Append(q, m))
         /\ \A i \in DOMAIN Append(q, m) :
              \/ i \in DOMAIN q /\ Append(q, m)[i] = q[i]
              \/ Append(q, m)[i] = m
<1> DEFINE S == Items(q) \cup {m}
           p == Append(q, m)
<1>1. q \in Seq(S) /\ m \in S
  BY DEF IsQueue, Items
<1>2. p \in Seq(S) /\ DOMAIN p = 1 .. Len(q) + 1 /\ DOMAIN q = 1 .. Len(q) /\ Len(q) \in Nat
  BY <1>1
<1>3. \A i \in DOMAIN p : p[i] = IF i = Len(q) + 1 THEN m ELSE q[i]
  BY <1>1, <1>2
<1>4. IsQueue(p)
  BY <1>2, QueueOf, Zenon
<1> QED BY <1>2, <1>3, <1>4

\* What is left after the head is taken.
LEMMA Taken ==
  ASSUME NEW q, IsQueue(q), q # << >>
  PROVE  /\ 1 \in DOMAIN q /\ Head(q) = q[1]
         /\ IsQueue(Tail(q))
         /\ \A i \in DOMAIN Tail(q) : i + 1 # 1 /\ i + 1 \in DOMAIN q /\ Tail(q)[i] = q[i + 1]
<1> DEFINE S == Items(q)
           p == Tail(q)
<1>1. q \in Seq(S) /\ Len(q) \in Nat \ {0} /\ DOMAIN q = 1 .. Len(q)
  BY DEF IsQueue
<1>2. p \in Seq(S) /\ DOMAIN p = 1 .. Len(q) - 1 /\ \A i \in DOMAIN p : p[i] = q[i + 1]
  BY <1>1
<1>3. IsQueue(p)
  BY <1>2, QueueOf, Zenon
<1> QED BY <1>1, <1>2, <1>3

\* The first n elements.
LEMMA Cut ==
  ASSUME NEW q, IsQueue(q), NEW n \in 0 .. Len(q)
  PROVE  /\ IsQueue(SubSeq(q, 1, n))
         /\ \A i \in DOMAIN SubSeq(q, 1, n) : i \in DOMAIN q /\ SubSeq(q, 1, n)[i] = q[i]
<1> DEFINE S == Items(q)
           p == SubSeq(q, 1, n)
<1>1. q \in Seq(S) /\ Len(q) \in Nat /\ DOMAIN q = 1 .. Len(q) /\ n \in Nat /\ n <= Len(q)
  BY DEF IsQueue
<1>2. p \in Seq(S) /\ DOMAIN p = 1 .. n /\ \A i \in DOMAIN p : p[i] = q[i]
  BY <1>1
<1>3. IsQueue(p)
  BY <1>2, QueueOf, Zenon
<1> QED BY <1>1, <1>2, <1>3
-----------------------------------------------------------------------------
(***************************************************************************)
(* The inductive invariant.                                                *)
(***************************************************************************)
LiveWorker(w) == wk[w].pc # "down"
LiveClient(c) == cl[c].pc # "off"
WorkerConn(w, b) == [is_worker |-> TRUE, worker_id |-> w, worker_boot |-> b]

\* Only the shapes that the updates of the peers' state rely on.
PeersShape ==
  /\ DOMAIN conns \subseteq Socks
  /\ DOMAIN toC = Socks /\ DOMAIN toP = Socks
  /\ \A s \in Socks : IsQueue(toC[s]) /\ IsQueue(toP[s])
  /\ DOMAIN wk = WorkerIds /\ \A w \in WorkerIds : DOMAIN wk[w] = {"pc", "boot", "sock", "execs"}
  /\ DOMAIN cl = Clients
  /\ \A c \in Clients : DOMAIN cl[c] = {"pc", "sock", "sent", "asked", "epoch", "cache_gen",
                                        "artifact", "graph_gen"}

\* A process that lives has its connection open, no other process has the same one, and
\* nothing in it says that the process is gone.
Open(s) == s \in DOMAIN conns /\ \A i \in DOMAIN toC[s] : toC[s][i].type # "EOF"
OneOwner ==
  /\ \A w \in WorkerIds : LiveWorker(w) => Open(wk[w].sock)
  /\ \A c \in Clients : LiveClient(c) => Open(cl[c].sock)
  /\ \A v, w \in WorkerIds : LiveWorker(v) /\ LiveWorker(w) /\ wk[v].sock = wk[w].sock => v = w
  /\ \A c, d \in Clients : LiveClient(c) /\ LiveClient(d) /\ cl[c].sock = cl[d].sock => c = d
  /\ \A w \in WorkerIds, c \in Clients : LiveWorker(w) /\ LiveClient(c) => wk[w].sock # cl[c].sock

\* A registration is the first frame of a connection, and of the worker at its other end.
Registrations ==
  \A s \in Socks : \A i \in DOMAIN toC[s] :
    LET m == toC[s][i] IN
    m.type = "Register" =>
      /\ i = 1 /\ s \in DOMAIN conns /\ ~conns[s].is_worker
      /\ m.worker_id \in WorkerIds /\ m.worker_boot \in Boots
      /\ \A w \in WorkerIds : LiveWorker(w) /\ wk[w].sock = s =>
           m.worker_id = w /\ m.worker_boot = wk[w].boot
Identified ==
  \A w \in WorkerIds :
    LiveWorker(w) /\ conns[wk[w].sock].is_worker => conns[wk[w].sock] = WorkerConn(w, wk[w].boot)

\* What the coordinator knows of workers, and the authority it stamps on frames.
KnownWorkers ==
  /\ worker_connected \subseteq DOMAIN worker_boot /\ DOMAIN worker_boot \subseteq WorkerIds
  /\ DOMAIN worker_sock = DOMAIN worker_boot
  /\ \A w \in DOMAIN worker_boot : worker_boot[w] \in Boots
Authority == epoch \in Nat \ {0} /\ cache_gen \in Nat \ {0}

\* Instructions are of the boot whose connection they are in, results of the boot that
\* was instructed, and both of the authority of the dispatch.
Origins ==
  /\ capture_counter \in Nat
  /\ \A a \in DOMAIN origin :
       /\ a \in Nat /\ a <= capture_counter
       /\ origin[a].epoch # 0 /\ origin[a].cache_gen # 0
       /\ origin[a].worker_id \in DOMAIN worker_boot /\ origin[a].worker_boot \in Boots
  /\ \A a \in DOMAIN pending : a \in DOMAIN origin /\ origin[a].worker_id = pending[a].worker_id
Instructions ==
  \A s \in Socks : \A i \in DOMAIN toP[s] :
    LET m == toP[s][i] IN
    m.type = "CaptureInstruct" =>
      /\ m.capture_attempt \in DOMAIN origin /\ m = origin[m.capture_attempt]
      /\ s \in DOMAIN conns /\ conns[s] = WorkerConn(m.worker_id, m.worker_boot)
Echoes(m) ==
  /\ m.capture_attempt \in DOMAIN origin
  /\ LET o == origin[m.capture_attempt] IN
       /\ m.epoch = o.epoch /\ m.cache_gen = o.cache_gen
       /\ m.worker_id = o.worker_id /\ m.worker_boot = o.worker_boot
Results ==
  \A s \in Socks : \A i \in DOMAIN toC[s] : toC[s][i].type = "CaptureResult" => Echoes(toC[s][i])

ClInv ==
  /\ PeersShape /\ OneOwner /\ Registrations /\ Identified /\ KnownWorkers /\ Authority
  /\ ConnectedWorkerReachable /\ Origins /\ Instructions /\ Results
-----------------------------------------------------------------------------
(***************************************************************************)
(* The steps, as far as the invariant sees them.                           *)
(***************************************************************************)
\* A worker is accepted: its connection, boot and socket are noted together.
Enrols(s, m) ==
  /\ m.type = "Register"
  /\ conns' = [conns EXCEPT ![s] = WorkerConn(m.worker_id, m.worker_boot)]
  /\ worker_boot' = Put(worker_boot, m.worker_id, m.worker_boot)
  /\ worker_connected' = worker_connected \cup {m.worker_id}
  /\ worker_sock' = Put(worker_sock, m.worker_id, s)
  /\ UNCHANGED <<epoch, cache_gen, capture_counter, pending>>
  /\ out'.msg.type # "CaptureInstruct"

\* Nothing but the authority and the end of attempts.
Passes ==
  /\ UNCHANGED <<conns, worker_boot, worker_connected, worker_sock, capture_counter>>
  /\ epoch' \in {epoch, epoch + 1} /\ cache_gen' \in {cache_gen, cache_gen + 1}
  /\ \A a \in DOMAIN pending' : a \in DOMAIN pending /\ pending'[a] = pending[a]
  /\ out'.msg.type # "CaptureInstruct"

\* send_status sends a frame of the type it is given.
LEMMA StatusFrame ==
  ASSUME NEW to, NEW type, NEW id, NEW status, SendStatus(to, type, id, status)
  PROVE  out'.msg.type = type
<1>1. out'.msg = [Blank EXCEPT !.type = type, !.request_id = id, !.status = status,
                               !.epoch = epoch, !.cache_gen = cache_gen]
  BY Zenon DEF SendStatus, Send
<1> QED BY <1>1, Zenon DEF Blank

\* The handlers of coordinator_main.cpp, in those terms.
LEMMA HandleCases ==
  ASSUME NEW s, NEW m, Handle(s, m)
  PROVE  Enrols(s, m) \/ LookupDispatch(s, m) \/ Passes
<1> DEFINE Other == out'.msg.type # "CaptureInstruct"
           Still == UNCHANGED <<conns, worker_boot, worker_connected, worker_sock, capture_counter,
                                epoch, cache_gen, pending>>
<1>0. Still /\ Other => Passes
  BY Zenon DEF Passes
<1> USE DEF authority, workers, catalog, waiting
<1>1. CASE Register(s, m)
  <2>1. \E status : SendStatus(s, "RegisterAck", m.request_id, status)
    BY <1>1, Zenon DEF Register
  <2>2. Other
    BY <2>1, StatusFrame, Zenon
  <2> QED BY <1>0, <1>1, <2>2, Zenon DEF Register, Enrols, WorkerConn
<1>2. CASE \/ Hello(s, m) \/ Undecodable(s, m) \/ RejectStale(s, m) \/ LookupFails(s, m)
           \/ CaptureDuplicate(s, m) \/ ReplayRefused(s, m)
  <2>1. \E to, type, id, status : type # "CaptureInstruct" /\ SendStatus(to, type, id, status)
    BY <1>2, Zenon DEF Hello, Undecodable, RejectStale, ResultType, LookupFails, CaptureDuplicate,
         ReplayRefused
  <2>2. Other
    BY <2>1, StatusFrame, Zenon
  <2>3. Still
    BY <1>2, Zenon DEF Hello, Undecodable, RejectStale, LookupFails, CaptureDuplicate, ReplayRefused
  <2> QED BY <1>0, <2>2, <2>3, Zenon
<1>3. CASE LookupHit(s, m)
  <2>0. PICK g, b : out'.msg = [Blank EXCEPT !.type = "LookupResult", !.request_id = m.request_id,
                                 !.epoch = epoch, !.cache_gen = cache_gen, !.graph_gen = g, !.body = b]
    BY <1>3, Zenon DEF LookupHit, Send
  <2>1. Other
    BY <2>0, Zenon DEF Blank
  <2>2. Still
    BY <1>3, Zenon DEF LookupHit
  <2> QED BY <1>0, <2>1, <2>2, Zenon
<1>4. CASE CaptureFailed(s, m)
  <2>0. \E to, id, status : SendStatus(to, "LookupResult", id, status)
    BY <1>4, Zenon DEF CaptureFailed
  <2>1. Other
    BY <2>0, StatusFrame, Zenon
  <2>2. \A a \in DOMAIN pending' : a \in DOMAIN pending /\ pending'[a] = pending[a]
    BY <1>4, Zenon DEF CaptureFailed, Drop
  <2>3. UNCHANGED <<conns, worker_boot, worker_connected, worker_sock, capture_counter,
                    epoch, cache_gen>>
    BY <1>4, Zenon DEF CaptureFailed
  <2> QED BY <2>1, <2>2, <2>3, Zenon DEF Passes
<1>5. CASE ReplayForward(s, m)
  <2> DEFINE e == graphs[ByArtifact(m.body)]
  <2>0. out'.msg = [Blank EXCEPT !.type = "ReplayInstruct", !.request_id = m.request_id,
               !.epoch = epoch, !.cache_gen = cache_gen, !.worker_id = e.worker_id,
               !.worker_boot = worker_boot[e.worker_id], !.graph_gen = e.generation, !.body = m.body]
    BY <1>5, Zenon DEF ReplayForward, Send
  <2>1. Other
    BY <2>0, Zenon DEF Blank
  <2>2. Still
    BY <1>5, Zenon DEF ReplayForward
  <2> QED BY <1>0, <2>1, <2>2, Zenon
<1>8. CASE ReplayResult(s, m)
  <2>0. out'.msg = [Blank EXCEPT !.type = "ReplayResult", !.request_id = m.request_id,
               !.epoch = epoch, !.cache_gen = cache_gen, !.status = m.status, !.body = m.body]
    BY <1>8, Zenon DEF ReplayResult, Send
  <2>1. Other
    BY <2>0, Zenon DEF Blank
  <2>2. Still
    BY <1>8, Zenon DEF ReplayResult
  <2> QED BY <1>0, <2>1, <2>2, Zenon
<1>6. CASE Invalidate(s, m)
  <2>0. out'.msg = [Blank EXCEPT !.type = "InvalidateAck", !.request_id = m.request_id,
                                 !.epoch = epoch', !.cache_gen = cache_gen']
    BY <1>6, Zenon DEF Invalidate, Send
  <2>1. Other
    BY <2>0, Zenon DEF Blank
  <2>2. UNCHANGED <<conns, worker_boot, worker_connected, worker_sock, capture_counter, pending>>
    BY <1>6, Zenon DEF Invalidate
  <2>3. epoch' \in {epoch, epoch + 1} /\ cache_gen' \in {cache_gen, cache_gen + 1}
    BY <1>6, Zenon DEF Invalidate
  <2> QED BY <2>1, <2>2, <2>3, Zenon DEF Passes
<1>7. CASE Shutdown(s, m) \/ Ignored(s, m)
  BY <1>0, <1>7 DEF Shutdown, Ignored, NoFrame, Blank
<1>9. CASE CapturePublish(s, m)
  <2>0. \E id, b : out'.msg = [Blank EXCEPT !.type = "LookupResult", !.request_id = id, !.epoch = epoch,
                         !.cache_gen = cache_gen, !.graph_gen = NextGraphGen, !.body = b]
    BY <1>9, Zenon DEF CapturePublish, Send
  <2>1. Other
    BY <2>0, Zenon DEF Blank
  <2>2. \A a \in DOMAIN pending' : a \in DOMAIN pending /\ pending'[a] = pending[a]
    BY <1>9, Zenon DEF CapturePublish, Drop
  <2>3. UNCHANGED <<conns, worker_boot, worker_connected, worker_sock, capture_counter, epoch, cache_gen>>
    BY <1>9, Zenon DEF CapturePublish
  <2> QED BY <2>1, <2>2, <2>3, Zenon DEF Passes
<1> QED BY <1>1, <1>2, <1>3, <1>4, <1>5, <1>6, <1>7, <1>8, <1>9, Zenon DEF Handle

\* Only a completed capture writes the catalogue.
LEMMA CatalogueWrites ==
  ASSUME NEW s, NEW m, Handle(s, m), graphs' # graphs PROVE CapturePublish(s, m)
  BY Zenon DEF Handle, catalog, Register, Hello, Undecodable, RejectStale, LookupHit, LookupFails,
               LookupDispatch, CaptureDuplicate, CaptureFailed, ReplayRefused, ReplayForward,
               ReplayResult, Invalidate, Shutdown, Ignored

\* A dispatch: one new attempt, and its instruction to a connected worker.
LEMMA Dispatched ==
  ASSUME NEW s, NEW m, LookupDispatch(s, m)
  PROVE  /\ UNCHANGED <<conns, worker_boot, worker_connected, worker_sock, epoch, cache_gen>>
         /\ capture_counter' = capture_counter + 1
         /\ \E w \in worker_connected :
              /\ DOMAIN pending' = DOMAIN pending \cup {capture_counter + 1}
              /\ pending'[capture_counter + 1].worker_id = w
              /\ \A a \in DOMAIN pending : a # capture_counter + 1 => pending'[a] = pending[a]
              /\ out'.to = worker_sock[w] /\ out'.msg.type = "CaptureInstruct"
              /\ out'.msg.capture_attempt = capture_counter + 1
              /\ out'.msg.worker_id = w /\ out'.msg.worker_boot = worker_boot[w]
              /\ out'.msg.epoch = epoch /\ out'.msg.cache_gen = cache_gen
<1>1. /\ UNCHANGED <<conns, worker_boot, worker_connected, worker_sock, epoch, cache_gen>>
      /\ capture_counter' = capture_counter + 1
  BY Zenon DEF LookupDispatch, NextAttempt, authority, workers
<1>2. PICK w \in worker_connected :
        /\ pending' = Put(pending, capture_counter + 1,
             [client_sock |-> s, worker_id |-> w, request_id |-> m.request_id, key |-> KeyOf[m.body]])
        /\ out' = [to |-> worker_sock[w],
                   msg |-> [Blank EXCEPT !.type = "CaptureInstruct", !.epoch = epoch, !.cache_gen = cache_gen,
                              !.worker_id = w, !.worker_boot = worker_boot[w],
                              !.capture_attempt = capture_counter + 1, !.body = m.body]]
  BY Zenon DEF LookupDispatch, NextAttempt, Send
<1>3. /\ DOMAIN pending' = DOMAIN pending \cup {capture_counter + 1}
      /\ pending'[capture_counter + 1].worker_id = w
      /\ \A a \in DOMAIN pending : a # capture_counter + 1 => pending'[a] = pending[a]
  BY <1>2, Zenon DEF Put
<1>4. /\ out'.to = worker_sock[w] /\ out'.msg.type = "CaptureInstruct"
      /\ out'.msg.capture_attempt = capture_counter + 1
      /\ out'.msg.worker_id = w /\ out'.msg.worker_boot = worker_boot[w]
      /\ out'.msg.epoch = epoch /\ out'.msg.cache_gen = cache_gen
  BY <1>2, Zenon DEF Blank
<1> QED BY <1>1, <1>3, <1>4, Zenon
-----------------------------------------------------------------------------
(***************************************************************************)
(* The coordinator serves a frame, or the end of a connection.             *)
(***************************************************************************)
\* What serving a frame does to the queues.
LEMMA ServedQueues ==
  ASSUME PeersShape, NEW s \in Socks, Serve(s), Head(toC[s]).type # "EOF"
  PROVE  /\ Handle(s, Head(toC[s])) /\ s \in DOMAIN conns
         /\ 1 \in DOMAIN toC[s] /\ Head(toC[s]) = toC[s][1]
         /\ DOMAIN toC' = Socks /\ DOMAIN toP' = Socks
         /\ \A r \in Socks : IsQueue(toC'[r]) /\ IsQueue(toP'[r])
         /\ \A r \in Socks \ {s} : toC'[r] = toC[r]
         /\ \A i \in DOMAIN toC'[s] : \E j \in DOMAIN toC[s] : j # 1 /\ toC'[s][i] = toC[s][j]
         /\ \A r \in Socks : \A i \in DOMAIN toP'[r] :
              \/ i \in DOMAIN toP[r] /\ toP'[r][i] = toP[r][i]
              \/ r = out'.to /\ r \in DOMAIN conns /\ toP'[r][i] = out'.msg
         /\ UNCHANGED <<wk, cl>>
         /\ origin' = IF out'.msg.type = "CaptureInstruct"
                      THEN Put(origin, out'.msg.capture_attempt, out'.msg) ELSE origin
<1>1. /\ toC[s] # << >> /\ Handle(s, Head(toC[s])) /\ toC' = [toC EXCEPT ![s] = Tail(toC[s])]
      /\ toP' = IF out'.to \in DOMAIN conns
                THEN [toP EXCEPT ![out'.to] = Append(toP[out'.to], out'.msg)] ELSE toP
      /\ UNCHANGED <<wk, cl>>
      /\ origin' = IF out'.msg.type = "CaptureInstruct"
                   THEN Put(origin, out'.msg.capture_attempt, out'.msg) ELSE origin
  BY Zenon DEF Serve
<1>2. s \in DOMAIN conns
  BY <1>1, Zenon DEF Handle
<1>3. /\ 1 \in DOMAIN toC[s] /\ Head(toC[s]) = toC[s][1] /\ IsQueue(Tail(toC[s]))
      /\ \A i \in DOMAIN Tail(toC[s]) :
           i + 1 # 1 /\ i + 1 \in DOMAIN toC[s] /\ Tail(toC[s])[i] = toC[s][i + 1]
  BY <1>1, Taken, Zenon DEF PeersShape
<1>4. /\ DOMAIN toC' = Socks /\ toC'[s] = Tail(toC[s]) /\ \A r \in Socks \ {s} : toC'[r] = toC[r]
  BY <1>1, Zenon DEF PeersShape
<1>5. ASSUME NEW r \in Socks
      PROVE  /\ IsQueue(toP'[r])
             /\ \A i \in DOMAIN toP'[r] :
                  \/ i \in DOMAIN toP[r] /\ toP'[r][i] = toP[r][i]
                  \/ r = out'.to /\ r \in DOMAIN conns /\ toP'[r][i] = out'.msg
  <2>1. CASE out'.to \in DOMAIN conns /\ r = out'.to
    <3>1. toP'[r] = Append(toP[r], out'.msg)
      BY <1>1, <2>1, Zenon DEF PeersShape
    <3>2. IsQueue(toP[r])
      BY Zenon DEF PeersShape
    <3> QED BY <2>1, <3>1, <3>2, Appended
  <2>2. CASE ~(out'.to \in DOMAIN conns /\ r = out'.to)
    <3>1. toP'[r] = toP[r]
      BY <1>1, <2>2, Zenon DEF PeersShape
    <3> QED BY <3>1, Zenon DEF PeersShape
  <2> QED BY <2>1, <2>2, Zenon
<1>6. DOMAIN toP' = Socks
  BY <1>1, Zenon DEF PeersShape
<1>7. \A r \in Socks : IsQueue(toC'[r])
  BY <1>3, <1>4, Zenon DEF PeersShape
<1> QED BY <1>1, <1>2, <1>3, <1>4, <1>5, <1>6, <1>7

\* The part of the invariant about processes and their connections survives a frame.
LEMMA ServeFrameOwners ==
  ASSUME ClInv, NEW s \in Socks, Serve(s), Head(toC[s]).type # "EOF"
  PROVE  PeersShape' /\ OneOwner' /\ Registrations' /\ Identified' /\ KnownWorkers' /\ Authority'
           /\ ConnectedWorkerReachable'
<1> DEFINE m == Head(toC[s])
<1> USE DEF ClInv
<1>0. PeersShape
  BY Zenon
<1>1. /\ Handle(s, m) /\ s \in DOMAIN conns /\ 1 \in DOMAIN toC[s] /\ m = toC[s][1]
      /\ DOMAIN toC' = Socks /\ DOMAIN toP' = Socks
      /\ \A r \in Socks : IsQueue(toC'[r]) /\ IsQueue(toP'[r])
      /\ \A r \in Socks \ {s} : toC'[r] = toC[r]
      /\ \A i \in DOMAIN toC'[s] : \E j \in DOMAIN toC[s] : j # 1 /\ toC'[s][i] = toC[s][j]
      /\ UNCHANGED <<wk, cl>>
  BY <1>0, ServedQueues, Zenon
<1> HIDE DEF m
\* What is left in the queue of s are no registrations.
<1>2. /\ \A i \in DOMAIN toC'[s] : toC'[s][i].type # "Register"
      /\ \A r \in Socks : (\A i \in DOMAIN toC[r] : toC[r][i].type # "EOF") =>
                           (\A i \in DOMAIN toC'[r] : toC'[r][i].type # "EOF")
  BY <1>1 DEF Registrations
<1>3. CASE Enrols(s, m)
  <2>1. /\ ~conns[s].is_worker /\ m.worker_id \in WorkerIds /\ m.worker_boot \in Boots
        /\ \A w \in WorkerIds : LiveWorker(w) /\ wk[w].sock = s =>
             m.worker_id = w /\ m.worker_boot = wk[w].boot
    BY <1>1, <1>3, ZenonT(60) DEF Registrations, Enrols
  <2>2. /\ DOMAIN conns' = DOMAIN conns /\ conns'[s] = WorkerConn(m.worker_id, m.worker_boot)
        /\ \A r \in DOMAIN conns \ {s} : conns'[r] = conns[r]
    BY <1>1, <1>3, Zenon DEF Enrols
  <2>3. PeersShape'
    BY <1>1, <2>2, Zenon DEF PeersShape
  <2>4. OneOwner'
    <3>1. \A r : Open(r) => Open(r)'
      BY <1>1, <1>2, <2>2, Zenon DEF Open, PeersShape
    <3> QED BY <1>1, <3>1, Zenon DEF OneOwner, LiveWorker, LiveClient
  <2>5. Registrations'
    BY <1>1, <1>2, <2>2 DEF Registrations, LiveWorker
  <2>6. Identified'
    <3> SUFFICES ASSUME NEW w \in WorkerIds, LiveWorker(w), conns'[wk[w].sock].is_worker
                 PROVE  conns'[wk[w].sock] = WorkerConn(w, wk[w].boot)
      BY <1>1, Zenon DEF Identified, LiveWorker, WorkerConn
    <3>1. CASE wk[w].sock = s
      BY <2>1, <2>2, <3>1, Zenon
    <3>2. CASE wk[w].sock # s
      BY <2>2, <3>2, Zenon DEF Identified, OneOwner, Open
    <3> QED BY <3>1, <3>2, Zenon
  <2>7. KnownWorkers'
    BY <1>3, <2>1, Zenon DEF KnownWorkers, Enrols, Put
  <2>8. ConnectedWorkerReachable'
    <3> SUFFICES ASSUME NEW w \in worker_connected'
                 PROVE  /\ worker_sock'[w] \in DOMAIN conns'
                        /\ conns'[worker_sock'[w]] = WorkerConn(w, worker_boot'[w])
      BY Zenon DEF ConnectedWorkerReachable, WorkerConn
    <3>1. CASE w = m.worker_id
      <4>1. worker_sock'[w] = s /\ worker_boot'[w] = m.worker_boot
        BY <1>3, <3>1, Zenon DEF Enrols, Put
      <4> QED BY <1>1, <2>2, <3>1, <4>1, Zenon
    <3>2. CASE w # m.worker_id
      <4>1. w \in worker_connected /\ w \in DOMAIN worker_boot
        BY <1>3, <3>2, Zenon DEF Enrols, KnownWorkers
      <4>2. /\ worker_sock[w] \in DOMAIN conns
            /\ conns[worker_sock[w]] = WorkerConn(w, worker_boot[w])
        BY <4>1, Zenon DEF ConnectedWorkerReachable, WorkerConn
      <4>3. worker_sock[w] # s
        BY <2>1, <4>2 DEF WorkerConn
      <4>4. worker_boot'[w] = worker_boot[w]
        BY <1>3, <3>2, <4>1, Zenon DEF Enrols, Put
      <4>5. worker_sock'[w] = worker_sock[w]
        BY <1>3, <3>2, <4>1, Zenon DEF Enrols, Put, KnownWorkers
      <4> QED BY <2>2, <4>2, <4>3, <4>4, <4>5, Zenon
    <3> QED BY <3>1, <3>2, Zenon
  <2>9. Authority'
    BY <1>3, Zenon DEF Authority, Enrols
  <2> QED BY <2>3, <2>4, <2>5, <2>6, <2>7, <2>8, <2>9, Zenon
<1>4. CASE LookupDispatch(s, m) \/ Passes
  <2>1. UNCHANGED <<conns, worker_boot, worker_connected, worker_sock>>
    BY <1>4, Dispatched, Zenon DEF Passes
  <2>2. epoch' \in {epoch, epoch + 1} /\ cache_gen' \in {cache_gen, cache_gen + 1}
    BY <1>4, Dispatched, Zenon DEF Passes
  <2>3. PeersShape'
    BY <1>1, <2>1, ZenonT(60) DEF PeersShape
  <2>4. OneOwner'
    <3>1. \A r : Open(r) => Open(r)'
      BY <1>1, <1>2, <2>1, Zenon DEF Open, PeersShape
    <3> QED BY <1>1, <3>1, Zenon DEF OneOwner, LiveWorker, LiveClient
  <2>5. Registrations'
    BY <1>1, <1>2, <2>1 DEF Registrations, LiveWorker
  <2>6. Identified'
    BY <1>1, <2>1, Zenon DEF Identified, LiveWorker
  <2>7. KnownWorkers' /\ ConnectedWorkerReachable'
    BY <2>1, Zenon DEF KnownWorkers, ConnectedWorkerReachable
  <2>8. Authority'
    BY <2>2 DEF Authority
  <2> QED BY <2>3, <2>4, <2>5, <2>6, <2>7, <2>8, Zenon
<1> QED BY <1>1, <1>3, <1>4, HandleCases, Zenon

\* The part about instructions and results survives a frame.
LEMMA ServeFrameOrigins ==
  ASSUME ClInv, NEW s \in Socks, Serve(s), Head(toC[s]).type # "EOF"
  PROVE  Origins' /\ Instructions' /\ Results'
<1> DEFINE m == Head(toC[s])
<1> USE DEF ClInv
<1>0. PeersShape
  BY Zenon
<1>1. /\ Handle(s, m) /\ s \in DOMAIN conns /\ 1 \in DOMAIN toC[s] /\ m = toC[s][1]
      /\ \A r \in Socks \ {s} : toC'[r] = toC[r]
      /\ \A i \in DOMAIN toC'[s] : \E j \in DOMAIN toC[s] : j # 1 /\ toC'[s][i] = toC[s][j]
      /\ \A r \in Socks : \A i \in DOMAIN toP'[r] :
           \/ i \in DOMAIN toP[r] /\ toP'[r][i] = toP[r][i]
           \/ r = out'.to /\ r \in DOMAIN conns /\ toP'[r][i] = out'.msg
      /\ origin' = IF out'.msg.type = "CaptureInstruct"
                   THEN Put(origin, out'.msg.capture_attempt, out'.msg) ELSE origin
  BY <1>0, ServedQueues, Zenon
<1> HIDE DEF m
\* Frames on their way to the coordinator are old ones.
<1>2. ASSUME NEW r \in Socks, NEW i \in DOMAIN toC'[r], toC'[r][i].type = "CaptureResult"
      PROVE  Echoes(toC'[r][i])
  BY <1>1, <1>2 DEF Results
<1>3. CASE out'.msg.type # "CaptureInstruct" /\ (Enrols(s, m) \/ Passes)
  <2>1. origin' = origin
    BY <1>1, <1>3, Zenon
  <2>2. capture_counter' = capture_counter
    BY <1>3, Zenon DEF Enrols, Passes
  <2>3. \A a \in DOMAIN pending' : a \in DOMAIN pending /\ pending'[a] = pending[a]
    BY <1>3, Zenon DEF Enrols, Passes
  <2>4. DOMAIN worker_boot \subseteq DOMAIN worker_boot'
    BY <1>3, ZenonT(60) DEF Enrols, Passes, Put
  <2>5. Origins'
    BY <2>1, <2>2, <2>3, <2>4, Zenon DEF Origins
  <2>6. Results'
    BY <1>2, <2>1, Zenon DEF Results, Echoes
  <2>7. ASSUME NEW r \in DOMAIN conns, conns[r].is_worker
        PROVE  r \in DOMAIN conns' /\ conns'[r] = conns[r]
    <3>1. CASE Passes
      BY <3>1, Zenon DEF Passes
    <3>2. CASE Enrols(s, m)
      <4>1. ~conns[s].is_worker
        BY <1>1, <3>2, Zenon DEF Registrations, Enrols
      <4> QED BY <2>7, <3>2, <4>1, Zenon DEF Enrols
    <3> QED BY <1>3, <3>1, <3>2, Zenon
  <2>8. Instructions'
    <3> SUFFICES ASSUME NEW r \in Socks, NEW i \in DOMAIN toP'[r], toP'[r][i].type = "CaptureInstruct"
                 PROVE  LET f == toP'[r][i] IN
                        /\ f.capture_attempt \in DOMAIN origin /\ f = origin[f.capture_attempt]
                        /\ r \in DOMAIN conns' /\ conns'[r] = WorkerConn(f.worker_id, f.worker_boot)
      BY <2>1, Zenon DEF Instructions, WorkerConn
    <3>1. i \in DOMAIN toP[r] /\ toP'[r][i] = toP[r][i]
      BY <1>1, <1>3, Zenon
    <3>2. LET f == toP[r][i] IN
          /\ f.capture_attempt \in DOMAIN origin /\ f = origin[f.capture_attempt]
          /\ r \in DOMAIN conns /\ conns[r] = WorkerConn(f.worker_id, f.worker_boot)
      BY <3>1, ZenonT(60) DEF Instructions
    <3>3. conns[r].is_worker
      BY <3>2 DEF WorkerConn
    <3> QED BY <2>7, <3>1, <3>2, <3>3, ZenonT(60)
  <2> QED BY <2>5, <2>6, <2>8, Zenon
<1>4. CASE LookupDispatch(s, m)
  <2>1. /\ UNCHANGED <<conns, worker_boot, worker_connected, worker_sock, epoch, cache_gen>>
        /\ capture_counter' = capture_counter + 1
    BY <1>4, Dispatched, Zenon
  <2>2. PICK w \in worker_connected :
          /\ DOMAIN pending' = DOMAIN pending \cup {capture_counter + 1}
          /\ pending'[capture_counter + 1].worker_id = w
          /\ \A a \in DOMAIN pending : a # capture_counter + 1 => pending'[a] = pending[a]
          /\ out'.to = worker_sock[w] /\ out'.msg.type = "CaptureInstruct"
          /\ out'.msg.capture_attempt = capture_counter + 1
          /\ out'.msg.worker_id = w /\ out'.msg.worker_boot = worker_boot[w]
          /\ out'.msg.epoch = epoch /\ out'.msg.cache_gen = cache_gen
    BY <1>4, Dispatched, Zenon
  <2>3. origin' = Put(origin, capture_counter + 1, out'.msg)
    BY <1>1, <2>2, Zenon
  <2>4. /\ DOMAIN origin' = DOMAIN origin \cup {capture_counter + 1}
        /\ origin'[capture_counter + 1] = out'.msg
        /\ \A a \in DOMAIN origin : a # capture_counter + 1 /\ origin'[a] = origin[a]
    BY <2>3 DEF Put, Origins
  <2>5. w \in DOMAIN worker_boot /\ worker_boot[w] \in Boots
    BY Zenon DEF KnownWorkers
  <2>6. \A a \in DOMAIN pending : a # capture_counter + 1
    BY DEF Origins
  <2>7. Origins'
    <3>1. capture_counter' \in Nat
      BY <2>1 DEF Origins
    <3>2. ASSUME NEW a \in DOMAIN origin'
          PROVE  /\ a \in Nat /\ a <= capture_counter'
                 /\ origin'[a].epoch # 0 /\ origin'[a].cache_gen # 0
                 /\ origin'[a].worker_id \in DOMAIN worker_boot' /\ origin'[a].worker_boot \in Boots
      BY <2>1, <2>2, <2>4, <2>5 DEF Origins, Authority
    <3>3. ASSUME NEW a \in DOMAIN pending'
          PROVE  a \in DOMAIN origin' /\ origin'[a].worker_id = pending'[a].worker_id
      BY <2>2, <2>4, <2>6, ZenonT(60) DEF Origins
    <3> QED BY <3>1, <3>2, <3>3, Zenon DEF Origins
  <2>8. Results'
    BY <1>2, <2>4 DEF Results, Echoes
  <2>9. /\ worker_sock[w] \in DOMAIN conns
        /\ conns[worker_sock[w]] = WorkerConn(w, worker_boot[w])
    BY Zenon DEF ConnectedWorkerReachable, WorkerConn
  <2>10. Instructions'
    <3> SUFFICES ASSUME NEW r \in Socks, NEW i \in DOMAIN toP'[r], toP'[r][i].type = "CaptureInstruct"
                 PROVE  LET f == toP'[r][i] IN
                        /\ f.capture_attempt \in DOMAIN origin' /\ f = origin'[f.capture_attempt]
                        /\ r \in DOMAIN conns /\ conns[r] = WorkerConn(f.worker_id, f.worker_boot)
      BY <2>1, ZenonT(60) DEF Instructions, WorkerConn
    <3>1. CASE i \in DOMAIN toP[r] /\ toP'[r][i] = toP[r][i]
      BY <2>4, <3>1 DEF Instructions
    <3>2. CASE r = out'.to /\ r \in DOMAIN conns /\ toP'[r][i] = out'.msg
      BY <2>2, <2>4, <2>9, <3>2, Zenon
    <3> QED BY <1>1, <3>1, <3>2, Zenon
  <2> QED BY <2>7, <2>8, <2>10, Zenon
<1>5. (Enrols(s, m) \/ Passes) => out'.msg.type # "CaptureInstruct"
  BY Zenon DEF Enrols, Passes
<1> QED BY <1>1, <1>3, <1>4, <1>5, HandleCases, Zenon

\* The end of a connection: its owner is gone, and the worker on it is disconnected.
LEMMA ServeEnd ==
  ASSUME ClInv, NEW s \in Socks, Serve(s), Head(toC[s]).type = "EOF" PROVE ClInv'
<1> USE DEF ClInv
<1>1. /\ toC[s] # << >> /\ s \in DOMAIN conns /\ conns' = Drop(conns, s)
      /\ worker_connected' = IF conns[s].is_worker THEN worker_connected \ {conns[s].worker_id}
                                                   ELSE worker_connected
      /\ UNCHANGED <<epoch, cache_gen, worker_boot, worker_sock, capture_counter, pending, wk, cl, origin>>
      /\ toC' = [toC EXCEPT ![s] = << >>] /\ toP' = [toP EXCEPT ![s] = << >>]
  BY Zenon DEF Serve, Close, CloseWith, authority, waiting
<1>2. /\ DOMAIN toC' = Socks /\ toC'[s] = << >> /\ \A r \in Socks \ {s} : toC'[r] = toC[r]
      /\ DOMAIN toP' = Socks /\ toP'[s] = << >> /\ \A r \in Socks \ {s} : toP'[r] = toP[r]
  BY <1>1, Zenon DEF PeersShape
<1>3. DOMAIN conns' = DOMAIN conns \ {s} /\ \A r \in DOMAIN conns \ {s} : conns'[r] = conns[r]
  BY <1>1, Zenon DEF Drop
<1>4. IsQueue(<< >>) /\ DOMAIN << >> = {}
  BY EmptyQueue, Zenon
\* No live process has this connection.
<1>5. ~Open(s)
  <2>1. 1 \in DOMAIN toC[s] /\ Head(toC[s]) = toC[s][1]
    BY <1>1, Taken, Zenon DEF PeersShape
  <2> QED BY <2>1, Zenon DEF Open
<1>6. \A r : Open(r) => r \in Socks /\ r # s /\ Open(r)'
  BY <1>2, <1>3, <1>5, ZenonT(60) DEF Open, PeersShape
<1>7. PeersShape'
  BY <1>1, <1>2, <1>3, <1>4, Zenon DEF PeersShape
<1>8. OneOwner'
  BY <1>1, <1>6, Zenon DEF OneOwner, LiveWorker, LiveClient
<1>9. Registrations'
  BY <1>1, <1>2, <1>3, <1>4 DEF Registrations, LiveWorker
<1>10. Identified'
  BY <1>1, <1>3, <1>6, ZenonT(60) DEF Identified, OneOwner, Open, LiveWorker, WorkerConn
<1>11. KnownWorkers' /\ Authority'
  BY <1>1, Zenon DEF KnownWorkers, Authority
<1>12. ConnectedWorkerReachable'
  BY <1>1, <1>3 DEF ConnectedWorkerReachable
<1>13. Origins' /\ Results'
  <2>1. Origins'
    BY <1>1, ZenonT(60) DEF Origins
  <2>2. Results'
    BY <1>1, <1>2, <1>4 DEF Results, Echoes
  <2> QED BY <2>1, <2>2, Zenon
<1>14. Instructions'
  BY <1>1, <1>2, <1>3, <1>4 DEF Instructions, WorkerConn
<1> QED BY <1>7, <1>8, <1>9, <1>10, <1>11, <1>12, <1>13, <1>14, Zenon
-----------------------------------------------------------------------------
(***************************************************************************)
(* Workers and clients move while the coordinator does not.                *)
(***************************************************************************)
\* Frames are taken, at most m is added at the end of what s still sends, and no process
\* comes to life or changes its connection.
Moves(s, m) ==
  /\ UNCHANGED <<conns, worker_boot, worker_connected, worker_sock, epoch, cache_gen, capture_counter,
                 pending, origin>>
  /\ DOMAIN toC' = Socks /\ DOMAIN toP' = Socks
  /\ \A r \in Socks : IsQueue(toC'[r]) /\ IsQueue(toP'[r])
  /\ \A r \in Socks : \A i \in DOMAIN toP'[r] : \E j \in DOMAIN toP[r] : toP'[r][i] = toP[r][j]
  /\ \A r \in Socks : \A i \in DOMAIN toC'[r] :
       \/ i \in DOMAIN toC[r] /\ toC'[r][i] = toC[r][i]
       \/ r = s /\ toC'[r][i] = m
  /\ DOMAIN wk' = WorkerIds /\ DOMAIN cl' = Clients
  /\ \A w \in WorkerIds :
       /\ DOMAIN wk'[w] = DOMAIN wk[w]
       /\ wk'[w].pc # "down" =>
            wk[w].pc # "down" /\ wk'[w].sock = wk[w].sock /\ wk'[w].boot = wk[w].boot
  /\ \A c \in Clients :
       /\ DOMAIN cl'[c] = DOMAIN cl[c]
       /\ cl'[c].pc # "off" => cl[c].pc # "off" /\ cl'[c].sock = cl[c].sock
\* What m may be.
Admissible(s, m) ==
  /\ m.type # "Register"
  /\ m.type = "CaptureResult" => Echoes(m)
  /\ m.type = "EOF" => /\ \A w \in WorkerIds : wk'[w].pc # "down" => wk'[w].sock # s
                       /\ \A c \in Clients : cl'[c].pc # "off" => cl'[c].sock # s

\* Such moves keep the invariant.
LEMMA MovesKeep ==
  ASSUME ClInv, NEW s, NEW m, Moves(s, m), Admissible(s, m) PROVE ClInv'
<1> USE DEF ClInv
<1>1. PeersShape'
  BY Zenon DEF PeersShape, Moves
<1>2. OneOwner'
  <2> DEFINE OpenThen(r) == r \in DOMAIN conns' /\ \A i \in DOMAIN toC'[r] : toC'[r][i].type # "EOF"
  <2>1. \A r : Open(r) /\ (m.type = "EOF" => r # s) => OpenThen(r)
    BY DEF Open, Moves, PeersShape
  <2> HIDE DEF OpenThen
  <2>2. \A w \in WorkerIds : LiveWorker(w)' => OpenThen(wk'[w].sock)
    BY <2>1, Zenon DEF OneOwner, LiveWorker, Moves, Admissible
  <2>3. \A c \in Clients : LiveClient(c)' => OpenThen(cl'[c].sock)
    BY <2>1, Zenon DEF OneOwner, LiveClient, Moves, Admissible
  <2>4. \A v, w \in WorkerIds : (LiveWorker(v) /\ LiveWorker(w) /\ wk[v].sock = wk[w].sock)' => v = w
    BY ZenonT(60) DEF OneOwner, LiveWorker, Moves
  <2>5. \A c, d \in Clients : (LiveClient(c) /\ LiveClient(d) /\ cl[c].sock = cl[d].sock)' => c = d
    BY ZenonT(60) DEF OneOwner, LiveClient, Moves
  <2>6. \A w \in WorkerIds, c \in Clients :
          (LiveWorker(w) /\ LiveClient(c))' => wk'[w].sock # cl'[c].sock
    BY DEF OneOwner, LiveWorker, LiveClient, Moves
  <2> QED BY <2>2, <2>3, <2>4, <2>5, <2>6, Zenon DEF OneOwner, OpenThen, Open
<1>3. Registrations'
  BY DEF Registrations, LiveWorker, Moves, Admissible
<1>4. Identified'
  BY ZenonT(60) DEF Identified, LiveWorker, WorkerConn, Moves
<1>5. KnownWorkers' /\ Authority' /\ ConnectedWorkerReachable' /\ Origins'
  BY Zenon DEF KnownWorkers, Authority, ConnectedWorkerReachable, Origins, Moves
<1>6. Instructions'
  BY DEF Instructions, WorkerConn, Moves
<1>7. Results'
  BY DEF Results, Echoes, Moves, Admissible
<1> QED BY <1>1, <1>2, <1>3, <1>4, <1>5, <1>6, <1>7, Zenon

\* The coordinator's state, of which the invariant sees these parts.
LEMMA StillCoordinator ==
  UNCHANGED cvars => UNCHANGED <<conns, worker_boot, worker_connected, worker_sock, epoch, cache_gen,
                                 capture_counter, pending>>
  BY Zenon DEF cvars, authority, workers, waiting

\* Taking a frame, and sending one.
LEMMA TakesQueues ==
  ASSUME PeersShape, NEW s \in Socks, Takes(s)
  PROVE  /\ 1 \in DOMAIN toP[s] /\ Head(toP[s]) = toP[s][1]
         /\ DOMAIN toP' = Socks /\ \A r \in Socks : IsQueue(toP'[r])
         /\ \A r \in Socks : \A i \in DOMAIN toP'[r] : \E j \in DOMAIN toP[r] : toP'[r][i] = toP[r][j]
<1>1. /\ 1 \in DOMAIN toP[s] /\ Head(toP[s]) = toP[s][1] /\ IsQueue(Tail(toP[s]))
      /\ \A i \in DOMAIN Tail(toP[s]) : i + 1 \in DOMAIN toP[s] /\ Tail(toP[s])[i] = toP[s][i + 1]
  BY Taken, Zenon DEF PeersShape, Takes
<1>2. DOMAIN toP' = Socks /\ toP'[s] = Tail(toP[s]) /\ \A r \in Socks \ {s} : toP'[r] = toP[r]
  BY Zenon DEF PeersShape, Takes
<1>3. \A r \in Socks : IsQueue(toP'[r])
  BY <1>1, <1>2, Zenon DEF PeersShape
<1>4. ASSUME NEW r \in Socks, NEW i \in DOMAIN toP'[r]
      PROVE  \E j \in DOMAIN toP[r] : toP'[r][i] = toP[r][j]
  <2>1. CASE r = s
    BY <1>1, <1>2, <2>1, Zenon
  <2>2. CASE r # s
    BY <1>2, <2>2, Zenon
  <2> QED BY <2>1, <2>2, Zenon
<1> QED BY <1>1, <1>2, <1>3, <1>4, Zenon

\* A process that sends appends to the queue of its own connection alone.
LEMMA SendsQueues ==
  ASSUME PeersShape, NEW s \in Socks, NEW m, Sends(s, m) \/ (Hangup(s) /\ m = EOF)
  PROVE  /\ DOMAIN toC' = Socks /\ \A r \in Socks : IsQueue(toC'[r])
         /\ \A r \in Socks : \A i \in DOMAIN toC'[r] :
              \/ i \in DOMAIN toC[r] /\ toC'[r][i] = toC[r][i]
              \/ r = s /\ toC'[r][i] = m
<1>1. PICK q : /\ IsQueue(q) /\ \A i \in DOMAIN q : i \in DOMAIN toC[s] /\ q[i] = toC[s][i]
               /\ toC' = [toC EXCEPT ![s] = Append(q, m)]
  <2>1. CASE Sends(s, m)
    BY <2>1, Zenon DEF Sends, PeersShape
  <2>2. CASE Hangup(s) /\ m = EOF
    <3>1. PICK n \in 0 .. Len(toC[s]) : toC' = [toC EXCEPT ![s] = Append(SubSeq(toC[s], 1, n), EOF)]
      BY <2>2, Zenon DEF Hangup
    <3> QED BY <2>2, <3>1, Cut, Zenon DEF PeersShape
  <2> QED BY <2>1, <2>2, Zenon
<1>2. DOMAIN toC' = Socks /\ toC'[s] = Append(q, m) /\ \A r \in Socks \ {s} : toC'[r] = toC[r]
  BY <1>1, Zenon DEF PeersShape
<1> QED BY <1>1, <1>2, Appended DEF PeersShape

\* A live process has a handle of its own.
LEMMA OwnHandles ==
  ASSUME ClInv
  PROVE  /\ \A w \in WorkerIds : wk[w].pc # "down" => wk[w].sock \in Socks /\ wk[w].sock \in DOMAIN conns
         /\ \A c \in Clients : cl[c].pc # "off" => cl[c].sock \in Socks /\ cl[c].sock \in DOMAIN conns
  BY Zenon DEF ClInv, OneOwner, Open, LiveWorker, LiveClient, PeersShape

\* The answer to a registration: the worker is up, or exits.
LEMMA AckStep == ASSUME ClInv, NEW w \in WorkerIds, WorkerAck(w) PROVE ClInv'
<1> DEFINE s == wk[w].sock
<1>1. s \in Socks /\ PeersShape /\ LiveWorker(w)
  BY OwnHandles, Zenon DEF WorkerAck, ClInv, LiveWorker
<1> HIDE DEF s
<1>2. /\ DOMAIN toP' = Socks /\ \A r \in Socks : IsQueue(toP'[r])
      /\ \A r \in Socks : \A i \in DOMAIN toP'[r] : \E j \in DOMAIN toP[r] : toP'[r][i] = toP[r][j]
  BY <1>1, TakesQueues, Zenon DEF WorkerAck, s
<1>3. UNCHANGED <<conns, worker_boot, worker_connected, worker_sock, epoch, cache_gen, capture_counter,
                  pending, origin>>
  BY StillCoordinator, Zenon DEF WorkerAck
<1>4. CASE wk' = [wk EXCEPT ![w].pc = "up"] /\ UNCHANGED toC
  <2>1. Moves(s, Blank)
    BY <1>1, <1>2, <1>3, <1>4, ZenonT(60) DEF Moves, PeersShape, WorkerAck, LiveWorker
  <2>2. Admissible(s, Blank)
    BY Zenon DEF Admissible, Blank
  <2> QED BY <2>1, <2>2, MovesKeep, Zenon
<1>5. CASE wk' = [wk EXCEPT ![w].pc = "down", ![w].sock = NoSock] /\ Sends(s, EOF)
  <2>1. /\ DOMAIN wk' = WorkerIds /\ wk'[w].pc = "down" /\ DOMAIN wk'[w] = DOMAIN wk[w]
        /\ \A v \in WorkerIds \ {w} : wk'[v] = wk[v]
    BY <1>1, <1>5, Zenon DEF PeersShape
  <2>2. /\ DOMAIN toC' = Socks /\ \A r \in Socks : IsQueue(toC'[r])
        /\ \A r \in Socks : \A i \in DOMAIN toC'[r] :
             \/ i \in DOMAIN toC[r] /\ toC'[r][i] = toC[r][i]
             \/ r = s /\ toC'[r][i] = EOF
    BY <1>1, <1>5, SendsQueues, Zenon
  <2>3. cl' = cl
    BY Zenon DEF WorkerAck
  <2>4. Moves(s, EOF)
    BY <1>1, <1>2, <1>3, <2>1, <2>2, <2>3, Zenon DEF Moves, PeersShape
  <2>5. Admissible(s, EOF)
    BY <1>1, <2>1, <2>3, ZenonT(60) DEF Admissible, EOF, Blank, ClInv, OneOwner, LiveWorker, LiveClient, s
  <2> QED BY <2>4, <2>5, MovesKeep, Zenon
<1> QED BY <1>4, <1>5, Zenon DEF WorkerAck, s

\* An answer to an instruction: only that of a capture instruction is a capture result,
\* and it repeats what the instruction says.
LEMMA AnswerStep ==
  ASSUME ClInv, NEW w \in WorkerIds, WorkerCapture(w) \/ WorkerReplay(w) \/ WorkerIgnore(w)
  PROVE  ClInv'
<1> DEFINE s == wk[w].sock
           m == toP[s][1]
<1>1. s \in Socks /\ s \in DOMAIN conns /\ PeersShape /\ LiveWorker(w) /\ Takes(s)
  BY OwnHandles, Zenon DEF WorkerCapture, WorkerReplay, WorkerIgnore, ClInv, LiveWorker
<1> HIDE DEF s
<1>2. /\ 1 \in DOMAIN toP[s] /\ Head(toP[s]) = m
      /\ DOMAIN toP' = Socks /\ \A r \in Socks : IsQueue(toP'[r])
      /\ \A r \in Socks : \A i \in DOMAIN toP'[r] : \E j \in DOMAIN toP[r] : toP'[r][i] = toP[r][j]
  BY <1>1, TakesQueues, Zenon
<1> HIDE DEF m
<1>3. UNCHANGED <<conns, worker_boot, worker_connected, worker_sock, epoch, cache_gen, capture_counter,
                  pending, origin>>
  BY StillCoordinator, Zenon DEF WorkerCapture, WorkerReplay, WorkerIgnore
<1>4. /\ cl' = cl /\ DOMAIN wk' = WorkerIds
      /\ \A v \in WorkerIds : /\ DOMAIN wk'[v] = DOMAIN wk[v] /\ wk'[v].pc = wk[v].pc
                              /\ wk'[v].sock = wk[v].sock /\ wk'[v].boot = wk[v].boot
  <2>1. cl' = cl /\ (wk' = wk \/ \E x : wk' = [wk EXCEPT ![w].execs = x])
    BY Zenon DEF WorkerCapture, WorkerReplay, WorkerIgnore
  <2>2. CASE wk' = wk
    BY <1>1, <2>1, <2>2, Zenon DEF PeersShape
  <2>3. CASE \E x : wk' = [wk EXCEPT ![w].execs = x]
    <3>1. PICK x : wk' = [wk EXCEPT ![w].execs = x]
      BY <2>3, Zenon
    <3> QED BY <1>1, <2>1, <3>1, ZenonT(60) DEF PeersShape
  <2> QED BY <2>1, <2>2, <2>3, Zenon
<1>5. ASSUME NEW f, Sends(s, f), f.type # "Register", f.type # "EOF",
             f.type = "CaptureResult" => Echoes(f)
      PROVE  ClInv'
  <2>1. /\ DOMAIN toC' = Socks /\ \A r \in Socks : IsQueue(toC'[r])
        /\ \A r \in Socks : \A i \in DOMAIN toC'[r] :
             \/ i \in DOMAIN toC[r] /\ toC'[r][i] = toC[r][i]
             \/ r = s /\ toC'[r][i] = f
    BY <1>1, <1>5, SendsQueues, ZenonT(60)
  <2>2. Moves(s, f)
    BY <1>1, <1>2, <1>3, <1>4, <2>1, Zenon DEF Moves, PeersShape
  <2>3. Admissible(s, f)
    BY <1>5, Zenon DEF Admissible
  <2> QED BY <2>2, <2>3, MovesKeep, Zenon
<1>6. CASE WorkerIgnore(w)
  <2>1. Moves(s, Blank)
    BY <1>1, <1>2, <1>3, <1>4, <1>6, Zenon DEF Moves, PeersShape, WorkerIgnore
  <2>2. Admissible(s, Blank)
    BY Zenon DEF Admissible, Blank
  <2> QED BY <2>1, <2>2, MovesKeep, Zenon
<1>7. CASE WorkerReplay(w)
  <2>1. PICK status, body : Answer(w, m, "ReplayResult", status, body)
    BY <1>2, <1>7, Zenon DEF WorkerReplay, s
  <2> DEFINE f == [Blank EXCEPT !.type = "ReplayResult", !.request_id = m.request_id, !.epoch = m.epoch,
                      !.cache_gen = m.cache_gen, !.worker_id = w, !.worker_boot = wk[w].boot,
                      !.capture_attempt = m.capture_attempt, !.graph_gen = m.graph_gen,
                      !.status = status, !.body = body]
  <2>2. Sends(s, f)
    BY <2>1, Zenon DEF Answer, s
  <2>3. f.type = "ReplayResult"
    BY Zenon DEF Blank
  <2> QED BY <2>2, <2>3, <1>5, Zenon
<1>8. CASE WorkerCapture(w)
  <2>1. PICK status, body : Answer(w, m, "CaptureResult", status, body)
    BY <1>2, <1>8, Zenon DEF WorkerCapture, s
  <2> DEFINE f == [Blank EXCEPT !.type = "CaptureResult", !.request_id = m.request_id, !.epoch = m.epoch,
                      !.cache_gen = m.cache_gen, !.worker_id = w, !.worker_boot = wk[w].boot,
                      !.capture_attempt = m.capture_attempt, !.graph_gen = m.graph_gen,
                      !.status = status, !.body = body]
  <2>2. Sends(s, f)
    BY <2>1, Zenon DEF Answer, s
  <2>3. /\ f.type = "CaptureResult" /\ f.epoch = m.epoch /\ f.cache_gen = m.cache_gen
        /\ f.worker_id = w /\ f.worker_boot = wk[w].boot /\ f.capture_attempt = m.capture_attempt
    BY Zenon DEF Blank
  <2> HIDE DEF f
  <2>4. /\ m.capture_attempt \in DOMAIN origin /\ m = origin[m.capture_attempt]
        /\ conns[s] = WorkerConn(m.worker_id, m.worker_boot)
    BY <1>1, <1>2, <1>8, ZenonT(60) DEF WorkerCapture, ClInv, Instructions, m, s
  <2>5. WorkerConn(m.worker_id, m.worker_boot) = WorkerConn(w, wk[w].boot)
    BY <1>1, <2>4 DEF ClInv, Identified, WorkerConn, s
  <2>6. m.worker_id = w /\ m.worker_boot = wk[w].boot
    BY <2>5, Zenon DEF WorkerConn
  <2>7. Echoes(f)
    BY <2>3, <2>4, <2>6, Zenon DEF Echoes
  <2> QED BY <2>2, <2>3, <2>7, <1>5, Zenon
<1> QED BY <1>6, <1>7, <1>8, Zenon

\* A process goes: an end of stream is all that is added to its connection.
LEMMA WorkerDeath == ASSUME ClInv, NEW w \in WorkerIds, WorkerDies(w) PROVE ClInv'
<1> DEFINE s == wk[w].sock
<1>1. s \in Socks /\ PeersShape /\ LiveWorker(w)
  BY OwnHandles, Zenon DEF WorkerDies, ClInv, LiveWorker
<1> HIDE DEF s
<1>2. UNCHANGED <<conns, worker_boot, worker_connected, worker_sock, epoch, cache_gen, capture_counter,
                  pending, origin>> /\ toP' = toP /\ cl' = cl
  BY StillCoordinator, Zenon DEF WorkerDies
<1>3. /\ DOMAIN wk' = WorkerIds /\ wk'[w].pc = "down" /\ DOMAIN wk'[w] = DOMAIN wk[w]
      /\ \A v \in WorkerIds \ {w} : wk'[v] = wk[v]
  BY <1>1, Zenon DEF WorkerDies, DownWorker, PeersShape
<1>4. /\ DOMAIN toC' = Socks /\ \A r \in Socks : IsQueue(toC'[r])
      /\ \A r \in Socks : \A i \in DOMAIN toC'[r] :
           \/ i \in DOMAIN toC[r] /\ toC'[r][i] = toC[r][i]
           \/ r = s /\ toC'[r][i] = EOF
  BY <1>1, SendsQueues, Zenon DEF WorkerDies, s
<1>5. Moves(s, EOF)
  BY <1>1, <1>2, <1>3, <1>4, Zenon DEF Moves, PeersShape
<1>6. Admissible(s, EOF)
  BY <1>1, <1>2, <1>3, ZenonT(60) DEF Admissible, EOF, Blank, ClInv, OneOwner, LiveWorker, LiveClient, s
<1> QED BY <1>5, <1>6, MovesKeep, Zenon

\* A client that leaves closes its connection behind what it sent.
LEMMA ClientGoes == ASSUME ClInv, NEW c \in Clients, ClientLeaves(c) PROVE ClInv'
<1> DEFINE s == cl[c].sock
<1>1. s \in Socks /\ PeersShape /\ LiveClient(c)
  BY OwnHandles, Zenon DEF ClientLeaves, ClInv, LiveClient
<1> HIDE DEF s
<1>2. UNCHANGED <<conns, worker_boot, worker_connected, worker_sock, epoch, cache_gen, capture_counter,
                  pending, origin>> /\ toP' = toP /\ wk' = wk
  BY StillCoordinator, Zenon DEF ClientLeaves
<1>3. /\ DOMAIN cl' = Clients /\ cl'[c].pc = "off" /\ DOMAIN cl'[c] = DOMAIN cl[c]
      /\ \A d \in Clients \ {c} : cl'[d] = cl[d]
  BY <1>1, Zenon DEF ClientLeaves, NewClient, PeersShape
<1>4. /\ DOMAIN toC' = Socks /\ \A r \in Socks : IsQueue(toC'[r])
      /\ \A r \in Socks : \A i \in DOMAIN toC'[r] :
           \/ i \in DOMAIN toC[r] /\ toC'[r][i] = toC[r][i]
           \/ r = s /\ toC'[r][i] = EOF
  BY <1>1, SendsQueues, Zenon DEF ClientLeaves, s
<1>5. Moves(s, EOF)
  BY <1>1, <1>2, <1>3, <1>4, Zenon DEF Moves, PeersShape
<1>6. Admissible(s, EOF)
  BY <1>1, <1>2, <1>3, ZenonT(60) DEF Admissible, EOF, Blank, ClInv, OneOwner, LiveWorker, LiveClient, s
<1> QED BY <1>5, <1>6, MovesKeep, Zenon

\* A request, of whatever kind, and the receipt of an answer.
LEMMA RequestStep ==
  ASSUME ClInv, NEW c \in Clients, ClientLookup(c) \/ ClientReplay(c) \/ ClientInvalidate(c)
  PROVE  ClInv'
<1> DEFINE s == cl[c].sock
           Request(m) == [m EXCEPT !.request_id = RequestId[c, cl[c].sent + 1], !.epoch = cl[c].epoch,
                                   !.cache_gen = cl[c].cache_gen]
<1>1. PICK m : /\ Asks(c, m) /\ DOMAIN m = DOMAIN Blank
               /\ m.type \in {"Lookup", "ReplayInstruct", "Invalidate"}
  <2>1. CASE ClientLookup(c)
    <3>1. PICK g \in Graphs : Asks(c, [Blank EXCEPT !.type = "Lookup", !.body = g])
      BY <2>1, Zenon DEF ClientLookup
    <3> DEFINE m == [Blank EXCEPT !.type = "Lookup", !.body = g]
    <3>2. m.type = "Lookup" /\ DOMAIN m = DOMAIN Blank
      BY Zenon DEF Blank
    <3> HIDE DEF m
    <3> QED BY <3>1, <3>2, Zenon DEF m
  <2>2. CASE ClientReplay(c)
    <3> DEFINE m == [Blank EXCEPT !.type = "ReplayInstruct", !.body = cl[c].artifact,
                                  !.graph_gen = cl[c].graph_gen]
    <3>1. Asks(c, m)
      BY <2>2, Zenon DEF ClientReplay
    <3>2. m.type = "ReplayInstruct" /\ DOMAIN m = DOMAIN Blank
      BY Zenon DEF Blank
    <3> HIDE DEF m
    <3> QED BY <3>1, <3>2, Zenon
  <2>3. CASE ClientInvalidate(c)
    <3>1. PICK roll \in BOOLEAN : Asks(c, [Blank EXCEPT !.type = "Invalidate", !.roll = roll])
      BY <2>3, Zenon DEF ClientInvalidate
    <3> DEFINE m == [Blank EXCEPT !.type = "Invalidate", !.roll = roll]
    <3>2. m.type = "Invalidate" /\ DOMAIN m = DOMAIN Blank
      BY Zenon DEF Blank
    <3> HIDE DEF m
    <3> QED BY <3>1, <3>2, Zenon DEF m
  <2> QED BY <2>1, <2>2, <2>3, Zenon
<1>2. s \in Socks /\ PeersShape /\ LiveClient(c)
  BY <1>1, OwnHandles, Zenon DEF Asks, ClInv, LiveClient
<1>3. Request(m).type = m.type
  BY <1>1, Zenon DEF Blank
<1>4. UNCHANGED <<conns, worker_boot, worker_connected, worker_sock, epoch, cache_gen, capture_counter,
                  pending, origin>> /\ toP' = toP /\ wk' = wk /\ Sends(s, Request(m))
  BY <1>1, StillCoordinator, Zenon DEF Asks
<1>5. /\ DOMAIN cl' = Clients
      /\ \A d \in Clients : /\ DOMAIN cl'[d] = DOMAIN cl[d] /\ cl'[d].sock = cl[d].sock
                            /\ cl'[d].pc # "off" => cl[d].pc # "off"
  BY <1>1, <1>2, ZenonT(60) DEF Asks, PeersShape
<1> HIDE DEF s, Request
<1>6. /\ DOMAIN toC' = Socks /\ \A r \in Socks : IsQueue(toC'[r])
      /\ \A r \in Socks : \A i \in DOMAIN toC'[r] :
           \/ i \in DOMAIN toC[r] /\ toC'[r][i] = toC[r][i]
           \/ r = s /\ toC'[r][i] = Request(m)
  BY <1>2, <1>4, SendsQueues, ZenonT(60)
<1>7. Moves(s, Request(m))
  BY <1>2, <1>4, <1>5, <1>6, Zenon DEF Moves, PeersShape
<1>8. Admissible(s, Request(m))
  BY <1>1, <1>3, Zenon DEF Admissible
<1> QED BY <1>7, <1>8, MovesKeep, Zenon

\* A client takes an answer.
LEMMA ReceiptStep == ASSUME ClInv, NEW c \in Clients, ClientReceive(c) PROVE ClInv'
<1> DEFINE s == cl[c].sock
<1>1. s \in Socks /\ PeersShape /\ LiveClient(c) /\ Takes(s)
  BY OwnHandles, Zenon DEF ClientReceive, ClInv, LiveClient
<1>2. UNCHANGED <<conns, worker_boot, worker_connected, worker_sock, epoch, cache_gen, capture_counter,
                  pending, origin>> /\ toC' = toC /\ wk' = wk
  BY StillCoordinator, Zenon DEF ClientReceive
<1>3. /\ DOMAIN cl' = Clients
      /\ \A d \in Clients : /\ DOMAIN cl'[d] = DOMAIN cl[d] /\ cl'[d].sock = cl[d].sock
                            /\ cl'[d].pc # "off" => cl[d].pc # "off"
  <2> DEFINE m == Head(toP[s])
             found == m.type = "LookupResult" /\ m.status = "Ok" /\ m.body # None
             a == IF found THEN m.body ELSE cl[c].artifact
             g == IF found THEN m.graph_gen ELSE cl[c].graph_gen
             e == m.epoch
             k == m.cache_gen
  <2>1. cl' = [cl EXCEPT ![c].pc = "idle", ![c].epoch = e, ![c].cache_gen = k, ![c].artifact = a,
                         ![c].graph_gen = g]
    BY <1>1, Zenon DEF ClientReceive, PeersShape
  <2>2. cl[c].pc # "off"
    BY <1>1, Zenon DEF LiveClient
  <2> HIDE DEF a, g, e, k
  <2>3. /\ DOMAIN cl' = Clients /\ \A d \in Clients \ {c} : cl'[d] = cl[d]
        /\ DOMAIN cl'[c] = DOMAIN cl[c] /\ cl'[c].sock = cl[c].sock
    BY <1>1, <2>1, ZenonT(60) DEF PeersShape
  <2> QED BY <2>2, <2>3, Zenon
<1> HIDE DEF s
<1>4. /\ DOMAIN toP' = Socks /\ \A r \in Socks : IsQueue(toP'[r])
      /\ \A r \in Socks : \A i \in DOMAIN toP'[r] : \E j \in DOMAIN toP[r] : toP'[r][i] = toP[r][j]
  BY <1>1, TakesQueues, Zenon
<1>5. Moves(s, Blank)
  BY <1>1, <1>2, <1>3, <1>4, Zenon DEF Moves, PeersShape
<1>6. Admissible(s, Blank)
  BY Zenon DEF Admissible, Blank
<1> QED BY <1>5, <1>6, MovesKeep, Zenon

\* A new connection: a handle nobody had, under which nothing is on its way yet but first.
LEMMA NewConnection ==
  ASSUME ClInv, NEW s \in Socks, NEW first, IsQueue(first), Connect(s, first), UNCHANGED origin,
         \A i \in DOMAIN first : first[i].type # "CaptureResult"
  PROVE  /\ KnownWorkers' /\ Authority' /\ ConnectedWorkerReachable' /\ Origins'
         /\ Instructions' /\ Results'
         /\ s \notin DOMAIN conns /\ DOMAIN conns' = DOMAIN conns \cup {s} /\ ~conns'[s].is_worker
         /\ \A r \in DOMAIN conns : conns'[r] = conns[r]
         /\ DOMAIN toC' = Socks /\ toC'[s] = first /\ \A r \in Socks \ {s} : toC'[r] = toC[r]
         /\ DOMAIN toP' = Socks /\ \A r \in Socks : IsQueue(toC'[r]) /\ IsQueue(toP'[r])
<1> USE DEF ClInv
<1>1. /\ s \notin DOMAIN conns /\ DOMAIN conns' = DOMAIN conns \cup {s} /\ ~conns'[s].is_worker
      /\ \A r \in DOMAIN conns : conns'[r] = conns[r]
  BY Zenon DEF Connect, Accept, Put
<1>2. /\ DOMAIN toC' = Socks /\ toC'[s] = first /\ \A r \in Socks \ {s} : toC'[r] = toC[r]
      /\ DOMAIN toP' = Socks /\ toP'[s] = << >> /\ \A r \in Socks \ {s} : toP'[r] = toP[r]
  BY Zenon DEF Connect, PeersShape
<1>3. \A r \in Socks : IsQueue(toC'[r]) /\ IsQueue(toP'[r])
  BY <1>2, EmptyQueue, Zenon DEF PeersShape
<1>4. UNCHANGED <<worker_boot, worker_connected, worker_sock, epoch, cache_gen, capture_counter,
                  pending, origin>>
  BY Zenon DEF Connect, Accept, authority, workers, waiting
<1>5. KnownWorkers' /\ Authority' /\ Origins'
  BY <1>4, Zenon DEF KnownWorkers, Authority, Origins
<1>6. ConnectedWorkerReachable'
  BY <1>1, <1>4, Zenon DEF ConnectedWorkerReachable
<1>7. Instructions'
  <2>1. DOMAIN toP'[s] = {}
    BY <1>2, EmptyQueue, ZenonT(60)
  <2> QED BY <1>1, <1>2, <1>4, <2>1 DEF Instructions, WorkerConn
<1>8. Results'
  BY <1>2, <1>4 DEF Results, Echoes
<1> QED BY <1>1, <1>2, <1>3, <1>5, <1>6, <1>7, <1>8, Zenon

\* A worker restarts under its next boot id and registers on a new connection.
LEMMA WorkerConnects == ASSUME ClInv, NEW w \in WorkerIds, WorkerStart(w) PROVE ClInv'
<1> USE DEF ClInv
<1> DEFINE b == wk[w].boot + 1
           hello == [Blank EXCEPT !.type = "Register", !.worker_id = w, !.worker_boot = b, !.epoch = 1]
<1>1. PICK s \in Socks :
        /\ Connect(s, <<hello>>)
        /\ wk' = [wk EXCEPT ![w] = [pc |-> "joining", boot |-> b, sock |-> s, execs |-> {}]]
  BY Zenon DEF WorkerStart
<1>2. b \in Boots /\ ~LiveWorker(w) /\ cl' = cl /\ UNCHANGED origin
  BY Zenon DEF WorkerStart, LiveWorker
<1>3. hello.type = "Register" /\ hello.worker_id = w /\ hello.worker_boot = b
  BY Zenon DEF Blank
<1> HIDE DEF hello, b
<1>4. IsQueue(<<hello>>) /\ DOMAIN <<hello>> = {1} /\ <<hello>>[1] = hello
  <2>1. <<hello>> \in Seq({hello}) /\ Len(<<hello>>) = 1 /\ <<hello>>[1] = hello
    OBVIOUS
  <2>2. DOMAIN <<hello>> = {1}
    BY <2>1
  <2>3. IsQueue(<<hello>>)
    BY <2>1, QueueOf, Zenon
  <2> QED BY <2>1, <2>2, <2>3, Zenon
<1> DEFINE first == <<hello>>
<1> HIDE DEF first
<1>5. /\ KnownWorkers' /\ Authority' /\ ConnectedWorkerReachable' /\ Origins'
      /\ Instructions' /\ Results'
      /\ s \notin DOMAIN conns /\ DOMAIN conns' = DOMAIN conns \cup {s} /\ ~conns'[s].is_worker
      /\ \A r \in DOMAIN conns : conns'[r] = conns[r]
      /\ DOMAIN toC' = Socks /\ toC'[s] = first /\ \A r \in Socks \ {s} : toC'[r] = toC[r]
      /\ DOMAIN toP' = Socks /\ \A r \in Socks : IsQueue(toC'[r]) /\ IsQueue(toP'[r])
  BY <1>1, <1>2, <1>3, <1>4, NewConnection, Zenon DEF first
<1>6. /\ DOMAIN wk' = WorkerIds /\ DOMAIN wk'[w] = {"pc", "boot", "sock", "execs"}
      /\ wk'[w].sock = s /\ wk'[w].boot = b /\ \A v \in WorkerIds \ {w} : wk'[v] = wk[v]
  BY <1>1, Zenon DEF PeersShape
<1>7. PeersShape'
  BY <1>2, <1>5, <1>6, Zenon DEF PeersShape
<1>8. /\ \A v \in WorkerIds \ {w} : LiveWorker(v) => wk[v].sock # s /\ wk[v].sock \in Socks
      /\ \A c \in Clients : LiveClient(c) => cl[c].sock # s /\ cl[c].sock \in Socks
  BY <1>5, OwnHandles, Zenon DEF LiveWorker, LiveClient
<1>9. OneOwner'
  <2>1. \A i \in DOMAIN toC'[s] : toC'[s][i].type # "EOF"
    BY <1>3, <1>4, <1>5, ZenonT(60) DEF first
  <2> DEFINE OpenThen(r) == r \in DOMAIN conns' /\ \A i \in DOMAIN toC'[r] : toC'[r][i].type # "EOF"
  <2>2. OpenThen(s) /\ \A r \in Socks \ {s} : Open(r) => OpenThen(r)
    BY <2>1, <1>5, Zenon DEF Open
  <2> HIDE DEF OpenThen
  <2>3. \A v \in WorkerIds : LiveWorker(v)' => OpenThen(wk'[v].sock)
    BY <2>2, <1>6, <1>8 DEF OneOwner, LiveWorker
  <2>4. \A v \in WorkerIds : LiveWorker(v)' => Open(wk[v].sock)'
    BY <2>3, Zenon DEF Open, OpenThen
  <2>5. \A c \in Clients : LiveClient(c)' => OpenThen(cl'[c].sock)
    BY <2>2, <1>2, <1>8, Zenon DEF OneOwner, LiveClient
  <2>6. \A c \in Clients : LiveClient(c)' => Open(cl[c].sock)'
    BY <2>5, Zenon DEF Open, OpenThen
  <2> QED BY <2>4, <2>6, <1>2, <1>6, <1>8 DEF OneOwner, LiveWorker, LiveClient
<1>10. Registrations'
  <2> SUFFICES ASSUME NEW r \in Socks, NEW i \in DOMAIN toC'[r], toC'[r][i].type = "Register"
               PROVE  /\ i = 1 /\ r \in DOMAIN conns' /\ ~conns'[r].is_worker
                      /\ toC'[r][i].worker_id \in WorkerIds /\ toC'[r][i].worker_boot \in Boots
                      /\ \A v \in WorkerIds : wk'[v].pc # "down" /\ wk'[v].sock = r =>
                           toC'[r][i].worker_id = v /\ toC'[r][i].worker_boot = wk'[v].boot
    BY Zenon DEF Registrations, LiveWorker
  <2>1. CASE r = s
    BY <2>1, <1>2, <1>3, <1>4, <1>5, <1>6, <1>8 DEF first, LiveWorker
  <2>2. CASE r # s
    BY <2>2, <1>5, <1>6 DEF Registrations, LiveWorker
  <2> QED BY <2>1, <2>2, Zenon
<1>11. Identified'
  BY <1>5, <1>6, <1>8, OwnHandles DEF Identified, LiveWorker, WorkerConn
<1> QED BY <1>5, <1>7, <1>9, <1>10, <1>11, Zenon

\* A client opens a connection.
LEMMA ClientConnects == ASSUME ClInv, NEW c \in Clients, ClientConnect(c) PROVE ClInv'
<1> USE DEF ClInv
<1>1. PICK s \in Socks : Connect(s, << >>) /\ cl' = [cl EXCEPT ![c].pc = "idle", ![c].sock = s]
  BY Zenon DEF ClientConnect
<1>2. ~LiveClient(c) /\ wk' = wk /\ UNCHANGED origin
  BY Zenon DEF ClientConnect, LiveClient
<1>3. /\ KnownWorkers' /\ Authority' /\ ConnectedWorkerReachable' /\ Origins'
      /\ Instructions' /\ Results'
      /\ s \notin DOMAIN conns /\ DOMAIN conns' = DOMAIN conns \cup {s} /\ ~conns'[s].is_worker
      /\ \A r \in DOMAIN conns : conns'[r] = conns[r]
      /\ DOMAIN toC' = Socks /\ toC'[s] = << >> /\ \A r \in Socks \ {s} : toC'[r] = toC[r]
      /\ DOMAIN toP' = Socks /\ \A r \in Socks : IsQueue(toC'[r]) /\ IsQueue(toP'[r])
  BY <1>1, <1>2, EmptyQueue, NewConnection, Zenon
<1>4. /\ DOMAIN cl' = Clients /\ DOMAIN cl'[c] = DOMAIN cl[c]
      /\ cl'[c].sock = s /\ \A d \in Clients \ {c} : cl'[d] = cl[d]
  BY <1>1, Zenon DEF PeersShape
<1>5. PeersShape'
  BY <1>2, <1>3, <1>4, Zenon DEF PeersShape
<1>6. /\ \A w \in WorkerIds : LiveWorker(w) => wk[w].sock # s /\ wk[w].sock \in Socks
      /\ \A d \in Clients \ {c} : LiveClient(d) => cl[d].sock # s /\ cl[d].sock \in Socks
  BY <1>3, OwnHandles, ZenonT(60) DEF LiveWorker, LiveClient
<1>7. OneOwner'
  <2>1. \A i \in DOMAIN toC'[s] : toC'[s][i].type # "EOF"
    BY <1>3, EmptyQueue, ZenonT(60)
  <2> DEFINE OpenThen(r) == r \in DOMAIN conns' /\ \A i \in DOMAIN toC'[r] : toC'[r][i].type # "EOF"
  <2>2. OpenThen(s) /\ \A r \in Socks \ {s} : Open(r) => OpenThen(r)
    BY <2>1, <1>3, Zenon DEF Open
  <2> HIDE DEF OpenThen
  <2>3. \A w \in WorkerIds : LiveWorker(w)' => OpenThen(wk'[w].sock)
    BY <2>2, <1>2, <1>6, Zenon DEF OneOwner, LiveWorker
  <2>4. \A w \in WorkerIds : LiveWorker(w)' => Open(wk[w].sock)'
    BY <2>3, Zenon DEF Open, OpenThen
  <2>5. \A d \in Clients : LiveClient(d)' => OpenThen(cl'[d].sock)
    BY <2>2, <1>4, <1>6 DEF OneOwner, LiveClient
  <2>6. \A d \in Clients : LiveClient(d)' => Open(cl[d].sock)'
    BY <2>5, Zenon DEF Open, OpenThen
  <2> QED BY <2>4, <2>6, <1>2, <1>4, <1>6 DEF OneOwner, LiveWorker, LiveClient
<1>8. Registrations'
  BY <1>2, <1>3, EmptyQueue DEF Registrations, LiveWorker
<1>9. Identified'
  BY <1>2, <1>3, OwnHandles, ZenonT(60) DEF Identified, LiveWorker, WorkerConn
<1> QED BY <1>3, <1>5, <1>7, <1>8, <1>9, Zenon
-----------------------------------------------------------------------------
(***************************************************************************)
(* The theorems.                                                           *)
(***************************************************************************)
\* At first there is no connection and no process.
LEMMA ClusterStart == ClInit => ClInv
<1> SUFFICES ASSUME ClInit PROVE ClInv
  BY Zenon
<1> USE EmptyQueue DEF ClInit, CInit
<1>1. PeersShape
  BY Zenon DEF PeersShape, DownWorker, NewClient
<1>2. OneOwner /\ Identified
  BY Zenon DEF OneOwner, Identified, LiveWorker, LiveClient, DownWorker, NewClient
<1>3. Registrations /\ Instructions /\ Results
  BY Zenon DEF Registrations, Instructions, Results
<1>4. KnownWorkers /\ Authority /\ ConnectedWorkerReachable /\ Origins
  BY DEF KnownWorkers, Authority, ConnectedWorkerReachable, Origins
<1> QED BY <1>1, <1>2, <1>3, <1>4, Zenon DEF ClInv

\* Every step of the coordinator, of a worker and of a client keeps the invariant.
LEMMA ClusterStep == ClInv /\ [ClNext]_clvars => ClInv'
<1> SUFFICES ASSUME ClInv, [ClNext]_clvars PROVE ClInv'
  BY Zenon
<1>1. ASSUME NEW s \in Socks, Serve(s) PROVE ClInv'
  <2>1. CASE Head(toC[s]).type # "EOF"
    BY <1>1, <2>1, ServeFrameOwners, ServeFrameOrigins, Zenon DEF ClInv
  <2>2. CASE Head(toC[s]).type = "EOF"
    BY <1>1, <2>2, ServeEnd, Zenon
  <2> QED BY <2>1, <2>2, Zenon
<1>2. ASSUME NEW w \in WorkerIds, WorkerStart(w) \/ WorkerStep(w) \/ WorkerDies(w) PROVE ClInv'
  BY <1>2, WorkerConnects, AckStep, AnswerStep, WorkerDeath, Zenon DEF WorkerStep
<1>3. ASSUME NEW c \in Clients, ClientRequest(c) \/ ClientReceive(c) \/ ClientLeaves(c) PROVE ClInv'
  BY <1>3, ClientConnects, RequestStep, ReceiptStep, ClientGoes, Zenon DEF ClientRequest
<1>4. CASE UNCHANGED clvars
  <2>1. UNCHANGED <<conns, worker_boot, worker_connected, worker_sock, epoch, cache_gen,
                    capture_counter, pending, origin, toC, toP, wk, cl>>
    BY <1>4, StillCoordinator, Zenon DEF clvars, peers
  <2>2. Moves(NoSock, Blank) /\ Admissible(NoSock, Blank)
    BY <2>1, Zenon DEF Moves, Admissible, Blank, ClInv, PeersShape
  <2> QED BY <2>2, MovesKeep, Zenon
<1> QED BY <1>1, <1>2, <1>3, <1>4, Zenon DEF ClNext

\* A result that is published was asked of the boot registered now, under the present
\* epoch and cache generation.
LEMMA PublishStep ==
  ASSUME ClInv, NEW s \in Socks, Serve(s), NEW n \in DOMAIN graphs',
         n \notin DOMAIN graphs \/ graphs'[n] # graphs[n]
  PROVE  \E a \in DOMAIN pending \ DOMAIN pending' :
           /\ origin[a].epoch = epoch /\ origin[a].cache_gen = cache_gen
           /\ origin[a].worker_id = graphs'[n].worker_id
           /\ origin[a].worker_boot = worker_boot[graphs'[n].worker_id]
<1> USE DEF ClInv
<1> DEFINE m == Head(toC[s])
           a == m.capture_attempt
<1>1. Head(toC[s]).type # "EOF" /\ graphs' # graphs
  BY Zenon DEF Serve, Close, CloseWith, catalog
<1>2. Handle(s, m) /\ 1 \in DOMAIN toC[s] /\ m = toC[s][1]
  BY <1>1, ServedQueues, Zenon
<1>3. CapturePublish(s, m)
  BY <1>1, <1>2, CatalogueWrites, Zenon
<1>4. m.type = "CaptureResult" /\ ~StaleEpoch(m) /\ ~StaleCacheGen(m) /\ ~StaleBoot(m)
  BY <1>3, Zenon DEF CapturePublish, Authorized
<1>5. Echoes(m)
  BY <1>2, <1>4, Zenon DEF Results
<1> HIDE DEF m
<1>6. /\ a \in DOMAIN origin /\ m.epoch = origin[a].epoch /\ m.cache_gen = origin[a].cache_gen
      /\ m.worker_id = origin[a].worker_id /\ m.worker_boot = origin[a].worker_boot
  BY <1>5, Zenon DEF Echoes
<1>7. a \in DOMAIN pending \ DOMAIN pending'
  BY <1>3, Zenon DEF CapturePublish, Drop
<1>8. graphs'[n].worker_id = pending[a].worker_id
  BY <1>3, Zenon DEF CapturePublish
<1> HIDE DEF a
<1>9. /\ origin[a].epoch # 0 /\ origin[a].cache_gen # 0
      /\ origin[a].worker_id \in DOMAIN worker_boot /\ origin[a].worker_boot \in Boots
      /\ origin[a].worker_id = pending[a].worker_id
  BY <1>6, <1>7, Zenon DEF Origins
<1>10. origin[a].epoch = epoch /\ origin[a].cache_gen = cache_gen
  BY <1>4, <1>6, <1>9, Zenon DEF StaleEpoch, StaleCacheGen
<1>11. origin[a].worker_boot = worker_boot[origin[a].worker_id]
  <2>1. /\ 0 \notin WorkerIds /\ 0 \notin Boots
        /\ origin[a].worker_id \in WorkerIds /\ worker_boot[origin[a].worker_id] \in Boots
    BY <1>9, CoordinatorAssumption, Zenon DEF KnownWorkers
  <2> QED BY <1>4, <1>6, <1>9, <2>1, Zenon DEF StaleBoot, BootFor
<1> QED BY <1>7, <1>8, <1>9, <1>10, <1>11, Zenon

\* Whatever workers die and come back, clients leave and handles are used again, the
\* invariant holds of the coordinator and what is on its way to and from it.
THEOREM ClusterInvariant == ClSpec => []ClInv
  BY ClusterStart, ClusterStep, PTL DEF ClSpec

\* coordinator_main.cpp sends captures only over worker_sock[w] of a worker w in
\* worker_connected: that handle is open and is the connection w's present boot registered.
THEOREM DispatchReachesWorker == ClSpec => []ConnectedWorkerReachable
<1>1. ClInv => ConnectedWorkerReachable
  BY Zenon DEF ClInv
<1> QED BY <1>1, ClusterInvariant, PTL

\* The CaptureResult handler of coordinator_main.cpp publishes no result of an earlier epoch, cache generation or boot,
\* however late it arrives.
THEOREM PublishedIsCurrent == ClSpec => PublishIsCurrent
<1> DEFINE Publish ==
      \A n \in DOMAIN graphs' :
        (n \notin DOMAIN graphs \/ graphs'[n] # graphs[n]) =>
          \E a \in DOMAIN pending \ DOMAIN pending' :
            /\ origin[a].epoch = epoch /\ origin[a].cache_gen = cache_gen
            /\ origin[a].worker_id = graphs'[n].worker_id
            /\ origin[a].worker_boot = worker_boot[graphs'[n].worker_id]
<1>1. ClInv /\ [ClNext]_clvars => [Publish]_clvars
  <2> SUFFICES ASSUME ClInv, ClNext PROVE Publish
    BY Zenon
  <2>1. ASSUME NEW s \in Socks, Serve(s) PROVE Publish
    BY <2>1, PublishStep, Zenon
  <2>2. CASE graphs' = graphs
    BY <2>2, Zenon
  <2>3. ASSUME NEW w \in WorkerIds, WorkerStart(w) \/ WorkerStep(w) \/ WorkerDies(w)
        PROVE  graphs' = graphs
    BY <2>3, Zenon DEF WorkerStart, Connect, Accept, WorkerStep, WorkerAck, WorkerCapture, WorkerReplay,
                       WorkerIgnore, WorkerDies, cvars, catalog
  <2>4. ASSUME NEW c \in Clients, ClientRequest(c) \/ ClientReceive(c) \/ ClientLeaves(c)
        PROVE  graphs' = graphs
    BY <2>4, Zenon DEF ClientRequest, ClientConnect, Connect, Accept, ClientLookup, ClientReplay,
                       ClientInvalidate, Asks, ClientReceive, ClientLeaves, cvars, catalog
  <2> QED BY <2>1, <2>2, <2>3, <2>4, Zenon DEF ClNext
<1>2. ClSpec => [][Publish]_clvars
  BY <1>1, ClusterInvariant, PTL DEF ClSpec
<1> QED BY <1>2, Zenon DEF PublishIsCurrent
==============================================================================
