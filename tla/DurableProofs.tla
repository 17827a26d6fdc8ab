---------------------------- MODULE DurableProofs ----------------------------
(***************************************************************************)
(* The engine with its store, for any numbers of threads, requests, files, *)
(* restarts and damaged files.  Every step of the engine is one of         *)
(* GraphCache, so that its invariants carry over; what persist_entry,      *)
(* recover and a crash do to them is proved here, and what recover and the *)
(* saves make of the files.                                                *)
(***************************************************************************)
EXTENDS DurableCache, EntryProofs, FiniteSetTheorems

\* What a file decodes to, and the steps of the store's two operations.
Payload == [req : Requests, generation : Nat, cache_generation : Nat, invalidated : BOOLEAN,
            intact : BOOLEAN]
PutPCs == {"write", "rename"}
RecoverPCs == {"clean", "list", "load", "insert", "graph", "cache"}
Io == [pc : {"none", "encode"} \cup PutPCs \cup RecoverPCs, ent : EntryIds \cup {NoEntry},
       payload : Payload \cup {NoPayload}, todo : SUBSET (EntryIds \cup Artifacts),
       graph : Nat, cache : Nat]

\* The payload that a save writes is a copy of its entry.
Copied(t) ==
  /\ io[t].ent \in DOMAIN entry /\ io[t].payload \in Payload /\ io[t].payload.intact
  /\ io[t].payload.req = entry[io[t].ent].req
  /\ io[t].payload.generation = entry[io[t].ent].generation
  /\ io[t].payload.cache_generation = entry[io[t].ent].cache_generation

\* How a store operation goes with the call that runs it.
IoOK(t) ==
  /\ io[t].pc # "none" => th[t].pc \in {"persist", "store"}
  /\ th[t].pc = "store" => io[t].pc # "none"
  /\ th[t].pc = "persist" /\ io[t].pc # "none" => io[t].pc \in PutPCs /\ io[t].ent = th[t].ent
  /\ io[t].pc \in PutPCs => Copied(t)
  /\ io[t].pc = "encode" \/ (th[t].pc = "store" /\ io[t].pc \in PutPCs) => io[t].todo \subseteq DOMAIN entry
  /\ io[t].pc \in {"load", "insert"} => io[t].todo \subseteq DOMAIN disk
  /\ io[t].pc = "insert" => io[t].payload \in Payload /\ io[t].payload.intact

FilesOK == disk \in [DOMAIN disk -> Payload] /\ \A a \in DOMAIN disk : ArtifactOf[disk[a].req] = a

\* The inductive invariant of the store: every file is that of its artifact, and the
\* locals of a store operation fit the entries and files there are.
StoreInv ==
  /\ FilesOK /\ saved \subseteq DOMAIN entry
  /\ io \in [Threads -> Io] /\ \A t \in Threads : IoOK(t)

\* What holds of the engine whether it has a store or not.
EngineInv == TypeOK /\ FlightInv /\ RegistryInv /\ ExecInv /\ LifeInv
-----------------------------------------------------------------------------
\* The engine's invariant holds initially ...
LEMMA InitEngine == Init => EngineInv
<1>1. Init => FlightInv
  BY DEF Init, FlightInv, Idle, OwnerPCs, OwnersRegistered, AttemptsOwned, ResultsSet, WaitersServed
<1>2. Init => RegistryInv
  BY DEF Init, RegistryInv, Idle
<1>3. Init => ExecInv /\ LifeInv
  BY DEF Init, ExecInv, LifeInv, Idle, UsePCs
<1> QED BY <1>1, <1>2, <1>3, InitType, Zenon DEF EngineInv

\* ... and after a restart, which constructs the engine anew ...
LEMMA CrashEngine == Crash => EngineInv'
<1>1. Init' => EngineInv'
  BY InitEngine, PTL
<1>2. Crash => Init'
  BY Zenon DEF Crash, Init
<1> QED BY <1>1, <1>2, Zenon

\* ... and its steps keep it.
LEMMA EngineStepInv == EngineInv /\ [Next]_vars => EngineInv'
  BY StepType, FlightStepInv, RegistryStepInv, ExecStepInv, LifeStepInv, Zenon DEF EngineInv

\* How a store operation moves the thread that runs it.
StoreMoves(t) ==
  \/ UNCHANGED th
  \/ At(t, "store") /\ Return(t)
  \/ At(t, "persist") /\ Goto(t, "complete")
  \/ Call(t, [Idle EXCEPT !.pc = "store"])

\* A step of a save or of recover that enters nothing in the registry.
StoreQuiet(t) ==
  /\ UNCHANGED <<entry, lease, registry, inflight, active_leases, active_replays, captures>>
  /\ cache_generation' \in Nat /\ graph_generation_counter' \in Nat
  /\ StoreMoves(t)

\* All steps of the store but one leave entries and registry alone.
LEMMA StoreQuietStep ==
  ASSUME TypeOK, StoreInv, NEW t \in Threads, StoreStep(t) \/ Recover(t) \/ PersistAll(t), ~RecoverInsert(t)
  PROVE  StoreQuiet(t)
<1>0. cache_generation \in Nat /\ graph_generation_counter \in Nat
  BY Zenon DEF TypeOK
<1> USE DEF StoreQuiet, StoreMoves, engineFrame, generations
<1>1. CASE Recover(t) \/ PersistAll(t)
  BY <1>0, <1>1, Zenon DEF Recover, PersistAll
<1>2. UNCHANGED vars => StoreQuiet(t)
  BY <1>0, Zenon DEF vars, registry
<1>3. CASE PersistCaptured(t) \/ PutWrite(t) \/ RecoverClean(t) \/ RecoverList(t) \/ RecoverLoad(t)
           \/ RecoverMax(t)
  BY <1>2, <1>3, Zenon DEF PersistCaptured, PutWrite, RecoverClean, RecoverList, RecoverLoad, RecoverMax
<1>4. CASE PersistNext(t)
  <2>1. At(t, "store")
    BY <1>4, Zenon DEF PersistNext, IoAt, StoreInv, IoOK, At, PutPCs
  <2> QED BY <1>0, <1>4, <2>1, Zenon DEF PersistNext
<1>5. CASE PutFails(t) \/ PutRename(t)
  BY <1>0, <1>5, Zenon DEF PutFails, PutRename, PutReturns
<1>6. io[t].graph \in Nat /\ io[t].cache \in Nat
  BY Zenon DEF StoreInv, Io
<1>7. CASE RecoverGraphCounter(t)
  BY <1>0, <1>6, <1>7, Zenon DEF RecoverGraphCounter
<1>8. CASE RecoverReturn(t)
  <2>1. At(t, "store")
    BY <1>8, Zenon DEF RecoverReturn, IoAt, StoreInv, IoOK, At, PutPCs
  <2> QED BY <1>0, <1>6, <1>8, <2>1, Zenon DEF RecoverReturn
<1> QED BY <1>1, <1>3, <1>4, <1>5, <1>7, <1>8, Zenon DEF StoreStep

\* The steps of DNext: of the engine; of the store, those that leave entries and registry
\* alone and the one that recovers an entry; a restart.
LEMMA DurableCases ==
  ASSUME TypeOK, StoreInv, [DNext]_dvars
  PROVE  \/ [Next]_vars /\ UNCHANGED durable
         \/ \E t \in Threads : (StoreStep(t) \/ Recover(t) \/ PersistAll(t)) /\ StoreQuiet(t)
         \/ \E t \in Threads : RecoverInsert(t)
         \/ Crash
<1>1. CASE UNCHANGED dvars
  BY <1>1, Zenon DEF dvars
<1>2. CASE EngineStep
  BY <1>2, Zenon DEF EngineStep, Next
<1> QED BY <1>1, <1>2, StoreQuietStep, Zenon DEF DNext

\* A step that only moves a thread through the store keeps the engine's invariant.
LEMMA StoreQuietEngine ==
  ASSUME EngineInv, NEW t \in Threads, StoreQuiet(t) PROVE EngineInv'
<1>0. /\ UNCHANGED <<entry, lease, inflight, registry>>
      /\ UNCHANGED <<by_artifact, by_workload, key_current_gen>>
      /\ th \in [Threads -> Thread] /\ \A u \in Threads \ {t} : th'[u] = th[u]
  BY DEF StoreQuiet, StoreMoves, registry, EngineInv, TypeOK, Return, Goto, Call
<1>1. TypeOK'
  <2>0. Parts
    BY TypeParts, Zenon DEF EngineInv
  <2>1. ThreadType'
    <3>1. CASE UNCHANGED th
      BY <1>0, <2>0, <3>1, FrameType, Zenon
    <3>2. CASE Return(t)
      BY <1>0, <2>0, <3>2, ReturnType, Zenon DEF Parts
    <3>3. CASE At(t, "persist") /\ Goto(t, "complete")
      <4>1. th[t].req \in Requests
        BY <3>3, Zenon DEF EngineInv, TypeOK, At, LookupPCs
      <4> QED BY <1>0, <2>0, <3>3, <4>1, GotoType, Zenon DEF Parts, PCs, EntryPCs
    <3>4. CASE Call(t, [Idle EXCEPT !.pc = "store"])
      <4>1. ThreadOK([Idle EXCEPT !.pc = "store"], DOMAIN entry')
        BY Zenon DEF Idle, Thread, ThreadOK, PCs, LookupPCs, EntryPCs
      <4> QED BY <1>0, <2>0, <3>4, <4>1, ThreadStep, Zenon DEF Parts, Call
    <3> QED BY <3>1, <3>2, <3>3, <3>4, Zenon DEF StoreQuiet, StoreMoves
  <2>2. Parts'
    BY <1>0, <2>0, <2>1, FrameType, Zenon DEF StoreQuiet, Parts, EntryType, CounterType
  <2> QED BY <2>2, TypeParts, Zenon
<1>2. \/ UNCHANGED th
      \/ /\ th[t].pc = "persist" /\ th'[t].pc = "complete"
         /\ th'[t].req = th[t].req /\ th'[t].res = th[t].res /\ th'[t].targets = th[t].targets
      \/ /\ th[t].pc \in {"idle", "store"} /\ th'[t].pc \in {"idle", "store"}
         /\ th'[t].targets = {}
  BY <1>0 DEF StoreQuiet, StoreMoves, Return, Goto, Call, Idle, At, Thread
<1>3. FlightInv'
  <2>1. CASE UNCHANGED th
    BY <1>0, <1>1, <2>1, FlightQuietInv, Zenon DEF FlightQuiet, EngineInv
  <2>2. CASE th[t].pc = "persist" /\ th'[t].pc = "complete" /\ th'[t].req = th[t].req /\ th'[t].res = th[t].res
    <3>1. OwnerMoves(t)
      BY <1>0, <2>2, Zenon DEF OwnerMoves, OwnerPCs, EngineInv, FlightInv, ResultsSet
    <3> QED BY <1>1, <3>1, FlightOwnerInv, Zenon DEF EngineInv
  <2>3. CASE th[t].pc \in {"idle", "store"} /\ th'[t].pc \in {"idle", "store"}
    <3>1. Outside(t)
      BY <1>0, <2>3, Zenon DEF Outside, OwnerPCs
    <3> QED BY <1>0, <1>1, <3>1, FlightQuietInv, Zenon DEF FlightQuiet, EngineInv
  <2> QED BY <1>2, <2>1, <2>2, <2>3, Zenon
<1>4. RegistryInv'
  <2>1. Registered' = Registered
    BY <1>0 DEF Registered
  <2>2. \A u \in Threads : th'[u].pc = "publish" => th'[u] = th[u]
    BY <1>0, <1>2, Zenon
  <2>3. \A u \in Threads : th'[u].targets \subseteq th[u].targets
    BY <1>0, <1>2, Zenon
  <2> QED BY <1>0, <2>1, <2>2, <2>3 DEF EngineInv, RegistryInv
<1>5. ExecInv' /\ LifeInv'
  <2>1. \A u \in Threads : th'[u].pc \in UsePCs => th'[u] = th[u]
    BY <1>0, <1>2, Zenon DEF UsePCs
  <2> QED BY <1>0, <2>1, Zenon DEF EngineInv, ExecInv, LifeInv, Loaded
<1> QED BY <1>1, <1>3, <1>4, <1>5, Zenon DEF EngineInv

\* What the step of recover that enters a file in the registry does: it builds an entry
\* without an executable from the payload it read.
Recovered(t, e) ==
  LET p == io[t].payload
      r == RecoveredAs[p.req] IN
  /\ p \in Payload /\ p.intact /\ r \in Requests /\ e \in EntryIds \ DOMAIN entry
  /\ DOMAIN entry' = DOMAIN entry \cup {e} /\ \A f \in DOMAIN entry : entry'[f] = entry[f]
  /\ entry' = [f \in DOMAIN entry' |-> entry'[f]] /\ entry'[e] \in Entry /\ entry'[e].req = r
  /\ entry'[e].generation = p.generation /\ entry'[e].cache_generation = p.cache_generation
  /\ entry'[e].invalidated = p.invalidated
  /\ entry'[e].lifecycle = (IF p.invalidated THEN "Invalidated" ELSE "Valid")
  /\ entry'[e].residency = "MetadataOnly"
  /\ by_artifact' = Put(by_artifact, ArtifactOf[p.req], e)
  /\ by_workload' = Put(by_workload, WorkloadOf[r], Append(Bucket(r), e))
  /\ key_current_gen' = IF p.invalidated THEN key_current_gen
                        ELSE Put(key_current_gen, KeyOf[r], p.generation)
  /\ Registered' = Registered \cup {e} /\ saved' = saved \cup {e}
\* The insertion of recover does this for some entry.
LEMMA RecoverInserts ==
  ASSUME TypeOK, StoreInv, NEW t \in Threads, RecoverInsert(t)
  PROVE  \E e : Recovered(t, e)
<1> DEFINE p == io[t].payload
           r == RecoveredAs[p.req]
           new == [req |-> r, generation |-> p.generation, cache_generation |-> p.cache_generation,
                   invalidated |-> p.invalidated,
                   lifecycle |-> IF p.invalidated THEN "Invalidated" ELSE "Valid",
                   residency |-> "MetadataOnly", exec |-> FALSE,
                   pin_count |-> 0, lease_count |-> 0, active_replays |-> 0]
<1>1. p \in Payload /\ p.intact
  BY Zenon DEF RecoverInsert, IoAt, StoreInv, IoOK
<1>2. /\ p.req \in Requests /\ r \in Requests /\ p.generation \in Nat /\ p.cache_generation \in Nat
      /\ p.invalidated \in BOOLEAN
  BY <1>1, DurableAssumption, Zenon DEF Payload
<1>3. PICK e \in EntryIds \ DOMAIN entry :
        /\ entry' = Put(entry, e, new)
        /\ by_artifact' = Put(by_artifact, ArtifactOf[p.req], e)
        /\ by_workload' = Put(by_workload, WorkloadOf[r], Append(Bucket(r), e))
        /\ key_current_gen' = IF p.invalidated THEN key_current_gen
                              ELSE Put(key_current_gen, KeyOf[r], p.generation)
        /\ saved' = saved \cup {e}
  BY Zenon DEF RecoverInsert, Index
<1>4. new \in Entry
  <2> HIDE DEF p, r
  <2> QED BY <1>2, Zenon DEF Entry, GraphLifecycle, Allowed, ResidencyTier
<1>5. /\ new.req = r /\ new.generation = p.generation /\ new.cache_generation = p.cache_generation
      /\ new.invalidated = p.invalidated /\ new.residency = "MetadataOnly"
      /\ new.lifecycle = (IF p.invalidated THEN "Invalidated" ELSE "Valid")
  BY Zenon
<1>6. Registered' = Registered \cup {e}
  BY <1>2, <1>3, AppendRegisters, Zenon
<1>7. /\ DOMAIN entry' = DOMAIN entry \cup {e} /\ entry'[e] = new
      /\ entry' = [f \in DOMAIN entry' |-> entry'[f]]
      /\ \A f \in DOMAIN entry : entry'[f] = entry[f]
  <2> HIDE DEF new
  <2> QED BY <1>3, Zenon DEF Put
<1>8. Recovered(t, e)
  <2> HIDE DEF new
  <2> QED BY <1>1, <1>2, <1>3, <1>4, <1>5, <1>6, <1>7, Zenon DEF Recovered
<1> QED BY <1>8, Zenon

\* It keeps the engine's invariant: the entry is new and nobody uses it yet.
LEMMA RecoverInsertEngine ==
  ASSUME EngineInv, StoreInv, NEW t \in Threads, RecoverInsert(t) PROVE EngineInv'
<1> DEFINE p == io[t].payload
           r == RecoveredAs[p.req]
<1>0. /\ UNCHANGED <<lease, generations, inflight, active_leases, active_replays, captures, th>>
      /\ Registered \subseteq DOMAIN entry
  BY RegisteredExist, Zenon DEF RecoverInsert, EngineInv
<1>1. PICK e : Recovered(t, e)
  BY RecoverInserts, Zenon DEF EngineInv
<1>2. /\ p.req \in Requests /\ r \in Requests /\ p.generation \in Nat /\ p.invalidated \in BOOLEAN
      /\ e \in EntryIds \ DOMAIN entry
      /\ DOMAIN entry' = DOMAIN entry \cup {e} /\ \A f \in DOMAIN entry : entry'[f] = entry[f]
      /\ Registered' = Registered \cup {e}
  BY <1>1, Zenon DEF Recovered, Payload
<1>3. TypeOK'
  <2>0. Parts
    BY TypeParts, Zenon DEF EngineInv
  <2>1. EntryType'
    BY <1>1, <1>2, <2>0 DEF Recovered, Parts, EntryType
  <2>2. DOMAIN by_artifact' \subseteq Artifacts /\ by_artifact' \in [DOMAIN by_artifact' -> DOMAIN entry']
    <3>1. by_artifact' = Put(by_artifact, ArtifactOf[p.req], e)
      BY <1>1, Zenon DEF Recovered
    <3> QED BY <1>2, <2>0, <3>1, Zenon DEF Put, Parts, RegistryType, Artifacts
  <2>3. DOMAIN by_workload' \subseteq Workloads /\ by_workload' \in [DOMAIN by_workload' -> Seq(DOMAIN entry')]
    <3>1. by_workload' = Put(by_workload, WorkloadOf[r], Append(Bucket(r), e))
      BY <1>1, Zenon DEF Recovered
    <3>2. Bucket(r) \in Seq(DOMAIN entry) /\ Seq(DOMAIN entry) \subseteq Seq(DOMAIN entry')
      BY <1>2, <2>0, BucketType
    <3>3. Append(Bucket(r), e) \in Seq(DOMAIN entry')
      BY <1>2, <3>2
    <3> QED BY <1>2, <2>0, <3>1, <3>2, <3>3, Zenon DEF Put, Parts, RegistryType, Workloads
  <2>4. DOMAIN key_current_gen' \subseteq Keys /\ key_current_gen' \in [DOMAIN key_current_gen' -> Nat]
    <3>1. key_current_gen' = IF p.invalidated THEN key_current_gen
                             ELSE Put(key_current_gen, KeyOf[r], p.generation)
      BY <1>1, Zenon DEF Recovered
    <3> QED BY <1>2, <2>0, <3>1, Zenon DEF Put, Parts, RegistryType, Keys
  <2>5. RegistryType'
    BY <2>2, <2>3, <2>4, Zenon DEF RegistryType
  <2>6. Parts'
    BY <1>0, <1>2, <2>0, <2>1, <2>5, FrameType, Zenon DEF Parts
  <2> QED BY <2>6, TypeParts, Zenon
<1>4. FlightInv'
  BY <1>0, <1>3, FlightQuietInv, Zenon DEF FlightQuiet, EngineInv
<1>5. RegistryInv'
  <2>1. \A a \in DOMAIN by_artifact' : by_artifact'[a] \in Registered'
    <3>1. by_artifact' = Put(by_artifact, ArtifactOf[p.req], e)
      BY <1>1, Zenon DEF Recovered
    <3> QED BY <1>2, <3>1, Zenon DEF Put, EngineInv, RegistryInv
  <2>2. \A k \in DOMAIN key_current_gen' :
          \E f \in Registered' : entry'[f].generation = key_current_gen'[k] /\ KeyOf[entry'[f].req] = k
    <3>1. \A k \in DOMAIN key_current_gen :
            \E f \in Registered' : entry'[f].generation = key_current_gen[k] /\ KeyOf[entry'[f].req] = k
      BY <1>0, <1>2 DEF EngineInv, RegistryInv
    <3>2. e \in Registered' /\ entry'[e].generation = p.generation /\ KeyOf[entry'[e].req] = KeyOf[r]
      BY <1>1, <1>2, Zenon DEF Recovered
    <3>3. key_current_gen' = IF p.invalidated THEN key_current_gen
                             ELSE Put(key_current_gen, KeyOf[r], p.generation)
      BY <1>1, Zenon DEF Recovered
    <3> HIDE DEF p, r
    <3> QED BY <3>1, <3>2, <3>3, Zenon DEF Put
  <2>3. \A u \in Threads : th[u].pc = "publish" => th[u].ent \in DOMAIN entry
    BY Zenon DEF EngineInv, TypeOK, EntryPCs
  <2>4. \A u \in Threads : th'[u].pc = "publish" =>
          th'[u].ent \notin Registered' /\ entry'[th'[u].ent].req = th'[u].req
    BY <1>0, <1>2, <2>3 DEF EngineInv, RegistryInv
  <2>5. \A u \in Threads : th'[u].targets \subseteq Registered'
    BY <1>0, <1>2, Zenon DEF EngineInv, RegistryInv
  <2> QED BY <2>1, <2>2, <2>4, <2>5, Zenon DEF RegistryInv
<1>6. ExecInv' /\ LifeInv'
  <2>1. /\ \A u \in Threads : th[u].pc \in UsePCs => th[u].ent \in DOMAIN entry
        /\ \A l \in DOMAIN lease : lease[l].entry \in DOMAIN entry
    BY Zenon DEF EngineInv, TypeOK, EntryPCs, UsePCs
  <2>2. Loaded(e)' /\ entry'[e].lifecycle = (IF entry'[e].invalidated THEN "Invalidated" ELSE "Valid")
    BY <1>1, Zenon DEF Recovered, Loaded
  <2>3. ExecInv'
    BY <1>0, <1>2, <2>1, <2>2, Zenon DEF EngineInv, ExecInv, Loaded
  <2>4. LifeInv'
    BY <1>2, <2>2, Zenon DEF EngineInv, LifeInv
  <2> QED BY <2>3, <2>4, Zenon
<1> QED BY <1>3, <1>4, <1>5, <1>6, Zenon DEF EngineInv
-----------------------------------------------------------------------------
\* A finite set of numbers that is not empty has a greatest one.
LEMMA FiniteMax ==
  ASSUME NEW S, S \subseteq Nat, IsFiniteSet(S), S # {} PROVE \E m \in S : \A n \in S : m >= n
<1> DEFINE Bad == {T \in FiniteSubsetsOf(Nat) : T # {} /\ ~ \E m \in T : \A n \in T : m >= n}
<1>1. SUFFICES ASSUME Bad # {} PROVE FALSE
  <2>1. S \in FiniteSubsetsOf(Nat)
    BY Zenon DEF FiniteSubsetsOf
  <2> QED BY <1>1, <2>1, Zenon
<1>2. Bad \subseteq FiniteSubsetsOf(Nat) /\ Bad # {} 
  BY <1>1, Zenon
<1>3. PICK T \in Bad : \A U \in Bad : <<U, T>> \notin StrictSubsetOrdering(Nat)
  <2> HIDE DEF Bad
  <2> QED BY <1>2, WFMin, FS_StrictSubsetOrderingWellFounded, Zenon
<1>4. T \subseteq Nat /\ IsFiniteSet(T) /\ T # {} /\ ~ \E m \in T : \A n \in T : m >= n
  BY Zenon DEF FiniteSubsetsOf
<1>5. PICK x \in T : TRUE
  BY <1>4, Zenon
<1> DEFINE U == T \ {x}
<1>6. U \subseteq Nat /\ IsFiniteSet(U) /\ <<U, T>> \in StrictSubsetOrdering(Nat)
  BY <1>4, FS_RemoveElement, Zenon DEF StrictSubsetOrdering
<1>7. U \notin Bad /\ U \in FiniteSubsetsOf(Nat)
  BY <1>3, <1>6, Zenon DEF FiniteSubsetsOf
<1>8. U = {} \/ \E m \in U : \A n \in U : m >= n
  BY <1>7, Zenon
<1> HIDE DEF Bad
<1> QED BY <1>4, <1>8

\* What recover computes from the generations it finds lies past all of them.
LEMMA PastMaxBeyond ==
  ASSUME NEW S, S \subseteq Nat, IsFiniteSet(S) PROVE PastMax(S) \in Nat /\ \A n \in S : n < PastMax(S)
<1>1. S \cup {0} \subseteq Nat /\ IsFiniteSet(S \cup {0}) /\ S \cup {0} # {}
  BY FS_AddElement
<1>2. \E m \in S \cup {0} : \A n \in S \cup {0} : m >= n
  BY <1>1, FiniteMax, Zenon
<1>3. PICK m : m = Max(S \cup {0})
  BY Zenon
<1>4. m \in S \cup {0} /\ \A n \in S \cup {0} : m >= n
  BY <1>2, <1>3, Zenon DEF Max
<1>5. PastMax(S) = m + 1
  BY <1>3, Zenon DEF PastMax
<1> QED BY <1>1, <1>4, <1>5

\* The entries that by_artifact holds.
Indexed == {by_artifact[a] : a \in DOMAIN by_artifact}
\* The numbers that recover computes from them lie past all their generations.
LEMMA RecoverMaximum ==
  ASSUME TypeOK
  PROVE  LET graph == PastMax({entry[e].generation : e \in Indexed})
             cache == PastMax({entry[e].cache_generation : e \in Indexed}) IN
         /\ graph \in Nat /\ cache \in Nat
         /\ \A e \in Indexed : entry[e].generation < graph /\ entry[e].cache_generation < cache
<1>1. Indexed \subseteq DOMAIN entry /\ Indexed \in SUBSET EntryIds
  BY Zenon DEF TypeOK, Indexed
<1>2. IsFiniteSet(Indexed)
  BY <1>1, PoolAssumption, FS_Subset, Zenon
<1> DEFINE G == {entry[e].generation : e \in Indexed}
           C == {entry[e].cache_generation : e \in Indexed}
<1>3. G \subseteq Nat /\ C \subseteq Nat
  BY <1>1, Zenon DEF TypeOK, Entry
<1>4. IsFiniteSet(G)
  <2>1. [e \in Indexed |-> entry[e].generation] \in Surjection(Indexed, G)
    BY Zenon DEF Surjection
  <2> HIDE DEF G
  <2> QED BY <1>2, <2>1, FS_Surjection, Zenon
<1>5. IsFiniteSet(C)
  <2>1. [e \in Indexed |-> entry[e].cache_generation] \in Surjection(Indexed, C)
    BY Zenon DEF Surjection
  <2> HIDE DEF C
  <2> QED BY <1>2, <2>1, FS_Surjection, Zenon
<1>6. PastMax(G) \in Nat /\ \A n \in G : n < PastMax(G)
  <2> HIDE DEF G
  <2> QED BY <1>3, <1>4, PastMaxBeyond, Zenon
<1>7. PastMax(C) \in Nat /\ \A n \in C : n < PastMax(C)
  <2> HIDE DEF C
  <2> QED BY <1>3, <1>5, PastMaxBeyond, Zenon
<1> QED BY <1>6, <1>7, Zenon

\* No step of the engine moves a thread that saves or recovers, and none sends one to
\* persist_all or recover.
LEMMA StoreParked ==
  ASSUME TypeOK, [Next]_vars, NEW u \in Threads
  PROVE  /\ th[u].pc \in {"persist", "store"} => th'[u] = th[u]
         /\ th'[u].pc = "store" => th[u].pc = "store"
<1>0. th \in [Threads -> Thread]
  BY Zenon DEF TypeOK
<1> DEFINE Goal == /\ th[u].pc \in {"persist", "store"} => th'[u] = th[u]
                   /\ th'[u].pc = "store" => th[u].pc = "store"
<1>1. CASE th'[u] = th[u]
  BY <1>1, Zenon
<1>2. ASSUME NEW t \in Threads, Start(t), th'[u] # th[u] PROVE Goal
  <2> USE DEF Call, Idle, At
  <2>1. ASSUME NEW r \in Requests, Lookup(t, r) PROVE Goal
    <3>1. /\ th[t].pc = "idle" /\ th'[t].pc \in {"materialize", "join"}
          /\ \A v \in Threads \ {t} : th'[v] = th[v]
      BY <1>0, <2>1, Zenon DEF Lookup
    <3> QED BY <1>2, <3>1, Zenon
  <2>2. ASSUME NEW l \in DOMAIN lease, Replay(t, l) PROVE Goal
    BY <1>0, <1>2, <2>2, Zenon DEF Replay
  <2>3. ASSUME NEW scope \in Scopes, NEW strong \in BOOLEAN, Invalidate(t, scope, strong) PROVE Goal
    BY <1>0, <1>2, <2>3, Zenon DEF Invalidate
  <2>4. ASSUME NEW a \in DOMAIN by_artifact, Pin(t, a) \/ Unpin(t, a) \/ Evict(t, a) \/ Unload(t, a)
        PROVE  Goal
    <3>1. \/ UNCHANGED th
          \/ /\ th[t].pc = "idle"
             /\ \E label \in {"unpin", "evict"} : \E e :
                  th' = [th EXCEPT ![t] = [Idle EXCEPT !.pc = label, !.ent = e]]
      BY <2>4, Zenon DEF Pin, Unpin, Evict, Unload
    <3> QED BY <1>0, <1>2, <3>1, Zenon
  <2> QED BY <1>2, <2>1, <2>2, <2>3, <2>4, Zenon DEF Start
<1>3. ASSUME NEW t \in Threads, Continue(t), th'[u] # th[u] PROVE Goal
  <2> USE DEF At, Goto, Return, Idle
  <2>1. CASE Materialize(t) \/ Recheck(t)
    BY <1>0, <1>3, <2>1 DEF Materialize, Recheck, Thread
  <2>3. CASE Complete(t)
    BY <1>0, <1>3, <2>3 DEF Complete, WaitsOn, Thread
  <2>4. CASE SearchAgain(t) \/ Join(t) \/ CaptureFail(t) \/ CaptureBuild(t)
    BY <1>0, <1>3, <2>4 DEF SearchAgain, Join, CaptureFail, CaptureBuild, Thread
  <2>5. CASE Publish(t) \/ Erase(t) \/ Wake(t)
    BY <1>0, <1>3, <2>5 DEF Publish, Erase, Wake, AfterFlight, Thread
  <2>6. CASE MakeLease(t) \/ InvalidateReturn(t) \/ UnpinSub(t) \/ EvictApply(t) \/ ReplayEnd(t)
    BY <1>0, <1>3, <2>6 DEF MakeLease, InvalidateReturn, UnpinSub, EvictApply, ReplayEnd
  <2>7. CASE InvalidateCollect(t)
    BY <1>0, <1>3, <2>7 DEF InvalidateCollect, Thread
  <2>8. CASE InvalidateMark(t)
    <3>1. PICK S : th' = [th EXCEPT ![t].targets = S]
      BY <2>8, Zenon DEF InvalidateMark
    <3> QED BY <1>0, <1>3, <2>8, <3>1 DEF InvalidateMark, Thread
  <2> QED BY <1>3, <2>1, <2>3, <2>4, <2>5, <2>6, <2>7, <2>8 DEF Continue
<1>4. ASSUME NEW l \in DOMAIN lease, Release(l) \/ ReleaseStep(l) PROVE UNCHANGED th
  BY <1>4, Zenon DEF Release, ReleaseStep, ReleaseEntryLoad, ReleaseEntrySub, ReleaseGlobalLoad,
              ReleaseGlobalSub, leaseFrame
<1> QED BY <1>1, <1>2, <1>3, <1>4 DEF Next, vars

\* A store operation keeps fitting while entries and files are only added.
LEMMA IoFrame ==
  ASSUME NEW u \in Threads, IoOK(u), io'[u] = io[u], th'[u].pc = th[u].pc, th'[u].ent = th[u].ent,
         EntriesKept, DOMAIN disk \subseteq DOMAIN disk'
  PROVE  IoOK(u)'
<1>1. Copied(u) => Copied(u)'
  BY Zenon DEF Copied, EntriesKept
<1> QED BY <1>1, Zenon DEF IoOK, EntriesKept

\* The engine's steps keep the store's invariant.
LEMMA StoreEngineInv ==
  ASSUME TypeOK, StoreInv, [Next]_vars, UNCHANGED durable PROVE StoreInv'
<1>0. UNCHANGED <<disk, io, saved>> /\ EntriesKept
  BY IdentityCases, Zenon DEF durable
<1>1. ASSUME NEW u \in Threads PROVE IoOK(u)'
  <2>0. IoOK(u)
    BY Zenon DEF StoreInv
  <2>1. CASE th[u].pc \in {"persist", "store"}
    BY <1>0, <2>0, <2>1, StoreParked, IoFrame, Zenon
  <2>2. CASE th[u].pc \notin {"persist", "store"}
    <3>1. io[u].pc = "none" /\ th'[u].pc # "store"
      BY <2>0, <2>2, StoreParked, Zenon DEF IoOK
    <3> QED BY <1>0, <3>1, Zenon DEF IoOK, PutPCs
  <2> QED BY <2>1, <2>2, Zenon
<1> QED BY <1>0, <1>1, Zenon DEF StoreInv, FilesOK, EntriesKept

\* A step of one thread in the store: only what that thread is about has to be shown.
LEMMA StoreOneThread ==
  ASSUME StoreInv, NEW t \in Threads, EntriesKept, DOMAIN disk \subseteq DOMAIN disk', FilesOK',
         saved' \subseteq DOMAIN entry', io' \in [Threads -> Io], IoOK(t)',
         \A u \in Threads \ {t} : io'[u] = io[u] /\ th'[u] = th[u]
  PROVE  StoreInv'
<1>1. ASSUME NEW u \in Threads PROVE IoOK(u)'
  BY IoFrame, Zenon DEF StoreInv
<1> QED BY <1>1, Zenon DEF StoreInv

\* What the steps of the store leave alone, except for recover's insertion.
LEMMA StoreQuietFrame ==
  ASSUME TypeOK, StoreInv, NEW t \in Threads, StoreQuiet(t)
  PROVE  /\ UNCHANGED <<entry, by_artifact, by_workload, key_current_gen>> /\ EntriesKept
         /\ \A u \in Threads \ {t} : th'[u] = th[u]
         /\ th \in [Threads -> Thread] /\ io \in [Threads -> Io] /\ io[t] \in Io /\ th[t] \in Thread
         /\ IoOK(t) /\ saved \subseteq DOMAIN entry
<1>1. UNCHANGED <<entry, by_artifact, by_workload, key_current_gen>>
  BY Zenon DEF StoreQuiet, registry
<1>2. th \in [Threads -> Thread] /\ io \in [Threads -> Io] /\ IoOK(t) /\ saved \subseteq DOMAIN entry
  BY Zenon DEF TypeOK, StoreInv
<1>3. \A u \in Threads \ {t} : th'[u] = th[u]
  BY <1>2, Zenon DEF StoreQuiet, StoreMoves, Return, Goto, Call
<1> QED BY <1>1, <1>2, <1>3, Zenon DEF EntriesKept

\* An entry is saved as a payload.
LEMMA EncodeType ==
  ASSUME TypeOK, NEW e \in DOMAIN entry
  PROVE  /\ Encode(e) \in Payload /\ Encode(e).intact /\ Encode(e).req = entry[e].req
         /\ Encode(e).generation = entry[e].generation
         /\ Encode(e).cache_generation = entry[e].cache_generation
<1>1. entry[e] \in Entry
  BY Zenon DEF TypeOK
<1> QED BY <1>1, Zenon DEF Encode, Payload, Entry

\* A save is prepared.
LEMMA EncodeStepInv ==
  ASSUME TypeOK, StoreInv, NEW t \in Threads, StoreQuiet(t),
         PersistCaptured(t) \/ PersistNext(t) \/ PersistAll(t)
  PROVE  StoreInv'
<1>0. /\ UNCHANGED <<entry, by_artifact>> /\ EntriesKept /\ \A u \in Threads \ {t} : th'[u] = th[u]
      /\ th \in [Threads -> Thread] /\ io \in [Threads -> Io] /\ io[t] \in Io /\ th[t] \in Thread
      /\ IoOK(t) /\ saved \subseteq DOMAIN entry
  BY StoreQuietFrame, Zenon
<1>1. UNCHANGED <<disk, saved>>
  BY Zenon DEF PersistCaptured, PersistNext, PersistAll
<1>2. ASSUME NEW e \in DOMAIN entry, NEW S \in SUBSET DOMAIN entry, UNCHANGED th,
             th[t].pc = "persist" => th[t].ent = e, th[t].pc \in {"persist", "store"},
             \/ io' = [io EXCEPT ![t].pc = "write", ![t].ent = e, ![t].payload = Encode(e)]
                /\ th[t].pc = "persist"
             \/ io' = [io EXCEPT ![t].pc = "write", ![t].ent = e, ![t].payload = Encode(e), ![t].todo = S]
      PROVE  StoreInv'
  <2>1. /\ Encode(e) \in Payload /\ Encode(e).intact /\ Encode(e).req = entry[e].req
        /\ Encode(e).generation = entry[e].generation
        /\ Encode(e).cache_generation = entry[e].cache_generation
    BY EncodeType, Zenon
  <2>2. e \in EntryIds /\ S \subseteq EntryIds
    BY Zenon DEF TypeOK
  <2>3. /\ io' \in [Threads -> Io] /\ io'[t].pc = "write" /\ io'[t].ent = e /\ io'[t].payload = Encode(e)
        /\ th[t].pc = "store" => io'[t].todo = S
        /\ \A u \in Threads \ {t} : io'[u] = io[u]
    BY <1>0, <1>2, <2>1, <2>2 DEF Io, PutPCs
  <2>4. Copied(t)'
    BY <1>0, <2>1, <2>3, Zenon DEF Copied
  <2>5. IoOK(t)'
    BY <1>0, <1>2, <2>3, <2>4, Zenon DEF IoOK, PutPCs
  <2> QED BY <1>0, <1>1, <2>3, <2>5, StoreOneThread, Zenon DEF StoreInv, FilesOK
<1>3. CASE PersistCaptured(t)
  <2>1. th[t].ent \in DOMAIN entry
    BY <1>3, Zenon DEF PersistCaptured, At, TypeOK, EntryPCs
  <2>2. UNCHANGED th /\ th[t].pc = "persist"
    BY <1>3, Zenon DEF PersistCaptured, vars, At
  <2> QED BY <1>2, <1>3, <2>1, <2>2, Zenon DEF PersistCaptured
<1>4. CASE PersistNext(t)
  <2>0. th[t].pc = "store" /\ io[t].pc = "encode" /\ io[t].todo \subseteq DOMAIN entry
    BY <1>0, <1>4, Zenon DEF PersistNext, IoAt, IoOK, PutPCs
  <2>1. ASSUME NEW e \in io[t].todo, UNCHANGED th,
               io' = [io EXCEPT ![t].pc = "write", ![t].ent = e, ![t].payload = Encode(e), ![t].todo = @ \ {e}]
        PROVE  StoreInv'
    <3>1. e \in DOMAIN entry /\ io[t].todo \ {e} \in SUBSET DOMAIN entry
      BY <2>0, Zenon
    <3>2. io' = [io EXCEPT ![t].pc = "write", ![t].ent = e, ![t].payload = Encode(e),
                           ![t].todo = io[t].todo \ {e}]
      BY <1>0, <2>1, Zenon DEF Io
    <3> QED BY <1>2, <2>0, <2>1, <3>1, <3>2, Zenon
  <2>2. CASE io' = [io EXCEPT ![t] = NoIo] /\ Return(t)
    <3>1. io' \in [Threads -> Io] /\ io'[t].pc = "none" /\ \A u \in Threads \ {t} : io'[u] = io[u]
      BY <1>0, <2>2, Zenon DEF Io, NoIo
    <3>2. th'[t].pc = "idle"
      BY <1>0, <2>2, Zenon DEF Return, Idle
    <3>3. IoOK(t)'
      BY <3>1, <3>2, Zenon DEF IoOK, PutPCs
    <3> QED BY <1>0, <1>1, <3>1, <3>3, StoreOneThread, Zenon DEF StoreInv, FilesOK
  <2> QED BY <1>4, <2>1, <2>2, Zenon DEF PersistNext
<1>5. CASE PersistAll(t)
  <2>1. {by_artifact[a] : a \in DOMAIN by_artifact} \subseteq DOMAIN entry /\ DOMAIN entry \subseteq EntryIds
    BY Zenon DEF TypeOK
  <2> DEFINE S == {by_artifact[a] : a \in DOMAIN by_artifact}
  <2>2. io' = [io EXCEPT ![t].pc = "encode", ![t].todo = S]
    BY <1>5, Zenon DEF PersistAll
  <2>3. /\ io' \in [Threads -> Io] /\ io'[t].pc = "encode" /\ io'[t].todo = S
        /\ \A u \in Threads \ {t} : io'[u] = io[u]
    <3> HIDE DEF S
    <3>1. S \subseteq EntryIds
      BY <2>1, Zenon DEF S
    <3> QED BY <1>0, <2>2, <3>1, Zenon DEF Io
  <2>4. th'[t].pc = "store"
    BY <1>0, <1>5, Zenon DEF PersistAll, Call, Idle
  <2>5. IoOK(t)'
    BY <1>0, <2>1, <2>3, <2>4, Zenon DEF IoOK, PutPCs
  <2> QED BY <1>0, <1>1, <2>3, <2>5, StoreOneThread DEF StoreInv, FilesOK
<1> QED BY <1>3, <1>4, <1>5, Zenon

\* put writes, fails or renames.
LEMMA PutStepInv ==
  ASSUME TypeOK, StoreInv, NEW t \in Threads, StoreQuiet(t),
         PutWrite(t) \/ PutFails(t) \/ PutRename(t)
  PROVE  StoreInv'
<1>0. /\ UNCHANGED <<entry, by_artifact>> /\ EntriesKept /\ \A u \in Threads \ {t} : th'[u] = th[u]
      /\ th \in [Threads -> Thread] /\ io \in [Threads -> Io] /\ io[t] \in Io /\ th[t] \in Thread
      /\ IoOK(t) /\ saved \subseteq DOMAIN entry /\ FilesOK
  BY StoreQuietFrame, Zenon DEF StoreInv
<1>1. io[t].pc \in PutPCs /\ Copied(t)
  BY <1>0, Zenon DEF PutWrite, PutFails, PutRename, IoAt, IoOK, PutPCs
<1>2. CASE PutWrite(t)
  <2>1. UNCHANGED <<disk, saved, th>> /\ io' = [io EXCEPT ![t].pc = "rename"]
    BY <1>2, Zenon DEF PutWrite, vars
  <2>2. /\ io' \in [Threads -> Io] /\ io'[t].pc = "rename" /\ \A u \in Threads \ {t} : io'[u] = io[u]
        /\ io'[t].ent = io[t].ent /\ io'[t].payload = io[t].payload /\ io'[t].todo = io[t].todo
    BY <1>0, <2>1, Zenon DEF Io, PutPCs
  <2>3. Copied(t)'
    BY <1>0, <1>1, <2>2, Zenon DEF Copied
  <2>4. IoOK(t)'
    BY <1>0, <1>1, <2>1, <2>2, <2>3 DEF IoOK, PutPCs
  <2> QED BY <1>0, <2>1, <2>2, <2>4, StoreOneThread DEF FilesOK
<1>3. ASSUME NEW ok \in BOOLEAN, PutReturns(t, ok), FilesOK', DOMAIN disk \subseteq DOMAIN disk' PROVE StoreInv'
  <2>1. saved' \subseteq DOMAIN entry'
    BY <1>0, <1>1, <1>3, Zenon DEF PutReturns, Copied
  <2>2. CASE io' = [io EXCEPT ![t] = NoIo] /\ (Goto(t, "complete") \/ Return(t))
    <3>1. io' \in [Threads -> Io] /\ io'[t].pc = "none" /\ \A u \in Threads \ {t} : io'[u] = io[u]
      BY <1>0, <2>2, Zenon DEF Io, NoIo
    <3>2. th'[t].pc \in {"complete", "idle"}
      BY <1>0, <2>2 DEF Goto, Return, Idle, Thread
    <3>3. IoOK(t)'
      BY <3>1, <3>2, Zenon DEF IoOK, PutPCs
    <3> QED BY <1>0, <1>3, <2>1, <3>1, <3>3, StoreOneThread
  <2>3. CASE At(t, "store") /\ UNCHANGED th /\ io' = [io EXCEPT ![t].pc = "encode"]
    <3>1. /\ io' \in [Threads -> Io] /\ io'[t].pc = "encode" /\ io'[t].todo = io[t].todo
          /\ \A u \in Threads \ {t} : io'[u] = io[u]
      BY <1>0, <2>3, Zenon DEF Io
    <3>2. IoOK(t)'
      BY <1>0, <1>1, <2>3, <3>1, Zenon DEF IoOK, PutPCs, At
    <3> QED BY <1>0, <1>3, <2>1, <3>1, <3>2, StoreOneThread, Zenon
  <2> QED BY <1>3, <2>2, <2>3, Zenon DEF PutReturns
<1>4. CASE PutFails(t)
  BY <1>0, <1>3, <1>4, Zenon DEF PutFails, FilesOK
<1>5. CASE PutRename(t)
  <2>1. CASE UNCHANGED disk /\ PutReturns(t, FALSE)
    BY <1>0, <1>3, <2>1, Zenon DEF FilesOK
  <2>2. CASE disk' = Put(disk, ArtifactOf[io[t].payload.req], io[t].payload) /\ PutReturns(t, TRUE)
    <3>1. io[t].payload \in Payload
      BY <1>1, Zenon DEF Copied
    <3>2. FilesOK' /\ DOMAIN disk \subseteq DOMAIN disk'
      BY <1>0, <2>2, <3>1, Zenon DEF FilesOK, Put
    <3> QED BY <1>3, <2>2, <3>2, Zenon
  <2> QED BY <1>5, <2>1, <2>2, Zenon DEF PutRename
<1> QED BY <1>2, <1>4, <1>5, Zenon

\* recover reads the directory and raises the counters.
LEMMA RecoverStepInv ==
  ASSUME TypeOK, StoreInv, NEW t \in Threads, StoreQuiet(t),
         \/ Recover(t) \/ RecoverClean(t) \/ RecoverList(t) \/ RecoverLoad(t) \/ RecoverMax(t)
         \/ RecoverGraphCounter(t) \/ RecoverReturn(t)
  PROVE  StoreInv'
<1>0. /\ UNCHANGED <<entry, by_artifact>> /\ EntriesKept /\ \A u \in Threads \ {t} : th'[u] = th[u]
      /\ th \in [Threads -> Thread] /\ io \in [Threads -> Io] /\ io[t] \in Io /\ th[t] \in Thread
      /\ IoOK(t) /\ saved \subseteq DOMAIN entry /\ FilesOK
  BY StoreQuietFrame, Zenon DEF StoreInv
<1>1. UNCHANGED <<disk, saved>>
  BY Zenon DEF Recover, RecoverClean, RecoverList, RecoverLoad, RecoverMax, RecoverGraphCounter, RecoverReturn
<1>2. SUFFICES IoOK(t)' /\ io' \in [Threads -> Io] /\ \A u \in Threads \ {t} : io'[u] = io[u]
  BY <1>0, <1>1, StoreOneThread, Zenon DEF FilesOK
<1>3. CASE Recover(t) \/ RecoverClean(t)
  <2>1. /\ io' \in [Threads -> Io] /\ io'[t].pc \in {"clean", "list"} /\ th'[t].pc = "store"
        /\ \A u \in Threads \ {t} : io'[u] = io[u]
    <3>1. CASE Recover(t)
      BY <1>0, <3>1, Zenon DEF Recover, Call, Idle, Io, RecoverPCs
    <3>2. CASE RecoverClean(t)
      BY <1>0, <3>2, Zenon DEF RecoverClean, IoAt, vars, Io, RecoverPCs, IoOK, PutPCs
    <3> QED BY <1>3, <3>1, <3>2, Zenon
  <2> QED BY <2>1, Zenon DEF IoOK, PutPCs
<1>4. CASE RecoverList(t)
  <2>1. DOMAIN disk \subseteq Artifacts
    BY <1>0, Zenon DEF FilesOK, Payload, Artifacts
  <2>2. /\ io' \in [Threads -> Io] /\ io'[t].pc = "load" /\ io'[t].todo = DOMAIN disk
        /\ \A u \in Threads \ {t} : io'[u] = io[u]
    BY <1>0, <1>4, <2>1, Zenon DEF RecoverList, Io, RecoverPCs
  <2>3. th'[t].pc = "store"
    BY <1>0, <1>4, Zenon DEF RecoverList, IoAt, vars, IoOK, PutPCs
  <2> QED BY <1>1, <2>2, <2>3, Zenon DEF IoOK, PutPCs
<1>5. CASE RecoverLoad(t)
  <2>1. th'[t].pc = "store" /\ io[t].todo \subseteq DOMAIN disk
    BY <1>0, <1>5, Zenon DEF RecoverLoad, IoAt, vars, IoOK, PutPCs
  <2>2. PICK a \in io[t].todo :
          io' = [io EXCEPT ![t].todo = @ \ {a},
                           ![t].pc = IF disk[a].intact THEN "insert" ELSE "load",
                           ![t].payload = parse_envelope(disk[a])]
    BY <1>5, Zenon DEF RecoverLoad
  <2>3. disk[a] \in Payload
    BY <1>0, <2>1, Zenon DEF FilesOK
  <2>4. /\ io' \in [Threads -> Io] /\ io'[t].pc = (IF disk[a].intact THEN "insert" ELSE "load")
        /\ io'[t].todo = io[t].todo \ {a}
        /\ disk[a].intact => io'[t].payload = disk[a]
        /\ \A u \in Threads \ {t} : io'[u] = io[u]
    BY <1>0, <2>2, <2>3, Zenon DEF Io, RecoverPCs, parse_envelope
  <2> QED BY <1>1, <2>1, <2>3, <2>4, Zenon DEF IoOK, PutPCs
<1>6. CASE RecoverMax(t)
  <2> DEFINE graph == PastMax({entry[e].generation : e \in Indexed})
             cache == PastMax({entry[e].cache_generation : e \in Indexed})
  <2>1. th'[t].pc = "store"
    BY <1>0, <1>6, Zenon DEF RecoverMax, IoAt, vars, IoOK, PutPCs
  <2>2. graph \in Nat /\ cache \in Nat
    BY RecoverMaximum, Zenon
  <2>3. io' = [io EXCEPT ![t].pc = "graph", ![t].cache = cache,
                         ![t].graph = IF graph > graph_generation_counter THEN graph ELSE 0]
    BY <1>6, Zenon DEF RecoverMax, Indexed
  <2> HIDE DEF graph, cache
  <2>4. io' \in [Threads -> Io] /\ io'[t].pc = "graph" /\ \A u \in Threads \ {t} : io'[u] = io[u]
    BY <1>0, <2>2, <2>3, Zenon DEF Io, RecoverPCs
  <2> QED BY <2>1, <2>4, Zenon DEF IoOK, PutPCs
<1>7. CASE RecoverGraphCounter(t)
  <2>1. th'[t].pc = "store"
    BY <1>0, <1>7, Zenon DEF RecoverGraphCounter, IoAt, IoOK, PutPCs
  <2>2. io' \in [Threads -> Io] /\ io'[t].pc = "cache" /\ \A u \in Threads \ {t} : io'[u] = io[u]
    BY <1>0, <1>7, Zenon DEF RecoverGraphCounter, Io, RecoverPCs
  <2> QED BY <2>1, <2>2, Zenon DEF IoOK, PutPCs
<1>8. CASE RecoverReturn(t)
  <2>1. th'[t].pc = "idle"
    BY <1>0, <1>8, Zenon DEF RecoverReturn, Return, Idle
  <2>2. io' \in [Threads -> Io] /\ io'[t].pc = "none" /\ \A u \in Threads \ {t} : io'[u] = io[u]
    BY <1>0, <1>8, Zenon DEF RecoverReturn, Io, NoIo
  <2> QED BY <2>1, <2>2, Zenon DEF IoOK, PutPCs
<1> QED BY <1>3, <1>4, <1>5, <1>6, <1>7, <1>8, Zenon

\* recover enters a file in the registry.
LEMMA RecoverInsertInv ==
  ASSUME TypeOK, StoreInv, NEW t \in Threads, RecoverInsert(t) PROVE StoreInv'
<1>1. PICK e : Recovered(t, e)
  BY RecoverInserts, Zenon
<1>2. UNCHANGED <<disk, th>> /\ io' = [io EXCEPT ![t].pc = "load", ![t].payload = NoPayload]
      /\ io[t].pc = "insert" /\ io \in [Threads -> Io] /\ io[t] \in Io /\ IoOK(t) /\ saved \subseteq DOMAIN entry
  BY Zenon DEF RecoverInsert, IoAt, StoreInv
<1>3. EntriesKept /\ saved' \subseteq DOMAIN entry'
  BY <1>1, <1>2, Zenon DEF Recovered, EntriesKept
<1>4. /\ io' \in [Threads -> Io] /\ io'[t].pc = "load" /\ io'[t].todo = io[t].todo
      /\ \A u \in Threads \ {t} : io'[u] = io[u]
  BY <1>2, Zenon DEF Io, RecoverPCs
<1>5. IoOK(t)'
  BY <1>2, <1>4, Zenon DEF IoOK, PutPCs
<1> QED BY <1>2, <1>3, <1>4, <1>5, StoreOneThread, Zenon DEF StoreInv, FilesOK

\* A restart leaves the files, some of them damaged, and no store operation.
LEMMA CrashInv == ASSUME StoreInv, Crash PROVE StoreInv'
<1>1. io' = [t \in Threads |-> NoIo] /\ saved' = {} /\ th' = [t \in Threads |-> Idle]
  BY Zenon DEF Crash
<1>2. PICK bad \in SUBSET DOMAIN disk :
        disk' = [a \in DOMAIN disk |-> [disk[a] EXCEPT !.intact = @ /\ a \notin bad]]
  BY Zenon DEF Crash
<1>3. ASSUME NEW a \in DOMAIN disk
      PROVE  /\ [disk[a] EXCEPT !.intact = @ /\ a \notin bad] \in Payload
             /\ [disk[a] EXCEPT !.intact = @ /\ a \notin bad].req = disk[a].req
  <2>1. disk[a] \in Payload
    BY Zenon DEF StoreInv, FilesOK
  <2> QED BY <2>1, Zenon DEF Payload
<1>4. FilesOK'
  BY <1>2, <1>3, Zenon DEF StoreInv, FilesOK
<1>5. io' \in [Threads -> Io]
  BY <1>1, Zenon DEF Io, NoIo
<1>6. \A t \in Threads : IoOK(t)'
  BY <1>1, Zenon DEF IoOK, NoIo, Idle, PutPCs
<1> QED BY <1>1, <1>4, <1>5, <1>6, Zenon DEF StoreInv

\* Every step keeps the invariants of the engine and of the store.
LEMMA DurableStepInv ==
  ASSUME EngineInv, StoreInv, [DNext]_dvars PROVE EngineInv' /\ StoreInv'
<1>0. TypeOK
  BY Zenon DEF EngineInv
<1>1. CASE [Next]_vars /\ UNCHANGED durable
  BY <1>0, <1>1, EngineStepInv, StoreEngineInv, Zenon
<1>2. ASSUME NEW t \in Threads, StoreStep(t) \/ Recover(t) \/ PersistAll(t), StoreQuiet(t), ~RecoverInsert(t)
      PROVE  EngineInv' /\ StoreInv'
  <2>1. EngineInv'
    BY <1>2, StoreQuietEngine, Zenon
  <2>2. StoreInv'
    BY <1>0, <1>2, EncodeStepInv, PutStepInv, RecoverStepInv, Zenon DEF StoreStep
  <2> QED BY <2>1, <2>2, Zenon
<1>3. ASSUME NEW t \in Threads, RecoverInsert(t) PROVE EngineInv' /\ StoreInv'
  BY <1>0, <1>3, RecoverInsertEngine, RecoverInsertInv, Zenon
<1>4. CASE Crash
  BY <1>4, CrashEngine, CrashInv, Zenon
<1> QED BY <1>0, <1>1, <1>2, <1>3, <1>4, DurableCases, Zenon

\* They hold in every reachable state.
LEMMA DurableInvAlways == DSpec => [](EngineInv /\ StoreInv)
<1>1. DInit => EngineInv /\ StoreInv
  <2>1. DInit => StoreInv
    BY DEF DInit, Init, StoreInv, FilesOK, Io, NoIo, IoOK, Idle, PutPCs
  <2> QED BY <2>1, InitEngine, Zenon DEF DInit
<1>2. EngineInv /\ StoreInv /\ [DNext]_dvars => EngineInv' /\ StoreInv'
  BY DurableStepInv, Zenon
<1> QED BY <1>1, <1>2, PTL DEF DSpec

\* With its store, restarts and recover, the engine keeps what it promises without:
\* its state is well-typed, a key has one capture at a time and no waiter is abandoned.
THEOREM DurableSingleFlight == DSpec => [](TypeOK /\ SingleFlight /\ NoAbandonedWaiter)
<1>1. EngineInv => TypeOK /\ SingleFlight /\ NoAbandonedWaiter
  <2>1. EngineInv => SingleFlight
    BY Zenon DEF EngineInv, FlightInv, OwnersRegistered, SingleFlight
  <2>2. EngineInv => NoAbandonedWaiter
    BY Zenon DEF EngineInv, TypeOK, FlightInv, AttemptsOwned, WaitersServed, NoAbandonedWaiter, At
  <2> QED BY <2>1, <2>2, Zenon DEF EngineInv
<1> QED BY <1>1, DurableInvAlways, PTL

\* Entries that recover rebuilt have no executable, yet no lease is ever made on one
\* before materialize_exec supplied it, and none loses it while leased or replayed.
THEOREM DurableExecutableOutlivesUse == DSpec => []ExecutableOutlivesUse
<1>1. EngineInv => ExecutableOutlivesUse
  BY Zenon DEF EngineInv, ExecInv, ExecutableOutlivesUse, UsePCs, At
<1> QED BY <1>1, DurableInvAlways, PTL

\* No step of the engine or of its store takes an entry out of a lifecycle state that
\* the table of lifecycle.cpp does not leave; a restart takes the entry itself.
THEOREM DurableTerminalAbsorbs == DSpec => TerminalAbsorbs
<1> DEFINE Absorbs == \A e \in DOMAIN entry \cap DOMAIN entry' :
                        entry'[e].lifecycle # entry[e].lifecycle => Allowed[entry[e].lifecycle] # {}
<1>1. EngineInv /\ StoreInv /\ [DNext]_dvars => [Absorbs]_vars
  <2> SUFFICES ASSUME EngineInv, StoreInv, [DNext]_dvars PROVE Absorbs
    BY Zenon
  <2>0. TypeOK /\ LifeInv /\ Allowed["Valid"] # {}
    BY Zenon DEF EngineInv, Allowed
  <2>1. CASE [Next]_vars
    BY <2>0, <2>1, LifeStepInv, Zenon
  <2>2. ASSUME NEW t \in Threads, StoreQuiet(t) PROVE Absorbs
    BY <2>2, Zenon DEF StoreQuiet
  <2>3. ASSUME NEW t \in Threads, RecoverInsert(t) PROVE Absorbs
    BY <2>0, <2>3, RecoverInserts, Zenon DEF Recovered
  <2>4. CASE Crash
    BY <2>4 DEF Crash
  <2> QED BY <2>0, <2>1, <2>2, <2>3, <2>4, DurableCases
<1>2. DSpec => [][Absorbs]_vars
  <2>1. [DNext]_dvars /\ EngineInv /\ StoreInv => [Absorbs]_vars
    BY <1>1, Zenon
  <2> HIDE DEF Absorbs
  <2> QED BY <2>1, DurableInvAlways, PTL DEF DSpec
<1> QED BY <1>2, Zenon DEF TerminalAbsorbs
-----------------------------------------------------------------------------
\* The inductive invariant behind CountersPastRecovered.  Until recover returned nothing
\* but recover runs: the entries are those of the intact files it has read, the others
\* are still on its list, and the numbers it computed lie past all of them ...
FromFile(a) ==
  /\ a \in DOMAIN disk /\ disk[a].intact
  /\ entry[by_artifact[a]].req = RecoveredAs[disk[a].req]
  /\ entry[by_artifact[a]].generation = disk[a].generation
  /\ entry[by_artifact[a]].cache_generation = disk[a].cache_generation
Pending(t, a) ==
  \/ io[t].pc \in {"load", "insert"} /\ a \in io[t].todo
  \/ io[t].pc = "insert" /\ a = ArtifactOf[io[t].payload.req]
Reading(t) ==
  io[t].pc \in {"load", "insert", "graph", "cache"} =>
    \A a \in DOMAIN disk : disk[a].intact => a \in DOMAIN by_artifact \/ Pending(t, a)
Listed(t) ==
  /\ io[t].pc \in {"load", "insert"} => io[t].todo \cap DOMAIN by_artifact = {}
  /\ io[t].pc = "insert" =>
       LET a == ArtifactOf[io[t].payload.req] IN
       a \in DOMAIN disk /\ disk[a] = io[t].payload /\ a \notin DOMAIN by_artifact /\ a \notin io[t].todo
Beyond(t) ==
  \A e \in DOMAIN entry :
    /\ io[t].pc = "graph" =>
         /\ entry[e].generation < (IF io[t].graph = 0 THEN graph_generation_counter ELSE io[t].graph)
         /\ entry[e].cache_generation < io[t].cache
    /\ io[t].pc = "cache" =>
         /\ entry[e].generation < graph_generation_counter
         /\ entry[e].cache_generation <= (IF io[t].cache = 0 THEN cache_generation ELSE io[t].cache)
RecoverOnly ==
  /\ DOMAIN lease = {}
  /\ \A t \in Threads : th[t].pc \in {"idle", "store"} /\ io[t].pc \in {"none"} \cup RecoverPCs
  /\ \A t, u \in Threads : th[t].pc = "store" /\ th[u].pc = "store" => t = u
Unread == \A t \in Threads : io[t].pc \in {"none", "clean", "list"}
Unready ==
  /\ RecoverOnly
  /\ Unread => DOMAIN entry = {}
  /\ DOMAIN entry \subseteq Indexed /\ \A a \in DOMAIN by_artifact : FromFile(a)
  /\ \A t \in Threads : Reading(t) /\ Listed(t) /\ Beyond(t)

\* ... and afterwards no entry and no file is ahead of the counters.
EntriesBehind ==
  \A e \in DOMAIN entry : /\ entry[e].generation < graph_generation_counter
                          /\ entry[e].cache_generation <= cache_generation
FilesBehind ==
  \A a \in DOMAIN disk : disk[a].intact => /\ disk[a].generation < graph_generation_counter
                                           /\ disk[a].cache_generation <= cache_generation
Ready == EntriesBehind /\ FilesBehind /\ \A t \in Threads : io[t].pc \notin RecoverPCs
RecoverInv == (ready => Ready) /\ (~ready => Unready)

\* No step of the engine lowers a counter, and a new entry takes their values.
LEMMA CountersGrow ==
  ASSUME TypeOK, [Next]_vars
  PROVE  /\ graph_generation_counter' >= graph_generation_counter /\ cache_generation' >= cache_generation
         /\ \A e \in DOMAIN entry' \ DOMAIN entry :
              /\ entry'[e].generation < graph_generation_counter'
              /\ entry'[e].generation = graph_generation_counter
              /\ entry'[e].cache_generation = cache_generation
<1>0. graph_generation_counter \in Nat /\ cache_generation \in Nat
  BY Zenon DEF TypeOK
<1>1. cache_generation' >= cache_generation
  <2>1. ASSUME NEW l \in DOMAIN lease, Release(l) \/ ReleaseStep(l) PROVE UNCHANGED cache_generation
    BY <2>1, Zenon DEF Release, ReleaseStep, ReleaseEntryLoad, ReleaseEntrySub, ReleaseGlobalLoad,
                ReleaseGlobalSub, leaseFrame, generations
  <2>2. ASSUME NEW t \in Threads, Start(t)
        PROVE  UNCHANGED cache_generation \/ cache_generation' = cache_generation + 1
    BY <2>2, Zenon DEF Start, Lookup, Replay, Invalidate, Pin, Unpin, Evict, Unload, generations
  <2>3. ASSUME NEW t \in Threads, Continue(t) PROVE UNCHANGED cache_generation
    BY <2>3, Zenon DEF Continue, SearchAgain, Materialize, Recheck, MakeLease, Join, CaptureFail,
         CaptureBuild,
         Publish, Complete, Erase, Wake, InvalidateCollect, InvalidateMark, InvalidateReturn, UnpinSub,
         EvictApply, ReplayEnd, generations
  <2>4. UNCHANGED vars => UNCHANGED cache_generation
    BY Zenon DEF vars
  <2> QED BY <1>0, <2>1, <2>2, <2>3, <2>4 DEF Next
<1>2. CASE GenerationQuiet
  BY <1>1, <1>2, Zenon DEF GenerationQuiet
<1>3. ASSUME NEW t \in Threads, CaptureBuild(t)
      PROVE  /\ graph_generation_counter' = graph_generation_counter + 1
             /\ \A e \in DOMAIN entry' \ DOMAIN entry :
                  /\ entry'[e].generation = graph_generation_counter
                  /\ entry'[e].cache_generation = cache_generation
  <2>1. UNCHANGED entry \/ \E e : entry' = Put(entry, e, NewEntry(th[t].req))
    BY <1>3, Zenon DEF CaptureBuild
  <2>2. graph_generation_counter' = graph_generation_counter + 1
    BY <1>3, Zenon DEF CaptureBuild
  <2>3. ASSUME NEW e, entry' = Put(entry, e, NewEntry(th[t].req))
        PROVE  \A f \in DOMAIN entry' \ DOMAIN entry :
                 /\ entry'[f].generation = graph_generation_counter
                 /\ entry'[f].cache_generation = cache_generation
    BY <2>3, Zenon DEF Put, NewEntry, EntryFor
  <2> QED BY <2>1, <2>2, <2>3, Zenon
<1>4. ASSUME NEW t \in Threads, Publish(t) PROVE UNCHANGED <<entry, graph_generation_counter>>
  BY <1>4, Zenon DEF Publish, generations
<1> QED BY <1>0, <1>1, <1>2, <1>3, <1>4, GenerationCases

\* Until recover returned, no call of the engine is made and none is under way.
LEMMA NothingRuns == ASSUME RecoverFirst, ~ready, RecoverOnly PROVE ~EngineStep
<1>1. ASSUME NEW t \in Threads, Continue(t) PROVE FALSE
  <2>1. th[t].pc \in {"idle", "store"}
    BY Zenon DEF RecoverOnly
  <2> QED BY <1>1, <2>1, Zenon DEF Continue, SearchAgain, Materialize, Recheck, MakeLease, Join,
        CaptureFail, CaptureBuild,
         Publish, Complete, Erase, Wake, InvalidateCollect, InvalidateMark, InvalidateReturn, UnpinSub,
         EvictApply, ReplayEnd, At
<1> QED BY <1>1, Zenon DEF EngineStep, RecoverOnly

\* Afterwards the engine's steps keep entries and files behind the counters ...
LEMMA ReadyEngineInv ==
  ASSUME TypeOK, StoreInv, Ready, [Next]_vars, UNCHANGED durable PROVE Ready'
<1>0. UNCHANGED <<disk, io>> /\ EntriesKept
  BY IdentityCases, Zenon DEF durable
<1>1. /\ graph_generation_counter \in Nat /\ cache_generation \in Nat
      /\ graph_generation_counter' \in Nat /\ cache_generation' \in Nat
      /\ \A e \in DOMAIN entry : entry[e].generation \in Nat /\ entry[e].cache_generation \in Nat
      /\ \A a \in DOMAIN disk : disk[a].generation \in Nat /\ disk[a].cache_generation \in Nat
  BY StepType, Zenon DEF TypeOK, Entry, StoreInv, FilesOK, Payload
<1>2. EntriesBehind'
  BY <1>0, <1>1, CountersGrow DEF Ready, EntriesBehind, EntriesKept
<1>3. FilesBehind'
  BY <1>0, <1>1, CountersGrow DEF Ready, FilesBehind
<1> QED BY <1>0, <1>2, <1>3, Zenon DEF Ready

\* ... and so do the saves.
LEMMA ReadyStoreInv ==
  ASSUME RecoverFirst, TypeOK, StoreInv, Ready, ready, NEW t \in Threads,
         StoreStep(t) \/ Recover(t) \/ PersistAll(t)
  PROVE  Ready' /\ UNCHANGED ready /\ UNCHANGED <<entry, graph_generation_counter, cache_generation>>
<1>0. io \in [Threads -> Io] /\ IoOK(t) /\ io[t].pc \notin RecoverPCs /\ FilesOK
  BY Zenon DEF StoreInv, Ready
<1>1. PersistCaptured(t) \/ PersistNext(t) \/ PersistAll(t) \/ PutWrite(t) \/ PutFails(t) \/ PutRename(t)
  BY <1>0, Zenon DEF StoreStep, Recover, RecoverClean, RecoverList, RecoverLoad, RecoverInsert, RecoverMax,
              RecoverGraphCounter, RecoverReturn, IoAt, RecoverPCs
<1>2. UNCHANGED <<entry, graph_generation_counter, cache_generation, ready>>
  BY <1>1, Zenon DEF PersistCaptured, PersistNext, PersistAll, PutWrite, PutFails, PutRename, vars,
       engineFrame,
              generations
<1>3. \A u \in Threads : io'[u].pc \notin RecoverPCs
  <2>1. (\E o : o.pc \notin RecoverPCs /\ io' = [io EXCEPT ![t] = o])
    <3>1. \/ \E o, e, p : io' = [io EXCEPT ![t].pc = "write", ![t].ent = e, ![t].payload = p]
          \/ \E e, p, S : io' = [io EXCEPT ![t].pc = "write", ![t].ent = e, ![t].payload = p, ![t].todo = S]
          \/ \E S : io' = [io EXCEPT ![t].pc = "encode", ![t].todo = S]
          \/ io' = [io EXCEPT ![t].pc = "encode"] \/ io' = [io EXCEPT ![t].pc = "rename"]
          \/ io' = [io EXCEPT ![t] = NoIo]
      BY <1>1, Zenon DEF PersistCaptured, PersistNext, PersistAll, PutWrite, PutFails, PutRename, PutReturns
    <3> QED BY <1>0, <3>1 DEF Io, NoIo, RecoverPCs
  <2> QED BY <1>0, <2>1, Zenon DEF Ready
<1>4. FilesBehind'
  <2>1. CASE UNCHANGED disk
    BY <1>2, <2>1, Zenon DEF Ready, FilesBehind
  <2>2. CASE PutRename(t) /\ disk' = Put(disk, ArtifactOf[io[t].payload.req], io[t].payload)
    <3>1. Copied(t)
      BY <1>0, <2>2, Zenon DEF PutRename, IoAt, IoOK, PutPCs
    <3>2. /\ io[t].payload.generation < graph_generation_counter
          /\ io[t].payload.cache_generation <= cache_generation
      BY <3>1, Zenon DEF Copied, Ready, EntriesBehind
    <3> QED BY <1>2, <2>2, <3>2, Zenon DEF Put, Ready, FilesBehind
  <2> QED BY <1>1, <2>1, <2>2, Zenon DEF PersistCaptured, PersistNext, PersistAll, PutWrite, PutFails,
        PutRename
<1>5. EntriesBehind'
  BY <1>2, Zenon DEF Ready, EntriesBehind
<1> QED BY <1>2, <1>3, <1>4, <1>5, Zenon DEF Ready

\* Before that, recover is the one operation there is: its steps, one by one.
LEMMA UnreadyStoreInv ==
  ASSUME RecoverFirst, EngineInv, StoreInv, Unready, ~ready, NEW t \in Threads,
         StoreStep(t) \/ Recover(t)
  PROVE  RecoverInv'
<1>0. /\ th \in [Threads -> Thread] /\ io \in [Threads -> Io] /\ io[t] \in Io
      /\ IoOK(t) /\ FilesOK /\ TypeOK /\ RecoverOnly
      /\ \A u \in Threads : IoOK(u)
  BY Zenon DEF EngineInv, TypeOK, StoreInv, Unready
<1>1. \/ Recover(t) \/ RecoverClean(t) \/ RecoverList(t) \/ RecoverLoad(t) \/ RecoverInsert(t)
      \/ RecoverMax(t) \/ RecoverGraphCounter(t) \/ RecoverReturn(t)
  <2>1. th[t].pc \in {"idle", "store"} /\ io[t].pc \in {"none"} \cup RecoverPCs
    BY <1>0, Zenon DEF RecoverOnly
  <2> QED BY <2>1, Zenon DEF StoreStep, PersistCaptured, PersistNext, PutWrite, PutFails, PutRename,
        IoAt, At, RecoverPCs
\* The others are idle.
<1>2. ASSUME NEW u \in Threads, u # t, io[t].pc # "none" PROVE th[u].pc = "idle" /\ io[u].pc = "none"
  <2>1. th[t].pc = "store"
    BY <1>0, <1>2, Zenon DEF IoOK, RecoverOnly
  <2> QED BY <1>0, <1>2, <2>1, Zenon DEF IoOK, RecoverOnly
<1>3. by_artifact \in [DOMAIN by_artifact -> DOMAIN entry] /\ Indexed \subseteq DOMAIN entry
  BY <1>0, Zenon DEF TypeOK, Indexed
<1>4. CASE Recover(t) \/ RecoverClean(t)
  <2>1. /\ UNCHANGED <<entry, lease, by_artifact, disk, ready>>
        /\ io' \in [Threads -> Io] /\ io'[t].pc \in {"clean", "list"} /\ th'[t].pc = "store"
        /\ \A u \in Threads \ {t} : io'[u] = io[u] /\ th'[u] = th[u]
    <3>1. CASE Recover(t)
      BY <1>0, <3>1, Zenon DEF Recover, Call, Idle, Io, RecoverPCs, engineFrame, registry
    <3>2. CASE RecoverClean(t)
      BY <1>0, <3>2 DEF RecoverClean, IoAt, vars, Io, RecoverPCs, IoOK, PutPCs
    <3> QED BY <1>4, <3>1, <3>2, Zenon
  <2>2. \A u \in Threads \ {t} : th[u].pc = "idle" /\ io[u].pc = "none"
    <3>1. CASE Recover(t)
      BY <1>0, <3>1, Zenon DEF Recover, At, IoOK
    <3>2. CASE RecoverClean(t)
      BY <1>2, <3>2, Zenon DEF RecoverClean, IoAt
    <3> QED BY <1>4, <3>1, <3>2, Zenon
  <2>3. io[t].pc \in {"none", "clean"}
    BY <1>0, <1>4, Zenon DEF Recover, RecoverClean, IoAt, At, IoOK
  <2>4. DOMAIN entry = {} /\ DOMAIN by_artifact = {}
    BY <1>3, <2>2, <2>3, Zenon DEF Unready, Unread
  <2>5. RecoverOnly'
    BY <1>0, <2>1, <2>2 DEF RecoverOnly, RecoverPCs
  <2>6. \A u \in Threads : Reading(u)' /\ Listed(u)' /\ Beyond(u)'
    BY <2>1, <2>2, Zenon DEF Reading, Listed, Beyond
  <2> QED BY <2>1, <2>4, <2>5, <2>6, Zenon DEF RecoverInv, Unready
\* Once the directory is being read, only t's operation changes.
<1>5. ASSUME io[t].pc \in RecoverPCs, io' \in [Threads -> Io], io'[t].pc \in RecoverPCs \ {"clean", "list"},
             \A u \in Threads \ {t} : io'[u] = io[u], UNCHANGED <<lease, disk, th, ready>>,
             DOMAIN entry' \subseteq Indexed', \A a \in DOMAIN by_artifact' : FromFile(a)',
             Reading(t)' /\ Listed(t)' /\ Beyond(t)'
      PROVE  RecoverInv'
  <2>1. \A u \in Threads \ {t} : th[u].pc = "idle" /\ io[u].pc = "none"
    BY <1>2, <1>5, Zenon DEF RecoverPCs
  <2>2. RecoverOnly'
    BY <1>0, <1>5, Zenon DEF RecoverOnly
  <2>3. ~Unread'
    BY <1>5, Zenon DEF Unread, RecoverPCs
  <2>4. \A u \in Threads : Reading(u)' /\ Listed(u)' /\ Beyond(u)'
    BY <1>5, <2>1 DEF Reading, Listed, Beyond
  <2> QED BY <1>5, <2>2, <2>3, <2>4, Zenon DEF RecoverInv, Unready
<1>6. CASE RecoverList(t)
  <2>1. UNCHANGED <<entry, lease, by_artifact, disk, th, ready>> /\ io[t].pc = "list"
    BY <1>6, Zenon DEF RecoverList, IoAt, vars
  <2>2. Unread
    BY <1>2, <2>1, Zenon DEF Unread
  <2>3. DOMAIN entry = {} /\ DOMAIN by_artifact = {}
    BY <1>3, <2>2, Zenon DEF Unready
  <2>4. DOMAIN disk \subseteq Artifacts
    BY <1>0, Zenon DEF FilesOK, Payload, Artifacts
  <2>5. /\ io' \in [Threads -> Io] /\ io'[t].pc = "load" /\ io'[t].todo = DOMAIN disk
        /\ \A u \in Threads \ {t} : io'[u] = io[u]
    BY <1>0, <1>6, <2>4, Zenon DEF RecoverList, Io, RecoverPCs
  <2>6. Reading(t)' /\ Listed(t)' /\ Beyond(t)'
    BY <2>1, <2>3, <2>5, Zenon DEF Reading, Listed, Beyond, Pending
  <2> QED BY <1>5, <2>1, <2>3, <2>5, <2>6, Zenon DEF RecoverPCs
<1>7. CASE RecoverLoad(t)
  <2>1. /\ UNCHANGED <<entry, lease, by_artifact, disk, th, ready>> /\ io[t].pc = "load"
        /\ io[t].todo \subseteq DOMAIN disk
    BY <1>0, <1>7, Zenon DEF RecoverLoad, IoAt, vars, IoOK
  <2>2. PICK a \in io[t].todo :
          io' = [io EXCEPT ![t].todo = @ \ {a},
                           ![t].pc = IF disk[a].intact THEN "insert" ELSE "load",
                           ![t].payload = parse_envelope(disk[a])]
    BY <1>7, Zenon DEF RecoverLoad
  <2>3. disk[a] \in Payload /\ ArtifactOf[disk[a].req] = a
    BY <1>0, <2>1, Zenon DEF FilesOK
  <2>4. /\ io' \in [Threads -> Io] /\ io'[t].pc = (IF disk[a].intact THEN "insert" ELSE "load")
        /\ io'[t].todo = io[t].todo \ {a}
        /\ disk[a].intact => io'[t].payload = disk[a]
        /\ \A u \in Threads \ {t} : io'[u] = io[u]
    BY <1>0, <2>2, <2>3, Zenon DEF Io, RecoverPCs, parse_envelope
  <2>5. Reading(t) /\ Listed(t)
    BY Zenon DEF Unready
  <2>6. Reading(t)'
    BY <2>1, <2>3, <2>4, <2>5, Zenon DEF Reading, Pending
  <2>7. Listed(t)' /\ Beyond(t)'
    BY <2>1, <2>3, <2>4, <2>5, Zenon DEF Listed, Beyond
  <2>8. DOMAIN entry' \subseteq Indexed' /\ \A b \in DOMAIN by_artifact' : FromFile(b)'
    BY <2>1 DEF Unready, FromFile, Indexed
  <2> QED BY <1>5, <2>1, <2>4, <2>6, <2>7, <2>8 DEF RecoverPCs
<1>8. CASE RecoverInsert(t)
  <2>1. UNCHANGED <<lease, disk, th, ready>> /\ io[t].pc = "insert"
    BY <1>8, Zenon DEF RecoverInsert, IoAt
  <2> DEFINE p == io[t].payload
             a == ArtifactOf[p.req]
  <2>2. PICK e : Recovered(t, e)
    BY <1>0, <1>8, RecoverInserts, Zenon
  <2>3. /\ e \notin DOMAIN entry /\ DOMAIN entry' = DOMAIN entry \cup {e}
        /\ \A f \in DOMAIN entry : entry'[f] = entry[f]
        /\ entry'[e].req = RecoveredAs[p.req] /\ entry'[e].generation = p.generation
        /\ entry'[e].cache_generation = p.cache_generation /\ p.intact
    BY <2>2, Zenon DEF Recovered
  <2>4. /\ DOMAIN by_artifact' = DOMAIN by_artifact \cup {a} /\ by_artifact'[a] = e
        /\ \A b \in DOMAIN by_artifact \ {a} : by_artifact'[b] = by_artifact[b]
    BY <2>2, Zenon DEF Recovered, Put
  <2>5. Reading(t) /\ Listed(t)
    BY Zenon DEF Unready
  <2>6. a \in DOMAIN disk /\ disk[a] = p /\ a \notin DOMAIN by_artifact /\ a \notin io[t].todo
    BY <2>1, <2>5, Zenon DEF Listed
  <2>7. /\ io' \in [Threads -> Io] /\ io'[t].pc = "load" /\ io'[t].todo = io[t].todo
        /\ \A u \in Threads \ {t} : io'[u] = io[u]
    BY <1>0, <1>8, Zenon DEF RecoverInsert, Io, RecoverPCs
  <2>8. Reading(t)'
    BY <2>1, <2>4, <2>5, <2>7, Zenon DEF Reading, Pending
  <2>9. Listed(t)' /\ Beyond(t)'
    BY <2>1, <2>4, <2>5, <2>6, <2>7, Zenon DEF Listed, Beyond
  <2> HIDE DEF a, p
  <2>10. ASSUME NEW b \in DOMAIN by_artifact' PROVE FromFile(b)'
    <3>1. CASE b = a
      BY <2>1, <2>3, <2>4, <2>6, <3>1, Zenon DEF FromFile
    <3>2. CASE b # a
      <4>1. b \in DOMAIN by_artifact /\ by_artifact'[b] = by_artifact[b] /\ by_artifact[b] \in DOMAIN entry
        BY <1>3, <2>4, <3>2, Zenon
      <4>2. FromFile(b)
        BY <4>1, Zenon DEF Unready
      <4> QED BY <2>1, <2>3, <4>1, <4>2, Zenon DEF FromFile
    <3> QED BY <3>1, <3>2, Zenon
  <2>11. DOMAIN entry' \subseteq Indexed'
    <3>1. ASSUME NEW f \in DOMAIN entry PROVE \E b \in DOMAIN by_artifact' : by_artifact'[b] = f
      <4>1. PICK b \in DOMAIN by_artifact : by_artifact[b] = f
        BY Zenon DEF Unready, Indexed
      <4> QED BY <2>4, <2>6, <4>1, Zenon
    <3> QED BY <2>3, <2>4, <3>1 DEF Indexed
  <2> QED BY <1>5, <2>1, <2>7, <2>8, <2>9, <2>10, <2>11, Zenon DEF RecoverPCs
<1>9. CASE RecoverMax(t)
  <2> DEFINE graph == PastMax({entry[e].generation : e \in Indexed})
             cache == PastMax({entry[e].cache_generation : e \in Indexed})
  <2>1. /\ UNCHANGED <<entry, lease, by_artifact, disk, th, ready, graph_generation_counter>>
        /\ io[t].pc = "load" /\ io[t].todo = {} /\ graph_generation_counter \in Nat
    BY <1>9, Zenon DEF RecoverMax, IoAt, vars, generations, EngineInv, TypeOK
  <2>2. /\ graph \in Nat /\ cache \in Nat
        /\ \A e \in Indexed : entry[e].generation < graph /\ entry[e].cache_generation < cache
    BY RecoverMaximum, Zenon DEF EngineInv
  <2>3. io' = [io EXCEPT ![t].pc = "graph", ![t].cache = cache,
                         ![t].graph = IF graph > graph_generation_counter THEN graph ELSE 0]
    BY <1>9, Zenon DEF RecoverMax, Indexed
  <2> HIDE DEF graph, cache
  <2>4. /\ io' \in [Threads -> Io] /\ io'[t].pc = "graph" /\ io'[t].cache = cache
        /\ io'[t].graph = (IF graph > graph_generation_counter THEN graph ELSE 0)
        /\ \A u \in Threads \ {t} : io'[u] = io[u]
    BY <1>0, <2>2, <2>3, Zenon DEF Io, RecoverPCs
  <2>5. DOMAIN entry \subseteq Indexed /\ \A e \in DOMAIN entry : entry[e].generation \in Nat
    BY Zenon DEF Unready, EngineInv, TypeOK, Entry
  <2>6. Beyond(t)'
    BY <2>1, <2>2, <2>4, <2>5 DEF Beyond
  <2>7. Reading(t)' /\ Listed(t)'
    BY <2>1, <2>4, Zenon DEF Unready, Reading, Listed, Pending
  <2>8. DOMAIN entry' \subseteq Indexed' /\ \A b \in DOMAIN by_artifact' : FromFile(b)'
    BY <2>1 DEF Unready, FromFile, Indexed
  <2> QED BY <1>5, <2>1, <2>4, <2>6, <2>7, <2>8 DEF RecoverPCs
<1>10. CASE RecoverGraphCounter(t)
  <2>1. /\ UNCHANGED <<entry, lease, by_artifact, disk, th, ready, cache_generation>>
        /\ graph_generation_counter' = (IF io[t].graph # 0 THEN io[t].graph ELSE graph_generation_counter)
        /\ io[t].pc = "graph" /\ cache_generation \in Nat
    BY <1>10, Zenon DEF RecoverGraphCounter, IoAt, registry, EngineInv, TypeOK
  <2>2. /\ io' \in [Threads -> Io] /\ io'[t].pc = "cache"
        /\ io'[t].cache = (IF io[t].cache > cache_generation THEN io[t].cache ELSE 0)
        /\ \A u \in Threads \ {t} : io'[u] = io[u]
    BY <1>0, <1>10, Zenon DEF RecoverGraphCounter, Io, RecoverPCs
  <2>3. Beyond(t) /\ io[t].cache \in Nat /\ \A e \in DOMAIN entry : entry[e].cache_generation \in Nat
    BY <1>0, Zenon DEF Unready, Io, EngineInv, TypeOK, Entry
  <2>4. Beyond(t)'
    BY <2>1, <2>2, <2>3 DEF Beyond
  <2>5. Reading(t)' /\ Listed(t)'
    BY <2>1, <2>2, Zenon DEF Unready, Reading, Listed, Pending
  <2>6. DOMAIN entry' \subseteq Indexed' /\ \A b \in DOMAIN by_artifact' : FromFile(b)'
    BY <2>1 DEF Unready, FromFile, Indexed
  <2> QED BY <1>5, <2>1, <2>2, <2>4, <2>5, <2>6, Zenon DEF RecoverPCs
<1>11. CASE RecoverReturn(t)
  <2>1. /\ UNCHANGED <<entry, by_artifact, disk, graph_generation_counter>> /\ ready' = TRUE
        /\ cache_generation' = (IF io[t].cache # 0 THEN io[t].cache ELSE cache_generation)
        /\ io[t].pc = "cache"
    BY <1>11, Zenon DEF RecoverReturn, IoAt, registry
  <2>2. \A u \in Threads : io'[u].pc = "none"
    BY <1>0, <1>2, <1>11, <2>1, Zenon DEF RecoverReturn, NoIo
  <2>3. EntriesBehind'
    BY <2>1, Zenon DEF Unready, Beyond, EntriesBehind
  <2>4. ASSUME NEW a \in DOMAIN disk, disk[a].intact
        PROVE  /\ disk[a].generation < graph_generation_counter'
               /\ disk[a].cache_generation <= cache_generation'
    <3>1. a \in DOMAIN by_artifact /\ FromFile(a)
      BY <2>1, <2>4, Zenon DEF Unready, Reading, Pending
    <3>2. by_artifact[a] \in DOMAIN entry'
      BY <1>3, <2>1, <3>1, Zenon
    <3> QED BY <2>1, <2>3, <3>1, <3>2, Zenon DEF FromFile, EntriesBehind
  <2>5. FilesBehind'
    BY <2>1, <2>4, Zenon DEF FilesBehind
  <2> QED BY <2>1, <2>2, <2>3, <2>5, Zenon DEF RecoverInv, Ready, RecoverPCs
<1> QED BY <1>1, <1>4, <1>6, <1>7, <1>8, <1>9, <1>10, <1>11

\* A crash empties the registry, and recover has not run.
LEMMA CrashRecoverInv == ASSUME Crash PROVE RecoverInv'
<1>1. /\ \A t \in Threads : th'[t].pc = "idle" /\ io'[t].pc = "none"
      /\ DOMAIN entry' = {} /\ DOMAIN lease' = {} /\ DOMAIN by_artifact' = {} /\ ready' = FALSE
  BY DEF Crash, Idle, NoIo
<1>2. RecoverOnly' /\ \A t \in Threads : Reading(t)' /\ Listed(t)' /\ Beyond(t)'
  BY <1>1, Zenon DEF RecoverOnly, Reading, Listed, Beyond
<1> QED BY <1>1, <1>2, Zenon DEF RecoverInv, Unready

\* Every step preserves what recover establishes.
LEMMA RecoverInvStep ==
  ASSUME RecoverFirst, EngineInv, StoreInv, RecoverInv, [DNext]_dvars PROVE RecoverInv'
<1>0. TypeOK
  BY Zenon DEF EngineInv
<1>1. CASE UNCHANGED dvars
  <2>1. UNCHANGED <<entry, lease, by_artifact, graph_generation_counter, cache_generation, th, disk, io, ready>>
    BY <1>1, Zenon DEF dvars, vars, durable, registry, generations
  <2>2. UNCHANGED <<RecoverOnly, Unread, Indexed, EntriesBehind, FilesBehind>>
    BY <2>1, Zenon DEF RecoverOnly, Unread, Indexed, EntriesBehind, FilesBehind
  <2>3. \A t \in Threads : UNCHANGED <<Reading(t), Listed(t), Beyond(t)>>
    BY <2>1 DEF Reading, Listed, Beyond, Pending
  <2>4. \A a \in DOMAIN by_artifact : FromFile(a)' = FromFile(a)
    BY <2>1, Zenon DEF FromFile
  <2>5. Unready => Unready'
    BY <2>1, <2>2, <2>3, <2>4, Zenon DEF Unready
  <2>6. Ready => Ready'
    BY <2>1, <2>2, Zenon DEF Ready
  <2> QED BY <2>1, <2>5, <2>6, Zenon DEF RecoverInv
<1>2. CASE EngineStep
  <2>1. ready
    BY <1>2, NothingRuns, Zenon DEF RecoverInv, Unready
  <2>2. Next /\ UNCHANGED durable
    BY <1>2, Zenon DEF EngineStep, Next
  <2>3. UNCHANGED ready
    BY <2>2, Zenon DEF durable
  <2>4. Ready'
    BY <1>0, <2>1, <2>2, ReadyEngineInv, Zenon DEF RecoverInv
  <2> QED BY <2>1, <2>3, <2>4, Zenon DEF RecoverInv
<1>3. ASSUME NEW t \in Threads, StoreStep(t) \/ Recover(t) PROVE RecoverInv'
  <2>1. CASE ready
    BY <1>0, <1>3, <2>1, ReadyStoreInv, Zenon DEF RecoverInv
  <2>2. CASE ~ready
    <3>1. Unready
      BY <2>2, Zenon DEF RecoverInv
    <3> QED BY <1>3, <2>2, <3>1, UnreadyStoreInv, Zenon
  <2> QED BY <2>1, <2>2, Zenon
<1>4. ASSUME NEW t \in Threads, (~RecoverFirst \/ ready) /\ PersistAll(t) PROVE RecoverInv'
  BY <1>0, <1>4, ReadyStoreInv, Zenon DEF RecoverInv
<1> QED BY <1>1, <1>2, <1>3, <1>4, CrashRecoverInv, Zenon DEF DNext

\* What recover establishes holds in every reachable state.
LEMMA RecoverInvAlways ==
  ASSUME RecoverFirst PROVE DSpec => []RecoverInv
<1>1. DInit => RecoverInv
  <2> SUFFICES ASSUME DInit PROVE RecoverInv
    BY Zenon
  <2>1. /\ \A t \in Threads : th[t].pc = "idle" /\ io[t].pc = "none"
        /\ DOMAIN entry = {} /\ DOMAIN lease = {} /\ DOMAIN disk = {} /\ DOMAIN by_artifact = {}
    BY DEF DInit, Init, Idle, NoIo
  <2>2. RecoverOnly /\ \A t \in Threads : Reading(t) /\ Listed(t) /\ Beyond(t)
    BY <2>1, Zenon DEF RecoverOnly, Reading, Listed, Beyond
  <2>3. Ready
    BY <2>1, Zenon DEF Ready, EntriesBehind, FilesBehind, RecoverPCs
  <2> QED BY <2>1, <2>2, <2>3, Zenon DEF RecoverInv, Unready
<1>2. EngineInv /\ StoreInv /\ RecoverInv /\ [DNext]_dvars => RecoverInv'
  BY RecoverInvStep, Zenon
<1> QED BY <1>1, <1>2, DurableInvAlways, PTL DEF DSpec

\* "Ensure generation counters are monotonic past recovered authority": where recover is
\* called first on a new engine, from its return on no file, whatever captures, saves,
\* invalidations and restarts came between, holds a generation that the engine could
\* hand out again.
THEOREM CountersPastRecoveredAlways ==
  ASSUME RecoverFirst PROVE DSpec => []CountersPastRecovered
<1>1. RecoverInv => CountersPastRecovered
  BY Zenon DEF RecoverInv, Ready, FilesBehind, CountersPastRecovered
<1> QED BY <1>1, RecoverInvAlways, PTL
==============================================================================
