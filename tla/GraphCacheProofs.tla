-------------------------- MODULE GraphCacheProofs ---------------------------
(***************************************************************************)
(* Proofs about the engine for any numbers of threads, requests, entries   *)
(* and leases.  TypeOK first; then the single-flight protocol, from the    *)
(* correspondence between inflight and the threads that own an attempt;    *)
(* then the generations, from the single-flight protocol.                  *)
(***************************************************************************)
EXTENDS GraphCache, TLAPS

\* The parts of TypeOK that change together.
EntryType == DOMAIN entry \subseteq EntryIds /\ entry \in [DOMAIN entry -> Entry]
LeaseType ==
  /\ DOMAIN lease \subseteq LeaseIds /\ lease \in [DOMAIN lease -> Lease]
  /\ \A l \in DOMAIN lease : lease[l].entry \in DOMAIN entry
RegistryType ==
  /\ DOMAIN by_artifact \subseteq Artifacts /\ by_artifact \in [DOMAIN by_artifact -> DOMAIN entry]
  /\ DOMAIN by_workload \subseteq Workloads
  /\ by_workload \in [DOMAIN by_workload -> Seq(DOMAIN entry)]
  /\ DOMAIN key_current_gen \subseteq Keys /\ key_current_gen \in [DOMAIN key_current_gen -> Nat]
FlightType == DOMAIN inflight \subseteq Keys /\ inflight \in [DOMAIN inflight -> Threads]
CounterType ==
  /\ cache_generation \in Nat /\ graph_generation_counter \in Nat
  /\ active_leases \in Nat /\ active_replays \in Nat /\ captures \in Nat

\* A thread's locals, with the entries that exist.
ThreadOK(r, E) ==
  /\ r \in Thread
  /\ r.pc \in LookupPCs => r.req \in Requests
  /\ r.pc \in EntryPCs => r.ent \in E
  /\ r.targets \subseteq E
ThreadType == th \in [Threads -> Thread] /\ \A t \in Threads : ThreadOK(th[t], DOMAIN entry)

Parts == EntryType /\ LeaseType /\ RegistryType /\ FlightType /\ CounterType /\ ThreadType

\* TypeOK is the conjunction of its parts, in a state and in the next one.
LEMMA TypeParts == (TypeOK <=> Parts) /\ (TypeOK' <=> Parts')
  BY DEF TypeOK, Parts, EntryType, LeaseType, RegistryType, FlightType, CounterType, ThreadType, ThreadOK

\* The engine starts well-typed: every map is empty and every thread idle.
LEMMA InitType == Init => TypeOK
<1> SUFFICES ASSUME Init PROVE Parts
  BY TypeParts
<1>1. EntryType /\ LeaseType /\ FlightType /\ CounterType
  BY DEF Init, EntryType, LeaseType, FlightType, CounterType
<1>2. RegistryType
  BY DEF Init, RegistryType
<1>3. Idle \in Thread /\ ThreadOK(Idle, {})
  BY DEF Idle, Thread, ThreadOK, PCs, LookupPCs, EntryPCs
<1>4. ThreadType
  BY <1>3 DEF Init, ThreadType, ThreadOK
<1> QED BY <1>1, <1>2, <1>4 DEF Parts

\* A step that changes the locals of one thread, entries being only added.
LEMMA ThreadStep ==
  ASSUME ThreadType, NEW t \in Threads, NEW r, ThreadOK(r, DOMAIN entry'),
         th' = [th EXCEPT ![t] = r], DOMAIN entry \subseteq DOMAIN entry'
  PROVE  ThreadType'
  BY DEF ThreadType, ThreadOK

\* A step that returns from a call.
LEMMA ReturnType ==
  ASSUME ThreadType, NEW t \in Threads, Return(t), DOMAIN entry \subseteq DOMAIN entry'
  PROVE  ThreadType'
<1>1. ThreadOK(Idle, DOMAIN entry')
  BY DEF Idle, Thread, ThreadOK, PCs, LookupPCs, EntryPCs
<1> QED BY <1>1, ThreadStep DEF Return

\* A change of a field of an entry that keeps the entries' type.
LEMMA EntryStep ==
  ASSUME Parts, NEW e \in DOMAIN entry, NEW r \in Entry, entry' = [entry EXCEPT ![e] = r]
  PROVE  EntryType' /\ DOMAIN entry' = DOMAIN entry
  BY DEF Parts, EntryType

\* What a new entry adds to: everything that held an address still holds one.
LEMMA FrameType ==
  ASSUME Parts, DOMAIN entry \subseteq DOMAIN entry'
  PROVE  /\ UNCHANGED lease => LeaseType'
         /\ UNCHANGED registry => RegistryType'
         /\ UNCHANGED inflight => FlightType'
         /\ UNCHANGED th => ThreadType'
         /\ UNCHANGED <<generations, active_leases, active_replays, captures>> => CounterType'
<1>1. UNCHANGED lease => LeaseType'
  BY DEF Parts, LeaseType
<1>2. UNCHANGED registry => RegistryType'
  <2>1. Seq(DOMAIN entry) \subseteq Seq(DOMAIN entry')
    OBVIOUS
  <2> QED BY <2>1 DEF Parts, RegistryType, registry
<1>3. UNCHANGED inflight => FlightType'
  BY DEF Parts, FlightType
<1>4. UNCHANGED th => ThreadType'
  BY DEF Parts, ThreadType, ThreadOK
<1>5. UNCHANGED <<generations, active_leases, active_replays, captures>> => CounterType'
  BY DEF Parts, CounterType, generations
<1> QED BY <1>1, <1>2, <1>3, <1>4, <1>5

\* The elements of a sequence over S.
LEMMA ElementType == ASSUME NEW S, NEW q \in Seq(S) PROVE \A i \in DOMAIN q : q[i] \in S
  OBVIOUS

\* The candidates of a search are entries.
LEMMA BucketType ==
  ASSUME Parts, NEW r \in Requests
  PROVE  /\ Bucket(r) \in Seq(DOMAIN entry)
         /\ \A i \in Compatible(r) : Bucket(r)[i] \in DOMAIN entry
<1>1. Bucket(r) \in Seq(DOMAIN entry)
  <2>1. CASE WorkloadOf[r] \in DOMAIN by_workload
    BY <2>1 DEF Parts, RegistryType, Bucket
  <2>2. CASE WorkloadOf[r] \notin DOMAIN by_workload
    BY <2>2 DEF Bucket
  <2> QED BY <2>1, <2>2
<1>2. ASSUME NEW i \in Compatible(r) PROVE Bucket(r)[i] \in DOMAIN entry
  <2>1. i \in DOMAIN Bucket(r)
    BY DEF Compatible, Fresh, Scanned
  <2> QED BY <1>1, <2>1, ElementType
<1> QED BY <1>1, <1>2

\* lookup: choosing a candidate, or setting out to capture.
LEMMA LookupType ==
  ASSUME Parts, NEW t \in Threads, NEW r \in Requests, Lookup(t, r) PROVE Parts'
<1>0. UNCHANGED <<entry, lease, registry, generations, inflight, active_leases, active_replays, captures>>
  BY DEF Lookup
<1>1. ThreadType'
  <2>1. ASSUME NEW i \in Compatible(r),
               th' = [th EXCEPT ![t] = [Idle EXCEPT !.pc = "materialize", !.req = r, !.ent = Bucket(r)[i]]]
        PROVE  ThreadType'
    <3>1. Bucket(r)[i] \in DOMAIN entry /\ DOMAIN entry \subseteq EntryIds
      BY BucketType DEF Parts, EntryType
    <3>2. ThreadOK([Idle EXCEPT !.pc = "materialize", !.req = r, !.ent = Bucket(r)[i]], DOMAIN entry')
      BY <1>0, <3>1 DEF Idle, Thread, ThreadOK, PCs, LookupPCs, EntryPCs
    <3> QED BY <1>0, <2>1, <3>2, ThreadStep DEF Parts
  <2>2. CASE th' = [th EXCEPT ![t] = [Idle EXCEPT !.pc = "join", !.req = r]]
    <3>1. ThreadOK([Idle EXCEPT !.pc = "join", !.req = r], DOMAIN entry')
      BY DEF Idle, Thread, ThreadOK, PCs, LookupPCs, EntryPCs
    <3> QED BY <1>0, <2>2, <3>1, ThreadStep DEF Parts
  <2> QED BY <2>1, <2>2 DEF Lookup, Call
<1> QED BY <1>0, <1>1, FrameType DEF Parts, EntryType

\* The second search of a lookup.
LEMMA SearchAgainType ==
  ASSUME Parts, NEW t \in Threads, SearchAgain(t) PROVE Parts'
<1>0. UNCHANGED <<entry, lease, registry, generations, inflight, active_leases, active_replays, captures>>
  BY DEF SearchAgain
<1>1. th[t] \in Thread /\ th[t].req \in Requests /\ ThreadOK(th[t], DOMAIN entry)
  BY DEF SearchAgain, At, Parts, ThreadType, ThreadOK, LookupPCs
<1>2. ThreadType'
  <2>1. CASE Return(t)
    BY <1>0, <2>1, ReturnType DEF Parts
  <2>2. ASSUME NEW i \in Compatible(th[t].req),
               th' = [th EXCEPT ![t].pc = "materialize", ![t].again = TRUE,
                                ![t].ent = Bucket(th[t].req)[i]]
        PROVE  ThreadType'
    <3> DEFINE x == [th[t] EXCEPT !.pc = "materialize", !.again = TRUE, !.ent = Bucket(th[t].req)[i]]
    <3>1. th' = [th EXCEPT ![t] = x]
      BY <2>2 DEF Parts, ThreadType, Thread
    <3>2. ThreadOK(x, DOMAIN entry')
      BY <1>0, <1>1, BucketType DEF Thread, ThreadOK, PCs, LookupPCs, EntryPCs, Parts, EntryType
    <3> QED BY <1>0, <3>1, <3>2, ThreadStep DEF Parts
  <2> QED BY <2>1, <2>2 DEF SearchAgain
<1> QED BY <1>0, <1>2, FrameType DEF Parts, EntryType

\* A thread that moves on with the locals it has.
LEMMA GotoType ==
  ASSUME ThreadType, NEW t \in Threads, NEW label \in PCs, Goto(t, label),
         label \in LookupPCs => th[t].req \in Requests,
         label \in EntryPCs => th[t].ent \in DOMAIN entry',
         DOMAIN entry \subseteq DOMAIN entry'
  PROVE  ThreadType'
<1>1. ThreadOK([th[t] EXCEPT !.pc = label], DOMAIN entry')
  BY DEF ThreadType, ThreadOK, Thread
<1>2. th' = [th EXCEPT ![t] = [th[t] EXCEPT !.pc = label]]
  BY DEF Goto
<1> QED BY <1>1, <1>2, ThreadStep

\* fetch_sub on an unsigned counter yields an unsigned value, by wrapping around.
LEMMA DecType == ASSUME NEW n \in Nat PROVE Dec(n) \in Nat
  BY ConstantsAssumption DEF Dec

\* materialize_exec gives the chosen entry an executable, or sends the lookup on.
LEMMA MaterializeType == ASSUME Parts, NEW t \in Threads, Materialize(t) PROVE Parts'
<1> DEFINE e == th[t].ent
<1>0. UNCHANGED <<lease, registry, generations, inflight, active_leases, active_replays, captures>>
  BY DEF Materialize
<1>1. ThreadOK(th[t], DOMAIN entry) /\ e \in DOMAIN entry /\ th[t].req \in Requests
  BY DEF Materialize, At, Parts, ThreadType, ThreadOK, LookupPCs, EntryPCs
<1>2. EntryType' /\ DOMAIN entry' = DOMAIN entry
  <2>1. [entry[e] EXCEPT !.exec = TRUE, !.residency = "HostResident"] \in Entry
    <3>1. entry[e] \in Entry
      BY <1>1 DEF Parts, EntryType
    <3> HIDE DEF e
    <3> QED BY ONLY <3>1 DEF Entry, ResidencyTier
  <2>2. \/ entry' = entry
        \/ entry' = [entry EXCEPT ![e] = [entry[e] EXCEPT !.exec = TRUE, !.residency = "HostResident"]]
    BY <1>1 DEF Materialize, Materialized, Parts, EntryType, Entry
  <2> QED BY <1>1, <2>1, <2>2, EntryStep DEF Parts, EntryType
<1>3. ThreadType'
  <2>1. CASE Goto(t, "recheck")
    BY <1>1, <1>2, <2>1, GotoType DEF Parts, PCs
  <2>2. CASE Return(t)
    BY <1>2, <2>2, ReturnType DEF Parts
  <2>3. CASE th' = [th EXCEPT ![t].pc = "join", ![t].ent = NoEntry]
    <3>1. ThreadOK([th[t] EXCEPT !.pc = "join", !.ent = NoEntry], DOMAIN entry')
      BY <1>1, <1>2 DEF ThreadOK, Thread, PCs, LookupPCs, EntryPCs
    <3>2. th' = [th EXCEPT ![t] = [th[t] EXCEPT !.pc = "join", !.ent = NoEntry]]
      BY <2>3 DEF Parts, ThreadType, Thread
    <3> QED BY <1>2, <3>1, <3>2, ThreadStep DEF Parts
  <2> QED BY <2>1, <2>2, <2>3 DEF Materialize
<1> QED BY <1>0, <1>2, <1>3, FrameType DEF Parts

\* The second check of the chosen entry.
LEMMA RecheckType == ASSUME Parts, NEW t \in Threads, Recheck(t) PROVE Parts'
<1>0. UNCHANGED <<entry, lease, registry, generations, inflight, active_leases, active_replays, captures>>
  BY DEF Recheck
<1>1. th[t].ent \in DOMAIN entry /\ th[t].req \in Requests
  BY DEF Recheck, At, Parts, ThreadType, ThreadOK, LookupPCs, EntryPCs
<1>2. ThreadType'
  <2>1. CASE Goto(t, "lease")
    BY <1>0, <1>1, <2>1, GotoType DEF Parts, PCs
  <2>2. CASE Return(t)
    BY <1>0, <2>2, ReturnType DEF Parts
  <2> QED BY <2>1, <2>2 DEF Recheck
<1> QED BY <1>0, <1>2, FrameType DEF Parts, EntryType

\* make_lease counts a new lease twice, in its entry and in the engine.
LEMMA MakeLeaseType == ASSUME Parts, NEW t \in Threads, MakeLease(t) PROVE Parts'
<1> DEFINE e == th[t].ent
<1>0. UNCHANGED <<registry, generations, inflight, active_replays, captures>> /\ Return(t)
  BY DEF MakeLease
<1>1. e \in DOMAIN entry
  BY DEF MakeLease, At, Parts, ThreadType, ThreadOK, EntryPCs
<1>2. EntryType' /\ DOMAIN entry' = DOMAIN entry
  <2>1. [entry[e] EXCEPT !.lease_count = @ + 1] \in Entry
    BY <1>1 DEF Parts, EntryType, Entry
  <2>2. entry' = [entry EXCEPT ![e] = [entry[e] EXCEPT !.lease_count = @ + 1]]
    BY DEF MakeLease
  <2> QED BY <1>1, <2>1, <2>2, EntryStep
<1>3. LeaseType'
  <2>1. PICK l \in LeaseIds :
          lease' = Put(lease, l, [entry |-> e, generation |-> entry[e].generation,
                                  exec |-> entry[e].exec, phase |-> "held"])
    BY DEF MakeLease
  <2>2. [entry |-> e, generation |-> entry[e].generation, exec |-> entry[e].exec, phase |-> "held"]
          \in Lease
    BY <1>1 DEF Parts, EntryType, Entry, Lease, LeasePhase
  <2> QED BY <1>1, <1>2, <2>1, <2>2 DEF Parts, LeaseType, Put
<1>4. CounterType'
  BY <1>0 DEF MakeLease, Parts, CounterType, generations
<1>5. ThreadType'
  BY <1>0, <1>2, ReturnType DEF Parts
<1> QED BY <1>0, <1>2, <1>3, <1>4, <1>5, FrameType DEF Parts

\* run_single_flight's critical section: owner or waiter.
LEMMA JoinType == ASSUME Parts, NEW t \in Threads, Join(t) PROVE Parts'
<1> DEFINE k == KeyOf[th[t].req]
<1>0. UNCHANGED <<entry, lease, registry, generations, active_leases, active_replays, captures>>
  BY DEF Join
<1>1. ThreadOK(th[t], DOMAIN entry) /\ th[t] \in Thread /\ th[t].req \in Requests /\ k \in Keys
  BY DEF Join, At, Parts, ThreadType, ThreadOK, LookupPCs, Keys
<1>2. CASE /\ th' = [th EXCEPT ![t].pc = "wait",
                               ![t].res = IF At(inflight[k], "erase") THEN th[inflight[k]].res ELSE "none"]
           /\ k \in DOMAIN inflight /\ UNCHANGED inflight
  <2> DEFINE v == IF At(inflight[k], "erase") THEN th[inflight[k]].res ELSE "none"
  <2>1. v \in {"none", "ok", "failed"}
    BY <1>2 DEF Parts, ThreadType, Thread, FlightType
  <2>2. th' = [th EXCEPT ![t] = [th[t] EXCEPT !.pc = "wait", !.res = v]]
    BY <1>2 DEF Parts, ThreadType, Thread
  <2> HIDE DEF v
  <2>3. ThreadOK([th[t] EXCEPT !.pc = "wait", !.res = v], DOMAIN entry')
    BY <1>0, <1>1, <2>1 DEF ThreadOK, Thread, PCs, LookupPCs, EntryPCs
  <2> QED BY <1>0, <1>2, <2>2, <2>3, ThreadStep, FrameType DEF Parts, EntryType
<1>3. CASE /\ inflight' = Put(inflight, k, t)
           /\ th' = [th EXCEPT ![t].pc = "capture", ![t].gen = cache_generation]
  <2>1. FlightType'
    BY <1>1, <1>3 DEF Parts, FlightType, Put
  <2>2. th' = [th EXCEPT ![t] = [th[t] EXCEPT !.pc = "capture", !.gen = cache_generation]]
    BY <1>3 DEF Parts, ThreadType, Thread
  <2>3. ThreadOK([th[t] EXCEPT !.pc = "capture", !.gen = cache_generation], DOMAIN entry')
    BY <1>0, <1>1 DEF ThreadOK, Thread, PCs, LookupPCs, EntryPCs, Parts, CounterType
  <2> QED BY <1>0, <2>1, <2>2, <2>3, ThreadStep, FrameType DEF Parts, EntryType
<1> QED BY <1>2, <1>3 DEF Join

\* A capture that fails, or whose completion is stale, has a result and no entry.
LEMMA CaptureFailType ==
  ASSUME Parts, NEW t \in Threads, At(t, "capture"), UNCHANGED entry,
         th' = [th EXCEPT ![t].pc = "complete", ![t].res = "failed"]
  PROVE  ThreadType'
<1>1. ThreadOK(th[t], DOMAIN entry) /\ th[t].req \in Requests
  BY DEF At, Parts, ThreadType, ThreadOK, LookupPCs
<1>2. ThreadOK([th[t] EXCEPT !.pc = "complete", !.res = "failed"], DOMAIN entry')
  BY <1>1 DEF ThreadOK, Thread, PCs, LookupPCs, EntryPCs
<1>3. th' = [th EXCEPT ![t] = [th[t] EXCEPT !.pc = "complete", !.res = "failed"]]
  BY DEF Parts, ThreadType, Thread
<1> QED BY <1>2, <1>3, ThreadStep DEF Parts

\* capture_graph up to its stale check.
LEMMA CaptureBuildType == ASSUME Parts, NEW t \in Threads, CaptureBuild(t) PROVE Parts'
<1>0. UNCHANGED <<lease, registry, cache_generation, inflight, active_leases, active_replays, captures>>
  BY DEF CaptureBuild
<1>1. CounterType'
  BY <1>0 DEF CaptureBuild, Parts, CounterType
<1>2. CASE UNCHANGED entry /\ th' = [th EXCEPT ![t].pc = "complete", ![t].res = "failed"]
  <2>1. ThreadType'
    BY <1>2, CaptureFailType DEF CaptureBuild
  <2> QED BY <1>0, <1>1, <1>2, <2>1, FrameType DEF Parts, EntryType
<1>3. ASSUME NEW e \in EntryIds, entry' = Put(entry, e, NewEntry(th[t].req)),
             th' = [th EXCEPT ![t].pc = "publish", ![t].ent = e]
      PROVE  Parts'
  <2>1. ThreadOK(th[t], DOMAIN entry) /\ th[t].req \in Requests
    BY DEF CaptureBuild, At, Parts, ThreadType, ThreadOK, LookupPCs
  <2>2. NewEntry(th[t].req) \in Entry
    BY <2>1 DEF NewEntry, EntryFor, Entry, Parts, CounterType, GraphLifecycle, Allowed, ResidencyTier
  <2>3. EntryType' /\ DOMAIN entry' = DOMAIN entry \cup {e}
    BY <1>3, <2>2 DEF Parts, EntryType, Put
  <2>4. th' = [th EXCEPT ![t] = [th[t] EXCEPT !.pc = "publish", !.ent = e]]
    BY <1>3 DEF Parts, ThreadType, Thread
  <2>5. ThreadOK([th[t] EXCEPT !.pc = "publish", !.ent = e], DOMAIN entry')
    BY <2>1, <2>3 DEF ThreadOK, Thread, PCs, LookupPCs, EntryPCs
  <2>6. ThreadType'
    BY <2>3, <2>4, <2>5, ThreadStep DEF Parts
  <2> QED BY <1>0, <1>1, <2>3, <2>6, FrameType DEF Parts
<1> QED BY <1>2, <1>3 DEF CaptureBuild

\* The registry update of capture_graph.
LEMMA PublishType == ASSUME Parts, NEW t \in Threads, Publish(t) PROVE Parts'
<1> DEFINE e == th[t].ent
           r == th[t].req
           label == IF HasStore THEN "persist" ELSE "complete"
<1>0. UNCHANGED <<entry, lease, generations, inflight, active_leases, active_replays, captures>>
  BY DEF Publish
<1>1. ThreadOK(th[t], DOMAIN entry) /\ e \in DOMAIN entry /\ r \in Requests
  BY DEF Publish, At, Parts, ThreadType, ThreadOK, LookupPCs, EntryPCs
<1>2. DOMAIN by_artifact' \subseteq Artifacts /\ by_artifact' \in [DOMAIN by_artifact' -> DOMAIN entry]
  BY <1>1 DEF Publish, Index, Put, Parts, RegistryType, Artifacts
<1>3. DOMAIN by_workload' \subseteq Workloads /\ by_workload' \in [DOMAIN by_workload' -> Seq(DOMAIN entry)]
  <2>1. Append(Bucket(r), e) \in Seq(DOMAIN entry)
    BY <1>1, BucketType
  <2>2. by_workload' = Put(by_workload, WorkloadOf[r], Append(Bucket(r), e))
    BY DEF Publish
  <2> QED BY <1>1, <2>1, <2>2 DEF Put, Parts, RegistryType, Workloads
<1>4. DOMAIN key_current_gen' \subseteq Keys /\ key_current_gen' \in [DOMAIN key_current_gen' -> Nat]
  <2>1. entry[e].generation \in Nat
    BY <1>1 DEF Parts, EntryType, Entry
  <2> QED BY <1>1, <2>1 DEF Publish, KeyGeneration, Put, Parts, RegistryType, Keys
<1>5. RegistryType'
  BY <1>0, <1>2, <1>3, <1>4 DEF RegistryType
<1>6. ThreadType'
  <2>1. th' = [th EXCEPT ![t] = [th[t] EXCEPT !.pc = label, !.res = "ok"]]
    BY DEF Publish, Parts, ThreadType, Thread
  <2>2. label \in {"persist", "complete"}
    OBVIOUS
  <2> HIDE DEF label
  <2>3. ThreadOK([th[t] EXCEPT !.pc = label, !.res = "ok"], DOMAIN entry')
    BY <1>0, <1>1, <2>2 DEF ThreadOK, Thread, PCs, LookupPCs, EntryPCs
  <2> QED BY <1>0, <2>1, <2>3, ThreadStep DEF Parts
<1> QED BY <1>0, <1>5, <1>6, FrameType DEF Parts, EntryType

\* The owner's result reaches the waiters.
LEMMA CompleteType == ASSUME Parts, NEW t \in Threads, Complete(t) PROVE Parts'
<1>0. UNCHANGED <<entry, lease, registry, generations, inflight, active_leases, active_replays>>
  BY DEF Complete
<1>1. CounterType'
  BY <1>0 DEF Complete, Parts, CounterType, generations
<1>2. \A u \in Threads : ThreadOK(th[u], DOMAIN entry) /\ th[u] \in Thread
  BY DEF Parts, ThreadType
<1>3. ThreadOK([th[t] EXCEPT !.pc = "erase", !.ent = NoEntry], DOMAIN entry)
  <2>1. th[t] \in Thread /\ th[t].req \in Requests /\ th[t].targets \subseteq DOMAIN entry
    BY <1>2 DEF Complete, At, ThreadOK, LookupPCs
  <2> QED BY ONLY <2>1 DEF ThreadOK, Thread, PCs, LookupPCs, EntryPCs
<1>4. \A u \in Threads : ThreadOK([th[u] EXCEPT !.res = th[t].res], DOMAIN entry)
  BY <1>2 DEF ThreadOK, Thread
<1>5. ThreadType'
  BY <1>0, <1>2, <1>3, <1>4 DEF Complete, ThreadType, ThreadOK
<1> QED BY <1>0, <1>1, <1>5, FrameType DEF Parts, EntryType

\* An attempt's result sends a lookup back to search or makes it return.
LEMMA AfterFlightType ==
  ASSUME Parts, NEW t \in Threads, At(t, "erase") \/ At(t, "wait"), AfterFlight(t), UNCHANGED entry
  PROVE  ThreadType'
<1>1. th[t].req \in Requests
  BY DEF At, Parts, ThreadType, ThreadOK, LookupPCs
<1>2. CASE Goto(t, "again")
  BY <1>1, <1>2, GotoType DEF Parts, PCs, EntryPCs
<1>3. CASE Return(t)
  BY <1>3, ReturnType DEF Parts
<1> QED BY <1>2, <1>3 DEF AfterFlight

\* Leaving the in-flight map and waking from the wait of run_single_flight change only
\* the attempts and the thread.
LEMMA EraseWakeType == ASSUME Parts, NEW t \in Threads, Erase(t) \/ Wake(t) PROVE Parts'
<1>0. UNCHANGED <<entry, lease, registry, generations, active_leases, active_replays, captures>>
  BY DEF Erase, Wake
<1>1. ThreadType'
  BY <1>0, AfterFlightType DEF Erase, Wake
<1>2. FlightType'
  BY DEF Erase, Wake, Drop, Parts, FlightType
<1> QED BY <1>0, <1>1, <1>2, FrameType DEF Parts, EntryType

\* The steps of a release, on a lease and two counters.
LEMMA ReleaseType ==
  ASSUME Parts, NEW l \in DOMAIN lease, Release(l) \/ ReleaseStep(l) PROVE Parts'
<1> USE DEF ReleaseStep
<1>0. UNCHANGED leaseFrame
  BY DEF Release, ReleaseEntryLoad, ReleaseEntrySub, ReleaseGlobalLoad, ReleaseGlobalSub
<1>1. lease[l] \in Lease /\ lease[l].entry \in DOMAIN entry
  BY DEF Parts, LeaseType
<1>2. EntryType' /\ DOMAIN entry' = DOMAIN entry
  <2> DEFINE e == lease[l].entry
  <2>1. CASE UNCHANGED entry
    BY <2>1 DEF Parts, EntryType
  <2>2. CASE entry' = [entry EXCEPT ![e].lease_count = Dec(@)]
    <3>1. [entry[e] EXCEPT !.lease_count = Dec(@)] \in Entry
      BY <1>1, DecType DEF Parts, EntryType, Entry
    <3>2. entry' = [entry EXCEPT ![e] = [entry[e] EXCEPT !.lease_count = Dec(@)]]
      BY <2>2
    <3> QED BY <1>1, <3>1, <3>2, EntryStep
  <2> QED BY <2>1, <2>2 DEF Release, ReleaseEntryLoad, ReleaseEntrySub, ReleaseGlobalLoad,
                            ReleaseGlobalSub
<1>3. LeaseType'
  <2>1. ASSUME NEW phase \in LeasePhase, Advance(l, phase) PROVE LeaseType'
    BY <1>2, <2>1 DEF Advance, Parts, LeaseType, Lease
  <2>2. CASE lease' = Drop(lease, l)
    BY <1>2, <2>2 DEF Drop, Parts, LeaseType
  <2> QED BY <2>1, <2>2 DEF Release, ReleaseEntryLoad, ReleaseEntrySub, ReleaseGlobalLoad,
                            ReleaseGlobalSub, LeasePhase
<1>4. CounterType'
  <2>1. active_leases' \in Nat
    BY DecType DEF Release, ReleaseEntryLoad, ReleaseEntrySub, ReleaseGlobalLoad, ReleaseGlobalSub,
                   Parts, CounterType
  <2> QED BY <1>0, <2>1 DEF leaseFrame, generations, Parts, CounterType
<1> QED BY <1>0, <1>2, <1>3, <1>4, FrameType DEF Parts, leaseFrame

\* The locals with which the calls that hold an entry begin.
LEMMA CallType ==
  ASSUME Parts, NEW t \in Threads, NEW e \in DOMAIN entry, NEW label \in {"replay", "unpin", "evict"},
         Call(t, [Idle EXCEPT !.pc = label, !.ent = e]), DOMAIN entry' = DOMAIN entry
  PROVE  ThreadType'
<1>1. ThreadOK([Idle EXCEPT !.pc = label, !.ent = e], DOMAIN entry')
  BY DEF Parts, EntryType, Idle, Thread, ThreadOK, PCs, LookupPCs, EntryPCs
<1> QED BY <1>1, ThreadStep DEF Call, Parts

\* The start of replay counts the replay on the entry and in the engine.
LEMMA ReplayType ==
  ASSUME Parts, NEW t \in Threads, NEW l \in DOMAIN lease, Replay(t, l) PROVE Parts'
<1> DEFINE e == lease[l].entry
<1>0. UNCHANGED <<lease, registry, generations, inflight, active_leases, captures>>
  BY DEF Replay
<1>1. e \in DOMAIN entry
  BY DEF Parts, LeaseType
<1>2. EntryType' /\ DOMAIN entry' = DOMAIN entry
  <2>1. [entry[e] EXCEPT !.active_replays = @ + 1] \in Entry
    BY <1>1 DEF Parts, EntryType, Entry
  <2>2. entry' = [entry EXCEPT ![e] = [entry[e] EXCEPT !.active_replays = @ + 1]]
    BY DEF Replay
  <2> QED BY <1>1, <2>1, <2>2, EntryStep
<1>3. ThreadType'
  BY <1>1, <1>2, CallType DEF Replay
<1>4. CounterType'
  BY <1>0 DEF Replay, Parts, CounterType, generations
<1> QED BY <1>0, <1>2, <1>3, <1>4, FrameType DEF Parts

\* The end of replay takes both counts back.
LEMMA ReplayEndType == ASSUME Parts, NEW t \in Threads, ReplayEnd(t) PROVE Parts'
<1> DEFINE e == th[t].ent
<1>0. UNCHANGED <<lease, registry, generations, inflight, active_leases, captures>> /\ Return(t)
  BY DEF ReplayEnd
<1>1. e \in DOMAIN entry
  BY DEF ReplayEnd, At, Parts, ThreadType, ThreadOK, EntryPCs
<1>2. EntryType' /\ DOMAIN entry' = DOMAIN entry
  <2>1. [entry[e] EXCEPT !.active_replays = Dec(@)] \in Entry
    BY <1>1, DecType DEF Parts, EntryType, Entry
  <2>2. entry' = [entry EXCEPT ![e] = [entry[e] EXCEPT !.active_replays = Dec(@)]]
    BY DEF ReplayEnd
  <2> QED BY <1>1, <2>1, <2>2, EntryStep
<1>3. CounterType'
  BY <1>0, DecType DEF ReplayEnd, Parts, CounterType, generations
<1>4. ThreadType'
  BY <1>0, <1>2, ReturnType DEF Parts
<1> QED BY <1>0, <1>2, <1>3, <1>4, FrameType DEF Parts

\* invalidate: the new generation, the targets, the marking.
LEMMA InvalidateType ==
  ASSUME Parts, NEW t \in Threads, NEW scope \in Scopes, NEW strong \in BOOLEAN,
         Invalidate(t, scope, strong)
  PROVE  Parts'
<1>0. UNCHANGED <<entry, lease, registry, graph_generation_counter, inflight, active_leases,
                  active_replays, captures>>
  BY DEF Invalidate
<1>1. CounterType'
  BY <1>0 DEF Invalidate, Parts, CounterType
<1>2. ThreadOK([Idle EXCEPT !.pc = "collect", !.scope = scope, !.strong = strong,
                            !.gen = cache_generation + 1], DOMAIN entry')
  <2>1. scope \in SUBSET Requests /\ strong \in BOOLEAN /\ cache_generation + 1 \in Nat
    BY ConstantsAssumption DEF Parts, CounterType
  <2>2. Idle \in Thread
    BY DEF Idle, Thread, PCs
  <2> QED BY <2>1, <2>2 DEF Idle, Thread, ThreadOK, PCs, LookupPCs, EntryPCs
<1>3. ThreadType'
  BY <1>0, <1>2, ThreadStep DEF Invalidate, Call, Parts
<1> QED BY <1>0, <1>1, <1>3, FrameType DEF Parts, EntryType

\* invalidate collects registered entries only.
LEMMA CollectType == ASSUME Parts, NEW t \in Threads, InvalidateCollect(t) PROVE Parts'
<1>0. UNCHANGED <<entry, lease, registry, generations, inflight, active_leases, active_replays, captures>>
  BY DEF InvalidateCollect
<1>1. Targets(th[t].scope) \subseteq DOMAIN entry /\ DOMAIN entry \subseteq EntryIds
  BY DEF Targets, Parts, RegistryType, EntryType
<1>2. th' = [th EXCEPT ![t] = [th[t] EXCEPT !.pc = "mark", !.targets = Targets(th[t].scope)]]
  BY DEF InvalidateCollect, Parts, ThreadType, Thread
<1>3. ThreadOK([th[t] EXCEPT !.pc = "mark", !.targets = Targets(th[t].scope)], DOMAIN entry')
  <2>1. th[t] \in Thread
    BY DEF Parts, ThreadType
  <2>2. DOMAIN entry' = DOMAIN entry
    BY <1>0
  <2> QED BY ONLY <1>1, <2>1, <2>2 DEF ThreadOK, Thread, PCs, LookupPCs, EntryPCs
<1>4. ThreadType'
  BY <1>0, <1>2, <1>3, ThreadStep DEF Parts
<1> QED BY <1>0, <1>4, FrameType DEF Parts, EntryType

\* Unloading an entry's executable keeps it an entry, and its request and generation.
LEMMA UnloadedType ==
  ASSUME NEW en \in Entry
  PROVE  /\ Unloaded(en) \in Entry
         /\ Unloaded(en).req = en.req /\ Unloaded(en).generation = en.generation
         /\ Unloaded(en).lease_count = en.lease_count
  BY DEF Unloaded, Entry, ResidencyTier

\* Marking one target.
LEMMA MarkType == ASSUME Parts, NEW t \in Threads, InvalidateMark(t) PROVE Parts'
<1>0. UNCHANGED <<lease, registry, cache_generation, inflight, active_leases, active_replays, captures>>
  BY DEF InvalidateMark
<1>1. PICK e \in th[t].targets :
        /\ th' = [th EXCEPT ![t].targets = @ \ {e}]
        /\ \/ UNCHANGED <<entry, graph_generation_counter>>
           \/ /\ LET marked == [entry[e] EXCEPT !.invalidated = TRUE, !.lifecycle = "Invalidated"]
                 IN  entry' = [entry EXCEPT ![e] = IF th[t].strong /\ marked.lease_count = 0
                                                   THEN Unloaded(marked) ELSE marked]
              /\ graph_generation_counter' = graph_generation_counter + 1
  BY DEF InvalidateMark
<1>2. e \in DOMAIN entry /\ ThreadOK(th[t], DOMAIN entry)
  BY DEF Parts, ThreadType, ThreadOK
<1>3. EntryType' /\ DOMAIN entry' = DOMAIN entry
  <2> DEFINE marked == [entry[e] EXCEPT !.invalidated = TRUE, !.lifecycle = "Invalidated"]
  <2>1. marked \in Entry /\ Unloaded(marked) \in Entry
    <3>1. marked \in Entry
      <4>1. "Invalidated" \in GraphLifecycle
        BY DEF GraphLifecycle, Allowed
      <4> QED BY <1>2, <4>1 DEF Parts, EntryType, Entry
    <3> HIDE DEF marked
    <3> QED BY <3>1, UnloadedType
  <2>2. CASE UNCHANGED entry
    BY <2>2 DEF Parts, EntryType
  <2>3. CASE \E r \in Entry : entry' = [entry EXCEPT ![e] = r]
    BY <1>2, <2>3, EntryStep
  <2> QED BY <1>1, <2>1, <2>2, <2>3
<1>4. CounterType'
  BY <1>0, <1>1 DEF Parts, CounterType
<1>5. ThreadType'
  <2>1. th' = [th EXCEPT ![t] = [th[t] EXCEPT !.targets = @ \ {e}]]
    BY <1>1
  <2>2. ThreadOK([th[t] EXCEPT !.targets = @ \ {e}], DOMAIN entry')
    BY <1>2, <1>3 DEF ThreadOK, Thread
  <2> QED BY <1>3, <2>1, <2>2, ThreadStep DEF Parts
<1> QED BY <1>0, <1>3, <1>4, <1>5, FrameType DEF Parts

\* The return of invalidate touches nothing but the thread.
LEMMA InvalidateReturnType == ASSUME Parts, NEW t \in Threads, InvalidateReturn(t) PROVE Parts'
<1>1. ThreadType'
  BY ReturnType DEF InvalidateReturn, Parts
<1> QED BY <1>1, FrameType DEF InvalidateReturn, Parts, EntryType

\* pin, unpin, evict and unload.
LEMMA ResidencyType ==
  ASSUME Parts, NEW t \in Threads, NEW a \in DOMAIN by_artifact,
         Pin(t, a) \/ Unpin(t, a) \/ Evict(t, a) \/ Unload(t, a)
  PROVE  Parts'
<1> DEFINE e == by_artifact[a]
<1>0. UNCHANGED <<lease, registry, generations, inflight, active_leases, active_replays, captures>>
  BY DEF Pin, Unpin, Evict, Unload
<1>1. e \in DOMAIN entry
  BY DEF Parts, RegistryType
<1>2. CASE Pin(t, a)
  <2>1. [entry[e] EXCEPT !.pin_count = @ + 1] \in Entry
    BY <1>1 DEF Parts, EntryType, Entry
  <2>2. entry' = [entry EXCEPT ![e] = [entry[e] EXCEPT !.pin_count = @ + 1]]
    BY <1>2 DEF Pin
  <2>3. EntryType' /\ DOMAIN entry' = DOMAIN entry
    BY <1>1, <2>1, <2>2, EntryStep
  <2> QED BY <1>0, <1>2, <2>3, FrameType DEF Pin, Parts
<1>3. CASE Unpin(t, a) \/ Evict(t, a) \/ Unload(t, a)
  <2>1. ThreadType'
    BY <1>1, <1>3, CallType DEF Unpin, Evict, Unload
  <2> QED BY <1>0, <1>3, <2>1, FrameType DEF Unpin, Evict, Unload, Parts, EntryType
<1> QED BY <1>2, <1>3

\* The second halves of unpin and evict keep the shape of the entry they change.
LEMMA ResidencyEndType ==
  ASSUME Parts, NEW t \in Threads, UnpinSub(t) \/ EvictApply(t) PROVE Parts'
<1> DEFINE e == th[t].ent
<1>0. UNCHANGED <<lease, registry, generations, inflight, active_leases, active_replays, captures>>
      /\ Return(t)
  BY DEF UnpinSub, EvictApply
<1>1. e \in DOMAIN entry
  BY DEF UnpinSub, EvictApply, At, Parts, ThreadType, ThreadOK, EntryPCs
<1>2. [entry[e] EXCEPT !.pin_count = Dec(@)] \in Entry /\ Unloaded(entry[e]) \in Entry
  BY <1>1, DecType, UnloadedType DEF Parts, EntryType, Entry
<1>3. \E r \in Entry : entry' = [entry EXCEPT ![e] = r]
  BY <1>2 DEF UnpinSub, EvictApply
<1>4. EntryType' /\ DOMAIN entry' = DOMAIN entry
  BY <1>1, <1>3, EntryStep
<1>5. ThreadType'
  BY <1>0, <1>4, ReturnType DEF Parts
<1> QED BY <1>0, <1>4, <1>5, FrameType DEF Parts

\* Every step keeps the engine's state well-typed.
LEMMA StepType == TypeOK /\ [Next]_vars => TypeOK'
<1> SUFFICES ASSUME Parts, [Next]_vars PROVE Parts'
  BY TypeParts
<1>1. CASE UNCHANGED vars
  BY <1>1, FrameType DEF vars, registry, generations, Parts, EntryType
<1>2. ASSUME NEW t \in Threads, Start(t) PROVE Parts'
  BY <1>2, LookupType, ReplayType, InvalidateType, ResidencyType DEF Start
<1>3. ASSUME NEW t \in Threads, Continue(t) PROVE Parts'
  <2>1. CASE CaptureFail(t)
    <3>1. ThreadType'
      BY <2>1, CaptureFailType DEF CaptureFail
    <3> QED BY <2>1, <3>1, FrameType DEF CaptureFail, Parts, EntryType
  <2>2. CASE SearchAgain(t) \/ Materialize(t) \/ Recheck(t) \/ MakeLease(t)
    BY <2>2, SearchAgainType, MaterializeType, RecheckType, MakeLeaseType
  <2>3. CASE Join(t) \/ CaptureBuild(t) \/ Publish(t) \/ Complete(t) \/ Erase(t) \/ Wake(t)
    BY <2>3, JoinType, CaptureBuildType, PublishType, CompleteType, EraseWakeType
  <2>4. CASE InvalidateCollect(t) \/ InvalidateMark(t) \/ InvalidateReturn(t)
    BY <2>4, CollectType, MarkType, InvalidateReturnType
  <2>5. CASE UnpinSub(t) \/ EvictApply(t) \/ ReplayEnd(t)
    BY <2>5, ResidencyEndType, ReplayEndType
  <2> QED BY <1>3, <2>1, <2>2, <2>3, <2>4, <2>5 DEF Continue
<1>4. ASSUME NEW l \in DOMAIN lease, Release(l) \/ ReleaseStep(l) PROVE Parts'
  BY <1>4, ReleaseType
<1> QED BY <1>1, <1>2, <1>3, <1>4 DEF Next

\* The state of the engine is well-typed, and holds no dangling address, in every
\* reachable state.
THEOREM TypeCorrect == Spec => []TypeOK
  BY InitType, StepType, PTL DEF Spec
=============================================================================
