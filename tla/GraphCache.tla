----------------------------- MODULE GraphCache -----------------------------
(***************************************************************************)
(* The in-process engine of src/src/cache.cpp: lookup with single-flight   *)
(* capture, leases and replay, invalidation, pinning, eviction.            *)
(*                                                                         *)
(* Every thread runs one API call at a time.  An action is one critical    *)
(* section, or one atomic access, of that call: whatever another thread    *)
(* can do between two accesses of the code, it can do between two actions  *)
(* here.  The registry maps are partial functions, as the std::maps are;   *)
(* an entry or a lease is an address drawn from a pool, the pool's size    *)
(* being the model's bound on how many can exist at once.                  *)
(*                                                                         *)
(* What a request asks for (descriptor, backend, shapes, dependencies) is  *)
(* abstracted to the results the engine computes from it: its              *)
(* compatibility key, workload, artifact id, the compatibility decision    *)
(* against the request an entry was captured for, and the dependency       *)
(* freshness of that entry for it.                                         *)
(*                                                                         *)
(* Next to some definitions stands a variant with a plausible bug          *)
(* (JoinAlwaysOwns before Join): no specification uses it; a run must find *)
(* the property it is paired with violated when it takes the place of the  *)
(* definition.                                                             *)
(***************************************************************************)
EXTENDS Naturals, Sequences, FiniteSets, Lifecycle

CONSTANTS
  Threads,         \* callers of the GraphCache API
  Requests,        \* distinct GraphLookupRequests
  KeyOf,           \* [Requests -> Keys]       GraphCompatibilityKey digest
  WorkloadOf,      \* [Requests -> Workloads]  workload_key
  ArtifactOf,      \* [Requests -> Artifacts]  descriptor.artifact_id after finalize
  Decide,          \* [Requests \X Requests -> Classes]: decide_compatibility(request, entry)
  StaleFor,        \* pairs <<request, entry's request>> with is_dependency_fresh false
  CaptureAllowed,  \* requests with allow_capture set (config.allow_capture is on)
  Scopes,          \* invalidation requests, each as the set of Requests it selects
  Ops,             \* the API calls made besides lookup and release
  HasStore,        \* whether config.enable_persistence gives the engine a store
  EntryIds,        \* pool of CacheEntry addresses      (bounds the captures)
  LeaseIds,        \* pool of GraphLease addresses      (bounds the live leases)
  MaxCacheGen,     \* bound on cache_generation         (bounds the invalidations)
  MaxPins,         \* bound on the pins taken on an entry
  CounterMax,      \* largest value of the unsigned counters (2^64 - 1 in the code)
  NoEntry, NoRequest

Keys == {KeyOf[r] : r \in Requests}
Workloads == {WorkloadOf[r] : r \in Requests}
Artifacts == {ArtifactOf[r] : r \in Requests}

\* The compatibility classes the search tells apart.
Classes == {"Exact", "Rebinding", "DynamicShape", "Incompatible"}
ResidencyTier == {"MetadataOnly", "PersistentStorage", "HostResident", "BackendResident"}

ASSUME ConstantsAssumption ==
  /\ KeyOf \in [Requests -> Keys]
  /\ WorkloadOf \in [Requests -> Workloads]
  /\ ArtifactOf \in [Requests -> Artifacts]
  /\ Decide \in [Requests \X Requests -> Classes]
  /\ StaleFor \subseteq Requests \X Requests
  /\ CaptureAllowed \subseteq Requests
  /\ Scopes \subseteq SUBSET Requests
  /\ HasStore \in BOOLEAN
  /\ MaxCacheGen \in Nat /\ MaxPins \in Nat /\ CounterMax \in Nat
  /\ NoEntry \notin EntryIds /\ NoRequest \notin Requests
\* The pools are finite.
ASSUME PoolAssumption == IsFiniteSet(LeaseIds) /\ IsFiniteSet(EntryIds)
\* The digest covers every fact, the workload included, so that requests with one
\* key are exact, dependency-fresh matches for each other.  (This leaves out a
\* policy whose namespace filter rejects its own request, a NaN scalar, and two
\* dependencies of one name: decide_compatibility then rejects equal facts.)
ASSUME KeyAssumption ==
  \A r, s \in Requests :
    KeyOf[r] = KeyOf[s] => /\ WorkloadOf[r] = WorkloadOf[s]
                           /\ Decide[r, s] = "Exact"
                           /\ <<r, s>> \notin StaleFor

VARIABLES
  entry,             \* CacheEntry objects by address
  lease,             \* live GraphLease objects by address
  by_artifact,       \* artifact id -> entry: what invalidate, pin and evict can see
  by_workload,       \* workload -> entries in publication order: what lookup can see
  key_current_gen,   \* compatibility key -> generation a candidate must carry
  cache_generation,
  graph_generation_counter,
  inflight,          \* compatibility key -> owner thread of the running CaptureAttempt
  active_leases,
  active_replays,
  captures,          \* Metrics.captures
  th                 \* program counter and locals of each thread

vars == <<entry, lease, by_artifact, by_workload, key_current_gen, cache_generation,
          graph_generation_counter, inflight, active_leases, active_replays, captures, th>>
registry == <<by_artifact, by_workload, key_current_gen>>
generations == <<cache_generation, graph_generation_counter>>

Entry == [req : Requests, generation : Nat, cache_generation : Nat,
          invalidated : BOOLEAN, lifecycle : GraphLifecycle, residency : ResidencyTier,
          exec : BOOLEAN, pin_count : Nat, lease_count : Nat, active_replays : Nat]

\* How far a lease has got through GraphLease::release: held; released flag
\* set (cas); lease_count seen positive (entry); lease_count settled (drained);
\* active_leases seen positive (global).
LeasePhase == {"held", "cas", "entry", "drained", "global"}
Lease == [entry : EntryIds, generation : Nat, exec : BOOLEAN, phase : LeasePhase]

PCs == {"idle", "materialize", "recheck", "lease", "join", "wait", "capture", "publish",
        "persist", "complete", "erase", "again", "collect", "mark", "unpin", "evict", "replay",
        "store"}
Thread == [pc : PCs,
           req : Requests \cup {NoRequest},
           ent : EntryIds \cup {NoEntry},    \* chosen, captured, unpinned, ... entry
           again : BOOLEAN,                  \* in the second search of a lookup
           gen : Nat,                        \* capture_graph's gen_at_start, invalidate's new_gen
           res : {"none", "ok", "failed"},   \* result of the capture attempt
           scope : SUBSET Requests,          \* invalidate's scope
           strong : BOOLEAN,
           targets : SUBSET EntryIds]        \* invalidate's targets still to mark

Idle == [pc |-> "idle", req |-> NoRequest, ent |-> NoEntry, again |-> FALSE,
         gen |-> 0, res |-> "none", scope |-> {}, strong |-> FALSE, targets |-> {}]
-----------------------------------------------------------------------------
\* operator[] assignment of a std::map, and fetch_sub of an unsigned counter.
Put(f, k, v) == [x \in DOMAIN f \cup {k} |-> IF x = k THEN v ELSE f[x]]
Drop(f, k) == [x \in DOMAIN f \ {k} |-> f[x]]
DecSigned(n) == n - 1
Dec(n) == IF n = 0 THEN CounterMax ELSE n - 1

At(t, label) == th[t].pc = label
Goto(t, label) == th' = [th EXCEPT ![t].pc = label]
Return(t) == th' = [th EXCEPT ![t] = Idle]
Call(t, locals) == At(t, "idle") /\ th' = [th EXCEPT ![t] = locals]

\* A unique_lock on registry_mutex waits for the shared_lock that unpin holds
\* between its load and its fetch_sub; every other shared section is one action.
RegistryFree == \A t \in Threads : ~At(t, "unpin")

Init ==
  /\ entry = << >> /\ lease = << >>
  /\ by_artifact = << >> /\ by_workload = << >> /\ key_current_gen = << >>
  /\ cache_generation = 1 /\ graph_generation_counter = 1
  /\ inflight = << >>
  /\ active_leases = 0 /\ active_replays = 0 /\ captures = 0
  /\ th = [t \in Threads |-> Idle]
-----------------------------------------------------------------------------
(***************************************************************************)
(* search_candidates: the scan of the workload's bucket, as sets of        *)
(* positions in it.                                                        *)
(***************************************************************************)
Bucket(r) == IF WorkloadOf[r] \in DOMAIN by_workload THEN by_workload[WorkloadOf[r]] ELSE << >>

Current(e) ==
  /\ ~entry[e].invalidated
  /\ KeyOf[entry[e].req] \in DOMAIN key_current_gen
  /\ entry[e].generation = key_current_gen[KeyOf[entry[e].req]]
  /\ ReplayEligible(entry[e].lifecycle)

Scanned(r) == {i \in DOMAIN Bucket(r) : Current(Bucket(r)[i])}
Class(r, i) == Decide[r, entry[Bucket(r)[i]].req]
Fresh(r) == {i \in Scanned(r) : <<r, entry[Bucket(r)[i]].req>> \notin StaleFor}
Compatible(r) == {i \in Fresh(r) : Class(r, i) # "Incompatible"}
Exact(r) == {i \in Compatible(r) : Class(r, i) = "Exact"}

\* The loop keeps the first compatible candidate, and replaces it by every
\* exact one it meets later.
Chosen(r, i) ==
  \/ i \in Exact(r) /\ \A j \in Exact(r) : j <= i
  \/ Exact(r) = {} /\ i \in Compatible(r) /\ \A j \in Compatible(r) : i <= j

\* Without a compatible candidate the outcome is MissIncompatible or
\* MissStaleDependency as soon as one current entry was scanned; only a scan that
\* met none is MissCaptureRequired, the one outcome that lets lookup capture.
MissCaptureRequired(r) == Scanned(r) = {}

\* Bound: every lookup under way will find a free lease address.
LookupPCs == {"materialize", "recheck", "lease", "join", "wait", "capture", "publish",
              "persist", "complete", "erase", "again"}
OwnerPCs == {"capture", "publish", "persist", "complete", "erase"}
EntryPCs == {"materialize", "recheck", "lease", "publish", "persist", "unpin", "evict", "replay"}
LeaseFree ==
  Cardinality({t \in Threads : th[t].pc \in LookupPCs}) < Cardinality(LeaseIds \ DOMAIN lease)

(***************************************************************************)
(* GraphCache::lookup.                                                     *)
(***************************************************************************)
\* A candidate is chosen under the shared registry lock.
Lookup(t, r) ==
  /\ LeaseFree
  /\ \/ \E i \in Compatible(r) :
          /\ Chosen(r, i)
          /\ Call(t, [Idle EXCEPT !.pc = "materialize", !.req = r, !.ent = Bucket(r)[i]])
     \/ /\ Compatible(r) = {} /\ MissCaptureRequired(r) /\ r \in CaptureAllowed
        /\ Call(t, [Idle EXCEPT !.pc = "join", !.req = r])
  /\ UNCHANGED <<entry, lease, registry, generations, inflight, active_leases,
                 active_replays, captures>>

\* The search repeated after the capture attempt succeeded; a miss is now final
\* (MissIncompatible).
SearchAgain(t) ==
  LET r == th[t].req IN
  /\ At(t, "again")
  /\ \/ \E i \in Compatible(r) :
          /\ Chosen(r, i)
          /\ th' = [th EXCEPT ![t].pc = "materialize", ![t].again = TRUE,
                              ![t].ent = Bucket(r)[i]]
     \/ Compatible(r) = {} /\ Return(t)
  /\ UNCHANGED <<entry, lease, registry, generations, inflight, active_leases,
                 active_replays, captures>>

\* Whether materialize_exec has work to do.
NeedsExecByTier(e) == entry[e].residency = "PersistentStorage"
NeedsExec(e) == ~entry[e].exec

MaterializedAnew(en) ==
  [en EXCEPT !.exec = TRUE, !.residency = "HostResident", !.lifecycle = "ResidentHost"]
Materialized(en) == [en EXCEPT !.exec = TRUE, !.residency = "HostResident"]

\* materialize_exec, under the entry's mutex: an entry recovered from disk has no
\* executable and is captured again.  When that fails the outcome is
\* MissCaptureRequired, so a first search goes on to capture.
Materialize(t) ==
  LET e == th[t].ent IN
  /\ At(t, "materialize")
  /\ \/ ~NeedsExec(e) /\ Goto(t, "recheck") /\ UNCHANGED entry
     \/ /\ NeedsExec(e)
        /\ entry' = [entry EXCEPT ![e] = Materialized(@)]
        /\ Goto(t, "recheck")
     \/ /\ NeedsExec(e)
        /\ UNCHANGED entry
        /\ IF ~th[t].again /\ th[t].req \in CaptureAllowed
           THEN th' = [th EXCEPT ![t].pc = "join", ![t].ent = NoEntry]
           ELSE Return(t)
  /\ UNCHANGED <<lease, registry, generations, inflight, active_leases, active_replays,
                 captures>>

\* The shared lock is taken a second time to see whether the chosen entry was
\* invalidated meanwhile (MissInvalidated), and is released before make_lease.
RecheckNothing(t) ==
  /\ At(t, "recheck")
  /\ Goto(t, "lease")
  /\ UNCHANGED <<entry, lease, registry, generations, inflight, active_leases,
                 active_replays, captures>>
Recheck(t) ==
  LET e == th[t].ent IN
  /\ At(t, "recheck")
  /\ IF entry[e].invalidated \/ ~ReplayEligible(entry[e].lifecycle)
     THEN Return(t)
     ELSE Goto(t, "lease")
  /\ UNCHANGED <<entry, lease, registry, generations, inflight, active_leases,
                 active_replays, captures>>

\* make_lease takes no lock.
MakeLease(t) ==
  LET e == th[t].ent IN
  /\ At(t, "lease")
  /\ \E l \in LeaseIds \ DOMAIN lease :
       lease' = Put(lease, l, [entry |-> e, generation |-> entry[e].generation,
                               exec |-> entry[e].exec, phase |-> "held"])
  /\ entry' = [entry EXCEPT ![e].lease_count = @ + 1]
  /\ active_leases' = active_leases + 1
  /\ Return(t)
  /\ UNCHANGED <<registry, generations, inflight, active_replays, captures>>

(***************************************************************************)
(* run_single_flight and capture_graph.                                    *)
(***************************************************************************)
\* Under capture_mutex a thread becomes the owner of a new attempt or joins the
\* one in flight, which may be done already but not yet erased.
JoinAlwaysOwns(t) ==
  /\ At(t, "join")
  /\ inflight' = Put(inflight, KeyOf[th[t].req], t)
  /\ th' = [th EXCEPT ![t].pc = "capture", ![t].gen = cache_generation]
  /\ UNCHANGED <<entry, lease, registry, generations, active_leases, active_replays, captures>>
Join(t) ==
  LET k == KeyOf[th[t].req] IN
  /\ At(t, "join")
  /\ IF k \in DOMAIN inflight
     THEN /\ th' = [th EXCEPT ![t].pc = "wait",
                              ![t].res = IF At(inflight[k], "erase") THEN th[inflight[k]].res
                                                                     ELSE "none"]
          /\ UNCHANGED inflight
     ELSE /\ inflight' = Put(inflight, k, t)
          /\ th' = [th EXCEPT ![t].pc = "capture", ![t].gen = cache_generation]
  /\ UNCHANGED <<entry, lease, registry, generations, active_leases, active_replays, captures>>

\* Finalising, capturing or validating the graph fails.
CaptureFail(t) ==
  /\ At(t, "capture")
  /\ th' = [th EXCEPT ![t].pc = "complete", ![t].res = "failed"]
  /\ UNCHANGED <<entry, lease, registry, generations, inflight, active_leases,
                 active_replays, captures>>

EntryFor(r, generation, residency) ==
  [req |-> r, generation |-> generation, cache_generation |-> cache_generation,
   invalidated |-> FALSE, lifecycle |-> "Valid", residency |-> residency, exec |-> TRUE,
   pin_count |-> 0, lease_count |-> 0, active_replays |-> 0]
NewEntryCacheGen(r) == EntryFor(r, cache_generation, "HostResident")
NewEntryBackend(r) == EntryFor(r, graph_generation_counter, "BackendResident")
NewEntry(r) == EntryFor(r, graph_generation_counter, "HostResident")

\* The graph is captured and its entry built, which takes a graph generation; a
\* cache generation that moved since the capture began makes the completion stale.
CaptureBuild(t) ==
  /\ At(t, "capture")
  /\ graph_generation_counter' = graph_generation_counter + 1
  /\ \/ /\ cache_generation # th[t].gen
        /\ th' = [th EXCEPT ![t].pc = "complete", ![t].res = "failed"]
        /\ UNCHANGED entry
     \/ /\ cache_generation = th[t].gen
        /\ \E e \in EntryIds \ DOMAIN entry :
             /\ entry' = Put(entry, e, NewEntry(th[t].req))
             /\ th' = [th EXCEPT ![t].pc = "publish", ![t].ent = e]
  /\ UNCHANGED <<lease, registry, cache_generation, inflight, active_leases,
                 active_replays, captures>>

\* The assignments by_artifact[artifact_id] = entry and key_current_gen[key] = generation.
IndexEmplace(a, e) == IF a \in DOMAIN by_artifact THEN by_artifact ELSE Put(by_artifact, a, e)
Index(a, e) == Put(by_artifact, a, e)
KeyGenerationKept(k, gen) == key_current_gen
KeyGeneration(k, gen) == Put(key_current_gen, k, gen)

\* The registry is updated under its unique lock, after the stale check's lock was
\* released.  (by_key and invalidated_keys are written here too; nothing reads them.)
Publish(t) ==
  LET e == th[t].ent
      r == th[t].req IN
  /\ At(t, "publish") /\ RegistryFree
  /\ by_artifact' = Index(ArtifactOf[r], e)
  /\ by_workload' = Put(by_workload, WorkloadOf[r], Append(Bucket(r), e))
  /\ key_current_gen' = KeyGeneration(KeyOf[r], entry[e].generation)
  /\ th' = [th EXCEPT ![t].pc = IF HasStore THEN "persist" ELSE "complete", ![t].res = "ok"]
  /\ UNCHANGED <<entry, lease, generations, inflight, active_leases, active_replays, captures>>

\* Thread u waits on the attempt that t owns.
WaitsOnUnnotified(t, u) == FALSE
WaitsOn(t, u) == At(u, "wait") /\ th[u].res = "none" /\ KeyOf[th[u].req] = KeyOf[th[t].req]

\* The owner stores the result in the attempt and wakes every waiter on it.
Complete(t) ==
  /\ At(t, "complete")
  /\ captures' = IF th[t].res = "ok" THEN captures + 1 ELSE captures
  /\ th' = [u \in Threads |->
              IF u = t THEN [th[t] EXCEPT !.pc = "erase", !.ent = NoEntry]
              ELSE IF WaitsOn(t, u) THEN [th[u] EXCEPT !.res = th[t].res]
              ELSE th[u]]
  /\ UNCHANGED <<entry, lease, registry, generations, inflight, active_leases, active_replays>>

\* Back in lookup, a failed attempt is a miss and a successful one a new search.
AfterFlight(t) == IF th[t].res = "ok" THEN Goto(t, "again") ELSE Return(t)

\* The owner takes capture_mutex again to erase the attempt.
Erase(t) ==
  /\ At(t, "erase")
  /\ inflight' = Drop(inflight, KeyOf[th[t].req])
  /\ AfterFlight(t)
  /\ UNCHANGED <<entry, lease, registry, generations, active_leases, active_replays, captures>>

\* A waiter's cv.wait returns once the attempt is done.
Wake(t) ==
  /\ At(t, "wait") /\ th[t].res # "none"
  /\ AfterFlight(t)
  /\ UNCHANGED <<entry, lease, registry, generations, inflight, active_leases,
                 active_replays, captures>>

(***************************************************************************)
(* GraphLease::release and its release_fn: load and fetch_sub are separate *)
(* accesses, first of the entry's counter, then of the engine's.           *)
(***************************************************************************)
Advance(l, phase) == lease' = [lease EXCEPT ![l].phase = phase]
leaseFrame == <<registry, generations, inflight, active_replays, captures, th>>

ReleaseUnflagged(l) ==
  /\ lease[l].phase \in {"held", "drained"}
  /\ Advance(l, "cas")
  /\ UNCHANGED <<entry, active_leases, leaseFrame>>
Release(l) ==
  /\ lease[l].phase = "held"
  /\ Advance(l, "cas")
  /\ UNCHANGED <<entry, active_leases, leaseFrame>>

ReleaseEntryLoad(l) ==
  /\ lease[l].phase = "cas"
  /\ Advance(l, IF entry[lease[l].entry].lease_count > 0 THEN "entry" ELSE "drained")
  /\ UNCHANGED <<entry, active_leases, leaseFrame>>

ReleaseEntrySub(l) ==
  /\ lease[l].phase = "entry"
  /\ Advance(l, "drained")
  /\ entry' = [entry EXCEPT ![lease[l].entry].lease_count = Dec(@)]
  /\ UNCHANGED <<active_leases, leaseFrame>>

\* With the counter at zero release_fn would skip the fetch_sub and the lease's
\* entry_ is reset right away.
ReleaseGlobalLoad(l) ==
  /\ lease[l].phase = "drained"
  /\ IF active_leases > 0 THEN Advance(l, "global") ELSE lease' = Drop(lease, l)
  /\ UNCHANGED <<entry, active_leases, leaseFrame>>

ReleaseGlobalSub(l) ==
  /\ lease[l].phase = "global"
  /\ active_leases' = Dec(active_leases)
  /\ lease' = Drop(lease, l)
  /\ UNCHANGED <<entry, leaseFrame>>

ReleaseStep(l) ==
  \/ ReleaseEntryLoad(l) \/ ReleaseEntrySub(l) \/ ReleaseGlobalLoad(l) \/ ReleaseGlobalSub(l)

(***************************************************************************)
(* GraphCache::replay, between the two updates of active_replays.  A lease *)
(* is valid until release resets its entry; neither invalidated nor        *)
(* lifecycle is consulted.                                                 *)
(***************************************************************************)
Replay(t, l) ==
  LET e == lease[l].entry IN
  /\ "replay" \in Ops /\ lease[l].exec
  /\ Call(t, [Idle EXCEPT !.pc = "replay", !.ent = e])
  /\ entry' = [entry EXCEPT ![e].active_replays = @ + 1]
  /\ active_replays' = active_replays + 1
  /\ UNCHANGED <<lease, registry, generations, inflight, active_leases, captures>>

ReplayEnd(t) ==
  /\ At(t, "replay")
  /\ entry' = [entry EXCEPT ![th[t].ent].active_replays = Dec(@)]
  /\ active_replays' = Dec(active_replays)
  /\ Return(t)
  /\ UNCHANGED <<lease, registry, generations, inflight, active_leases, captures>>

(***************************************************************************)
(* GraphCache::invalidate.                                                 *)
(***************************************************************************)
\* The generation is bumped first, before any lock is taken.
Invalidate(t, scope, strong) ==
  /\ "invalidate" \in Ops /\ cache_generation < MaxCacheGen
  /\ Call(t, [Idle EXCEPT !.pc = "collect", !.scope = scope, !.strong = strong,
                      !.gen = cache_generation + 1])
  /\ cache_generation' = cache_generation + 1
  /\ UNCHANGED <<entry, lease, registry, graph_generation_counter, inflight, active_leases,
                 active_replays, captures>>

\* The targets are those of by_artifact, whatever the scope.
TargetsUnleased(scope) ==
  {e \in {by_artifact[a] : a \in DOMAIN by_artifact} :
     entry[e].req \in scope /\ entry[e].lease_count = 0}
Targets(scope) ==
  {e \in {by_artifact[a] : a \in DOMAIN by_artifact} : entry[e].req \in scope}

InvalidateCollect(t) ==
  /\ At(t, "collect") /\ RegistryFree
  /\ th' = [th EXCEPT ![t].pc = "mark", ![t].targets = Targets(th[t].scope)]
  /\ UNCHANGED <<entry, lease, registry, generations, inflight, active_leases,
                 active_replays, captures>>

\* The entry once its executable is unloaded.  Only a BackendResident entry is, and
\* no code assigns that tier.
Unloaded(en) ==
  IF en.residency = "BackendResident"
  THEN [en EXCEPT !.exec = FALSE, !.residency = "PersistentStorage"]
  ELSE en

\* Each target is marked without the registry lock; an entry that is marked
\* already is passed over.
InvalidateMark(t) ==
  /\ At(t, "mark")
  /\ \E e \in th[t].targets :
       /\ th' = [th EXCEPT ![t].targets = @ \ {e}]
       /\ IF entry[e].invalidated
          THEN UNCHANGED <<entry, graph_generation_counter>>
          ELSE LET marked == [entry[e] EXCEPT !.invalidated = TRUE, !.lifecycle = "Invalidated"] IN
               /\ entry' = [entry EXCEPT ![e] = IF th[t].strong /\ marked.lease_count = 0
                                               THEN Unloaded(marked) ELSE marked]
               /\ graph_generation_counter' = graph_generation_counter + 1
  /\ UNCHANGED <<lease, registry, cache_generation, inflight, active_leases,
                 active_replays, captures>>

InvalidateReturn(t) ==
  /\ At(t, "mark") /\ th[t].targets = {}
  /\ Return(t)
  /\ UNCHANGED <<entry, lease, registry, generations, inflight, active_leases,
                 active_replays, captures>>

(***************************************************************************)
(* pin, unpin, evict and unload find their entry through by_artifact.      *)
(***************************************************************************)
Pin(t, a) ==
  LET e == by_artifact[a] IN
  /\ "pin" \in Ops /\ At(t, "idle") /\ entry[e].pin_count < MaxPins
  /\ entry' = [entry EXCEPT ![e].pin_count = @ + 1]
  /\ UNCHANGED <<lease, registry, generations, inflight, active_leases, active_replays,
                 captures, th>>

\* A zero pin_count is refused (LeaseUnderflow) ...
Unpin(t, a) ==
  LET e == by_artifact[a] IN
  /\ "pin" \in Ops /\ entry[e].pin_count # 0
  /\ Call(t, [Idle EXCEPT !.pc = "unpin", !.ent = e])
  /\ UNCHANGED <<entry, lease, registry, generations, inflight, active_leases,
                 active_replays, captures>>

\* ... but the fetch_sub is a second access, under a lock held shared.
UnpinSub(t) ==
  /\ At(t, "unpin")
  /\ entry' = [entry EXCEPT ![th[t].ent].pin_count = Dec(@)]
  /\ Return(t)
  /\ UNCHANGED <<lease, registry, generations, inflight, active_leases, active_replays,
                 captures>>

\* evict tests the pin and lease counts, unload only the lease count, before
\* either takes the entry's mutex.
Evict(t, a) ==
  LET e == by_artifact[a] IN
  /\ "evict" \in Ops
  /\ entry[e].pin_count = 0 /\ entry[e].lease_count = 0
  /\ Call(t, [Idle EXCEPT !.pc = "evict", !.ent = e])
  /\ UNCHANGED <<entry, lease, registry, generations, inflight, active_leases,
                 active_replays, captures>>

Unload(t, a) ==
  LET e == by_artifact[a] IN
  /\ "evict" \in Ops /\ entry[e].lease_count = 0
  /\ Call(t, [Idle EXCEPT !.pc = "evict", !.ent = e])
  /\ UNCHANGED <<entry, lease, registry, generations, inflight, active_leases,
                 active_replays, captures>>

EvictApply(t) ==
  /\ At(t, "evict")
  /\ entry' = [entry EXCEPT ![th[t].ent] = Unloaded(@)]
  /\ Return(t)
  /\ UNCHANGED <<lease, registry, generations, inflight, active_leases, active_replays,
                 captures>>
-----------------------------------------------------------------------------
\* A call under way takes its next step ...
Continue(t) ==
  \/ SearchAgain(t) \/ Materialize(t) \/ Recheck(t) \/ MakeLease(t)
  \/ Join(t) \/ CaptureFail(t) \/ CaptureBuild(t) \/ Publish(t) \/ Complete(t)
  \/ Erase(t) \/ Wake(t)
  \/ InvalidateCollect(t) \/ InvalidateMark(t) \/ InvalidateReturn(t)
  \/ UnpinSub(t) \/ EvictApply(t) \/ ReplayEnd(t)

\* ... and an idle thread makes a new one.  Calls that return without changing
\* anything (a plain miss, a refused unpin or eviction) are stuttering steps.
Start(t) ==
  \/ \E r \in Requests : Lookup(t, r)
  \/ \E l \in DOMAIN lease : Replay(t, l)
  \/ \E scope \in Scopes, strong \in BOOLEAN : Invalidate(t, scope, strong)
  \/ \E a \in DOMAIN by_artifact : Pin(t, a) \/ Unpin(t, a) \/ Evict(t, a) \/ Unload(t, a)

Next ==
  \/ \E t \in Threads : Start(t) \/ Continue(t)
  \/ \E l \in DOMAIN lease : Release(l) \/ ReleaseStep(l)

Spec == Init /\ [][Next]_vars
-----------------------------------------------------------------------------
(***************************************************************************)
(* Invariants.                                                             *)
(***************************************************************************)
Registered == UNION {{by_workload[w][i] : i \in DOMAIN by_workload[w]} : w \in DOMAIN by_workload}

\* The shape of the engine's state: every address held anywhere is that of an entry.
TypeOK ==
  /\ DOMAIN entry \subseteq EntryIds /\ entry \in [DOMAIN entry -> Entry]
  /\ DOMAIN lease \subseteq LeaseIds /\ lease \in [DOMAIN lease -> Lease]
  /\ \A l \in DOMAIN lease : lease[l].entry \in DOMAIN entry
  /\ DOMAIN by_artifact \subseteq Artifacts /\ by_artifact \in [DOMAIN by_artifact -> DOMAIN entry]
  /\ DOMAIN by_workload \subseteq Workloads
  /\ by_workload \in [DOMAIN by_workload -> Seq(DOMAIN entry)]
  /\ DOMAIN key_current_gen \subseteq Keys /\ key_current_gen \in [DOMAIN key_current_gen -> Nat]
  /\ cache_generation \in Nat /\ graph_generation_counter \in Nat
  /\ DOMAIN inflight \subseteq Keys /\ inflight \in [DOMAIN inflight -> Threads]
  /\ active_leases \in Nat /\ active_replays \in Nat /\ captures \in Nat
  /\ th \in [Threads -> Thread]
  /\ \A t \in Threads :
       /\ th[t].pc \in LookupPCs => th[t].req \in Requests
       /\ th[t].pc \in EntryPCs => th[t].ent \in DOMAIN entry
       /\ th[t].targets \subseteq DOMAIN entry

\* release_fn's check-then-subtract on two shared counters never loses or repeats a
\* decrement: an entry's lease_count is the number of its leases that have not
\* reached their fetch_sub, and active_leases the number of leases alive.
Counted(e) == {l \in DOMAIN lease : lease[l].entry = e /\ lease[l].phase \in {"held", "cas", "entry"}}
LeaseAccounting ==
  /\ \A e \in DOMAIN entry : entry[e].lease_count = Cardinality(Counted(e))
  /\ active_leases = Cardinality(DOMAIN lease)

\* run_single_flight: at most one thread at a time runs capture_graph for a key.
SingleFlight ==
  \A t, u \in Threads :
    /\ th[t].pc \in OwnerPCs /\ th[u].pc \in OwnerPCs
    /\ KeyOf[th[t].req] = KeyOf[th[u].req]
    => t = u

\* A waiter in run_single_flight still without a result has an owner that has yet to
\* publish one: no interleaving of join, notify_all and erase abandons it.
NoAbandonedWaiter ==
  \A t \in Threads :
    At(t, "wait") /\ th[t].res = "none" =>
      /\ KeyOf[th[t].req] \in DOMAIN inflight
      /\ LET owner == inflight[KeyOf[th[t].req]] IN
           /\ th[owner].pc \in OwnerPCs \ {"erase"}
           /\ KeyOf[th[owner].req] = KeyOf[th[t].req]

\* capture_graph's generation numbers: all that were published differ, and for one
\* compatibility key search_candidates sees at most one replay-eligible entry.
CurrentUnique ==
  \A e, f \in Registered :
    /\ Current(e) /\ Current(f)
    /\ KeyOf[entry[e].req] = KeyOf[entry[f].req]
    => e = f

\* evict, unload and invalidate never take the executable from under a lease or a
\* running replay, although their count checks precede the entry mutex: they drop
\* it only from an entry that is BackendResident, which captures and recover never
\* make one.
ExecutableOutlivesUse ==
  /\ \A l \in DOMAIN lease : lease[l].phase = "held" => entry[lease[l].entry].exec
  /\ \A t \in Threads : At(t, "replay") => entry[th[t].ent].exec

\* As long as nothing was ever invalidated, a lookup whose capture attempt succeeded
\* (its own or the one it waited on) finds an exact candidate when it searches again.
CaptureYieldsCandidate ==
  \A t \in Threads : cache_generation = 1 /\ At(t, "again") => Exact(th[t].req) # {}

\* Two workloads whose graphs have the same artifact id evict one another from
\* by_artifact; with artifact ids apart, every entry a lookup can still choose is
\* one that invalidate, pin, evict and persist_all can find.
CandidatesAreAddressable ==
  \A e \in Registered : Current(e) => \E a \in DOMAIN by_artifact : by_artifact[a] = e

\* When invalidate has marked its last target, no entry in its scope that was
\* captured under an older cache generation is still a candidate for lookup.  (A
\* single caller: an older capture under way in another thread may publish later.)
InvalidateIsComplete ==
  \A t \in Threads :
    At(t, "mark") /\ th[t].targets = {} =>
      \A e \in Registered :
        entry[e].req \in th[t].scope /\ entry[e].cache_generation < th[t].gen => ~Current(e)
(***************************************************************************)
(* Action properties.                                                      *)
(***************************************************************************)
\* The generation that makes an entry current for its key never goes back: a slow
\* capture cannot overwrite the key_current_gen of a later one.
GenerationMonotonic ==
  [][\A k \in DOMAIN key_current_gen :
       k \in DOMAIN key_current_gen' /\ key_current_gen[k] <= key_current_gen'[k]]_vars

\* An entry that reached a state the table of lifecycle.cpp does not leave stays in
\* it: materialize_exec, which may run while invalidate marks the entry, does not
\* bring it back.
TerminalAbsorbs ==
  [][\A e \in DOMAIN entry \cap DOMAIN entry' :
       entry'[e].lifecycle # entry[e].lifecycle => Allowed[entry[e].lifecycle] # {}]_vars
-----------------------------------------------------------------------------
(***************************************************************************)
(* What a comment of the engine says and its interleavings refute.         *)
(***************************************************************************)
\* cache.cpp: "A stale capture must not publish: generation rolled or key invalidated."
StaleCaptureNeverPublishes ==
  [][\A t \in Threads :
       At(t, "publish") /\ th'[t].pc # "publish" => cache_generation = th[t].gen]_vars
=============================================================================
