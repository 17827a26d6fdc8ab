---------------------------- MODULE DurableCache ----------------------------
(***************************************************************************)
(* The engine with its PersistenceStore (src/src/persistence.cpp): the     *)
(* save that ends a capture, persist_all, recover, and the crash and       *)
(* restart of the process in any state.                                    *)
(*                                                                         *)
(* A file is the payload it decodes to, or one parse_envelope rejects.     *)
(* put writes a temporary file and renames it under the store's mutex;     *)
(* recover deletes temporary files without that mutex.                     *)
(***************************************************************************)
EXTENDS GraphCache, FiniteSetsExt

CONSTANTS
  RecoveredAs,      \* [Requests -> Requests]: whose facts the stored descriptor yields
  RecoverFirst,     \* callers recover a new engine before using it, and only then
  MaxCrashes,       \* bound on the restarts
  MaxInvalidations  \* bound on the invalidations after each number of restarts

ASSUME DurableAssumption ==
  /\ RecoveredAs \in [Requests -> Requests]
  /\ RecoverFirst \in BOOLEAN /\ MaxCrashes \in Nat
  /\ MaxInvalidations \in [0 .. MaxCrashes -> Nat]

VARIABLES
  disk,      \* artifact id -> content of its .gcf file
  tmp,       \* artifact ids with a .tmp file
  io,        \* locals of each thread's store operation
  saved,     \* entries with persisted_flag set
  ready,     \* recover has returned since the engine was constructed
  crashes,
  born,      \* history: cache_generation when recover returned
  dead       \* history: every <<request, generation>> that was ever invalidated

durable == <<disk, tmp, io, saved, ready, crashes>>
dvars == <<vars, durable, born, dead>>

NoPayload == [req |-> NoRequest]

\* The payload of an intact file; any other is refused, whatever is wrong with it.
parse_envelope(file) == IF file.intact THEN file ELSE NoPayload

\* pc is a step of persist_entry (encode, write, rename) or of recover (clean, list,
\* load, insert, graph, cache), "none" outside both.
NoIo == [pc |-> "none", ent |-> NoEntry, payload |-> NoPayload, todo |-> {}, graph |-> 0, cache |-> 0]

DInit ==
  /\ Init
  /\ disk = << >> /\ tmp = {} /\ io = [t \in Threads |-> NoIo] /\ saved = {}
  /\ ready = FALSE /\ crashes = 0 /\ born = 1 /\ dead = {}

IoAt(t, label) == io[t].pc = label
StoreFree == \A t \in Threads : ~IoAt(t, "rename")
engineFrame == <<entry, lease, generations, inflight, active_leases, active_replays, captures>>
-----------------------------------------------------------------------------
(***************************************************************************)
(* persist_entry, at the end of capture_graph or for each entry of         *)
(* persist_all.                                                            *)
(***************************************************************************)
Encode(e) == [req |-> entry[e].req, generation |-> entry[e].generation,
              cache_generation |-> entry[e].cache_generation,
              invalidated |-> entry[e].invalidated, intact |-> TRUE]

\* capture_graph saves the entry it published.
PersistCaptured(t) ==
  /\ At(t, "persist") /\ IoAt(t, "none")
  /\ io' = [io EXCEPT ![t].pc = "write", ![t].ent = th[t].ent, ![t].payload = Encode(th[t].ent)]
  /\ UNCHANGED <<vars, disk, tmp, saved, ready, crashes>>

PersistAll(t) ==
  /\ HasStore /\ "persist_all" \in Ops
  /\ Call(t, [Idle EXCEPT !.pc = "store"])
  /\ io' = [io EXCEPT ![t].pc = "encode",
                      ![t].todo = {by_artifact[a] : a \in DOMAIN by_artifact}]
  /\ UNCHANGED <<engineFrame, registry, disk, tmp, saved, ready, crashes>>

PersistNext(t) ==
  /\ IoAt(t, "encode")
  /\ \/ \E e \in io[t].todo :
          /\ io' = [io EXCEPT ![t].pc = "write", ![t].ent = e, ![t].payload = Encode(e),
                              ![t].todo = @ \ {e}]
          /\ UNCHANGED th
     \/ /\ io[t].todo = {}
        /\ io' = [io EXCEPT ![t] = NoIo] /\ Return(t)
  /\ UNCHANGED <<engineFrame, registry, disk, tmp, saved, ready, crashes>>

\* put's result ends capture_graph, which ignores a failure, or takes persist_all to
\* its next entry, which returns on one.
PutReturns(t, ok) ==
  /\ saved' = IF ok THEN saved \cup {io[t].ent} ELSE saved
  /\ \/ At(t, "persist") /\ Goto(t, "complete") /\ io' = [io EXCEPT ![t] = NoIo]
     \/ At(t, "store") /\ ok /\ UNCHANGED th /\ io' = [io EXCEPT ![t].pc = "encode"]
     \/ At(t, "store") /\ ~ok /\ Return(t) /\ io' = [io EXCEPT ![t] = NoIo]

PutWrite(t) ==
  /\ IoAt(t, "write") /\ StoreFree
  /\ tmp' = tmp \cup {ArtifactOf[io[t].payload.req]}
  /\ io' = [io EXCEPT ![t].pc = "rename"]
  /\ UNCHANGED <<vars, disk, saved, ready, crashes>>

PutFailsSilently(t) ==
  /\ IoAt(t, "write") /\ StoreFree
  /\ tmp' \in {tmp, tmp \cup {ArtifactOf[io[t].payload.req]}}
  /\ PutReturns(t, TRUE)
  /\ UNCHANGED <<engineFrame, registry, disk, ready, crashes>>
\* The temporary file cannot be opened, or cannot be written and is left behind.
PutFails(t) ==
  /\ IoAt(t, "write") /\ StoreFree
  /\ tmp' \in {tmp, tmp \cup {ArtifactOf[io[t].payload.req]}}
  /\ PutReturns(t, FALSE)
  /\ UNCHANGED <<engineFrame, registry, disk, ready, crashes>>

\* rename replaces the file in one step, or fails, as it must when recover deleted the
\* source; the temporary file is gone either way.
PutRename(t) ==
  LET a == ArtifactOf[io[t].payload.req] IN
  /\ IoAt(t, "rename")
  /\ \/ a \in tmp /\ disk' = Put(disk, a, io[t].payload) /\ PutReturns(t, TRUE)
     \/ UNCHANGED disk /\ PutReturns(t, FALSE)
  /\ tmp' = tmp \ {a}
  /\ UNCHANGED <<engineFrame, registry, ready, crashes>>

(***************************************************************************)
(* recover.                                                                *)
(***************************************************************************)
\* Bound: the pool holds one more entry for every file.
Recover(t) ==
  /\ HasStore
  /\ RecoverFirst => ~ready /\ \A u \in Threads : At(u, "idle")
  /\ Cardinality(Artifacts) <= Cardinality(EntryIds \ DOMAIN entry)
  /\ Call(t, [Idle EXCEPT !.pc = "store"])
  /\ io' = [io EXCEPT ![t].pc = "clean"]
  /\ UNCHANGED <<engineFrame, registry, disk, tmp, saved, ready, crashes>>

RecoverClean(t) ==
  /\ IoAt(t, "clean")
  /\ tmp' = {}
  /\ io' = [io EXCEPT ![t].pc = "list"]
  /\ UNCHANGED <<vars, disk, saved, ready, crashes>>

RecoverList(t) ==
  /\ IoAt(t, "list") /\ StoreFree
  /\ io' = [io EXCEPT ![t].pc = "load", ![t].todo = DOMAIN disk]
  /\ UNCHANGED <<vars, disk, tmp, saved, ready, crashes>>

RecoverLoadRetries(t) ==
  /\ IoAt(t, "load") /\ StoreFree
  /\ \E a \in io[t].todo :
       io' = IF disk[a].intact
             THEN [io EXCEPT ![t].todo = @ \ {a}, ![t].pc = "insert", ![t].payload = disk[a]]
             ELSE io
  /\ UNCHANGED <<vars, disk, tmp, saved, ready, crashes>>
\* load_entry; a damaged file is counted and skipped.
RecoverLoad(t) ==
  /\ IoAt(t, "load") /\ StoreFree
  /\ \E a \in io[t].todo :
       io' = [io EXCEPT ![t].todo = @ \ {a},
                        ![t].pc = IF disk[a].intact THEN "insert" ELSE "load",
                        ![t].payload = parse_envelope(disk[a])]
  /\ UNCHANGED <<vars, disk, tmp, saved, ready, crashes>>

\* The entry is rebuilt without an executable and entered in the registry; its key
\* and facts are those of the stored descriptor and workload.
RecoverInsert(t) ==
  LET p == io[t].payload
      r == RecoveredAs[p.req] IN
  /\ IoAt(t, "insert") /\ RegistryFree
  /\ \E e \in EntryIds \ DOMAIN entry :
       /\ entry' = Put(entry, e,
            [req |-> r, generation |-> p.generation, cache_generation |-> p.cache_generation,
             invalidated |-> p.invalidated,
             lifecycle |-> IF p.invalidated THEN "Invalidated" ELSE "Valid",
             residency |-> "MetadataOnly", exec |-> FALSE,
             pin_count |-> 0, lease_count |-> 0, active_replays |-> 0])
       /\ by_artifact' = Index(ArtifactOf[p.req], e)
       /\ by_workload' = Put(by_workload, WorkloadOf[r], Append(Bucket(r), e))
       /\ key_current_gen' = IF p.invalidated THEN key_current_gen
                             ELSE Put(key_current_gen, KeyOf[r], p.generation)
       /\ saved' = saved \cup {e}
  /\ io' = [io EXCEPT ![t].pc = "load", ![t].payload = NoPayload]
  /\ UNCHANGED <<lease, generations, inflight, active_leases, active_replays, captures, th,
                 disk, tmp, ready, crashes>>

PastMaxSkipped(S) == 1
PastMaxReached(S) == Max(S \cup {0})
PastMax(S) == Max(S \cup {0}) + 1

\* The counters are raised past what by_artifact holds: a maximum taken under the
\* shared lock, then a load and a store of each counter.
RecoverMax(t) ==
  LET es == {by_artifact[a] : a \in DOMAIN by_artifact}
      graph == PastMax({entry[e].generation : e \in es})
      cache == PastMax({entry[e].cache_generation : e \in es}) IN
  /\ IoAt(t, "load") /\ io[t].todo = {}
  /\ io' = [io EXCEPT ![t].pc = "graph", ![t].cache = cache,
                      ![t].graph = IF graph > graph_generation_counter THEN graph ELSE 0]
  /\ UNCHANGED <<vars, disk, tmp, saved, ready, crashes>>

RecoverGraphCounter(t) ==
  /\ IoAt(t, "graph")
  /\ graph_generation_counter' = IF io[t].graph # 0 THEN io[t].graph ELSE graph_generation_counter
  /\ io' = [io EXCEPT ![t].pc = "cache", ![t].graph = 0,
                      ![t].cache = IF @ > cache_generation THEN @ ELSE 0]
  /\ UNCHANGED <<entry, lease, registry, cache_generation, inflight, active_leases, active_replays,
                 captures, th, disk, tmp, saved, ready, crashes>>

RecoverReturn(t) ==
  /\ IoAt(t, "cache")
  /\ cache_generation' = IF io[t].cache # 0 THEN io[t].cache ELSE cache_generation
  /\ io' = [io EXCEPT ![t] = NoIo] /\ Return(t)
  /\ ready' = TRUE
  /\ UNCHANGED <<entry, lease, registry, graph_generation_counter, inflight, active_leases,
                 active_replays, captures, disk, tmp, saved, crashes>>

(***************************************************************************)
(* The process dies in any state and a new engine is constructed on the    *)
(* same directory; files may have been damaged meanwhile.                  *)
(***************************************************************************)
Crash ==
  /\ crashes < MaxCrashes /\ crashes' = crashes + 1
  /\ entry' = << >> /\ lease' = << >>
  /\ by_artifact' = << >> /\ by_workload' = << >> /\ key_current_gen' = << >>
  /\ cache_generation' = 1 /\ graph_generation_counter' = 1
  /\ inflight' = << >>
  /\ active_leases' = 0 /\ active_replays' = 0 /\ captures' = 0
  /\ th' = [t \in Threads |-> Idle]
  /\ io' = [t \in Threads |-> NoIo] /\ saved' = {} /\ ready' = FALSE
  /\ \E bad \in SUBSET DOMAIN disk :
       disk' = [a \in DOMAIN disk |-> [disk[a] EXCEPT !.intact = @ /\ a \notin bad]]
  /\ UNCHANGED tmp
-----------------------------------------------------------------------------
StoreStep(t) ==
  \/ PersistCaptured(t) \/ PersistNext(t) \/ PutWrite(t) \/ PutFails(t) \/ PutRename(t)
  \/ RecoverClean(t) \/ RecoverList(t) \/ RecoverLoad(t) \/ RecoverInsert(t)
  \/ RecoverMax(t) \/ RecoverGraphCounter(t) \/ RecoverReturn(t)

EngineStep ==
  /\ \/ /\ \E t \in Threads : (~RecoverFirst \/ ready) /\ Start(t)
        /\ cache_generation' <= born + MaxInvalidations[crashes]
     \/ \E t \in Threads : Continue(t)
     \/ \E l \in DOMAIN lease : Release(l) \/ ReleaseStep(l)
  /\ UNCHANGED durable

DNext ==
  /\ \/ EngineStep
     \/ \E t \in Threads : StoreStep(t) \/ Recover(t)
     \/ \E t \in Threads : (~RecoverFirst \/ ready) /\ PersistAll(t)
     \/ Crash
  /\ born' = IF ready' /\ ~ready THEN cache_generation' ELSE born
  /\ dead' = dead \cup {<<entry'[e].req, entry'[e].generation>> :
                          e \in {x \in DOMAIN entry' : entry'[x].invalidated}}

DSpec == DInit /\ [][DNext]_dvars

\* A call under way goes on, in the engine or in the store.
DFairness ==
  \A t \in Threads : WF_dvars(((Continue(t) /\ UNCHANGED durable) \/ StoreStep(t)) /\ DNext)
DFairSpec == DSpec /\ DFairness
-----------------------------------------------------------------------------
\* What capture_graph or persist_all saved is what a restart would bring back: the
\* file of an entry that lookups still choose holds that entry, whatever other
\* captures, saves and invalidations of its artifact did since.
SavedSurvives ==
  \A e \in saved \cap Registered :
    LET a == ArtifactOf[entry[e].req] IN
    Current(e) => /\ a \in DOMAIN disk
                  /\ disk[a].intact => /\ disk[a].req = entry[e].req
                                       /\ disk[a].generation = entry[e].generation

\* recover: "Ensure generation counters are monotonic past recovered authority."
\* Once it returned, no generation of a file or an entry is ahead of the counters.
CountersPastRecovered ==
  ready => \A a \in DOMAIN disk : disk[a].intact =>
             /\ disk[a].generation < graph_generation_counter
             /\ disk[a].cache_generation <= cache_generation

\* Saving never replaces a file by one of an older generation of its artifact, not
\* even across restarts, after which the generation counter starts over.
FileGenerationMonotonic ==
  [][\A a \in DOMAIN disk :
       /\ a \in DOMAIN disk'
       /\ disk[a].intact /\ disk'[a].intact => disk[a].generation <= disk'[a].generation]_dvars

\* docs/persistence.md: on recovery "invalidated graphs are reconciled"; and
\* docs/invalidation.md: invalidation "persists where required".
InvalidatedStaysDead ==
  \A e \in Registered : Current(e) => <<entry[e].req, entry[e].generation>> \notin dead

\* Every call of a thread, store operations included, returns or is cut off by a
\* crash.
StoreCallsReturn == \A t \in Threads : ~At(t, "idle") ~> At(t, "idle")
=============================================================================
