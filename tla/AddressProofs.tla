---------------------------- MODULE AddressProofs ----------------------------
(***************************************************************************)
(* What by_artifact and the store's files say about the entries that       *)
(* lookups choose: every candidate can be addressed, an invalidation       *)
(* misses none, and what was saved is what a restart would bring back.     *)
(***************************************************************************)
EXTENDS DurableProofs

-----------------------------------------------------------------------------
\* A save that succeeds; every other step of the store leaves the files and the
\* persisted flags alone.
Renamed(t) ==
  /\ IoAt(t, "rename") /\ disk' = Put(disk, ArtifactOf[io[t].payload.req], io[t].payload)
  /\ PutReturns(t, TRUE)

\* The steps of the engine with its store, where recover is called first.
LEMMA SaveCases ==
  ASSUME RecoverFirst, EngineInv, StoreInv, RecoverInv, [DNext]_dvars
  PROVE  \/ [Next]_vars /\ UNCHANGED durable /\ (ready \/ UNCHANGED vars)
         \/ \E t \in Threads :
              /\ StoreStep(t) \/ Recover(t) \/ PersistAll(t)
              /\ StoreQuiet(t) /\ UNCHANGED disk /\ UNCHANGED saved
              /\ UNCHANGED ready \/ RecoverReturn(t)
         \/ \E t \in Threads : StoreStep(t) /\ StoreQuiet(t) /\ Renamed(t) /\ ready /\ ready'
         \/ \E t \in Threads : RecoverInsert(t) /\ ~ready /\ ~ready'
         \/ Crash
<1>0. TypeOK
  BY Zenon DEF EngineInv
<1>1. CASE UNCHANGED dvars
  BY <1>1, Zenon DEF dvars
<1>2. CASE EngineStep
  <2>1. ready
    BY <1>2, NothingRuns, Zenon DEF RecoverInv, Unready
  <2> QED BY <1>2, <2>1, Zenon DEF EngineStep, Next
<1>3. ASSUME NEW t \in Threads, RecoverInsert(t) PROVE ~ready /\ ~ready'
  BY <1>3, Zenon DEF RecoverInsert, IoAt, RecoverInv, Ready, RecoverPCs
<1>4. ASSUME NEW t \in Threads, StoreStep(t) \/ Recover(t) \/ PersistAll(t), ~RecoverInsert(t)
      PROVE  \/ UNCHANGED disk /\ UNCHANGED saved /\ (UNCHANGED ready \/ RecoverReturn(t))
             \/ StoreStep(t) /\ Renamed(t) /\ ready /\ ready'
  <2>1. CASE PutRename(t)
    <3>1. ready /\ UNCHANGED ready
      BY <2>1, Zenon DEF PutRename, IoAt, RecoverInv, Unready, RecoverOnly, RecoverPCs
    <3>2. StoreStep(t)
      BY <2>1, Zenon DEF StoreStep
    <3> QED BY <2>1, <3>1, <3>2 DEF PutRename, Renamed, PutReturns
  <2>2. CASE PersistCaptured(t) \/ PersistNext(t) \/ PersistAll(t) \/ PutWrite(t) \/ PutFails(t)
    BY <2>2, Zenon DEF PersistCaptured, PersistNext, PersistAll, PutWrite, PutFails, PutReturns
  <2>3. CASE Recover(t) \/ RecoverClean(t) \/ RecoverList(t) \/ RecoverLoad(t)
             \/ RecoverMax(t) \/ RecoverGraphCounter(t) \/ RecoverReturn(t)
    BY <2>3, Zenon DEF Recover, RecoverClean, RecoverList, RecoverLoad, RecoverMax, RecoverGraphCounter,
         RecoverReturn
  <2> QED BY <1>4, <2>1, <2>2, <2>3 DEF StoreStep
<1>5. \/ UNCHANGED dvars \/ EngineStep \/ Crash
      \/ \E t \in Threads : StoreStep(t) \/ Recover(t) \/ PersistAll(t)
  BY Zenon DEF DNext
<1>6. ASSUME NEW t \in Threads, StoreStep(t) \/ Recover(t) \/ PersistAll(t), ~RecoverInsert(t)
      PROVE  StoreQuiet(t)
  BY <1>0, <1>6, StoreQuietStep, Zenon
<1> QED BY <1>1, <1>2, <1>3, <1>4, <1>5, <1>6, Zenon

\* What recover rebuilds from a file has the artifact id the file is stored under.
ArtifactKept == \A r \in Requests : ArtifactOf[RecoveredAs[r]] = ArtifactOf[r]

\* Generations tell entries and files apart, across restarts too: no two files hold the
\* same one, and once recover returned the engine has an entry for that of every file.
FilesApart ==
  \A a, b \in DOMAIN disk :
    disk[a].intact /\ disk[b].intact /\ disk[a].generation = disk[b].generation => a = b
FilesKnown ==
  \A a \in DOMAIN disk : disk[a].intact =>
    \E e \in DOMAIN entry : entry[e].generation = disk[a].generation /\ ArtifactOf[entry[e].req] = a
UniqueInv == Distinct /\ FilesApart /\ (ready => FilesKnown)

\* The engine's steps: a capture takes a generation that nothing has.
LEMMA UniqueEngineInv ==
  ASSUME TypeOK, Ready, Distinct, [Next]_vars PROVE Distinct'
<1>1. CASE GenerationQuiet
  BY <1>1, Zenon DEF GenerationQuiet, Distinct
<1>2. ASSUME NEW t \in Threads, CaptureBuild(t) PROVE Distinct'
  <2>1. CASE UNCHANGED entry
    BY <2>1, Zenon DEF Distinct
  <2>2. ASSUME NEW e, e \notin DOMAIN entry, entry' = Put(entry, e, NewEntry(th[t].req)) PROVE Distinct'
    <3>1. /\ DOMAIN entry' = DOMAIN entry \cup {e} /\ \A f \in DOMAIN entry : entry'[f] = entry[f]
          /\ entry'[e].generation = graph_generation_counter
      BY <2>2, Zenon DEF Put, NewEntry, EntryFor
    <3>2. \A f \in DOMAIN entry : entry[f].generation # graph_generation_counter
      BY DEF Ready, EntriesBehind, TypeOK, Entry
    <3> QED BY <3>1, <3>2, Zenon DEF Distinct
  <2> QED BY <1>2, <2>1, <2>2 DEF CaptureBuild
<1>3. ASSUME NEW t \in Threads, Publish(t) PROVE Distinct'
  BY <1>3, Zenon DEF Publish, Distinct
<1> QED BY <1>1, <1>2, <1>3, GenerationCases

\* What recover enters has a generation that no entry has yet.
LEMMA RecoveredApart ==
  ASSUME EngineInv, StoreInv, Unready, FilesApart, NEW t \in Threads, RecoverInsert(t), NEW e, Recovered(t, e)
  PROVE  /\ \A f \in DOMAIN entry : entry[f].generation # entry'[e].generation
         /\ ArtifactOf[io[t].payload.req] \in DOMAIN disk
         /\ disk[ArtifactOf[io[t].payload.req]] = io[t].payload
         /\ ArtifactOf[io[t].payload.req] \notin DOMAIN by_artifact
<1> DEFINE p == io[t].payload
           a == ArtifactOf[p.req]
<1>1. a \in DOMAIN disk /\ disk[a] = p /\ a \notin DOMAIN by_artifact
  BY Zenon DEF RecoverInsert, IoAt, Unready, Listed
<1>2. entry'[e].generation = p.generation /\ p.intact
  BY Zenon DEF Recovered
<1> HIDE DEF a, p
<1>3. ASSUME NEW f \in DOMAIN entry PROVE entry[f].generation # p.generation
  <2>1. PICK b \in DOMAIN by_artifact : by_artifact[b] = f
    BY Zenon DEF Unready, Indexed
  <2>2. FromFile(b)
    BY Zenon DEF Unready
  <2> QED BY <1>1, <1>2, <2>1, <2>2, Zenon DEF FromFile, FilesApart
<1> QED BY <1>1, <1>2, <1>3, Zenon DEF a, p

\* Generations stay unique in every step, crash and recovery included.
LEMMA UniqueStepInv ==
  ASSUME RecoverFirst, ArtifactKept, EngineInv, StoreInv, RecoverInv, UniqueInv, [DNext]_dvars
  PROVE  UniqueInv'
<1>0. TypeOK /\ FilesOK
  BY Zenon DEF EngineInv, StoreInv
<1>1. CASE [Next]_vars /\ UNCHANGED durable /\ (ready \/ UNCHANGED vars)
  <2>1. UNCHANGED <<disk, ready>>
    BY <1>1, Zenon DEF durable
  <2>2. Distinct'
    <3>1. CASE UNCHANGED vars
      BY <3>1, Zenon DEF vars, UniqueInv, Distinct
    <3>2. CASE ready
      BY <1>0, <1>1, <3>2, UniqueEngineInv DEF RecoverInv, UniqueInv
    <3> QED BY <1>1, <3>1, <3>2, Zenon
  <2>3. EntriesKept
    BY <1>0, <1>1, IdentityCases, Zenon
  <2>4. FilesApart'
    BY <2>1, Zenon DEF UniqueInv, FilesApart
  <2>5. ready' => FilesKnown'
    BY <2>1, <2>3 DEF UniqueInv, FilesKnown, EntriesKept
  <2> QED BY <2>2, <2>4, <2>5 DEF UniqueInv
<1>2. ASSUME NEW t \in Threads, StoreQuiet(t), UNCHANGED disk, UNCHANGED ready \/ RecoverReturn(t)
      PROVE  UniqueInv'
  <2>1. UNCHANGED entry
    BY <1>2, Zenon DEF StoreQuiet
  <2>2. Distinct' /\ FilesApart'
    BY <1>2, <2>1, Zenon DEF UniqueInv, Distinct, FilesApart
  <2>3. ASSUME ~ready, RecoverReturn(t), NEW a \in DOMAIN disk, disk[a].intact
        PROVE  \E e \in DOMAIN entry : entry[e].generation = disk[a].generation /\ ArtifactOf[entry[e].req] = a
    <3>1. a \in DOMAIN by_artifact /\ FromFile(a)
      BY <2>3, Zenon DEF RecoverReturn, IoAt, RecoverInv, Unready, Reading, Pending
    <3>2. by_artifact[a] \in DOMAIN entry /\ disk[a].req \in Requests /\ ArtifactOf[disk[a].req] = a
      BY <1>0, <3>1, Zenon DEF TypeOK, FilesOK, Payload
    <3> QED BY <3>1, <3>2 DEF FromFile, ArtifactKept
  <2>4. ready' => FilesKnown'
    BY <1>2, <2>1, <2>3 DEF UniqueInv, FilesKnown
  <2> QED BY <2>2, <2>4, Zenon DEF UniqueInv
<1>3. ASSUME NEW t \in Threads, StoreQuiet(t), Renamed(t), ready, ready' PROVE UniqueInv'
  <2> DEFINE p == io[t].payload
             a == ArtifactOf[p.req]
             e == io[t].ent
  <2>1. UNCHANGED entry /\ disk' = Put(disk, a, p)
    BY <1>3, Zenon DEF StoreQuiet, Renamed
  <2>2. e \in DOMAIN entry /\ p.req = entry[e].req /\ p.generation = entry[e].generation
    BY <1>3, Zenon DEF StoreInv, IoOK, Renamed, IoAt, PutPCs, Copied
  <2> HIDE DEF p, e
  <2>3. ArtifactOf[entry[e].req] = a
    BY <2>2, Zenon
  <2>4. FilesKnown'
    BY <1>3, <2>1, <2>2, <2>3 DEF UniqueInv, FilesKnown, Put
  <2>5. \A b \in DOMAIN disk : disk[b].intact /\ disk[b].generation = p.generation => b = a
    BY <1>3, <2>2, <2>3 DEF UniqueInv, FilesKnown, Distinct
  <2>6. FilesApart'
    BY <2>1, <2>5 DEF UniqueInv, FilesApart, Put
  <2>7. Distinct'
    BY <2>1, Zenon DEF UniqueInv, Distinct
  <2> QED BY <2>4, <2>6, <2>7, Zenon DEF UniqueInv
<1>4. ASSUME NEW t \in Threads, RecoverInsert(t), ~ready, ~ready' PROVE UniqueInv'
  <2>1. PICK e : Recovered(t, e)
    BY <1>0, <1>4, RecoverInserts
  <2>2. \A f \in DOMAIN entry : entry[f].generation # entry'[e].generation
    BY <1>4, <2>1, RecoveredApart, Zenon DEF RecoverInv, UniqueInv
  <2>3. DOMAIN entry' = DOMAIN entry \cup {e} /\ \A f \in DOMAIN entry : entry'[f] = entry[f]
    BY <2>1, Zenon DEF Recovered
  <2>4. Distinct'
    BY <2>2, <2>3, Zenon DEF UniqueInv, Distinct
  <2>5. FilesApart'
    BY <1>4, Zenon DEF RecoverInsert, UniqueInv, FilesApart
  <2> QED BY <1>4, <2>4, <2>5, Zenon DEF UniqueInv
<1>5. CASE Crash
  <2>0. ~ready'
    BY <1>5, Zenon DEF Crash
  <2>1. DOMAIN entry' = {}
    BY <1>5 DEF Crash
  <2>2. PICK bad : disk' = [a \in DOMAIN disk |-> [disk[a] EXCEPT !.intact = @ /\ a \notin bad]]
    BY <1>5, Zenon DEF Crash
  <2>3. \A a \in DOMAIN disk : disk'[a].generation = disk[a].generation /\ (disk'[a].intact => disk[a].intact)
    BY <1>0, <2>2, Zenon DEF FilesOK, Payload
  <2>4. DOMAIN disk' = DOMAIN disk
    BY <2>2, Zenon
  <2>5. FilesApart'
    BY <2>3, <2>4, Zenon DEF UniqueInv, FilesApart
  <2>6. Distinct'
    BY <2>1, Zenon DEF Distinct
  <2> QED BY <2>0, <2>5, <2>6, Zenon DEF UniqueInv
<1> QED BY <1>1, <1>2, <1>3, <1>4, <1>5, SaveCases, Zenon

\* A step that leaves entries and registry alone leaves the candidates alone.
LEMMA QuietAddresses ==
  ASSUME NEW t \in Threads, StoreQuiet(t)
  PROVE  /\ UNCHANGED <<entry, by_artifact, key_current_gen, Registered>>
         /\ \A e : Current(e)' = Current(e) /\ Addressed(e)' = Addressed(e)
<1>1. UNCHANGED <<entry, by_artifact, by_workload, key_current_gen>>
  BY Zenon DEF StoreQuiet, registry
<1> QED BY <1>1 DEF Registered, Current, Addressed

\* Recovering an entry makes no other one a candidate and takes no index entry.
LEMMA RecoveredAddresses ==
  ASSUME ArtifactKept, EngineInv, StoreInv, Unready, FilesApart, NEW t \in Threads, RecoverInsert(t),
         NEW e, Recovered(t, e)
  PROVE  /\ Addressed(e)'
         /\ \A f \in DOMAIN entry : (Current(f)' => Current(f)) /\ (Addressed(f) => Addressed(f)')
<1> DEFINE p == io[t].payload
           r == RecoveredAs[p.req]
           a == ArtifactOf[p.req]
<1>1. /\ e \notin DOMAIN entry /\ \A f \in DOMAIN entry : entry'[f] = entry[f]
      /\ entry'[e].req = r /\ p.req \in Requests /\ entry'[e].generation = p.generation
      /\ by_artifact' = Put(by_artifact, a, e)
      /\ key_current_gen' = IF p.invalidated THEN key_current_gen ELSE Put(key_current_gen, KeyOf[r], p.generation)
  BY Zenon DEF Recovered, Payload
<1>2. a \notin DOMAIN by_artifact /\ \A f \in DOMAIN entry : entry[f].generation # p.generation
  <2>1. a \notin DOMAIN by_artifact /\ \A f \in DOMAIN entry : entry[f].generation # entry'[e].generation
    BY RecoveredApart, Zenon
  <2> QED BY <1>1, <2>1, Zenon
<1>3. ArtifactOf[r] = a
  BY <1>1, Zenon DEF ArtifactKept
<1> HIDE DEF p, r, a
<1>4. Addressed(e)'
  BY <1>1, <1>3, Zenon DEF Addressed, Put
<1>5. ASSUME NEW f \in DOMAIN entry, Current(f)' PROVE Current(f)
  <2>1. CASE key_current_gen' = key_current_gen
    BY <1>1, <1>5, <2>1, Zenon DEF Current
  <2>2. CASE key_current_gen' = Put(key_current_gen, KeyOf[r], p.generation)
    <3>1. KeyOf[entry[f].req] # KeyOf[r]
      BY <1>1, <1>2, <1>5, <2>2 DEF Current, Put
    <3> QED BY <1>1, <1>5, <2>2, <3>1 DEF Current, Put
  <2> QED BY <1>1, <2>1, <2>2, Zenon
<1>6. ASSUME NEW f \in DOMAIN entry, Addressed(f) PROVE Addressed(f)'
  BY <1>1, <1>2, <1>6, Zenon DEF Addressed, Put
<1> QED BY <1>4, <1>5, <1>6, Zenon

\* Every candidate stays addressed whatever the store does.
LEMMA AddrDurableInv ==
  ASSUME RecoverFirst, Apart, ArtifactKept, EngineInv, StoreInv, RecoverInv, UniqueInv, AddrInv, [DNext]_dvars
  PROVE  AddrInv'
<1>0. TypeOK /\ RegistryInv /\ Distinct /\ FilesApart /\ Registered \subseteq DOMAIN entry
      /\ \A a \in DOMAIN by_artifact : by_artifact[a] \in DOMAIN entry
  BY RegisteredExist, Zenon DEF EngineInv, UniqueInv, TypeOK
<1>1. CASE [Next]_vars
  BY <1>0, <1>1, AddrStepInv, Zenon
<1>2. ASSUME NEW t \in Threads, StoreQuiet(t) PROVE AddrInv'
  BY <1>2, QuietAddresses, Zenon DEF AddrInv
<1>3. ASSUME NEW t \in Threads, RecoverInsert(t), ~ready PROVE AddrInv'
  <2>1. PICK e : Recovered(t, e)
    BY <1>0, <1>3, RecoverInserts, Zenon
  <2>2. Unready
    BY <1>3, Zenon DEF RecoverInv
  <2>3. /\ Registered' = Registered \cup {e} /\ \A f \in DOMAIN entry : entry'[f] = entry[f]
        /\ DOMAIN by_artifact' = DOMAIN by_artifact \cup {ArtifactOf[io[t].payload.req]}
        /\ by_artifact'[ArtifactOf[io[t].payload.req]] = e
        /\ \A b \in DOMAIN by_artifact \ {ArtifactOf[io[t].payload.req]} : by_artifact'[b] = by_artifact[b]
        /\ entry'[e].req = RecoveredAs[io[t].payload.req] /\ io[t].payload.req \in Requests
    BY <2>1, Zenon DEF Recovered, Put, Payload
  <2>4. /\ Addressed(e)'
        /\ \A f \in DOMAIN entry : (Current(f)' => Current(f)) /\ (Addressed(f) => Addressed(f)')
    BY <1>0, <1>3, <2>1, <2>2, RecoveredAddresses
  <2>5. \A b \in DOMAIN by_artifact' : ArtifactOf[entry'[by_artifact'[b]].req] = b
    <3> DEFINE a == ArtifactOf[io[t].payload.req]
    <3>1. ArtifactOf[entry'[e].req] = a
      BY <2>3, Zenon DEF ArtifactKept
    <3>2. \A b \in DOMAIN by_artifact : ArtifactOf[entry'[by_artifact[b]].req] = b
      BY <1>0, <2>3, Zenon DEF AddrInv
    <3> HIDE DEF a
    <3> QED BY <2>3, <3>1, <3>2, Zenon DEF a
  <2> QED BY <1>0, <2>3, <2>4, <2>5 DEF AddrInv
<1>4. CASE Crash
  <2>1. DOMAIN by_artifact' = {} /\ DOMAIN by_workload' = {}
    BY <1>4 DEF Crash
  <2> QED BY <2>1, Zenon DEF AddrInv, Registered
<1> QED BY <1>1, <1>2, <1>3, <1>4, SaveCases, Zenon

\* A single caller's invalidation meets no recovery and no save under way.
LEMMA SweptDurableInv ==
  ASSUME RecoverFirst, OneCaller, EngineInv, StoreInv, RecoverInv, UniqueInv, AddrInv, Swept, [DNext]_dvars
  PROVE  Swept'
<1>0. TypeOK /\ RegistryInv /\ Distinct /\ th \in [Threads -> Thread]
  BY Zenon DEF EngineInv, UniqueInv, TypeOK
<1>1. CASE [Next]_vars
  BY <1>0, <1>1, SweptStepInv, Zenon
<1>2. ASSUME NEW t \in Threads, StoreQuiet(t) PROVE Swept'
  <2>1. \A u \in Threads : th'[u].pc = "mark" => th'[u] = th[u]
    BY <1>0, <1>2 DEF StoreQuiet, StoreMoves, Return, Goto, Call, Idle, Thread
  <2> QED BY <1>2, <2>1, QuietAddresses, Zenon DEF Swept
<1>3. ASSUME NEW t \in Threads, RecoverInsert(t), ~ready PROVE Swept'
  BY <1>3, Zenon DEF RecoverInsert, RecoverInv, Unready, RecoverOnly, Swept
<1>4. CASE Crash
  BY <1>4, Zenon DEF Crash, Idle, Swept
<1> QED BY <1>1, <1>2, <1>3, <1>4, SaveCases, Zenon

\* The invariants about generations and addresses hold in every reachable state.
LEMMA AddressesAlways ==
  ASSUME RecoverFirst, Apart, ArtifactKept
  PROVE  DSpec => [](EngineInv /\ StoreInv /\ RecoverInv /\ UniqueInv /\ AddrInv)
<1>1. DInit => UniqueInv /\ AddrInv
  BY DEF DInit, Init, UniqueInv, Distinct, FilesApart, FilesKnown, AddrInv, Registered
<1>2. EngineInv /\ StoreInv /\ RecoverInv /\ UniqueInv /\ AddrInv /\ [DNext]_dvars => UniqueInv' /\ AddrInv'
  BY UniqueStepInv, AddrDurableInv, Zenon
<1> QED BY <1>1, <1>2, RecoverInvAlways, DurableInvAlways, PTL DEF DSpec

\* Across saves, restarts and recoveries every entry a lookup can still choose is one
\* that invalidate, pin, evict and persist_all find, and a key has at most one.
THEOREM DurableCandidatesAreAddressable ==
  ASSUME RecoverFirst, Apart, ArtifactKept
  PROVE  DSpec => [](CandidatesAreAddressable /\ CurrentUnique)
<1>1. AddrInv => CandidatesAreAddressable
  BY Zenon DEF AddrInv, Addressed, CandidatesAreAddressable
<1>2. EngineInv /\ UniqueInv => CurrentUnique
  <2>1. EngineInv => Registered \subseteq DOMAIN entry
    BY RegisteredExist, Zenon DEF EngineInv
  <2> QED BY <2>1 DEF UniqueInv, Distinct, CurrentUnique, Current
<1> QED BY <1>1, <1>2, AddressesAlways, PTL

\* A single caller's invalidate is complete among recovered entries as well.
THEOREM DurableInvalidateIsComplete ==
  ASSUME RecoverFirst, Apart, ArtifactKept, OneCaller
  PROVE  DSpec => []InvalidateIsComplete
<1>1. DInit => Swept
  BY DEF DInit, Init, Swept, Idle
<1>2. EngineInv /\ StoreInv /\ RecoverInv /\ UniqueInv /\ AddrInv /\ Swept /\ [DNext]_dvars => Swept'
  BY SweptDurableInv, Zenon
<1>3. Swept => InvalidateIsComplete
  BY Zenon DEF Swept, InvalidateIsComplete, At
<1> QED BY <1>1, <1>2, <1>3, AddressesAlways, PTL DEF DSpec
-----------------------------------------------------------------------------
\* What recover rebuilds from a file is the graph that was stored; and persist_all, which
\* writes copies it may have taken before another thread's capture, runs alone.
Faithful == \A r \in Requests : RecoveredAs[r] = r
Sequential == OneCaller \/ "persist_all" \notin Ops

\* The inductive invariant of the saves: what is being saved is what by_artifact holds
\* under its artifact id, and no file is newer than that, nor than what is about to be
\* published.
SavePCs == {"encode"} \cup PutPCs
Saving(t) ==
  /\ th[t].pc = "persist" => entry[th[t].ent].req = th[t].req /\ Addressed(th[t].ent)
  /\ th[t].pc = "store" /\ io[t].pc \in SavePCs =>
       /\ OneCaller /\ \A e \in io[t].todo : Addressed(e)
       /\ io[t].pc \in PutPCs => Addressed(io[t].ent)
Newer(t) ==
  th[t].pc = "publish" =>
    LET a == ArtifactOf[th[t].req] IN
    a \in DOMAIN disk /\ disk[a].intact => disk[a].generation <= entry[th[t].ent].generation
FilesOlder ==
  \A a \in DOMAIN disk \cap DOMAIN by_artifact :
    disk[a].intact => disk[a].generation <= entry[by_artifact[a]].generation
SaveInv ==
  /\ \A t \in Threads : Saving(t) /\ Newer(t)
  /\ FilesOlder /\ saved \subseteq Registered /\ SavedSurvives

\* The engine's steps: saves under way keep their index entries.
LEMMA SavingEngineInv ==
  ASSUME Apart, TypeOK, FlightInv, RegistryInv, StoreInv, SaveInv, [Next]_vars, UNCHANGED durable,
         NEW u \in Threads
  PROVE  Saving(u)'
<1>0. /\ UNCHANGED io /\ EntriesKept /\ IoOK(u) /\ th \in [Threads -> Thread]
      /\ th[u].pc \in {"publish", "persist"} => th[u].ent \in DOMAIN entry
  BY IdentityCases, Zenon DEF durable, StoreInv, TypeOK, EntryPCs
<1>1. ASSUME th'[u].pc = "persist"
      PROVE  entry'[th'[u].ent].req = th'[u].req /\ \A e : e = th'[u].ent => Addressed(e)'
  <2>1. CASE th'[u] = th[u]
    <3>1. entry[th[u].ent].req = th[u].req /\ Addressed(th[u].ent) /\ th[u].ent \in DOMAIN entry
      BY <1>0, <1>1, <2>1 DEF SaveInv, Saving
    <3>2. ASSUME NEW v \in Threads, Publish(v) PROVE ArtifactOf[th[v].req] # ArtifactOf[entry[th[u].ent].req]
      <4>1. v # u
        BY <1>1, <2>1, <3>2 DEF Publish, At
      <4> QED BY <1>1, <2>1, <3>1, <3>2, <4>1, OwnersApart DEF Publish, At
    <3>3. PICK e : e = th[u].ent
      BY Zenon
    <3>4. Addressed(e)'
      BY <3>1, <3>2, <3>3, AddressedKept
    <3> QED BY <1>0, <2>1, <3>1, <3>3, <3>4 DEF EntriesKept
  <2>2. CASE Publish(u)
    <3>1. /\ UNCHANGED entry /\ by_artifact' = Put(by_artifact, ArtifactOf[th[u].req], th[u].ent)
          /\ th'[u].ent = th[u].ent /\ th'[u].req = th[u].req /\ entry[th[u].ent].req = th[u].req
      BY <1>0, <2>2 DEF Publish, Index, Thread, RegistryInv, At
    <3> QED BY <3>1, Zenon DEF Addressed, Put
  <2> QED BY <1>1, <2>1, <2>2, PhaseCases
<1>2. ASSUME th'[u].pc = "store", io'[u].pc \in SavePCs
      PROVE  /\ OneCaller /\ \A e \in io[u].todo : Addressed(e)'
             /\ io[u].pc \in PutPCs => \A e : e = io[u].ent => Addressed(e)'
  <2>1. th[u].pc = "store"
    BY <1>2, StoreParked, Zenon
  <2>2. /\ OneCaller /\ \A e \in io[u].todo : Addressed(e)
        /\ io[u].pc \in PutPCs => Addressed(io[u].ent)
    BY <1>0, <1>2, <2>1 DEF SaveInv, Saving
  <2>3. io[u].todo \subseteq DOMAIN entry /\ (io[u].pc \in PutPCs => io[u].ent \in DOMAIN entry)
    BY <1>0, <1>2, <2>1 DEF IoOK, SavePCs, Copied
  <2>4. \A v \in Threads : ~Publish(v)
    BY <2>1, <2>2 DEF OneCaller, Publish, At
  <2>5. \A e \in DOMAIN entry : Addressed(e) => Addressed(e)'
    BY <2>4, AddressedKept
  <2> QED BY <2>2, <2>3, <2>5, Zenon
<1>3. th'[u].pc = "persist" => Addressed(th[u].ent)'
  BY <1>1, Zenon DEF Addressed
<1>4. io[u].pc \in PutPCs /\ th'[u].pc = "store" /\ io'[u].pc \in SavePCs => Addressed(io[u].ent)'
  BY <1>0, <1>2, Zenon DEF Addressed
<1> QED BY <1>0, <1>1, <1>2, <1>3, <1>4 DEF Saving

\* The engine's steps: no file gets ahead of the index or of a publication to come, and
\* what was saved stays saved.
LEMMA SaveEngineInv ==
  ASSUME Apart, EngineInv, StoreInv, Ready, Distinct, SaveInv, [Next]_vars, UNCHANGED durable
  PROVE  SaveInv'
<1>0. TypeOK /\ FlightInv /\ RegistryInv /\ UNCHANGED <<disk, io, saved>> /\ EntriesKept
  BY IdentityCases, Zenon DEF EngineInv, durable
<1>1. /\ th \in [Threads -> Thread] /\ graph_generation_counter \in Nat
      /\ \A e \in DOMAIN entry : entry[e].generation \in Nat
      /\ \A a \in DOMAIN disk : disk[a].generation \in Nat
      /\ \A a \in DOMAIN by_artifact : by_artifact[a] \in DOMAIN entry
      /\ \A t \in Threads : th[t].pc = "publish" => th[t].ent \in DOMAIN entry
      /\ Registered \subseteq DOMAIN entry
  BY <1>0, RegisteredExist DEF TypeOK, Entry, EntryPCs, StoreInv, FilesOK, Payload
<1>2. Registered \subseteq Registered'
  <2>1. CASE UNCHANGED registry
    BY <2>1 DEF registry, Registered
  <2>2. ASSUME NEW v \in Threads, Publish(v) PROVE Registered \subseteq Registered'
    <3>1. th[v].req \in Requests /\ th[v].ent \in EntryIds
      BY <1>0, <2>2, Zenon DEF Publish, At, TypeOK, EntryPCs, LookupPCs
    <3> QED BY <1>0, <2>2, <3>1, AppendRegisters, Zenon DEF Publish
  <2> QED BY <2>1, <2>2, RegistryCases
<1>3. ASSUME NEW u \in Threads PROVE Newer(u)'
  <2>1. CASE th'[u] = th[u]
    BY <1>0, <1>1, <2>1 DEF SaveInv, Newer, EntriesKept
  <2>2. ASSUME CaptureBuild(u), th'[u].pc = "publish" PROVE Newer(u)'
    <3>1. PICK e : entry' = Put(entry, e, NewEntry(th[u].req)) /\ th'[u].ent = e
      BY <1>1, <2>2 DEF CaptureBuild, Thread
    <3>3. entry'[e].generation = graph_generation_counter
      BY <3>1, Zenon DEF Put, NewEntry, EntryFor
    <3>2. \A a \in DOMAIN disk : disk[a].intact => disk[a].generation <= graph_generation_counter
      BY <1>1 DEF Ready, FilesBehind
    <3> QED BY <1>0, <3>1, <3>2, <3>3 DEF Newer
  <2>3. CASE th'[u].pc # "publish"
    BY <2>3, Zenon DEF Newer
  <2> QED BY <1>0, <2>1, <2>2, <2>3, PhaseCases
<1>4. FilesOlder'
  <2>1. CASE UNCHANGED registry
    BY <1>0, <1>1, <2>1 DEF SaveInv, FilesOlder, registry, EntriesKept
  <2>2. ASSUME NEW v \in Threads, Publish(v) PROVE FilesOlder'
    <3> DEFINE a == ArtifactOf[th[v].req]
    <3>1. UNCHANGED entry /\ by_artifact' = Put(by_artifact, a, th[v].ent)
      BY <2>2, Zenon DEF Publish, Index
    <3>2. a \in DOMAIN disk /\ disk[a].intact => disk[a].generation <= entry[th[v].ent].generation
      BY <2>2 DEF Publish, At, SaveInv, Newer
    <3> HIDE DEF a
    <3> QED BY <1>0, <3>1, <3>2 DEF SaveInv, FilesOlder, Put
  <2> QED BY <2>1, <2>2, RegistryCases, Zenon
<1>5. SavedSurvives'
  <2> SUFFICES ASSUME NEW e \in saved, Current(e)'
      PROVE  LET a == ArtifactOf[entry'[e].req] IN
             /\ a \in DOMAIN disk
             /\ disk[a].intact => disk[a].req = entry'[e].req /\ disk[a].generation = entry'[e].generation
    BY <1>0, Zenon DEF SavedSurvives
  <2>1. e \in Registered /\ e \in DOMAIN entry
    BY <1>1, Zenon DEF SaveInv
  <2>2. Current(e)
    BY <1>0, <2>1, CurrentKept
  <2>3. entry'[e].req = entry[e].req /\ entry'[e].generation = entry[e].generation
    BY <1>0, <2>1, Zenon DEF EntriesKept
  <2> QED BY <2>1, <2>2, <2>3 DEF SaveInv, SavedSurvives
<1>6. \A u \in Threads : Saving(u)'
  BY <1>0, SavingEngineInv
<1>7. saved' \subseteq Registered'
  BY <1>0, <1>2 DEF SaveInv
<1> QED BY <1>3, <1>4, <1>5, <1>6, <1>7 DEF SaveInv

\* A save goes on with the entries it has left.
SaveGoesOn(t) ==
  /\ th[t].pc = "store" /\ io[t].pc \in SavePCs /\ io'[t].todo \subseteq io[t].todo
  /\ io'[t].pc \in PutPCs => io'[t].ent \in io[t].todo \/ (io[t].pc \in PutPCs /\ io'[t].ent = io[t].ent)
\* How the steps of the store move its saves: only persist_all starts one, with what
\* by_artifact holds.
LEMMA SaveMoves ==
  ASSUME TypeOK, StoreInv, NEW t \in Threads, StoreStep(t) \/ Recover(t) \/ PersistAll(t), StoreQuiet(t)
  PROVE  /\ \A u \in Threads \ {t} : th'[u] = th[u] /\ io'[u] = io[u]
         /\ th'[t].pc \in {"publish", "persist"} => th'[t] = th[t]
         /\ th'[t].pc = "store" /\ io'[t].pc \in SavePCs =>
              \/ SaveGoesOn(t)
              \/ PersistAll(t) /\ io'[t].todo = Indexed /\ io'[t].pc = "encode"
<1>0. /\ th \in [Threads -> Thread] /\ io \in [Threads -> Io] /\ th[t] \in Thread /\ io[t] \in Io
      /\ IoOK(t) /\ \A u \in Threads \ {t} : th'[u] = th[u]
  BY StoreQuietFrame, Zenon
<1>1. th'[t].pc \in {"publish", "persist"} => th'[t] = th[t]
  BY <1>0 DEF StoreQuiet, StoreMoves, Return, Goto, Call, Idle, Thread
<1>2. CASE PersistAll(t)
  BY <1>0, <1>1, <1>2, Zenon DEF PersistAll, Indexed, Io, PutPCs
<1>3. CASE PersistNext(t)
  <2>1. CASE io' = [io EXCEPT ![t] = NoIo]
    BY <1>0, <1>1, <2>1 DEF NoIo, SavePCs, PutPCs
  <2>2. ASSUME NEW e \in io[t].todo, UNCHANGED th,
               io' = [io EXCEPT ![t].pc = "write", ![t].ent = e, ![t].payload = Encode(e), ![t].todo = @ \ {e}]
        PROVE  SaveGoesOn(t) /\ \A u \in Threads \ {t} : io'[u] = io[u]
    BY <1>0, <1>3, <2>2 DEF PersistNext, IoAt, IoOK, Io, PutPCs, SavePCs, SaveGoesOn
  <2> QED BY <1>0, <1>1, <1>3, <2>1, <2>2, Zenon DEF PersistNext
<1>4. CASE PersistCaptured(t)
  BY <1>0, <1>1, <1>4 DEF PersistCaptured, At, vars
<1>5. CASE PutWrite(t)
  BY <1>0, <1>1, <1>5 DEF PutWrite, IoAt, Io, PutPCs, SavePCs, SaveGoesOn, vars
<1>6. CASE PutFails(t) \/ PutRename(t)
  <2>1. io[t].pc \in PutPCs
    BY <1>6, Zenon DEF PutFails, PutRename, IoAt, PutPCs
  <2>2. /\ \A u \in Threads \ {t} : io'[u] = io[u]
        /\ io'[t].pc = "none" \/ (At(t, "store") /\ io'[t].pc = "encode" /\ io'[t].todo = io[t].todo)
    BY <1>0, <1>6 DEF PutFails, PutRename, PutReturns, NoIo, Io
  <2> QED BY <1>0, <1>1, <2>1, <2>2 DEF SaveGoesOn, SavePCs, PutPCs, At
<1>7. CASE Recover(t) \/ RecoverClean(t) \/ RecoverList(t)
  BY <1>0, <1>1, <1>7 DEF Recover, RecoverClean, RecoverList, Io, SavePCs, PutPCs
<1>8. CASE RecoverLoad(t)
  BY <1>0, <1>1, <1>8 DEF RecoverLoad, Io, SavePCs, PutPCs
<1>9. CASE RecoverMax(t)
  <2>1. PICK m, n : io' = [io EXCEPT ![t].pc = "graph", ![t].cache = n, ![t].graph = m]
    BY <1>9, Zenon DEF RecoverMax
  <2> QED BY <1>0, <1>1, <2>1, Zenon DEF Io, SavePCs, PutPCs
<1>12. CASE RecoverGraphCounter(t)
  BY <1>0, <1>1, <1>12 DEF RecoverGraphCounter, Io, SavePCs, PutPCs
<1>10. CASE RecoverReturn(t)
  BY <1>0, <1>1, <1>10 DEF RecoverReturn, NoIo, Io, SavePCs, PutPCs
<1>11. CASE RecoverInsert(t)
  BY <1>0, <1>1, <1>11 DEF RecoverInsert, Io, SavePCs, PutPCs
<1> QED BY <1>2, <1>3, <1>4, <1>5, <1>6, <1>7, <1>8, <1>9, <1>10, <1>11, <1>12 DEF StoreStep

\* What a save writes stays what by_artifact holds under its artifact id.
LEMMA SavingStoreInv ==
  ASSUME Sequential, TypeOK, StoreInv, AddrInv, SaveInv, NEW t \in Threads,
         StoreStep(t) \/ Recover(t) \/ PersistAll(t), StoreQuiet(t), NEW u \in Threads
  PROVE  Saving(u)'
<1>0. UNCHANGED <<entry, by_artifact>> /\ Saving(u)
  BY QuietAddresses, Zenon DEF SaveInv
<1>1. CASE u # t
  BY <1>0, <1>1, SaveMoves DEF Saving, Addressed
<1>2. CASE u = t
  <2>1. ASSUME th'[t].pc = "persist" PROVE th'[t] = th[t]
    BY <2>1, SaveMoves, Zenon
  <2>2. CASE SaveGoesOn(t)
    <3>1. /\ OneCaller /\ \A e \in io'[t].todo : Addressed(e)
          /\ io'[t].pc \in PutPCs => Addressed(io'[t].ent)
      BY <1>0, <1>2, <2>2 DEF Saving, SaveGoesOn
    <3> QED BY <1>0, <1>2, <2>1, <3>1 DEF Saving, Addressed
  <2>3. CASE PersistAll(t) /\ io'[t].todo = Indexed /\ io'[t].pc = "encode"
    <3>1. OneCaller
      BY <2>3, Zenon DEF PersistAll, Sequential
    <3>2. \A e \in Indexed : Addressed(e)
      BY DEF AddrInv, Addressed, Indexed
    <3> QED BY <1>0, <1>2, <2>1, <2>3, <3>1, <3>2 DEF Saving, Addressed, PutPCs
  <2>4. CASE ~(th'[t].pc = "store" /\ io'[t].pc \in SavePCs)
    BY <1>0, <1>2, <2>1, <2>4, Zenon DEF Saving, Addressed
  <2> QED BY <2>2, <2>3, <2>4, SaveMoves, Zenon
<1> QED BY <1>1, <1>2

\* A step of the store that touches neither files nor persisted flags.
LEMMA SaveQuietInv ==
  ASSUME Sequential, TypeOK, StoreInv, AddrInv, SaveInv, NEW t \in Threads,
         StoreStep(t) \/ Recover(t) \/ PersistAll(t), StoreQuiet(t), UNCHANGED disk, UNCHANGED saved
  PROVE  SaveInv'
<1>1. /\ UNCHANGED <<entry, by_artifact, Registered>> /\ \A e : Current(e)' = Current(e)
  BY QuietAddresses, Zenon
<1>2. ASSUME NEW u \in Threads PROVE Newer(u)'
  <2>1. th'[u].pc = "publish" => th'[u] = th[u]
    BY SaveMoves, Zenon
  <2> QED BY <1>1, <2>1 DEF SaveInv, Newer
<1>3. FilesOlder' /\ saved' \subseteq Registered'
  BY <1>1, Zenon DEF SaveInv, FilesOlder
<1>4. SavedSurvives'
  BY <1>1, Zenon DEF SaveInv, SavedSurvives
<1> QED BY <1>2, <1>3, <1>4, SavingStoreInv, Zenon DEF SaveInv

\* A save replaces the file of its artifact by the entry that by_artifact holds there.
LEMMA RenamedEntry ==
  ASSUME TypeOK, StoreInv, SaveInv, NEW t \in Threads, Renamed(t)
  PROVE  \E e \in DOMAIN entry :
           /\ e = io[t].ent /\ Addressed(e) /\ io[t].payload.req = entry[e].req
           /\ io[t].payload.generation = entry[e].generation
           /\ entry[e].generation \in Nat
           /\ disk' = Put(disk, ArtifactOf[entry[e].req], io[t].payload)
           /\ saved' = saved \cup {e}
           /\ th[t].pc = "persist" => entry[e].req = th[t].req
           /\ th[t].pc \in {"persist", "store"} /\ (th[t].pc = "store" => OneCaller)
<1>1. IoOK(t) /\ Saving(t) /\ io[t].pc = "rename" /\ io[t].pc \in PutPCs /\ io[t].pc \in SavePCs
  BY Zenon DEF StoreInv, SaveInv, Renamed, IoAt, PutPCs, SavePCs
<1>2. Copied(t) /\ th[t].pc \in {"persist", "store"}
  BY <1>1, Zenon DEF IoOK
<1>3. /\ Addressed(io[t].ent) /\ (th[t].pc = "persist" => entry[io[t].ent].req = th[t].req)
      /\ th[t].pc = "store" => OneCaller
  <2>1. CASE th[t].pc = "persist"
    <3>1. io[t].ent = th[t].ent
      BY <1>1, <2>1, Zenon DEF IoOK
    <3> QED BY <1>1, <2>1, <3>1 DEF Saving
  <2>2. CASE th[t].pc = "store"
    BY <1>1, <2>2 DEF Saving
  <2> QED BY <1>2, <2>1, <2>2
<1>4. io[t].ent \in DOMAIN entry /\ entry[io[t].ent].generation \in Nat
  BY <1>2, Zenon DEF Copied, TypeOK, Entry
<1> QED BY <1>2, <1>3, <1>4 DEF Copied, Renamed, PutReturns

\* A save that succeeds.
LEMMA SaveRenameInv ==
  ASSUME Sequential, Apart, EngineInv, StoreInv, AddrInv, SaveInv, NEW t \in Threads,
         StoreStep(t), StoreQuiet(t), Renamed(t)
  PROVE  SaveInv'
<1>0. /\ TypeOK /\ FlightInv /\ RegistryInv
      /\ UNCHANGED <<entry, by_artifact, Registered>> /\ \A e : Current(e)' = Current(e)
  BY QuietAddresses, Zenon DEF EngineInv
<1>1. PICK e \in DOMAIN entry :
        /\ e = io[t].ent /\ Addressed(e) /\ io[t].payload.req = entry[e].req
        /\ io[t].payload.generation = entry[e].generation
        /\ entry[e].generation \in Nat
        /\ disk' = Put(disk, ArtifactOf[entry[e].req], io[t].payload)
        /\ saved' = saved \cup {e}
        /\ th[t].pc = "persist" => entry[e].req = th[t].req
        /\ th[t].pc \in {"persist", "store"} /\ (th[t].pc = "store" => OneCaller)
  BY <1>0, RenamedEntry, Zenon
<1> DEFINE a == ArtifactOf[entry[e].req]
<1>2. /\ a \in DOMAIN by_artifact /\ by_artifact[a] = e
      /\ DOMAIN disk' = DOMAIN disk \cup {a} /\ disk'[a] = io[t].payload
      /\ \A b \in DOMAIN disk \ {a} : disk'[b] = disk[b]
  BY <1>1, Zenon DEF Addressed, Put
<1>3. ASSUME NEW u \in Threads PROVE Newer(u)'
  <2> SUFFICES ASSUME th'[u].pc = "publish" PROVE Newer(u)'
    BY Zenon DEF Newer
  <2>1. th'[u] = th[u]
    BY <1>0, SaveMoves, Zenon
  <2>2. ArtifactOf[th[u].req] # a
    <3>1. u # t
      BY <1>1, <2>1, Zenon
    <3> QED BY <1>0, <1>1, <2>1, <3>1, OwnersApart DEF OneCaller
  <2> HIDE DEF a
  <2> QED BY <1>0, <1>2, <2>1, <2>2 DEF SaveInv, Newer
<1>4. FilesOlder'
  <2>1. PICK n : n = entry[e].generation
    BY Zenon
  <2>2. n \in Nat /\ disk'[a].generation = n /\ entry[by_artifact[a]].generation = n
    BY <1>1, <1>2, <2>1, Zenon
  <2>3. disk'[a].generation <= entry[by_artifact[a]].generation
    BY <2>2
  <2> HIDE DEF a
  <2> QED BY <1>0, <1>2, <2>3, Zenon DEF SaveInv, FilesOlder
<1>5. saved' \subseteq Registered'
  <2>1. e \in Registered
    BY <1>0, <1>2 DEF RegistryInv
  <2> QED BY <1>0, <1>1, <2>1, Zenon DEF SaveInv
<1>6. SavedSurvives'
  <2> SUFFICES ASSUME NEW f \in saved', f \in Registered, Current(f)
      PROVE  LET b == ArtifactOf[entry[f].req] IN
             /\ b \in DOMAIN disk'
             /\ disk'[b].intact => disk'[b].req = entry[f].req /\ disk'[b].generation = entry[f].generation
    BY <1>0, Zenon DEF SavedSurvives
  <2>1. CASE f = e
    BY <1>1, <1>2, <2>1
  <2>2. CASE f # e
    <3>1. f \in saved /\ ArtifactOf[entry[f].req] # a
      BY <1>1, <1>2, <2>2 DEF AddrInv, Addressed
    <3> HIDE DEF a
    <3> QED BY <1>2, <3>1, Zenon DEF SaveInv, SavedSurvives
  <2> QED BY <2>1, <2>2, Zenon
<1> QED BY <1>0, <1>3, <1>4, <1>5, <1>6, SavingStoreInv DEF SaveInv

\* recover enters an entry: what it makes of a file is what the file holds.
LEMMA SaveRecoverInv ==
  ASSUME Faithful, EngineInv, StoreInv, Unready, FilesApart, SaveInv, NEW t \in Threads, RecoverInsert(t)
  PROVE  SaveInv'
<1>0. /\ TypeOK /\ ArtifactKept /\ Registered \subseteq DOMAIN entry
      /\ \A a \in DOMAIN by_artifact : by_artifact[a] \in DOMAIN entry
  BY RegisteredExist, Zenon DEF EngineInv, TypeOK, Faithful, ArtifactKept
<1>1. PICK e : Recovered(t, e)
  BY <1>0, RecoverInserts, Zenon
<1> DEFINE p == io[t].payload
           a == ArtifactOf[p.req]
<1>2. /\ p \in Payload /\ p.req \in Requests /\ p.generation \in Nat
      /\ e \notin DOMAIN entry /\ \A f \in DOMAIN entry : entry'[f] = entry[f]
      /\ entry'[e].req = RecoveredAs[p.req] /\ entry'[e].generation = p.generation
      /\ by_artifact' = Put(by_artifact, a, e) /\ Registered' = Registered \cup {e} /\ saved' = saved \cup {e}
  BY <1>1, Zenon DEF Recovered, Payload
<1>3. entry'[e].req = p.req /\ a \in DOMAIN disk /\ disk[a] = p /\ UNCHANGED <<disk, th>>
  BY <1>2, Zenon DEF Faithful, RecoverInsert, IoAt, Unready, Listed
<1> HIDE DEF p
<1>4. ASSUME NEW u \in Threads PROVE Saving(u)' /\ Newer(u)'
  <2>1. th[u].pc \in {"idle", "store"} /\ io[u].pc \in {"none"} \cup RecoverPCs
    BY Zenon DEF Unready, RecoverOnly
  <2>2. io'[u].pc \in {"none"} \cup RecoverPCs
    BY <2>1 DEF RecoverInsert, RecoverPCs, StoreInv, Io
  <2> QED BY <1>3, <2>1, <2>2 DEF Saving, Newer, SavePCs, PutPCs, RecoverPCs
<1>5. FilesOlder'
  <2>1. disk[a].generation <= entry'[e].generation
    BY <1>2, <1>3
  <2> HIDE DEF a
  <2> QED BY <1>0, <1>2, <1>3, <2>1, Zenon DEF SaveInv, FilesOlder, Put
<1>6. saved' \subseteq Registered'
  BY <1>2, Zenon DEF SaveInv
<1>7. SavedSurvives'
  <2> SUFFICES ASSUME NEW f \in saved', Current(f)'
      PROVE  LET b == ArtifactOf[entry'[f].req] IN
             /\ b \in DOMAIN disk
             /\ disk[b].intact => disk[b].req = entry'[f].req /\ disk[b].generation = entry'[f].generation
    BY <1>3, Zenon DEF SavedSurvives
  <2>1. CASE f = e
    BY <1>2, <1>3, <2>1, Zenon
  <2>2. CASE f # e
    <3>1. f \in saved /\ f \in Registered /\ f \in DOMAIN entry
      BY <1>0, <1>2, <2>2 DEF SaveInv
    <3>2. Current(f) /\ entry'[f] = entry[f]
      BY <1>0, <1>1, <1>2, <3>1, RecoveredAddresses
    <3> QED BY <3>1, <3>2, Zenon DEF SaveInv, SavedSurvives
  <2> QED BY <2>1, <2>2, Zenon
<1> QED BY <1>4, <1>5, <1>6, <1>7, Zenon DEF SaveInv

\* The saves stay in order in every step, crash and recovery included.
LEMMA SaveStepInv ==
  ASSUME RecoverFirst, Apart, Faithful, Sequential, EngineInv, StoreInv, RecoverInv, UniqueInv, AddrInv,
         SaveInv, [DNext]_dvars
  PROVE  SaveInv'
<1>0. TypeOK /\ Distinct /\ FilesApart
  BY Zenon DEF EngineInv, UniqueInv
<1>1. ASSUME [Next]_vars, UNCHANGED durable, ready \/ UNCHANGED vars PROVE SaveInv'
  <2>1. CASE UNCHANGED vars
    <3>1. UNCHANGED <<entry, by_artifact, key_current_gen, th, io, disk, saved, Registered>>
      BY <1>1, <2>1 DEF vars, durable, Registered
    <3>2. (\A u \in Threads : Saving(u)' /\ Newer(u)') /\ FilesOlder' /\ saved' \subseteq Registered'
      BY <3>1, Zenon DEF SaveInv, Saving, Newer, FilesOlder, Addressed
    <3>3. SavedSurvives'
      BY <3>1, Zenon DEF SaveInv, SavedSurvives, Current
    <3> QED BY <3>2, <3>3, Zenon DEF SaveInv
  <2>2. CASE ready
    BY <1>0, <1>1, <2>2, SaveEngineInv, Zenon DEF RecoverInv
  <2> QED BY <1>1, <2>1, <2>2
<1>2. CASE Crash
  <2>1. /\ \A u \in Threads : th'[u].pc = "idle"
        /\ DOMAIN by_artifact' = {} /\ saved' = {}
    BY <1>2 DEF Crash, Idle
  <2> QED BY <2>1, Zenon DEF SaveInv, Saving, Newer, FilesOlder, SavedSurvives
<1>3. ASSUME NEW t \in Threads, RecoverInsert(t), ~ready PROVE SaveInv'
  BY <1>0, <1>3, SaveRecoverInv, Zenon DEF RecoverInv
<1> QED BY <1>0, <1>1, <1>2, <1>3, SaveCases, SaveQuietInv, SaveRenameInv, Zenon

\* The invariant of the saves holds in every reachable state.
LEMMA SaveInvAlways ==
  ASSUME RecoverFirst, Apart, Faithful, Sequential
  PROVE  DSpec => [](EngineInv /\ StoreInv /\ RecoverInv /\ UniqueInv /\ AddrInv /\ SaveInv)
<1>0. ArtifactKept
  BY Zenon DEF Faithful, ArtifactKept
<1>1. DInit => SaveInv
  BY DEF DInit, Init, SaveInv, Saving, Newer, Idle, FilesOlder, SavedSurvives
<1>2. EngineInv /\ StoreInv /\ RecoverInv /\ UniqueInv /\ AddrInv /\ SaveInv /\ [DNext]_dvars => SaveInv'
  BY SaveStepInv, Zenon
<1>3. DSpec => [](EngineInv /\ StoreInv /\ RecoverInv /\ UniqueInv /\ AddrInv)
  BY <1>0, AddressesAlways, Zenon
<1> QED BY <1>1, <1>2, <1>3, PTL DEF DSpec

\* What capture_graph or persist_all saved is what a restart would bring back, whatever
\* other captures, saves, invalidations and restarts did to its artifact since.
THEOREM SavedSurvivesAlways ==
  ASSUME RecoverFirst, Apart, Faithful, Sequential PROVE DSpec => []SavedSurvives
<1>1. SaveInv => SavedSurvives
  BY Zenon DEF SaveInv
<1> QED BY <1>1, SaveInvAlways, PTL

\* No step, neither a save nor a crash, replaces a file by one of an older generation of
\* its artifact, although the generation counter starts over with each new engine.
THEOREM FileGenerationMonotonicAlways ==
  ASSUME RecoverFirst, Apart, Faithful, Sequential PROVE DSpec => FileGenerationMonotonic
<1> DEFINE Kept == \A a \in DOMAIN disk :
                     /\ a \in DOMAIN disk'
                     /\ disk[a].intact /\ disk'[a].intact => disk[a].generation <= disk'[a].generation
<1>1. ASSUME EngineInv, StoreInv, RecoverInv, UniqueInv, AddrInv, SaveInv, [DNext]_dvars PROVE Kept
  <2>0. TypeOK /\ \A a \in DOMAIN disk : disk[a] \in Payload /\ disk[a].generation \in Nat
    BY <1>1, Zenon DEF EngineInv, StoreInv, FilesOK, Payload
  <2>1. UNCHANGED disk => Kept
    BY <2>0
  <2>2. ASSUME NEW t \in Threads, Renamed(t) PROVE Kept
    <3>1. PICK e \in DOMAIN entry :
            /\ Addressed(e) /\ io[t].payload.generation = entry[e].generation
            /\ disk' = Put(disk, ArtifactOf[entry[e].req], io[t].payload)
      BY <1>1, <2>0, <2>2, RenamedEntry
    <3> DEFINE b == ArtifactOf[entry[e].req]
    <3>2. /\ b \in DOMAIN disk /\ disk[b].intact => disk[b].generation <= io[t].payload.generation
          /\ disk' = Put(disk, b, io[t].payload)
      BY <1>1, <3>1, Zenon DEF Addressed, SaveInv, FilesOlder
    <3> HIDE DEF b
    <3> QED BY <2>0, <3>2 DEF Put
  <2>3. CASE Crash
    <3>1. PICK bad : disk' = [a \in DOMAIN disk |-> [disk[a] EXCEPT !.intact = @ /\ a \notin bad]]
      BY <2>3, Zenon DEF Crash
    <3>2. DOMAIN disk' = DOMAIN disk /\ \A a \in DOMAIN disk : disk'[a].generation = disk[a].generation
      BY <2>0, <3>1, Zenon DEF Payload
    <3> QED BY <2>0, <3>2
  <2>4. (\E t \in Threads : RecoverInsert(t)) => UNCHANGED disk
    BY Zenon DEF RecoverInsert
  <2>5. UNCHANGED durable => UNCHANGED disk
    BY Zenon DEF durable
  <2> HIDE DEF Kept
  <2> QED BY <1>1, <2>1, <2>2, <2>3, <2>4, <2>5, SaveCases
<1>2. EngineInv /\ StoreInv /\ RecoverInv /\ UniqueInv /\ AddrInv /\ SaveInv /\ [DNext]_dvars => [Kept]_dvars
  BY <1>1, Zenon
<1> QED BY <1>2, SaveInvAlways, PTL DEF DSpec, FileGenerationMonotonic
==============================================================================
