----------------------------- MODULE LeaseProofs -----------------------------
(***************************************************************************)
(* GraphLease::release checks a counter and then subtracts from it, without*)
(* a lock.  LeaseAccounting is nevertheless an invariant of its own: the   *)
(* lease that is being released keeps both counters above zero.            *)
(***************************************************************************)
EXTENDS GraphCacheProofs, FiniteSetTheorems

\* The leases that count are finitely many.
LEMMA LeasesFinite ==
  ASSUME TypeOK
  PROVE  IsFiniteSet(DOMAIN lease) /\ \A e : IsFiniteSet(Counted(e))
<1>1. IsFiniteSet(DOMAIN lease)
  BY PoolAssumption, FS_Subset DEF TypeOK
<1>2. ASSUME NEW e PROVE IsFiniteSet(Counted(e))
  <2>1. Counted(e) \subseteq DOMAIN lease
    BY DEF Counted
  <2> QED BY <1>1, <2>1, FS_Subset
<1> QED BY <1>1, <1>2

\* A step that leaves the leases, their number and every entry's lease_count alone keeps
\* the accounts; a new entry starts without leases.
LeaseQuiet ==
  /\ UNCHANGED <<lease, active_leases>>
  /\ DOMAIN entry \subseteq DOMAIN entry'
  /\ \A e \in DOMAIN entry : entry'[e].lease_count = entry[e].lease_count
  /\ \A e \in DOMAIN entry' \ DOMAIN entry : entry'[e].lease_count = 0

\* A step that neither makes nor releases a lease keeps the accounts balanced.
LEMMA QuietAccounts == ASSUME TypeOK, LeaseAccounting, LeaseQuiet PROVE LeaseAccounting'
<1>1. \A e : Counted(e)' = Counted(e)
  BY DEF LeaseQuiet, Counted
<1>2. ASSUME NEW e \in DOMAIN entry' \ DOMAIN entry PROVE Counted(e) = {}
  BY <1>2 DEF Counted, TypeOK
<1>3. Cardinality({}) = 0
  BY FS_EmptySet
<1>4. ASSUME NEW e \in DOMAIN entry' PROVE entry'[e].lease_count = Cardinality(Counted(e))
  <2>1. CASE e \in DOMAIN entry
    BY <2>1 DEF LeaseQuiet, LeaseAccounting
  <2>2. CASE e \notin DOMAIN entry
    BY <1>2, <1>3, <1>4, <2>2 DEF LeaseQuiet
  <2> QED BY <2>1, <2>2
<1> QED BY <1>1, <1>4 DEF LeaseAccounting, LeaseQuiet

\* An update of one entry that keeps its lease_count.
LEMMA QuietUpdate ==
  ASSUME entry \in [DOMAIN entry -> Entry], NEW e, NEW r, r.lease_count = entry[e].lease_count,
         entry' = [entry EXCEPT ![e] = r], UNCHANGED <<lease, active_leases>>
  PROVE  LeaseQuiet
  BY DEF LeaseQuiet

\* All steps but those that make or release a lease are quiet.
LEMMA LeaseCases ==
  ASSUME TypeOK, [Next]_vars
  PROVE  \/ LeaseQuiet
         \/ \E t \in Threads : MakeLease(t)
         \/ \E l \in DOMAIN lease : Release(l) \/ ReleaseStep(l)
<1>0. entry \in [DOMAIN entry -> Entry] /\ th \in [Threads -> Thread]
  BY DEF TypeOK
<1>1. CASE UNCHANGED vars
  BY <1>1 DEF vars, LeaseQuiet
<1>2. ASSUME NEW t \in Threads, Start(t) PROVE LeaseQuiet
  <2>1. UNCHANGED <<lease, active_leases>>
    BY <1>2 DEF Start, Lookup, Replay, Invalidate, Pin, Unpin, Evict, Unload
  <2>2. \/ UNCHANGED entry
        \/ \E l \in DOMAIN lease : entry' = [entry EXCEPT ![lease[l].entry].active_replays = @ + 1]
        \/ \E a \in DOMAIN by_artifact : entry' = [entry EXCEPT ![by_artifact[a]].pin_count = @ + 1]
    BY <1>2 DEF Start, Lookup, Replay, Invalidate, Pin, Unpin, Evict, Unload
  <2>3. CASE UNCHANGED entry
    BY <2>1, <2>3 DEF LeaseQuiet
  <2>4. ASSUME NEW l \in DOMAIN lease, entry' = [entry EXCEPT ![lease[l].entry].active_replays = @ + 1]
        PROVE  LeaseQuiet
    BY <1>0, <2>1, <2>4 DEF Entry, LeaseQuiet
  <2>5. ASSUME NEW a \in DOMAIN by_artifact, entry' = [entry EXCEPT ![by_artifact[a]].pin_count = @ + 1]
        PROVE  LeaseQuiet
    BY <1>0, <2>1, <2>5 DEF Entry, LeaseQuiet
  <2> QED BY <2>2, <2>3, <2>4, <2>5
<1>3. ASSUME NEW t \in Threads, Continue(t), ~MakeLease(t) PROVE LeaseQuiet
  <2>0. UNCHANGED <<lease, active_leases>>
    BY <1>3 DEF Continue, SearchAgain, Materialize, Materialized,
         Recheck, Join, CaptureFail, CaptureBuild, Publish,
         Complete, Erase, Wake, InvalidateCollect, InvalidateMark, InvalidateReturn, UnpinSub, EvictApply,
         ReplayEnd
  <2>1. CASE InvalidateMark(t)
    <3> DEFINE marked(e) == [entry[e] EXCEPT !.invalidated = TRUE, !.lifecycle = "Invalidated"]
               new(e) == IF th[t].strong /\ marked(e).lease_count = 0 THEN Unloaded(marked(e)) ELSE marked(e)
    <3>2. PICK e \in th[t].targets : UNCHANGED entry \/ entry' = [entry EXCEPT ![e] = new(e)]
      BY <2>1 DEF InvalidateMark
    <3>3. e \in DOMAIN entry /\ entry[e] \in Entry
      BY <1>0 DEF TypeOK
    <3>4. new(e).lease_count = entry[e].lease_count
      BY <3>3 DEF Unloaded, Entry
    <3>5. CASE UNCHANGED entry
      BY <2>0, <3>5 DEF LeaseQuiet
    <3>6. CASE entry' = [entry EXCEPT ![e] = new(e)]
      <4> HIDE DEF new
      <4> QED BY <1>0, <2>0, <3>4, <3>6, QuietUpdate
    <3> QED BY <3>2, <3>5, <3>6
  <2>2. CASE EvictApply(t)
    <3>1. th[t].ent \in DOMAIN entry
      BY <2>2 DEF EvictApply, At, TypeOK, EntryPCs
    <3> QED BY <1>0, <2>0, <2>2, <3>1 DEF EvictApply, Unloaded, Entry, LeaseQuiet
  <2>3. CASE CaptureBuild(t)
    <3>1. CASE UNCHANGED entry
      BY <2>0, <3>1 DEF LeaseQuiet
    <3>2. ASSUME NEW e \in EntryIds \ DOMAIN entry, entry' = Put(entry, e, NewEntry(th[t].req))
          PROVE  LeaseQuiet
      BY <2>0, <3>2 DEF LeaseQuiet, Put, NewEntry, EntryFor
    <3> QED BY <2>3, <3>1, <3>2 DEF CaptureBuild
  <2>4. CASE ~InvalidateMark(t) /\ ~EvictApply(t) /\ ~CaptureBuild(t)
    <3>2. \/ UNCHANGED entry
          \/ entry' = [entry EXCEPT ![th[t].ent].exec = TRUE, ![th[t].ent].residency = "HostResident"]
          \/ entry' = [entry EXCEPT ![th[t].ent].pin_count = Dec(@)]
          \/ entry' = [entry EXCEPT ![th[t].ent].active_replays = Dec(@)]
      BY <1>3, <2>4 DEF Continue, SearchAgain, Materialize, Materialized,
           Recheck, Join, CaptureFail, Publish, Complete,
           Erase, Wake, InvalidateCollect, InvalidateReturn, UnpinSub, ReplayEnd
    <3> QED BY <1>0, <2>0, <3>2 DEF Entry, LeaseQuiet
  <2> QED BY <2>1, <2>2, <2>3, <2>4
<1> QED BY <1>1, <1>2, <1>3 DEF Next

\* make_lease counts the lease it returns once on the entry and once overall.
LEMMA MakeLeaseAccounts ==
  ASSUME TypeOK, LeaseAccounting, NEW t \in Threads, MakeLease(t) PROVE LeaseAccounting'
<1> PICK e : e = th[t].ent
  OBVIOUS
<1>1. e \in DOMAIN entry /\ entry \in [DOMAIN entry -> Entry] /\ lease \in [DOMAIN lease -> Lease]
  BY DEF MakeLease, At, TypeOK, EntryPCs
<1>2. PICK l \in LeaseIds \ DOMAIN lease :
        lease' = Put(lease, l, [entry |-> e, generation |-> entry[e].generation,
                                exec |-> entry[e].exec, phase |-> "held"])
  BY DEF MakeLease
<1>3. /\ DOMAIN lease' = DOMAIN lease \cup {l} /\ lease'[l].entry = e /\ lease'[l].phase = "held"
      /\ \A m \in DOMAIN lease : lease'[m] = lease[m]
  BY <1>2 DEF Put
<1>4. /\ Counted(e)' = Counted(e) \cup {l} /\ l \notin Counted(e)
      /\ \A f \in DOMAIN entry \ {e} : Counted(f)' = Counted(f)
  <2>1. l \in Counted(e)' /\ \A f \in DOMAIN entry \ {e} : l \notin Counted(f)'
    BY <1>3 DEF Counted
  <2>2. \A f : l \notin Counted(f)
    BY <1>2 DEF Counted
  <2>3. \A f : \A m \in DOMAIN lease : m \in Counted(f)' <=> m \in Counted(f)
    BY <1>3 DEF Counted
  <2>4. \A f : Counted(f) \subseteq DOMAIN lease /\ Counted(f)' \subseteq DOMAIN lease \cup {l}
    BY <1>3 DEF Counted
  <2>5. Counted(e)' \subseteq Counted(e) \cup {l} /\ Counted(e) \cup {l} \subseteq Counted(e)'
    BY <2>1, <2>3, <2>4
  <2>6. ASSUME NEW f \in DOMAIN entry \ {e} PROVE Counted(f)' = Counted(f)
    <3>1. Counted(f)' \subseteq Counted(f) /\ Counted(f) \subseteq Counted(f)'
      BY <2>1, <2>3, <2>4, <2>6
    <3> QED BY <3>1
  <2> QED BY <2>2, <2>5, <2>6
<1>5. /\ Cardinality(Counted(e) \cup {l}) = Cardinality(Counted(e)) + 1
      /\ Cardinality(DOMAIN lease \cup {l}) = Cardinality(DOMAIN lease) + 1
  BY <1>2, <1>4, LeasesFinite, FS_AddElement
<1>6. /\ DOMAIN entry' = DOMAIN entry /\ entry'[e].lease_count = entry[e].lease_count + 1
      /\ \A f \in DOMAIN entry \ {e} : entry'[f] = entry[f]
  BY <1>1 DEF MakeLease, Entry
<1>7. active_leases' = active_leases + 1
  BY DEF MakeLease
<1> QED BY <1>1, <1>3, <1>4, <1>5, <1>6, <1>7 DEF LeaseAccounting

\* Setting the released flag, or seeing the entry's count positive, settles nothing;
\* a count of zero cannot be seen, because the lease itself still counts.
LEMMA PhaseAccounts ==
  ASSUME TypeOK, LeaseAccounting, NEW l \in DOMAIN lease, Release(l) \/ ReleaseEntryLoad(l)
  PROVE  LeaseAccounting'
<1>0. /\ lease \in [DOMAIN lease -> Lease] /\ lease[l].entry \in DOMAIN entry
      /\ lease[l].phase \in {"held", "cas"}
  BY DEF TypeOK, Release, ReleaseEntryLoad
<1>1. l \in Counted(lease[l].entry)
  BY <1>0 DEF Counted
<1>2. Cardinality(Counted(lease[l].entry)) # 0 /\ Cardinality(Counted(lease[l].entry)) \in Nat
  BY <1>1, LeasesFinite, FS_EmptySet, FS_CardinalityType
<1>3. entry[lease[l].entry].lease_count > 0
  BY <1>0, <1>2 DEF LeaseAccounting
<1>4. PICK phase \in {"cas", "entry"} : Advance(l, phase)
  BY <1>3 DEF Release, ReleaseEntryLoad
<1>5. /\ DOMAIN lease' = DOMAIN lease
      /\ \A m \in DOMAIN lease : lease'[m].entry = lease[m].entry
      /\ lease'[l].phase \in {"held", "cas", "entry"}
      /\ \A m \in DOMAIN lease \ {l} : lease'[m].phase = lease[m].phase
  BY <1>0, <1>4 DEF Advance, Lease
<1>6. \A f : Counted(f)' = Counted(f)
  BY <1>0, <1>5 DEF Counted
<1>7. UNCHANGED <<entry, active_leases>>
  BY DEF Release, ReleaseEntryLoad
<1> QED BY <1>5, <1>6, <1>7 DEF LeaseAccounting

\* The fetch_sub on the entry's counter takes back exactly this lease.
LEMMA SubAccounts ==
  ASSUME TypeOK, LeaseAccounting, NEW l \in DOMAIN lease, ReleaseEntrySub(l)
  PROVE  LeaseAccounting'
<1> PICK e : e = lease[l].entry
  OBVIOUS
<1>0. /\ lease \in [DOMAIN lease -> Lease] /\ e \in DOMAIN entry /\ lease[l].phase = "entry"
      /\ entry \in [DOMAIN entry -> Entry]
  BY DEF TypeOK, ReleaseEntrySub
<1>1. l \in Counted(e)
  BY <1>0 DEF Counted
<1>2. Cardinality(Counted(e)) # 0 /\ Cardinality(Counted(e)) \in Nat
  BY <1>1, LeasesFinite, FS_EmptySet, FS_CardinalityType
<1>3. /\ DOMAIN lease' = DOMAIN lease
      /\ \A m \in DOMAIN lease : lease'[m].entry = lease[m].entry
      /\ lease'[l].phase = "drained"
      /\ \A m \in DOMAIN lease \ {l} : lease'[m].phase = lease[m].phase
  BY <1>0 DEF ReleaseEntrySub, Advance, Lease
<1>4. Counted(e)' = Counted(e) \ {l} /\ \A f \in DOMAIN entry \ {e} : Counted(f)' = Counted(f)
  BY <1>0, <1>3 DEF Counted
<1>5. Cardinality(Counted(e) \ {l}) = Cardinality(Counted(e)) - 1
  BY <1>1, LeasesFinite, FS_RemoveElement
<1>6. /\ DOMAIN entry' = DOMAIN entry /\ entry'[e].lease_count = Dec(entry[e].lease_count)
      /\ \A f \in DOMAIN entry \ {e} : entry'[f] = entry[f]
  BY <1>0 DEF ReleaseEntrySub, Entry
<1>7. UNCHANGED active_leases
  BY DEF ReleaseEntrySub
<1>8. Dec(entry[e].lease_count) = Cardinality(Counted(e)) - 1
  BY <1>0, <1>2 DEF LeaseAccounting, Dec
<1>9. ASSUME NEW f \in DOMAIN entry' PROVE entry'[f].lease_count = Cardinality(Counted(f)')
  BY <1>4, <1>5, <1>6, <1>8 DEF LeaseAccounting
<1> QED BY <1>3, <1>7, <1>9 DEF LeaseAccounting

\* The same for the engine's counter, which is never seen at zero either.
LEMMA GlobalAccounts ==
  ASSUME TypeOK, LeaseAccounting, NEW l \in DOMAIN lease, ReleaseGlobalLoad(l) \/ ReleaseGlobalSub(l)
  PROVE  LeaseAccounting'
<1>0. lease \in [DOMAIN lease -> Lease] /\ lease[l].phase \in {"drained", "global"}
  BY DEF TypeOK, ReleaseGlobalLoad, ReleaseGlobalSub
<1>1. Cardinality(DOMAIN lease) # 0 /\ Cardinality(DOMAIN lease) \in Nat
  BY LeasesFinite, FS_EmptySet, FS_CardinalityType
<1>2. active_leases > 0
  BY <1>1 DEF LeaseAccounting
<1>3. UNCHANGED entry
  BY DEF ReleaseGlobalLoad, ReleaseGlobalSub
<1>4. CASE ReleaseGlobalLoad(l)
  <2>1. UNCHANGED active_leases /\ Advance(l, "global")
    BY <1>2, <1>4 DEF ReleaseGlobalLoad
  <2>2. /\ DOMAIN lease' = DOMAIN lease
        /\ \A m \in DOMAIN lease : lease'[m].entry = lease[m].entry
        /\ lease'[l].phase = "global"
        /\ \A m \in DOMAIN lease \ {l} : lease'[m].phase = lease[m].phase
    BY <1>0, <2>1 DEF Advance, Lease
  <2>3. \A f : Counted(f)' = Counted(f)
    BY <1>0, <2>2 DEF Counted
  <2> QED BY <1>3, <2>1, <2>2, <2>3 DEF LeaseAccounting
<1>5. CASE ReleaseGlobalSub(l)
  <2>1. DOMAIN lease' = DOMAIN lease \ {l} /\ \A m \in DOMAIN lease' : lease'[m] = lease[m]
    BY <1>5 DEF ReleaseGlobalSub, Drop
  <2>2. \A f : Counted(f)' = Counted(f)
    BY <1>0, <2>1 DEF Counted
  <2>3. Cardinality(DOMAIN lease \ {l}) = Cardinality(DOMAIN lease) - 1
    BY LeasesFinite, FS_RemoveElement
  <2>4. active_leases' = active_leases - 1
    BY <1>1, <1>2, <1>5 DEF ReleaseGlobalSub, Dec, LeaseAccounting
  <2> QED BY <1>1, <1>3, <2>1, <2>2, <2>3, <2>4 DEF LeaseAccounting
<1> QED BY <1>4, <1>5

\* make_lease and GraphLease::release keep exact accounts: an entry's lease_count is the
\* number of its leases not yet taken back and active_leases that of the leases alive,
\* although release tests each counter and subtracts from it in two accesses.
THEOREM LeaseAccountingAlways == Spec => []LeaseAccounting
<1>1. Init => LeaseAccounting
  BY FS_EmptySet DEF Init, LeaseAccounting
<1>2. ASSUME TypeOK, LeaseAccounting, [Next]_vars PROVE LeaseAccounting'
  BY <1>2, LeaseCases, QuietAccounts, MakeLeaseAccounts, PhaseAccounts, SubAccounts, GlobalAccounts
     DEF ReleaseStep
<1> QED BY <1>1, <1>2, TypeCorrect, PTL DEF Spec
=============================================================================
