---------------------------- MODULE ContractProofs ---------------------------
(***************************************************************************)
(* The engine implements ReplayContract, for any numbers of threads,       *)
(* requests, entries and leases.                                           *)
(***************************************************************************)
EXTENDS EntryProofs, GraphCacheRefinement
-----------------------------------------------------------------------------
\* What the contract sees of the registry and the flags.
LEMMA RegistryView ==
  ASSUME TypeOK, EntriesKept
  PROVE  /\ UNCHANGED by_workload => Published' = Published
         /\ FlagsKept => Revoked' = Revoked
<1>1. ASSUME UNCHANGED by_workload PROVE Published' = Published
  <2>1. Registered' = Registered
    BY <1>1 DEF Registered
  <2>2. \A e \in Registered : Publication(e)' = Publication(e)
    BY RegisteredExist DEF Publication, EntriesKept
  <2> QED BY <2>1, <2>2 DEF Published
<1>2. ASSUME FlagsKept PROVE Revoked' = Revoked
  BY <1>2 DEF FlagsKept, EntriesKept, Revoked
<1> QED BY <1>1, <1>2

\* A thread's step that the contract does not see.
LookPCs == {"materialize", "recheck"}
Unseen(u) ==
  \/ th'[u].pc \notin LookPCs \cup {"lease"} /\ th[u].pc \notin LookPCs \cup {"lease"}
  \/ th'[u].ent = th[u].ent /\ th'[u].pc = th[u].pc
  \/ th'[u].ent = th[u].ent /\ th'[u].pc \in LookPCs /\ th[u].pc \in LookPCs

\* What the contract sees of the thread that moves.
LEMMA ThreadView ==
  ASSUME NEW t \in Threads, \A u \in Threads \ {t} : Unseen(u)
  PROVE  /\ Unseen(t) => UNCHANGED <<Examining, Granted>>
         /\ Examining' = [Examining EXCEPT ![t] = IF th'[t].pc \in LookPCs THEN th'[t].ent ELSE NoEntry]
         /\ Granted' = [Granted EXCEPT ![t] = IF th'[t].pc = "lease" THEN th'[t].ent ELSE NoEntry]
         /\ Examining[t] = IF th[t].pc \in LookPCs THEN th[t].ent ELSE NoEntry
         /\ Granted[t] = IF th[t].pc = "lease" THEN th[t].ent ELSE NoEntry
  BY DEF Unseen, Examining, Granted, EntryAt, LookPCs

\* An entry a thread works on is not the contract's None.
LEMMA EntryIsReal ==
  ASSUME TypeOK, NEW t \in Threads, th[t].pc \in EntryPCs
  PROVE  th[t].ent \in DOMAIN entry /\ th[t].ent # NoEntry
  BY ConstantsAssumption DEF TypeOK

\* search_candidates' choice is an examination.
LEMMA ChoiceExamines ==
  ASSUME TypeOK, NEW t \in Threads, NEW r \in Requests, NEW i \in Compatible(r),
         th[t].pc \notin LookPCs \cup {"lease"},
         th'[t].pc = "materialize", th'[t].ent = Bucket(r)[i], \A u \in Threads \ {t} : th'[u] = th[u],
         UNCHANGED <<entry, lease, registry>>
  PROVE  Contract!ContractNext
<1> DEFINE e == Bucket(r)[i]
<1>1. i \in DOMAIN Bucket(r) /\ Current(e)
  BY DEF Compatible, Fresh, Scanned
<1>2. e \in Registered
  <2>1. WorkloadOf[r] \in DOMAIN by_workload /\ Bucket(r) = by_workload[WorkloadOf[r]]
    BY <1>1 DEF Bucket
  <2> QED BY <1>1, <2>1, RegisteredMembers
<1>3. /\ Examining[t] = NoEntry /\ Granted[t] = NoEntry
      /\ Examining' = [Examining EXCEPT ![t] = e] /\ Granted' = [Granted EXCEPT ![t] = NoEntry]
  <2>1. \A u \in Threads \ {t} : Unseen(u)
    BY DEF Unseen
  <2> HIDE DEF e
  <2>2. th'[t].pc \in LookPCs /\ th'[t].pc # "lease" /\ th'[t].ent = e
    BY DEF LookPCs, e
  <2> QED BY <2>1, <2>2, ThreadView
<1>4. Granted' = Granted
  BY <1>3 DEF Granted, EntryAt
<1>5. UNCHANGED <<Published, key_current_gen, Revoked, Held>>
  BY DEF registry, Published, Publication, Registered, Revoked, Held
<1>6. /\ Publication(e) \in Published /\ Publication(e).entry = e /\ e \notin Revoked
      /\ Publication(e).key \in DOMAIN key_current_gen
      /\ key_current_gen[Publication(e).key] = Publication(e).generation
  BY <1>1, <1>2 DEF Published, Publication, Revoked, Current
<1> HIDE DEF e
<1>7. Contract!Examine(t, Publication(e))
  BY <1>3, <1>4, <1>5, <1>6 DEF Contract!Examine
<1> QED BY <1>6, <1>7 DEF Contract!ContractNext

\* What happens between the choice and the lease: a miss or a grant.
LEMMA DecisionSimulated ==
  ASSUME TypeOK, NEW t \in Threads, Materialize(t) \/ Recheck(t) \/ MakeLease(t),
         EntriesKept, FlagsKept
  PROVE  Contract!ContractNext \/ UNCHANGED Contract!contractVars
<1>0. /\ th \in [Threads -> Thread] /\ th[t].ent \in DOMAIN entry /\ th[t].ent # NoEntry
      /\ \A u \in Threads \ {t} : th'[u] = th[u]
  <2>1. th[t].pc \in EntryPCs
    BY DEF Materialize, Recheck, MakeLease, At, EntryPCs
  <2>2. th \in [Threads -> Thread]
    BY DEF TypeOK
  <2>3. \A u \in Threads \ {t} : th'[u] = th[u]
    BY <2>2 DEF Materialize, Recheck, MakeLease, Goto, Return
  <2> QED BY <2>1, <2>2, <2>3, EntryIsReal
<1>1. \A u \in Threads \ {t} : Unseen(u)
  BY <1>0 DEF Unseen
<1>2. UNCHANGED <<Published, key_current_gen, Revoked>>
  BY RegistryView DEF Materialize, Recheck, MakeLease, registry
<1>3. CASE Materialize(t)
  <2>1. /\ th[t].pc = "materialize"
        /\ \/ th'[t].pc = "recheck" /\ th'[t].ent = th[t].ent
           \/ th'[t].pc \notin LookPCs \cup {"lease"}
    BY <1>0, <1>3 DEF Materialize, At, Goto, Return, Idle, Thread, LookPCs
  <2>2. UNCHANGED Held
    BY <1>3 DEF Materialize, Held
  <2>3. CASE th'[t].pc = "recheck" /\ th'[t].ent = th[t].ent
    <3>1. Unseen(t)
      BY <2>1, <2>3 DEF Unseen, LookPCs
    <3> QED BY <1>1, <1>2, <2>2, <3>1, ThreadView DEF Contract!contractVars
  <2>4. CASE th'[t].pc \notin LookPCs \cup {"lease"}
    <3>1. /\ Examining[t] = th[t].ent /\ Examining' = [Examining EXCEPT ![t] = NoEntry]
          /\ Granted[t] = NoEntry /\ Granted' = [Granted EXCEPT ![t] = NoEntry]
      BY <1>1, <2>1, <2>4, ThreadView DEF LookPCs
    <3>2. Granted' = Granted
      BY <3>1 DEF Granted, EntryAt
    <3>3. Contract!Miss(t)
      BY <1>0, <1>2, <2>2, <3>1, <3>2 DEF Contract!Miss
    <3> QED BY <3>3 DEF Contract!ContractNext
  <2> QED BY <2>1, <2>3, <2>4
<1>4. CASE Recheck(t)
  <2>1. /\ th[t].pc = "recheck"
        /\ \/ th'[t].pc = "lease" /\ th'[t].ent = th[t].ent /\ ~entry[th[t].ent].invalidated
           \/ th'[t].pc \notin LookPCs \cup {"lease"}
    BY <1>0, <1>4 DEF Recheck, At, Goto, Return, Idle, Thread, LookPCs
  <2>2. UNCHANGED Held
    BY <1>4 DEF Recheck, Held
  <2>3. CASE th'[t].pc = "lease" /\ th'[t].ent = th[t].ent /\ ~entry[th[t].ent].invalidated
    <3>1. /\ Examining[t] = th[t].ent /\ Examining' = [Examining EXCEPT ![t] = NoEntry]
          /\ Granted' = [Granted EXCEPT ![t] = th[t].ent]
      BY <1>1, <2>1, <2>3, ThreadView DEF LookPCs
    <3>2. th[t].ent \notin Revoked
      BY <2>3 DEF Revoked
    <3>3. Contract!Grant(t)
      BY <1>0, <1>2, <2>2, <3>1, <3>2 DEF Contract!Grant
    <3> QED BY <3>3 DEF Contract!ContractNext
  <2>4. CASE th'[t].pc \notin LookPCs \cup {"lease"}
    <3>1. /\ Examining[t] = th[t].ent /\ Examining' = [Examining EXCEPT ![t] = NoEntry]
          /\ Granted[t] = NoEntry /\ Granted' = [Granted EXCEPT ![t] = NoEntry]
      BY <1>1, <2>1, <2>4, ThreadView DEF LookPCs
    <3>2. Granted' = Granted
      BY <3>1 DEF Granted, EntryAt
    <3>3. Contract!Miss(t)
      BY <1>0, <1>2, <2>2, <3>1, <3>2 DEF Contract!Miss
    <3> QED BY <3>3 DEF Contract!ContractNext
  <2> QED BY <2>1, <2>3, <2>4
<1>5. CASE MakeLease(t)
  <2>1. th[t].pc = "lease" /\ th'[t].pc \notin LookPCs \cup {"lease"}
    BY <1>0, <1>5 DEF MakeLease, At, Return, Idle, LookPCs
  <2>2. /\ Examining[t] = NoEntry /\ Examining' = [Examining EXCEPT ![t] = NoEntry]
        /\ Granted[t] = th[t].ent /\ Granted' = [Granted EXCEPT ![t] = NoEntry]
    BY <1>1, <2>1, ThreadView DEF LookPCs
  <2>3. Examining' = Examining
    BY <2>2 DEF Examining, EntryAt
  <2>4. PICK l \in LeaseIds \ DOMAIN lease :
          lease' = Put(lease, l, [entry |-> th[t].ent, generation |-> entry[th[t].ent].generation,
                                  exec |-> entry[th[t].ent].exec, phase |-> "held"])
    BY <1>5 DEF MakeLease
  <2>5. /\ DOMAIN lease' = DOMAIN lease \cup {l} /\ lease'[l].entry = th[t].ent
        /\ \A m \in DOMAIN lease : lease'[m] = lease[m]
    BY <2>4 DEF Put
  <2>6. DOMAIN Held = DOMAIN lease /\ DOMAIN Held' = DOMAIN lease \cup {l}
    BY <2>5 DEF Held
  <2>7. Held' = [m \in DOMAIN Held \cup {l} |-> IF m = l THEN th[t].ent ELSE Held[m]]
    BY <2>4, <2>5 DEF Held
  <2>8. Contract!Hand(t, l)
    BY <1>0, <1>2, <2>2, <2>3, <2>4, <2>6, <2>7 DEF Contract!Hand
  <2> QED BY <2>4, <2>6, <2>8 DEF Contract!ContractNext
<1> QED BY <1>3, <1>4, <1>5

\* Publishing announces: single flight gives the entry a generation above its key's.
LEMMA PublishAnnounces ==
  ASSUME TypeOK, GenerationInv, RegistryInv, NEW t \in Threads, Publish(t)
  PROVE  Contract!ContractNext
<1> DEFINE e == th[t].ent
           k == KeyOf[th[t].req]
<1>0. /\ th \in [Threads -> Thread] /\ th[t].pc = "publish" /\ e \in DOMAIN entry
      /\ entry \in [DOMAIN entry -> Entry] /\ key_current_gen \in [DOMAIN key_current_gen -> Nat]
      /\ UNCHANGED <<entry, lease>>
  BY DEF Publish, At, TypeOK, EntryPCs
<1>1. e \notin Registered /\ entry[e].req = th[t].req
  BY <1>0 DEF RegistryInv
<1>2. Publication(e).entry = e /\ Publication(e).key = k /\ Publication(e).generation = entry[e].generation
  BY <1>1 DEF Publication
<1>3. \A q \in Published : q.entry # e
  BY <1>1 DEF Published, Publication
<1>4. Published' = Published \cup {Publication(e)}
  <2>1. Registered' = Registered \cup {e}
    BY PublishRegisters
  <2>2. \A f : Publication(f)' = Publication(f)
    BY <1>0 DEF Publication
  <2> HIDE DEF e
  <2> QED BY <2>1, <2>2 DEF Published
<1>5. k \in DOMAIN key_current_gen => key_current_gen[k] < entry[e].generation
  <2> SUFFICES ASSUME k \in DOMAIN key_current_gen PROVE key_current_gen[k] < entry[e].generation
    OBVIOUS
  <2>1. key_current_gen[k] <= entry[e].generation
    BY <1>0 DEF GenerationInv
  <2>2. PICK f \in Registered : entry[f].generation = key_current_gen[k]
    BY DEF RegistryInv
  <2>3. f \in DOMAIN entry /\ f # e
    BY <1>1, RegisteredExist
  <2>4. entry[f].generation # entry[e].generation
    BY <1>0, <2>3 DEF GenerationInv
  <2>5. key_current_gen[k] \in Nat /\ entry[e].generation \in Nat
    BY <1>0 DEF Entry
  <2> QED BY <2>1, <2>2, <2>4, <2>5
<1>6. key_current_gen' = [j \in DOMAIN key_current_gen \cup {k} |->
                            IF j = k THEN entry[e].generation ELSE key_current_gen[j]]
  BY DEF Publish, KeyGeneration, Put
<1>7. UNCHANGED <<Revoked, Held, Examining, Granted>>
  <2>1. \A u \in Threads : Unseen(u)
    <3>1. \A u \in Threads \ {t} : th'[u] = th[u]
      BY <1>0 DEF Publish
    <3>2. th'[t].pc \in {"persist", "complete"}
      BY <1>0 DEF Publish, Thread
    <3> QED BY <1>0, <3>1, <3>2 DEF Unseen, LookPCs
  <2>2. UNCHANGED <<Revoked, Held>>
    BY <1>0 DEF Revoked, Held
  <2> QED BY <2>1, <2>2, ThreadView
<1> HIDE DEF e, k
<1>8. Contract!Announce(Publication(e))
  BY <1>2, <1>3, <1>4, <1>5, <1>6, <1>7 DEF Contract!Announce
<1>9. Publication(e) \in Published' \ Published
  BY <1>2, <1>3, <1>4
<1> QED BY <1>8, <1>9 DEF Contract!ContractNext

\* Marking a target revokes a published entry.
LEMMA MarkRevokes ==
  ASSUME TypeOK, RegistryInv, EntriesKept, NEW t \in Threads, InvalidateMark(t)
  PROVE  Contract!ContractNext \/ UNCHANGED Contract!contractVars
<1>0. /\ th \in [Threads -> Thread] /\ entry \in [DOMAIN entry -> Entry] /\ th[t].pc = "mark"
      /\ UNCHANGED <<lease, by_workload, key_current_gen>>
  BY DEF InvalidateMark, At, TypeOK, registry
<1> DEFINE marked(e) == [entry[e] EXCEPT !.invalidated = TRUE, !.lifecycle = "Invalidated"]
           new(e) == IF th[t].strong /\ marked(e).lease_count = 0 THEN Unloaded(marked(e)) ELSE marked(e)
<1>1. PICK e \in th[t].targets :
        /\ th' = [th EXCEPT ![t].targets = @ \ {e}]
        /\ \/ UNCHANGED entry
           \/ ~entry[e].invalidated /\ entry' = [entry EXCEPT ![e] = new(e)]
  BY DEF InvalidateMark
<1>2. e \in Registered /\ e \in DOMAIN entry
  BY RegisteredExist DEF RegistryInv
<1>3. UNCHANGED <<Published, Held, Examining, Granted>>
  <2>1. \A u \in Threads : Unseen(u)
    BY <1>0, <1>1 DEF Unseen, Thread
  <2>2. UNCHANGED Held
    BY <1>0 DEF Held
  <2> QED BY <1>0, <2>1, <2>2, ThreadView, RegistryView
<1>4. CASE UNCHANGED entry
  BY <1>0, <1>3, <1>4 DEF Contract!contractVars, Revoked
<1>5. CASE ~entry[e].invalidated /\ entry' = [entry EXCEPT ![e] = new(e)]
  <2>1. new(e).invalidated = TRUE
    BY <1>0, <1>2 DEF Unloaded, Entry
  <2> HIDE DEF new
  <2>2. /\ DOMAIN entry' = DOMAIN entry /\ entry'[e].invalidated = TRUE
        /\ \A f \in DOMAIN entry \ {e} : entry'[f] = entry[f]
    BY <1>0, <1>2, <1>5, <2>1
  <2>3. Revoked' = Revoked \cup {e} /\ e \notin Revoked
    BY <1>2, <1>5, <2>2 DEF Revoked
  <2>4. \E p \in Published : p.entry = e
    <3>1. Publication(e) \in Published
      BY <1>2 DEF Published
    <3>2. Publication(e).entry = e
      BY DEF Publication
    <3> QED BY <3>1, <3>2
  <2>5. Contract!Revoke(e)
    BY <1>0, <1>3, <2>3, <2>4 DEF Contract!Revoke
  <2> QED BY <2>3, <2>5 DEF Contract!ContractNext
<1> QED BY <1>1, <1>4, <1>5

\* Releasing a lease gives it back at its last step and is invisible before.
LEMMA ReleaseGivesBack ==
  ASSUME TypeOK, EntriesKept, FlagsKept, NEW l \in DOMAIN lease, Release(l) \/ ReleaseStep(l)
  PROVE  Contract!ContractNext \/ UNCHANGED Contract!contractVars
<1>0. lease \in [DOMAIN lease -> Lease] /\ UNCHANGED <<registry, th>>
  BY DEF TypeOK, Release, ReleaseStep, ReleaseEntryLoad, ReleaseEntrySub, ReleaseGlobalLoad,
         ReleaseGlobalSub, leaseFrame
<1>1. UNCHANGED <<Published, key_current_gen, Revoked, Examining, Granted>>
  BY <1>0, RegistryView DEF registry, Examining, Granted, EntryAt
<1>2. (\E phase \in LeasePhase : Advance(l, phase)) \/ lease' = Drop(lease, l)
  BY DEF Release, ReleaseStep, ReleaseEntryLoad, ReleaseEntrySub, ReleaseGlobalLoad,
         ReleaseGlobalSub, LeasePhase
<1>3. ASSUME NEW phase \in LeasePhase, Advance(l, phase) PROVE UNCHANGED Contract!contractVars
  <2>1. DOMAIN lease' = DOMAIN lease /\ \A m \in DOMAIN lease : lease'[m].entry = lease[m].entry
    BY <1>0, <1>3 DEF Advance, Lease
  <2>2. Held' = Held
    BY <2>1 DEF Held
  <2> QED BY <1>1, <2>2 DEF Contract!contractVars
<1>4. CASE lease' = Drop(lease, l)
  <2>1. DOMAIN lease' = DOMAIN lease \ {l} /\ \A m \in DOMAIN lease' : lease'[m] = lease[m]
    BY <1>4 DEF Drop
  <2>2. DOMAIN Held = DOMAIN lease /\ DOMAIN Held' = DOMAIN lease \ {l}
    BY <2>1 DEF Held
  <2>3. Held' = [m \in DOMAIN Held \ {l} |-> Held[m]]
    BY <2>1, <2>2 DEF Held
  <2>4. Contract!GiveBack(l)
    BY <1>1, <2>2, <2>3 DEF Contract!GiveBack
  <2> QED BY <2>2, <2>4 DEF Contract!ContractNext
<1> QED BY <1>2, <1>3, <1>4

\* The other steps of a call: nothing the contract speaks of changes.
LEMMA QuietSteps ==
  ASSUME TypeOK, EntriesKept, FlagsKept, UNCHANGED <<registry, lease>>, \A u \in Threads : Unseen(u)
  PROVE  UNCHANGED Contract!contractVars
<1>1. UNCHANGED <<Published, key_current_gen, Revoked, Held>>
  BY RegistryView DEF registry, Held
<1>2. UNCHANGED <<Examining, Granted>>
  BY DEF Unseen, Examining, Granted, EntryAt, LookPCs
<1> QED BY <1>1, <1>2 DEF Contract!contractVars

\* A new call is an examination or invisible.
LEMMA StartSimulated ==
  ASSUME TypeOK, EntriesKept, FlagsKept, NEW t \in Threads, Start(t)
  PROVE  Contract!ContractNext \/ UNCHANGED Contract!contractVars
<1>0. th \in [Threads -> Thread] /\ UNCHANGED <<registry, lease>>
  BY DEF TypeOK, Start, Lookup, Replay, Invalidate, Pin, Unpin, Evict, Unload
<1>1. ASSUME UNCHANGED th PROVE UNCHANGED Contract!contractVars
  <2>1. \A u \in Threads : Unseen(u)
    BY <1>1 DEF Unseen
  <2> QED BY <1>0, <2>1, QuietSteps
<1>2. ASSUME NEW locals, Call(t, locals), locals.pc \in {"join", "replay", "collect", "unpin", "evict"}
      PROVE  UNCHANGED Contract!contractVars
  <2>1. \A u \in Threads : Unseen(u)
    BY <1>0, <1>2 DEF Call, At, Unseen, LookPCs
  <2> QED BY <1>0, <2>1, QuietSteps
<1>3. ASSUME NEW r \in Requests, NEW i \in Compatible(r), UNCHANGED entry,
             Call(t, [Idle EXCEPT !.pc = "materialize", !.req = r, !.ent = Bucket(r)[i]])
      PROVE  Contract!ContractNext
  <2>1. /\ th[t].pc = "idle" /\ \A u \in Threads \ {t} : th'[u] = th[u]
        /\ th'[t].pc = "materialize" /\ th'[t].ent = Bucket(r)[i]
    BY <1>0, <1>3 DEF Call, At, Idle
  <2>2. th[t].pc \notin LookPCs \cup {"lease"}
    BY <2>1 DEF LookPCs
  <2> QED BY <1>0, <1>3, <2>1, <2>2, ChoiceExamines
<1>4. ASSUME NEW r \in Requests, Lookup(t, r)
      PROVE  Contract!ContractNext \/ UNCHANGED Contract!contractVars
  <2>1. CASE Call(t, [Idle EXCEPT !.pc = "join", !.req = r])
    <3>1. [Idle EXCEPT !.pc = "join", !.req = r].pc = "join"
      BY DEF Idle
    <3> QED BY <1>2, <2>1, <3>1
  <2> QED BY <1>3, <1>4, <2>1 DEF Lookup
<1>5. ASSUME NEW l \in DOMAIN lease, Replay(t, l) PROVE UNCHANGED Contract!contractVars
  <2>1. [Idle EXCEPT !.pc = "replay", !.ent = lease[l].entry].pc = "replay"
    BY DEF Idle
  <2> QED BY <1>2, <1>5, <2>1 DEF Replay
<1>6. ASSUME NEW scope \in Scopes, NEW strong \in BOOLEAN, Invalidate(t, scope, strong)
      PROVE  UNCHANGED Contract!contractVars
  <2>1. [Idle EXCEPT !.pc = "collect", !.scope = scope, !.strong = strong,
                     !.gen = cache_generation + 1].pc = "collect"
    BY DEF Idle
  <2> QED BY <1>2, <1>6, <2>1 DEF Invalidate
<1>7. ASSUME NEW a \in DOMAIN by_artifact, Unpin(t, a) \/ Evict(t, a) \/ Unload(t, a)
      PROVE  UNCHANGED Contract!contractVars
  <2>1. /\ [Idle EXCEPT !.pc = "unpin", !.ent = by_artifact[a]].pc = "unpin"
        /\ [Idle EXCEPT !.pc = "evict", !.ent = by_artifact[a]].pc = "evict"
    BY DEF Idle
  <2> QED BY <1>2, <1>7, <2>1 DEF Unpin, Evict, Unload
<1>8. ASSUME NEW a \in DOMAIN by_artifact, Pin(t, a) PROVE UNCHANGED Contract!contractVars
  BY <1>1, <1>8 DEF Pin
<1> QED BY <1>4, <1>5, <1>6, <1>7, <1>8 DEF Start

\* Every step of the engine is a step of the contract, or none.
LEMMA StepSimulated ==
  ASSUME TypeOK, GenerationInv, RegistryInv, [Next]_vars
  PROVE  Contract!ContractNext \/ UNCHANGED Contract!contractVars
<1>0. EntriesKept /\ (FlagsKept \/ \E t \in Threads : InvalidateMark(t)) /\ th \in [Threads -> Thread]
  BY IdentityCases DEF TypeOK
<1>1. CASE UNCHANGED vars
  BY <1>1 DEF vars, Contract!contractVars, Published, Publication, Registered, Revoked, Examining,
              Granted, EntryAt, Held
<1>2. ASSUME NEW t \in Threads, InvalidateMark(t)
      PROVE  Contract!ContractNext \/ UNCHANGED Contract!contractVars
  BY <1>0, <1>2, MarkRevokes
<1>3. ASSUME NEW l \in DOMAIN lease, Release(l) \/ ReleaseStep(l), FlagsKept
      PROVE  Contract!ContractNext \/ UNCHANGED Contract!contractVars
  BY <1>0, <1>3, ReleaseGivesBack
<1>4. ASSUME NEW t \in Threads, Start(t), FlagsKept
      PROVE  Contract!ContractNext \/ UNCHANGED Contract!contractVars
  BY <1>0, <1>4, StartSimulated
<1>5. ASSUME NEW t \in Threads, Continue(t), FlagsKept
      PROVE  Contract!ContractNext \/ UNCHANGED Contract!contractVars
  <2>1. CASE Publish(t)
    BY <2>1, PublishAnnounces
  <2>2. CASE Materialize(t) \/ Recheck(t) \/ MakeLease(t)
    BY <1>0, <1>5, <2>2, DecisionSimulated
  <2>3. ASSUME NEW i \in Compatible(th[t].req), At(t, "again"), UNCHANGED <<entry, lease, registry>>,
               th' = [th EXCEPT ![t].pc = "materialize", ![t].again = TRUE, ![t].ent = Bucket(th[t].req)[i]]
        PROVE  Contract!ContractNext
    <3>1. /\ th[t].pc = "again" /\ \A u \in Threads \ {t} : th'[u] = th[u]
          /\ th'[t].pc = "materialize" /\ th'[t].ent = Bucket(th[t].req)[i]
      BY <1>0, <2>3 DEF At, Thread
    <3>2. th[t].pc \notin LookPCs \cup {"lease"} /\ th[t].req \in Requests
      BY <3>1 DEF LookPCs, TypeOK, LookupPCs
    <3> QED BY <2>3, <3>1, <3>2, ChoiceExamines
  <2>4. CASE /\ ~Publish(t) /\ ~Materialize(t) /\ ~Recheck(t) /\ ~MakeLease(t) /\ ~InvalidateMark(t)
             /\ ~SearchAgain(t)
    <3>1. UNCHANGED <<registry, lease>>
      BY <1>5, <2>4 DEF Continue, Join, CaptureFail, CaptureBuild, Complete, Erase, Wake,
           InvalidateCollect, InvalidateReturn, UnpinSub, EvictApply, ReplayEnd
    <3>2. \A u \in Threads : Unseen(u)
      <4>1. CASE Complete(t)
        BY <1>0, <4>1 DEF Complete, WaitsOn, At, Unseen, LookPCs, Thread
      <4>2. CASE Join(t) \/ CaptureFail(t) \/ CaptureBuild(t)
        BY <1>0, <4>2 DEF Join, CaptureFail, CaptureBuild, At, Unseen, LookPCs, Thread
      <4>3. CASE Erase(t) \/ Wake(t)
        BY <1>0, <4>3 DEF Erase, Wake, AfterFlight, Goto, Return, Idle, At, Unseen, LookPCs, Thread
      <4>4. CASE InvalidateCollect(t) \/ InvalidateReturn(t) \/ UnpinSub(t) \/ EvictApply(t) \/ ReplayEnd(t)
        BY <1>0, <4>4 DEF InvalidateCollect, InvalidateReturn, UnpinSub, EvictApply, ReplayEnd,
             Return, Idle, At, Unseen, LookPCs, Thread
      <4> QED BY <1>5, <2>4, <4>1, <4>2, <4>3, <4>4 DEF Continue
    <3> QED BY <1>0, <1>5, <3>1, <3>2, QuietSteps
  <2>5. CASE SearchAgain(t)
    <3>1. UNCHANGED <<entry, lease, registry>> /\ At(t, "again")
      BY <2>5 DEF SearchAgain
    <3>2. CASE Return(t)
      <4>1. \A u \in Threads : Unseen(u)
        BY <1>0, <3>1, <3>2 DEF Return, Idle, At, Unseen, LookPCs
      <4> QED BY <1>0, <1>5, <3>1, <4>1, QuietSteps
    <3> QED BY <2>3, <2>5, <3>1, <3>2 DEF SearchAgain
  <2> QED BY <1>2, <2>1, <2>2, <2>4, <2>5
<1> QED BY <1>0, <1>1, <1>2, <1>3, <1>4, <1>5 DEF Next

\* lookup, capture_graph, invalidate and GraphLease::release implement ReplayContract: for
\* any numbers of threads and requests a lease stems from an executable that was the
\* current one of its key when search_candidates chose it, and that was not invalidated at
\* the one instant, lookup's second test, at which the hit was settled.
THEOREM ImplementsContractAlways == Spec => ImplementsContract
<1>1. Init => Contract!ContractInit
  BY DEF Init, Contract!ContractInit, Contract!Nobody, Published, Registered, Revoked, Examining,
         Granted, EntryAt, Idle, Held
<1>2. /\ TypeOK /\ FlightInv /\ GenerationInv /\ RegistryInv /\ [Next]_vars
      => [Contract!ContractNext]_(Contract!contractVars)
  BY StepSimulated
<1>3. Spec => Contract!ContractInit /\ [][Contract!ContractNext]_(Contract!contractVars)
  BY <1>1, <1>2, RegistryInvAlways, PTL DEF Spec
<1> QED BY <1>3 DEF ImplementsContract, Contract!ContractSpec
=============================================================================
