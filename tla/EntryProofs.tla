----------------------------- MODULE EntryProofs -----------------------------
(***************************************************************************)
(* run_single_flight admits one capture per key and abandons no waiter,    *)
(* and because of that the generations capture_graph publishes for a key   *)
(* only grow and single out one current entry.  Then what can happen to an *)
(* entry between its capture and the end of its last use: what the         *)
(* registry knows of it, its executable, its lifecycle, whether the lookup *)
(* it was captured for finds it, and whether invalidate does.              *)
(***************************************************************************)
EXTENDS GraphCacheProofs

\* The inductive invariant of the single-flight protocol: the map inflight and the
\* program counters of the owners describe the same attempts, an attempt that reached
\* its end has a result, and a waiter without one waits on an attempt that has not.
OwnersRegistered ==
  \A t \in Threads : th[t].pc \in OwnerPCs =>
    KeyOf[th[t].req] \in DOMAIN inflight /\ inflight[KeyOf[th[t].req]] = t
AttemptsOwned ==
  \A k \in DOMAIN inflight : th[inflight[k]].pc \in OwnerPCs /\ KeyOf[th[inflight[k]].req] = k
ResultsSet == \A t \in Threads : th[t].pc \in {"persist", "complete", "erase"} => th[t].res # "none"
WaitersServed ==
  \A t \in Threads : th[t].pc = "wait" /\ th[t].res = "none" =>
    KeyOf[th[t].req] \in DOMAIN inflight /\ th[inflight[KeyOf[th[t].req]]].pc # "erase"
FlightInv == OwnersRegistered /\ AttemptsOwned /\ ResultsSet /\ WaitersServed

\* The inductive invariant of the generations: all numbers given out differ and are
\* below the counter, and what is about to be published is not behind its key.
GenerationInv ==
  /\ \A e \in DOMAIN entry : entry[e].generation < graph_generation_counter
  /\ \A e, f \in DOMAIN entry : entry[e].generation = entry[f].generation => e = f
  /\ \A k \in DOMAIN key_current_gen : key_current_gen[k] < graph_generation_counter
  /\ \A t \in Threads : th[t].pc = "publish" /\ KeyOf[th[t].req] \in DOMAIN key_current_gen =>
       key_current_gen[KeyOf[th[t].req]] <= entry[th[t].ent].generation
-----------------------------------------------------------------------------
\* A step outside the protocol: one thread moves, neither from an owner's step nor to
\* one or to a wait, or none does.
Outside(t) ==
  /\ th[t].pc \notin OwnerPCs /\ th'[t].pc \notin OwnerPCs /\ th'[t].pc # "wait"
  /\ \A u \in Threads \ {t} : th'[u] = th[u]
FlightQuiet == UNCHANGED inflight /\ (UNCHANGED th \/ \E t \in Threads : Outside(t))

\* Six steps take part in the protocol; the others are outside it.
FlightStep(t) ==
  Join(t) \/ CaptureFail(t) \/ CaptureBuild(t) \/ Publish(t) \/ Complete(t) \/ Erase(t)

\* Only the steps of run_single_flight and of the capture it runs touch the in-flight map
\* or the place of a thread in it.
LEMMA FlightCases ==
  ASSUME TypeOK, [Next]_vars PROVE FlightQuiet \/ \E t \in Threads : FlightStep(t)
<1>0. th \in [Threads -> Thread]
  BY Zenon DEF TypeOK
<1>1. CASE UNCHANGED vars
  BY <1>1, Zenon DEF vars, FlightQuiet
<1>2. ASSUME NEW l \in DOMAIN lease, Release(l) \/ ReleaseStep(l) PROVE FlightQuiet
  BY <1>2, Zenon DEF Release, ReleaseStep, ReleaseEntryLoad, ReleaseEntrySub, ReleaseGlobalLoad,
              ReleaseGlobalSub, leaseFrame, FlightQuiet
<1>3. ASSUME NEW t \in Threads, Start(t) PROVE FlightQuiet
  <2> USE DEF FlightQuiet, Call, Idle, OwnerPCs, At
  <2>1. ASSUME NEW r \in Requests, Lookup(t, r) PROVE FlightQuiet
    <3>1. At(t, "idle") /\ UNCHANGED inflight
      BY <2>1, Zenon DEF Lookup
    <3>2. CASE \E i \in Compatible(r) :
                 Call(t, [Idle EXCEPT !.pc = "materialize", !.req = r, !.ent = Bucket(r)[i]])
      <4> PICK i \in Compatible(r) :
             Call(t, [Idle EXCEPT !.pc = "materialize", !.req = r, !.ent = Bucket(r)[i]])
        BY <3>2, Zenon
      <4>1. th'[t].pc = "materialize" /\ \A u \in Threads \ {t} : th'[u] = th[u]
        BY <1>0, Zenon
      <4> QED BY <3>1, <4>1, Zenon DEF Outside
    <3>3. CASE Call(t, [Idle EXCEPT !.pc = "join", !.req = r])
      BY <1>0, <3>1, <3>3, Zenon DEF Outside
    <3> QED BY <2>1, <3>2, <3>3, Zenon DEF Lookup
  <2>2. ASSUME NEW l \in DOMAIN lease, Replay(t, l) PROVE FlightQuiet
    BY <1>0, <2>2, Zenon DEF Replay, Outside
  <2>3. ASSUME NEW scope \in Scopes, NEW strong \in BOOLEAN, Invalidate(t, scope, strong)
        PROVE  FlightQuiet
    BY <1>0, <2>3, Zenon DEF Invalidate, Outside
  <2>4. ASSUME NEW a \in DOMAIN by_artifact, Pin(t, a) \/ Unpin(t, a) \/ Evict(t, a) \/ Unload(t, a)
        PROVE  FlightQuiet
    <3>1. CASE Pin(t, a)
      BY <3>1, Zenon DEF Pin
    <3>2. CASE Unpin(t, a)
      BY <1>0, <3>2, Zenon DEF Unpin, Outside
    <3>3. CASE Evict(t, a)
      BY <1>0, <3>3, Zenon DEF Evict, Outside
    <3>4. CASE Unload(t, a)
      BY <1>0, <3>4, Zenon DEF Unload, Outside
    <3> QED BY <2>4, <3>1, <3>2, <3>3, <3>4, Zenon
  <2> QED BY <1>3, <2>1, <2>2, <2>3, <2>4, Zenon DEF Start
<1>4. ASSUME NEW t \in Threads, Continue(t) PROVE FlightQuiet \/ FlightStep(t)
  <2>1. CASE FlightStep(t)
    BY <2>1, Zenon
  <2>2. CASE SearchAgain(t)
    BY <1>0, <2>2 DEF SearchAgain, At, Return, Idle, Outside, OwnerPCs, FlightQuiet, Thread
  <2>3. CASE Materialize(t)
    BY <1>0, <2>3 DEF Materialize, At, Goto, Return, Idle, Outside, OwnerPCs, FlightQuiet, Thread
  <2>4. CASE Recheck(t) \/ MakeLease(t) \/ Wake(t)
    BY <1>0, <2>4 DEF Recheck, MakeLease, Wake, AfterFlight, At, Goto, Return, Idle, Outside, OwnerPCs,
                      FlightQuiet, Thread
  <2>5. CASE InvalidateCollect(t) \/ InvalidateReturn(t)
    BY <1>0, <2>5 DEF InvalidateCollect, InvalidateReturn, At, Return, Idle, Outside, OwnerPCs,
                      FlightQuiet, Thread
  <2>7. CASE InvalidateMark(t)
    <3>1. At(t, "mark") /\ UNCHANGED inflight /\ \E S : th' = [th EXCEPT ![t].targets = S]
      BY <2>7, Zenon DEF InvalidateMark
    <3>2. PICK S : th' = [th EXCEPT ![t].targets = S]
      BY <3>1, Zenon
    <3>3. th'[t].pc = "mark" /\ \A u \in Threads \ {t} : th'[u] = th[u]
      BY <1>0, <3>1, <3>2 DEF At, Thread
    <3> QED BY <3>1, <3>3, Zenon DEF At, Outside, OwnerPCs, FlightQuiet
  <2>6. CASE UnpinSub(t) \/ EvictApply(t) \/ ReplayEnd(t)
    BY <1>0, <2>6 DEF UnpinSub, EvictApply, ReplayEnd, At, Return, Idle, Outside, OwnerPCs, FlightQuiet,
                      Thread
  <2> QED BY <1>4, <2>1, <2>2, <2>3, <2>4, <2>5, <2>6, <2>7, Zenon DEF Continue, FlightStep
<1> QED BY <1>1, <1>2, <1>3, <1>4, Zenon DEF Next

\* A step outside the protocol keeps its invariant.
LEMMA FlightQuietInv ==
  ASSUME TypeOK, TypeOK', FlightInv, FlightQuiet PROVE FlightInv'
<1>0. /\ th \in [Threads -> Thread] /\ inflight \in [DOMAIN inflight -> Threads]
      /\ th' \in [Threads -> Thread]
  BY Zenon DEF TypeOK
<1>1. CASE UNCHANGED th
  BY <1>1, Zenon DEF FlightQuiet, FlightInv, OwnersRegistered, AttemptsOwned, ResultsSet, WaitersServed
<1>2. ASSUME NEW t \in Threads, Outside(t) PROVE FlightInv'
  BY <1>0, <1>2 DEF FlightQuiet, Outside, FlightInv, OwnerPCs, OwnersRegistered, AttemptsOwned,
       ResultsSet, WaitersServed
<1> QED BY <1>1, <1>2, Zenon DEF FlightQuiet

\* An owner gets on with its attempt.
OwnerMoves(t) ==
  /\ UNCHANGED inflight /\ th[t].pc \in OwnerPCs \ {"erase"}
  /\ th'[t].pc \in OwnerPCs \ {"erase"} /\ th'[t].req = th[t].req
  /\ th'[t].pc \in {"persist", "complete"} => th'[t].res # "none"
  /\ \A u \in Threads \ {t} : th'[u] = th[u]

\* It stays the owner, and those who wait for it wait on.
LEMMA FlightOwnerInv ==
  ASSUME TypeOK, TypeOK', FlightInv, NEW t \in Threads, OwnerMoves(t) PROVE FlightInv'
<1> USE DEF OwnerMoves
<1>0. /\ th \in [Threads -> Thread] /\ inflight \in [DOMAIN inflight -> Threads]
      /\ th' \in [Threads -> Thread]
  BY Zenon DEF TypeOK
<1>1. \A u \in Threads : th'[u].req = th[u].req /\ (th'[u].pc \in OwnerPCs <=> th[u].pc \in OwnerPCs)
  BY <1>0, Zenon
<1>2. OwnersRegistered'
  BY <1>1, Zenon DEF FlightInv, OwnersRegistered
<1>3. AttemptsOwned'
  BY <1>0, <1>1, Zenon DEF FlightInv, AttemptsOwned
<1>4. ResultsSet'
  BY <1>0, Zenon DEF FlightInv, ResultsSet, OwnerPCs
<1>5. \A k \in DOMAIN inflight : th'[inflight[k]].pc = "erase" => th[inflight[k]].pc = "erase"
  BY <1>0, Zenon
<1>6. WaitersServed'
  BY <1>0, <1>5 DEF FlightInv, WaitersServed, OwnersRegistered, AttemptsOwned, ResultsSet, OwnerPCs
<1> QED BY <1>2, <1>3, <1>4, <1>6, Zenon DEF FlightInv

\* Every step keeps the single-flight invariant.
LEMMA FlightStepInv == ASSUME TypeOK, FlightInv, [Next]_vars PROVE FlightInv'
<1>0. /\ th \in [Threads -> Thread] /\ inflight \in [DOMAIN inflight -> Threads]
      /\ th' \in [Threads -> Thread] /\ TypeOK'
  BY StepType, Zenon DEF TypeOK
<1>1. CASE FlightQuiet
  BY <1>0, <1>1, FlightQuietInv, Zenon
<1>2. ASSUME NEW t \in Threads, FlightStep(t) PROVE FlightInv'
  <2>1. CASE Join(t)
    <3> DEFINE k == KeyOf[th[t].req]
    <3>1. CASE k \in DOMAIN inflight
      <4>1. /\ UNCHANGED inflight /\ th[t].pc = "join"
            /\ th'[t].pc = "wait" /\ th'[t].req = th[t].req
            /\ th'[t].res = IF At(inflight[k], "erase") THEN th[inflight[k]].res ELSE "none"
            /\ \A u \in Threads \ {t} : th'[u] = th[u]
        BY <1>0, <2>1, <3>1 DEF Join, At, Thread
      <4>2. \A j \in DOMAIN inflight : inflight[j] \in Threads \ {t}
        BY <1>0, <4>1, Zenon DEF FlightInv, AttemptsOwned, OwnerPCs
      <4>3. \A j \in DOMAIN inflight : th'[inflight'[j]] = th[inflight[j]]
        BY <4>1, <4>2, Zenon
      <4>4. OwnersRegistered'
        BY <4>1, Zenon DEF FlightInv, OwnersRegistered, OwnerPCs
      <4>5. AttemptsOwned'
        BY <4>1, <4>3, Zenon DEF FlightInv, AttemptsOwned
      <4>6. ResultsSet'
        BY <4>1, Zenon DEF FlightInv, ResultsSet
      <4>7. WaitersServed'
        <5> SUFFICES ASSUME NEW u \in Threads, th'[u].pc = "wait", th'[u].res = "none"
                     PROVE  /\ KeyOf[th'[u].req] \in DOMAIN inflight'
                            /\ th'[inflight'[KeyOf[th'[u].req]]].pc # "erase"
          BY Zenon DEF WaitersServed
        <5>1. CASE u = t
          <6>1. th[inflight[k]].pc # "erase"
            BY <3>1, <4>1, <4>2, <5>1, Zenon DEF FlightInv, ResultsSet, At
          <6> QED BY <3>1, <4>1, <4>3, <5>1, <6>1, Zenon
        <5>2. CASE u # t
          BY <4>1, <4>3, <5>2, Zenon DEF FlightInv, WaitersServed
        <5> QED BY <5>1, <5>2, Zenon
      <4> QED BY <4>4, <4>5, <4>6, <4>7, Zenon DEF FlightInv
    <3>2. CASE k \notin DOMAIN inflight
      <4>1. /\ inflight' = Put(inflight, k, t) /\ th[t].pc = "join"
            /\ th'[t].pc = "capture" /\ th'[t].req = th[t].req
            /\ \A u \in Threads \ {t} : th'[u] = th[u]
        BY <1>0, <2>1, <3>2 DEF Join, At, Thread
      <4>2. /\ DOMAIN inflight' = DOMAIN inflight \cup {k} /\ inflight'[k] = t
            /\ \A j \in DOMAIN inflight : inflight'[j] = inflight[j]
        BY <3>2, <4>1, Zenon DEF Put
      <4>3. \A j \in DOMAIN inflight : inflight[j] \in Threads \ {t}
        BY <1>0, <4>1, Zenon DEF FlightInv, AttemptsOwned, OwnerPCs
      <4>4. \A j \in DOMAIN inflight : th'[inflight'[j]] = th[inflight[j]]
        BY <4>1, <4>2, <4>3, Zenon
      <4>5. OwnersRegistered'
        BY <1>0, <4>1, <4>2 DEF FlightInv, OwnersRegistered, OwnerPCs
      <4>6. AttemptsOwned'
        <5>1. th'[inflight'[k]].pc \in OwnerPCs /\ KeyOf[th'[inflight'[k]].req] = k
          BY <4>1, <4>2, Zenon DEF OwnerPCs
        <5>2. ASSUME NEW j \in DOMAIN inflight
              PROVE  th'[inflight'[j]].pc \in OwnerPCs /\ KeyOf[th'[inflight'[j]].req] = j
          BY <4>4, Zenon DEF FlightInv, AttemptsOwned
        <5> HIDE DEF k
        <5> QED BY <4>2, <5>1, <5>2, Zenon DEF AttemptsOwned
      <4>7. ResultsSet'
        BY <4>1, Zenon DEF FlightInv, ResultsSet
      <4>8. WaitersServed'
        <5> SUFFICES ASSUME NEW u \in Threads, th'[u].pc = "wait", th'[u].res = "none"
                     PROVE  /\ KeyOf[th'[u].req] \in DOMAIN inflight'
                            /\ th'[inflight'[KeyOf[th'[u].req]]].pc # "erase"
          BY Zenon DEF WaitersServed
        <5>1. th'[u] = th[u]
          BY <4>1, Zenon
        <5>2. KeyOf[th[u].req] \in DOMAIN inflight /\ th[inflight[KeyOf[th[u].req]]].pc # "erase"
          BY <5>1, Zenon DEF FlightInv, WaitersServed
        <5> QED BY <4>2, <4>4, <5>1, <5>2, Zenon
      <4> QED BY <4>5, <4>6, <4>7, <4>8, Zenon DEF FlightInv
    <3> QED BY <3>1, <3>2, Zenon
  <2>2. CASE CaptureFail(t) \/ CaptureBuild(t) \/ Publish(t)
    <3>1. CASE CaptureFail(t)
      BY <1>0, <3>1, FlightOwnerInv, Zenon DEF OwnerMoves, CaptureFail, At, OwnerPCs, Thread
    <3>2. CASE CaptureBuild(t)
      BY <1>0, <3>2, FlightOwnerInv DEF OwnerMoves, CaptureBuild, At, OwnerPCs, Thread
    <3>3. CASE Publish(t)
      BY <1>0, <3>3, FlightOwnerInv DEF OwnerMoves, Publish, At, OwnerPCs, Thread
    <3> QED BY <2>2, <3>1, <3>2, <3>3, Zenon
  <2>3. CASE Complete(t)
    <3>1. /\ UNCHANGED inflight /\ th[t].pc = "complete"
          /\ th'[t].pc = "erase" /\ th'[t].req = th[t].req /\ th'[t].res = th[t].res
      BY <1>0, <2>3, Zenon DEF Complete, At, Thread
    <3>2. \A u \in Threads \ {t} :
            /\ th'[u].pc = th[u].pc /\ th'[u].req = th[u].req
            /\ IF WaitsOn(t, u) THEN th'[u].res = th[t].res ELSE th'[u].res = th[u].res
      BY <1>0, <2>3 DEF Complete, Thread
    <3>5. OwnersRegistered'
      BY <1>0, <3>1, <3>2 DEF FlightInv, OwnersRegistered, AttemptsOwned, OwnerPCs, WaitsOn, At
    <3>6. AttemptsOwned'
      BY <1>0, <3>1, <3>2 DEF FlightInv, OwnersRegistered, AttemptsOwned, OwnerPCs, WaitsOn, At
    <3>7. ResultsSet'
      BY <1>0, <3>1, <3>2, Zenon DEF FlightInv, ResultsSet, OwnerPCs, WaitsOn, At
    <3>8. WaitersServed'
      BY <1>0, <3>1, <3>2 DEF FlightInv, WaitersServed, OwnersRegistered, AttemptsOwned, ResultsSet,
           OwnerPCs, WaitsOn, At
    <3> QED BY <3>5, <3>6, <3>7, <3>8, Zenon DEF FlightInv
  <2>4. CASE Erase(t)
    <3>1. /\ inflight' = Drop(inflight, KeyOf[th[t].req]) /\ th[t].pc = "erase"
          /\ th'[t].pc \notin OwnerPCs /\ th'[t].pc # "wait"
          /\ \A u \in Threads \ {t} : th'[u] = th[u]
      BY <1>0, <2>4 DEF Erase, AfterFlight, Goto, Return, Idle, At, OwnerPCs, Thread
    <3> DEFINE k == KeyOf[th[t].req]
    <3>2. k \in DOMAIN inflight /\ inflight[k] = t
      BY <3>1, Zenon DEF FlightInv, OwnersRegistered, OwnerPCs
    <3>3. /\ DOMAIN inflight' = DOMAIN inflight \ {k}
          /\ \A j \in DOMAIN inflight' : inflight'[j] = inflight[j]
      BY <3>1, Zenon DEF Drop
    <3>4. \A j \in DOMAIN inflight' : th'[inflight'[j]] = th[inflight[j]]
      <4> SUFFICES ASSUME NEW j \in DOMAIN inflight' PROVE th'[inflight'[j]] = th[inflight[j]]
        BY Zenon
      <4>1. j \in DOMAIN inflight /\ j # k /\ inflight[j] \in Threads
        BY <1>0, <3>3, Zenon
      <4>2. inflight[j] # t
        BY <4>1, Zenon DEF FlightInv, AttemptsOwned
      <4> QED BY <3>1, <3>3, <4>1, <4>2, Zenon
    <3>5. OwnersRegistered'
      <4> SUFFICES ASSUME NEW u \in Threads, th'[u].pc \in OwnerPCs
                   PROVE  KeyOf[th'[u].req] \in DOMAIN inflight' /\ inflight'[KeyOf[th'[u].req]] = u
        BY Zenon DEF OwnersRegistered, OwnerPCs
      <4>1. u # t /\ th'[u] = th[u]
        BY <3>1, Zenon
      <4>2. KeyOf[th[u].req] \in DOMAIN inflight /\ inflight[KeyOf[th[u].req]] = u
        BY <4>1, Zenon DEF FlightInv, OwnersRegistered
      <4> QED BY <3>2, <3>3, <4>1, <4>2, Zenon
    <3>6. AttemptsOwned'
      BY <3>3, <3>4, Zenon DEF FlightInv, AttemptsOwned, OwnerPCs
    <3>7. ResultsSet'
      BY <3>1, Zenon DEF FlightInv, ResultsSet, OwnerPCs
    <3>8. WaitersServed'
      <4> SUFFICES ASSUME NEW u \in Threads, th'[u].pc = "wait", th'[u].res = "none"
                   PROVE  /\ KeyOf[th'[u].req] \in DOMAIN inflight'
                          /\ th'[inflight'[KeyOf[th'[u].req]]].pc # "erase"
        BY Zenon DEF WaitersServed
      <4>1. th'[u] = th[u]
        BY <3>1, Zenon
      <4>2. KeyOf[th[u].req] \in DOMAIN inflight /\ th[inflight[KeyOf[th[u].req]]].pc # "erase"
        BY <4>1, Zenon DEF FlightInv, WaitersServed
      <4>3. KeyOf[th[u].req] \in DOMAIN inflight'
        <5>1. KeyOf[th[u].req] # k
          BY <3>1, <3>2, <4>2, Zenon
        <5> HIDE DEF k
        <5> QED BY ONLY <3>3, <4>2, <5>1, Zenon
      <4>4. th'[inflight'[KeyOf[th[u].req]]] = th[inflight[KeyOf[th[u].req]]]
        BY ONLY <3>4, <4>3, Zenon
      <4> QED BY ONLY <4>1, <4>2, <4>3, <4>4, Zenon
    <3> QED BY <3>5, <3>6, <3>7, <3>8, Zenon DEF FlightInv
  <2> QED BY <1>2, <2>1, <2>2, <2>3, <2>4, Zenon DEF FlightStep
<1> QED BY <1>1, <1>2, FlightCases, Zenon

\* The single-flight invariant holds in every reachable state.
LEMMA FlightInvAlways == Spec => [](TypeOK /\ FlightInv)
<1>1. Init => TypeOK /\ FlightInv
  BY InitType DEF Init, FlightInv, Idle, OwnerPCs, OwnersRegistered, AttemptsOwned, ResultsSet, WaitersServed
<1>2. TypeOK /\ FlightInv /\ [Next]_vars => TypeOK' /\ FlightInv'
  BY StepType, FlightStepInv, Zenon
<1> QED BY <1>1, <1>2, PTL DEF Spec

\* run_single_flight never lets two threads capture for one compatibility key at a
\* time, however many callers, requests and keys there are.
THEOREM SingleFlightAlways == Spec => []SingleFlight
<1>1. TypeOK /\ FlightInv => SingleFlight
  BY Zenon DEF FlightInv, OwnersRegistered, SingleFlight
<1> QED BY <1>1, FlightInvAlways, PTL

\* A caller waiting in run_single_flight always has a live owner that will still set
\* its result: none slips between the owner's notify_all and its erase.
THEOREM NoAbandonedWaiterAlways == Spec => []NoAbandonedWaiter
<1>1. TypeOK /\ FlightInv => NoAbandonedWaiter
  BY Zenon DEF TypeOK, FlightInv, AttemptsOwned, WaitersServed, NoAbandonedWaiter, At
<1> QED BY <1>1, FlightInvAlways, PTL
-----------------------------------------------------------------------------
\* Only CaptureBuild brings a thread to its publication.
LEMMA PublicationCases ==
  ASSUME TypeOK, [Next]_vars, ~ \E t \in Threads : CaptureBuild(t)
  PROVE  \A t \in Threads : th'[t].pc = "publish" => th'[t] = th[t]
<1>0. th \in [Threads -> Thread]
  BY Zenon DEF TypeOK
<1>1. CASE FlightQuiet
  BY <1>1, Zenon DEF FlightQuiet, Outside, OwnerPCs
<1>2. ASSUME NEW u \in Threads, FlightStep(u)
      PROVE  \A t \in Threads : th'[t].pc = "publish" => th'[t] = th[t]
  <2>1. CASE Join(u) \/ CaptureFail(u)
    BY <1>0, <2>1 DEF Join, CaptureFail, Thread
  <2>2. CASE Publish(u)
    BY <1>0, <2>2, Zenon DEF Publish, Thread
  <2>3. CASE Complete(u)
    BY <1>0, <2>3 DEF Complete, WaitsOn, At, Thread
  <2>4. CASE Erase(u)
    BY <1>0, <2>4 DEF Erase, AfterFlight, Goto, Return, Idle, Thread
  <2> QED BY <1>2, <2>1, <2>2, <2>3, <2>4, Zenon DEF FlightStep
<1> QED BY <1>1, <1>2, FlightCases, Zenon

\* Two steps decide about generations; the others change none that an entry or a key has.
GenerationQuiet ==
  /\ DOMAIN entry' = DOMAIN entry
  /\ \A e \in DOMAIN entry : entry'[e].generation = entry[e].generation
  /\ UNCHANGED key_current_gen
  /\ graph_generation_counter' >= graph_generation_counter

\* An update of one entry's counters, flags or residency keeps all generations.
LEMMA GenerationKept ==
  ASSUME entry \in [DOMAIN entry -> Entry], NEW e, NEW r,
         r.generation = entry[e].generation, entry' = [entry EXCEPT ![e] = r]
  PROVE  /\ DOMAIN entry' = DOMAIN entry
         /\ \A f \in DOMAIN entry : entry'[f].generation = entry[f].generation
  BY Zenon

\* Only the build and the publication of a capture touch generations.
LEMMA GenerationCases ==
  ASSUME TypeOK, [Next]_vars
  PROVE  GenerationQuiet \/ \E t \in Threads : CaptureBuild(t) \/ Publish(t)
<1>0. /\ entry \in [DOMAIN entry -> Entry] /\ graph_generation_counter \in Nat
      /\ th \in [Threads -> Thread]
  BY Zenon DEF TypeOK
<1> DEFINE Kept == /\ DOMAIN entry' = DOMAIN entry
                   /\ \A e \in DOMAIN entry : entry'[e].generation = entry[e].generation
<1>1. CASE UNCHANGED vars
  BY <1>0, <1>1 DEF vars, GenerationQuiet
<1>2. ASSUME NEW l \in DOMAIN lease, Release(l) \/ ReleaseStep(l) PROVE GenerationQuiet
  <2>1. UNCHANGED <<key_current_gen, graph_generation_counter>>
    BY <1>2, Zenon DEF Release, ReleaseStep, ReleaseEntryLoad, ReleaseEntrySub, ReleaseGlobalLoad,
                ReleaseGlobalSub, leaseFrame, registry, generations
  <2>2. UNCHANGED entry \/ entry' = [entry EXCEPT ![lease[l].entry].lease_count = Dec(@)]
    BY <1>2, Zenon DEF Release, ReleaseStep, ReleaseEntryLoad, ReleaseEntrySub, ReleaseGlobalLoad,
                ReleaseGlobalSub
  <2>3. Kept
    BY <1>0, <2>2 DEF Entry
  <2> QED BY <1>0, <2>1, <2>3 DEF GenerationQuiet
<1>3. ASSUME NEW t \in Threads, Start(t) PROVE GenerationQuiet
  <2>1. UNCHANGED key_current_gen /\ UNCHANGED graph_generation_counter
    BY <1>3, Zenon DEF Start, Lookup, Replay, Invalidate, Pin, Unpin, Evict, Unload, registry, generations
  <2>2. \/ UNCHANGED entry
        \/ \E l \in DOMAIN lease : entry' = [entry EXCEPT ![lease[l].entry].active_replays = @ + 1]
        \/ \E a \in DOMAIN by_artifact : entry' = [entry EXCEPT ![by_artifact[a]].pin_count = @ + 1]
    BY <1>3, Zenon DEF Start, Lookup, Replay, Invalidate, Pin, Unpin, Evict, Unload
  <2>3. Kept
    <3>1. ASSUME NEW l \in DOMAIN lease, entry' = [entry EXCEPT ![lease[l].entry].active_replays = @ + 1]
          PROVE  Kept
      BY <1>0, <3>1, Zenon DEF Entry
    <3>2. ASSUME NEW a \in DOMAIN by_artifact, entry' = [entry EXCEPT ![by_artifact[a]].pin_count = @ + 1]
          PROVE  Kept
      BY <1>0, <3>2, Zenon DEF Entry
    <3> QED BY <2>2, <3>1, <3>2, Zenon
  <2> QED BY <1>0, <2>1, <2>3 DEF GenerationQuiet
<1>4. ASSUME NEW t \in Threads, Continue(t), ~CaptureBuild(t), ~Publish(t) PROVE GenerationQuiet
  <2>1. CASE InvalidateMark(t)
    <3>1. UNCHANGED key_current_gen /\ graph_generation_counter' >= graph_generation_counter
      BY <1>0, <2>1 DEF InvalidateMark, registry
    <3> DEFINE marked(e) == [entry[e] EXCEPT !.invalidated = TRUE, !.lifecycle = "Invalidated"]
               new(e) == IF th[t].strong /\ marked(e).lease_count = 0 THEN Unloaded(marked(e)) ELSE marked(e)
    <3>2. PICK e \in th[t].targets : UNCHANGED entry \/ entry' = [entry EXCEPT ![e] = new(e)]
      BY <2>1, Zenon DEF InvalidateMark
    <3>3. e \in DOMAIN entry /\ entry[e] \in Entry
      BY <1>0, Zenon DEF TypeOK
    <3>4. new(e).generation = entry[e].generation
      BY <3>3, Zenon DEF Unloaded, Entry
    <3>5. Kept
      <4> HIDE DEF new
      <4> QED BY <1>0, <3>2, <3>4, GenerationKept, Zenon
    <3> QED BY <3>1, <3>5, Zenon DEF GenerationQuiet
  <2>2. CASE EvictApply(t)
    <3>1. UNCHANGED <<key_current_gen, graph_generation_counter>>
      BY <2>2, Zenon DEF EvictApply, registry, generations
    <3>2. th[t].ent \in DOMAIN entry
      BY <2>2, Zenon DEF EvictApply, At, TypeOK, EntryPCs
    <3>3. Kept
      BY <1>0, <2>2, <3>2, Zenon DEF EvictApply, Unloaded, Entry
    <3> QED BY <1>0, <3>1, <3>3 DEF GenerationQuiet
  <2>3. CASE ~InvalidateMark(t) /\ ~EvictApply(t)
    <3>1. UNCHANGED key_current_gen /\ UNCHANGED graph_generation_counter
      BY <1>4, <2>3, Zenon DEF Continue, SearchAgain, Materialize, Materialized,
           Recheck, MakeLease, Join, CaptureFail, Complete,
           Erase, Wake, InvalidateCollect, InvalidateReturn, UnpinSub, ReplayEnd, registry, generations
    <3>2. \/ UNCHANGED entry
          \/ entry' = [entry EXCEPT ![th[t].ent].exec = TRUE, ![th[t].ent].residency = "HostResident"]
          \/ entry' = [entry EXCEPT ![th[t].ent].lease_count = @ + 1]
          \/ entry' = [entry EXCEPT ![th[t].ent].pin_count = Dec(@)]
          \/ entry' = [entry EXCEPT ![th[t].ent].active_replays = Dec(@)]
      BY <1>4, <2>3, Zenon DEF Continue, SearchAgain, Materialize, Materialized,
           Recheck, MakeLease, Join, CaptureFail, Complete,
           Erase, Wake, InvalidateCollect, InvalidateReturn, UnpinSub, ReplayEnd
    <3>3. Kept
      BY <1>0, <3>2 DEF Entry
    <3> QED BY <1>0, <3>1, <3>3 DEF GenerationQuiet
  <2> QED BY <2>1, <2>2, <2>3, Zenon
<1> QED BY <1>1, <1>2, <1>3, <1>4, Zenon DEF Next

\* Every step keeps the invariant of the generations.
LEMMA GenerationStepInv ==
  ASSUME TypeOK, FlightInv, GenerationInv, [Next]_vars PROVE GenerationInv'
<1>0. /\ th \in [Threads -> Thread] /\ entry \in [DOMAIN entry -> Entry]
      /\ graph_generation_counter \in Nat /\ key_current_gen \in [DOMAIN key_current_gen -> Nat]
      /\ \A t \in Threads : th[t].pc = "publish" => th[t].ent \in DOMAIN entry /\ th[t].req \in Requests
      /\ \A e \in DOMAIN entry : entry[e].generation \in Nat
  BY Zenon DEF TypeOK, EntryPCs, LookupPCs, Entry
<1>1. TypeOK'
  BY StepType, Zenon
<1>2. CASE GenerationQuiet /\ ~ \E t \in Threads : CaptureBuild(t)
  <2>1. \A t \in Threads : th'[t].pc = "publish" => th'[t] = th[t]
    BY <1>2, PublicationCases, Zenon
  <2>2. graph_generation_counter' \in Nat
    BY <1>1, Zenon DEF TypeOK
  <2> QED BY <1>0, <1>2, <2>1, <2>2 DEF GenerationQuiet, GenerationInv
<1>3. ASSUME NEW t \in Threads, CaptureBuild(t) PROVE GenerationInv'
  <2>1. UNCHANGED key_current_gen /\ graph_generation_counter' = graph_generation_counter + 1
    BY <1>3, Zenon DEF CaptureBuild, registry
  <2>2. CASE UNCHANGED entry /\ th' = [th EXCEPT ![t].pc = "complete", ![t].res = "failed"]
    <3>1. \A u \in Threads : th'[u].pc = "publish" => th'[u] = th[u]
      BY <1>0, <2>2 DEF Thread
    <3> QED BY <1>0, <2>1, <2>2, <3>1 DEF GenerationInv
  <2>3. ASSUME NEW e \in EntryIds \ DOMAIN entry, entry' = Put(entry, e, NewEntry(th[t].req)),
               th' = [th EXCEPT ![t].pc = "publish", ![t].ent = e]
        PROVE  GenerationInv'
    <3>1. /\ DOMAIN entry' = DOMAIN entry \cup {e} /\ entry'[e].generation = graph_generation_counter
          /\ \A f \in DOMAIN entry : entry'[f] = entry[f]
      BY <2>3, Zenon DEF Put, NewEntry, EntryFor
    <3>2. /\ th'[t].ent = e /\ th'[t].req = th[t].req
          /\ \A u \in Threads \ {t} : th'[u] = th[u]
      BY <1>0, <2>3, Zenon DEF Thread
    <3> QED BY <1>0, <2>1, <3>1, <3>2 DEF GenerationInv
  <2> QED BY <1>3, <2>2, <2>3, Zenon DEF CaptureBuild
<1>4. ASSUME NEW t \in Threads, Publish(t) PROVE GenerationInv'
  <2> DEFINE k == KeyOf[th[t].req]
             e == th[t].ent
  <2>1. /\ UNCHANGED <<entry, graph_generation_counter>> /\ th[t].pc = "publish" /\ e \in DOMAIN entry
        /\ key_current_gen' = Put(key_current_gen, k, entry[e].generation)
    BY <1>0, <1>4, Zenon DEF Publish, generations, At, KeyGeneration
  <2>2. \A u \in Threads : th'[u].pc = "publish" => u # t /\ th'[u] = th[u]
    BY <1>0, <1>4, Zenon DEF Publish, Thread
  <2>3. \A u \in Threads : th'[u].pc = "publish" => KeyOf[th[u].req] # k
    BY <2>1, <2>2 DEF FlightInv, OwnersRegistered, OwnerPCs
  <2> QED BY <1>0, <2>1, <2>2, <2>3, Zenon DEF GenerationInv, Put
<1> QED BY <1>2, <1>3, <1>4, GenerationCases, Zenon

\* The invariant about generations holds in every reachable state.
LEMMA GenerationInvAlways == Spec => [](TypeOK /\ FlightInv /\ GenerationInv)
<1>1. Init => GenerationInv
  BY DEF Init, GenerationInv, Idle
<1>2. TypeOK /\ FlightInv /\ GenerationInv /\ [Next]_vars => GenerationInv'
  BY GenerationStepInv, Zenon
<1> QED BY <1>1, <1>2, FlightInvAlways, PTL DEF Spec

\* For one compatibility key search_candidates sees at most one replay-eligible entry,
\* because capture_graph never gives two entries the same generation.
THEOREM CurrentUniqueAlways == Spec => []CurrentUnique
<1>1. TypeOK /\ GenerationInv => CurrentUnique
  <2> SUFFICES ASSUME TypeOK, GenerationInv, NEW e \in Registered, NEW f \in Registered,
                      Current(e), Current(f), KeyOf[entry[e].req] = KeyOf[entry[f].req]
               PROVE  e = f
    BY Zenon DEF CurrentUnique
  <2>1. Registered \subseteq DOMAIN entry
    BY DEF TypeOK, Registered
  <2> QED BY <2>1, Zenon DEF Current, GenerationInv
<1> QED BY <1>1, GenerationInvAlways, PTL

\* The generation that makes an entry current for its key never goes back: single
\* flight orders the publications of a key as it orders the generations they took.
THEOREM GenerationMonotonicAlways == Spec => GenerationMonotonic
<1> DEFINE Mono == \A k \in DOMAIN key_current_gen :
                     k \in DOMAIN key_current_gen' /\ key_current_gen[k] <= key_current_gen'[k]
<1>1. TypeOK /\ FlightInv /\ GenerationInv /\ [Next]_vars => [Mono]_vars
  <2> SUFFICES ASSUME TypeOK, GenerationInv, [Next]_vars PROVE Mono
    BY Zenon
  <2>0. \A k \in DOMAIN key_current_gen : key_current_gen[k] \in Nat
    BY Zenon DEF TypeOK
  <2>1. CASE GenerationQuiet
    BY <2>0, <2>1 DEF GenerationQuiet
  <2>2. ASSUME NEW t \in Threads, CaptureBuild(t) PROVE Mono
    BY <2>0, <2>2 DEF CaptureBuild, registry
  <2>3. ASSUME NEW t \in Threads, Publish(t) PROVE Mono
    BY <2>0, <2>3 DEF Publish, At, KeyGeneration, Put, GenerationInv
  <2> QED BY <2>1, <2>2, <2>3, GenerationCases, Zenon
<1>2. Spec => [][Mono]_vars
  <2> HIDE DEF Mono
  <2> QED BY <1>1, GenerationInvAlways, PTL DEF Spec
<1> QED BY <1>2, Zenon DEF GenerationMonotonic
-----------------------------------------------------------------------------
\* What the registry knows: invalidate only ever sees published entries, an entry about
\* to be published is not there yet, and a key's current generation is that of an entry.
RegistryInv ==
  /\ \A a \in DOMAIN by_artifact : by_artifact[a] \in Registered
  /\ \A t \in Threads : th[t].targets \subseteq Registered
  /\ \A t \in Threads : th[t].pc = "publish" =>
       th[t].ent \notin Registered /\ entry[th[t].ent].req = th[t].req
  /\ \A k \in DOMAIN key_current_gen :
       \E e \in Registered : entry[e].generation = key_current_gen[k] /\ KeyOf[entry[e].req] = k

\* Membership in Registered, spelt out.
LEMMA RegisteredMembers ==
  /\ \A e : e \in Registered <=>
       \E w \in DOMAIN by_workload : \E i \in DOMAIN by_workload[w] : by_workload[w][i] = e
  /\ \A e : e \in Registered' <=>
       \E w \in DOMAIN by_workload' : \E i \in DOMAIN by_workload'[w] : by_workload'[w][i] = e
  BY DEF Registered

\* Registered entries exist.
LEMMA RegisteredExist == TypeOK => Registered \subseteq DOMAIN entry
  BY DEF TypeOK, Registered

\* Appending to a bucket adds one entry to those a lookup can see.
LEMMA AppendRegisters ==
  ASSUME TypeOK, NEW r \in Requests, NEW e \in EntryIds,
         by_workload' = Put(by_workload, WorkloadOf[r], Append(Bucket(r), e))
  PROVE  Registered' = Registered \cup {e}
<1> DEFINE w == WorkloadOf[r]
           b == Bucket(r)
<1>1. by_workload' = Put(by_workload, w, Append(b, e))
  BY Zenon
<1>2. Seq(DOMAIN entry) \subseteq Seq(EntryIds)
  BY DEF TypeOK
<1>3. b \in Seq(EntryIds)
  BY <1>2, TypeParts, BucketType, Zenon
<1>4. b = IF w \in DOMAIN by_workload THEN by_workload[w] ELSE << >>
  BY Zenon DEF Bucket
<1>5. /\ DOMAIN by_workload' = DOMAIN by_workload \cup {w} /\ by_workload'[w] = Append(b, e)
      /\ \A v \in DOMAIN by_workload : v # w => by_workload'[v] = by_workload[v]
  BY <1>1, Zenon DEF Put
<1>6. /\ DOMAIN Append(b, e) = 1 .. Len(b) + 1 /\ Append(b, e)[Len(b) + 1] = e
      /\ DOMAIN b = 1 .. Len(b) /\ Len(b) \in Nat
      /\ \A i \in DOMAIN b : Append(b, e)[i] = b[i]
  BY <1>2, <1>3
<1> HIDE DEF w, b
<1>7. ASSUME NEW x \in Registered PROVE x \in Registered'
  <2>0. PICK v \in DOMAIN by_workload : \E i \in DOMAIN by_workload[v] : by_workload[v][i] = x
    BY RegisteredMembers, Zenon
  <2>1. PICK i \in DOMAIN by_workload[v] : by_workload[v][i] = x
    BY <2>0, Zenon
  <2>2. CASE v = w
    <3>1. i \in DOMAIN b /\ b[i] = x
      BY <1>4, <2>1, <2>2, Zenon
    <3>2. i \in DOMAIN by_workload'[w] /\ by_workload'[w][i] = x
      BY <1>5, <1>6, <3>1
    <3> QED BY <1>5, <3>2, RegisteredMembers, Zenon
  <2>3. CASE v # w
    BY <1>5, <2>1, <2>3, RegisteredMembers, Zenon
  <2> QED BY <2>2, <2>3, Zenon
<1>8. e \in Registered'
  <2>1. Len(b) + 1 \in DOMAIN by_workload'[w] /\ by_workload'[w][Len(b) + 1] = e
    BY <1>5, <1>6
  <2> QED BY <1>5, <2>1, RegisteredMembers, Zenon
<1>9. ASSUME NEW x \in Registered' PROVE x \in Registered \/ x = e
  <2>0. PICK v \in DOMAIN by_workload' : \E i \in DOMAIN by_workload'[v] : by_workload'[v][i] = x
    BY RegisteredMembers, Zenon
  <2>1. PICK i \in DOMAIN by_workload'[v] : by_workload'[v][i] = x
    BY <2>0, Zenon
  <2>2. CASE v = w
    <3>1. i \in 1 .. Len(b) + 1 /\ Append(b, e)[i] = x
      BY <1>5, <1>6, <2>1, <2>2, Zenon
    <3>2. CASE i = Len(b) + 1
      BY <1>6, <3>1, <3>2, Zenon
    <3>3. CASE i # Len(b) + 1
      <4>1. i \in DOMAIN b /\ b[i] = x
        BY <1>6, <3>1, <3>3
      <4>2. w \in DOMAIN by_workload /\ b = by_workload[w]
        BY <1>4, <4>1
      <4> QED BY <4>1, <4>2, RegisteredMembers, Zenon
    <3> QED BY <3>2, <3>3, Zenon
  <2>3. CASE v # w
    BY <1>5, <2>1, <2>3, RegisteredMembers, Zenon
  <2> QED BY <2>2, <2>3, Zenon
<1> QED BY <1>7, <1>8, <1>9, Zenon

\* Publishing does so with the entry it publishes.
LEMMA PublishRegisters ==
  ASSUME TypeOK, NEW t \in Threads, Publish(t)
  PROVE  Registered' = Registered \cup {th[t].ent}
<1>1. th[t].req \in Requests /\ th[t].ent \in EntryIds
  BY Zenon DEF Publish, At, TypeOK, LookupPCs, EntryPCs
<1>2. by_workload' = Put(by_workload, WorkloadOf[th[t].req], Append(Bucket(th[t].req), th[t].ent))
  BY Zenon DEF Publish
<1> QED BY <1>1, <1>2, AppendRegisters, Zenon
-----------------------------------------------------------------------------
\* No step changes what an entry was captured for or the generations it was given.
EntriesKept ==
  /\ DOMAIN entry \subseteq DOMAIN entry'
  /\ \A e \in DOMAIN entry : /\ entry'[e].req = entry[e].req
                             /\ entry'[e].generation = entry[e].generation
                             /\ entry'[e].cache_generation = entry[e].cache_generation
\* A step that sets no invalidated flag and moves no lifecycle.
FlagsKept ==
  /\ \A e \in DOMAIN entry : /\ entry'[e].invalidated = entry[e].invalidated
                             /\ entry'[e].lifecycle = entry[e].lifecycle
  /\ \A e \in DOMAIN entry' \ DOMAIN entry : ~entry'[e].invalidated /\ entry'[e].lifecycle = "Valid"
\* A step that makes no entry BackendResident and unloads none that is not.
Loaded(e) == entry[e].residency # "BackendResident"
ExecutablesKept ==
  /\ \A e \in DOMAIN entry : Loaded(e) => Loaded(e)' /\ (entry[e].exec => entry'[e].exec)
  /\ \A e \in DOMAIN entry' \ DOMAIN entry : Loaded(e)'
EntryFacts == EntriesKept /\ FlagsKept /\ ExecutablesKept

\* An update of one entry that keeps these fields.
LEMMA IdentityUpdate ==
  ASSUME entry \in [DOMAIN entry -> Entry], NEW e, NEW r,
         r.req = entry[e].req, r.generation = entry[e].generation,
         r.cache_generation = entry[e].cache_generation,
         entry[e].residency # "BackendResident" => r.residency = entry[e].residency /\ r.exec = entry[e].exec,
         entry' = [entry EXCEPT ![e] = r]
  PROVE  /\ EntriesKept /\ ExecutablesKept
         /\ r.invalidated = entry[e].invalidated /\ r.lifecycle = entry[e].lifecycle => FlagsKept
  BY Zenon DEF EntriesKept, FlagsKept, ExecutablesKept, Loaded

\* What unloading an executable leaves of an entry.
LEMMA UnloadedKeeps ==
  ASSUME NEW en \in Entry
  PROVE  /\ Unloaded(en).req = en.req /\ Unloaded(en).generation = en.generation
         /\ Unloaded(en).cache_generation = en.cache_generation
         /\ Unloaded(en).invalidated = en.invalidated /\ Unloaded(en).lifecycle = en.lifecycle
         /\ en.residency # "BackendResident" => Unloaded(en) = en
  BY Zenon DEF Unloaded, Entry

\* What invalidate writes into the entry it marks.
Marked(t, e) ==
  LET marked == [entry[e] EXCEPT !.invalidated = TRUE, !.lifecycle = "Invalidated"] IN
  IF th[t].strong /\ marked.lease_count = 0 THEN Unloaded(marked) ELSE marked
\* A step of invalidate's marking: a target that was marked before, or one that is now.
LEMMA MarkedEntry ==
  ASSUME TypeOK, NEW t \in Threads, InvalidateMark(t)
  PROVE  \E e \in th[t].targets :
           /\ e \in DOMAIN entry
           /\ \/ UNCHANGED entry /\ entry[e].invalidated
              \/ entry' = [entry EXCEPT ![e] = Marked(t, e)] /\ ~entry[e].invalidated
           /\ th' = [th EXCEPT ![t].targets = @ \ {e}]
           /\ Marked(t, e).invalidated /\ Marked(t, e).lifecycle = "Invalidated"
           /\ Marked(t, e).req = entry[e].req /\ Marked(t, e).generation = entry[e].generation
           /\ Marked(t, e).cache_generation = entry[e].cache_generation
           /\ entry[e].residency # "BackendResident" =>
                Marked(t, e).residency = entry[e].residency /\ Marked(t, e).exec = entry[e].exec
<1>1. PICK e \in th[t].targets :
        /\ th' = [th EXCEPT ![t].targets = @ \ {e}]
        /\ \/ UNCHANGED entry /\ entry[e].invalidated
           \/ entry' = [entry EXCEPT ![e] = Marked(t, e)] /\ ~entry[e].invalidated
  BY Zenon DEF InvalidateMark, Marked
<1>2. e \in DOMAIN entry /\ entry[e] \in Entry
  BY Zenon DEF TypeOK
<1> DEFINE m == [entry[e] EXCEPT !.invalidated = TRUE, !.lifecycle = "Invalidated"]
<1>3. /\ m \in Entry /\ m.invalidated /\ m.lifecycle = "Invalidated" /\ m.req = entry[e].req
      /\ m.generation = entry[e].generation /\ m.cache_generation = entry[e].cache_generation
      /\ m.residency = entry[e].residency /\ m.exec = entry[e].exec
  BY <1>2, Zenon DEF Entry, GraphLifecycle, Allowed
<1>4. Marked(t, e) = m \/ Marked(t, e) = Unloaded(m)
  BY Zenon DEF Marked
<1>5. /\ Marked(t, e).invalidated /\ Marked(t, e).lifecycle = "Invalidated"
      /\ Marked(t, e).req = entry[e].req /\ Marked(t, e).generation = entry[e].generation
      /\ Marked(t, e).cache_generation = entry[e].cache_generation
      /\ entry[e].residency # "BackendResident" =>
           Marked(t, e).residency = entry[e].residency /\ Marked(t, e).exec = entry[e].exec
  <2> HIDE DEF m
  <2>1. CASE Marked(t, e) = m
    BY <1>3, <2>1, Zenon
  <2>2. CASE Marked(t, e) = Unloaded(m)
    BY <1>3, <2>2, UnloadedKeeps, Zenon
  <2> QED BY <1>4, <2>1, <2>2, Zenon
<1> QED BY <1>1, <1>2, <1>5, Zenon

\* Only invalidate sets the flag, nothing changes an entry's identity, and as long as no
\* entry is BackendResident nothing takes an executable away.
LEMMA IdentityCases ==
  ASSUME TypeOK, [Next]_vars
  PROVE  EntriesKept /\ ExecutablesKept /\ (FlagsKept \/ \E t \in Threads : InvalidateMark(t))
<1>0. entry \in [DOMAIN entry -> Entry] /\ th \in [Threads -> Thread]
  BY Zenon DEF TypeOK
<1> USE DEF EntryFacts
<1>a. UNCHANGED entry => EntryFacts
  BY Zenon DEF EntriesKept, FlagsKept, ExecutablesKept, Loaded
<1>b. ASSUME NEW e, NEW n,
             \/ entry' = [entry EXCEPT ![e].lease_count = n]
             \/ entry' = [entry EXCEPT ![e].active_replays = n]
             \/ entry' = [entry EXCEPT ![e].pin_count = n]
      PROVE  EntryFacts
  <2>1. CASE e \in DOMAIN entry
    <3>1. PICK r : /\ entry' = [entry EXCEPT ![e] = r] /\ r.req = entry[e].req
                   /\ r.generation = entry[e].generation
                   /\ r.cache_generation = entry[e].cache_generation
                   /\ r.residency = entry[e].residency /\ r.exec = entry[e].exec
                   /\ r.invalidated = entry[e].invalidated /\ r.lifecycle = entry[e].lifecycle
      BY <1>0, <1>b, <2>1, Zenon DEF Entry
    <3> QED BY <1>0, <3>1, IdentityUpdate, Zenon
  <2>2. CASE e \notin DOMAIN entry
    BY <1>0, <1>a, <1>b, <2>2
  <2> QED BY <2>1, <2>2, Zenon
<1>1. CASE UNCHANGED vars
  BY <1>1, <1>a, Zenon DEF vars
<1>2. ASSUME NEW l \in DOMAIN lease, Release(l) \/ ReleaseStep(l) PROVE EntryFacts
  <2>1. UNCHANGED entry \/ \E e, n : entry' = [entry EXCEPT ![e].lease_count = n]
    BY <1>2, Zenon DEF Release, ReleaseStep, ReleaseEntryLoad, ReleaseEntrySub, ReleaseGlobalLoad,
                ReleaseGlobalSub
  <2> QED BY <1>a, <1>b, <2>1, Zenon
<1>3. ASSUME NEW t \in Threads, Start(t) PROVE EntryFacts
  <2>1. \/ UNCHANGED entry
        \/ \E e, n : entry' = [entry EXCEPT ![e].active_replays = n]
        \/ \E e, n : entry' = [entry EXCEPT ![e].pin_count = n]
    BY <1>3, Zenon DEF Start, Lookup, Replay, Invalidate, Pin, Unpin, Evict, Unload
  <2> QED BY <1>a, <1>b, <2>1, Zenon
<1>4. ASSUME NEW t \in Threads, InvalidateMark(t) PROVE EntriesKept /\ ExecutablesKept
  BY <1>0, <1>4, <1>a, MarkedEntry, IdentityUpdate
<1>5. ASSUME NEW t \in Threads, CaptureBuild(t) PROVE EntryFacts
  <2>1. ASSUME NEW e \in EntryIds \ DOMAIN entry, entry' = Put(entry, e, NewEntry(th[t].req))
        PROVE  EntryFacts
    BY <2>1, Zenon DEF EntriesKept, FlagsKept, ExecutablesKept, Loaded, Put, NewEntry, EntryFor
  <2> QED BY <1>5, <1>a, <2>1, Zenon DEF CaptureBuild
<1>6. ASSUME NEW t \in Threads, EvictApply(t) PROVE EntryFacts
  <2>1. th[t].ent \in DOMAIN entry /\ entry[th[t].ent] \in Entry
    BY <1>0, <1>6, Zenon DEF EvictApply, At, TypeOK, EntryPCs
  <2>2. entry' = [entry EXCEPT ![th[t].ent] = Unloaded(entry[th[t].ent])]
    BY <1>6, Zenon DEF EvictApply
  <2>3. PICK r : r = Unloaded(entry[th[t].ent])
    BY Zenon
  <2>4. /\ r.req = entry[th[t].ent].req /\ r.generation = entry[th[t].ent].generation
        /\ r.cache_generation = entry[th[t].ent].cache_generation
        /\ r.invalidated = entry[th[t].ent].invalidated /\ r.lifecycle = entry[th[t].ent].lifecycle
        /\ entry[th[t].ent].residency # "BackendResident" => r = entry[th[t].ent]
    BY <2>1, <2>3, UnloadedKeeps, Zenon
  <2> QED BY <1>0, <2>2, <2>3, <2>4, IdentityUpdate, Zenon
<1>8. ASSUME NEW t \in Threads, Materialize(t) PROVE EntryFacts
  <2>1. th[t].ent \in DOMAIN entry /\ entry[th[t].ent] \in Entry
    BY <1>0, <1>8, Zenon DEF Materialize, At, TypeOK, EntryPCs
  <2>2. UNCHANGED entry \/ entry' = [entry EXCEPT ![th[t].ent] = Materialized(entry[th[t].ent])]
    BY <1>8, Zenon DEF Materialize
  <2>3. CASE entry' = [entry EXCEPT ![th[t].ent] = Materialized(entry[th[t].ent])]
    <3> DEFINE e == th[t].ent
               r == Materialized(entry[e])
    <3>1. /\ r.req = entry[e].req /\ r.generation = entry[e].generation
          /\ r.cache_generation = entry[e].cache_generation
          /\ r.invalidated = entry[e].invalidated /\ r.lifecycle = entry[e].lifecycle
          /\ r.residency = "HostResident" /\ r.exec
      BY <2>1, Zenon DEF Materialized, Entry
    <3>2. entry' = [entry EXCEPT ![e] = r] /\ e \in DOMAIN entry
      BY <2>1, <2>3, Zenon
    <3> HIDE DEF e, r
    <3> QED BY <1>0, <3>1, <3>2, Zenon DEF EntriesKept, FlagsKept, ExecutablesKept, Loaded
  <2> QED BY <1>a, <2>2, <2>3, Zenon
<1>7. ASSUME NEW t \in Threads, Continue(t), ~InvalidateMark(t), ~CaptureBuild(t), ~EvictApply(t),
             ~Materialize(t)
      PROVE  EntryFacts
  <2>1. \/ UNCHANGED entry
        \/ \E e, n : entry' = [entry EXCEPT ![e].lease_count = n]
        \/ \E e, n : entry' = [entry EXCEPT ![e].pin_count = n]
        \/ \E e, n : entry' = [entry EXCEPT ![e].active_replays = n]
    BY <1>7, Zenon DEF Continue, SearchAgain, Recheck, MakeLease, Join,
         CaptureFail, Publish, Complete, Erase, Wake, InvalidateCollect, InvalidateReturn, UnpinSub,
         ReplayEnd
  <2> QED BY <1>a, <1>b, <2>1, Zenon
<1> QED BY <1>1, <1>2, <1>3, <1>4, <1>5, <1>6, <1>7, <1>8, Zenon DEF Next

\* Only a publication changes the registry.
LEMMA RegistryCases ==
  ASSUME [Next]_vars PROVE UNCHANGED registry \/ \E t \in Threads : Publish(t)
<1>1. CASE UNCHANGED vars
  BY <1>1, Zenon DEF vars, registry
<1>2. ASSUME NEW l \in DOMAIN lease, Release(l) \/ ReleaseStep(l) PROVE UNCHANGED registry
  BY <1>2, Zenon DEF Release, ReleaseStep, ReleaseEntryLoad, ReleaseEntrySub, ReleaseGlobalLoad,
              ReleaseGlobalSub, leaseFrame
<1>3. ASSUME NEW t \in Threads, Start(t) PROVE UNCHANGED registry
  BY <1>3, Zenon DEF Start, Lookup, Replay, Invalidate, Pin, Unpin, Evict, Unload
<1>4. ASSUME NEW t \in Threads, Continue(t), ~Publish(t) PROVE UNCHANGED registry
  BY <1>4, Zenon DEF Continue, SearchAgain, Materialize, Recheck, MakeLease, Join, CaptureFail,
       CaptureBuild, Complete, Erase, Wake, InvalidateCollect, InvalidateMark, InvalidateReturn,
       UnpinSub, EvictApply, ReplayEnd
<1> QED BY <1>1, <1>2, <1>3, <1>4, Zenon DEF Next

\* The targets of an invalidation come from by_artifact.
LEMMA TargetCases ==
  ASSUME TypeOK, [Next]_vars, NEW u \in Threads
  PROVE  th'[u].targets \subseteq th[u].targets \cup {by_artifact[a] : a \in DOMAIN by_artifact}
<1> DEFINE Goal == th'[u].targets \subseteq th[u].targets \cup {by_artifact[a] : a \in DOMAIN by_artifact}
<1>0. th \in [Threads -> Thread]
  BY Zenon DEF TypeOK
<1>1. CASE UNCHANGED vars
  BY <1>1, Zenon DEF vars
<1>2. ASSUME NEW l \in DOMAIN lease, Release(l) \/ ReleaseStep(l) PROVE Goal
  BY <1>2, Zenon DEF Release, ReleaseStep, ReleaseEntryLoad, ReleaseEntrySub, ReleaseGlobalLoad,
              ReleaseGlobalSub, leaseFrame
<1>3. ASSUME NEW t \in Threads, Start(t) PROVE Goal
  <2>1. UNCHANGED th \/ \E r : r.targets = {} /\ th' = [th EXCEPT ![t] = r]
    BY <1>3, Zenon DEF Start, Lookup, Replay, Invalidate, Pin, Unpin, Evict, Unload, Call, Idle
  <2> QED BY <1>0, <2>1, Zenon
<1>4. ASSUME NEW t \in Threads, Return(t) PROVE Goal
  BY <1>0, <1>4, Zenon DEF Return, Idle
<1>5. ASSUME NEW t \in Threads, Continue(t), ~Return(t) PROVE Goal
  <2>1. CASE InvalidateCollect(t) \/ InvalidateMark(t)
    <3>1. CASE InvalidateCollect(t)
      <4>1. u = t => th'[u].targets = Targets(th[t].scope)
        BY <1>0, <3>1, Zenon DEF InvalidateCollect, Thread
      <4>2. u # t => th'[u] = th[u]
        BY <1>0, <3>1, Zenon DEF InvalidateCollect
      <4>3. Targets(th[t].scope) \subseteq {by_artifact[a] : a \in DOMAIN by_artifact}
        BY Zenon DEF Targets
      <4> QED BY <4>1, <4>2, <4>3, Zenon
    <3>2. CASE InvalidateMark(t)
      <4>1. PICK e \in th[t].targets : th' = [th EXCEPT ![t].targets = @ \ {e}]
        BY <3>2, Zenon DEF InvalidateMark
      <4> QED BY <1>0, <4>1, Zenon DEF Thread
    <3> QED BY <2>1, <3>1, <3>2, Zenon
  <2>2. CASE Complete(t)
    BY <1>0, <2>2 DEF Complete, Thread
  <2>3. CASE SearchAgain(t) \/ Materialize(t) \/ Recheck(t) \/ Join(t) \/ CaptureFail(t)
    BY <1>0, <1>5, <2>3 DEF SearchAgain, Materialize, Recheck, Join, CaptureFail, Goto, Thread
  <2>4. CASE CaptureBuild(t) \/ Publish(t) \/ Erase(t) \/ Wake(t)
    BY <1>0, <1>5, <2>4 DEF CaptureBuild, Publish, Erase, Wake, AfterFlight, Goto, Thread
  <2> QED BY <1>5, <2>1, <2>2, <2>3, <2>4, Zenon
       DEF Continue, MakeLease, InvalidateReturn, UnpinSub, EvictApply, ReplayEnd
<1> QED BY <1>1, <1>2, <1>3, <1>4, <1>5, Zenon DEF Next

\* Every step keeps what the registry knows.
LEMMA RegistryStepInv ==
  ASSUME TypeOK, FlightInv, RegistryInv, [Next]_vars PROVE RegistryInv'
<1>0. /\ th \in [Threads -> Thread] /\ Registered \subseteq DOMAIN entry
      /\ \A t \in Threads : th[t].pc = "publish" => th[t].ent \in DOMAIN entry /\ th[t].req \in Requests
      /\ EntriesKept
  BY RegisteredExist, IdentityCases, Zenon DEF TypeOK, EntryPCs, LookupPCs
<1>1. ASSUME Registered \subseteq Registered' PROVE \A u \in Threads : th'[u].targets \subseteq Registered'
  <2>1. {by_artifact[a] : a \in DOMAIN by_artifact} \subseteq Registered
    BY DEF RegistryInv
  <2> QED BY <1>1, <2>1, TargetCases, Zenon DEF RegistryInv
<1>2. CASE UNCHANGED registry
  <2>0. Registered' = Registered
    BY <1>2 DEF registry, Registered
  <2>1. \A a \in DOMAIN by_artifact' : by_artifact'[a] \in Registered'
    BY <1>2, <2>0, Zenon DEF registry, RegistryInv
  <2>2. \A k \in DOMAIN key_current_gen' :
          \E e \in Registered' : entry'[e].generation = key_current_gen'[k] /\ KeyOf[entry'[e].req] = k
    BY <1>0, <1>2, <2>0 DEF registry, RegistryInv, EntriesKept
  <2>3. ASSUME NEW t \in Threads, th'[t].pc = "publish"
        PROVE  th'[t].ent \notin Registered' /\ entry'[th'[t].ent].req = th'[t].req
    <3>1. CASE th'[t] = th[t]
      BY <1>0, <2>0, <2>3, <3>1 DEF RegistryInv, EntriesKept
    <3>2. ASSUME NEW u \in Threads, CaptureBuild(u), th'[t] # th[t]
          PROVE  th'[t].ent \notin Registered' /\ entry'[th'[t].ent].req = th'[t].req
      <4>0. u = t
        BY <1>0, <3>2, Zenon DEF CaptureBuild
      <4>1. PICK e \in EntryIds \ DOMAIN entry :
              /\ entry' = Put(entry, e, NewEntry(th[t].req))
              /\ th' = [th EXCEPT ![t].pc = "publish", ![t].ent = e]
        BY <1>0, <2>3, <3>2, <4>0 DEF CaptureBuild, Thread
      <4>2. th'[t].ent = e /\ th'[t].req = th[t].req
        BY <1>0, <4>1, Zenon DEF Thread
      <4>3. entry'[e].req = th[t].req
        BY <4>1, Zenon DEF Put, NewEntry, EntryFor
      <4> QED BY <1>0, <2>0, <4>1, <4>2, <4>3, Zenon
    <3> QED BY <2>3, <3>1, <3>2, PublicationCases, Zenon
  <2> QED BY <1>1, <2>0, <2>1, <2>2, <2>3, Zenon DEF RegistryInv
<1>3. ASSUME NEW t \in Threads, Publish(t) PROVE RegistryInv'
  <2> DEFINE e == th[t].ent
             k == KeyOf[th[t].req]
  <2>0. Registered' = Registered \cup {e} /\ UNCHANGED entry
    BY <1>3, PublishRegisters, Zenon DEF Publish
  <2>1. \A a \in DOMAIN by_artifact' : by_artifact'[a] \in Registered'
    BY <1>3, <2>0, Zenon DEF Publish, Index, Put, RegistryInv
  <2>2. \A j \in DOMAIN key_current_gen' :
          \E f \in Registered' : entry'[f].generation = key_current_gen'[j] /\ KeyOf[entry'[f].req] = j
    <3>1. key_current_gen' = Put(key_current_gen, k, entry[e].generation)
      BY <1>3, Zenon DEF Publish, KeyGeneration
    <3>2. ASSUME NEW j \in DOMAIN key_current_gen' 
          PROVE  \E f \in Registered' : entry'[f].generation = key_current_gen'[j] /\ KeyOf[entry'[f].req] = j
      <4>1. CASE j = k
        BY <1>0, <1>3, <2>0, <3>1, <4>1 DEF Put, RegistryInv, Publish, At
      <4>2. CASE j # k
        <5>1. j \in DOMAIN key_current_gen /\ key_current_gen'[j] = key_current_gen[j]
          BY <3>1, <3>2, <4>2, Zenon DEF Put
        <5> QED BY <2>0, <5>1 DEF RegistryInv
      <4> QED BY <4>1, <4>2, Zenon
    <3> QED BY <3>2, Zenon
  <2>3. ASSUME NEW u \in Threads, th'[u].pc = "publish"
        PROVE  th'[u].ent \notin Registered' /\ entry'[th'[u].ent].req = th'[u].req
    <3>1. u # t /\ th'[u] = th[u] /\ th[t].pc = "publish"
      BY <1>0, <1>3, <2>3, Zenon DEF Publish, At, Thread
    <3>2. KeyOf[th[u].req] # KeyOf[th[t].req]
      BY <2>3, <3>1, Zenon DEF FlightInv, OwnersRegistered, OwnerPCs
    <3>3. entry[th[u].ent].req = th[u].req /\ entry[e].req = th[t].req /\ th[u].ent \notin Registered
      BY <2>3, <3>1, Zenon DEF RegistryInv
    <3> QED BY <2>0, <3>1, <3>2, <3>3, Zenon
  <2> QED BY <1>1, <2>0, <2>1, <2>2, <2>3, Zenon DEF RegistryInv
<1> QED BY <1>2, <1>3, RegistryCases, Zenon

\* The registry's invariant holds in every reachable state.
LEMMA RegistryInvAlways == Spec => [](TypeOK /\ FlightInv /\ GenerationInv /\ RegistryInv)
<1>1. Init => RegistryInv
  BY DEF Init, RegistryInv, Idle
<1>2. TypeOK /\ FlightInv /\ RegistryInv /\ [Next]_vars => RegistryInv'
  BY RegistryStepInv, Zenon
<1> QED BY <1>1, <1>2, GenerationInvAlways, PTL DEF Spec
-----------------------------------------------------------------------------
\* The inductive invariant behind ExecutableOutlivesUse: no entry ever gets the tier from
\* which evict, unload and invalidate take the executable, and whoever is about to make a
\* lease or to replay, and every lease, is on an entry that has one.
UsePCs == {"recheck", "lease", "replay"}
ExecInv ==
  /\ \A e \in DOMAIN entry : Loaded(e)
  /\ \A t \in Threads : th[t].pc \in UsePCs => entry[th[t].ent].exec
  /\ \A l \in DOMAIN lease : entry[lease[l].entry].exec

\* A thread comes to use an entry through materialize_exec or with a lease.
LEMMA UseCases ==
  ASSUME TypeOK, [Next]_vars, NEW u \in Threads, th'[u].pc \in UsePCs
  PROVE  \/ th[u].pc \in UsePCs /\ th'[u].ent = th[u].ent
         \/ Materialize(u)
         \/ \E l \in DOMAIN lease : Replay(u, l)
<1>0. th \in [Threads -> Thread]
  BY Zenon DEF TypeOK
<1> DEFINE Goal == \/ th[u].pc \in UsePCs /\ th'[u].ent = th[u].ent
                   \/ Materialize(u)
                   \/ \E l \in DOMAIN lease : Replay(u, l)
<1> USE DEF UsePCs
<1>1. CASE th'[u] = th[u]
  BY <1>1, Zenon
<1>2. ASSUME NEW t \in Threads, Start(t), th'[u] # th[u] PROVE Goal
  <2> USE DEF Call, Idle
  <2>1. ASSUME NEW r \in Requests, Lookup(t, r) PROVE Goal
    <3>1. th'[t].pc \in {"materialize", "join"} /\ \A v \in Threads \ {t} : th'[v] = th[v]
      BY <1>0, <2>1, Zenon DEF Lookup
    <3> QED BY <1>2, <3>1, Zenon
  <2>2. ASSUME NEW l \in DOMAIN lease, Replay(t, l) PROVE Goal
    BY <1>0, <1>2, <2>2, Zenon DEF Replay
  <2>3. ASSUME NEW scope \in Scopes, NEW strong \in BOOLEAN, Invalidate(t, scope, strong) PROVE Goal
    BY <1>0, <1>2, <2>3, Zenon DEF Invalidate
  <2>4. ASSUME NEW a \in DOMAIN by_artifact, Pin(t, a) \/ Unpin(t, a) \/ Evict(t, a) \/ Unload(t, a)
        PROVE  Goal
    <3>1. \/ UNCHANGED th
          \/ \E label \in {"unpin", "evict"} : \E e :
               th' = [th EXCEPT ![t] = [Idle EXCEPT !.pc = label, !.ent = e]]
      BY <2>4, Zenon DEF Pin, Unpin, Evict, Unload
    <3> QED BY <1>0, <1>2, <3>1, Zenon
  <2> QED BY <1>2, <2>1, <2>2, <2>3, <2>4, Zenon DEF Start
<1>3. ASSUME NEW t \in Threads, Continue(t), th'[u] # th[u] PROVE Goal
  <2>1. CASE Materialize(t)
    <3>1. u = t
      BY <1>0, <1>3, <2>1, Zenon DEF Materialize, Goto, Return
    <3> QED BY <2>1, <3>1, Zenon
  <2>2. CASE Recheck(t)
    BY <1>0, <1>3, <2>2 DEF Recheck, Goto, Return, Idle, At, Thread
  <2>3. CASE Complete(t)
    BY <1>0, <1>3, <2>3 DEF Complete, WaitsOn, At, Thread
  <2>4. CASE SearchAgain(t) \/ Join(t) \/ CaptureFail(t) \/ CaptureBuild(t)
    BY <1>0, <1>3, <2>4 DEF SearchAgain, Join, CaptureFail, CaptureBuild, Return, Idle, Thread
  <2>5. CASE Publish(t) \/ Erase(t) \/ Wake(t)
    BY <1>0, <1>3, <2>5 DEF Publish, Erase, Wake, AfterFlight, Goto, Return, Idle, Thread
  <2>6. CASE MakeLease(t) \/ InvalidateReturn(t) \/ UnpinSub(t) \/ EvictApply(t) \/ ReplayEnd(t)
    BY <1>0, <1>3, <2>6 DEF MakeLease, InvalidateReturn, UnpinSub, EvictApply, ReplayEnd, Return, Idle
  <2>7. CASE InvalidateCollect(t)
    BY <1>0, <1>3, <2>7 DEF InvalidateCollect, Thread
  <2>8. CASE InvalidateMark(t)
    <3>1. PICK S : th' = [th EXCEPT ![t].targets = S]
      BY <2>8, Zenon DEF InvalidateMark
    <3> QED BY <1>0, <1>3, <2>8, <3>1 DEF InvalidateMark, At, Thread
  <2> QED BY <1>3, <2>1, <2>2, <2>3, <2>4, <2>5, <2>6, <2>7, <2>8, Zenon DEF Continue
<1>4. ASSUME NEW l \in DOMAIN lease, Release(l) \/ ReleaseStep(l) PROVE UNCHANGED th
  BY <1>4, Zenon DEF Release, ReleaseStep, ReleaseEntryLoad, ReleaseEntrySub, ReleaseGlobalLoad,
              ReleaseGlobalSub, leaseFrame
<1> QED BY <1>1, <1>2, <1>3, <1>4, Zenon DEF Next, vars

\* A lease is one there was or the one that make_lease returns.
LEMMA LeaseSource ==
  ASSUME TypeOK, [Next]_vars, NEW l \in DOMAIN lease'
  PROVE  \/ l \in DOMAIN lease /\ lease'[l].entry = lease[l].entry
         \/ \E t \in Threads : MakeLease(t) /\ lease'[l].entry = th[t].ent
<1>0. lease \in [DOMAIN lease -> Lease]
  BY Zenon DEF TypeOK
<1>1. CASE UNCHANGED lease
  BY <1>1, Zenon
<1>2. ASSUME NEW t \in Threads, Start(t) PROVE UNCHANGED lease
  BY <1>2, Zenon DEF Start, Lookup, Replay, Invalidate, Pin, Unpin, Evict, Unload
<1>3. ASSUME NEW t \in Threads, Continue(t), ~MakeLease(t) PROVE UNCHANGED lease
  BY <1>3, Zenon DEF Continue, SearchAgain, Materialize, Recheck, Join, CaptureFail, CaptureBuild, Publish,
       Complete, Erase, Wake, InvalidateCollect, InvalidateMark, InvalidateReturn, UnpinSub, EvictApply,
       ReplayEnd
<1>4. ASSUME NEW t \in Threads, MakeLease(t)
      PROVE  \/ l \in DOMAIN lease /\ lease'[l].entry = lease[l].entry
             \/ MakeLease(t) /\ lease'[l].entry = th[t].ent
  BY <1>4 DEF MakeLease, Put
<1>5. ASSUME NEW m \in DOMAIN lease, Release(m) \/ ReleaseStep(m)
      PROVE  l \in DOMAIN lease /\ lease'[l].entry = lease[l].entry
  <2>1. (\E phase : Advance(m, phase)) \/ lease' = Drop(lease, m)
    BY <1>5, Zenon DEF Release, ReleaseStep, ReleaseEntryLoad, ReleaseEntrySub, ReleaseGlobalLoad,
                ReleaseGlobalSub
  <2> QED BY <1>0, <2>1 DEF Advance, Drop, Lease
<1> QED BY <1>1, <1>2, <1>3, <1>4, <1>5, Zenon DEF Next, vars

\* Every step keeps it.
LEMMA ExecStepInv == ASSUME TypeOK, ExecInv, [Next]_vars PROVE ExecInv'
<1>0. /\ EntriesKept /\ ExecutablesKept /\ th \in [Threads -> Thread] /\ entry \in [DOMAIN entry -> Entry]
      /\ \A t \in Threads : th[t].pc \in UsePCs \cup {"materialize"} => th[t].ent \in DOMAIN entry
      /\ \A l \in DOMAIN lease : lease[l].entry \in DOMAIN entry
  BY IdentityCases, Zenon DEF TypeOK, UsePCs, EntryPCs
<1>1. \A e \in DOMAIN entry' : Loaded(e)'
  BY <1>0, Zenon DEF ExecInv, EntriesKept, ExecutablesKept
<1>2. \A e \in DOMAIN entry : entry[e].exec => entry'[e].exec
  BY <1>0, Zenon DEF ExecInv, ExecutablesKept
<1>3. ASSUME NEW u \in Threads, th'[u].pc \in UsePCs PROVE entry'[th'[u].ent].exec
  <2>1. CASE th[u].pc \in UsePCs /\ th'[u].ent = th[u].ent
    BY <1>0, <1>2, <2>1, Zenon DEF ExecInv
  <2>2. CASE Materialize(u)
    <3>1. th[u].ent \in DOMAIN entry /\ th[u].pc = "materialize"
      BY <1>0, <2>2, Zenon DEF Materialize, At
    <3>2. CASE Goto(u, "recheck") /\ (entry[th[u].ent].exec \/ entry' = [entry EXCEPT ![th[u].ent] = Materialized(@)])
      <4>1. th'[u].ent = th[u].ent
        BY <1>0, <3>2, Zenon DEF Goto, Thread
      <4>2. CASE entry' = [entry EXCEPT ![th[u].ent] = Materialized(@)]
        BY <1>0, <3>1, <4>1, <4>2, Zenon DEF Materialized, Entry
      <4> QED BY <1>2, <3>1, <3>2, <4>1, <4>2, Zenon
    <3>3. CASE th' = [th EXCEPT ![u].pc = "join", ![u].ent = NoEntry] \/ Return(u)
      BY <1>0, <1>3, <3>3 DEF Return, Idle, UsePCs, Thread
    <3> QED BY <2>2, <3>2, <3>3, Zenon DEF Materialize, NeedsExec
  <2>3. ASSUME NEW l \in DOMAIN lease, Replay(u, l) PROVE entry'[th'[u].ent].exec
    <3>1. th'[u].ent = lease[l].entry
      BY <1>0, <2>3, Zenon DEF Replay, Call, Idle
    <3> QED BY <1>0, <1>2, <3>1, Zenon DEF ExecInv
  <2> QED BY <1>3, <2>1, <2>2, <2>3, UseCases, Zenon
<1>4. ASSUME NEW l \in DOMAIN lease' PROVE entry'[lease'[l].entry].exec
  <2>1. CASE l \in DOMAIN lease /\ lease'[l].entry = lease[l].entry
    BY <1>0, <1>2, <2>1, Zenon DEF ExecInv
  <2>2. ASSUME NEW t \in Threads, MakeLease(t), lease'[l].entry = th[t].ent PROVE entry'[lease'[l].entry].exec
    BY <1>0, <1>2, <2>2, Zenon DEF ExecInv, MakeLease, At, UsePCs
  <2> QED BY <2>1, <2>2, LeaseSource, Zenon
<1> QED BY <1>1, <1>3, <1>4, Zenon DEF ExecInv

\* The invariant holds in every reachable state of the engine.
LEMMA ExecInvAlways == Spec => [](TypeOK /\ ExecInv)
<1>1. Init => ExecInv
  BY DEF Init, ExecInv, Idle, UsePCs
<1>2. TypeOK /\ ExecInv /\ [Next]_vars => ExecInv'
  BY ExecStepInv, Zenon
<1> QED BY <1>1, <1>2, TypeCorrect, PTL DEF Spec

\* evict, unload and a strong invalidation never leave a held lease or a running replay
\* without its executable, however their unlocked count checks interleave with make_lease.
THEOREM ExecutableOutlivesUseAlways == Spec => []ExecutableOutlivesUse
<1>1. ExecInv => ExecutableOutlivesUse
  BY Zenon DEF ExecInv, ExecutableOutlivesUse, UsePCs, At
<1> QED BY <1>1, ExecInvAlways, PTL
-----------------------------------------------------------------------------
\* The engine uses two of the lifecycle's states, one on each side of invalidated.
LifeInv ==
  \A e \in DOMAIN entry : entry[e].lifecycle = IF entry[e].invalidated THEN "Invalidated" ELSE "Valid"

\* Every step keeps flag and lifecycle together and leaves a marked entry marked.
LEMMA LifeStepInv ==
  ASSUME TypeOK, LifeInv, [Next]_vars
  PROVE  /\ LifeInv'
         /\ \A e \in DOMAIN entry : entry'[e].lifecycle # entry[e].lifecycle => entry[e].lifecycle = "Valid"
<1>1. CASE FlagsKept
  BY <1>1, Zenon DEF FlagsKept, LifeInv
<1>2. ASSUME NEW t \in Threads, InvalidateMark(t)
      PROVE  /\ LifeInv'
             /\ \A e \in DOMAIN entry : entry'[e].lifecycle # entry[e].lifecycle => entry[e].lifecycle = "Valid"
  <2>1. PICK e \in DOMAIN entry :
          /\ \/ UNCHANGED entry
             \/ entry' = [entry EXCEPT ![e] = Marked(t, e)] /\ ~entry[e].invalidated
          /\ Marked(t, e).invalidated /\ Marked(t, e).lifecycle = "Invalidated"
    BY <1>2, MarkedEntry, Zenon
  <2>2. CASE UNCHANGED entry
    BY <2>2, Zenon DEF LifeInv
  <2>3. CASE entry' = [entry EXCEPT ![e] = Marked(t, e)] /\ ~entry[e].invalidated
    <3>1. /\ DOMAIN entry' = DOMAIN entry /\ entry'[e] = Marked(t, e)
          /\ \A f \in DOMAIN entry \ {e} : entry'[f] = entry[f]
      BY <2>3, Zenon
    <3> QED BY <2>1, <2>3, <3>1, Zenon DEF LifeInv
  <2> QED BY <2>1, <2>2, <2>3, Zenon
<1> QED BY <1>1, <1>2, IdentityCases, Zenon

\* Flag and lifecycle agree in every reachable state.
LEMMA LifeInvAlways == Spec => [](TypeOK /\ LifeInv)
<1>1. Init => LifeInv
  BY DEF Init, LifeInv
<1>2. TypeOK /\ LifeInv /\ [Next]_vars => LifeInv'
  BY LifeStepInv, Zenon
<1> QED BY <1>1, <1>2, TypeCorrect, PTL DEF Spec

\* No step of the engine, materialize_exec racing invalidate included, takes an entry out
\* of a lifecycle state that the table of lifecycle.cpp does not leave.
THEOREM TerminalAbsorbsAlways == Spec => TerminalAbsorbs
<1> DEFINE Absorbs == \A e \in DOMAIN entry \cap DOMAIN entry' :
                        entry'[e].lifecycle # entry[e].lifecycle => Allowed[entry[e].lifecycle] # {}
<1>1. TypeOK /\ LifeInv /\ [Next]_vars => [Absorbs]_vars
  <2>1. Allowed["Valid"] # {}
    BY Zenon DEF Allowed
  <2> QED BY <2>1, LifeStepInv, Zenon
<1>2. Spec => [][Absorbs]_vars
  <2> HIDE DEF Absorbs
  <2> QED BY <1>1, LifeInvAlways, PTL DEF Spec
<1> QED BY <1>2, Zenon DEF TerminalAbsorbs
-----------------------------------------------------------------------------
\* What makes the second search of a lookup succeed: an entry lies in the bucket of its
\* workload, a successful attempt has given its key a generation, and entries are marked
\* only once the cache generation has moved on from the one the engine starts with.
Filed(e) == \E i \in DOMAIN Bucket(entry[e].req) : Bucket(entry[e].req)[i] = e
SearchInv ==
  /\ \A e \in Registered : Filed(e)
  /\ \A t \in Threads : th[t].res = "ok" => KeyOf[th[t].req] \in DOMAIN key_current_gen
  /\ \A t \in Threads : th[t].pc = "again" => th[t].res = "ok"
  /\ cache_generation >= 1
  /\ cache_generation = 1 => /\ \A e \in DOMAIN entry : ~entry[e].invalidated
                             /\ \A t \in Threads : th[t].pc \notin {"collect", "mark"}

\* A publication appends to one bucket.
LEMMA BucketGrows ==
  ASSUME TypeOK, NEW t \in Threads, Publish(t), NEW r \in Requests
  PROVE  /\ \A i \in DOMAIN Bucket(r) : i \in DOMAIN Bucket(r)' /\ Bucket(r)'[i] = Bucket(r)[i]
         /\ WorkloadOf[r] = WorkloadOf[th[t].req] =>
              \E i \in DOMAIN Bucket(r)' : Bucket(r)'[i] = th[t].ent
<1> DEFINE q == th[t].req
           w == WorkloadOf[q]
<1>1. q \in Requests /\ th[t].ent \in DOMAIN entry
  BY Zenon DEF Publish, At, TypeOK, LookupPCs, EntryPCs
<1>2. Bucket(r) \in Seq(DOMAIN entry) /\ Bucket(q) \in Seq(DOMAIN entry)
  BY <1>1, TypeParts, BucketType, Zenon
<1>3. by_workload' = Put(by_workload, w, Append(Bucket(q), th[t].ent))
  BY Zenon DEF Publish
<1>4. CASE WorkloadOf[r] = w
  <2>1. Bucket(r)' = Append(Bucket(q), th[t].ent) /\ Bucket(r) = Bucket(q)
    BY <1>3, <1>4, Zenon DEF Bucket, Put
  <2> HIDE DEF q, w
  <2>2. Len(Bucket(q)) + 1 \in DOMAIN Append(Bucket(q), th[t].ent)
    BY <1>1, <1>2
  <2> QED BY <1>1, <1>2, <2>1, <2>2
<1>5. CASE WorkloadOf[r] # w
  <2>1. Bucket(r)' = Bucket(r)
    BY <1>3, <1>5, Zenon DEF Bucket, Put
  <2> QED BY <1>5, <2>1, Zenon
<1> QED BY <1>4, <1>5, Zenon

\* A step that gives u no successful result.
Unrelated(u) == th'[u].res = "ok" => th[u].res = "ok" /\ th'[u].req = th[u].req
\* How a thread comes to a successful result, and to searching again.
LEMMA ResultCases ==
  ASSUME TypeOK, FlightInv, [Next]_vars, NEW u \in Threads
  PROVE  /\ \/ Unrelated(u)
            \/ Publish(u) /\ th'[u].req = th[u].req
            \/ \E o \in Threads : th[o].res = "ok" /\ KeyOf[th[o].req] = KeyOf[th[u].req] /\ th'[u].req = th[u].req
         /\ th'[u].pc = "again" => th'[u].res = "ok" \/ (th[u].pc = "again" /\ th'[u] = th[u])
<1>0. th \in [Threads -> Thread]
  BY Zenon DEF TypeOK
<1> DEFINE Res == \/ Unrelated(u)
                  \/ Publish(u) /\ th'[u].req = th[u].req
                  \/ \E o \in Threads : th[o].res = "ok" /\ KeyOf[th[o].req] = KeyOf[th[u].req] /\ th'[u].req = th[u].req
           Again == th'[u].pc = "again" => th'[u].res = "ok" \/ (th[u].pc = "again" /\ th'[u] = th[u])
<1>1. CASE th'[u] = th[u]
  BY <1>1, Zenon DEF Unrelated
<1>2. ASSUME NEW t \in Threads, Start(t), th'[u] # th[u] PROVE Res /\ Again
  <2>1. th'[u].res = "none" /\ th'[u].pc # "again"
    <3> USE DEF Call, Idle
    <3>1. ASSUME NEW r \in Requests, Lookup(t, r) PROVE th'[u].res = "none" /\ th'[u].pc # "again"
      <4>1. /\ th'[t].res = "none" /\ th'[t].pc \in {"materialize", "join"}
            /\ \A v \in Threads \ {t} : th'[v] = th[v]
        BY <1>0, <3>1, Zenon DEF Lookup
      <4> QED BY <1>2, <4>1, Zenon
    <3>2. ASSUME NEW l \in DOMAIN lease, Replay(t, l) PROVE th'[u].res = "none" /\ th'[u].pc # "again"
      BY <1>0, <1>2, <3>2, Zenon DEF Replay
    <3>3. ASSUME NEW scope \in Scopes, NEW strong \in BOOLEAN, Invalidate(t, scope, strong)
          PROVE  th'[u].res = "none" /\ th'[u].pc # "again"
      BY <1>0, <1>2, <3>3, Zenon DEF Invalidate
    <3>4. ASSUME NEW a \in DOMAIN by_artifact, Pin(t, a) \/ Unpin(t, a) \/ Evict(t, a) \/ Unload(t, a)
          PROVE  th'[u].res = "none" /\ th'[u].pc # "again"
      <4>1. \/ UNCHANGED th
            \/ \E label \in {"unpin", "evict"} : \E e :
                 th' = [th EXCEPT ![t] = [Idle EXCEPT !.pc = label, !.ent = e]]
        BY <3>4, Zenon DEF Pin, Unpin, Evict, Unload
      <4> QED BY <1>0, <1>2, <4>1, Zenon
    <3> QED BY <1>2, <3>1, <3>2, <3>3, <3>4, Zenon DEF Start
  <2> QED BY <2>1, Zenon DEF Unrelated
<1>3. ASSUME NEW t \in Threads, Continue(t), th'[u] # th[u] PROVE Res /\ Again
  <2>1. CASE Join(t)
    <3> DEFINE k == KeyOf[th[t].req]
    <3>1. u = t /\ th'[t].req = th[t].req /\ th'[t].pc # "again"
      BY <1>0, <1>3, <2>1 DEF Join, Thread
    <3>2. CASE k \in DOMAIN inflight
      <4>1. inflight[k] \in Threads /\ KeyOf[th[inflight[k]].req] = k
        BY <3>2, Zenon DEF TypeOK, FlightInv, AttemptsOwned
      <4>2. th'[t].res = "ok" => th[inflight[k]].res = "ok"
        BY <1>0, <2>1, <3>2 DEF Join, Thread
      <4> QED BY <3>1, <4>1, <4>2, Zenon DEF Unrelated
    <3>3. CASE k \notin DOMAIN inflight
      BY <1>0, <2>1, <3>1, <3>3, Zenon DEF Join, Unrelated, Thread
    <3> QED BY <3>2, <3>3, Zenon
  <2>2. CASE Publish(t)
    BY <1>0, <1>3, <2>2, Zenon DEF Publish, Thread
  <2>3. CASE Complete(t)
    BY <1>0, <1>3, <2>3 DEF Complete, WaitsOn, At, Unrelated, Thread
  <2>4. CASE Erase(t) \/ Wake(t)
    BY <1>0, <1>3, <2>4 DEF Erase, Wake, AfterFlight, Goto, Return, Idle, Unrelated, Thread
  <2>5. CASE SearchAgain(t) \/ Materialize(t) \/ Recheck(t)
    BY <1>0, <1>3, <2>5 DEF SearchAgain, Materialize, Recheck, Goto, Return, Idle, Unrelated, Thread
  <2>6. CASE CaptureFail(t) \/ CaptureBuild(t) \/ InvalidateCollect(t)
    BY <1>0, <1>3, <2>6 DEF CaptureFail, CaptureBuild, InvalidateCollect, Unrelated, At, Thread
  <2>7. CASE MakeLease(t) \/ InvalidateReturn(t) \/ UnpinSub(t) \/ EvictApply(t) \/ ReplayEnd(t)
    BY <1>0, <1>3, <2>7 DEF MakeLease, InvalidateReturn, UnpinSub, EvictApply, ReplayEnd, Return, Idle,
         Unrelated
  <2>8. CASE InvalidateMark(t)
    <3>1. PICK S : th' = [th EXCEPT ![t].targets = S]
      BY <2>8, Zenon DEF InvalidateMark
    <3> QED BY <1>0, <1>3, <2>8, <3>1 DEF InvalidateMark, At, Unrelated, Thread
  <2> QED BY <1>3, <2>1, <2>2, <2>3, <2>4, <2>5, <2>6, <2>7, <2>8, Zenon DEF Continue
<1>4. ASSUME NEW l \in DOMAIN lease, Release(l) \/ ReleaseStep(l) PROVE UNCHANGED th
  BY <1>4, Zenon DEF Release, ReleaseStep, ReleaseEntryLoad, ReleaseEntrySub, ReleaseGlobalLoad,
              ReleaseGlobalSub, leaseFrame
<1> QED BY <1>1, <1>2, <1>3, <1>4, Zenon DEF Next, vars

\* The steps of an invalidation.
InvalidatePCs == {"collect", "mark"}
\* A thread comes to invalidate's marking by the call that moves the cache generation.
LEMMA InvalidationCases ==
  ASSUME TypeOK, [Next]_vars
  PROVE  /\ cache_generation' \in {cache_generation, cache_generation + 1}
         /\ \A u \in Threads : th'[u].pc \in InvalidatePCs =>
              th[u].pc \in InvalidatePCs \/ cache_generation' = cache_generation + 1
<1>0. th \in [Threads -> Thread]
  BY Zenon DEF TypeOK
<1> DEFINE Stays == \A u \in Threads : th'[u].pc \in InvalidatePCs => th[u].pc \in InvalidatePCs
<1> USE DEF InvalidatePCs
<1>1. CASE UNCHANGED vars
  BY <1>1, Zenon DEF vars
<1>2. ASSUME NEW t \in Threads, NEW scope \in Scopes, NEW strong \in BOOLEAN, Invalidate(t, scope, strong)
      PROVE  cache_generation' = cache_generation + 1
  BY <1>2, Zenon DEF Invalidate
<1>3. ASSUME NEW t \in Threads, Start(t),
             ~ \E scope \in Scopes, strong \in BOOLEAN : Invalidate(t, scope, strong)
      PROVE  UNCHANGED cache_generation /\ Stays
  <2>1. UNCHANGED cache_generation
    BY <1>3, Zenon DEF Start, Lookup, Replay, Pin, Unpin, Evict, Unload, generations
  <2>2. Stays
    <3> USE DEF Call, Idle
    <3>1. ASSUME NEW r \in Requests, Lookup(t, r) PROVE Stays
      BY <1>0, <3>1, Zenon DEF Lookup
    <3>2. ASSUME NEW l \in DOMAIN lease, Replay(t, l) PROVE Stays
      BY <1>0, <3>2, Zenon DEF Replay
    <3>4. ASSUME NEW a \in DOMAIN by_artifact, Pin(t, a) \/ Unpin(t, a) \/ Evict(t, a) \/ Unload(t, a)
          PROVE  Stays
      <4>1. \/ UNCHANGED th
            \/ \E label \in {"unpin", "evict"} : \E e :
                 th' = [th EXCEPT ![t] = [Idle EXCEPT !.pc = label, !.ent = e]]
        BY <3>4, Zenon DEF Pin, Unpin, Evict, Unload
      <4> QED BY <1>0, <4>1, Zenon
    <3> QED BY <1>3, <3>1, <3>2, <3>4, Zenon DEF Start
  <2> QED BY <2>1, <2>2, Zenon
<1>4. ASSUME NEW t \in Threads, Continue(t) PROVE UNCHANGED cache_generation /\ Stays
  <2>0. UNCHANGED cache_generation
    BY <1>4, Zenon DEF Continue, SearchAgain, Materialize, Recheck, MakeLease, Join, CaptureFail,
         CaptureBuild,
         Publish, Complete, Erase, Wake, InvalidateCollect, InvalidateMark, InvalidateReturn, UnpinSub,
         EvictApply, ReplayEnd, generations
  <2>1. CASE FlightStep(t)
    <3>1. CASE Complete(t)
      BY <1>0, <2>0, <3>1 DEF Complete, Thread
    <3>2. CASE Join(t) \/ CaptureFail(t) \/ CaptureBuild(t)
      BY <1>0, <2>0, <3>2 DEF Join, CaptureFail, CaptureBuild, Thread
    <3>3. CASE Publish(t) \/ Erase(t)
      BY <1>0, <2>0, <3>3 DEF Publish, Erase, AfterFlight, Goto, Return, Idle, Thread
    <3> QED BY <2>0, <2>1, <3>1, <3>2, <3>3, Zenon DEF FlightStep
  <2>2. CASE SearchAgain(t) \/ Materialize(t) \/ Recheck(t) \/ Wake(t)
    BY <1>0, <2>0, <2>2 DEF SearchAgain, Materialize, Recheck, Wake, AfterFlight, Goto, Return, Idle, Thread
  <2>3. CASE MakeLease(t) \/ InvalidateReturn(t) \/ UnpinSub(t) \/ EvictApply(t) \/ ReplayEnd(t)
    BY <1>0, <2>0, <2>3 DEF MakeLease, InvalidateReturn, UnpinSub, EvictApply, ReplayEnd, Return, Idle
  <2>4. CASE InvalidateCollect(t) \/ InvalidateMark(t)
    <3>1. th[t].pc \in InvalidatePCs /\ \A v \in Threads \ {t} : th'[v] = th[v]
      BY <1>0, <2>4, Zenon DEF InvalidateCollect, InvalidateMark, At
    <3> QED BY <2>0, <3>1, Zenon
  <2> QED BY <1>4, <2>1, <2>2, <2>3, <2>4, Zenon DEF Continue, FlightStep
<1>5. ASSUME NEW l \in DOMAIN lease, Release(l) \/ ReleaseStep(l) PROVE UNCHANGED <<th, cache_generation>>
  BY <1>5, Zenon DEF Release, ReleaseStep, ReleaseEntryLoad, ReleaseEntrySub, ReleaseGlobalLoad,
              ReleaseGlobalSub, leaseFrame, generations
<1> QED BY <1>1, <1>2, <1>3, <1>4, <1>5, Zenon DEF Next, Start

\* Every step keeps it.
LEMMA SearchStepInv ==
  ASSUME TypeOK, FlightInv, RegistryInv, SearchInv, [Next]_vars PROVE SearchInv'
<1>0. /\ EntriesKept /\ Registered \subseteq DOMAIN entry /\ cache_generation \in Nat
      /\ \A e \in DOMAIN entry : entry[e].req \in Requests
      /\ th \in [Threads -> Thread]
      /\ \A t \in Threads : th[t].pc = "publish" => th[t].req \in Requests /\ th[t].ent \in DOMAIN entry
  BY RegisteredExist, IdentityCases, Zenon DEF TypeOK, Entry, LookupPCs, EntryPCs
<1>1. \A k \in DOMAIN key_current_gen : k \in DOMAIN key_current_gen'
  <2>1. ASSUME NEW t \in Threads, Publish(t) PROVE DOMAIN key_current_gen \subseteq DOMAIN key_current_gen'
    BY <2>1, Zenon DEF Publish, KeyGeneration, Put
  <2> QED BY <2>1, RegistryCases, Zenon DEF registry
<1>2. ASSUME NEW e \in Registered' PROVE Filed(e)'
  <2>1. CASE UNCHANGED registry
    <3>1. e \in Registered /\ entry'[e].req = entry[e].req
      BY <1>0, <1>2, <2>1 DEF registry, Registered, EntriesKept
    <3>2. Bucket(entry[e].req)' = Bucket(entry[e].req)
      BY <2>1, <3>1, Zenon DEF registry, Bucket
    <3> QED BY <3>1, <3>2, Zenon DEF SearchInv, Filed
  <2>2. ASSUME NEW t \in Threads, Publish(t) PROVE Filed(e)'
    <3>1. Registered' = Registered \cup {th[t].ent} /\ UNCHANGED entry
      BY <2>2, PublishRegisters, Zenon DEF Publish
    <3>2. PICK r \in Requests : r = entry[e].req
      BY <1>0, <1>2, <2>2, <3>1, Zenon DEF Publish, At
    <3>3. CASE e \in Registered
      <4>1. PICK i \in DOMAIN Bucket(r) : Bucket(r)[i] = e
        BY <3>2, <3>3, Zenon DEF SearchInv, Filed
      <4>2. i \in DOMAIN Bucket(r)' /\ Bucket(r)'[i] = e
        BY <2>2, <4>1, BucketGrows, Zenon
      <4> QED BY <3>1, <3>2, <4>2, Zenon DEF Filed, Bucket
    <3>4. CASE e = th[t].ent
      <4>0. entry[th[t].ent].req = th[t].req
        BY <2>2, Zenon DEF Publish, At, RegistryInv
      <4>1. \E i \in DOMAIN Bucket(r)' : Bucket(r)'[i] = e
        BY <2>2, <3>2, <3>4, <4>0, BucketGrows, Zenon
      <4> QED BY <3>1, <3>2, <4>1, Zenon DEF Filed, Bucket
    <3> QED BY <1>2, <3>1, <3>3, <3>4, Zenon
  <2> QED BY <2>1, <2>2, RegistryCases, Zenon
<1>3. ASSUME NEW u \in Threads, th'[u].res = "ok" PROVE KeyOf[th'[u].req] \in DOMAIN key_current_gen'
  <2>1. CASE Unrelated(u)
    BY <1>1, <1>3, <2>1, Zenon DEF Unrelated, SearchInv
  <2>2. CASE Publish(u) /\ th'[u].req = th[u].req
    BY <2>2 DEF Publish, KeyGeneration, Put
  <2>3. ASSUME NEW o \in Threads, th[o].res = "ok", KeyOf[th[o].req] = KeyOf[th[u].req], th'[u].req = th[u].req
        PROVE  KeyOf[th'[u].req] \in DOMAIN key_current_gen'
    BY <1>1, <2>3, Zenon DEF SearchInv
  <2> QED BY <2>1, <2>2, <2>3, ResultCases, Zenon
<1>4. ASSUME NEW u \in Threads, th'[u].pc = "again" PROVE th'[u].res = "ok"
  BY <1>4, ResultCases DEF SearchInv
<1>5. cache_generation' >= 1
  BY <1>0, InvalidationCases DEF SearchInv
<1>6. ASSUME cache_generation' = 1
      PROVE  /\ \A e \in DOMAIN entry' : ~entry'[e].invalidated
             /\ \A t \in Threads : th'[t].pc \notin {"collect", "mark"}
  <2>1. cache_generation = 1 /\ cache_generation' # cache_generation + 1
    BY <1>0, <1>6, InvalidationCases DEF SearchInv
  <2>2. \A t \in Threads : th'[t].pc \notin InvalidatePCs /\ th[t].pc \notin InvalidatePCs
    BY <2>1, InvalidationCases, Zenon DEF SearchInv, InvalidatePCs
  <2>3. FlagsKept
    BY <2>2, IdentityCases, Zenon DEF InvalidateMark, At, InvalidatePCs
  <2> QED BY <1>0, <2>1, <2>2, <2>3, Zenon DEF FlagsKept, EntriesKept, SearchInv, InvalidatePCs
<1> QED BY <1>2, <1>3, <1>4, <1>5, <1>6, Zenon DEF SearchInv

\* As long as nothing was ever invalidated, a lookup whose capture attempt succeeded, its
\* own or the one it waited on in run_single_flight, finds an exact, fresh, current
\* candidate in its second search_candidates, whatever the other threads published since.
THEOREM CaptureYieldsCandidateAlways == Spec => []CaptureYieldsCandidate
<1>1. Init => SearchInv
  BY DEF Init, SearchInv, Idle, Registered
<1>2. TypeOK /\ FlightInv /\ RegistryInv /\ SearchInv /\ [Next]_vars => SearchInv'
  BY SearchStepInv, Zenon
<1>3. TypeOK /\ RegistryInv /\ SearchInv /\ LifeInv => CaptureYieldsCandidate
  <2> SUFFICES ASSUME TypeOK, RegistryInv, SearchInv, LifeInv, NEW t \in Threads,
                      cache_generation = 1, At(t, "again")
               PROVE  Exact(th[t].req) # {}
    BY Zenon DEF CaptureYieldsCandidate
  <2> DEFINE r == th[t].req
  <2>1. r \in Requests /\ KeyOf[r] \in DOMAIN key_current_gen
    BY Zenon DEF At, TypeOK, LookupPCs, SearchInv
  <2>2. PICK e \in Registered : entry[e].generation = key_current_gen[KeyOf[r]] /\ KeyOf[entry[e].req] = KeyOf[r]
    BY <2>1, Zenon DEF RegistryInv
  <2>3. e \in DOMAIN entry /\ entry[e].req \in Requests
    BY RegisteredExist, Zenon DEF TypeOK, Entry
  <2>4. ~entry[e].invalidated /\ entry[e].lifecycle = "Valid"
    BY <2>3, Zenon DEF SearchInv, LifeInv
  <2>5. Current(e)
    BY <2>1, <2>2, <2>4, Zenon DEF Current, ReplayEligible
  <2>6. /\ WorkloadOf[entry[e].req] = WorkloadOf[r] /\ Decide[r, entry[e].req] = "Exact"
        /\ <<r, entry[e].req>> \notin StaleFor
    BY <2>1, <2>2, <2>3, KeyAssumption, Zenon
  <2>7. PICK i \in DOMAIN Bucket(entry[e].req) : Bucket(entry[e].req)[i] = e
    BY Zenon DEF SearchInv, Filed
  <2>8. Bucket(entry[e].req) = Bucket(r)
    BY <2>6, Zenon DEF Bucket
  <2>9. i \in Exact(r)
    <3> HIDE DEF r
    <3> QED BY <2>5, <2>6, <2>7, <2>8, Zenon DEF Exact, Compatible, Fresh, Scanned, Class
  <2> QED BY <2>9, Zenon
<1> QED BY <1>1, <1>2, <1>3, RegistryInvAlways, LifeInvAlways, PTL DEF Spec
-----------------------------------------------------------------------------
\* Graphs of different compatibility keys have different artifact ids.
Apart == \A r, s \in Requests : ArtifactOf[r] = ArtifactOf[s] => KeyOf[r] = KeyOf[s]

\* No two entries have the same generation.
Distinct == \A e, f \in DOMAIN entry : entry[e].generation = entry[f].generation => e = f

\* An entry is indexed under the artifact id of its graph, and every candidate is.
Addressed(e) ==
  LET a == ArtifactOf[entry[e].req] IN a \in DOMAIN by_artifact /\ by_artifact[a] = e
AddrInv ==
  /\ \A a \in DOMAIN by_artifact : ArtifactOf[entry[by_artifact[a]].req] = a
  /\ \A e \in Registered : Current(e) => Addressed(e)

\* No step of the engine makes a registered entry a candidate again.
LEMMA CurrentKept ==
  ASSUME TypeOK, RegistryInv, Distinct, [Next]_vars, NEW f \in Registered, Current(f)'
  PROVE  Current(f) /\ ~\E t \in Threads : Publish(t) /\ KeyOf[entry[f].req] = KeyOf[th[t].req]
<1>0. Registered \subseteq DOMAIN entry /\ EntriesKept
  BY RegisteredExist, IdentityCases, Zenon
<1>1. entry'[f].req = entry[f].req /\ entry'[f].generation = entry[f].generation
  BY <1>0, Zenon DEF EntriesKept
<1>2. ~entry[f].invalidated /\ ReplayEligible(entry[f].lifecycle)
  <2>1. CASE FlagsKept
    BY <1>0, <2>1, Zenon DEF FlagsKept, Current
  <2>2. ASSUME NEW t \in Threads, InvalidateMark(t)
        PROVE  ~entry[f].invalidated /\ ReplayEligible(entry[f].lifecycle)
    <3>1. PICK e \in DOMAIN entry :
            /\ \/ UNCHANGED entry
               \/ entry' = [entry EXCEPT ![e] = Marked(t, e)]
            /\ Marked(t, e).invalidated
      BY <2>2, MarkedEntry, Zenon
    <3>2. entry'[f] = entry[f] \/ entry'[f].invalidated
      BY <1>0, <3>1, Zenon
    <3> QED BY <3>2, Zenon DEF Current
  <2> QED BY <2>1, <2>2, IdentityCases, Zenon
<1>3. ASSUME NEW t \in Threads, Publish(t)
      PROVE  /\ KeyOf[entry[f].req] # KeyOf[th[t].req]
             /\ KeyOf[entry[f].req] \in DOMAIN key_current_gen
             /\ entry[f].generation = key_current_gen[KeyOf[entry[f].req]]
  <2>1. th[t].ent \in DOMAIN entry /\ th[t].ent \notin Registered
    BY <1>3, Zenon DEF Publish, At, TypeOK, EntryPCs, RegistryInv
  <2>2. key_current_gen' = Put(key_current_gen, KeyOf[th[t].req], entry[th[t].ent].generation)
    BY <1>3, Zenon DEF Publish, KeyGeneration
  <2>3. KeyOf[entry[f].req] # KeyOf[th[t].req]
    BY <1>0, <1>1, <2>1, <2>2, Zenon DEF Current, Put, Distinct
  <2> QED BY <1>1, <2>2, <2>3, Zenon DEF Current, Put
<1>4. CASE UNCHANGED registry
  <2>1. UNCHANGED <<by_workload, key_current_gen>>
    BY <1>4, Zenon DEF registry
  <2>2. Current(f)
    BY <1>1, <1>2, <2>1, Zenon DEF Current
  <2> QED BY <2>2, <1>3, Zenon
<1>5. ASSUME NEW t \in Threads, Publish(t) PROVE Current(f)
  BY <1>2, <1>3, <1>5, Zenon DEF Current
<1> QED BY <1>3, <1>4, <1>5, RegistryCases, Zenon

\* Every candidate stays addressed: a publication takes the index entry of no other.
LEMMA AddrStepInv ==
  ASSUME Apart, TypeOK, RegistryInv, Distinct, AddrInv, [Next]_vars PROVE AddrInv'
<1>0. /\ Registered \subseteq DOMAIN entry /\ EntriesKept
      /\ \A a \in DOMAIN by_artifact : by_artifact[a] \in DOMAIN entry
      /\ \A e \in DOMAIN entry : entry[e].req \in Requests
  BY RegisteredExist, IdentityCases, Zenon DEF TypeOK, Entry
<1>1. CASE UNCHANGED registry
  <2>1. UNCHANGED <<by_artifact, by_workload>>
    BY <1>1, Zenon DEF registry
  <2>2. Registered' = Registered
    BY <2>1 DEF Registered
  <2>3. \A e \in Registered : Current(e)' => Current(e)
    BY CurrentKept, Zenon
  <2> QED BY <1>0, <2>1, <2>2, <2>3 DEF AddrInv, EntriesKept, Addressed
<1>2. ASSUME NEW t \in Threads, Publish(t) PROVE AddrInv'
  <2> PICK e : e = th[t].ent
    BY Zenon
  <2> PICK a : a = ArtifactOf[th[t].req]
    BY Zenon
  <2>1. /\ by_artifact' = Put(by_artifact, a, e) /\ e \in DOMAIN entry
        /\ entry[e].req = th[t].req /\ th[t].req \in Requests /\ UNCHANGED entry
    BY <1>2, Zenon DEF Publish, Index, At, TypeOK, EntryPCs, LookupPCs, RegistryInv
  <2>2. Registered' = Registered \cup {e}
    BY <1>2, PublishRegisters, Zenon
  <2>3. \A b \in DOMAIN by_artifact' : ArtifactOf[entry'[by_artifact'[b]].req] = b
    BY <2>1, Zenon DEF Put, AddrInv
  <2>4. ASSUME NEW f \in Registered, Current(f)' PROVE Addressed(f)'
    <3>1. Current(f) /\ KeyOf[entry[f].req] # KeyOf[th[t].req]
      BY <1>2, <2>4, CurrentKept, Zenon
    <3>2. ArtifactOf[entry[f].req] # a
      BY <1>0, <2>1, <3>1, Zenon DEF Apart
    <3> QED BY <2>1, <3>1, <3>2, Zenon DEF AddrInv, Addressed, Put
  <2>5. Addressed(e)'
    BY <2>1, Zenon DEF Addressed, Put
  <2> QED BY <2>2, <2>3, <2>4, <2>5, Zenon DEF AddrInv
<1> QED BY <1>1, <1>2, RegistryCases, Zenon

\* With artifact ids apart, every entry a lookup of the engine can still choose is one
\* that invalidate, pin, evict and persist_all find.
THEOREM CandidatesAreAddressableAlways ==
  ASSUME Apart PROVE Spec => []CandidatesAreAddressable
<1>1. Init => AddrInv
  BY DEF Init, AddrInv, Registered
<1>2. TypeOK /\ GenerationInv /\ RegistryInv /\ AddrInv /\ [Next]_vars => AddrInv'
  BY AddrStepInv, Zenon DEF GenerationInv, Distinct
<1>3. AddrInv => CandidatesAreAddressable
  BY Zenon DEF AddrInv, Addressed, CandidatesAreAddressable
<1> QED BY <1>1, <1>2, <1>3, RegistryInvAlways, PTL DEF Spec
-----------------------------------------------------------------------------
\* How a thread comes to mark, to publish and to save.
LEMMA PhaseCases ==
  ASSUME TypeOK, [Next]_vars, NEW u \in Threads, th'[u] # th[u]
  PROVE  /\ th'[u].pc = "mark" => InvalidateMark(u) \/ InvalidateCollect(u)
         /\ th'[u].pc = "publish" => CaptureBuild(u)
         /\ th'[u].pc = "persist" => Publish(u)
<1>0. th \in [Threads -> Thread]
  BY Zenon DEF TypeOK
<1> DEFINE Goal == /\ th'[u].pc = "mark" => InvalidateMark(u) \/ InvalidateCollect(u)
                   /\ th'[u].pc = "publish" => CaptureBuild(u)
                   /\ th'[u].pc = "persist" => Publish(u)
           Other == th'[u].pc \notin {"mark", "publish", "persist"}
<1>2. ASSUME NEW t \in Threads, Start(t) PROVE Goal
  <2> USE DEF Call, Idle, At
  <2>1. ASSUME NEW r \in Requests, Lookup(t, r) PROVE Other
    <3>1. /\ th'[t].pc \in {"materialize", "join"}
          /\ \A v \in Threads \ {t} : th'[v] = th[v]
      BY <1>0, <2>1, Zenon DEF Lookup
    <3> QED BY <3>1, Zenon
  <2>2. ASSUME NEW l \in DOMAIN lease, Replay(t, l) PROVE Other
    BY <1>0, <2>2, Zenon DEF Replay
  <2>3. ASSUME NEW scope \in Scopes, NEW strong \in BOOLEAN, Invalidate(t, scope, strong) PROVE Other
    BY <1>0, <2>3, Zenon DEF Invalidate
  <2>4. ASSUME NEW a \in DOMAIN by_artifact, Pin(t, a) \/ Unpin(t, a) \/ Evict(t, a) \/ Unload(t, a)
        PROVE  Other
    <3>1. \/ UNCHANGED th
          \/ \E label \in {"unpin", "evict"} : \E e :
               th' = [th EXCEPT ![t] = [Idle EXCEPT !.pc = label, !.ent = e]]
      BY <2>4, Zenon DEF Pin, Unpin, Evict, Unload
    <3> QED BY <1>0, <3>1, Zenon
  <2> QED BY <1>2, <2>1, <2>2, <2>3, <2>4, Zenon DEF Start
<1>3. ASSUME NEW t \in Threads, Continue(t) PROVE Goal
  <2> USE DEF At, Goto, Return, Idle
  <2>1. CASE Materialize(t) \/ Recheck(t)
    BY <1>0, <2>1 DEF Materialize, Recheck, Thread
  <2>3. CASE Complete(t)
    BY <1>0, <2>3 DEF Complete, WaitsOn, Thread
  <2>4. CASE SearchAgain(t) \/ Join(t) \/ CaptureFail(t)
    BY <1>0, <2>4 DEF SearchAgain, Join, CaptureFail, Thread
  <2>5. CASE Erase(t) \/ Wake(t)
    BY <1>0, <2>5 DEF Erase, Wake, AfterFlight, Thread
  <2>6. CASE MakeLease(t) \/ InvalidateReturn(t) \/ UnpinSub(t) \/ EvictApply(t) \/ ReplayEnd(t)
    BY <1>0, <2>6 DEF MakeLease, InvalidateReturn, UnpinSub, EvictApply, ReplayEnd
  <2>7. CASE InvalidateCollect(t)
    BY <1>0, <2>7 DEF InvalidateCollect, Thread
  <2>8. CASE InvalidateMark(t)
    <3>1. PICK S : th' = [th EXCEPT ![t].targets = S]
      BY <2>8, Zenon DEF InvalidateMark
    <3>2. u = t /\ th'[t].pc = "mark"
      BY <1>0, <2>8, <3>1 DEF InvalidateMark, Thread
    <3> QED BY <2>8, <3>2, Zenon
  <2>9. CASE Publish(t)
    BY <1>0, <2>9, Zenon DEF Publish, Thread
  <2>10. CASE CaptureBuild(t)
    BY <1>0, <2>10 DEF CaptureBuild, Thread
  <2> QED BY <1>3, <2>1, <2>3, <2>4, <2>5, <2>6, <2>7, <2>8, <2>9, <2>10, Zenon DEF Continue
<1>4. ASSUME NEW l \in DOMAIN lease, Release(l) \/ ReleaseStep(l) PROVE UNCHANGED th
  BY <1>4, Zenon DEF Release, ReleaseStep, ReleaseEntryLoad, ReleaseEntrySub, ReleaseGlobalLoad,
              ReleaseGlobalSub, leaseFrame
<1> QED BY <1>2, <1>3, <1>4, Zenon DEF Next, vars

\* The candidates that an invalidation under way has to mark are all among its targets.
Swept ==
  \A t \in Threads : th[t].pc = "mark" =>
    \A e \in Registered :
      Current(e) /\ entry[e].req \in th[t].scope /\ entry[e].cache_generation < th[t].gen
        => e \in th[t].targets
OneCaller == \A t, u \in Threads : t = u

\* A single caller's invalidation never loses a target.
LEMMA SweptStepInv ==
  ASSUME OneCaller, TypeOK, RegistryInv, Distinct, AddrInv, Swept, [Next]_vars PROVE Swept'
<1> SUFFICES ASSUME NEW t \in Threads, th'[t].pc = "mark", NEW e \in Registered', Current(e)',
                    entry'[e].req \in th'[t].scope, entry'[e].cache_generation < th'[t].gen
             PROVE  e \in th'[t].targets
  BY Zenon DEF Swept
<1>0. th \in [Threads -> Thread] /\ Registered \subseteq DOMAIN entry /\ EntriesKept
  BY RegisteredExist, IdentityCases, Zenon DEF TypeOK
<1>1. Registered' = Registered
  <2>1. ASSUME NEW u \in Threads, Publish(u) PROVE FALSE
    <3>1. u = t
      BY Zenon DEF OneCaller
    <3> QED BY <1>0, <2>1, <3>1, Zenon DEF Publish, Thread
  <2>2. UNCHANGED by_workload
    BY <2>1, RegistryCases, Zenon DEF registry
  <2> QED BY <2>2 DEF Registered
<1>2. Current(e) /\ entry[e].req = entry'[e].req /\ entry[e].cache_generation = entry'[e].cache_generation
  BY <1>0, <1>1, CurrentKept, Zenon DEF EntriesKept
<1>3. CASE th'[t] = th[t]
  BY <1>1, <1>2, <1>3, Zenon DEF Swept
<1>4. CASE InvalidateCollect(t)
  <2>1. th'[t].targets = Targets(th[t].scope) /\ th'[t].scope = th[t].scope
    BY <1>0, <1>4, Zenon DEF InvalidateCollect, Thread
  <2>2. Addressed(e)
    BY <1>1, <1>2, Zenon DEF AddrInv
  <2> QED BY <1>2, <2>1, <2>2, Zenon DEF Targets, Addressed
<1>5. CASE InvalidateMark(t)
  <2>1. PICK f \in th[t].targets :
          /\ f \in DOMAIN entry
          /\ \/ UNCHANGED entry /\ entry[f].invalidated
             \/ entry' = [entry EXCEPT ![f] = Marked(t, f)]
          /\ th' = [th EXCEPT ![t].targets = @ \ {f}]
          /\ Marked(t, f).invalidated
    BY <1>5, MarkedEntry, Zenon
  <2>2. th'[t].targets = th[t].targets \ {f} /\ th'[t].scope = th[t].scope /\ th'[t].gen = th[t].gen
        /\ th[t].pc = "mark"
    BY <1>0, <1>5, <2>1 DEF Thread, InvalidateMark, At
  <2>3. entry'[f].invalidated
    BY <2>1, Zenon
  <2>4. e # f
    BY <2>3, Zenon DEF Current
  <2> QED BY <1>1, <1>2, <2>2, <2>4, Zenon DEF Swept
<1> QED BY <1>3, <1>4, <1>5, PhaseCases, Zenon

\* When a single caller's invalidate has marked its last target, no older entry in its
\* scope is still a candidate: collecting from by_artifact alone misses none.
THEOREM InvalidateIsCompleteAlways ==
  ASSUME Apart, OneCaller PROVE Spec => []InvalidateIsComplete
<1>1. Init => AddrInv /\ Swept
  BY DEF Init, AddrInv, Registered, Swept, Idle
<1>2. TypeOK /\ GenerationInv /\ RegistryInv /\ AddrInv /\ Swept /\ [Next]_vars => AddrInv' /\ Swept'
  BY AddrStepInv, SweptStepInv, Zenon DEF GenerationInv, Distinct
<1>3. Swept => InvalidateIsComplete
  BY Zenon DEF Swept, InvalidateIsComplete, At
<1> QED BY <1>1, <1>2, <1>3, RegistryInvAlways, PTL DEF Spec

\* Single flight lets no two threads publish or save under one artifact id.
LEMMA OwnersApart ==
  ASSUME Apart, TypeOK, FlightInv, NEW t \in Threads, NEW u \in Threads,
         th[t].pc \in {"publish", "persist"}, th[u].pc \in {"publish", "persist"},
         ArtifactOf[th[t].req] = ArtifactOf[th[u].req]
  PROVE  t = u
<1>1. th[t].req \in Requests /\ th[u].req \in Requests
  BY Zenon DEF TypeOK, LookupPCs
<1>2. KeyOf[th[t].req] = KeyOf[th[u].req]
  BY <1>1, Zenon DEF Apart
<1> QED BY <1>2, Zenon DEF FlightInv, OwnersRegistered, OwnerPCs

\* The engine moves an index entry only by publishing under its artifact id.
LEMMA AddressedKept ==
  ASSUME TypeOK, [Next]_vars, NEW e \in DOMAIN entry, Addressed(e),
         \A v \in Threads : Publish(v) => ArtifactOf[th[v].req] # ArtifactOf[entry[e].req]
  PROVE  Addressed(e)'
<1>1. entry'[e].req = entry[e].req
  BY IdentityCases, Zenon DEF EntriesKept
<1>2. CASE UNCHANGED registry
  BY <1>1, <1>2, Zenon DEF registry, Addressed
<1>3. ASSUME NEW v \in Threads, Publish(v) PROVE Addressed(e)'
  <2>1. by_artifact' = Put(by_artifact, ArtifactOf[th[v].req], th[v].ent)
    BY <1>3, Zenon DEF Publish, Index
  <2> QED BY <1>1, <1>3, <2>1, Zenon DEF Addressed, Put
<1> QED BY <1>2, <1>3, RegistryCases, Zenon
==============================================================================
