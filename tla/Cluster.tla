------------------------------ MODULE Cluster -------------------------------
(***************************************************************************)
(* The coordinator with its workers (src/tools/worker_main.cpp), its       *)
(* clients and the TCP connections between them.                           *)
(*                                                                         *)
(* A connection delivers in order and loses nothing until a process dies;  *)
(* then what it sent last may be lost, and the other end reads an end of   *)
(* stream.  A worker restarts with a new boot id and without executables.  *)
(* A client sends one request at a time, stamped with the authority that   *)
(* the last answer told it, and takes the next frame as the answer.        *)
(***************************************************************************)
EXTENDS Coordinator, Sequences

CONSTANTS
  Clients,
  RequestId,     \* [Clients \X 1 .. MaxRequests -> RequestIds]: the ids clients choose
  MaxRequests,   \* bound on the requests of a client
  MaxDeaths,     \* bound on the workers killed, and on the clients gone
  ClientOps      \* kinds of requests besides lookup

ASSUME ClusterAssumption ==
  /\ RequestId \in [Clients \X (1 .. MaxRequests) -> RequestIds]
  /\ MaxRequests \in Nat /\ MaxDeaths \in Nat

VARIABLES
  toC,     \* socket -> frames on their way to the coordinator
  toP,     \* socket -> frames on their way to the peer
  wk,      \* the worker processes
  cl,      \* the clients
  deaths,
  origin   \* history: attempt -> authority and worker boot it was dispatched under

peers == <<toC, toP, wk, cl, deaths>>
clvars == <<cvars, peers, origin>>

EOF == [Blank EXCEPT !.type = "EOF"]
NoSock == None
DownWorker == [pc |-> "down", boot |-> 0, sock |-> NoSock, execs |-> {}]
NewClient == [pc |-> "off", sock |-> NoSock, sent |-> 0, asked |-> Blank, epoch |-> 0,
              cache_gen |-> 0, artifact |-> None, graph_gen |-> 0]

ClInit ==
  /\ CInit
  /\ toC = [s \in Socks |-> << >>] /\ toP = [s \in Socks |-> << >>]
  /\ wk = [w \in WorkerIds |-> DownWorker]
  /\ cl = [c \in Clients |-> NewClient]
  /\ deaths = 0 /\ origin = << >>

\* A new connection gets a handle that neither side has open.
Connect(s, first) ==
  /\ Accept(s)
  /\ toC' = [toC EXCEPT ![s] = first] /\ toP' = [toP EXCEPT ![s] = << >>]

\* The process at the other end of s goes away after n of its unread frames got out.
Hangup(s) ==
  \E n \in 0 .. Len(toC[s]) : toC' = [toC EXCEPT ![s] = Append(SubSeq(@, 1, n), EOF)]
Sends(s, m) == toC' = [toC EXCEPT ![s] = Append(@, m)]
Takes(s) == toP[s] # << >> /\ toP' = [toP EXCEPT ![s] = Tail(@)]
-----------------------------------------------------------------------------
(***************************************************************************)
(* The coordinator reads the next frame of a connection, or its end.       *)
(***************************************************************************)
Serve(s) ==
  LET m == Head(toC[s]) IN
  /\ toC[s] # << >>
  /\ IF m.type = "EOF"
     THEN /\ Close(s)
          /\ toC' = [toC EXCEPT ![s] = << >>] /\ toP' = [toP EXCEPT ![s] = << >>]
          /\ UNCHANGED origin
     ELSE /\ Handle(s, m)
          /\ toC' = [toC EXCEPT ![s] = Tail(@)]
          /\ toP' = IF out'.to \in DOMAIN conns
                    THEN [toP EXCEPT ![out'.to] = Append(@, out'.msg)] ELSE toP
          /\ origin' = IF out'.msg.type = "CaptureInstruct"
                       THEN Put(origin, out'.msg.capture_attempt, out'.msg) ELSE origin
  /\ UNCHANGED <<wk, cl, deaths>>

(***************************************************************************)
(* A worker.                                                               *)
(***************************************************************************)
\* It connects and registers, always under epoch 1.
WorkerStart(w) ==
  /\ wk[w].pc = "down" /\ wk[w].boot + 1 \in Boots
  /\ \E s \in Socks :
       /\ Connect(s, <<[Blank EXCEPT !.type = "Register", !.worker_id = w,
                                     !.worker_boot = wk[w].boot + 1, !.epoch = 1]>>)
       /\ wk' = [wk EXCEPT ![w] = [pc |-> "joining", boot |-> wk[w].boot + 1, sock |-> s,
                                   execs |-> {}]]
  /\ UNCHANGED <<cl, deaths, origin>>

\* Anything but an accepted registration makes it exit.
WorkerAck(w) ==
  LET s == wk[w].sock
      m == Head(toP[s]) IN
  /\ wk[w].pc = "joining" /\ Takes(s)
  /\ IF m.type = "RegisterAck" /\ m.status = "Ok"
     THEN wk' = [wk EXCEPT ![w].pc = "up"] /\ UNCHANGED toC
     ELSE wk' = [wk EXCEPT ![w].pc = "down", ![w].sock = NoSock] /\ Sends(s, EOF)
  /\ UNCHANGED <<cvars, cl, deaths, origin>>

\* Its answers echo the authority of the instruction.
Answer(w, m, type, status, body) ==
  Sends(wk[w].sock,
        [Blank EXCEPT !.type = type, !.request_id = m.request_id, !.epoch = m.epoch,
                      !.cache_gen = m.cache_gen, !.worker_id = w, !.worker_boot = wk[w].boot,
                      !.capture_attempt = m.capture_attempt, !.graph_gen = m.graph_gen,
                      !.status = status, !.body = body])

\* Capturing and validating succeed or fail as the backend has it.
WorkerCapture(w) ==
  LET m == Head(toP[wk[w].sock])
      a == ArtifactOf[m.body] IN
  /\ wk[w].pc = "up" /\ Takes(wk[w].sock) /\ m.type = "CaptureInstruct"
  /\ \/ /\ wk' = [wk EXCEPT ![w].execs = @ \cup {a}]
        /\ Answer(w, m, "CaptureResult", "Ok", a)
     \/ UNCHANGED wk /\ Answer(w, m, "CaptureResult", "CaptureFailed", None)
  /\ UNCHANGED <<cvars, cl, deaths, origin>>

\* The output stands for the artifact that produced it.
WorkerReplay(w) ==
  LET m == Head(toP[wk[w].sock]) IN
  /\ wk[w].pc = "up" /\ Takes(wk[w].sock) /\ m.type = "ReplayInstruct"
  /\ \/ m.body \in wk[w].execs /\ Answer(w, m, "ReplayResult", "Ok", m.body)
     \/ Answer(w, m, "ReplayResult", "ReplayFailed", None)
  /\ UNCHANGED <<cvars, wk, cl, deaths, origin>>

\* The refusal of one of its results, among others, means nothing to it.
WorkerIgnore(w) ==
  /\ wk[w].pc = "up" /\ Takes(wk[w].sock)
  /\ Head(toP[wk[w].sock]).type \notin {"CaptureInstruct", "ReplayInstruct"}
  /\ UNCHANGED <<cvars, toC, wk, cl, deaths, origin>>

WorkerDies(w) ==
  /\ wk[w].pc # "down" /\ deaths < MaxDeaths /\ deaths' = deaths + 1
  /\ Hangup(wk[w].sock)
  /\ wk' = [wk EXCEPT ![w] = [DownWorker EXCEPT !.boot = wk[w].boot]]
  /\ UNCHANGED <<cvars, toP, cl, origin>>

(***************************************************************************)
(* A client.                                                               *)
(***************************************************************************)
ClientConnect(c) ==
  /\ cl[c].pc = "off" /\ cl[c].sent < MaxRequests
  /\ \E s \in Socks : /\ Connect(s, << >>)
                      /\ cl' = [cl EXCEPT ![c].pc = "idle", ![c].sock = s]
  /\ UNCHANGED <<wk, deaths, origin>>

\* m with the client's next request id and what it knows of the authority.
Asks(c, m) ==
  LET n == cl[c].sent + 1
      request == [m EXCEPT !.request_id = RequestId[c, n], !.epoch = cl[c].epoch,
                           !.cache_gen = cl[c].cache_gen] IN
  /\ cl[c].pc = "idle" /\ n <= MaxRequests
  /\ cl' = [cl EXCEPT ![c].pc = "waiting", ![c].sent = n, ![c].asked = request]
  /\ Sends(cl[c].sock, request)
  /\ UNCHANGED <<cvars, toP, wk, deaths, origin>>

ClientLookup(c) == \E g \in Graphs : Asks(c, [Blank EXCEPT !.type = "Lookup", !.body = g])
ClientReplay(c) ==
  /\ "replay" \in ClientOps /\ cl[c].artifact # None
  /\ Asks(c, [Blank EXCEPT !.type = "ReplayInstruct", !.body = cl[c].artifact,
                           !.graph_gen = cl[c].graph_gen])
ClientInvalidate(c) ==
  /\ "invalidate" \in ClientOps
  /\ \E roll \in BOOLEAN : Asks(c, [Blank EXCEPT !.type = "Invalidate", !.roll = roll])

ClientReceive(c) ==
  LET m == Head(toP[cl[c].sock])
      found == m.type = "LookupResult" /\ m.status = "Ok" /\ m.body # None IN
  /\ cl[c].pc = "waiting" /\ Takes(cl[c].sock)
  /\ cl' = [cl EXCEPT ![c].pc = "idle", ![c].epoch = m.epoch, ![c].cache_gen = m.cache_gen,
                      ![c].artifact = IF found THEN m.body ELSE @,
                      ![c].graph_gen = IF found THEN m.graph_gen ELSE @]
  /\ UNCHANGED <<cvars, toC, wk, deaths, origin>>

ClientLeaves(c) ==
  /\ "leave" \in ClientOps /\ cl[c].pc # "off"
  /\ deaths < MaxDeaths /\ deaths' = deaths + 1
  /\ Hangup(cl[c].sock)
  /\ cl' = [cl EXCEPT ![c] = [NewClient EXCEPT !.sent = cl[c].sent]]
  /\ UNCHANGED <<cvars, toP, wk, origin>>
-----------------------------------------------------------------------------
WorkerStep(w) == WorkerAck(w) \/ WorkerCapture(w) \/ WorkerReplay(w) \/ WorkerIgnore(w)
ClientRequest(c) == ClientConnect(c) \/ ClientLookup(c) \/ ClientReplay(c) \/ ClientInvalidate(c)

ClNext ==
  \/ \E s \in Socks : Serve(s)
  \/ \E w \in WorkerIds : WorkerStart(w) \/ WorkerStep(w) \/ WorkerDies(w)
  \/ \E c \in Clients : ClientRequest(c) \/ ClientReceive(c) \/ ClientLeaves(c)

ClSpec == ClInit /\ [][ClNext]_clvars

\* select serves every connection with something to read, and a process that is
\* alive reads its socket.
ClFairness ==
  /\ \A s \in Socks : WF_clvars(Serve(s))
  /\ \A w \in WorkerIds : WF_clvars(WorkerStep(w))
  /\ \A c \in Clients : WF_clvars(ClientReceive(c))
ClFairSpec == ClSpec /\ ClFairness
-----------------------------------------------------------------------------
\* docs/protocol.md: obsolete attempts and completions after an invalidation are
\* rejected.  What is published was captured by the boot of its worker that is now
\* registered, under an instruction of the present epoch and cache generation.
PublishIsCurrent ==
  [][\A n \in DOMAIN graphs' :
       (n \notin DOMAIN graphs \/ graphs'[n] # graphs[n]) =>
         \E a \in DOMAIN pending \ DOMAIN pending' :
           /\ origin[a].epoch = epoch /\ origin[a].cache_gen = cache_gen
           /\ origin[a].worker_id = graphs'[n].worker_id
           /\ origin[a].worker_boot = worker_boot[graphs'[n].worker_id]]_clvars

\* A capture is only dispatched to a worker that can be reached: a worker counted as
\* connected has its own boot's connection open at the socket the coordinator uses.
ConnectedWorkerReachable ==
  \A w \in worker_connected :
    /\ worker_sock[w] \in DOMAIN conns
    /\ conns[worker_sock[w]] = [is_worker |-> TRUE, worker_id |-> w, worker_boot |-> worker_boot[w]]

\* A client's hit can be replayed: the generation registered under a key is the one
\* registered under the artifact the hit names.
HitsAreReplayable ==
  \A k \in Keys : Live(ByKey(k)) =>
    LET e == graphs[ByKey(k)] IN
    Live(ByArtifact(e.artifact)) /\ graphs[ByArtifact(e.artifact)] = e

\* Whatever other clients, workers and invalidations do, a frame on its way to a
\* client answers the request that client is waiting on, and with its graph.
AnswersMatchRequests ==
  \A c \in Clients : cl[c].pc # "off" =>
    \A i \in DOMAIN toP[cl[c].sock] :
      LET m == toP[cl[c].sock][i] IN
      /\ cl[c].pc = "waiting" /\ m.request_id = cl[c].asked.request_id
      /\ m.status = "Ok" /\ cl[c].asked.type = "ReplayInstruct" => m.body = cl[c].asked.body
      /\ m.status = "Ok" /\ cl[c].asked.type = "Lookup" => m.body = ArtifactOf[cl[c].asked.body]

\* Every request is answered, by the coordinator or by the worker it is passed on to.
\* An invalidation ends that: a completion it makes stale is answered to the worker
\* only, and the client whose lookup asked for the capture waits on.
RequestsAnswered ==
  \A c \in Clients : cl[c].pc = "waiting" ~> (cl[c].pc # "waiting" \/ cache_gen > 1)
=============================================================================
