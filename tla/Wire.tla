-------------------------------- MODULE Wire ---------------------------------
(***************************************************************************)
(* The framed protocol of src/src/protocol.cpp between the coordinator, a  *)
(* worker and clients, byte by byte: blocking writes into connections of   *)
(* bounded capacity, the coordinator's select loop with its per-connection *)
(* buffer, and the blocking recv_frame of its peers.                       *)
(*                                                                         *)
(* Messages are replays, the one request whose payload passes through all  *)
(* three processes.  A byte is a digit below Base, the length prefix has   *)
(* two of them, the header three (type with version, request id, payload   *)
(* length); the limits keep the order they have in the code:               *)
(*   HeaderMin < MaxFrameSize - MaxPayloadSize.                            *)
(* Every process does one send or recv of the operating system at a time;  *)
(* send takes some of the bytes that fit, recv returns what has arrived.   *)
(***************************************************************************)
EXTENDS Integers, Sequences, FiniteSets, Functions

CONSTANTS
  Clients,      \* client processes; the number of a client is its request id
  Worker,       \* the worker process, registered; its number orders its socket
  Capacity,     \* bytes a connection holds in each direction
  Chunk,        \* bytes one recv of the coordinator returns at most
  Wishes,       \* what each client may send: [lead, type, size, checked]
  Mortal        \* the processes that may be killed

Base == 4
Byte == 0 .. Base - 1
PrefixSize == 2
HeaderMin == 3
MaxFrameSize == 6
MaxPayloadSize == MaxFrameSize - 4

ReplayInstruct == 1
ReplayResult == 2
LookupResult == 3
Types == {ReplayInstruct, ReplayResult, LookupResult}

Peers == Clients \cup {Worker}

ASSUME WireAssumption ==
  /\ Clients \subseteq Byte \ {0} /\ Worker \in Nat \ Clients
  /\ Capacity \in Nat \ {0} /\ Chunk \in Nat \ {0} /\ Mortal \subseteq Peers
\* A wish is a request of some payload size; lead is what another build of the protocol
\* puts before it (an empty frame), type 0 one of another version, and checked whether
\* the client's send_frame applies our MaxFrameSize.
ASSUME WishAssumption ==
  \A c \in Clients : \A w \in Wishes[c] :
                    /\ w.lead \in Seq(Byte) /\ w.type \in {0, ReplayInstruct}
                    /\ w.size \in 1 .. MaxFrameSize /\ w.checked \in BOOLEAN

VARIABLES
  up, down,   \* [Peers -> Seq(Byte)]: bytes on their way to and from the coordinator
  conn,       \* the coordinator's conns: state, buf
  co,         \* the coordinator: pc, todo (fds), at, to, rest (unsent bytes)
  pending,    \* pending_replays: request id -> peer
  proc,       \* the other processes: pc, buf (unsent or received bytes)
  wish,       \* what a client asked for
  answer,     \* the message a client took as its answer
  killed      \* the processes killed

wvars == <<up, down, conn, co, pending, proc, wish, answer, killed>>

NoWish == [lead |-> << >>, type |-> 0, size |-> 0, checked |-> FALSE]
NoAnswer == [type |-> 0, request_id |-> 0, payload |-> << >>]

WInit ==
  /\ up = [p \in Peers |-> << >>] /\ down = [p \in Peers |-> << >>]
  /\ conn = [p \in Peers |-> [state |-> "open", buf |-> << >>]]
  /\ co = [pc |-> "select", todo |-> {}, at |-> Worker, to |-> Worker, rest |-> << >>]
  /\ pending = << >>
  /\ proc = [p \in Peers |-> [pc |-> IF p = Worker THEN "recv" ELSE "idle", buf |-> << >>]]
  /\ wish = [c \in Clients |-> NoWish] /\ answer = [c \in Clients |-> NoAnswer]
  /\ killed = {}
-----------------------------------------------------------------------------
(***************************************************************************)
(* encode_message, decode_message and the frame around them.               *)
(***************************************************************************)
put_le(n) == <<n % Base, (n \div Base) % Base>>
rd_le(b) == b[1] + Base * b[2]

encode_message(m) == <<m.type, m.request_id, Len(m.payload) % Base>> \o m.payload

DecodesUnbounded(b) == Len(b) >= HeaderMin /\ b[1] \in Types
Decodes(b) ==
  /\ Len(b) >= HeaderMin /\ b[1] \in Types
  /\ b[3] <= MaxPayloadSize
  /\ HeaderMin + b[3] = Len(b)
decode_message(b) ==
  [type |-> b[1], request_id |-> b[2], payload |-> SubSeq(b, HeaderMin + 1, Len(b))]

\* send_frame: nothing is written when the body is too long.
Sendable(m) == Len(encode_message(m)) <= MaxFrameSize
Frame(m) == put_le(Len(encode_message(m))) \o encode_message(m)

\* How much of a stream its first frame takes, once the prefix is there.
Extent(b) == PrefixSize + rd_le(b)
Body(b) == SubSeq(b, PrefixSize + 1, Extent(b))
From(b, n) == SubSeq(b, n + 1, Len(b))

\* The complete frames at the beginning of a stream.
Frames(stream) ==
  LET frames[n \in 0 .. Len(stream)] ==   \* those from position n on
        LET b == From(stream, n) IN
        IF Len(b) < PrefixSize \/ Len(b) < Extent(b) THEN << >>
        ELSE <<Body(b)>> \o frames[n + Extent(b)]
  IN frames[0]

Fill(n) == [i \in 1 .. n |-> 1]
Status(type, id) == [type |-> type, request_id |-> id, payload |-> << >>]

Dead(p) == proc[p].pc = "down"
Closed(p) == conn[p].state = "closed"
Room(q) == Capacity - Len(q)
-----------------------------------------------------------------------------
(***************************************************************************)
(* The coordinator's loop.                                                 *)
(***************************************************************************)
\* select reports a connection with bytes or with its end to read.
Readable == {p \in Peers : ~Closed(p) /\ (up[p] # << >> \/ Dead(p))}

Select ==
  /\ co.pc = "select" /\ Readable # {}
  /\ co' = [co EXCEPT !.pc = "pass", !.todo = Readable]
  /\ UNCHANGED <<up, down, conn, pending, proc, wish, answer, killed>>

\* A recv that forgets the part of a frame read before.
RecvFresh ==
  /\ co.pc = "pass"
  /\ \E p \in co.todo :
       /\ \A q \in co.todo : p <= q
       /\ LET n == IF Len(up[p]) < Chunk THEN Len(up[p]) ELSE Chunk IN
          IF n = 0
          THEN /\ conn' = [conn EXCEPT ![p].state = "closing"]
               /\ co' = [co EXCEPT !.todo = @ \ {p}]
               /\ UNCHANGED up
          ELSE /\ conn' = [conn EXCEPT ![p].buf = SubSeq(up[p], 1, n)]
               /\ up' = [up EXCEPT ![p] = From(@, n)]
               /\ co' = [co EXCEPT !.todo = @ \ {p}, !.pc = "extract", !.at = p]
  /\ UNCHANGED <<down, pending, proc, wish, answer, killed>>

\* One recv on each connection reported, in the order of the handles.
Recv ==
  /\ co.pc = "pass"
  /\ \E p \in co.todo :
       /\ \A q \in co.todo : p <= q
       /\ LET n == IF Len(up[p]) < Chunk THEN Len(up[p]) ELSE Chunk IN
          IF n = 0
          THEN /\ conn' = [conn EXCEPT ![p].state = "closing"]
               /\ co' = [co EXCEPT !.todo = @ \ {p}]
               /\ UNCHANGED up
          ELSE /\ conn' = [conn EXCEPT ![p].buf = @ \o SubSeq(up[p], 1, n)]
               /\ up' = [up EXCEPT ![p] = From(@, n)]
               /\ co' = [co EXCEPT !.todo = @ \ {p}, !.pc = "extract", !.at = p]
  /\ UNCHANGED <<down, pending, proc, wish, answer, killed>>

\* A message is sent by blocking writes before anything else happens; one that is too
\* long is not sent at all, and nobody is told.
SendQuiet(p, m) ==
  co' = IF Sendable(m) THEN [co EXCEPT !.pc = "send", !.to = p, !.rest = Frame(m)] ELSE co

\* The handlers of a replay: forwarded or refused, and its result returned to whoever
\* waits under the request id.
WaitingSender(id, p) == p
Waiting(id, p) == IF id \in DOMAIN pending THEN pending[id] ELSE p
Handle(p, m) ==
  \/ /\ m.type = ReplayInstruct
     /\ pending' = [i \in DOMAIN pending \cup {m.request_id} |->
                      IF i = m.request_id THEN p ELSE pending[i]]
     /\ SendQuiet(Worker, m)
  \/ /\ m.type = ReplayInstruct
     /\ SendQuiet(p, Status(ReplayResult, m.request_id))
     /\ UNCHANGED pending
  \/ /\ m.type = ReplayResult
     /\ SendQuiet(Waiting(m.request_id, p), m)
     /\ pending' = Restrict(pending, DOMAIN pending \ {m.request_id})
  \/ m.type = LookupResult /\ UNCHANGED <<co, pending>>

\* The loop over the frames in the buffer of the connection just read.
IncompleteExact(b) == Len(b) >= PrefixSize => rd_le(b) \in 1 .. MaxFrameSize /\ Len(b) <= Extent(b)
Incomplete(b) == Len(b) >= PrefixSize => rd_le(b) \in 1 .. MaxFrameSize /\ Len(b) < Extent(b)
Extract ==
  LET p == co.at
      b == conn[p].buf IN
  /\ co.pc = "extract"
  /\ \/ /\ Incomplete(b)
        /\ co' = [co EXCEPT !.pc = "pass"]
        /\ UNCHANGED <<conn, pending>>
     \/ /\ ~Incomplete(b) /\ rd_le(b) = 0
        /\ conn' = [conn EXCEPT ![p].buf = From(@, PrefixSize)]
        /\ UNCHANGED <<co, pending>>
     \/ /\ ~Incomplete(b) /\ rd_le(b) > MaxFrameSize
        /\ conn' = [conn EXCEPT ![p].state = "closing"]
        /\ co' = [co EXCEPT !.pc = "pass"]
        /\ UNCHANGED pending
     \/ /\ ~Incomplete(b) /\ rd_le(b) \in 1 .. MaxFrameSize
        /\ conn' = [conn EXCEPT ![p].buf = From(@, Extent(b))]
        /\ IF Decodes(Body(b))
           THEN Handle(p, decode_message(Body(b)))
           ELSE SendQuiet(p, Status(LookupResult, 0)) /\ UNCHANGED pending
  /\ UNCHANGED <<up, down, proc, wish, answer, killed>>

\* A send whose short count goes unnoticed.
SendOnce ==
  LET p == co.to IN
  /\ co.pc = "send"
  /\ \/ /\ Dead(p) \/ Closed(p)
        /\ co' = [co EXCEPT !.pc = "extract", !.rest = << >>]
        /\ UNCHANGED down
     \/ /\ ~Dead(p) /\ ~Closed(p)
        /\ \E n \in 1 .. Len(co.rest) :
             /\ n <= Room(down[p])
             /\ down' = [down EXCEPT ![p] = @ \o SubSeq(co.rest, 1, n)]
             /\ co' = [co EXCEPT !.rest = << >>, !.pc = "extract"]
  /\ UNCHANGED <<up, conn, pending, proc, wish, answer, killed>>

\* tcp_write_all: send fails when the other end is gone, and waits while it is full.
Send ==
  LET p == co.to IN
  /\ co.pc = "send"
  /\ \/ /\ Dead(p) \/ Closed(p)
        /\ co' = [co EXCEPT !.pc = "extract", !.rest = << >>]
        /\ UNCHANGED down
     \/ /\ ~Dead(p) /\ ~Closed(p)
        /\ \E n \in 1 .. Len(co.rest) :
             /\ n <= Room(down[p])
             /\ down' = [down EXCEPT ![p] = @ \o SubSeq(co.rest, 1, n)]
             /\ co' = [co EXCEPT !.rest = From(@, n),
                                 !.pc = IF n = Len(co.rest) THEN "extract" ELSE "send"]
  /\ UNCHANGED <<up, conn, pending, proc, wish, answer, killed>>

\* At the end of a pass the connections to close are closed.
EndPass ==
  /\ co.pc = "pass" /\ co.todo = {}
  /\ conn' = [p \in Peers |-> IF conn[p].state = "closing"
                              THEN [state |-> "closed", buf |-> << >>] ELSE conn[p]]
  /\ up' = [p \in Peers |-> IF conn[p].state = "closing" THEN << >> ELSE up[p]]
  /\ co' = [co EXCEPT !.pc = "select"]
  /\ UNCHANGED <<down, pending, proc, wish, answer, killed>>
-----------------------------------------------------------------------------
(***************************************************************************)
(* The peers: blocking send_frame and recv_frame on their one connection.  *)
(***************************************************************************)
\* A client sends one request.  Its payload begins with the artifact id; a request its
\* own send_frame refuses is not sent, but the client waits for the answer all the same.
Request(c, w) == [type |-> w.type, request_id |-> c, payload |-> Fill(w.size)]
Refused(c, w) == w.checked /\ ~Sendable(Request(c, w))
Ask(c, w) ==
  /\ proc[c].pc = "idle"
  /\ proc' = [proc EXCEPT ![c] = IF Refused(c, w) THEN [pc |-> "recv", buf |-> << >>]
                                 ELSE [pc |-> "send", buf |-> w.lead \o Frame(Request(c, w))]]
  /\ wish' = [wish EXCEPT ![c] = w]
  /\ UNCHANGED <<up, down, conn, co, pending, answer, killed>>

PeerSend(p) ==
  LET b == proc[p].buf IN
  /\ proc[p].pc = "send"
  /\ \/ /\ Closed(p)
        /\ proc' = [proc EXCEPT ![p] = [pc |-> "recv", buf |-> << >>]]
        /\ UNCHANGED up
     \/ /\ ~Closed(p)
        /\ \E n \in 1 .. Len(b) :
             /\ n <= Room(up[p])
             /\ up' = [up EXCEPT ![p] = @ \o SubSeq(b, 1, n)]
             /\ proc' = [proc EXCEPT ![p] = [pc |-> IF n = Len(b) THEN "recv" ELSE "send",
                                             buf |-> From(b, n)]]
  /\ UNCHANGED <<down, conn, co, pending, wish, answer, killed>>

\* tcp_read_exact: first the prefix, then the body it announces.
Wanted(b) == IF Len(b) < PrefixSize THEN PrefixSize - Len(b) ELSE Extent(b) - Len(b)
BadPrefix(b) == Len(b) = PrefixSize /\ (rd_le(b) = 0 \/ rd_le(b) > MaxFrameSize)
Whole(b) == Len(b) > PrefixSize /\ Len(b) = Extent(b)

\* What a peer does with a frame it received: a client takes it as the answer; a worker
\* replays, which may fail, and answers with the output, shorter than the input by the
\* artifact id; any other message it ignores.
Accept(p, m) ==
  \/ /\ p \in Clients
     /\ answer' = [answer EXCEPT ![p] = m]
     /\ proc' = [proc EXCEPT ![p] = [pc |-> "done", buf |-> << >>]]
  \/ /\ p = Worker /\ m.type = ReplayInstruct
     /\ \E out \in {Tail(m.payload), << >>} :
          proc' = [proc EXCEPT ![p] =
                     [pc |-> "send",
                      buf |-> Frame([type |-> ReplayResult, request_id |-> m.request_id, payload |-> out])]]
     /\ UNCHANGED answer
  \/ /\ p = Worker /\ m.type # ReplayInstruct
     /\ proc' = [proc EXCEPT ![p].buf = << >>]
     /\ UNCHANGED answer

PeerRecv(p) ==
  /\ proc[p].pc = "recv"
  /\ IF down[p] = << >>
     THEN /\ Closed(p)
          /\ proc' = [proc EXCEPT ![p] = [pc |-> "down", buf |-> << >>]]
          /\ UNCHANGED <<down, answer>>
     ELSE LET n == IF Len(down[p]) < Wanted(proc[p].buf) THEN Len(down[p]) ELSE Wanted(proc[p].buf)
              b == proc[p].buf \o SubSeq(down[p], 1, n) IN
          /\ down' = [down EXCEPT ![p] = From(@, n)]
          /\ IF Whole(b) /\ Decodes(Body(b)) THEN Accept(p, decode_message(Body(b)))
             ELSE /\ proc' = [proc EXCEPT ![p] = IF BadPrefix(b) \/ Whole(b)
                                                 THEN [pc |-> "down", buf |-> << >>]
                                                 ELSE [pc |-> "recv", buf |-> b]]
                  /\ UNCHANGED answer
  /\ UNCHANGED <<up, conn, co, pending, wish, killed>>

\* A process is killed; some of what it wrote last may never leave its machine.
Die(p) ==
  /\ ~Dead(p)
  /\ proc' = [proc EXCEPT ![p] = [pc |-> "down", buf |-> << >>]]
  /\ \E n \in 0 .. Len(up[p]) : up' = [up EXCEPT ![p] = SubSeq(@, 1, n)]
  /\ down' = [down EXCEPT ![p] = << >>]
  /\ killed' = killed \cup {p}
  /\ UNCHANGED <<conn, co, pending, wish, answer>>
-----------------------------------------------------------------------------
CoordinatorStep == Select \/ Recv \/ Extract \/ Send \/ EndPass
PeerStep(p) == PeerSend(p) \/ PeerRecv(p)

WNext ==
  \/ CoordinatorStep
  \/ \E p \in Peers : PeerStep(p)
  \/ \E p \in Mortal : Die(p)
  \/ \E c \in Clients : \E w \in Wishes[c] : Ask(c, w)

\* Every process that can go on does.
WSpec == WInit /\ [][WNext]_wvars /\ WF_wvars(CoordinatorStep) /\ \A p \in Peers : WF_wvars(PeerStep(p))
-----------------------------------------------------------------------------
(***************************************************************************)
(* Properties.                                                             *)
(***************************************************************************)
\* The shape of the state; a pass of the coordinator leaves no complete frame in the
\* buffer of a connection, where it would wait for bytes that need not come.
WTypeOK ==
  /\ \A p \in Peers :
       /\ up[p] \in Seq(Byte) /\ Len(up[p]) <= Capacity
       /\ down[p] \in Seq(Byte) /\ Len(down[p]) <= Capacity
       /\ conn[p].state \in {"open", "closing", "closed"} /\ conn[p].buf \in Seq(Byte)
       /\ proc[p].pc \in {"idle", "send", "recv", "done", "down"} /\ proc[p].buf \in Seq(Byte)
       /\ co.pc = "select" => Frames(conn[p].buf) = << >>
  /\ co.pc \in {"select", "pass", "extract", "send"} /\ co.todo \subseteq Peers
  /\ co.at \in Peers /\ co.to \in Peers /\ co.rest \in Seq(Byte)
  /\ DOMAIN pending \subseteq Byte /\ \A i \in DOMAIN pending : pending[i] \in Peers
  /\ killed \subseteq Mortal

\* Whatever the kernel splits and joins, the answer a client takes is the result of its
\* own request, and it is told Malformed only for a request that decode_message refuses:
\* one of another version, or one with a payload between MaxPayloadSize and what fits
\* into MaxFrameSize, which its own send_frame let pass.
AnswersIntact ==
  \A c \in Clients : proc[c].pc = "done" =>
    LET a == answer[c]
        w == wish[c] IN
    \/ /\ a.type = ReplayResult /\ a.request_id = c /\ w.type = ReplayInstruct
       /\ w.size <= MaxPayloadSize
       /\ a.payload \in {Fill(w.size - 1), << >>}
    \/ /\ a = Status(LookupResult, 0)
       /\ w.type = 0 \/ w.size > MaxPayloadSize

\* No peer is thrown out of step by what the coordinator forwards: recv_frame fails, which
\* ends the process, only at a client whose own frame was too long for the coordinator.
PeersStayInSync ==
  \A p \in Peers : Dead(p) /\ p \notin killed =>
    p \in Clients /\ Len(encode_message(Request(p, wish[p]))) > MaxFrameSize

\* Coordinator and worker block each other for ever: both are in tcp_write_all, and
\* neither reads what the other one has written.
Jammed ==
  /\ co.pc = "send" /\ co.to = Worker /\ proc[Worker].pc = "send"
  /\ Room(down[Worker]) = 0 /\ Room(up[Worker]) = 0

\* A client that got its request out is answered or loses its connection, unless the
\* worker is gone, or the coordinator and the worker are jammed, which takes a replay of
\* another client under way at the same time.
AnsweredOrJammed ==
  \A c \in Clients :
    proc[c].pc = "send" ~> \/ proc[c].pc \in {"done", "down"} \/ Dead(Worker)
                           \/ Jammed /\ \E d \in Clients \ {c} : proc[d].pc \in {"send", "recv"}
-----------------------------------------------------------------------------
(***************************************************************************)
(* The bytes between two processes are the frames of a Channel.            *)
(***************************************************************************)
Directions == Peers \X {"up", "down"}
Unsent(p) == IF proc[p].pc = "send" THEN proc[p].buf ELSE << >>
Received(p) == IF proc[p].pc = "recv" THEN proc[p].buf ELSE << >>
Forwarded(p) == IF co.pc = "send" /\ co.to = p THEN co.rest ELSE << >>

Stream(p, way) ==
  CASE way = "up" -> IF conn[p].state = "open" THEN conn[p].buf \o up[p] \o Unsent(p) ELSE << >>
    [] way = "down" -> IF Dead(p) THEN << >> ELSE Received(p) \o down[p] \o Forwarded(p)
Ended(p, way) == Dead(p) \/ (IF way = "up" THEN conn[p].state # "open" ELSE Closed(p))

Wired == INSTANCE Channel WITH
  Ends <- Directions,
  transit <- [d \in Directions |-> Frames(Stream(d[1], d[2]))],
  ended <- [d \in Directions |-> Ended(d[1], d[2])]

\* send_frame over tcp_write_all at one end, and recv_frame or the coordinator's buffer at
\* the other, carry whole messages in order, none lost, repeated or merged while the
\* connection lasts: the connections are the channels that Cluster composes its
\* processes with.
ImplementsChannel == Wired!ChannelSpec
=============================================================================
