------------------------------- MODULE Channel -------------------------------
(***************************************************************************)
(* What the two ends of a TCP connection are to each other: each direction *)
(* carries whole frames, in order, each taken once; when the connection    *)
(* ends, frames from some point on are lost and none is added.  This is    *)
(* what Cluster takes a connection to be.                                  *)
(***************************************************************************)
EXTENDS Sequences, Naturals

CONSTANT Ends      \* the directions of the connections

VARIABLES
  transit,         \* [Ends -> Seq(frame)]: written, not yet taken by the reader
  ended            \* [Ends -> BOOLEAN]

channelVars == <<transit, ended>>

ChannelInit == transit = [d \in Ends |-> << >>] /\ ended = [d \in Ends |-> FALSE]

IsPrefix(s, t) == Len(s) <= Len(t) /\ s = SubSeq(t, 1, Len(s))

Write(d) ==
  /\ ~ended[d] /\ ~ended'[d]
  /\ Len(transit'[d]) > Len(transit[d]) /\ IsPrefix(transit[d], transit'[d])
Take(d) == transit[d] # << >> /\ transit'[d] = Tail(transit[d]) /\ ended'[d] = ended[d]
Cut(d) == ended'[d] /\ IsPrefix(transit'[d], transit[d])
Idle(d) == transit'[d] = transit[d] /\ ended'[d] = ended[d]

\* A relay takes a frame from one direction and writes one to another in one step.
ChannelNext == \A d \in Ends : Idle(d) \/ Take(d) \/ Write(d) \/ Cut(d)

ChannelSpec == ChannelInit /\ [][ChannelNext]_channelVars
=============================================================================
