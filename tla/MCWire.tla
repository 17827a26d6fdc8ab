------------------------------- MODULE MCWire --------------------------------
(* Two clients, one worker, connections smaller than a frame. *)
EXTENDS Wire

Asks(type, sizes, lead, checked) ==
  {[lead |-> lead, type |-> type, size |-> n, checked |-> checked] : n \in sizes}
EmptyFrame == <<0, 0>>

\* The first client's request: at the payload limit after an empty frame, one byte above
\* it, at what its send_frame refuses, of another version, and one from a client without
\* our frame limit.  The second client's keeps the worker busy.
MCWishes ==
  [c \in {1, 2} |->
     IF c = 1 THEN Asks(ReplayInstruct, {2}, EmptyFrame, TRUE) \cup Asks(ReplayInstruct, {3, 4}, << >>, TRUE)
                     \cup Asks(0, {1}, << >>, TRUE) \cup Asks(ReplayInstruct, {4}, << >>, FALSE)
     ELSE Asks(ReplayInstruct, {1}, << >>, TRUE)]
=============================================================================
