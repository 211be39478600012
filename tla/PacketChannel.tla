--------------------------- MODULE PacketChannel ---------------------------
(* What the socket between a client (or dectproxy) and dectmngr promises:  *)
(* packets are handled one at a time, each once, in the order sent.        *)
EXTENDS Naturals, Sequences

CONSTANT Packet

VARIABLES sent, handled

Init == sent = << >> /\ handled = << >>

Send == /\ \E p \in Packet : sent' = Append(sent, p)
        /\ UNCHANGED handled

Handle == /\ Len(handled) < Len(sent)
          /\ handled' = Append(handled, sent[Len(handled) + 1])
          /\ UNCHANGED sent

Spec == Init /\ [][Send \/ Handle]_<<sent, handled>>

(* And no packet waits forever.                                            *)
AllHandled == <>[](Len(handled) = Len(sent))
=============================================================================
