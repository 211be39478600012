--------------------------- MODULE MCPacketStream ---------------------------
(* A small instance of PacketStream: a short and a long packet.            *)
EXTENDS PacketStream

MCSize == [p \in Packet |-> IF p = "short" THEN 3 ELSE 5]
=============================================================================
