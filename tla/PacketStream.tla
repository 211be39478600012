---------------------------- MODULE PacketStream ----------------------------
(* The framing of packets on a socket of dectmngr: packet_read             *)
(* (src/dectmngr.c), the callback libevent runs whenever bytes have        *)
(* arrived.  TCP keeps the bytes in order and cuts them anywhere, and      *)
(* libevent moves any number of them to the input buffer before it calls.  *)
(*                                                                         *)
(* A packet is a header, with the size of the whole, and a body.  One byte *)
(* is [packet, at]: which packet sent it belongs to, and where it is in it.*)
EXTENDS Naturals, Sequences

CONSTANTS
  Packet,     \* packets
  Size,       \* Size[p]: bytes of p, header included
  HeaderSize, \* sizeof(packet_header_t)
  Garbage,    \* what is handled if a header is looked for in a wrong place
  MaxSent     \* bound: packets sent

ASSUME StreamAssumption ==
  /\ HeaderSize \in Nat \ {0} /\ Garbage \notin Packet
  /\ Size \in [Packet -> Nat]
  /\ \A p \in Packet : Size[p] > HeaderSize
  /\ MaxSent \in Nat

VARIABLES
  sent,     \* the packets sent
  wire,     \* bytes sent that libevent has not read from the socket
  input,    \* the input buffer of the connection
  size,     \* info->pkt->size: 0, or that of the packet being read
  reading,  \* packet_read is in its loop
  handled   \* the packets given to the handlers

vars == <<sent, wire, input, size, reading, handled>>

Bytes(p, n) == [i \in 1 .. Size[p] |-> [packet |-> p, nr |-> n, at |-> i]]

Init ==
  /\ sent = << >> /\ wire = << >> /\ input = << >>
  /\ size = 0 /\ reading = FALSE /\ handled = << >>

Send(p) ==
  /\ Len(sent) < MaxSent
  /\ sent' = Append(sent, p)
  /\ wire' = wire \o Bytes(p, Len(sent) + 1)
  /\ UNCHANGED <<input, size, reading, handled>>

(* libevent reads n bytes and calls packet_read.                           *)
Arrive(n) ==
  /\ ~reading
  /\ input' = input \o SubSeq(wire, 1, n)
  /\ wire' = SubSeq(wire, n + 1, Len(wire))
  /\ reading' = TRUE
  /\ UNCHANGED <<sent, size, handled>>

HasHeader == size = 0 /\ Len(input) >= HeaderSize

(* What the buffer starts with: the size in the header, the bytes behind   *)
(* the header, and the packet made of the first sz bytes.                  *)
SizeIn(buf) == Size[buf[1].packet]
Behind(buf, n) == SubSeq(buf, n + 1, Len(buf))
Parsed(bytes) ==
  IF bytes = Bytes(bytes[1].packet, bytes[1].nr) THEN bytes[1].packet
  ELSE Garbage

HasBody(sz, rest) == Len(rest) >= sz - HeaderSize

(* Slip: the loop is left after one packet.                                *)
Iterate_once ==
  LET sz   == SizeIn(input)
      rest == Behind(input, HeaderSize)
  IN /\ reading /\ HasHeader /\ HasBody(sz, rest)
     /\ handled' = Append(handled, Parsed(SubSeq(input, 1, sz)))
     /\ input' = Behind(rest, sz - HeaderSize)
     /\ size' = 0 /\ reading' = FALSE
     /\ UNCHANGED <<sent, wire>>

(* Slip: the size of the body is taken to be that of the packet.           *)
Iterate_long ==
  LET sz   == SizeIn(input)
      rest == Behind(input, HeaderSize)
  IN /\ reading /\ HasHeader /\ Len(rest) >= sz
     /\ handled' = Append(handled, Parsed(SubSeq(input, 1, sz)))
     /\ input' = Behind(rest, sz)
     /\ size' = 0
     /\ UNCHANGED <<sent, wire, reading>>

(* An iteration that finds a header and the whole body behind it hands     *)
(* over what it took from the buffer, and starts over with a new packet.   *)
Iterate ==
  LET sz   == SizeIn(input)
      rest == Behind(input, HeaderSize)
  IN /\ reading /\ HasHeader /\ HasBody(sz, rest)
     /\ handled' = Append(handled, Parsed(SubSeq(input, 1, sz)))
     /\ input' = Behind(rest, sz - HeaderSize)
     /\ size' = 0
     /\ UNCHANGED <<sent, wire, reading>>

(* One that finds the header only has taken it, and returns.               *)
ReturnWithoutBody ==
  LET sz   == SizeIn(input)
      rest == Behind(input, HeaderSize)
  IN /\ reading /\ HasHeader /\ ~HasBody(sz, rest)
     /\ size' = sz /\ input' = rest /\ reading' = FALSE
     /\ UNCHANGED <<sent, wire, handled>>

(* Slip: the size that was read is not kept.                               *)
ReturnWithoutHeader_reset ==
  /\ reading /\ ~HasHeader
  /\ reading' = FALSE /\ size' = 0
  /\ UNCHANGED <<sent, wire, input, handled>>

(* Any other returns -- also when the header was taken by an earlier call. *)
ReturnWithoutHeader ==
  /\ reading /\ ~HasHeader
  /\ reading' = FALSE
  /\ UNCHANGED <<sent, wire, input, size, handled>>

Next ==
  \/ \E p \in Packet : Send(p)
  \/ \E n \in 1 .. Len(wire) : Arrive(n)
  \/ Iterate \/ ReturnWithoutBody \/ ReturnWithoutHeader

Spec == Init /\ [][Next]_vars

(* TCP delivers and the callback runs.                                     *)
Fairness ==
  /\ WF_vars(\E n \in 1 .. Len(wire) : Arrive(n))
  /\ WF_vars(Iterate \/ ReturnWithoutBody \/ ReturnWithoutHeader)

FairSpec == Spec /\ Fairness

-----------------------------------------------------------------------------
(* Properties.                                                             *)

StreamTypeOK ==
  LET Byte == [packet : Packet, nr : 1 .. MaxSent, at : Nat]
  IN /\ sent \in Seq(Packet) /\ Len(sent) <= MaxSent
     /\ wire \in Seq(Byte) /\ input \in Seq(Byte)
     /\ size \in {0} \cup {Size[p] : p \in Packet}
     /\ reading \in BOOLEAN
     /\ handled \in Seq(Packet)

Channel == INSTANCE PacketChannel

(* However the bytes are cut, packets are handled in order, each once and  *)
(* never in pieces: packet_read never loses its place in the stream.       *)
ImplementsChannel == Channel!Spec

(* A callback that has not stopped inside a packet leaves no header behind *)
(* in the buffer: all packets that came together are handled together.     *)
NothingLeftBehind == ~reading /\ size = 0 => Len(input) < HeaderSize

(* If no read ends between a header and the end of its body, no packet     *)
(* waits forever.                                                          *)
HandledUnlessCut == [](size = 0) => Channel!AllHandled

(* Expected to fail.  "Is there an entire packet in the buffer?"           *)
(* (dectmngr.c:1080): packet_read does not return while there is.  It does *)
(* when the header was taken by an earlier call.                           *)
EntirePacketHandled ==
  ~reading /\ size # 0 => Len(input) < size - HeaderSize
=============================================================================
