---------------------------- MODULE MCDectClient ----------------------------
(* A small instance of DectClient for TLC.                                 *)
EXTENDS DectClient

Opt(o) == [opt |-> o, arg |-> 0]
With(o, n) == [opt |-> o, arg |-> n]

(* The first invocation repeats an option and lists twice; the second      *)
(* changes the registration meanwhile, gives a number that does not fit a  *)
(* byte, or makes the daemon read a file whose absence ends it.            *)
MCCommandLines ==
  [c \in {"first", "second"} |->
     IF c = "first"
     THEN {<<With("p", 1), With("b", 1), With("p", 2), Opt("s"), Opt("j")>>}
     ELSE {<<Opt("r")>>, <<With("x", 256)>>, <<Opt("j"), Opt("i")>>}]

MCCommands == {PacketType[o] : o \in DOMAIN PacketType}
MCFiles == {[cfg |-> "off", dev |-> "ok"], [cfg |-> "bad", dev |-> "no_nvs"]}
MCTimers == [list |-> 1, start |-> 1, stop |-> 1, ping |-> 2]
MCIdLists == {<<1, 2, 3>>}
MCStackPackets == {Packet("DELETE_REGISTRATION_CFM", 1)}
=============================================================================
