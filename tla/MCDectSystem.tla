---------------------------- MODULE MCDectSystem ----------------------------
(* Small instances of DectSystem for TLC.                                  *)
EXTENDS DectSystem, TLC

MCCommand(type, data) == [type |-> type, data |-> data]
MCCommands == {"REGISTRATION", "PING_HSET", "RADIO", "RELOAD_CONFIG",
               "DELETE_HSET", "LIST_HANDSETS"}
MCFiles == [cfg : {"on", "off", "auto"}, dev : {"ok"}]
MCNoFiles == [cfg : {"on"}, dev : {"ok"}]
MCTimers == [list |-> 6, start |-> 6, stop |-> 6, ping |-> 6]

(* Everything that moves the radio, the window and the table, and a ping.  *)
MCSwitching == {MCCommand("REGISTRATION", 0), MCCommand("RADIO", 0),
                MCCommand("RADIO", 1), MCCommand("RELOAD_CONFIG", 0),
                MCCommand("DELETE_HSET", 2), MCCommand("LIST_HANDSETS", 0),
                MCCommand("PING_HSET", 2)}

(* No handset is registered, or the second is: the reference of its call   *)
(* is not the one that stands for a call that is not confirmed.            *)
MCNone == [h \in Handset |-> NoIpui]
MCPaired == {MCNone} \cup {[MCNone EXCEPT ![2] = i] : i \in Ipuis}
MCUnpaired == {MCNone}

(* Identities are interchangeable.                                         *)
MCSymmetry == Permutations(Ipuis)

(* No one changes the configuration; users may override it, or do not.     *)
MCPlain == {MCCommand("REGISTRATION", 0), MCCommand("LIST_HANDSETS", 0),
            MCCommand("DELETE_HSET", 1), MCCommand("PING_HSET", 1)}
MCOverriding == MCPlain \cup {MCCommand("RADIO", 0), MCCommand("RADIO", 1)}
=============================================================================
