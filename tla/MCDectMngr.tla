----------------------------- MODULE MCDectMngr -----------------------------
(* Small instances of DectMngr for TLC.                                    *)
EXTENDS DectMngr

MCIdLists == {<< >>, <<1>>, <<1, 3>>, <<2>>}
MCFiles == [cfg : {"on", "off", "auto", "bad"}, dev : {"ok"}]
MCCommands == {"REGISTRATION", "PING_HSET", "RADIO", "RELOAD_CONFIG",
               "LIST_HANDSETS", "DELETE_HSET", "BUTTON"}
MCTimers == [list |-> 1, start |-> 1, stop |-> 2, ping |-> 2]
=============================================================================
