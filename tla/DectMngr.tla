------------------------------ MODULE DectMngr ------------------------------
(***************************************************************************)
(* dectmngr, the DECT manager daemon (src/dectmngr.c).  It runs one        *)
(* libevent loop, so a callback -- a packet from the DECT stack, a packet  *)
(* from a client, an expired timer -- runs to its end before the next one. *)
(*                                                                         *)
(* The globals of the program are the fields of one record, and every C    *)
(* function is an operator of the same name from the record before the     *)
(* call to the record after it: a call made in the middle of a C function  *)
(* is an application in the middle of the operator.                        *)
(*                                                                         *)
(* This module is open: the stack and the clients may send any packet at   *)
(* any time, and armed timers expire in any order except that two timers   *)
(* of one kind, which have the same period, expire in the order they were  *)
(* armed.  DectSystem closes it with a model of the stack.                 *)
(***************************************************************************)
EXTENDS Naturals, Sequences, TLC

CONSTANTS
  MaxNrHandsets,  \* MAX_NR_HANDSETS: the length of the handset table
  Terminals,      \* terminal ids the stack may name, in the table or not
  IdLists,        \* lists of terminal ids a registration count may carry
  Ipuis, NoIpui,  \* handset identities, and the zeroes of an unset one
  Commands, Data, \* types of client packets, and values of their data byte
  Files,          \* what the daemon can find in its files: [cfg, dev]
  MaxTimers       \* bound: timers armed at a time, by kind

DISABLED == "DISABLED"
DELAYED_START == "DELAYED_START"
ENABLED_ == "ENABLED"
AUTO == "AUTO"

Handset == 1 .. MaxNrHandsets

ASSUME MngrAssumption ==
  /\ MaxNrHandsets \in Nat \ {0}
  /\ Terminals \subseteq Nat
  /\ IdLists \subseteq Seq(Nat)
  /\ Data \subseteq 0 .. 255
  /\ Files \subseteq [cfg : {"on", "off", "auto", "bad"},
                      dev : {"ok", "no_shim", "no_nvs"}]
  /\ MaxTimers \in [{"list", "start", "stop", "ping"} -> Nat]

VARIABLE mngr

Hset == [registered : BOOLEAN, present : BOOLEAN, pinging : BOOLEAN,
         ipui : Ipuis \cup {NoIpui}]

(* What dectmngr writes to the stack: one primitive and one argument.      *)
RequestPrims ==
  {"START_PROTOCOL_REQ", "STOP_PROTOCOL_REQ", "CC_FEATURES_REQ",
   "GET_REGISTRATION_COUNT_REQ", "GET_HANDSET_IPUI_REQ", "LINUX_INIT_REQ",
   "SET_REGISTRATION_MODE_REQ", "DELETE_REGISTRATION_REQ", "CC_SETUP_REQ",
   "CC_RELEASE_REQ", "ULE_INIT_REQ", "ULE_DATA_REQ", "ULE_PVC_CONFIG_RES",
   "ULE_PVC_PENDING_RES", "ULE_PVC_IWU_DATA_REQ"}

Request == [prim : RequestPrims, arg : Nat]

(* status, config, CallReference and switch_state_on are the globals;      *)
(* CallReference keeps the Fp instance.  led is the last action given to   *)
(* the hotplug script, the four timer fields are the armed one-shot        *)
(* events, out is what the running callback has written to dectproxy, up   *)
(* is FALSE once the process has exited.  override is a history field: the *)
(* radio was last switched by a RADIO command.                             *)
State == [config          : {DISABLED, ENABLED_, AUTO},
          dect_init       : BOOLEAN,
          reg_mode        : {DISABLED, DELAYED_START, ENABLED_},
          radio           : {DISABLED, ENABLED_},
          handset         : [Handset -> Hset],
          CallReference   : Nat,
          switch_state_on : {0, 1},
          led             : {"none", "led_on", "led_off", "led_blink"},
          listTimers      : Nat,
          startTimers     : Nat,
          stopTimers      : Nat,
          pingTimers      : Seq(Handset),
          out             : Seq(Request),
          up              : BOOLEAN,
          override        : BOOLEAN]

(* init_status and the start of run: the configuration has been read and   *)
(* nothing has been sent.                                                  *)
init_status(radio) ==
  [config |-> radio, dect_init |-> FALSE, reg_mode |-> DISABLED,
   radio |-> DISABLED,
   handset |-> [h \in Handset |-> [registered |-> FALSE, present |-> FALSE,
                                   pinging |-> FALSE, ipui |-> NoIpui]],
   CallReference |-> 0, switch_state_on |-> 1, led |-> "none",
   listTimers |-> 0, startTimers |-> 0, stopTimers |-> 0,
   pingTimers |-> << >>, out |-> << >>, up |-> TRUE, override |-> FALSE]

exit_failure(s) == [s EXCEPT !.up = FALSE]

bad_handsetnr(h) == h \notin Handset

-----------------------------------------------------------------------------
(* Helpers: radio, LED, list of handsets.  A definition that a comment     *)
(* calls a slip is a mistake the properties catch when it stands in for    *)
(* the one below it; no specification uses it.                             *)

write_dect(s, prim, arg) ==
  [s EXCEPT !.out = Append(@, [prim |-> prim, arg |-> arg])]

Led(radio, reg_mode) ==
  IF radio # ENABLED_ THEN "led_off"
  ELSE IF reg_mode = ENABLED_ THEN "led_blink" ELSE "led_on"

control_led(s) == [s EXCEPT !.led = Led(s.radio, s.reg_mode)]

start_protocol(s) ==
  control_led([write_dect(s, "START_PROTOCOL_REQ", 0)
                 EXCEPT !.radio = ENABLED_, !.override = FALSE])

(* Slip: the stack is not told.                                            *)
stop_protocol_slip(s) ==
  control_led([s EXCEPT !.radio = DISABLED, !.override = FALSE])

stop_protocol(s) ==
  control_led([write_dect(s, "STOP_PROTOCOL_REQ", 0)
                 EXCEPT !.radio = DISABLED, !.override = FALSE])

dect_radio(s, enable) ==
  IF enable /\ s.radio = DISABLED THEN start_protocol(s)
  ELSE IF ~enable /\ s.radio = ENABLED_ THEN stop_protocol(s)
  ELSE s

init_cfm(s) ==
  [write_dect(s, "CC_FEATURES_REQ", 0) EXCEPT !.dect_init = TRUE]

(* Slip: the event is made but not added.                                  *)
list_handsets_schedule_slip(s) == s

list_handsets_schedule(s) == [s EXCEPT !.listTimers = @ + 1]

list_handsets(s) == write_dect(s, "GET_REGISTRATION_COUNT_REQ", 0)

AnyRegistered(s) == \E h \in Handset : s.handset[h].registered

(* Slip: the mode of the configuration is not looked at.                   *)
perhaps_disable_protocol_slip(s) ==
  control_led(dect_radio(s, AnyRegistered(s)))

perhaps_disable_protocol(s) ==
  control_led(IF s.config = AUTO THEN dect_radio(s, AnyRegistered(s)) ELSE s)

CfgRadio(word) ==
  CASE word = "on" -> ENABLED_ [] word = "off" -> DISABLED [] OTHER -> AUTO

(* An option that is missing or spelled otherwise ends the process.        *)
reload_config(s, cfg) ==
  IF cfg = "bad" THEN exit_failure(s)
  ELSE LET t == [s EXCEPT !.config = CfgRadio(cfg)]
       IN CASE t.config = ENABLED_ ->
                 list_handsets_schedule(dect_radio(t, TRUE))
            [] t.config = AUTO     -> init_cfm(t)
            [] t.config = DISABLED -> dect_radio(t, FALSE)

(* The stack is loaded with the contents of the nvs file; without the      *)
(* device nothing is sent, without the file the process exits.             *)
dect_init(s, dev) ==
  CASE dev = "no_shim" -> s
    [] dev = "no_nvs"  -> exit_failure(s)
    [] dev = "ok"      -> write_dect(s, "LINUX_INIT_REQ", 0)

ule_start(s) == write_dect(s, "ULE_INIT_REQ", 0)

ule_pvc_config_ind(s, id) == write_dect(s, "ULE_PVC_CONFIG_RES", id)

ule_pvc_data_pending_ind(s, id) == write_dect(s, "ULE_PVC_PENDING_RES", id)

(* The data is echoed to the terminal, which is then paged.                *)
ule_pvc_data_iwu_ind(s, id) ==
  write_dect(write_dect(s, "ULE_PVC_IWU_DATA_REQ", id),
             "ULE_PVC_PENDING_RES", id)

(* Only the values 0 and 1 are remembered as the state of the switch.      *)
ule_data_req(s, switch_on) ==
  [write_dect(s, "ULE_DATA_REQ", switch_on) EXCEPT
     !.switch_state_on = IF switch_on \in {0, 1} THEN switch_on ELSE @]

-----------------------------------------------------------------------------
(* Registration.                                                           *)

register_handsets_start(s) ==
  IF s.radio = ENABLED_
  THEN write_dect(control_led([s EXCEPT !.reg_mode = ENABLED_]),
                  "SET_REGISTRATION_MODE_REQ", 1)
  ELSE s

(* Slip: the mode is left as it is.                                        *)
register_handsets_stop_unset(s) ==
  IF s.radio = ENABLED_
  THEN write_dect(control_led(s), "SET_REGISTRATION_MODE_REQ", 0)
  ELSE control_led(s)

(* Slip: the LED is set before the mode.                                   *)
register_handsets_stop_slip(s) ==
  LET t == [control_led(s) EXCEPT !.reg_mode = DISABLED]
  IN IF t.radio = ENABLED_
     THEN write_dect(t, "SET_REGISTRATION_MODE_REQ", 0)
     ELSE t

register_handsets_stop(s) ==
  LET t == control_led([s EXCEPT !.reg_mode = DISABLED])
  IN IF t.radio = ENABLED_
     THEN write_dect(t, "SET_REGISTRATION_MODE_REQ", 0)
     ELSE t

registration(s) ==
  IF s.config = DISABLED THEN s
  ELSE IF s.radio = DISABLED
  THEN [dect_radio(s, TRUE) EXCEPT !.reg_mode = DELAYED_START,
                                   !.startTimers = @ + 1]
  ELSE IF s.reg_mode # ENABLED_
  THEN [register_handsets_start(s) EXCEPT !.stopTimers = @ + 1]
  ELSE s

(* Slip: the window is opened directly, without its timer.                 *)
registration_delayed_start_slip(s) ==
  IF s.reg_mode = DELAYED_START THEN register_handsets_start(s) ELSE s

(* Slip: the wrong mode is asked for.                                      *)
registration_delayed_start_never(s) ==
  IF s.reg_mode = ENABLED_ THEN registration(s) ELSE s

registration_delayed_start(s) ==
  IF s.reg_mode = DELAYED_START THEN registration(s) ELSE s

(* Slip: the primitive of the ULE API is used.                             *)
delete_hset_slip(s, h) ==
  IF s.dect_init THEN write_dect(s, "ULE_DELETE_REGISTRATION_REQ", h) ELSE s

delete_hset(s, h) ==
  IF s.dect_init THEN write_dect(s, "DELETE_REGISTRATION_REQ", h) ELSE s

-----------------------------------------------------------------------------
(* Pinging a handset.                                                      *)

(* Until the call is confirmed the reference is 1, whoever is called.      *)
ping_handset_start(s, h) ==
  write_dect([s EXCEPT !.CallReference = 1], "CC_SETUP_REQ", h)

(* Slip: the number from the client is not checked.                        *)
ping_handset_slip(s, h) ==
  IF s.config = DISABLED THEN s
  ELSE [ping_handset_start([s EXCEPT !.handset = [x \in DOMAIN @ |->
                              IF x = h THEN [@[x] EXCEPT !.pinging = TRUE]
                              ELSE @[x]]], h)
          EXCEPT !.pingTimers = Append(@, h)]

ping_handset(s, h) ==
  IF bad_handsetnr(h) \/ s.config = DISABLED THEN s
  ELSE [ping_handset_start([s EXCEPT !.handset[h].pinging = TRUE], h)
          EXCEPT !.pingTimers = Append(@, h)]

(* Slip: the table is indexed from 0 in one place and from 1 in another.   *)
ping_handset_stop_slip(s, h) ==
  IF ~bad_handsetnr(h) /\ s.handset[h].pinging
  THEN write_dect([s EXCEPT !.handset = [x \in DOMAIN @ |->
                     IF x = h + 1 THEN [@[x] EXCEPT !.pinging = FALSE]
                     ELSE @[x]]],
                  "CC_RELEASE_REQ", s.CallReference)
  ELSE s

(* The release names whatever call reference was stored last.              *)
ping_handset_stop(s, h) ==
  IF ~bad_handsetnr(h) /\ s.handset[h].pinging
  THEN write_dect([s EXCEPT !.handset[h].pinging = FALSE],
                  "CC_RELEASE_REQ", s.CallReference)
  ELSE s

(* Slip: the reference of the confirmed call is not stored.                *)
setup_cfm_slip(s, ref) == s

setup_cfm(s, ref) == [s EXCEPT !.CallReference = ref]

(* The Fp instance of the call is taken for the handset.                   *)
connect_ind(s, ref) ==
  IF bad_handsetnr(ref) THEN s ELSE [s EXCEPT !.handset[ref].pinging = FALSE]

-----------------------------------------------------------------------------
(* The table of handsets.                                                  *)

present_ind(s, h) ==
  IF bad_handsetnr(h) THEN s ELSE [s EXCEPT !.handset[h].present = TRUE]

(* Slip: only the presence is cleared.                                     *)
delete_registration_cfm_slip(s, h) ==
  IF bad_handsetnr(h) THEN s ELSE [s EXCEPT !.handset[h].present = FALSE]

delete_registration_cfm(s, h) ==
  IF bad_handsetnr(h) THEN s
  ELSE [s EXCEPT !.handset[h].registered = FALSE, !.handset[h].present = FALSE]

get_handset_ipui(s, h) == write_dect(s, "GET_HANDSET_IPUI_REQ", h)

(* The ids up to the first that is out of range; the loop returns there.   *)
GoodPrefix(ids) ==
  {i \in 1 .. Len(ids) : \A j \in 1 .. i : ~bad_handsetnr(ids[j])}

MarkRegistered(s, ids) ==
  [s EXCEPT !.handset = [h \in Handset |->
     IF \E i \in GoodPrefix(ids) : ids[i] = h
     THEN [s.handset[h] EXCEPT !.registered = TRUE] ELSE s.handset[h]]]

(* Slip: an identity that is there is not asked for again.                 *)
registration_count_cfm_slip(s, ok, ids) ==
  LET t == MarkRegistered(s, ids)
  IN IF ~ok THEN s
     ELSE IF GoodPrefix(ids) # 1 .. Len(ids) THEN t
     ELSE IF ids # << >>
     THEN IF s.handset[ids[1]].ipui # NoIpui THEN t ELSE get_handset_ipui(t, ids[1])
     ELSE perhaps_disable_protocol(t)

(* TerminalId[0] of a reply that lists no terminal is 0.                   *)
registration_count_cfm(s, ok, ids) ==
  LET t == MarkRegistered(s, ids)
  IN IF ~ok THEN s
     ELSE IF GoodPrefix(ids) # 1 .. Len(ids) THEN t
     ELSE IF ids # << >> THEN get_handset_ipui(t, ids[1])
     ELSE perhaps_disable_protocol(t)

(* Past the last handset the code reads handset[MAX_NR_HANDSETS], the byte *)
(* of padding that ends struct status_packet (11 + 8 * MAX_NR_HANDSETS is  *)
(* 3 modulo 4).  init_status cleared it and nothing writes it.             *)
IsRegistered(s, h) == h \in Handset /\ s.handset[h].registered

handset_ipui_cfm(s, h, ipui) ==
  LET t == [s EXCEPT !.handset[h].ipui = ipui]
  IN IF bad_handsetnr(h) THEN s
     ELSE IF IsRegistered(t, h + 1) THEN get_handset_ipui(t, h + 1)
     ELSE perhaps_disable_protocol(t)

-----------------------------------------------------------------------------
(* Dispatch.                                                               *)

(* A packet of the stack: id is the terminal id, or the Fp instance of the *)
(* call reference; ids, ok and ipui are used by the replies that have them.*)
Prims == {"LINUX_INIT_CFM", "CC_FEATURES_CFM", "GET_REGISTRATION_COUNT_CFM",
          "GET_HANDSET_IPUI_CFM", "SET_REGISTRATION_MODE_CFM",
          "REGISTRATION_COMPLETE_IND", "HANDSET_PRESENT_IND",
          "DELETE_REGISTRATION_CFM", "CC_SETUP_CFM", "CC_CONNECT_IND",
          "ULE_PVC_CONFIG_IND", "ULE_PVC_PENDING_IND", "ULE_PVC_IWU_DATA_IND",
          "printed_only"}

Packet(prim, id) ==
  [prim |-> prim, id |-> id, ids |-> << >>, ok |-> TRUE, ipui |-> NoIpui]

NamesTerminal == {"GET_HANDSET_IPUI_CFM", "HANDSET_PRESENT_IND",
                  "DELETE_REGISTRATION_CFM", "CC_SETUP_CFM", "CC_CONNECT_IND"}

Packets ==
  [prim : Prims \ NamesTerminal, id : {0}, ids : {<< >>}, ok : {TRUE},
   ipui : {NoIpui}]
  \cup [prim : NamesTerminal, id : Terminals, ids : {<< >>}, ok : {TRUE},
        ipui : Ipuis]
  \cup [prim : {"GET_REGISTRATION_COUNT_CFM"}, id : {0}, ids : IdLists,
        ok : BOOLEAN, ipui : {NoIpui}]

(* Slip: the test is the wrong way round.                                  *)
ListUnlessRegistering_slip(s) ==
  IF s.reg_mode # DISABLED THEN init_cfm(s) ELSE s

ListUnlessRegistering(s) == IF s.reg_mode = DISABLED THEN init_cfm(s) ELSE s

(* Slip: the radio is switched on whatever the configuration says.         *)
features_cfm_slip(s) == list_handsets(dect_radio(s, TRUE))

features_cfm(s) ==
  list_handsets(IF s.config = ENABLED_ THEN dect_radio(s, TRUE) ELSE s)

handle_dect_packet(s, p) ==
  CASE p.prim = "LINUX_INIT_CFM"  -> ule_start(init_cfm(s))
    [] p.prim = "CC_FEATURES_CFM" -> features_cfm(s)
    [] p.prim = "GET_REGISTRATION_COUNT_CFM" ->
         registration_count_cfm(s, p.ok, p.ids)
    [] p.prim = "GET_HANDSET_IPUI_CFM" -> handset_ipui_cfm(s, p.id, p.ipui)
    [] p.prim = "SET_REGISTRATION_MODE_CFM" -> ListUnlessRegistering(s)
    [] p.prim = "REGISTRATION_COMPLETE_IND" -> register_handsets_stop(s)
    [] p.prim = "HANDSET_PRESENT_IND" ->
         ListUnlessRegistering(present_ind(s, p.id))
    [] p.prim = "DELETE_REGISTRATION_CFM" ->
         list_handsets_schedule(delete_registration_cfm(s, p.id))
    [] p.prim = "CC_SETUP_CFM"   -> setup_cfm(s, p.id)
    [] p.prim = "CC_CONNECT_IND" -> connect_ind(s, p.id)
    [] p.prim = "ULE_PVC_CONFIG_IND"   -> ule_pvc_config_ind(s, p.id)
    [] p.prim = "ULE_PVC_PENDING_IND"  -> ule_pvc_data_pending_ind(s, p.id)
    [] p.prim = "ULE_PVC_IWU_DATA_IND" -> ule_pvc_data_iwu_ind(s, p.id)
    [] OTHER -> s

ClientPacket == [type : Commands, data : Data]

(* GET_STATUS copies the status to the client and changes nothing.         *)
handle_client_packet(s, c, files) ==
  CASE c.type = "REGISTRATION"  -> registration(s)
    [] c.type = "PING_HSET"     -> ping_handset(s, c.data)
    [] c.type = "ZWITCH"        -> ule_data_req(s, c.data)
    [] c.type = "RADIO"         ->
         LET t == dect_radio(s, c.data # 0)
         IN [t EXCEPT !.override = @ \/ t.radio # s.radio]
    [] c.type = "RELOAD_CONFIG" -> reload_config(s, files.cfg)
    [] c.type = "DELETE_HSET"   -> delete_hset(s, c.data)
    [] c.type = "LIST_HANDSETS" -> init_cfm(s)
    [] c.type = "ULE_START"     -> ule_start(s)
    [] c.type = "INIT"          -> dect_init(s, files.dev)
    [] c.type = "BUTTON"        ->
         IF c.data # 0 /\ s.config \in {ENABLED_, AUTO}
         THEN registration(s) ELSE s
    [] OTHER -> s

(* The four timer callbacks, each on the state with its timer disarmed.    *)
list_expired(s) == init_cfm([s EXCEPT !.listTimers = @ - 1])
start_expired(s) ==
  registration_delayed_start([s EXCEPT !.startTimers = @ - 1])
stop_expired(s) == register_handsets_stop([s EXCEPT !.stopTimers = @ - 1])
ping_expired(s) ==
  ping_handset_stop([s EXCEPT !.pingTimers = Tail(@)], Head(s.pingTimers))

-----------------------------------------------------------------------------
(* The open daemon.  What a callback wrote leaves with the callback.       *)

Sent(s) == [s EXCEPT !.out = << >>]

WithinBounds(s) ==
  /\ s.listTimers <= MaxTimers.list /\ s.startTimers <= MaxTimers.start
  /\ s.stopTimers <= MaxTimers.stop /\ Len(s.pingTimers) <= MaxTimers.ping

Callback(s) == mngr.up /\ WithinBounds(s) /\ mngr' = Sent(s)

Init == \E radio \in {DISABLED, ENABLED_, AUTO} : mngr = init_status(radio)

DectPacket == \E p \in Packets : Callback(handle_dect_packet(mngr, p))
Client == \E c \in ClientPacket, f \in Files :
            Callback(handle_client_packet(mngr, c, f))
ListTimeout == mngr.listTimers > 0 /\ Callback(list_expired(mngr))
StartTimeout == mngr.startTimers > 0 /\ Callback(start_expired(mngr))
StopTimeout == mngr.stopTimers > 0 /\ Callback(stop_expired(mngr))
PingTimeout == mngr.pingTimers # << >> /\ Callback(ping_expired(mngr))

Next == DectPacket \/ Client \/ ListTimeout \/ StartTimeout \/ StopTimeout
          \/ PingTimeout

Spec == Init /\ [][Next]_mngr

-----------------------------------------------------------------------------
(* Properties.                                                             *)

(* The globals keep their types, whatever the stack and the clients send. *)
TypeOK == mngr \in State

(* Registration is never left open without a timer that will close it.     *)
WindowHasTimer == mngr.reg_mode = ENABLED_ => mngr.stopTimers > 0

(* A handset shown as pinging has a timer that will stop the ping.         *)
PingHasTimer ==
  \A h \in Handset : mngr.handset[h].pinging =>
    \E i \in 1 .. Len(mngr.pingTimers) : mngr.pingTimers[i] = h

(* The LED shows the radio and the registration mode.  Two exceptions:     *)
(* before the first call of control_led, and when registration is asked    *)
(* for again after the radio went off under an open window: the radio is   *)
(* switched on (LED blinking) before reg_mode becomes DELAYED_START.       *)
LedShowsStatus ==
  \/ mngr.led = Led(mngr.radio, mngr.reg_mode)
  \/ mngr.led = "none" /\ mngr.radio = DISABLED /\ mngr.reg_mode = DISABLED
  \/ mngr.led = "led_blink" /\ mngr.radio = ENABLED_
       /\ mngr.reg_mode = DELAYED_START

(* With the radio off in the configuration, only a RADIO command can have  *)
(* switched it on: no packet, timer or button does.                        *)
ConfigGatesRadio ==
  mngr.config = DISABLED /\ mngr.radio = ENABLED_ => mngr.override

(* The radio goes off for three reasons only: a RADIO command, the         *)
(* configuration, or auto mode with no handset registered.                 *)
RadioOffHasReason ==
  [][mngr.radio = ENABLED_ /\ mngr'.radio = DISABLED =>
       \/ mngr'.override
       \/ mngr'.config = DISABLED
       \/ mngr'.config = AUTO /\ ~AnyRegistered(mngr')]_mngr

(* Expected to fail.  "After the radio has been enabled, trigger start of  *)
(* registration" (dectmngr.c:901): a delayed start is under way.  A reload *)
(* to "off" leaves it without a timer when registration returns early.     *)
DelayedStartArmed == mngr.reg_mode = DELAYED_START => mngr.startTimers > 0

(* Expected to fail.  "Start registration and arm a timer for possible     *)
(* timeout" (dectmngr.c:908): the timer that closes a window is the one    *)
(* armed for it, the last one, and not that of an earlier window.          *)
OwnTimerClosesWindow ==
  [][StopTimeout /\ mngr.reg_mode = ENABLED_ => mngr.stopTimers = 1]_mngr
=============================================================================
