----------------------------- MODULE DectSystem -----------------------------
(* dectmngr (module DectMngr) closed with the DECT stack behind dectproxy. *)
(* Requests and packets travel in order, each whole, on a link that loses  *)
(* nothing: toStack and fromStack.  The stack is external: it is what the  *)
(* handlers of dectmngr.c expect of it.  It answers requests one at a time *)
(* and in order, and meanwhile handsets register, announce themselves and  *)
(* answer calls over the air.                                              *)
EXTENDS DectMngr, FiniteSets

CONSTANTS
  UserCommands,   \* the client packets that users send
  Configs,        \* values of the radio option at start
  Paired,         \* what the stack may know at start: identities by number
  MaxCommands,    \* bound: client packets
  MaxAir          \* bound: events over the air

ASSUME SystemAssumption ==
  /\ UserCommands \subseteq ClientPacket
  /\ Configs \subseteq {DISABLED, ENABLED_, AUTO}
  /\ NoIpui \notin Ipuis
  /\ Paired \subseteq [Handset -> Ipuis \cup {NoIpui}]
  /\ MaxCommands \in Nat /\ MaxAir \in Nat

VARIABLES
  toStack, fromStack,
  stack,          \* [on, open, ident, ringing]: see SystemTypeOK
  commands, air,  \* client packets and events over the air so far
  listed,         \* history: handsets shown as registered since they registered
  crossed         \* history: two pings, or a ping and a timer, have crossed

vars == <<mngr, toStack, fromStack, stack, commands, air, listed, crossed>>

-----------------------------------------------------------------------------
(* The stack.                                                              *)

(* The numbers under which handsets are registered.                        *)
Known == {h \in Handset : stack.ident[h] # NoIpui}

(* The list that names each member of S once, the lowest first.            *)
Ascending(S) ==
  {ids \in [1 .. Cardinality(S) -> S] :
     \A i, j \in 1 .. Cardinality(S) : i < j => ids[i] < ids[j]}

Counted(ids) == [Packet("GET_REGISTRATION_COUNT_CFM", 0) EXCEPT !.ids = ids]

IdentityOf(h) == IF h \in Handset THEN stack.ident[h] ELSE NoIpui

Reply(r, ids) ==
  CASE r.prim = "LINUX_INIT_REQ"  -> <<Packet("LINUX_INIT_CFM", 0)>>
    [] r.prim = "CC_FEATURES_REQ" -> <<Packet("CC_FEATURES_CFM", 0)>>
    [] r.prim = "GET_REGISTRATION_COUNT_REQ" -> <<Counted(ids)>>
    [] r.prim = "GET_HANDSET_IPUI_REQ" ->
         <<[Packet("GET_HANDSET_IPUI_CFM", r.arg) EXCEPT
              !.ipui = IdentityOf(r.arg)]>>
    [] r.prim = "SET_REGISTRATION_MODE_REQ" ->
         <<Packet("SET_REGISTRATION_MODE_CFM", 0)>>
    [] r.prim = "DELETE_REGISTRATION_REQ" ->
         <<Packet("DELETE_REGISTRATION_CFM", r.arg)>>
    [] r.prim = "CC_SETUP_REQ" -> <<Packet("CC_SETUP_CFM", r.arg)>>
    [] OTHER -> << >>

(* A deletion may be refused; the confirmation is sent all the same.       *)
Effect(r, refused) ==
  CASE r.prim = "START_PROTOCOL_REQ" -> [stack EXCEPT !.on = TRUE]
    [] r.prim = "STOP_PROTOCOL_REQ"  -> [stack EXCEPT !.on = FALSE]
    [] r.prim = "SET_REGISTRATION_MODE_REQ" ->
         [stack EXCEPT !.open = (r.arg = 1)]
    [] r.prim = "DELETE_REGISTRATION_REQ" ->
         [stack EXCEPT !.ident = [h \in Handset |->
            IF h = r.arg /\ ~refused THEN NoIpui ELSE @[h]]]
    [] r.prim = "CC_SETUP_REQ" ->
         [stack EXCEPT !.ringing = @ \cup (Known \cap {r.arg})]
    [] r.prim = "CC_RELEASE_REQ" -> [stack EXCEPT !.ringing = @ \ {r.arg}]
    [] OTHER -> stack

StackAnswers ==
  /\ toStack # << >>
  /\ \E refused \in BOOLEAN : stack' = Effect(Head(toStack), refused)
  /\ \E ids \in Ascending(Known) :
       fromStack' = fromStack \o Reply(Head(toStack), ids)
  /\ toStack' = Tail(toStack)
  /\ listed' = listed \cap Known'
  /\ UNCHANGED <<mngr, commands, air, crossed>>

OverTheAir(p) ==
  /\ stack.on /\ air < MaxAir
  /\ air' = air + 1
  /\ fromStack' = Append(fromStack, p)
  /\ UNCHANGED <<mngr, toStack, commands, listed, crossed>>

(* A handset, new or deleted before, registers under a free number.        *)
Registers(h) ==
  /\ stack.open /\ h \notin Known
  /\ OverTheAir(Packet("REGISTRATION_COMPLETE_IND", h))
  /\ \E i \in Ipuis \ {stack.ident[g] : g \in Handset} :
       stack' = [stack EXCEPT !.ident[h] = i]

Announces(h) ==
  /\ h \in Known
  /\ OverTheAir(Packet("HANDSET_PRESENT_IND", h))
  /\ UNCHANGED stack

PicksUp(h) ==
  /\ h \in stack.ringing
  /\ OverTheAir(Packet("CC_CONNECT_IND", h))
  /\ stack' = [stack EXCEPT !.ringing = @ \ {h}]

-----------------------------------------------------------------------------
(* The daemon: what a callback writes goes to the stack.                   *)

Step(s) ==
  /\ Callback(s)
  /\ toStack' = toStack \o s.out
  /\ listed' = listed \cup {h \in Known : s.handset[h].registered}
  /\ UNCHANGED stack

Receive ==
  /\ fromStack # << >>
  /\ Step(handle_dect_packet(mngr, Head(fromStack)))
  /\ fromStack' = Tail(fromStack)
  /\ UNCHANGED <<commands, air, crossed>>

(* The link carries packets about a call: before its confirmation, and any. *)
OnTheLink(prims) ==
  \E i \in DOMAIN (toStack \o fromStack) : (toStack \o fromStack)[i].prim \in prims
CallComing == OnTheLink({"CC_SETUP_REQ", "CC_SETUP_CFM"})
CallUnderWay == CallComing \/ OnTheLink({"CC_RELEASE_REQ", "CC_CONNECT_IND"})

Pinging == {h \in Handset : mngr.handset[h].pinging}

(* A ping begins before an earlier one is over.                            *)
PingTooEarly(c) == c.type = "PING_HSET" /\ (Pinging # {} \/ CallUnderWay)

Command ==
  /\ commands < MaxCommands
  /\ \E c \in UserCommands, f \in Files :
       /\ Step(handle_client_packet(mngr, c, f))
       /\ crossed' = (crossed \/ PingTooEarly(c))
  /\ commands' = commands + 1
  /\ UNCHANGED <<fromStack, air>>

ListExpires ==
  /\ mngr.listTimers > 0 /\ Step(list_expired(mngr))
  /\ UNCHANGED <<fromStack, commands, air, crossed>>
StartExpires ==
  /\ mngr.startTimers > 0 /\ Step(start_expired(mngr))
  /\ UNCHANGED <<fromStack, commands, air, crossed>>
StopExpires ==
  /\ mngr.stopTimers > 0 /\ Step(stop_expired(mngr))
  /\ UNCHANGED <<fromStack, commands, air, crossed>>

(* A timer ends the ping of a handset whose call is not yet confirmed.     *)
TimerTooEarly == Head(mngr.pingTimers) \in Pinging /\ CallComing

PingExpires ==
  /\ mngr.pingTimers # << >> /\ Step(ping_expired(mngr))
  /\ crossed' = (crossed \/ TimerTooEarly)
  /\ UNCHANGED <<fromStack, commands, air>>

SystemInit ==
  /\ \E radio \in Configs : mngr = init_status(radio)
  /\ \E t \in Paired :
       stack = [on |-> FALSE, open |-> FALSE, ident |-> t, ringing |-> {}]
  /\ toStack = << >> /\ fromStack = << >>
  /\ commands = 0 /\ air = 0 /\ listed = {} /\ crossed = FALSE

SystemNext ==
  \/ StackAnswers \/ Receive \/ Command
  \/ ListExpires \/ StartExpires \/ StopExpires \/ PingExpires
  \/ \E h \in Handset : Registers(h) \/ Announces(h) \/ PicksUp(h)

System == SystemInit /\ [][SystemNext]_vars

(* The loop runs, armed timers expire and the stack answers.  Nothing makes*)
(* a user type a command or a handset do anything.                         *)
Fairness ==
  /\ WF_vars(StackAnswers) /\ WF_vars(Receive)
  /\ WF_vars(ListExpires) /\ WF_vars(StartExpires)
  /\ WF_vars(StopExpires) /\ WF_vars(PingExpires)

FairSystem == System /\ Fairness

-----------------------------------------------------------------------------
(* Safety.                                                                 *)

SystemTypeOK ==
  /\ TypeOK
  /\ toStack \in Seq(Request)
  /\ \A i \in DOMAIN fromStack : fromStack[i].prim \in Prims
  /\ stack \in [on : BOOLEAN, open : BOOLEAN,
                ident : [Handset -> Ipuis \cup {NoIpui}],
                ringing : SUBSET Handset]
  /\ commands \in 0 .. MaxCommands /\ air \in 0 .. MaxAir
  /\ listed \subseteq Known /\ crossed \in BOOLEAN

(* Of the requests q the i-th is the last one with a primitive in prims.   *)
IsLast(q, i, prims) ==
  /\ i \in DOMAIN q /\ q[i].prim \in prims
  /\ \A j \in DOMAIN q : j > i => q[j].prim \notin prims

Switches == {"START_PROTOCOL_REQ", "STOP_PROTOCOL_REQ"}
Modes == {"SET_REGISTRATION_MODE_REQ"}

(* Once the stack has worked off its requests it is on exactly when the    *)
(* daemon says so in its status.                                           *)
RadioInStep ==
  LET daemon == mngr.radio = ENABLED_
  IN /\ \A i \in DOMAIN toStack : IsLast(toStack, i, Switches) =>
           daemon = (toStack[i].prim = "START_PROTOCOL_REQ")
     /\ (\A i \in DOMAIN toStack : toStack[i].prim \notin Switches) =>
           daemon = stack.on

(* While the daemon shows registration as open and the radio as on, the    *)
(* stack lets handsets register once it has worked off its requests: it is *)
(* then open, and it is on.  With the radio off under an open window it    *)
(* keeps the mode for when the radio comes on, and nobody can register:    *)
(* the code lets a RADIO command, a reload or auto mode do that.           *)
WindowIsReal ==
  mngr.reg_mode = ENABLED_ =>
    /\ \A i \in DOMAIN toStack : IsLast(toStack, i, Modes) => toStack[i].arg = 1
    /\ (\A i \in DOMAIN toStack : toStack[i].prim \notin Modes) => stack.open
    /\ mngr.radio = ENABLED_ =>
         /\ \A i \in DOMAIN toStack :
              IsLast(toStack, i, Switches) => toStack[i].prim = "START_PROTOCOL_REQ"
         /\ (\A i \in DOMAIN toStack : toStack[i].prim \notin Switches) => stack.on

(* A handset is shown as registered after the stack has dropped it only    *)
(* until the confirmation of the deletion arrives, whatever listings,      *)
(* deletions and new registrations are under way.                          *)
NoGhostHandset ==
  \A h \in Handset :
    mngr.handset[h].registered /\ h \notin Known =>
      \E i \in DOMAIN fromStack :
        fromStack[i].prim = "DELETE_REGISTRATION_CFM" /\ fromStack[i].id = h

(* Nothing is on the link, and no timer will ask for a listing.            *)
Settled == toStack = << >> /\ fromStack = << >> /\ mngr.listTimers = 0

(* Once things have settled, a registered handset is shown with its own    *)
(* identity and never with that of a handset deleted before it, as far as  *)
(* the chain of queries goes: from the lowest number up to the first gap.  *)
OwnIdentity ==
  LET Queried(h) == \A g \in Handset :
        g <= h /\ (\E k \in Known : k <= g) => mngr.handset[g].registered
  IN Settled =>
       \A h \in Known : Queried(h) => mngr.handset[h].ipui = stack.ident[h]

(* A handset that was listed stays so after everything has settled, also   *)
(* if a deletion was refused: the daemon clears its entry all the same,    *)
(* and the listing it schedules puts it back.                              *)
RefusalIsUndone ==
  Settled => \A h \in listed : mngr.handset[h].registered

(* A handset rings only while the daemon can still stop it, although one   *)
(* global holds the reference for all calls: it is shown as pinging (then  *)
(* PingHasTimer gives it a timer) and the global names its call, or will   *)
(* when the confirmation on the link is handled; or its release is on the  *)
(* link.  Timers that answered pings left behind may expire meanwhile, of  *)
(* this handset or another.  It says nothing any more once a ping has      *)
(* begun before an earlier one was over, or a timer has ended a ping       *)
(* before its call was confirmed: the code then does leave handsets        *)
(* ringing.                                                                *)
RingingIsReleased ==
  ~crossed =>
    \A h \in stack.ringing :
      \/ /\ h \in Pinging
         /\ \/ mngr.CallReference = h
            \/ \E i \in DOMAIN fromStack :
                 fromStack[i].prim = "CC_SETUP_CFM" /\ fromStack[i].id = h
      \/ \E i \in DOMAIN toStack :
           toStack[i].prim = "CC_RELEASE_REQ" /\ toStack[i].arg = h

-----------------------------------------------------------------------------
(* Liveness.                                                               *)

(* A registration window does not stay open.                               *)
WindowEnds == mngr.reg_mode = ENABLED_ ~> mngr.reg_mode # ENABLED_

(* A registration put off until the radio is up does not stay so without a *)
(* reload: its window opens, or the end of an earlier window, by its timer *)
(* or by the report of a registration, drops it (lines 689 and 904).  So   *)
(* it says that the mode ends, not that the window opens.                  *)
DelayedStartEnds ==
  mngr.reg_mode = DELAYED_START ~> mngr.reg_mode # DELAYED_START

(* A ping ends, answered or not, also with several pings at a time.        *)
PingEnds ==
  \A h \in Handset : mngr.handset[h].pinging ~> ~mngr.handset[h].pinging

(* In auto mode the radio ends up on if the daemon knows of a handset and  *)
(* off if not, after any mix of listings, registrations and deletions,     *)
(* unless it was a RADIO command that switched it last.                    *)
AutoRadioSettles ==
  <>[](mngr.config = AUTO /\ ~mngr.override =>
         (mngr.radio = ENABLED_) = AnyRegistered(mngr))

(* A handset whose registration is reported on the link while the radio is *)
(* on comes to be listed, whatever windows follow, unless it is deleted or *)
(* the radio goes off: the code asks for no listing if the radio is off    *)
(* when it handles the report.                                             *)
RegistrationIsListed ==
  LET Reported(h) == \E i \in DOMAIN fromStack :
                       fromStack[i] = Packet("REGISTRATION_COMPLETE_IND", h)
  IN \A h \in Handset :
       (Reported(h) /\ mngr.radio = ENABLED_)
         ~> (mngr.handset[h].registered \/ h \notin Known \/ mngr.radio # ENABLED_)

-----------------------------------------------------------------------------
(* Expected to fail.                                                       *)

(* "When the radio is set to auto mode we turn it off if we have no        *)
(* registered handsets" (dectmngr.c:246): not if the stack has one.        *)
AutoKeepsRadio ==
  <>[](mngr.config = AUTO /\ Known # {} => stack.on)
=============================================================================
