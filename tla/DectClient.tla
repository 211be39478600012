----------------------------- MODULE DectClient -----------------------------
(* dect, the command line client (src/dect.c), and the connections it      *)
(* makes to dectmngr (module DectMngr).                                    *)
(*                                                                         *)
(* An invocation connects, turns its options into requests, and for a      *)
(* listing waits for the status.  Requests and replies are two streams of  *)
(* TCP: bytes are neither lost nor reordered, but recv may return a part   *)
(* of a reply.  While an invocation runs, the daemon serves others, the    *)
(* stack and its timers.                                                   *)
EXTENDS DectMngr, FiniteSetsExt

CONSTANTS
  MaxNrPhones,    \* MAX_NR_PHONES: handset numbers above it are ULE devices
  Invocation,     \* runs of dect
  CommandLines,   \* the command lines of each: sequences of [opt, arg]
  StackPackets,   \* packets of the stack meanwhile
  MaxPackets      \* bound: how many of those

(* The order in which main looks at the flags.                             *)
MainOrder == <<"r", "d", "p", "z", "x", "c", "s", "j", "l", "u", "i", "b">>

PacketType ==
  [r |-> "REGISTRATION", d |-> "DELETE_HSET", p |-> "PING_HSET", z |-> "ZWITCH",
   x |-> "RADIO", c |-> "RELOAD_CONFIG", s |-> "GET_STATUS", j |-> "GET_STATUS",
   l |-> "LIST_HANDSETS", u |-> "ULE_START", i |-> "INIT", b |-> "BUTTON"]

ASSUME ClientAssumption ==
  /\ MaxNrPhones \in 1 .. MaxNrHandsets
  /\ CommandLines \in [Invocation -> SUBSET Seq([opt : DOMAIN PacketType, arg : Nat])]
  /\ \A o \in DOMAIN PacketType : PacketType[o] \in Commands
  /\ 0 \in Data
  /\ \A c \in Invocation : \A args \in CommandLines[c] :
       \A i \in DOMAIN args : args[i].arg % 256 \in Data
  /\ StackPackets \subseteq Packets /\ MaxPackets \in Nat

VARIABLES
  argv,     \* argv[c]: the options of c
  todo,     \* todo[c]: the flags main has still to act on, by their place
  phase,    \* phase[c]: "new", "sending", "reading" a reply, or "ended"
  requests, \* requests[c]: packets of c the daemon has not handled
  replies,  \* replies[c]: what the daemon sent and c has not received
  cut,      \* cut[c]: packet_read stopped inside a packet of c
  packets,  \* packets of the stack so far
  handled,  \* history: handled[c], the packets of c that were handled
  shown,    \* history: shown[c], the listing c printed in its last step
  short,    \* history: short[c], a recv of c returned less than a status
  fresh     \* history: fresh[c], the statuses since c asked for the one it waits
            \*   for and since its earlier requests were handled

connections == <<argv, todo, phase, requests, replies, cut, handled, shown, short>>
vars == <<mngr, packets, fresh, connections>>

-----------------------------------------------------------------------------
(* The options.  A slip is a mistake the properties catch when it stands   *)
(* in for the definition below it; no specification uses it.               *)

Places(args, opts) == {i \in DOMAIN args : args[i].opt \in opts}

LastArg(args, opts) ==
  LET at == Places(args, opts) IN IF at = {} THEN 0 ELSE args[Max(at)].arg

(* Slip: the number of the button is kept with that of the handset.        *)
Argument_slip(args, o) ==
  CASE o \in {"d", "p", "b"} -> LastArg(args, {"d", "p", "b"})
    [] o \in {"z", "x"} -> LastArg(args, {"z", "x"})
    [] OTHER            -> 0

(* -d and -p share a variable, and so do -z and -x: the last one given     *)
(* wins for both.                                                          *)
Argument(args, o) ==
  CASE o \in {"d", "p"} -> LastArg(args, {"d", "p"})
    [] o \in {"z", "x"} -> LastArg(args, {"z", "x"})
    [] o = "b"          -> LastArg(args, {"b"})
    [] OTHER            -> 0

(* The flags that are set, and the one that main comes to first.           *)
Flags(args) == {i \in DOMAIN MainOrder : Places(args, {MainOrder[i]}) # {}}

First(flags) == MainOrder[Min(flags)]

(* Slip: the argument goes as the int that it was read into.               *)
send_packet_slip(args, o) == [type |-> PacketType[o], data |-> Argument(args, o)]

(* The argument goes into one byte.                                        *)
send_packet(args, o) ==
  [type |-> PacketType[o], data |-> Argument(args, o) % 256]

-----------------------------------------------------------------------------
(* The status and its listings.  A status is cut into one cell for the     *)
(* modes and one for each handset.                                         *)

StatusSize == MaxNrHandsets + 1

Status(s) == <<[reg_mode |-> s.reg_mode, radio |-> s.radio]>>
               \o [h \in Handset |-> s.handset[h]]

(* What malloc returns is not initialised: bytes that are 0, or all 1.     *)
Memory ==
  LET Filled(mode, bit) ==
        <<[reg_mode |-> mode, radio |-> mode]>>
          \o [h \in Handset |-> [registered |-> bit, present |-> bit,
                                 pinging |-> bit, ipui |-> NoIpui]]
  IN {Filled(DISABLED, FALSE), Filled(DELAYED_START, TRUE)}

Entry(buf, h) ==
  [handset |-> h, ipui |-> buf[h + 1].ipui, present |-> buf[h + 1].present,
   pinging |-> buf[h + 1].pinging]

Entries(buf, hs) == {Entry(buf, h) : h \in {g \in hs : buf[g + 1].registered}}

(* No line is printed for a registration that is delayed.                  *)
status_packet(buf) ==
  [reg_state |-> IF buf[1].reg_mode = DELAYED_START THEN "none"
                 ELSE buf[1].reg_mode,
   radio |-> buf[1].radio, handsets |-> Entries(buf, Handset)]

(* The second loop ends at MAX_NR_HANDSETS - MAX_NR_PHONES.                *)
status_packet_json(buf) ==
  [reg_active   |-> buf[1].reg_mode = ENABLED_,
   radio_active |-> buf[1].radio = ENABLED_,
   handsets     |-> Entries(buf, 1 .. MaxNrPhones),
   ule          |-> Entries(buf, MaxNrPhones + 1 .. MaxNrHandsets - MaxNrPhones)]

Listing(o, buf) == IF o = "s" THEN status_packet(buf) ELSE status_packet_json(buf)

-----------------------------------------------------------------------------
(* main, from connect to return.                                           *)

(* Without a daemon connect fails, and the program exits.                  *)
Connect(c) ==
  /\ phase[c] = "new"
  /\ \E args \in CommandLines[c] :
       /\ argv' = [argv EXCEPT ![c] = args]
       /\ todo' = [todo EXCEPT ![c] = IF mngr.up THEN Flags(args) ELSE {}]
  /\ phase' = [phase EXCEPT ![c] = IF mngr.up THEN "sending" ELSE "ended"]
  /\ UNCHANGED <<mngr, packets, fresh, requests, replies, cut, handled, shown, short>>

(* A request for the status is followed by get_reply.                      *)
Send(c) ==
  LET o == First(todo[c])
  IN /\ phase[c] = "sending" /\ todo[c] # {}
     /\ requests' = [requests EXCEPT ![c] = Append(@, send_packet(argv[c], o))]
     /\ IF o \in {"s", "j"}
        THEN /\ phase' = [phase EXCEPT ![c] = "reading"]
             /\ fresh' = [fresh EXCEPT ![c] = {Status(mngr)}]
             /\ UNCHANGED todo
        ELSE todo' = [todo EXCEPT ![c] = @ \ {Min(@)}] /\ UNCHANGED <<phase, fresh>>
     /\ shown' = [shown EXCEPT ![c] = << >>]
     /\ UNCHANGED <<mngr, packets, argv, replies, cut, handled, short>>

(* main is through, or a system call on a connection whose daemon has      *)
(* exited fails or kills the program.                                      *)
End(c) ==
  /\ \/ phase[c] = "sending" /\ (todo[c] = {} \/ ~mngr.up)
     \/ phase[c] = "reading" /\ replies[c] = << >> /\ ~mngr.up
  /\ phase' = [phase EXCEPT ![c] = "ended"]
  /\ fresh' = [fresh EXCEPT ![c] = {}] /\ shown' = [shown EXCEPT ![c] = << >>]
  /\ UNCHANGED <<mngr, packets, argv, todo, requests, replies, cut, handled, short>>

(* Slip: the reply is looked at and left in the socket.                    *)
RestOfReply_peek(c, n) == replies[c]

RestOfReply(c, n) == SubSeq(replies[c], n + 1, Len(replies[c]))

(* What recv did not fill stays as malloc left it, and bytes of a status   *)
(* that begin in its middle may mean anything, too.                        *)
PrintListing(c, n) ==
  \E m \in Memory :
    LET good == IF Len(replies[c]) % StatusSize = 0 THEN n ELSE 0
        buf  == SubSeq(replies[c], 1, good) \o SubSeq(m, good + 1, StatusSize)
    IN /\ phase[c] = "reading"
       /\ shown' = [shown EXCEPT ![c] = <<Listing(First(todo[c]), buf)>>]
       /\ replies' = [replies EXCEPT ![c] = RestOfReply(c, n)]
       /\ short' = [short EXCEPT ![c] = @ \/ n < StatusSize]
       /\ todo' = [todo EXCEPT ![c] = @ \ {Min(@)}]
       /\ phase' = [phase EXCEPT ![c] = "sending"]
       /\ fresh' = [fresh EXCEPT ![c] = {}]
       /\ UNCHANGED <<mngr, packets, argv, requests, cut, handled>>

(* One recv takes what has come; the program does not ask for the rest.    *)
get_reply(c) ==
  \E n \in 1 .. StatusSize : n <= Len(replies[c]) /\ PrintListing(c, n)

(* recv returns 0 at the end of the stream, which is no error.             *)
get_end_of_file(c) == replies[c] = << >> /\ ~mngr.up /\ PrintListing(c, 0)

-----------------------------------------------------------------------------
(* The daemon.                                                             *)

(* Slip: only the first packet of a connection is answered.                *)
get_status_slip(c, s) ==
  IF Head(requests[c]).type = "GET_STATUS" /\ handled[c] = << >>
  THEN replies[c] \o Status(s) ELSE replies[c]

get_status(c, s) ==
  IF Head(requests[c]).type = "GET_STATUS" THEN replies[c] \o Status(s)
  ELSE replies[c]

Seen(s) == [c \in Invocation |->
              IF phase[c] = "reading" THEN fresh[c] \cup {Status(s)} ELSE {}]

Handle(c) ==
  LET p == Head(requests[c])
  IN /\ requests[c] # << >> /\ ~cut[c]
     /\ \E f \in Files :
          LET s == handle_client_packet(mngr, p, f)
          IN /\ Callback(s)
             /\ fresh' = IF p.type = "GET_STATUS" \/ phase[c] # "reading" THEN Seen(s)
                         ELSE [Seen(s) EXCEPT ![c] = {Status(s)}]
     /\ requests' = [requests EXCEPT ![c] = Tail(@)]
     /\ replies' = [replies EXCEPT ![c] = get_status(c, mngr)]
     /\ handled' = [handled EXCEPT ![c] = Append(@, p)]
     /\ UNCHANGED <<packets, argv, todo, phase, cut, shown, short>>

(* The daemon reads a header without its body, and nothing of c any more   *)
(* (PacketStream, EntirePacketHandled).                                    *)
Cut(c) ==
  /\ mngr.up /\ requests[c] # << >> /\ ~cut[c]
  /\ cut' = [cut EXCEPT ![c] = TRUE]
  /\ UNCHANGED <<mngr, packets, fresh, argv, todo, phase, requests, replies,
                 handled, shown, short>>

(* It exits before libevent has written a reply to the socket.             *)
LoseReply(c) ==
  /\ ~mngr.up /\ replies[c] # << >>
  /\ replies' = [replies EXCEPT ![c] = << >>]
  /\ UNCHANGED <<mngr, packets, fresh, argv, todo, phase, requests, cut, handled,
                 shown, short>>

Meanwhile(s) ==
  /\ Callback(s)
  /\ fresh' = Seen(s)
  /\ UNCHANGED connections

FromStack ==
  /\ packets < MaxPackets /\ packets' = packets + 1
  /\ \E p \in StackPackets : Meanwhile(handle_dect_packet(mngr, p))

Timer ==
  /\ \/ mngr.listTimers > 0 /\ Meanwhile(list_expired(mngr))
     \/ mngr.startTimers > 0 /\ Meanwhile(start_expired(mngr))
     \/ mngr.stopTimers > 0 /\ Meanwhile(stop_expired(mngr))
     \/ mngr.pingTimers # << >> /\ Meanwhile(ping_expired(mngr))
  /\ UNCHANGED packets

(* The daemon has opened its port, has had the replies that its INIT leads *)
(* to, and has heard of one handset; the identities are still to come.     *)
AfterPacket(s, p) == Sent(handle_dect_packet(s, p))

Listed(ids) == [Packet("GET_REGISTRATION_COUNT_CFM", 0) EXCEPT !.ids = ids]

Started(ids) ==
  LET initialised == AfterPacket(init_status(ENABLED_), Packet("LINUX_INIT_CFM", 0))
      asking == AfterPacket(initialised, Packet("CC_FEATURES_CFM", 0))
      listed == AfterPacket(asking, Listed(ids))
  IN AfterPacket(listed, Packet("HANDSET_PRESENT_IND", ids[1]))

ClientInit ==
  /\ \E ids \in IdLists : ids # << >> /\ mngr = Started(ids)
  /\ packets = 0
  /\ argv = [c \in Invocation |-> << >>] /\ todo = [c \in Invocation |-> {}]
  /\ phase = [c \in Invocation |-> "new"]
  /\ requests = [c \in Invocation |-> << >>]
  /\ replies = [c \in Invocation |-> << >>]
  /\ cut = [c \in Invocation |-> FALSE]
  /\ handled = [c \in Invocation |-> << >>]
  /\ shown = [c \in Invocation |-> << >>]
  /\ short = [c \in Invocation |-> FALSE]
  /\ fresh = [c \in Invocation |-> {}]

Main(c) ==
  Connect(c) \/ Send(c) \/ End(c) \/ get_reply(c) \/ get_end_of_file(c)

ClientNext ==
  \/ \E c \in Invocation : Main(c) \/ Handle(c) \/ Cut(c) \/ LoseReply(c)
  \/ FromStack \/ Timer

ClientSpec == ClientInit /\ [][ClientNext]_vars

(* A program that was started runs, and the loop of the daemon does.       *)
FairClientSpec ==
  ClientSpec /\ \A c \in Invocation : WF_vars(Main(c)) /\ WF_vars(Handle(c))

-----------------------------------------------------------------------------
(* Properties.                                                             *)

ClientTypeOK ==
  /\ TypeOK /\ packets \in 0 .. MaxPackets
  /\ \A c \in Invocation :
       /\ argv[c] \in CommandLines[c] \cup {<< >>}
       /\ phase[c] \in {"new", "sending", "reading", "ended"}
       /\ \A i \in DOMAIN requests[c] : requests[c][i] \in ClientPacket
       /\ Len(replies[c]) < 2 * StatusSize
       /\ todo[c] \subseteq DOMAIN MainOrder
       /\ phase[c] = "reading" => todo[c] # {}
  /\ cut \in [Invocation -> BOOLEAN] /\ short \in [Invocation -> BOOLEAN]

(* The reference a listing is compared with: it shows exactly the handsets *)
(* registered in the status, with what the status says of each.  In JSON   *)
(* the ULE devices that its loop leaves out are the ones above             *)
(* MAX_NR_HANDSETS - MAX_NR_PHONES.                                        *)
Shows(l, o, st) ==
  LET listed == IF o = "s" THEN l.handsets ELSE l.handsets \cup l.ule
      Left(h) == o = "j" /\ h > MaxNrPhones /\ h > MaxNrHandsets - MaxNrPhones
  IN /\ {e.handset : e \in listed} =
          {h \in Handset : st[h + 1].registered /\ ~Left(h)}
     /\ \A e \in listed : e.present = st[e.handset + 1].present
                            /\ e.pinging = st[e.handset + 1].pinging
                            /\ e.ipui = st[e.handset + 1].ipui
     /\ o = "s" => /\ l.radio = st[1].radio
                   /\ (l.reg_state = ENABLED_) = (st[1].reg_mode = ENABLED_)
     /\ o = "j" => /\ l.radio_active = (st[1].radio = ENABLED_)
                   /\ l.reg_active = (st[1].reg_mode = ENABLED_)

(* A listing shows one status the daemon really had, after it had handled  *)
(* everything this invocation asked for before, whatever timers, packets   *)
(* and other invocations come between -- unless a recv came short: then it *)
(* and the listing after it are made of pieces.                            *)
ListingIsFresh ==
  [][\A c \in Invocation :
       shown[c] = << >> /\ shown'[c] # << >> /\ ~short'[c] =>
         \E st \in fresh[c] : Shows(Head(shown'[c]), First(todo[c]), st)]_vars

(* Options that share no variable, with arguments of one byte.             *)
Unambiguous(args) ==
  LET Both(o, q) == Places(args, {o}) # {} /\ Places(args, {q}) # {}
  IN /\ ~Both("d", "p") /\ ~Both("z", "x")
     /\ \A i \in DOMAIN args : args[i].arg < 256

(* What the daemon handles is what the user asked for: no handset, switch  *)
(* or radio but those of an option is touched, the last of equal options   *)
(* counts, and by its end an invocation has had each option handled once,  *)
(* but for what a cut connection or an exit of the daemon kept back.       *)
RequestsMeanOptions ==
  \A c \in Invocation : Unambiguous(argv[c]) =>
    LET Asked(o) == Places(argv[c], {o}) # {}
        Meant(o) == [type |-> PacketType[o],
                     data |-> IF o \in {"d", "p", "z", "x", "b"}
                              THEN argv[c][Max(Places(argv[c], {o}))].arg ELSE 0]
        options  == {o \in DOMAIN PacketType : Asked(o)}
    IN /\ \A i \in DOMAIN handled[c] : \E o \in options : handled[c][i] = Meant(o)
       /\ phase[c] = "ended" /\ requests[c] = << >> /\ mngr.up =>
            Len(handled[c]) = Cardinality(options)

(* An invocation ends: the status comes, or the end of the connection.     *)
(* Only a connection that was cut inside a packet makes it wait for good.  *)
EndsUnlessCut ==
  \A c \in Invocation :
    phase[c] \in {"sending", "reading"} ~> phase[c] = "ended" \/ cut[c]
=============================================================================
