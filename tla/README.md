# dectmngr in TLA+

`dectmngr` is the DECT manager of a home gateway.  This directory holds TLA+
modules of its programs, TLC configurations that check them on small instances,
and theorems that the TLAPS proof system checks for every instance.

## The system

```
 dect (CLI) ─ TCP 40713 ───┐                       ┌── dectcalib, dect_testmode
                          dectmngr ─ TCP 7777 ─ dectproxy ── /dev/dect ── DECT stack
 button, uci ─────────────┘      │
                                 └── fork ── hotplug script (LED)      dectdbgd ── /dev/dectdbg
```

| part | source | state | operations |
|---|---|---|---|
| daemon | `dectmngr.c` | `status` (radio, reg_mode, dect_init, table of handsets), `config`, `CallReference`, `switch_state_on`, armed libevent timers, LED | one handler for each packet of the stack and each packet of a client, four timer callbacks |
| framing | `dectmngr.c:1060-1106` | per connection: input buffer, size of the packet being read | `packet_read`, run when bytes have arrived |
| DECT stack | none (external) | radio on or off, registration mode, registered handsets, calls | answers requests, reports what handsets do over the air |
| proxy | `dectproxy.c` | set of descriptors | copies the device to all clients, and each client to the device |
| debug proxy | `dectdbgd.c` | set of descriptors | the same select loop on the debug device |
| CLI | `dect.c` | none beyond one invocation | one request per option, two listings of the status |
| calibration | `dectcalib.c`, `dect_testmode` | one byte of the nvs file, the running processes | read, modify, write; restart of the daemons; INIT |
| nvs listing | `nvsparse.c` | none | prints a file by a table of offsets |
| configuration | `ucix.c` | libuci context | the daemon reads one option |
| `atohx.c`, `Makefile` | | none | text to bytes; build |

How they interact: all programs exchange packets over TCP.  `dectproxy` stands
between the daemon and the device.  The daemon is one libevent loop, so
its handlers never overlap, and everything hard about it lies *between*
handlers: an answer of the stack arrives after other packets and commands have
changed what it was asked for, and a timer fires after the thing it was armed
for is over (no timer of this program is ever cancelled).

What is hard:

* *Timers.*  The 180 s timer of a window, the 20 s timer of a ping, the 1 s
  timer of a delayed registration and that of a listing are one-shot, unnamed and
  never deleted.  Several of a kind may be armed at a time.
* *Chains of requests.*  A listing is CC_FEATURES_REQ, then
  GET_REGISTRATION_COUNT_REQ, then one GET_HANDSET_IPUI_REQ after another, each
  sent by the handler of the answer before.  Two listings may be under way.
* *Three parties switch the radio*: RADIO commands, the configuration, and auto
  mode at the end of a listing.
* *Two copies of the same facts*: the stack and `status` hold the radio state, the
  registration mode and the table, and messages on the way make them differ.
* *TCP* cuts and joins packets anywhere, and `dect` reads a reply with a single `recv`.
* *Scripts* restart everything, unchecked line by line, and two may run at a time.

What makes each part correct:

* daemon: whatever starts, ends (windows, delayed starts, pings); the LED shows the
  radio and the mode; the configuration decides who may have the radio on; the
  table, the radio and the mode agree with the stack apart from messages on the way;
* framing: packets are handled whole, once and in order, however the bytes are cut;
* proxies: each client sees what the device sent since it connected, without gaps, and
  the device sees the bytes of one client in order; only open descriptors are selected;
* CLI: the requests handled are the ones asked for; a listing shows one moment of the
  daemon, and the effect of what the same command line asked for before; a run ends;
* calibration: only bit 0 of the byte at 0x80 changes, the dump shows it, and when the
  scripts are through the stack runs with it.

`PROJECT.json` lists the hazards of the code line by line.

## The modules

| module | what it is |
|---|---|
| `DectMngr` | the daemon, open: any packet, command or timer at any time |
| `DectMngr_proofs` | theorems about it |
| `DectSystem` | the daemon closed with a stack and a FIFO link each way |
| `DectSystem_proofs` | theorems about it |
| `PacketChannel` | what a socket promises: whole packets, once, in order |
| `PacketStream` | `packet_read` on bytes; implements `PacketChannel` |
| `PacketStream_proofs` | theorems about it, the refinement among them |
| `MailBus` | what the proxy promises: every mail since a client joined, once, in order |
| `DectProxy` | the select loop of `dectproxy`; implements `MailBus` |
| `DectProxy_proofs` | theorems about it, the refinement among them |
| `DectClient` | `dect` and its connections to the daemon of `DectMngr` |
| `DectClient_proofs` | theorems about it |
| `TestMode` | `dectcalib`, `dect_testmode`, the restart it makes, and the dump of `nvsparse` |
| `TestMode_proofs` | theorems about it |
| `MCDectMngr`, `MCDectSystem`, `MCPacketStream`, `MCDectProxy`, `MCDectClient`, `MCTestMode` | instances for TLC |

**`DectMngr`.**  The globals are the fields of the record `mngr`.  Every C function
that changes state is an operator of the same name from record to record, and a call
in the C code is an application of the operator at that place: `registration(s)`
applies `dect_radio`, which applies `start_protocol`, which writes a request, sets
`radio` and calls `control_led`.  An action is one run of the event loop:
`DectPacket` (`handle_dect_packet`), `Client` (`handle_client_packet`), and one
action for each kind of timer.  Timers of a kind have the same period and expire in
the order they were armed, so three kinds are counters and the ping timers, which
carry a handset, a sequence.  Data that nothing depends on is left out: call
codecs, info elements, names, the text on standard output.  `override` is the one
history field: it says that the radio was last switched by a RADIO command.

Four details that are easy to get wrong when reading the code:
`registration` sets `reg_mode` to DELAYED_START *after* `dect_radio` has set the LED;
`registration_count_cfm` returns in the middle of its loop at the first id out of
range, keeping what it marked before; `handset_ipui_cfm` reads one entry past the
table when asked about the last handset, which is the padding of `status` and
always zero; and `reload_config` ends the process on a word it does not know.

**`DectSystem`.**  The stack is not part of the repository.  It is what the handlers
of `dectmngr.c` expect of it, and is marked external: it answers in order, one
answer per request; it keeps its own radio state, registration mode, the identity
registered under each number, and the set of ringing handsets; it may refuse a deletion
and confirms it all the same, since the daemon does not look at the status of the
confirmation; and handsets register (while it is on and accepting, under a number that
is free, so a number may pass from one handset to another), announce themselves or pick
up at any moment.  The Fp instance of a call
stands for its handset, which is what `connect_ind` assumes.  The link, that is
the sockets and `dectproxy`, is FIFO, loses nothing and carries whole packets; that
its two ends really do so is the subject of `PacketStream` and `DectProxy`.

Two history variables serve the properties: `listed`, the handsets shown as registered
since they registered, and `crossed`, which becomes true when a ping begins before an
earlier one is over (a handset is still shown as pinging, or a request, confirmation, answer
or release of a call is on the link: `PingTooEarly`), or when a timer ends a ping whose call
is not yet confirmed (`TimerTooEarly`).  Timers that answered pings leave behind do not
count.

**`DectClient`.**  `dect` connects, acts on its flags in the order of `main`, not of the
command line (`todo` is the set of those left, by their place in that order), and after
GET_STATUS waits in one `recv`.  The daemon is `mngr` of `DectMngr`
with its real handlers; other clients, packets of the stack and timers come between.  A
status is a sequence of cells, one for the modes and one per handset, and `get_reply` takes
any number of those that have come.  What it does not fill shows memory as `malloc` left
it, and what it leaves is the head of the next reply.  `fresh` collects the statuses the
daemon has had since the request for the listing was sent and the requests before it were
handled: `ListingIsFresh` says that a listing is one of those.  `Cut` is the stall that
`PacketStream` explains.  A daemon that exits leaves its clients with the end of the
stream, a reset, or a reply that was never written.  The state in which it starts is the one
that the daemon's own handlers reach from `init_status` with the replies to its INIT
(`Started`).

**`TestMode`.**  The branch of `dect_testmode` that is reached, line by line; a line that
fails changes nothing and the script goes on.  The file is a size and the bytes that are not
zero, a byte the set of its bits, and an offset is the real one, so that `dectcalib`'s 0x80
and the 73 entries of `nvsparse.c` can be held against each other.  A daemon and a proxy
that were started come up in a step of their own, in either order.  A proxy needs the
device and the port.  A daemon goes on without a proxy ("cut off") and ends when the port
is taken, after it has connected.  Handling an INIT is `dect_init`: it reads the file and
mails it.  The one timing assumption is `Settled`: the two seconds a script sleeps before its
`dect -i` outlast the start of the processes it has started itself.  Those of another script
may come up before, after, or be killed meanwhile.

**`PacketStream`.**  One byte of a packet is the packet, its number and the byte's
place in it.  `Arrive(n)` is libevent reading n bytes and calling `packet_read`; each
iteration of the loop is an action, with the three ways it can end.  If it ever took a
wrong piece for a packet, `handled` would hold `Garbage`.

**`DectProxy`.**  `at` is the system call the loop makes next, and each call is an
action: clients connect, write, read and leave between any two of them.  Mails are
numbered, so `seen` of a client shows at once whether one is missing; what a client
writes is only counted, since `recv` may return any portion of it.  The device and the
clients are external.  Four things the model keeps since they are what could go
wrong: the kernel gives out the lowest free descriptor again; `fdmax` never goes down;
`send` blocks when a socket is full; and a reset is reported once by `recv` before it
returns 0.  Sends to descriptors that are closed, or are no sockets, fail in the code and do
nothing in the model.

Operators with a comment that begins "Slip" stand just before the operator they
distort.  No specification uses them; each is a mistake one could make in that
function, kept to show that the properties notice it.

## What is checked

| run | instance | states | shows |
|---|---|---|---|
| `mngr` | 2 handsets, ids 1 and 3 (3 is outside the table), 2 timers per long kind, 1 per short kind | 430 thousand | `TypeOK`, `WindowHasTimer`, `PingHasTimer`, `LedShowsStatus`, `ConfigGatesRadio`, `RadioOffHasReason` for the open daemon |
| `system` | 2 handsets, 2 identities, 3 commands, 1 event over the air, all three configurations, reloads | 5.4 million (up to symmetry) | `SystemTypeOK`, `RadioInStep`, `WindowIsReal`, `NoGhostHandset`, `OwnIdentity`, `RefusalIsUndone`, `RingingIsReleased` |
| `system_live` | 1 handset, 2 commands (RADIO among them), 2 events over the air, modes on and auto | 170 thousand | `WindowEnds`, `DelayedStartEnds`, `PingEnds`, `AutoRadioSettles`, `RegistrationIsListed` |
| `stream` | packets of 3 and 5 bytes, header of 2, 3 packets | 760 | `ImplementsChannel` (refinement), `HandledUnlessCut`, `NothingLeftBehind`, `StreamTypeOK` |
| `proxy` | 3 clients, 2 mails, 1 piece written by each, sockets that hold 1 mail | 2.3 million (up to symmetry) | `ProxyTypeOK`, `SelectsOpen`, `NoneBehind`, `ImplementsBus` (refinement) |
| `proxy_live` | 2 clients, 2 mails, 2 pieces each | 440 thousand | `EventuallyComplete`, `WritesReachDevice`, `LeftIsClosed` |
| `cli` | 3 handsets of which 1 is a phone, 2 runs of `dect` with up to 4 requests each, 1 packet of the stack | 230 thousand | `ClientTypeOK`, `RequestsMeanOptions`, `ListingIsFresh`, `EndsUnlessCut` |
| `testmode` | 2 scripts with any argument; a whole file, a short one, an empty one, none | 15 thousand | `TestTypeOK`, `DumpTellsTestMode`, `OnlyTheTestBit`, `TestModeTakesEffect` |

Four more runs each end in a counterexample; see *Findings*.

Why the bounds are enough.  In `mngr` nothing but the number of timers is bounded: two windows
with two timers, and two pings of one handset or of two, are the smallest cases of a stale
timer; a third of a kind only repeats the second.  Id 3 with a table of 2 is the rejected id,
and list <<1, 3>> the one that stops half-way; id 3 also makes handset 2 the last entry.  All
three configurations are reached from each other by reloads.  In `system` three commands are
the shortest way to open, break and reopen a window (registration, radio off, registration), or
to delete a handset while two listings are under way.  In `system_live` two commands and two
events suffice to open a window, register a handset, and ping it, delete it, or switch the
radio off while it answers; three commands and one event were tried and show the same.  In
`system` it is the second handset that may be registered from the start and is pinged, because
1 is what stands for a call that is not confirmed; two pings, the first of them answered, leave
a timer behind that expires during the second.  The timer bounds of the system runs (6 of a
kind) are never reached: at most one timer is armed for a command or an event.  In `stream` all
cuts of all sequences of three packets are covered; 3 = header + 1 and 5 = header + 3 make
every place of a cut possible.

In `system` two identities are the least for which a number may be given to another handset,
and three commands suffice to list, delete and list again.  In `cli` the first run of `dect`
repeats an option, sends a request before its listings and lists twice, so that a short
`recv` of the first reply reaches the second; the other opens the registration, sends a number
above 255, or makes the daemon read an NVS file that may be missing.  With three handsets and
one phone the ULE list of the JSON output has one entry and leaves one out.  In `testmode` two
scripts are the least that overlap, and the four files are those before, across and behind
whose end the byte lies.

In `proxy` three clients are the least for which a descriptor is given out again while a higher
one is open, and two mails with sockets of one the least for which `send` blocks.  With two
mails a client can be accepted before, between and after them.

Deadlock is not checked: the daemon exits by design on a broken configuration, and
the bounded runs stop when their commands and events are used up, and so does a proxy
with nothing to select.

Fairness.  `FairSystem` says that the event loop handles what has arrived, that each armed
timer expires, and that the stack answers: libevent, the kernel and the stack do no less (in
the models of `dect` and of the scripts: that a program that was started runs, and that the
daemon handles a packet it has got).  It is weak fairness of each separately, and nothing is
said of users or handsets.  `FairSpec` of the stream says that TCP delivers some bytes as long
as there are any, and that the callback runs.  `FairSpec` of the proxy says that its loop runs
and that clients read what they are sent.  The last is an assumption on the clients, and
needed: `send` blocks, so a client that stays connected and does not read stops the proxy for
all.  The daemon does read at any time, as its socket belongs to libevent.

Properties with conditions, and why.  `OwnIdentity` holds for the handsets the chain of
identity queries reaches: it begins with the lowest number and ends at the first number that
is not registered, so with handsets 1 and 3 the identity of 3 is never asked for, and its
status shows zeros or, after a deletion, the identity of the handset that had the number
before.  `RingingIsReleased` says that a handset which rings has its release on the way, or is
shown as pinging (so that by `PingStops` a timer will end it) with its call in `CallReference`
or about to be.  It says nothing once `crossed` is true, since then it is false: `CallReference`
is one global and names the call confirmed last; an answer to an earlier ping clears the
flag of a later one, whose timer then releases nothing; and a timer that expires before the
confirmation releases another call.  `ListingIsFresh` excludes listings
made of a short `recv` and those after it.  `RequestsMeanOptions` excludes command lines that
use `-d` with `-p` or `-z` with `-x`, which share a variable, and numbers above 255.
`TestModeTakesEffect` excludes a missing file and a daemon that is cut off from its proxy,
which a run of the script alone can end in: when the daemon comes up first, nothing tells
the script or a later `dect -i`.

`RadioInStep` and `WindowIsReal` are stated over the requests still in `toStack`: the daemon's
view is the stack's after the last such request.  `WindowIsReal` says that the stack accepts
handsets, which takes a radio that is on; with the radio switched off under an open window
(RADIO 0, a reload to off, or auto mode) the daemon still shows the window, the stack keeps the mode, and
nobody can register.  It is one direction only.  The other does not hold: a window closed while
the radio is off sends no request (`register_handsets_stop` returns first), and the stack
keeps its mode.

`DelayedStartEnds` says that the mode does not stay DELAYED_START, not that the window opens,
which is false.  In auto mode a listing can switch the radio off under an open window, so that
the next REGISTRATION is delayed; the 180 s timer of the old window may then set `reg_mode` to
DISABLED before the 1 s timer of the delayed start looks at it, and no window opens.
`AutoRadioSettles` speaks of what the *daemon* knows (its table), because of what the
stack knows the same is false (`AutoKeepsRadio` below), and of a radio that was not last
switched by a RADIO command.  `RegistrationIsListed` is about registrations that are reported
while the radio is on, and ends when the radio goes off: then `register_handsets_stop`
sends nothing, and no listing follows.

## What is proved

Every invariant and every safety property of steps of the passing runs, and both
refinements, are theorems: they hold for all values of the constants that meet the
assumptions below, where a run shows one instance.  Each has the form `Spec => P` of the
specification *without* fairness; the runs check the fair one, which implies it.

| module | theorem | statement |
|---|---|---|
| `DectMngr_proofs` | `TypeCorrect` | `Spec => []TypeOK` |
| | `WindowCloses` | `Spec => []WindowHasTimer` |
| | `PingStops` | `Spec => []PingHasTimer` |
| | `LedInStep` | `Spec => []LedShowsStatus` |
| | `ConfigRules` | `Spec => []ConfigGatesRadio` |
| | `RadioGoesOffForReason` | `Spec => RadioOffHasReason` |
| `DectSystem_proofs` | `SystemTypeCorrect` | `System => []SystemTypeOK` |
| | `RadioStaysInStep` | `System => []RadioInStep` |
| | `WindowStaysReal` | `System => []WindowIsReal` |
| | `GhostsAreCleared` | `System => []NoGhostHandset` |
| | `RefusalsAreUndone` | `System => []RefusalIsUndone` |
| | `RingingCanBeStopped` | `System => []RingingIsReleased` |
| | `IdentitiesAreOwn` | `System => []OwnIdentity` |
| `PacketStream_proofs` | `StreamTypeCorrect` | `Spec => []StreamTypeOK` |
| | `BufferIsEmptied` | `Spec => []NothingLeftBehind` |
| | `StreamIsChannel` | `Spec => ImplementsChannel` |
| `DectProxy_proofs` | `ProxyTypeCorrect` | `Spec => []ProxyTypeOK` |
| | `OnlyOpenSelected` | `Spec => []SelectsOpen` |
| | `NobodyBehind` | `Spec => []NoneBehind` |
| | `ProxyIsBus` | `Spec => ImplementsBus` |
| `DectClient_proofs` | `ClientTypeCorrect` | `ClientSpec => []ClientTypeOK` |
| | `RequestsAreMeant` | `ClientSpec => []RequestsMeanOptions` |
| | `ListingsAreFresh` | `ClientSpec => ListingIsFresh` |
| `TestMode_proofs` | `TestModeTypes` | `Spec => []TestTypeOK` |
| | `DumpShowsTestMode` | `Spec => []DumpTellsTestMode` |
| | `CalibrationSurvives` | `Spec => OnlyTheTestBit` |

Few of these properties are inductive.  What each needed:

**The daemon.**  All but the last follow from `Invariance`, `Spec => []IInv`.  `IInv` is
`Inv(mngr)`: the properties as a predicate of *any* record, not of the variable, so that
it can be shown of the records in the middle of a handler.  For each C function there is
a lemma that its operator preserves `Inv` (or, for those that break it on the way, what
exactly their caller may rely on: between `registration`'s opening of the window and its
arming of the timer `WindowHasTimer` is false).  A timer callback is applied to a record
whose timer is already gone, so its lemma assumes the invariant for the record before.
The proof that a step keeps `Inv` is then one case for each callback.
`RadioGoesOffForReason` has a second set of such lemmas, one for each function, of
`OnOrReason`: from a radio that is on, the callback leaves it on or has one of the
reasons.

**The system.**  The daemon's half of a step is again described function by function:
`Goes` says, as a relation between the records before and after, what all but a few
functions leave alone and which requests they may write.
`SysType` (types, and `Inv` of the daemon) and `InStep` (a stack that works off the
requests under way ends as the daemon says) are inductive together and give
`SystemTypeOK`, `RadioInStep` and `WindowIsReal`; as `Inv` is among the types, what is
proved of the states of the open daemon holds of the closed one too.  The other four need more of what is on the link,
and become inductive once it is said what the link may hold meanwhile:

* `GhostsGo`: a handset the stack has dropped, and that the daemon shows *or a listing on
  the link names*, has the confirmation of its deletion still to come, behind that listing.
* `Undone`: a handset that was listed is shown, or its deletion's confirmation is under
  way, or a listing is — as a timer, as one of its two requests, or as an answer.
* `Calls`, unless calls have crossed: one CC_SETUP_REQ at most, and while it or its
  confirmation is under way only the handset it names is marked as pinging, and nothing else
  rings or answers; a handset that rings is marked as pinging and has its confirmation
  to come or `CallReference`, or its release is on the way.  Of timers it says nothing: those
  left behind do nothing to a handset that is not marked, and to the one that is they do what
  its own does.
* `Identities`: the shown identity of a handset is its own, or a listing is due, or the chain
  of queries is at a number below (`Chain`), or it will stop at a number that is not
  registered (`Gap`).  This needs `QueriesCurrent` (an answer with an identity that has
  since changed hands is followed by a new listing), `Ascends` (listings name handsets in order)
  and `GhostsGo`.

**Framing.**  A byte on the way is related to its neighbours: `Ordered` says that each
byte is one of a packet sent, that the rest of its packet follows it, that behind a last byte comes
the first of the next packet, and that the first byte of all is the first one of the next packet to be handled.
`StreamInv` claims this for the buffer and the wire together as long as
`size` is 0.  That is the point of the refinement: once a header has been taken
by itself it is false, but then `packet_read` handles nothing more, and every step
leaves the channel as it is.  So `StreamIsChannel` (nothing wrong is ever handled) holds with
the stall, and only progress is lost.

**The proxy.**  `ProxyInv` adds to the types what the loop carries from one call to the
next: what `select` announced is still there and still open (`LoopOK`); a client has
one descriptor, and one only, from its acceptance until it has left and been closed
(`ConnectionsOK`); and while a mail is sent round, those whose turn is still to come lack
this mail and nobody lacks another (`GivenOK`).  `ProxyIsBus` maps each system call to a
step of `MailBus` or to a stutter.

**The client.**  `CInv` holds for each invocation by itself, as a predicate of the values
of its variables.  `RoomOK`: never more than one status is asked for or unread when the
next one is asked for, since the listing of `-j` is asked for after a part of that of `-s` was received.
`FreshOK`: as long as no `recv` came short, what a client has in its socket is one whole
status, one of those in `fresh`, and no request of it is left.  `MeansOK`: each packet on the
way or handled is that of a flag, and there are as many as flags acted on.

**The test mode.**  `OnlyTheTestBit` is not inductive: a `dectcalib` writes a byte it read some
steps ago, and others may have written since.  `Pending` makes up for that: between
read and write a script holds a byte that differs from the file's in bit 0 at
most, because bit 0 is all that another can have changed meanwhile.  `AllOK` adds the
processes and the count of the INITs waiting; that no file is dumped wrongly rests on lemmas
about the 73 entries of the table.

Assumptions.  `MngrAssumption`, `SystemAssumption`, `StreamAssumption`, `ProxyAssumption`,
`ClientAssumption` and `TestModeAssumption`, each in the module that declares the constants and
evaluated by TLC in that module's run, are all there is.  They are types and sizes; the ones
worth naming are that a packet is longer than its header (`StreamAssumption`), that there are
at least as many descriptors as clients (`ProxyAssumption`; `accept` is assumed not to fail),
and that what `dect` is given for a number becomes a byte (`ClientAssumption`).

Only model-checked: everything that must eventually happen, since liveness under
fairness is outside what TLAPS proves here — `WindowEnds`, `DelayedStartEnds`, `PingEnds`,
`AutoRadioSettles`, `RegistrationIsListed`, `HandledUnlessCut`, `EventuallyComplete`,
`WritesReachDevice`, `LeftIsClosed`, `EndsUnlessCut` and `TestModeTakesEffect`; and the four
counterexamples below.

## Findings

Each run below is a counterexample to what a comment of the code says; the text of
the comments and the lines are in `PROJECT.json`.

* `delayed_start` — a reload to "off" between a delayed registration and its timer:
  `registration` returns before it touches `reg_mode`, which stays DELAYED_START with
  no timer.  From then on a present handset starts no listing, until the next registration.
* `stale_timer` — a window closed by REGISTRATION_COMPLETE_IND leaves its 180 s timer
  armed; a second window is closed by the timer of the first.
* `auto_radio` — in auto mode, a listing that finds no handset switches the radio off
  even while a registration window is open; a handset that has just registered is
  then neither listed nor served, for good.
* `stream_stall` — when a read ends after a header but before the end of the body,
  later calls of `packet_read` return at once, since they look for a header and find that
  one has been read: the connection handles nothing any more.  `HandledUnlessCut`
  states the exact condition under which this does not happen.

## What is not modelled

Of the daemon: error codes of the stack other than that of the registration count in
the open model (the handlers ignore them), the order in which forked LED scripts run, and
the text it prints.  Among the mails it only prints is the stack's report of changes to its
own data (NVS_UPDATE_IND), which are not written to the file.  Of the stack: what the daemon
does not look at.  The link of `DectSystem` does not fail; a proxy that is missing or
restarted is in `TestMode`, without the handlers.

`dectdbgd.c`: its select loop is that of `dectproxy`, call for call, so what
`DectProxy` shows of the loop holds of it as well.  It differs in what it sends: each mail
without its header but with the length of the whole, so eight bytes that were not read follow.
Nothing in the repository reads that stream.

`nvsparse.c`: the options and the output file, which is emptied and never written.
`dect_testmode`: the branch under `if false`.  `dect.c`: `dump_json`, which is never called.
`ucix.c` but for the one function the daemon calls; `atohx.c` and the build rules, which
keep no state.

## Plan

Nothing that the passing runs check as an invariant or as a property of steps is left
without a theorem.  What is left:

* shorter proofs: facts about sequences (a message at the head, at the end, behind another)
  are proved in three of the modules and could be one module of lemmas;
* liveness stays with TLC.
