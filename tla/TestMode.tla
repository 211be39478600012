------------------------------ MODULE TestMode ------------------------------
(* The test mode of the radio: dectcalib changes a bit of the NVS file,    *)
(* dect_testmode does so and restarts everything, dectmngr hands the file  *)
(* to the stack when it gets an INIT, and nvsparse prints it.              *)
(*                                                                         *)
(* Scripts may overlap, and the processes they start come up on their own, *)
(* in any order.  The init script, killall, rmmod and insmod, and the      *)
(* stack are external.                                                     *)
EXTENDS Integers, Sequences, FiniteSets

CONSTANTS
  Script,        \* runs of dect_testmode
  Bits,          \* bits of a byte; a byte is the set of those that are set
  NoFile,        \* there is no NVS file
  NvsFiles       \* what /etc/dect/nvs may be at first

(* A byte that "data" does not name is zero.                               *)
IsFile(f) ==
  /\ DOMAIN f = {"size", "data"} /\ f.size \in Nat
  /\ DOMAIN f.data \subseteq 0 .. f.size - 1
  /\ \A o \in DOMAIN f.data : f.data[o] \subseteq Bits

ASSUME TestModeAssumption ==
  /\ 0 \in Bits /\ Bits \subseteq Nat /\ \A f \in NvsFiles : f = NoFile \/ IsFile(f)
  /\ IsFiniteSet(Script) /\ "boot" \notin Script

(* What lies past a buffer, and the byte of a stack that was given none.   *)
NoByte == {-1}

(* Who starts a dectproxy and a dectmngr.                                  *)
Starter == Script \cup {"boot"}

VARIABLES
  nvs,       \* /etc/dect/nvs
  args,      \* args[s]: the argument of s
  pc,        \* pc[s]: the line s is at
  test,      \* test[s]: the byte the dectcalib of s has read
  loaded,    \* the kernel module is loaded, and /dev/dect exists
  stack,     \* the byte the stack was given since the module was loaded
  proxies,   \* proxies[p]: the dectproxy that p started
  daemons,   \* daemons[p]: the dectmngr that p started
  inits,     \* INIT packets that dectmngr has not handled
  mails      \* what dectmngr wrote to dectproxy for the stack

processes == <<proxies, daemons, inits, mails>>
vars == <<nvs, args, pc, test, loaded, stack, processes>>

-----------------------------------------------------------------------------
(* The file.                                                               *)

TESTMODE_OFFSET == 128
DECT_NVS_SIZE == 4096

Byte(f, o) == IF o \in DOMAIN f.data THEN f.data[o] ELSE {}

(* Slip: the byte is made from nothing instead of from what was read.      *)
Changed_slip(byte, enable) == IF enable THEN {0} ELSE {}

Changed(byte, enable) == IF enable THEN byte \cup {0} ELSE byte \ {0}

(* Slip: a file that ends before the byte is not made longer.              *)
Written_slip(f, byte) ==
  [f EXCEPT !.data = [o \in DOMAIN f.data \cup {TESTMODE_OFFSET} |->
                        IF o = TESTMODE_OFFSET THEN byte ELSE f.data[o]]]

(* A write behind the end fills the gap with zeros.                        *)
Written(f, byte) ==
  [size |-> IF f.size > TESTMODE_OFFSET THEN f.size ELSE TESTMODE_OFFSET + 1,
   data |-> [o \in DOMAIN f.data \cup {TESTMODE_OFFSET} |->
               IF o = TESTMODE_OFFSET THEN byte ELSE f.data[o]]]

(* nvsparse: offset and size of each entry.                                *)
RadioEntries ==
  <<<<10, 2>>, <<0, 5>>, <<5, 1>>, <<6, 2>>, <<32, 1>>, <<33, 1>>, <<34, 1>>,
    <<35, 1>>, <<36, 1>>, <<37, 1>>, <<41, 1>>, <<42, 1>>, <<43, 1>>,
    <<44, 1>>, <<57, 1>>, <<274, 2>>, <<294, 6>>, <<276, 1>>, <<292, 1>>,
    <<293, 1>>, <<277, 1>>, <<278, 1>>, <<279, 1>>, <<280, 1>>, <<281, 1>>,
    <<282, 1>>, <<129, 1>>, <<273, 1>>, <<58, 1>>, <<60, 1>>>>

PowerEntries ==
  <<<<648, 3>>, <<97, 1>>, <<98, 1>>, <<307, 1>>, <<61, 6>>, <<67, 6>>,
    <<73, 6>>, <<79, 6>>, <<85, 6>>, <<91, 6>>, <<8, 1>>, <<176, 4>>,
    <<180, 4>>, <<184, 4>>, <<188, 4>>, <<192, 4>>, <<196, 4>>, <<200, 4>>,
    <<204, 4>>, <<208, 4>>, <<212, 4>>, <<267, 4>>>>

HandsetEntries ==
  <<<<478, 16>>, <<494, 5>>, <<499, 5>>, <<504, 5>>, <<509, 5>>, <<514, 5>>,
    <<519, 5>>, <<524, 5>>, <<529, 5>>, <<534, 16>>, <<550, 16>>,
    <<566, 16>>, <<582, 16>>, <<598, 16>>, <<614, 16>>, <<654, 16>>,
    <<128, 1>>, <<272, 1>>, <<271, 1>>, <<59, 1>>, <<266, 1>>>>

nvs_entry_table == RadioEntries \o PowerEntries \o HandsetEntries

InitialTestMode == <<128, 1>>

(* Slip: the loop starts with the second byte of an entry.                 *)
Printed_slip(f, entry) ==
  [j \in 1 .. entry[2] |->
     IF entry[1] + j < f.size THEN Byte(f, entry[1] + j) ELSE NoByte]

(* The line of an entry.  A file that ends before the entry does leaves    *)
(* bytes that are read past the buffer.                                    *)
Printed(f, entry) ==
  [j \in 0 .. entry[2] - 1 |->
     IF entry[1] + j < f.size THEN Byte(f, entry[1] + j) ELSE NoByte]

-----------------------------------------------------------------------------
(* dect_testmode, line by line.                                            *)

Goto(s, line) == pc' = [pc EXCEPT ![s] = line]

(* No argument but these two gets past the usage message.                  *)
Usage(s) ==
  /\ pc[s] = "start" /\ args[s] \notin {"enable", "disable"}
  /\ Goto(s, "end")
  /\ UNCHANGED <<nvs, args, test, loaded, stack, processes>>

(* dectcalib up to its read; a read at the end of the file returns nothing *)
(* and leaves the byte 0.                                                  *)
CalibRead(s) ==
  /\ pc[s] = "start" /\ args[s] \in {"enable", "disable"} /\ nvs # NoFile
  /\ test' = [test EXCEPT ![s] = Byte(nvs, TESTMODE_OFFSET)]
  /\ Goto(s, "calib")
  /\ UNCHANGED <<nvs, args, loaded, stack, processes>>

(* dectcalib fails and says so; the script goes on.                        *)
CalibFails(s) ==
  /\ pc[s] = "start" /\ args[s] \in {"enable", "disable"} /\ nvs = NoFile
  /\ Goto(s, "kill")
  /\ UNCHANGED <<nvs, args, test, loaded, stack, processes>>

CalibWrite(s) ==
  /\ pc[s] = "calib"
  /\ nvs' = Written(nvs, Changed(test[s], args[s] = "enable"))
  /\ Goto(s, "kill")
  /\ UNCHANGED <<args, test, loaded, stack, processes>>

NoProcess == [p \in Starter |-> "none"]

(* What the processes hold goes with them.                                 *)
KillAll(s) ==
  /\ pc[s] = "kill"
  /\ proxies' = NoProcess /\ daemons' = NoProcess
  /\ inits' = 0 /\ mails' = << >>
  /\ Goto(s, "rmmod")
  /\ UNCHANGED <<nvs, args, test, loaded, stack>>

ProxyRuns == \E p \in Starter : proxies[p] = "running"

(* A module in use stays.                                                  *)
Rmmod(s) ==
  /\ pc[s] = "rmmod"
  /\ IF ProxyRuns THEN UNCHANGED <<loaded, stack>>
     ELSE loaded' = FALSE /\ stack' = NoByte
  /\ Goto(s, "insmod")
  /\ UNCHANGED <<nvs, args, test, processes>>

Insmod(s) ==
  /\ pc[s] = "insmod"
  /\ loaded' = TRUE
  /\ Goto(s, "go")
  /\ UNCHANGED <<nvs, args, test, stack, processes>>

StartDect(s) ==
  /\ pc[s] = "go"
  /\ proxies' = [proxies EXCEPT ![s] = "starting"]
  /\ daemons' = [daemons EXCEPT ![s] = "starting"]
  /\ Goto(s, "dect -i")
  /\ UNCHANGED <<nvs, args, test, loaded, stack, inits, mails>>

(* Slip: the script does not sleep.                                        *)
Settled_slip(s) == TRUE

(* The sleep before dect -i outlasts the start of the script's own         *)
(* processes; those of another script may still be starting.               *)
Settled(s) == proxies[s] # "starting" /\ daemons[s] # "starting"

DaemonRuns == \E p \in Starter : daemons[p] \in {"linked", "cut off"}

(* Without a daemon dect cannot connect.                                   *)
DectInit(s) ==
  /\ pc[s] = "dect -i" /\ Settled(s)
  /\ inits' = IF DaemonRuns THEN inits + 1 ELSE inits
  /\ Goto(s, "end")
  /\ UNCHANGED <<nvs, args, test, loaded, stack, proxies, daemons, mails>>

-----------------------------------------------------------------------------
(* The processes.                                                          *)

(* dectproxy needs its device and its port.                                *)
ProxyStarts(p) ==
  /\ proxies[p] = "starting"
  /\ proxies' = [proxies EXCEPT ![p] = IF loaded /\ ~ProxyRuns THEN "running" ELSE "none"]
  /\ UNCHANGED <<nvs, args, pc, test, loaded, stack, daemons, inits, mails>>

(* A refused connection is printed (dect_event) and no error; a port in    *)
(* use ends the second dectmngr.                                           *)
DaemonStarts(p) ==
  /\ daemons[p] = "starting"
  /\ daemons' = [daemons EXCEPT ![p] = IF DaemonRuns THEN "none"
                                       ELSE IF ProxyRuns THEN "linked" ELSE "cut off"]
  /\ UNCHANGED <<nvs, args, pc, test, loaded, stack, proxies, inits, mails>>

(* What a short file does not fill of the buffer is as malloc left it.     *)
nvs_get_data(f) ==
  IF TESTMODE_OFFSET < f.size THEN {Byte(f, TESTMODE_OFFSET)} ELSE SUBSET Bits

(* dect_init: without the file the daemon exits; without the module there  *)
(* may be no /dev/dectshim either, and it gives up.                        *)
HandleInit(p) ==
  /\ inits > 0 /\ daemons[p] \in {"linked", "cut off"}
  /\ \/ /\ nvs # NoFile
        /\ \E byte \in nvs_get_data(nvs) :
             mails' = IF daemons[p] = "linked" THEN Append(mails, byte) ELSE mails
        /\ inits' = inits - 1 /\ UNCHANGED daemons
     \/ /\ ~loaded
        /\ inits' = inits - 1 /\ UNCHANGED <<daemons, mails>>
     \/ /\ nvs = NoFile
        /\ daemons' = [daemons EXCEPT ![p] = "none"]
        /\ inits' = 0 /\ UNCHANGED mails
  /\ UNCHANGED <<nvs, args, pc, test, loaded, stack, proxies>>

Deliver ==
  /\ mails # << >> /\ ProxyRuns
  /\ stack' = Head(mails) /\ mails' = Tail(mails)
  /\ UNCHANGED <<nvs, args, pc, test, loaded, proxies, daemons, inits>>

(* The system is up, and its first INIT under way.                         *)
Init ==
  /\ nvs \in NvsFiles
  /\ args \in [Script -> {"enable", "disable", "other"}]
  /\ pc = [s \in Script |-> "start"] /\ test = [s \in Script |-> {}]
  /\ loaded = TRUE /\ stack = NoByte
  /\ proxies = [NoProcess EXCEPT !["boot"] = "running"]
  /\ daemons = [NoProcess EXCEPT !["boot"] = "linked"]
  /\ inits = 1 /\ mails = << >>

Line(s) ==
  \/ Usage(s) \/ CalibRead(s) \/ CalibFails(s) \/ CalibWrite(s) \/ KillAll(s)
  \/ Rmmod(s) \/ Insmod(s) \/ StartDect(s) \/ DectInit(s)

Process(p) == ProxyStarts(p) \/ DaemonStarts(p) \/ HandleInit(p)

Next ==
  (\E s \in Script : Line(s)) \/ (\E p \in Starter : Process(p)) \/ Deliver

Spec == Init /\ [][Next]_vars

(* Processes that can run do.                                              *)
FairSpec ==
  /\ Spec /\ WF_vars(Deliver)
  /\ \A s \in Script : WF_vars(Line(s))
  /\ \A p \in Starter : WF_vars(ProxyStarts(p)) /\ WF_vars(DaemonStarts(p))
                            /\ WF_vars(HandleInit(p))

-----------------------------------------------------------------------------
(* Properties.                                                             *)

(* The file stays a file whose size covers what was written to it, and the *)
(* processes are in one of their states.                                   *)
TestTypeOK ==
  /\ nvs = NoFile \/ IsFile(nvs)
  /\ pc \in [Script -> {"start", "calib", "kill", "rmmod", "insmod", "go", "dect -i", "end"}]
  /\ test \in [Script -> SUBSET Bits]
  /\ loaded \in BOOLEAN /\ stack \in (SUBSET Bits) \cup {NoByte}
  /\ proxies \in [Starter -> {"none", "starting", "running"}]
  /\ daemons \in [Starter -> {"none", "starting", "linked", "cut off"}]
  /\ inits \in 0 .. Cardinality(Script) + 1
  /\ mails \in Seq(SUBSET Bits)

(* However dectcalibs overlap, and however short the file, calibration     *)
(* data survives: no step changes a bit of the file but bit 0 of the byte  *)
(* at 0x80, and the file never loses a byte.                               *)
OnlyTheTestBit ==
  [][nvs # NoFile =>
       /\ nvs'.size >= nvs.size
       /\ \A o \in DOMAIN nvs.data \cup DOMAIN nvs'.data :
            (Byte(nvs, o) \ Byte(nvs', o)) \cup (Byte(nvs', o) \ Byte(nvs, o))
               \subseteq IF o = 128 THEN {0} ELSE {}]_vars

(* nvsparse shows what dectcalib did: between a file with the test mode on *)
(* and the same file with it off, exactly the line InitialTestMode of the  *)
(* dump differs, and only a file that is too short for the table makes the *)
(* dump read past its buffer.                                              *)
DumpTellsTestMode ==
  nvs # NoFile =>
    LET Mode(on) == Written(nvs, Changed(Byte(nvs, TESTMODE_OFFSET), on))
        lines == {nvs_entry_table[i] : i \in DOMAIN nvs_entry_table}
        Past(e) == \E j \in DOMAIN Printed(nvs, e) :
                      Printed(nvs, e)[j] = NoByte
    IN /\ {e \in lines : Printed(Mode(TRUE), e) # Printed(Mode(FALSE), e)} =
            {InitialTestMode}
       /\ nvs.size >= DECT_NVS_SIZE => ~\E e \in lines : Past(e)

AllEnded == \A s \in Script : pc[s] = "end"

(* The daemon serves, with no connection to the stack: it started before   *)
(* its proxy did, or its proxy could not start.                            *)
CutOff == \E p \in Starter : daemons[p] = "cut off"

(* Once every script has ended, the stack comes to run with the test mode  *)
(* the file says and keeps to it, whatever the scripts did to each other   *)
(* -- unless there is no file, or the daemon runs without its proxy.       *)
TestModeTakesEffect ==
  AllEnded /\ (\E s \in Script : args[s] # "other") ~>
    [](\/ nvs = NoFile \/ CutOff
       \/ stack # NoByte /\ (0 \in stack) = (0 \in Byte(nvs, TESTMODE_OFFSET)))
=============================================================================
