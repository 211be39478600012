-------------------------- MODULE TestMode_proofs --------------------------
(* What dectcalib does to the file, for every file, any number of scripts  *)
(* and any way they overlap.                                               *)
EXTENDS TestMode, FiniteSetTheorems, SequenceTheorems, TLAPS

(* The bits in which two bytes differ.                                     *)
Differ(b, c) == (b \ c) \cup (c \ b)

(* The file is a file.                                                     *)
FileOK == nvs = NoFile \/ IsFile(nvs)

(* The lines a script can be at.                                           *)
Lines == {"start", "calib", "kill", "rmmod", "insmod", "go", "dect -i", "end"}

ScriptOK ==
  /\ pc \in [Script -> Lines]
  /\ test \in [Script -> SUBSET Bits]

(* A script between the read and the write of its dectcalib holds a byte   *)
(* that differs from the file's at most in the test bit, although others   *)
(* may have written the file meanwhile.                                    *)
Pending ==
  \A s \in Script : pc[s] = "calib" =>
    IsFile(nvs) /\ Differ(test[s], Byte(nvs, TESTMODE_OFFSET)) \subseteq {0}

IInv == FileOK /\ ScriptOK /\ Pending

-----------------------------------------------------------------------------
(* The operators.                                                          *)

(* Only bit 0 of a byte is changed.                                        *)
LEMMA ChangedDiffers ==
  ASSUME NEW b, NEW c, NEW on, Differ(b, c) \subseteq {0}
  PROVE  Differ(Changed(b, on), c) \subseteq {0}
BY DEF Differ, Changed

(* Two bytes that differ from a third in bit 0 at most do so from each     *)
(* other.                                                                  *)
LEMMA DiffersThrough ==
  ASSUME NEW b, NEW c, NEW d,
         Differ(b, d) \subseteq {0}, Differ(c, d) \subseteq {0}
  PROVE  Differ(b, c) \subseteq {0}
BY DEF Differ

(* What is read of a file is a byte.                                       *)
LEMMA ByteType ==
  ASSUME NEW f, IsFile(f), NEW o
  PROVE  Byte(f, o) \subseteq Bits
BY DEF Byte, IsFile

(* A changed byte is a byte.                                               *)
LEMMA ChangedType ==
  ASSUME NEW b, b \subseteq Bits, NEW on
  PROVE  Changed(b, on) \subseteq Bits
BY TestModeAssumption DEF Changed, TestModeAssumption

(* A write makes a file of a file.                                         *)
LEMMA WrittenIsFile ==
  ASSUME NEW f, IsFile(f), NEW b, b \subseteq Bits
  PROVE  IsFile(Written(f, b))
<1> DEFINE w == Written(f, b)
<1>1. DOMAIN w = {"size", "data"}
  BY DEF Written
<1>2. w.size \in Nat /\ w.size >= f.size /\ w.size > TESTMODE_OFFSET
  BY DEF Written, IsFile, TESTMODE_OFFSET
<1>3. DOMAIN w.data = DOMAIN f.data \cup {TESTMODE_OFFSET}
  BY DEF Written
<1>4. DOMAIN w.data \subseteq 0 .. w.size - 1
  BY <1>2, <1>3 DEF IsFile, TESTMODE_OFFSET
<1>5. \A o \in DOMAIN w.data : w.data[o] \subseteq Bits
  BY <1>3 DEF Written, IsFile
<1> QED
  BY <1>1, <1>2, <1>4, <1>5 DEF IsFile

(* A write changes one byte and loses none.                                *)
LEMMA WrittenBytes ==
  ASSUME NEW f, IsFile(f), NEW b
  PROVE  /\ Written(f, b).size >= f.size
         /\ Byte(Written(f, b), TESTMODE_OFFSET) = b
         /\ \A o : o # TESTMODE_OFFSET => Byte(Written(f, b), o) = Byte(f, o)
<1> DEFINE w == Written(f, b)
<1>1. w.size >= f.size
  BY DEF Written, IsFile, TESTMODE_OFFSET
<1>2. /\ DOMAIN w.data = DOMAIN f.data \cup {TESTMODE_OFFSET}
      /\ \A o \in DOMAIN w.data : w.data[o] = IF o = TESTMODE_OFFSET THEN b ELSE f.data[o]
  BY DEF Written
<1>3. Byte(w, TESTMODE_OFFSET) = b
  BY <1>2 DEF Byte
<1>4. ASSUME NEW o, o # TESTMODE_OFFSET
      PROVE  Byte(w, o) = Byte(f, o)
  BY <1>2, <1>4 DEF Byte
<1> QED
  BY <1>1, <1>3, <1>4

-----------------------------------------------------------------------------
(* The steps.                                                              *)

(* The scripts have not read the file at first.                            *)
LEMMA Initially == Init => IInv
<1> SUFFICES ASSUME Init PROVE IInv
  OBVIOUS
<1>1. FileOK
  BY TestModeAssumption DEF Init, FileOK, TestModeAssumption
<1>2. ScriptOK
  BY DEF Init, ScriptOK, Lines
<1>3. \A s \in Script : pc[s] # "calib"
  <2>1. \A s \in Script : pc[s] = "start"
    BY DEF Init
  <2> QED
    BY <2>1
<1>4. Pending
  BY <1>3, Zenon DEF Pending
<1> QED
  BY <1>1, <1>2, <1>4 DEF IInv

(* A step that leaves the file alone, reads nothing and sends no script    *)
(* between the read and the write.                                         *)
LEMMA FileUntouched ==
  ASSUME IInv, UNCHANGED <<nvs, test>>,
         \/ UNCHANGED pc
         \/ \E s \in Script, l \in Lines \ {"calib"} : pc' = [pc EXCEPT ![s] = l]
  PROVE  IInv'
<1>1. FileOK'
  BY DEF IInv, FileOK
<1>2. ScriptOK'
  BY DEF IInv, ScriptOK
<1>3. \A s \in Script : pc'[s] = "calib" => pc[s] = "calib"
  BY DEF IInv, ScriptOK
<1>4. Pending'
  BY <1>3 DEF IInv, Pending
<1> QED
  BY <1>1, <1>2, <1>4 DEF IInv

(* The byte that a script reads is the byte of the file.                   *)
LEMMA CalibReadKeeps ==
  ASSUME IInv, NEW s \in Script, CalibRead(s)
  PROVE  IInv'
<1>1. IsFile(nvs) /\ nvs' = nvs
  BY DEF IInv, FileOK, CalibRead
<1>2. test' = [test EXCEPT ![s] = Byte(nvs, TESTMODE_OFFSET)]
      /\ pc' = [pc EXCEPT ![s] = "calib"]
  BY DEF CalibRead, Goto
<1>3. ScriptOK'
  BY <1>1, <1>2, ByteType DEF IInv, ScriptOK, Lines
<1>4. ASSUME NEW t \in Script, pc'[t] = "calib"
      PROVE  Differ(test'[t], Byte(nvs, TESTMODE_OFFSET)) \subseteq {0}
  <2>1. CASE t = s
    BY <1>2, <2>1 DEF IInv, ScriptOK, Differ
  <2>2. CASE t # s
    BY <1>2, <1>4, <2>2 DEF IInv, ScriptOK, Pending
  <2> QED
    BY <2>1, <2>2
<1>5. Byte(nvs', TESTMODE_OFFSET) = Byte(nvs, TESTMODE_OFFSET) /\ IsFile(nvs')
  BY <1>1
<1>6. Pending'
  BY <1>4, <1>5 DEF Pending
<1>7. FileOK'
  BY <1>5 DEF FileOK
<1> QED
  BY <1>3, <1>6, <1>7 DEF IInv

(* What dectcalib writes, and that it differs from the file in the test    *)
(* bit at most.                                                            *)
LEMMA CalibWriteWrites ==
  ASSUME IInv, NEW s \in Script, CalibWrite(s)
  PROVE  \E b \in SUBSET Bits :
           /\ IsFile(nvs) /\ nvs' = Written(nvs, b)
           /\ Differ(b, Byte(nvs, TESTMODE_OFFSET)) \subseteq {0}
<1> DEFINE b == Changed(test[s], args[s] = "enable")
<1>1. pc[s] = "calib" /\ nvs' = Written(nvs, b)
  BY DEF CalibWrite
<1>2. IsFile(nvs) /\ Differ(test[s], Byte(nvs, TESTMODE_OFFSET)) \subseteq {0}
  BY <1>1, Zenon DEF IInv, Pending
<1>3. test[s] \subseteq Bits
  BY DEF IInv, ScriptOK
<1>4. b \subseteq Bits
  BY <1>3, ChangedType
<1>5. Differ(b, Byte(nvs, TESTMODE_OFFSET)) \subseteq {0}
  BY <1>2, ChangedDiffers
<1> QED
  BY <1>1, <1>2, <1>4, <1>5, Zenon

(* The other scripts that have read the file still hold its byte but for   *)
(* the test bit.                                                           *)
LEMMA CalibWriteKeeps ==
  ASSUME IInv, NEW s \in Script, CalibWrite(s)
  PROVE  IInv'
<1>1. PICK b \in SUBSET Bits :
        /\ IsFile(nvs) /\ nvs' = Written(nvs, b)
        /\ Differ(b, Byte(nvs, TESTMODE_OFFSET)) \subseteq {0}
  BY CalibWriteWrites
<1>2. UNCHANGED test /\ pc' = [pc EXCEPT ![s] = "kill"]
  BY DEF CalibWrite, Goto
<1>3. IsFile(nvs')
  BY <1>1, WrittenIsFile
<1>4. Byte(nvs', TESTMODE_OFFSET) = b
  BY <1>1, WrittenBytes
<1>5. ScriptOK'
  BY <1>2 DEF IInv, ScriptOK, Lines
<1>6. ASSUME NEW t \in Script, pc'[t] = "calib"
      PROVE  Differ(test'[t], Byte(nvs', TESTMODE_OFFSET)) \subseteq {0}
  <2>1. pc[t] = "calib"
    BY <1>2, <1>6 DEF IInv, ScriptOK
  <2>2. Differ(test[t], Byte(nvs, TESTMODE_OFFSET)) \subseteq {0}
    BY <2>1, Zenon DEF IInv, Pending
  <2>3. Differ(test[t], b) \subseteq {0}
    BY <1>1, <2>2, DiffersThrough
  <2> QED
    BY <1>2, <1>4, <2>3
<1>7. Pending'
  BY <1>3, <1>6 DEF Pending
<1>8. FileOK'
  BY <1>3 DEF FileOK
<1> QED
  BY <1>5, <1>7, <1>8 DEF IInv

(* No other step reads or writes the file.                                 *)
LEMMA NextKeeps ==
  ASSUME IInv, [Next]_vars
  PROVE  IInv'
<1> USE DEF Goto, Lines
<1>1. ASSUME NEW s \in Script, Line(s)
      PROVE  IInv'
  <2>1. CASE Usage(s)
    BY <2>1, FileUntouched DEF Usage
  <2>2. CASE CalibRead(s)
    BY <2>2, CalibReadKeeps
  <2>3. CASE CalibFails(s)
    BY <2>3, FileUntouched DEF CalibFails
  <2>4. CASE CalibWrite(s)
    BY <2>4, CalibWriteKeeps
  <2>5. CASE KillAll(s)
    BY <2>5, FileUntouched DEF KillAll
  <2>6. CASE Rmmod(s)
    BY <2>6, FileUntouched DEF Rmmod
  <2>7. CASE Insmod(s)
    BY <2>7, FileUntouched DEF Insmod
  <2>8. CASE StartDect(s)
    BY <2>8, FileUntouched DEF StartDect
  <2>9. CASE DectInit(s)
    BY <2>9, FileUntouched DEF DectInit
  <2> QED
    BY <1>1, <2>1, <2>2, <2>3, <2>4, <2>5, <2>6, <2>7, <2>8, <2>9 DEF Line
<1>2. ASSUME NEW p \in Starter, Process(p)
      PROVE  IInv'
  BY <1>2, FileUntouched DEF Process, ProxyStarts, DaemonStarts, HandleInit
<1>3. CASE Deliver
  BY <1>3, FileUntouched DEF Deliver
<1>4. CASE UNCHANGED vars
  BY <1>4, FileUntouched DEF vars
<1> QED
  BY <1>1, <1>2, <1>3, <1>4 DEF Next

(* However many scripts overlap, what a dectcalib holds between its read   *)
(* and its write differs from the file in the test bit at most.            *)
THEOREM ReadStaysFresh == Spec => []IInv
<1>1. Init => IInv
  BY Initially
<1>2. IInv /\ [Next]_vars => IInv'
  BY NextKeeps
<1> QED
  BY <1>1, <1>2, PTL DEF Spec

-----------------------------------------------------------------------------
(* The property.                                                           *)

(* What OnlyTheTestBit says of one step, but for its condition.            *)
OnlyBitZero ==
  /\ nvs'.size >= nvs.size
  /\ \A o \in DOMAIN nvs.data \cup DOMAIN nvs'.data :
       Differ(Byte(nvs, o), Byte(nvs', o)) \subseteq IF o = 128 THEN {0} ELSE {}

(* Only the write of dectcalib changes the file.                           *)
LEMMA OnlyCalibWrites ==
  ASSUME [Next]_vars
  PROVE  nvs' = nvs \/ \E s \in Script : CalibWrite(s)
<1>1. ASSUME NEW s \in Script, Line(s)
      PROVE  nvs' = nvs \/ CalibWrite(s)
  BY <1>1 DEF Line, Usage, CalibRead, CalibFails, KillAll, Rmmod, Insmod, StartDect, DectInit
<1>2. ASSUME NEW p \in Starter, Process(p)
      PROVE  nvs' = nvs
  BY <1>2 DEF Process, ProxyStarts, DaemonStarts, HandleInit
<1>3. CASE Deliver
  BY <1>3 DEF Deliver
<1>4. CASE UNCHANGED vars
  BY <1>4 DEF vars
<1> QED
  BY <1>1, <1>2, <1>3, <1>4 DEF Next

(* One step of any process.                                                *)
LEMMA StepChangesTestBit ==
  ASSUME IInv, [Next]_vars, nvs # NoFile
  PROVE  OnlyBitZero
<1>1. IsFile(nvs)
  BY DEF IInv, FileOK
<1>2. CASE nvs' = nvs
  BY <1>1, <1>2 DEF OnlyBitZero, Differ, IsFile
<1>3. ASSUME NEW s \in Script, CalibWrite(s)
      PROVE  OnlyBitZero
  <2>1. PICK b \in SUBSET Bits :
          /\ nvs' = Written(nvs, b)
          /\ Differ(b, Byte(nvs, TESTMODE_OFFSET)) \subseteq {0}
    BY <1>3, CalibWriteWrites
  <2>2. nvs'.size >= nvs.size
    BY <1>1, <2>1, WrittenBytes
  <2>3. Byte(nvs', 128) = b /\ Differ(b, Byte(nvs, 128)) \subseteq {0}
    BY <1>1, <2>1, WrittenBytes DEF TESTMODE_OFFSET
  <2>4. Differ(Byte(nvs, 128), Byte(nvs', 128)) \subseteq {0}
    BY <2>3 DEF Differ
  <2>5. ASSUME NEW o, o # 128
        PROVE  Differ(Byte(nvs, o), Byte(nvs', o)) \subseteq {}
    <3>1. Byte(nvs', o) = Byte(nvs, o)
      BY <1>1, <2>1, <2>5, WrittenBytes DEF TESTMODE_OFFSET
    <3> QED
      BY <3>1 DEF Differ
  <2> QED
    BY <2>2, <2>4, <2>5 DEF OnlyBitZero
<1> QED
  BY <1>2, <1>3, OnlyCalibWrites

(* For every file, any number of scripts and however their dectcalibs      *)
(* overlap: no step changes a bit of the file but bit 0 of the byte at     *)
(* 0x80, and the file never loses a byte.                                  *)
THEOREM CalibrationSurvives == Spec => OnlyTheTestBit
<1>1. IInv /\ [Next]_vars => [nvs # NoFile => OnlyBitZero]_vars
  BY StepChangesTestBit
<1>2. IInv /\ [Next]_vars =>
        [nvs # NoFile =>
           /\ nvs'.size >= nvs.size
           /\ \A o \in DOMAIN nvs.data \cup DOMAIN nvs'.data :
                (Byte(nvs, o) \ Byte(nvs', o)) \cup (Byte(nvs', o) \ Byte(nvs, o))
                   \subseteq IF o = 128 THEN {0} ELSE {}]_vars
  BY <1>1 DEF OnlyBitZero, Differ
<1> QED
  BY <1>2, ReadStaysFresh, PTL DEF Spec, OnlyTheTestBit

-----------------------------------------------------------------------------
(* The processes.                                                          *)

ProcessesOK ==
  /\ loaded \in BOOLEAN /\ stack \in (SUBSET Bits) \cup {NoByte}
  /\ proxies \in [Starter -> {"none", "starting", "running"}]
  /\ daemons \in [Starter -> {"none", "starting", "linked", "cut off"}]
  /\ mails \in Seq(SUBSET Bits)

(* The INIT of the boot, and one of each script that has ended, at most    *)
(* are waiting.                                                            *)
Ended == {s \in Script : pc[s] = "end"}
InitsCounted == inits \in Nat /\ inits <= Cardinality(Ended) + 1

(* What the stack is given of a file is a byte.                            *)
LEMMA GivenType ==
  ASSUME NEW f, IsFile(f)
  PROVE  nvs_get_data(f) \subseteq SUBSET Bits
BY ByteType DEF nvs_get_data

(* The first of the mails, and the others.                                 *)
LEMMA MailsType ==
  ASSUME NEW q \in Seq(SUBSET Bits)
  PROVE  /\ \A b \in SUBSET Bits : Append(q, b) \in Seq(SUBSET Bits)
         /\ q # << >> => Head(q) \in SUBSET Bits /\ Tail(q) \in Seq(SUBSET Bits)
OBVIOUS

(* The system is up at first.                                              *)
LEMMA ProcessesInitially == Init => ProcessesOK
<1> SUFFICES ASSUME Init PROVE ProcessesOK
  OBVIOUS
<1>1. /\ loaded = TRUE /\ stack = NoByte /\ inits = 1 /\ mails = << >>
      /\ proxies = [NoProcess EXCEPT !["boot"] = "running"]
      /\ daemons = [NoProcess EXCEPT !["boot"] = "linked"]
  BY DEF Init
<1>2. proxies \in [Starter -> {"none", "starting", "running"}]
  BY <1>1 DEF NoProcess
<1>3. daemons \in [Starter -> {"none", "starting", "linked", "cut off"}]
  BY <1>1 DEF NoProcess
<1>4. mails \in Seq(SUBSET Bits)
  BY <1>1
<1> QED BY <1>1, <1>2, <1>3, <1>4 DEF ProcessesOK

(* What a process does keeps the processes in their states.                *)
LEMMA ProcessKeeps ==
  ASSUME IInv, ProcessesOK, NEW p \in Starter, Process(p)
  PROVE  ProcessesOK'
<1>1. CASE ProxyStarts(p)
  <2>1. UNCHANGED <<loaded, stack, daemons, mails>>
    BY <1>1 DEF ProxyStarts
  <2>2. proxies' \in [Starter -> {"none", "starting", "running"}]
    BY <1>1 DEF ProxyStarts, ProcessesOK
  <2> QED BY <2>1, <2>2 DEF ProcessesOK
<1>2. CASE DaemonStarts(p)
  <2>1. UNCHANGED <<loaded, stack, proxies, mails>>
    BY <1>2 DEF DaemonStarts
  <2>2. daemons' \in [Starter -> {"none", "starting", "linked", "cut off"}]
    BY <1>2 DEF DaemonStarts, ProcessesOK
  <2> QED BY <2>1, <2>2 DEF ProcessesOK
<1>3. CASE HandleInit(p)
  <2>1. UNCHANGED <<loaded, stack, proxies>>
    BY <1>3 DEF HandleInit
  <2>2. daemons' = daemons \/ daemons' = [daemons EXCEPT ![p] = "none"]
    BY <1>3 DEF HandleInit
  <2>3. mails' \in Seq(SUBSET Bits)
    <3>1. mails \in Seq(SUBSET Bits)
      BY DEF ProcessesOK
    <3>2. CASE mails' = mails
      BY <3>1, <3>2
    <3>3. ASSUME NEW b \in nvs_get_data(nvs), nvs # NoFile, mails' = Append(mails, b)
          PROVE  mails' \in Seq(SUBSET Bits)
      <4>1. b \in SUBSET Bits
        BY <3>3, GivenType, Zenon DEF IInv, FileOK
      <4> QED BY <3>1, <3>3, <4>1, MailsType
    <3>4. \/ mails' = mails
          \/ nvs # NoFile /\ \E b \in nvs_get_data(nvs) : mails' = Append(mails, b)
      <4>1. \/ nvs # NoFile /\ \E b \in nvs_get_data(nvs) :
                 mails' = IF daemons[p] = "linked" THEN Append(mails, b) ELSE mails
            \/ mails' = mails
        BY <1>3 DEF HandleInit
      <4> QED BY <4>1
    <3> QED BY <3>2, <3>3, <3>4
  <2>4. daemons' \in [Starter -> {"none", "starting", "linked", "cut off"}]
    BY <2>2 DEF ProcessesOK
  <2> QED BY <2>1, <2>3, <2>4 DEF ProcessesOK
<1> QED BY <1>1, <1>2, <1>3 DEF Process

(* It handles INITs and brings none.                                       *)
LEMMA ProcessHandles ==
  ASSUME inits \in Nat, NEW p \in Starter, Process(p)
  PROVE  inits' \in Nat /\ inits' <= inits /\ UNCHANGED pc
<1>1. /\ UNCHANGED pc
      /\ inits' = inits \/ inits' = 0 \/ (inits > 0 /\ inits' = inits - 1)
  BY DEF Process, ProxyStarts, DaemonStarts, HandleInit
<1> QED BY <1>1

(* And so does a line of a script.                                         *)
LEMMA LineKeeps ==
  ASSUME ProcessesOK, NEW s \in Script, Line(s)
  PROVE  ProcessesOK'
<1>1. CASE Usage(s) \/ CalibRead(s) \/ CalibFails(s) \/ CalibWrite(s)
  BY <1>1 DEF Usage, CalibRead, CalibFails, CalibWrite, processes, ProcessesOK
<1>2. CASE KillAll(s)
  <2>1. << >> \in Seq(SUBSET Bits) /\ 0 \in Nat
    OBVIOUS
  <2>2. /\ NoProcess \in [Starter -> {"none", "starting", "running"}]
        /\ NoProcess \in [Starter -> {"none", "starting", "linked", "cut off"}]
    BY DEF NoProcess
  <2> QED BY <1>2, <2>1, <2>2 DEF KillAll, ProcessesOK
<1>3. CASE Rmmod(s)
  BY <1>3 DEF Rmmod, processes, ProcessesOK
<1>4. CASE Insmod(s)
  BY <1>4 DEF Insmod, processes, ProcessesOK
<1>5. CASE StartDect(s)
  BY <1>5 DEF StartDect, ProcessesOK
<1>6. CASE DectInit(s)
  <2>1. UNCHANGED <<loaded, stack, proxies, daemons, mails>>
    BY <1>6 DEF DectInit
  <2> QED BY <2>1 DEF ProcessesOK
<1> QED BY <1>1, <1>2, <1>3, <1>4, <1>5, <1>6 DEF Line

(* And so does dectproxy.                                                  *)
LEMMA DeliverKeeps ==
  ASSUME ProcessesOK, Deliver
  PROVE  ProcessesOK' /\ inits' = inits
<1>1. mails \in Seq(SUBSET Bits) /\ mails # << >>
  BY DEF ProcessesOK, Deliver
<1>2. stack' \in SUBSET Bits /\ mails' \in Seq(SUBSET Bits)
  BY <1>1, MailsType DEF Deliver
<1>3. UNCHANGED <<loaded, proxies, daemons, inits>>
  BY DEF Deliver
<1> QED BY <1>2, <1>3 DEF ProcessesOK

-----------------------------------------------------------------------------
(* The INIT packets.                                                       *)

(* The scripts that have ended are some of the scripts.                    *)
LEMMA EndedFinite ==
  IsFiniteSet(Ended) /\ Cardinality(Ended) \in Nat /\ Cardinality(Ended) <= Cardinality(Script)
<1>1. IsFiniteSet(Script)
  BY TestModeAssumption DEF TestModeAssumption
<1>2. Ended \subseteq Script
  BY DEF Ended
<1> QED BY <1>1, <1>2, FS_Subset, FS_CardinalityType

(* A line is left for another by a script that had not ended, and only its *)
(* dect -i adds an INIT.                                                   *)
LEMMA LineGoes ==
  ASSUME NEW s \in Script, Line(s)
  PROVE  /\ pc[s] # "end"
         /\ \E l \in Lines : pc' = [pc EXCEPT ![s] = l]
         /\ \/ inits' = inits \/ inits' = 0
            \/ inits' = inits + 1 /\ pc' = [pc EXCEPT ![s] = "end"]
BY DEF Line, Usage, CalibRead, CalibFails, CalibWrite, KillAll, Rmmod, Insmod,
       StartDect, DectInit, Goto, Lines, processes

(* A line counts its INIT.                                                 *)
LEMMA LineCounts ==
  ASSUME ScriptOK, InitsCounted, NEW s \in Script, Line(s)
  PROVE  InitsCounted'
<1>1. /\ pc[s] # "end" /\ pc \in [Script -> Lines]
      /\ \E l \in Lines : pc' = [pc EXCEPT ![s] = l]
      /\ \/ inits' = inits \/ inits' = 0
         \/ inits' = inits + 1 /\ pc' = [pc EXCEPT ![s] = "end"]
  BY LineGoes DEF ScriptOK
<1>2. Ended' = Ended \/ Ended' = Ended \cup {s}
  BY <1>1 DEF Ended
<1>3. s \notin Ended
  BY <1>1 DEF Ended
<1>4. Cardinality(Ended \cup {s}) = Cardinality(Ended) + 1
  BY <1>3, EndedFinite, FS_AddElement
<1>5. inits \in Nat /\ Cardinality(Ended) \in Nat
  BY EndedFinite DEF InitsCounted
<1>6. CASE inits' = inits \/ inits' = 0
  BY <1>2, <1>4, <1>5, <1>6 DEF InitsCounted
<1>7. CASE inits' = inits + 1 /\ pc' = [pc EXCEPT ![s] = "end"]
  <2>1. Ended' = Ended \cup {s}
    BY <1>1, <1>7 DEF Ended
  <2> QED BY <2>1, <1>4, <1>5, <1>7 DEF InitsCounted
<1> QED BY <1>1, <1>6, <1>7

(* The other steps add none.                                               *)
LEMMA OthersCount ==
  ASSUME InitsCounted, inits' \in Nat, inits' <= inits, UNCHANGED pc
  PROVE  InitsCounted'
<1>1. Ended' = Ended
  BY DEF Ended
<1>2. Cardinality(Ended') = Cardinality(Ended)
  BY <1>1
<1>3. /\ inits \in Nat /\ inits <= Cardinality(Ended) + 1
      /\ Cardinality(Ended) \in Nat
  BY EndedFinite DEF InitsCounted
<1> QED BY <1>2, <1>3 DEF InitsCounted

(* All of it together.                                                     *)
AllOK == IInv /\ ProcessesOK /\ InitsCounted

LEMMA AllInitially == Init => AllOK
<1> SUFFICES ASSUME Init PROVE AllOK
  OBVIOUS
<1>1. InitsCounted
  BY EndedFinite DEF Init, InitsCounted
<1> QED BY <1>1, Initially, ProcessesInitially DEF AllOK

LEMMA AllNext == AllOK /\ [Next]_vars => AllOK'
<1> SUFFICES ASSUME AllOK, [Next]_vars PROVE AllOK'
  OBVIOUS
<1>1. IInv'
  BY NextKeeps DEF AllOK
<1>2. ASSUME NEW s \in Script, Line(s) PROVE ProcessesOK' /\ InitsCounted'
  BY <1>2, LineKeeps, LineCounts DEF AllOK, IInv
<1>3. ASSUME NEW p \in Starter, Process(p) PROVE ProcessesOK' /\ InitsCounted'
  <2>1. ProcessesOK'
    BY <1>3, ProcessKeeps DEF AllOK
  <2>2. inits' \in Nat /\ inits' <= inits /\ UNCHANGED pc
    BY <1>3, ProcessHandles DEF AllOK, InitsCounted
  <2> QED BY <2>1, <2>2, OthersCount DEF AllOK
<1>4. CASE Deliver
  <2>1. ProcessesOK' /\ inits' = inits /\ UNCHANGED pc
    BY <1>4, DeliverKeeps DEF AllOK, Deliver
  <2>2. inits' \in Nat /\ inits' <= inits
    BY <2>1 DEF AllOK, InitsCounted
  <2> QED BY <1>1, <2>1, <2>2, OthersCount DEF AllOK
<1>5. CASE UNCHANGED vars
  <2>1. ProcessesOK'
    BY <1>5 DEF vars, processes, AllOK, ProcessesOK
  <2>2. inits' \in Nat /\ inits' <= inits /\ UNCHANGED pc
    BY <1>5 DEF vars, processes, AllOK, InitsCounted
  <2> QED BY <2>1, <2>2, <1>1, OthersCount DEF AllOK
<1> QED BY <1>1, <1>2, <1>3, <1>4, <1>5 DEF Next, AllOK

(* Type correctness, for every file and any number of scripts: the file    *)
(* stays a file that covers what dectcalib wrote to it, the stack is given *)
(* bytes, and no more than one INIT for each script (src/dect_testmode)    *)
(* and one for the boot wait for dectmngr.                                 *)
THEOREM TestModeTypes == Spec => []TestTypeOK
<1>1. AllOK => TestTypeOK
  <2> SUFFICES ASSUME AllOK PROVE TestTypeOK
    OBVIOUS
  <2>1. inits \in 0 .. Cardinality(Script) + 1
    <3>1. Cardinality(Script) \in Nat
      BY TestModeAssumption, FS_CardinalityType DEF TestModeAssumption
    <3>2. inits \in Nat /\ inits <= Cardinality(Ended) + 1
      BY DEF AllOK, InitsCounted
    <3> QED BY <3>1, <3>2, EndedFinite
  <2> QED BY <2>1 DEF AllOK, IInv, FileOK, ScriptOK, Lines, ProcessesOK, TestTypeOK
<1> QED BY <1>1, AllInitially, AllNext, PTL DEF Spec

-----------------------------------------------------------------------------
(* The dump.                                                               *)

(* An entry of the table: it lies in a whole file, and no other than       *)
(* InitialTestMode has a byte at 0x80.                                     *)
Clear(e) ==
  /\ e \in Nat \X Nat /\ e[1] + e[2] <= DECT_NVS_SIZE
  /\ e = InitialTestMode \/ e[1] + e[2] <= 128 \/ e[1] > 128

(* The entries, part by part of the table.                                 *)
LEMMA RadioClear ==
  RadioEntries \in Seq(Nat \X Nat) /\ \A i \in 1 .. 30 : Clear(RadioEntries[i])
BY DEF RadioEntries, Clear, InitialTestMode, DECT_NVS_SIZE

LEMMA PowerClear ==
  PowerEntries \in Seq(Nat \X Nat) /\ \A i \in 1 .. 22 : Clear(PowerEntries[i])
BY DEF PowerEntries, Clear, InitialTestMode, DECT_NVS_SIZE

LEMMA HandsetClear ==
  HandsetEntries \in Seq(Nat \X Nat) /\ \A i \in 1 .. 21 : Clear(HandsetEntries[i])
BY DEF HandsetEntries, Clear, InitialTestMode, DECT_NVS_SIZE

(* How many there are, and which of them is InitialTestMode.               *)
LEMMA Lengths ==
  /\ Len(RadioEntries) = 30 /\ Len(PowerEntries) = 22 /\ Len(HandsetEntries) = 21
  /\ HandsetEntries[17] = InitialTestMode
<1>1. Len(RadioEntries) = 30
  BY DEF RadioEntries
<1>2. Len(PowerEntries) = 22
  BY DEF PowerEntries
<1>3. Len(HandsetEntries) = 21 /\ HandsetEntries[17] = InitialTestMode
  BY DEF HandsetEntries, InitialTestMode
<1> QED BY <1>1, <1>2, <1>3

(* The whole table.                                                        *)
LEMMA TableClear ==
  /\ \A i \in DOMAIN nvs_entry_table : Clear(nvs_entry_table[i])
  /\ \E i \in DOMAIN nvs_entry_table : nvs_entry_table[i] = InitialTestMode
<1> DEFINE E == Nat \X Nat
           rp == RadioEntries \o PowerEntries
           t == rp \o HandsetEntries
<1>1. /\ RadioEntries \in Seq(E) /\ PowerEntries \in Seq(E)
      /\ HandsetEntries \in Seq(E)
  BY RadioClear, PowerClear, HandsetClear
<1>2. /\ rp \in Seq(E) /\ Len(rp) = Len(RadioEntries) + Len(PowerEntries)
      /\ \A i \in 1 .. Len(RadioEntries) + Len(PowerEntries) : rp[i] =
           IF i <= Len(RadioEntries) THEN RadioEntries[i]
           ELSE PowerEntries[i - Len(RadioEntries)]
  BY <1>1, ConcatProperties, Zenon
<1> HIDE DEF rp
<1>3. /\ t \in Seq(E) /\ Len(t) = Len(rp) + Len(HandsetEntries)
      /\ \A i \in 1 .. Len(rp) + Len(HandsetEntries) : t[i] =
           IF i <= Len(rp) THEN rp[i] ELSE HandsetEntries[i - Len(rp)]
  <2>1. rp \in Seq(E) /\ HandsetEntries \in Seq(E)
    BY <1>1, <1>2, Zenon
  <2> QED BY <2>1, ConcatProperties, Zenon
<1>a. nvs_entry_table = t
  BY DEF nvs_entry_table, rp
<1> HIDE DEF t
<1>4. Len(rp) = 52 /\ Len(t) = 73
  BY <1>2, <1>3, Lengths
<1>5. \A i \in 1 .. 52 : rp[i] = IF i <= 30 THEN RadioEntries[i]
                                 ELSE PowerEntries[i - 30]
  <2>1. Len(RadioEntries) = 30 /\ Len(PowerEntries) = 22
    BY Lengths
  <2>2. \A i \in 1 .. 30 + 22 : rp[i] = IF i <= 30 THEN RadioEntries[i]
                                       ELSE PowerEntries[i - 30]
    BY <1>2, <2>1, Zenon
  <2>3. 30 + 22 = 52
    OBVIOUS
  <2> QED BY <2>2, <2>3, Zenon
<1>6. \A i \in 1 .. 73 : t[i] = IF i <= 52 THEN rp[i] ELSE HandsetEntries[i - 52]
  <2>1. Len(rp) = 52 /\ Len(HandsetEntries) = 21
    BY <1>4, Lengths
  <2>2. \A i \in 1 .. 52 + 21 : t[i] = IF i <= 52 THEN rp[i]
                                      ELSE HandsetEntries[i - 52]
    BY <1>3, <2>1, Zenon
  <2>3. 52 + 21 = 73
    OBVIOUS
  <2> QED BY <2>2, <2>3, Zenon
<1>7. DOMAIN t = 1 .. 73
  <2>1. t \in Seq(E) /\ Len(t) = 73
    BY <1>3, <1>4, Zenon
  <2> QED BY <2>1
<1>8. \A i \in 1 .. 52 : Clear(rp[i])
  <2> TAKE i \in 1 .. 52
  <2>1. CASE i <= 30
    <3>1. i \in 1 .. 30
      BY <2>1
    <3>2. rp[i] = RadioEntries[i]
      BY <2>1, <1>5, Zenon
    <3> QED BY <3>1, <3>2, RadioClear, Zenon
  <2>2. CASE ~(i <= 30)
    <3>1. i - 30 \in 1 .. 22
      BY <2>2
    <3>2. rp[i] = PowerEntries[i - 30]
      BY <2>2, <1>5, Zenon
    <3> QED BY <3>1, <3>2, PowerClear, Zenon
  <2> QED BY <2>1, <2>2
<1>9. \A i \in 1 .. 73 : Clear(t[i])
  <2> TAKE i \in 1 .. 73
  <2>1. CASE i <= 52
    <3>1. i \in 1 .. 52
      BY <2>1
    <3>2. t[i] = rp[i]
      BY <2>1, <1>6, Zenon
    <3> QED BY <3>1, <3>2, <1>8, Zenon
  <2>2. CASE ~(i <= 52)
    <3>1. i - 52 \in 1 .. 21
      BY <2>2
    <3>2. t[i] = HandsetEntries[i - 52]
      BY <2>2, <1>6, Zenon
    <3> QED BY <3>1, <3>2, HandsetClear, Zenon
  <2> QED BY <2>1, <2>2
<1>10. t[69] = InitialTestMode
  <2>1. 69 \in 1 .. 73 /\ ~(69 <= 52) /\ 69 - 52 = 17
    OBVIOUS
  <2> QED BY <2>1, <1>6, Lengths
<1> QED BY <1>a, <1>7, <1>9, <1>10

(* Two files of one size, the same but for the byte at 0x80.               *)
LEMMA PrintedAlike ==
  ASSUME NEW f, NEW g, f.size = g.size,
         \A o : o # TESTMODE_OFFSET => Byte(f, o) = Byte(g, o),
         NEW e, Clear(e), e # InitialTestMode
  PROVE  Printed(f, e) = Printed(g, e)
<1>1. e \in Nat \X Nat /\ (e[1] + e[2] <= 128 \/ e[1] > 128)
  BY DEF Clear
<1>2. \A j \in 0 .. e[2] - 1 : e[1] + j # TESTMODE_OFFSET
  BY <1>1 DEF TESTMODE_OFFSET
<1>3. \A j \in 0 .. e[2] - 1 : Byte(f, e[1] + j) = Byte(g, e[1] + j)
  BY <1>2, Zenon
<1> QED BY <1>3, Zenon DEF Printed

(* InitialTestMode prints the byte at 0x80.                                *)
LEMMA PrintedTestMode ==
  ASSUME NEW f, f.size \in Nat, f.size > TESTMODE_OFFSET
  PROVE  /\ 0 \in DOMAIN Printed(f, InitialTestMode)
         /\ Printed(f, InitialTestMode)[0] = Byte(f, TESTMODE_OFFSET)
<1>1. InitialTestMode[1] = 128 /\ InitialTestMode[2] = 1
  BY DEF InitialTestMode
<1>2. 0 \in 0 .. InitialTestMode[2] - 1 /\ InitialTestMode[1] + 0 = TESTMODE_OFFSET
  BY <1>1 DEF TESTMODE_OFFSET
<1> QED BY <1>2 DEF Printed

(* A byte is not what lies past a buffer.                                  *)
LEMMA NoByteIsNone ==
  ASSUME NEW b, b \subseteq Bits
  PROVE  b # NoByte
BY TestModeAssumption DEF TestModeAssumption, NoByte

(* In a file as large as the table reads, no entry reads past it.          *)
LEMMA WholeFileCovers ==
  ASSUME NEW f, IsFile(f), f.size >= DECT_NVS_SIZE, NEW e, Clear(e),
         NEW j \in DOMAIN Printed(f, e)
  PROVE  Printed(f, e)[j] # NoByte
<1>1. e \in Nat \X Nat /\ e[1] + e[2] <= 4096 /\ f.size \in Nat /\ f.size >= 4096
  BY DEF Clear, DECT_NVS_SIZE, IsFile
<1>2. j \in 0 .. e[2] - 1
  BY DEF Printed
<1>3. e[1] + j < f.size
  BY <1>1, <1>2
<1>4. Printed(f, e)[j] = Byte(f, e[1] + j)
  BY <1>2, <1>3 DEF Printed
<1> QED BY <1>4, ByteType, NoByteIsNone

(* For every file, of any size and with any bits in it: nvsparse           *)
(* (nvs_entry_table in src/nvsparse.c) and dectcalib (TESTMODE_OFFSET)     *)
(* mean the same byte, no other line of the dump depends on it, and a      *)
(* whole file is dumped without reading past it.                           *)
THEOREM DumpShowsTestMode == Spec => []DumpTellsTestMode
<1>1. FileOK => DumpTellsTestMode
  <2> SUFFICES ASSUME IsFile(nvs) PROVE DumpTellsTestMode
    BY DEF FileOK, DumpTellsTestMode
  <2> DEFINE Mode(on) == Written(nvs, Changed(Byte(nvs, TESTMODE_OFFSET), on))
             lines == {nvs_entry_table[i] : i \in DOMAIN nvs_entry_table}
             Past(e) == \E j \in DOMAIN Printed(nvs, e) : Printed(nvs, e)[j] = NoByte
             f == Mode(TRUE)
             g == Mode(FALSE)
  <2>1. \A e \in lines : Clear(e)
    BY TableClear
  <2>2. InitialTestMode \in lines
    BY TableClear
  <2>3. /\ f.size = g.size /\ f.size \in Nat /\ f.size > TESTMODE_OFFSET
        /\ g.size \in Nat /\ g.size > TESTMODE_OFFSET
    BY DEF Written, IsFile, TESTMODE_OFFSET
  <2>4. /\ Byte(f, TESTMODE_OFFSET) = Byte(nvs, TESTMODE_OFFSET) \cup {0}
        /\ Byte(g, TESTMODE_OFFSET) = Byte(nvs, TESTMODE_OFFSET) \ {0}
    BY WrittenBytes DEF Changed
  <2>5. \A o : o # TESTMODE_OFFSET => Byte(f, o) = Byte(g, o)
    <3>1. \A o : o # TESTMODE_OFFSET => Byte(f, o) = Byte(nvs, o)
      BY WrittenBytes, Zenon
    <3>2. \A o : o # TESTMODE_OFFSET => Byte(g, o) = Byte(nvs, o)
      BY WrittenBytes, Zenon
    <3> QED BY <3>1, <3>2, Zenon
  <2> HIDE DEF f, g, lines
  <2>6. Printed(f, InitialTestMode) # Printed(g, InitialTestMode)
    <3>1. /\ Printed(f, InitialTestMode)[0] = Byte(f, TESTMODE_OFFSET)
          /\ Printed(g, InitialTestMode)[0] = Byte(g, TESTMODE_OFFSET)
      BY <2>3, PrintedTestMode
    <3> QED BY <3>1, <2>4
  <2>7. \A e \in lines : e # InitialTestMode => Printed(f, e) = Printed(g, e)
    BY <2>1, <2>3, <2>5, PrintedAlike, Zenon
  <2>8. {e \in lines : Printed(f, e) # Printed(g, e)} = {InitialTestMode}
    BY <2>2, <2>6, <2>7
  <2>9. nvs.size >= DECT_NVS_SIZE => ~\E e \in lines : Past(e)
    BY <2>1, WholeFileCovers, Zenon
  <2> QED BY <2>8, <2>9, Zenon DEF DumpTellsTestMode, f, g, lines
<1>2. IInv => DumpTellsTestMode
  BY <1>1 DEF IInv
<1> QED BY <1>2, ReadStaysFresh, PTL
=============================================================================
