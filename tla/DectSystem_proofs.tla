-------------------------- MODULE DectSystem_proofs --------------------------
(* What the daemon and the stack guarantee together, for every length of   *)
(* the handset table, all commands, files, identities and bounds: theorems *)
(* about DectSystem.                                                       *)
(*                                                                         *)
(* Goes says of a C function, as a relation between the records before and *)
(* after the call, what the invariants of the system need of all but the   *)
(* few functions that change the table, the pings or ask for an identity.  *)
(*                                                                         *)
(* SysType and InStep, Agrees of the requests under way, are inductive by  *)
(* themselves.  Each further property needs to know what is on the link:   *)
(*   GhostsGo   a dropped handset that is shown, or named by a listing,    *)
(*              has the confirmation of its deletion behind it;            *)
(*   Undone     a listed handset that is not shown has a listing due;      *)
(*   Calls      at most one call is set up, and a ringing handset is shown *)
(*              as pinging with its reference or confirmation, or has its  *)
(*              release on the link;                                       *)
(*   Identities an identity that is not the handset's own has a query on   *)
(*              the link that leads to it, a listing due, or a gap before  *)
(*              it; GhostsGo, QueriesCurrent and Ascends say that answers  *)
(*              on the link are of use.                                    *)
EXTENDS DectSystem, DectMngr_proofs, FiniteSetTheorems, FunctionTheorems,
        SequenceTheorems

USE DEF DISABLED, DELAYED_START, ENABLED_, AUTO

(* A stack that is on and open as given, and then works off the requests   *)
(* q, is left as the daemon says in s.                                     *)
Agrees(q, on, open, s) ==
  /\ \A i \in DOMAIN q : IsLast(q, i, Switches) =>
       (s.radio = ENABLED_) = (q[i].prim = "START_PROTOCOL_REQ")
  /\ (\A i \in DOMAIN q : q[i].prim \notin Switches) => (s.radio = ENABLED_) = on
  /\ s.reg_mode = ENABLED_ =>
       /\ \A i \in DOMAIN q : IsLast(q, i, Modes) => q[i].arg = 1
       /\ (\A i \in DOMAIN q : q[i].prim \notin Modes) => open

(* What is written keeps the stack in step with the daemon.                *)
StaysInStep(s, t) ==
  \A q \in Seq(Request), on \in BOOLEAN, open \in BOOLEAN :
    Agrees(q \o s.out, on, open, s) => Agrees(q \o t.out, on, open, t)

(* No call and no query of an identity was asked for.                      *)
Mute(s) ==
  \A i \in DOMAIN s.out :
    s.out[i].prim \notin {"CC_SETUP_REQ", "GET_HANDSET_IPUI_REQ"}

(* The tables agree but for who is present.                                *)
SameTable(s, t) ==
  \A h \in Handset :
    /\ t.handset[h].registered = s.handset[h].registered
    /\ t.handset[h].pinging = s.handset[h].pinging
    /\ t.handset[h].ipui = s.handset[h].ipui

Goes(s, t) ==
  /\ t \in State /\ StaysInStep(s, t)
  /\ SameTable(s, t) /\ t.pingTimers = s.pingTimers
  /\ t.CallReference = s.CallReference /\ t.listTimers >= s.listTimers
  /\ Mute(s) => Mute(t)

-----------------------------------------------------------------------------
(* Requests on the link.                                                   *)

LEMMA AgreesAppend ==
  ASSUME NEW q \in Seq(Request), NEW on \in BOOLEAN, NEW open \in BOOLEAN,
         NEW s, NEW t, NEW r \in Request, Agrees(q, on, open, s),
         IF r.prim \in Switches
         THEN (t.radio = ENABLED_) = (r.prim = "START_PROTOCOL_REQ")
         ELSE t.radio = s.radio,
         t.reg_mode = ENABLED_ =>
           IF r.prim \in Modes THEN r.arg = 1 ELSE s.reg_mode = ENABLED_
  PROVE  Agrees(Append(q, r), on, open, t)
<1> DEFINE p == Append(q, r)
<1>1. /\ Len(p) = Len(q) + 1 /\ p[Len(q) + 1] = r /\ Len(q) \in Nat
      /\ DOMAIN p = 1 .. Len(q) + 1 /\ DOMAIN q = 1 .. Len(q)
      /\ \A i \in 1 .. Len(q) : p[i] = q[i]
  OBVIOUS
<1> HIDE DEF p
<1>2. ASSUME NEW prims, r.prim \in prims, NEW i, IsLast(p, i, prims)
      PROVE  p[i] = r
  BY <1>1, <1>2 DEF IsLast
<1>3. ASSUME NEW prims, r.prim \notin prims, NEW i, IsLast(p, i, prims)
      PROVE  IsLast(q, i, prims) /\ p[i] = q[i]
  BY <1>1, <1>3 DEF IsLast
<1>4. ASSUME NEW prims, \A i \in DOMAIN p : p[i].prim \notin prims
      PROVE  r.prim \notin prims /\ \A i \in DOMAIN q : q[i].prim \notin prims
  BY <1>1, <1>4
<1>5. ASSUME NEW i \in DOMAIN p, IsLast(p, i, Switches)
      PROVE  (t.radio = ENABLED_) = (p[i].prim = "START_PROTOCOL_REQ")
  <2>1. CASE r.prim \in Switches
    BY <1>2, <1>5, <2>1
  <2>2. CASE r.prim \notin Switches
    BY <1>1, <1>3, <1>5, <2>2 DEF Agrees, IsLast
  <2> QED BY <2>1, <2>2
<1>6. ASSUME \A i \in DOMAIN p : p[i].prim \notin Switches
      PROVE  (t.radio = ENABLED_) = on
  BY <1>4, <1>6 DEF Agrees
<1>7. ASSUME t.reg_mode = ENABLED_, NEW i \in DOMAIN p, IsLast(p, i, Modes)
      PROVE  p[i].arg = 1
  <2>1. CASE r.prim \in Modes
    BY <1>2, <1>7, <2>1
  <2>2. CASE r.prim \notin Modes
    BY <1>1, <1>3, <1>7, <2>2 DEF Agrees, IsLast
  <2> QED BY <2>1, <2>2
<1>8. ASSUME t.reg_mode = ENABLED_, \A i \in DOMAIN p : p[i].prim \notin Modes
      PROVE  open
  BY <1>4, <1>8 DEF Agrees
<1> QED BY <1>5, <1>6, <1>7, <1>8 DEF Agrees, p

(* The first request is worked off.                                        *)
LEMMA AgreesTail ==
  ASSUME NEW q \in Seq(Request), q # << >>, NEW on \in BOOLEAN,
         NEW open \in BOOLEAN, NEW s, Agrees(q, on, open, s),
         NEW on2 \in BOOLEAN, NEW open2 \in BOOLEAN,
         IF Head(q).prim \in Switches
         THEN on2 = (Head(q).prim = "START_PROTOCOL_REQ") ELSE on2 = on,
         IF Head(q).prim \in Modes THEN open2 = (Head(q).arg = 1) ELSE open2 = open
  PROVE  Agrees(Tail(q), on2, open2, s)
<1> DEFINE p == Tail(q)
           r == Head(q)
<1>1. /\ Len(q) \in Nat \ {0} /\ q[1] = r
      /\ DOMAIN p = 1 .. Len(q) - 1 /\ DOMAIN q = 1 .. Len(q)
      /\ \A i \in 1 .. Len(q) - 1 : p[i] = q[i + 1]
  OBVIOUS
<1> HIDE DEF p, r
<1>2. ASSUME NEW prims, NEW i, IsLast(p, i, prims)
      PROVE  i + 1 \in DOMAIN q /\ IsLast(q, i + 1, prims) /\ p[i] = q[i + 1]
  <2>1. i \in 1 .. Len(q) - 1 /\ p[i].prim \in prims
    BY <1>1, <1>2 DEF IsLast
  <2>2. ASSUME NEW j \in DOMAIN q, j > i + 1
        PROVE  q[j].prim \notin prims
    <3>1. j - 1 \in DOMAIN p /\ j - 1 > i /\ p[j - 1] = q[j]
      BY <1>1, <2>1, <2>2
    <3> QED BY <1>2, <3>1 DEF IsLast
  <2> QED BY <1>1, <2>1, <2>2 DEF IsLast
<1>3. ASSUME NEW prims, \A i \in DOMAIN p : p[i].prim \notin prims
      PROVE  /\ r.prim \in prims => IsLast(q, 1, prims)
             /\ r.prim \notin prims => \A i \in DOMAIN q : q[i].prim \notin prims
  <2>1. \A j \in DOMAIN q : j > 1 => q[j].prim \notin prims
    <3> SUFFICES ASSUME NEW j \in DOMAIN q, j > 1
                 PROVE  q[j].prim \notin prims
      OBVIOUS
    <3>1. j - 1 \in DOMAIN p /\ p[j - 1] = q[j]
      BY <1>1
    <3> QED BY <1>3, <3>1
  <2> QED BY <1>1, <2>1 DEF IsLast
<1>4. ASSUME NEW i \in DOMAIN p, IsLast(p, i, Switches)
      PROVE  (s.radio = ENABLED_) = (p[i].prim = "START_PROTOCOL_REQ")
  BY <1>2, <1>4 DEF Agrees
<1>5. ASSUME \A i \in DOMAIN p : p[i].prim \notin Switches
      PROVE  (s.radio = ENABLED_) = on2
  <2>1. CASE r.prim \in Switches
    BY <1>1, <1>3, <1>5, <2>1 DEF Agrees, r
  <2>2. CASE r.prim \notin Switches
    BY <1>3, <1>5, <2>2 DEF Agrees, r
  <2> QED BY <2>1, <2>2
<1>6. ASSUME s.reg_mode = ENABLED_, NEW i \in DOMAIN p, IsLast(p, i, Modes)
      PROVE  p[i].arg = 1
  BY <1>2, <1>6 DEF Agrees
<1>7. ASSUME s.reg_mode = ENABLED_, \A i \in DOMAIN p : p[i].prim \notin Modes
      PROVE  open2
  <2>1. CASE r.prim \in Modes
    <3>1. IsLast(q, 1, Modes) /\ 1 \in DOMAIN q
      BY <1>1, <1>3, <1>7, <2>1
    <3>2. q[1].arg = 1
      BY <1>7, <3>1 DEF Agrees
    <3>3. Head(q).prim \in Modes /\ Head(q).arg = 1
      BY <1>1, <2>1, <3>2 DEF r
    <3> QED BY <3>3
  <2>2. CASE r.prim \notin Modes
    BY <1>3, <1>7, <2>2 DEF Agrees, r
  <2> QED BY <2>1, <2>2
<1> QED BY <1>4, <1>5, <1>6, <1>7 DEF Agrees, p

-----------------------------------------------------------------------------
(* The C functions that leave table, pings and identities alone.           *)

LEMMA GoesTrans ==
  ASSUME NEW s \in State, NEW t, NEW u, Goes(s, t), Goes(t, u)
  PROVE  Goes(s, u)
<1>1. u.listTimers >= s.listTimers
  BY DEF Goes, State
<1> QED BY <1>1 DEF Goes, StaysInStep, SameTable

(* Nothing is written, the radio is left alone, and no window is opened.   *)
LEMMA SilentGoes ==
  ASSUME NEW s \in State, NEW t \in State, t.out = s.out, t.radio = s.radio,
         t.reg_mode = ENABLED_ => s.reg_mode = ENABLED_,
         SameTable(s, t), t.pingTimers = s.pingTimers,
         t.CallReference = s.CallReference, t.listTimers >= s.listTimers
  PROVE  Goes(s, t)
<1>1. StaysInStep(s, t)
  BY DEF StaysInStep, Agrees
<1>2. Mute(s) => Mute(t)
  BY DEF Mute
<1> QED BY <1>1, <1>2 DEF Goes

(* One request is written, and the radio and the window are as it says.    *)
LEMMA SaysSo ==
  ASSUME NEW s \in State, NEW t \in State, NEW r \in Request,
         t.out = Append(s.out, r),
         IF r.prim \in Switches
         THEN (t.radio = ENABLED_) = (r.prim = "START_PROTOCOL_REQ")
         ELSE t.radio = s.radio,
         t.reg_mode = ENABLED_ =>
           IF r.prim \in Modes THEN r.arg = 1 ELSE s.reg_mode = ENABLED_
  PROVE  StaysInStep(s, t)
<1> SUFFICES ASSUME NEW q \in Seq(Request), NEW on \in BOOLEAN,
                    NEW open \in BOOLEAN, Agrees(q \o s.out, on, open, s)
             PROVE  Agrees(q \o t.out, on, open, t)
  BY DEF StaysInStep
<1>1. s.out \in Seq(Request)
  BY DEF State
<1> DEFINE p == q \o s.out
<1>2. p \in Seq(Request) /\ q \o t.out = Append(p, r)
  BY <1>1
<1>3. Agrees(p, on, open, s)
  OBVIOUS
<1> HIDE DEF p
<1>4. Agrees(Append(p, r), on, open, t)
  BY <1>2, <1>3, AgreesAppend
<1> QED BY <1>2, <1>4

LEMMA SayGoes ==
  ASSUME NEW s \in State, NEW t \in State, NEW r \in Request,
         t.out = Append(s.out, r),
         IF r.prim \in Switches
         THEN (t.radio = ENABLED_) = (r.prim = "START_PROTOCOL_REQ")
         ELSE t.radio = s.radio,
         t.reg_mode = ENABLED_ =>
           IF r.prim \in Modes THEN r.arg = 1 ELSE s.reg_mode = ENABLED_,
         r.prim \notin {"CC_SETUP_REQ", "GET_HANDSET_IPUI_REQ"},
         SameTable(s, t), t.pingTimers = s.pingTimers,
         t.CallReference = s.CallReference, t.listTimers >= s.listTimers
  PROVE  Goes(s, t)
<1>1. StaysInStep(s, t)
  BY SaysSo
<1>2. ASSUME Mute(s)
      PROVE  Mute(t)
  <2>1. s.out \in Seq(Request)
    BY DEF State
  <2>2. \A i \in DOMAIN t.out : t.out[i] = r \/ (i \in DOMAIN s.out /\ t.out[i] = s.out[i])
    BY <2>1
  <2> QED BY <1>2, <2>2 DEF Mute
<1> QED BY <1>1, <1>2 DEF Goes

LEMMA GoesRefl ==
  ASSUME NEW s \in State
  PROVE  Goes(s, s)
BY SilentGoes DEF SameTable, State

LEMMA LedGoes ==
  ASSUME NEW s \in State
  PROVE  Goes(s, control_led(s))
<1> DEFINE t == control_led(s)
<1> SUFFICES Goes(s, t)
  OBVIOUS
<1>1. t \in State /\ t.handset = s.handset
  BY LedEffect DEF Keeps
<1>2. /\ t.out = s.out /\ t.radio = s.radio /\ t.reg_mode = s.reg_mode
      /\ t.pingTimers = s.pingTimers /\ t.CallReference = s.CallReference
      /\ t.listTimers = s.listTimers /\ s.listTimers \in Nat
  BY DEF control_led, State
<1> HIDE DEF t
<1> QED BY <1>1, <1>2, SilentGoes DEF SameTable

(* Requests that neither switch the radio or the mode nor ask for a call   *)
(* or an identity.                                                         *)
Plain == RequestPrims \ ({"CC_SETUP_REQ", "GET_HANDSET_IPUI_REQ"} \cup Switches \cup Modes)

LEMMA WriteGoes ==
  ASSUME NEW s \in State, NEW prim \in Plain, NEW arg \in Nat
  PROVE  Goes(s, write_dect(s, prim, arg))
<1> DEFINE t == write_dect(s, prim, arg)
           r == [prim |-> prim, arg |-> arg]
<1> SUFFICES Goes(s, t)
  OBVIOUS
<1>1. t \in State /\ t.handset = s.handset
  BY WriteQuiet DEF Quiet, Keeps, Plain
<1>2. /\ t.out = Append(s.out, r) /\ t.radio = s.radio /\ t.reg_mode = s.reg_mode
      /\ t.pingTimers = s.pingTimers /\ t.CallReference = s.CallReference
      /\ t.listTimers = s.listTimers /\ s.listTimers \in Nat
  BY DEF write_dect, State
<1>3. r \in Request /\ r.prim = prim
  BY DEF Request, Plain
<1>4. r.prim \notin Switches \cup Modes \cup {"CC_SETUP_REQ", "GET_HANDSET_IPUI_REQ"}
  BY <1>3 DEF Plain
<1> HIDE DEF t, r
<1> QED BY <1>1, <1>2, <1>3, <1>4, SayGoes DEF SameTable

LEMMA RadioGoes ==
  ASSUME NEW s \in State, NEW enable \in BOOLEAN
  PROVE  Goes(s, dect_radio(s, enable))
<1> DEFINE start == [prim |-> "START_PROTOCOL_REQ", arg |-> 0]
           stop == [prim |-> "STOP_PROTOCOL_REQ", arg |-> 0]
<1>0. start \in Request /\ stop \in Request
  BY DEF Request, RequestPrims
<1>1. ASSUME enable, s.radio = DISABLED
      PROVE  Goes(s, start_protocol(s))
  <2> DEFINE t == start_protocol(s)
  <2> SUFFICES Goes(s, t)
    OBVIOUS
  <2>1. t \in State /\ t.handset = s.handset /\ t.radio = ENABLED_
    BY StartEffect DEF Keeps
  <2>2. /\ t.out = Append(s.out, start) /\ t.reg_mode = s.reg_mode
        /\ t.pingTimers = s.pingTimers /\ t.CallReference = s.CallReference
        /\ t.listTimers = s.listTimers /\ s.listTimers \in Nat
    BY DEF start_protocol, control_led, write_dect, State
  <2> HIDE DEF t
  <2> QED BY <1>0, <2>1, <2>2, SayGoes DEF SameTable, Switches, Modes
<1>2. ASSUME ~enable, s.radio = ENABLED_
      PROVE  Goes(s, stop_protocol(s))
  <2> DEFINE t == stop_protocol(s)
  <2> SUFFICES Goes(s, t)
    OBVIOUS
  <2>1. t \in State /\ t.handset = s.handset /\ t.radio = DISABLED
    BY StopEffect DEF Keeps
  <2>2. /\ t.out = Append(s.out, stop) /\ t.reg_mode = s.reg_mode
        /\ t.pingTimers = s.pingTimers /\ t.CallReference = s.CallReference
        /\ t.listTimers = s.listTimers /\ s.listTimers \in Nat
    BY DEF stop_protocol, control_led, write_dect, State
  <2> HIDE DEF t
  <2> QED BY <1>0, <2>1, <2>2, SayGoes DEF SameTable, Switches, Modes
<1> QED BY <1>1, <1>2, GoesRefl DEF dect_radio

LEMMA PerhapsGoes ==
  ASSUME NEW s \in State
  PROVE  Goes(s, perhaps_disable_protocol(s))
<1> DEFINE r == IF s.config = AUTO THEN dect_radio(s, AnyRegistered(s)) ELSE s
<1>1. AnyRegistered(s) \in BOOLEAN
  BY DEF AnyRegistered
<1>2. Goes(s, r)
  BY <1>1, RadioGoes, GoesRefl
<1>3. perhaps_disable_protocol(s) = control_led(r)
  BY DEF perhaps_disable_protocol
<1> HIDE DEF r
<1>4. Goes(r, control_led(r))
  BY <1>2, LedGoes DEF Goes
<1> QED BY <1>2, <1>3, <1>4, GoesTrans

(* A record that differs from s in nothing Goes looks at.                  *)
LEMMA AsideGoes ==
  ASSUME NEW s \in State, NEW t \in State, t.out = s.out, t.radio = s.radio,
         t.reg_mode = s.reg_mode \/ t.reg_mode # ENABLED_,
         t.handset = s.handset, t.pingTimers = s.pingTimers,
         t.CallReference = s.CallReference, t.listTimers >= s.listTimers
  PROVE  Goes(s, t)
BY SilentGoes DEF SameTable

LEMMA InitCfmGoes ==
  ASSUME NEW s \in State
  PROVE  LET t == init_cfm(s)
         IN /\ Goes(s, t)
            /\ \E i \in DOMAIN t.out : t.out[i].prim = "CC_FEATURES_REQ"
<1> DEFINE w == write_dect(s, "CC_FEATURES_REQ", 0)
           t == [w EXCEPT !.dect_init = TRUE]
<1>1. Goes(s, w)
  BY WriteGoes DEF Plain, RequestPrims, Switches, Modes
<1>2. w.out = Append(s.out, [prim |-> "CC_FEATURES_REQ", arg |-> 0])
  BY DEF write_dect, State
<1>3. \E i \in DOMAIN w.out : w.out[i].prim = "CC_FEATURES_REQ"
  BY <1>2 DEF State
<1>4. init_cfm(s) = t
  BY DEF init_cfm
<1> HIDE DEF w
<1>5. /\ w \in State /\ t \in State /\ t.out = w.out /\ t.radio = w.radio
      /\ t.reg_mode = w.reg_mode /\ t.handset = w.handset
      /\ t.pingTimers = w.pingTimers /\ t.CallReference = w.CallReference
      /\ t.listTimers = w.listTimers /\ w.listTimers \in Nat
  BY <1>1 DEF Goes, State
<1> HIDE DEF t
<1>6. Goes(w, t)
  BY <1>5, AsideGoes
<1>7. Goes(s, t)
  BY <1>1, <1>6, GoesTrans
<1> QED BY <1>3, <1>4, <1>5, <1>7

LEMMA ScheduleGoes ==
  ASSUME NEW s \in State
  PROVE  Goes(s, list_handsets_schedule(s))
<1> DEFINE t == list_handsets_schedule(s)
<1> SUFFICES Goes(s, t)
  OBVIOUS
<1>1. s.listTimers \in Nat /\ s.listTimers + 1 \in Nat
  BY DEF State
<1>2. /\ t \in State /\ t.out = s.out /\ t.radio = s.radio
      /\ t.reg_mode = s.reg_mode /\ t.handset = s.handset
      /\ t.pingTimers = s.pingTimers /\ t.CallReference = s.CallReference
      /\ t.listTimers = s.listTimers + 1
  BY <1>1 DEF list_handsets_schedule, State
<1> HIDE DEF t
<1> QED BY <1>1, <1>2, AsideGoes

LEMMA ExitGoes ==
  ASSUME NEW s \in State
  PROVE  Goes(s, exit_failure(s))
<1> DEFINE t == exit_failure(s)
<1> SUFFICES Goes(s, t)
  OBVIOUS
<1>1. /\ t \in State /\ t.out = s.out /\ t.radio = s.radio
      /\ t.reg_mode = s.reg_mode /\ t.handset = s.handset
      /\ t.pingTimers = s.pingTimers /\ t.CallReference = s.CallReference
      /\ t.listTimers = s.listTimers /\ s.listTimers \in Nat
  BY DEF exit_failure, State
<1> HIDE DEF t
<1> QED BY <1>1, AsideGoes

LEMMA FeaturesGoes ==
  ASSUME NEW s \in State
  PROVE  LET t == features_cfm(s)
         IN /\ Goes(s, t)
            /\ \E i \in DOMAIN t.out : t.out[i].prim = "GET_REGISTRATION_COUNT_REQ"
<1> DEFINE r == IF s.config = ENABLED_ THEN dect_radio(s, TRUE) ELSE s
           t == write_dect(r, "GET_REGISTRATION_COUNT_REQ", 0)
<1>1. Goes(s, r)
  BY RadioGoes, GoesRefl
<1>2. features_cfm(s) = t
  BY DEF features_cfm, list_handsets
<1> HIDE DEF r
<1>3. r \in State
  BY <1>1 DEF Goes
<1>4. Goes(r, t)
  BY <1>3, WriteGoes DEF Plain, RequestPrims, Switches, Modes
<1>5. t.out = Append(r.out, [prim |-> "GET_REGISTRATION_COUNT_REQ", arg |-> 0])
  BY <1>3 DEF write_dect, State
<1>6. \E i \in DOMAIN t.out : t.out[i].prim = "GET_REGISTRATION_COUNT_REQ"
  BY <1>3, <1>5 DEF State
<1> HIDE DEF t
<1> QED BY <1>1, <1>2, <1>4, <1>6, GoesTrans

LEMMA StartWindowGoes ==
  ASSUME NEW s \in State
  PROVE  Goes(s, register_handsets_start(s))
<1> SUFFICES ASSUME s.radio = ENABLED_
             PROVE  Goes(s, register_handsets_start(s))
  BY GoesRefl DEF register_handsets_start
<1> DEFINE t == register_handsets_start(s)
           r == [prim |-> "SET_REGISTRATION_MODE_REQ", arg |-> 1]
<1> SUFFICES Goes(s, t)
  OBVIOUS
<1>1. t \in State /\ t.handset = s.handset /\ t.radio = s.radio
  BY StartWindowEffect
<1>2. /\ t.out = Append(s.out, r)
      /\ t.pingTimers = s.pingTimers /\ t.CallReference = s.CallReference
      /\ t.listTimers = s.listTimers /\ s.listTimers \in Nat
  BY DEF register_handsets_start, control_led, write_dect, State
<1>3. r \in Request
  BY DEF Request, RequestPrims
<1> HIDE DEF t
<1> QED BY <1>1, <1>2, <1>3, SayGoes DEF SameTable, Switches, Modes

LEMMA StopWindowGoes ==
  ASSUME NEW s \in State
  PROVE  Goes(s, register_handsets_stop(s))
<1> DEFINE r == [s EXCEPT !.reg_mode = DISABLED]
           l == control_led(r)
           t == write_dect(l, "SET_REGISTRATION_MODE_REQ", 0)
           q == [prim |-> "SET_REGISTRATION_MODE_REQ", arg |-> 0]
<1>1. register_handsets_stop(s) = IF l.radio = ENABLED_ THEN t ELSE l
  BY DEF register_handsets_stop
<1>2. /\ r \in State /\ r.out = s.out /\ r.radio = s.radio
      /\ r.reg_mode = DISABLED /\ r.handset = s.handset
      /\ r.pingTimers = s.pingTimers /\ r.CallReference = s.CallReference
      /\ r.listTimers = s.listTimers /\ s.listTimers \in Nat
  BY DEF State
<1> HIDE DEF r
<1>3. Goes(s, r)
  BY <1>2, AsideGoes
<1>4. Goes(r, l)
  BY <1>2, LedGoes
<1>5. l \in State /\ l.reg_mode = DISABLED
  BY <1>2, LedEffect DEF Keeps
<1> HIDE DEF l
<1>6. Goes(s, l)
  BY <1>3, <1>4, GoesTrans
<1>7. /\ t \in State /\ t.reg_mode = DISABLED /\ t.handset = l.handset
      /\ t.radio = l.radio
  <2>1. Quiet(l, t)
    BY <1>5, WriteQuiet DEF RequestPrims
  <2> HIDE DEF t
  <2> QED BY <1>5, <2>1 DEF Quiet, Keeps
<1>8. /\ t.out = Append(l.out, q)
      /\ t.pingTimers = l.pingTimers /\ t.CallReference = l.CallReference
      /\ t.listTimers = l.listTimers /\ l.listTimers \in Nat
  BY <1>5 DEF write_dect, State
<1>9. q \in Request
  BY DEF Request, RequestPrims
<1> HIDE DEF t
<1>10. Goes(l, t)
  BY <1>5, <1>7, <1>8, <1>9, SayGoes DEF SameTable, Switches, Modes
<1> QED BY <1>1, <1>6, <1>10, GoesTrans

LEMMA RegistrationGoes ==
  ASSUME NEW s \in State
  PROVE  Goes(s, registration(s))
<1>1. CASE s.config = DISABLED
  BY <1>1, GoesRefl DEF registration
<1>2. CASE s.config # DISABLED /\ s.radio = DISABLED
  <2> DEFINE r == dect_radio(s, TRUE)
             t == [r EXCEPT !.reg_mode = DELAYED_START, !.startTimers = @ + 1]
  <2>1. Goes(s, r)
    BY RadioGoes
  <2>2. registration(s) = t
    BY <1>2 DEF registration
  <2> HIDE DEF r
  <2>3. r \in State /\ r.startTimers + 1 \in Nat /\ r.listTimers \in Nat
    BY <2>1 DEF Goes, State
  <2>4. /\ t \in State /\ t.out = r.out /\ t.radio = r.radio
        /\ t.reg_mode = DELAYED_START /\ t.handset = r.handset
        /\ t.pingTimers = r.pingTimers /\ t.CallReference = r.CallReference
        /\ t.listTimers = r.listTimers
    BY <2>3 DEF State
  <2> HIDE DEF t
  <2>5. Goes(r, t)
    BY <2>3, <2>4, AsideGoes
  <2> QED BY <2>1, <2>2, <2>5, GoesTrans
<1>3. CASE s.config # DISABLED /\ s.radio # DISABLED /\ s.reg_mode # ENABLED_
  <2> DEFINE r == register_handsets_start(s)
             t == [r EXCEPT !.stopTimers = @ + 1]
  <2>1. Goes(s, r)
    BY StartWindowGoes
  <2>2. registration(s) = t
    BY <1>3 DEF registration
  <2> HIDE DEF r
  <2>3. r \in State /\ r.stopTimers + 1 \in Nat /\ r.listTimers \in Nat
    BY <2>1 DEF Goes, State
  <2>4. /\ t \in State /\ t.out = r.out /\ t.radio = r.radio
        /\ t.reg_mode = r.reg_mode /\ t.handset = r.handset
        /\ t.pingTimers = r.pingTimers /\ t.CallReference = r.CallReference
        /\ t.listTimers = r.listTimers
    BY <2>3 DEF State
  <2> HIDE DEF t
  <2>5. Goes(r, t)
    BY <2>3, <2>4, AsideGoes
  <2> QED BY <2>1, <2>2, <2>5, GoesTrans
<1>4. CASE s.radio # DISABLED /\ s.reg_mode = ENABLED_
  BY <1>4, GoesRefl DEF registration
<1> QED BY <1>1, <1>2, <1>3, <1>4

LEMMA DelayedStartGoes ==
  ASSUME NEW s \in State, s.startTimers > 0
  PROVE  Goes(s, start_expired(s))
<1> DEFINE r == [s EXCEPT !.startTimers = @ - 1]
<1>1. s.startTimers - 1 \in Nat /\ s.listTimers \in Nat
  BY DEF State
<1>2. /\ r \in State /\ r.out = s.out /\ r.radio = s.radio
      /\ r.reg_mode = s.reg_mode /\ r.handset = s.handset
      /\ r.pingTimers = s.pingTimers /\ r.CallReference = s.CallReference
      /\ r.listTimers = s.listTimers
  BY <1>1 DEF State
<1>3. start_expired(s) = IF r.reg_mode = DELAYED_START THEN registration(r) ELSE r
  BY DEF start_expired, registration_delayed_start
<1> HIDE DEF r
<1>4. Goes(s, r)
  BY <1>1, <1>2, AsideGoes
<1>5. Goes(r, registration(r))
  BY <1>2, RegistrationGoes
<1> QED BY <1>3, <1>4, <1>5, GoesTrans

LEMMA StopTimerGoes ==
  ASSUME NEW s \in State, s.stopTimers > 0
  PROVE  Goes(s, stop_expired(s))
<1> DEFINE r == [s EXCEPT !.stopTimers = @ - 1]
<1>1. s.stopTimers - 1 \in Nat /\ s.listTimers \in Nat
  BY DEF State
<1>2. /\ r \in State /\ r.out = s.out /\ r.radio = s.radio
      /\ r.reg_mode = s.reg_mode /\ r.handset = s.handset
      /\ r.pingTimers = s.pingTimers /\ r.CallReference = s.CallReference
      /\ r.listTimers = s.listTimers
  BY <1>1 DEF State
<1>3. stop_expired(s) = register_handsets_stop(r)
  BY DEF stop_expired
<1> HIDE DEF r
<1>4. Goes(s, r)
  BY <1>1, <1>2, AsideGoes
<1>5. Goes(r, register_handsets_stop(r))
  BY <1>2, StopWindowGoes
<1> QED BY <1>3, <1>4, <1>5, GoesTrans

LEMMA ReloadGoes ==
  ASSUME NEW s \in State, NEW cfg
  PROVE  Goes(s, reload_config(s, cfg))
<1>1. CASE cfg = "bad"
  BY <1>1, ExitGoes DEF reload_config
<1>2. CASE cfg # "bad"
  <2> DEFINE u == [s EXCEPT !.config = CfgRadio(cfg)]
  <2>1. CfgRadio(cfg) \in {DISABLED, ENABLED_, AUTO}
    BY DEF CfgRadio
  <2>2. /\ u \in State /\ u.out = s.out /\ u.radio = s.radio
        /\ u.reg_mode = s.reg_mode /\ u.handset = s.handset
        /\ u.pingTimers = s.pingTimers /\ u.CallReference = s.CallReference
        /\ u.listTimers = s.listTimers /\ s.listTimers \in Nat
    BY <2>1 DEF State
  <2>3. reload_config(s, cfg) =
          CASE u.config = ENABLED_ -> list_handsets_schedule(dect_radio(u, TRUE))
            [] u.config = AUTO     -> init_cfm(u)
            [] u.config = DISABLED -> dect_radio(u, FALSE)
    BY <1>2 DEF reload_config
  <2>4. u.config \in {DISABLED, ENABLED_, AUTO}
    BY <2>1 DEF State
  <2> HIDE DEF u
  <2>5. Goes(s, u)
    BY <2>2, AsideGoes
  <2>6. Goes(u, dect_radio(u, TRUE)) /\ Goes(u, dect_radio(u, FALSE))
    BY <2>2, RadioGoes
  <2>7. dect_radio(u, TRUE) \in State
    BY <2>6 DEF Goes
  <2>8. Goes(u, list_handsets_schedule(dect_radio(u, TRUE)))
    BY <2>2, <2>6, <2>7, ScheduleGoes, GoesTrans
  <2>9. Goes(u, init_cfm(u))
    BY <2>2, InitCfmGoes
  <2>10. Goes(u, reload_config(s, cfg))
    <3>1. CASE u.config = ENABLED_
      BY <2>3, <2>8, <3>1
    <3>2. CASE u.config = AUTO
      BY <2>3, <2>9, <3>2
    <3>3. CASE u.config = DISABLED
      BY <2>3, <2>6, <3>3
    <3> QED BY <2>4, <3>1, <3>2, <3>3
  <2> QED BY <2>5, <2>10, GoesTrans
<1> QED BY <1>1, <1>2

(* Requests of the ULE API, of INIT and of a deletion.                     *)
LEMMA OneWriteGoes ==
  ASSUME NEW s \in State, NEW arg \in Nat
  PROVE  /\ Goes(s, write_dect(s, "ULE_INIT_REQ", 0))
         /\ Goes(s, write_dect(s, "LINUX_INIT_REQ", 0))
         /\ Goes(s, write_dect(s, "ULE_PVC_CONFIG_RES", arg))
         /\ Goes(s, write_dect(s, "ULE_PVC_PENDING_RES", arg))
         /\ Goes(s, write_dect(s, "ULE_PVC_IWU_DATA_REQ", arg))
         /\ Goes(s, write_dect(s, "ULE_DATA_REQ", arg))
         /\ Goes(s, write_dect(s, "DELETE_REGISTRATION_REQ", arg))
<1>1. {"ULE_INIT_REQ", "LINUX_INIT_REQ", "ULE_PVC_CONFIG_RES",
       "ULE_PVC_PENDING_RES", "ULE_PVC_IWU_DATA_REQ", "ULE_DATA_REQ",
       "DELETE_REGISTRATION_REQ"} \subseteq Plain
  BY DEF Plain, RequestPrims, Switches, Modes
<1> QED BY <1>1, WriteGoes

LEMMA SwitchGoes ==
  ASSUME NEW s \in State, NEW switch_on \in Nat
  PROVE  Goes(s, ule_data_req(s, switch_on))
<1> DEFINE w == write_dect(s, "ULE_DATA_REQ", switch_on)
           t == [w EXCEPT !.switch_state_on =
                   IF switch_on \in {0, 1} THEN switch_on ELSE w.switch_state_on]
<1>1. Goes(s, w)
  BY OneWriteGoes
<1>2. ule_data_req(s, switch_on) = t
  BY DEF ule_data_req
<1> HIDE DEF w
<1>3. w \in State /\ w.listTimers \in Nat
  BY <1>1 DEF Goes, State
<1>4. /\ t \in State /\ t.out = w.out /\ t.radio = w.radio
      /\ t.reg_mode = w.reg_mode /\ t.handset = w.handset
      /\ t.pingTimers = w.pingTimers /\ t.CallReference = w.CallReference
      /\ t.listTimers = w.listTimers
  BY <1>3 DEF State
<1> HIDE DEF t
<1>5. Goes(w, t)
  BY <1>3, <1>4, AsideGoes
<1> QED BY <1>1, <1>2, <1>5, GoesTrans

LEMMA RadioCommandGoes ==
  ASSUME NEW s \in State, NEW enable \in BOOLEAN
  PROVE  LET t == dect_radio(s, enable)
         IN Goes(s, [t EXCEPT !.override = @ \/ t.radio # s.radio])
<1> DEFINE r == dect_radio(s, enable)
           o == r.override \/ r.radio # s.radio
           t == [r EXCEPT !.override = o]
<1> SUFFICES Goes(s, t)
  OBVIOUS
<1>1. Goes(s, r)
  BY RadioGoes
<1>2. o \in BOOLEAN
  <2>1. r.override \in BOOLEAN
    BY <1>1 DEF Goes, State
  <2> QED BY <2>1, Zenon
<1> HIDE DEF r, o
<1>3. r \in State /\ r.listTimers \in Nat
  BY <1>1 DEF Goes, State
<1>4. /\ t \in State /\ t.out = r.out /\ t.radio = r.radio
      /\ t.reg_mode = r.reg_mode /\ t.handset = r.handset
      /\ t.pingTimers = r.pingTimers /\ t.CallReference = r.CallReference
      /\ t.listTimers = r.listTimers
  BY <1>2, <1>3 DEF State
<1> HIDE DEF t
<1>5. Goes(r, t)
  BY <1>3, <1>4, AsideGoes
<1> QED BY <1>1, <1>5, GoesTrans

LEMMA PresentGoes ==
  ASSUME NEW s, Inv(s), NEW h \in Nat
  PROVE  Goes(s, present_ind(s, h))
<1> DEFINE t == present_ind(s, h)
<1> SUFFICES Goes(s, t)
  OBVIOUS
<1>1. t \in State /\ s \in State
  BY PresentInv DEF Inv
<1>2. /\ t.out = s.out /\ t.radio = s.radio /\ t.reg_mode = s.reg_mode
      /\ t.pingTimers = s.pingTimers /\ t.CallReference = s.CallReference
      /\ t.listTimers = s.listTimers /\ s.listTimers \in Nat
  BY <1>1 DEF present_ind, State
<1>3. SameTable(s, t)
  BY <1>1 DEF present_ind, bad_handsetnr, SameTable, State, Hset
<1> HIDE DEF t
<1> QED BY <1>1, <1>2, <1>3, SilentGoes

LEMMA ListUnlessGoes ==
  ASSUME NEW s \in State
  PROVE  Goes(s, ListUnlessRegistering(s))
BY InitCfmGoes, GoesRefl DEF ListUnlessRegistering

(* The packets whose handlers do more than Goes allows.                    *)
Special == {"GET_REGISTRATION_COUNT_CFM", "GET_HANDSET_IPUI_CFM",
            "DELETE_REGISTRATION_CFM", "CC_SETUP_CFM", "CC_CONNECT_IND"}

LEMMA PacketGoes ==
  ASSUME NEW s, Inv(s), NEW p, PacketOK(p), p.prim \notin Special
  PROVE  Goes(s, handle_dect_packet(s, p))
<1> s \in State /\ p.prim \in Prims /\ p.id \in Nat
  BY DEF Inv, PacketOK
<1>1. CASE p.prim = "LINUX_INIT_CFM"
  <2>1. Goes(s, init_cfm(s)) /\ init_cfm(s) \in State
    BY InitCfmGoes DEF Goes
  <2>2. Goes(init_cfm(s), ule_start(init_cfm(s)))
    BY <2>1, OneWriteGoes DEF ule_start
  <2> QED BY <1>1, <2>1, <2>2, GoesTrans DEF handle_dect_packet
<1>2. CASE p.prim = "CC_FEATURES_CFM"
  BY <1>2, FeaturesGoes DEF handle_dect_packet
<1>3. CASE p.prim = "SET_REGISTRATION_MODE_CFM"
  BY <1>3, ListUnlessGoes DEF handle_dect_packet
<1>4. CASE p.prim = "REGISTRATION_COMPLETE_IND"
  BY <1>4, StopWindowGoes DEF handle_dect_packet
<1>5. CASE p.prim = "HANDSET_PRESENT_IND"
  <2>1. Goes(s, present_ind(s, p.id)) /\ present_ind(s, p.id) \in State
    BY PresentGoes DEF Goes
  <2>2. Goes(s, ListUnlessRegistering(present_ind(s, p.id)))
    BY <2>1, ListUnlessGoes, GoesTrans
  <2> QED BY <1>5, <2>2 DEF handle_dect_packet
<1>6. CASE p.prim = "ULE_PVC_CONFIG_IND"
  BY <1>6, OneWriteGoes DEF handle_dect_packet, ule_pvc_config_ind
<1>7. CASE p.prim = "ULE_PVC_PENDING_IND"
  BY <1>7, OneWriteGoes DEF handle_dect_packet, ule_pvc_data_pending_ind
<1>8. CASE p.prim = "ULE_PVC_IWU_DATA_IND"
  <2> DEFINE w == write_dect(s, "ULE_PVC_IWU_DATA_REQ", p.id)
  <2>1. Goes(s, w) /\ w \in State
    BY OneWriteGoes DEF Goes
  <2>2. handle_dect_packet(s, p) = write_dect(w, "ULE_PVC_PENDING_RES", p.id)
    BY <1>8 DEF handle_dect_packet, ule_pvc_data_iwu_ind
  <2> HIDE DEF w
  <2>3. Goes(w, write_dect(w, "ULE_PVC_PENDING_RES", p.id))
    BY <2>1, OneWriteGoes
  <2> QED BY <2>1, <2>2, <2>3, GoesTrans
<1>9. CASE p.prim = "printed_only"
  BY <1>9, GoesRefl DEF handle_dect_packet
<1> QED
  BY <1>1, <1>2, <1>3, <1>4, <1>5, <1>6, <1>7, <1>8, <1>9 DEF Prims, Special

LEMMA CommandGoes ==
  ASSUME NEW s \in State, NEW c \in ClientPacket, NEW f \in Files,
         c.type # "PING_HSET"
  PROVE  Goes(s, handle_client_packet(s, c, f))
<1> c.data \in Nat /\ f.dev \in {"ok", "no_shim", "no_nvs"}
  <2>1. c.data \in 0 .. 255
    BY MngrAssumption DEF ClientPacket
  <2>2. f \in [cfg : {"on", "off", "auto", "bad"},
               dev : {"ok", "no_shim", "no_nvs"}]
    BY MngrAssumption
  <2> QED BY <2>1, <2>2
<1>1. CASE c.type \in {"REGISTRATION", "BUTTON"}
  BY <1>1, RegistrationGoes, GoesRefl DEF handle_client_packet
<1>2. CASE c.type = "ZWITCH"
  BY <1>2, SwitchGoes DEF handle_client_packet
<1>3. CASE c.type = "RADIO"
  <2>1. (c.data # 0) \in BOOLEAN
    OBVIOUS
  <2> QED BY <1>3, <2>1, RadioCommandGoes DEF handle_client_packet
<1>4. CASE c.type = "RELOAD_CONFIG"
  BY <1>4, ReloadGoes DEF handle_client_packet
<1>5. CASE c.type = "DELETE_HSET"
  BY <1>5, OneWriteGoes, GoesRefl DEF handle_client_packet, delete_hset
<1>6. CASE c.type = "LIST_HANDSETS"
  BY <1>6, InitCfmGoes DEF handle_client_packet
<1>7. CASE c.type = "ULE_START"
  BY <1>7, OneWriteGoes DEF handle_client_packet, ule_start
<1>8. CASE c.type = "INIT"
  <2>1. Goes(s, dect_init(s, f.dev))
    BY OneWriteGoes, ExitGoes, GoesRefl DEF dect_init
  <2> QED BY <1>8, <2>1 DEF handle_client_packet
<1>9. CASE c.type \notin {"REGISTRATION", "BUTTON", "ZWITCH", "RADIO",
                         "RELOAD_CONFIG", "DELETE_HSET", "LIST_HANDSETS",
                         "ULE_START", "INIT"}
  BY <1>9, GoesRefl DEF handle_client_packet
<1> QED BY <1>1, <1>2, <1>3, <1>4, <1>5, <1>6, <1>7, <1>8, <1>9

-----------------------------------------------------------------------------
(* The handlers that change the table, a ping, or ask for an identity.     *)

(* What they leave alone.                                                  *)
SameCalls(s, t) ==
  /\ t.pingTimers = s.pingTimers /\ t.CallReference = s.CallReference
  /\ \A h \in Handset : t.handset[h].pinging = s.handset[h].pinging

(* The only request is for the identity of h.                              *)
Queries(t, h) ==
  t.out = <<[prim |-> "GET_HANDSET_IPUI_REQ", arg |-> h]>>

LEMMA QueryEffect ==
  ASSUME NEW s \in State, s.out = << >>, NEW h \in Nat
  PROVE  LET t == get_handset_ipui(s, h)
         IN /\ t \in State /\ StaysInStep(s, t) /\ Queries(t, h)
            /\ t.handset = s.handset /\ t.pingTimers = s.pingTimers
            /\ t.CallReference = s.CallReference
            /\ t.listTimers = s.listTimers
<1> DEFINE t == write_dect(s, "GET_HANDSET_IPUI_REQ", h)
           r == [prim |-> "GET_HANDSET_IPUI_REQ", arg |-> h]
<1>1. t \in State
  BY WriteQuiet DEF Quiet, Keeps, RequestPrims
<1>2. /\ t.out = Append(s.out, r) /\ t.radio = s.radio /\ t.reg_mode = s.reg_mode
      /\ t.handset = s.handset /\ t.pingTimers = s.pingTimers
      /\ t.CallReference = s.CallReference /\ t.listTimers = s.listTimers
  BY DEF write_dect, State
<1>3. r \in Request
  BY DEF Request, RequestPrims
<1>4. Queries(t, h)
  BY <1>2 DEF Queries
<1>5. get_handset_ipui(s, h) = t
  BY DEF get_handset_ipui
<1> HIDE DEF t
<1>6. StaysInStep(s, t)
  BY <1>1, <1>2, <1>3, SaysSo DEF Switches, Modes
<1> QED BY <1>1, <1>2, <1>4, <1>5, <1>6

(* A table is put into s.                                                  *)
LEMMA TableEffect ==
  ASSUME NEW s \in State, NEW f \in [Handset -> Hset]
  PROVE  LET t == [s EXCEPT !.handset = f]
         IN /\ t \in State /\ StaysInStep(s, t)
            /\ t.handset = f /\ t.out = s.out /\ t.pingTimers = s.pingTimers
            /\ t.CallReference = s.CallReference
            /\ t.listTimers = s.listTimers /\ s.listTimers \in Nat
<1> DEFINE t == [s EXCEPT !.handset = f]
<1>1. /\ t \in State /\ t.out = s.out /\ t.radio = s.radio
      /\ t.reg_mode = s.reg_mode /\ t.handset = f
      /\ t.pingTimers = s.pingTimers /\ t.CallReference = s.CallReference
      /\ t.listTimers = s.listTimers /\ s.listTimers \in Nat
  BY DEF State
<1>2. StaysInStep(s, t)
  <2> HIDE DEF t
  <2> QED BY <1>1 DEF StaysInStep, Agrees
<1> QED BY <1>1, <1>2

LEMMA StepTrans ==
  ASSUME NEW s, NEW t, NEW u, StaysInStep(s, t), StaysInStep(t, u)
  PROVE  StaysInStep(s, u)
BY DEF StaysInStep

(* Exactly the handsets of the list come in; the first is asked about.     *)
LEMMA CountEffect ==
  ASSUME NEW s \in State, s.out = << >>, NEW ids \in Seq(Handset)
  PROVE  LET t == registration_count_cfm(s, TRUE, ids)
         IN /\ t \in State /\ StaysInStep(s, t) /\ SameCalls(s, t)
            /\ t.listTimers >= s.listTimers
            /\ \A h \in Handset :
                 /\ t.handset[h].registered =
                      (s.handset[h].registered \/ \E i \in DOMAIN ids : ids[i] = h)
                 /\ t.handset[h].ipui = s.handset[h].ipui
            /\ IF ids = << >> THEN Mute(t) ELSE Queries(t, ids[1])
<1> DEFINE f == [h \in Handset |->
                   IF \E i \in DOMAIN ids : ids[i] = h
                   THEN [s.handset[h] EXCEPT !.registered = TRUE]
                   ELSE s.handset[h]]
           m == [s EXCEPT !.handset = f]
           t == registration_count_cfm(s, TRUE, ids)
<1>1. GoodPrefix(ids) = 1 .. Len(ids) /\ DOMAIN ids = 1 .. Len(ids)
  <2>1. DOMAIN ids = 1 .. Len(ids) /\ Len(ids) \in Nat
        /\ \A i \in 1 .. Len(ids) : ids[i] \in Handset
    OBVIOUS
  <2>2. \A i \in 1 .. Len(ids) : \A j \in 1 .. i : ~bad_handsetnr(ids[j])
    BY <2>1 DEF bad_handsetnr
  <2> QED BY <2>1, <2>2 DEF GoodPrefix
<1>2. t = IF ids # << >> THEN get_handset_ipui(m, ids[1])
          ELSE perhaps_disable_protocol(m)
  BY <1>1 DEF registration_count_cfm, MarkRegistered
<1>3. f \in [Handset -> Hset]
      /\ \A h \in Handset :
           /\ f[h].registered =
                (s.handset[h].registered \/ \E i \in DOMAIN ids : ids[i] = h)
           /\ f[h].ipui = s.handset[h].ipui
           /\ f[h].pinging = s.handset[h].pinging
  <2>1. \A h \in Handset : s.handset[h] \in Hset
    BY DEF State
  <2>2. ASSUME NEW h \in Handset
        PROVE  /\ f[h] \in Hset
               /\ f[h].registered =
                    (s.handset[h].registered \/ \E i \in DOMAIN ids : ids[i] = h)
               /\ f[h].ipui = s.handset[h].ipui
               /\ f[h].pinging = s.handset[h].pinging
    BY <2>1 DEF Hset
  <2> QED BY <2>2
<1> SUFFICES /\ t \in State /\ StaysInStep(s, t) /\ SameCalls(s, t)
             /\ t.listTimers >= s.listTimers
             /\ \A h \in Handset :
                  /\ t.handset[h].registered = f[h].registered
                  /\ t.handset[h].ipui = f[h].ipui
             /\ IF ids = << >> THEN Mute(t) ELSE Queries(t, ids[1])
  BY <1>3
<1> HIDE DEF f
<1>4. /\ m \in State /\ StaysInStep(s, m)
      /\ m.handset = f /\ m.out = << >> /\ m.pingTimers = s.pingTimers
      /\ m.CallReference = s.CallReference
      /\ m.listTimers = s.listTimers /\ s.listTimers \in Nat
  BY <1>3, TableEffect
<1> HIDE DEF m, t
<1>5. CASE ids # << >>
  <2>1. ids[1] \in Nat
    <3>1. ids[1] \in Handset
      BY <1>5
    <3> QED BY <3>1, MngrAssumption DEF Handset
  <2>2. /\ t \in State /\ StaysInStep(m, t) /\ Queries(t, ids[1])
        /\ t.handset = f /\ t.pingTimers = m.pingTimers
        /\ t.CallReference = m.CallReference /\ t.listTimers = m.listTimers
    BY <1>2, <1>4, <1>5, <2>1, QueryEffect
  <2> QED BY <1>3, <1>4, <1>5, <2>2, StepTrans DEF SameCalls
<1>6. CASE ids = << >>
  <2>1. Goes(m, t)
    BY <1>2, <1>4, <1>6, PerhapsGoes
  <2>2. Mute(m)
    BY <1>4 DEF Mute
  <2> QED BY <1>3, <1>4, <1>6, <2>1, <2>2, StepTrans DEF Goes, SameCalls, SameTable
<1> QED BY <1>5, <1>6

(* An identity is stored, and the next handset is asked about if it is     *)
(* registered.                                                             *)
LEMMA IpuiEffect ==
  ASSUME NEW s \in State, s.out = << >>, NEW n \in Handset,
         NEW ipui \in Ipuis \cup {NoIpui}
  PROVE  LET t == handset_ipui_cfm(s, n, ipui)
         IN /\ t \in State /\ StaysInStep(s, t) /\ SameCalls(s, t)
            /\ t.listTimers >= s.listTimers
            /\ \A h \in Handset :
                 /\ t.handset[h].registered = s.handset[h].registered
                 /\ t.handset[h].ipui = IF h = n THEN ipui ELSE s.handset[h].ipui
            /\ IF IsRegistered(s, n + 1) THEN Queries(t, n + 1) ELSE Mute(t)
<1> DEFINE f == [s.handset EXCEPT ![n].ipui = ipui]
           m == [s EXCEPT !.handset = f]
           t == handset_ipui_cfm(s, n, ipui)
<1>1. f \in [Handset -> Hset]
      /\ \A h \in Handset :
           /\ f[h].registered = s.handset[h].registered
           /\ f[h].ipui = IF h = n THEN ipui ELSE s.handset[h].ipui
           /\ f[h].pinging = s.handset[h].pinging
  <2>1. s.handset \in [Handset -> Hset]
    BY DEF State
  <2> QED BY <2>1 DEF Hset
<1>2. m = [s EXCEPT !.handset[n].ipui = ipui]
  OBVIOUS
<1>3. t = IF IsRegistered(m, n + 1) THEN get_handset_ipui(m, n + 1)
          ELSE perhaps_disable_protocol(m)
  BY <1>2 DEF handset_ipui_cfm, bad_handsetnr
<1> SUFFICES /\ t \in State /\ StaysInStep(s, t) /\ SameCalls(s, t)
             /\ t.listTimers >= s.listTimers
             /\ \A h \in Handset :
                  /\ t.handset[h].registered = f[h].registered
                  /\ t.handset[h].ipui = f[h].ipui
             /\ IF IsRegistered(s, n + 1) THEN Queries(t, n + 1) ELSE Mute(t)
  BY <1>1
<1> HIDE DEF f
<1>4. /\ m \in State /\ StaysInStep(s, m)
      /\ m.handset = f /\ m.out = << >> /\ m.pingTimers = s.pingTimers
      /\ m.CallReference = s.CallReference
      /\ m.listTimers = s.listTimers /\ s.listTimers \in Nat
  BY <1>1, TableEffect
<1> HIDE DEF m, t
<1>5. IsRegistered(m, n + 1) <=> IsRegistered(s, n + 1)
  BY <1>1, <1>4 DEF IsRegistered
<1>6. CASE IsRegistered(m, n + 1)
  <2>1. n + 1 \in Nat
    BY MngrAssumption DEF Handset
  <2>2. /\ t \in State /\ StaysInStep(m, t) /\ Queries(t, n + 1)
        /\ t.handset = f /\ t.pingTimers = m.pingTimers
        /\ t.CallReference = m.CallReference /\ t.listTimers = m.listTimers
    BY <1>3, <1>4, <1>6, <2>1, QueryEffect
  <2> QED BY <1>1, <1>4, <1>5, <1>6, <2>2, StepTrans DEF SameCalls
<1>7. CASE ~IsRegistered(m, n + 1)
  <2>1. Goes(m, t)
    BY <1>3, <1>4, <1>7, PerhapsGoes
  <2>2. Mute(m)
    BY <1>4 DEF Mute
  <2> QED BY <1>1, <1>4, <1>5, <1>7, <2>1, <2>2, StepTrans DEF Goes, SameCalls, SameTable
<1> QED BY <1>6, <1>7

(* A handset goes out of the table, and a listing is put off for later.    *)
LEMMA DeleteEffect ==
  ASSUME NEW s, Inv(s), s.out = << >>, NEW n \in Nat
  PROVE  LET t == list_handsets_schedule(delete_registration_cfm(s, n))
         IN /\ t \in State /\ StaysInStep(s, t) /\ SameCalls(s, t)
            /\ t.listTimers > 0
            /\ \A h \in Handset :
                 /\ t.handset[h].registered = (s.handset[h].registered /\ h # n)
                 /\ t.handset[h].ipui = s.handset[h].ipui
            /\ t.out = << >>
<1> DEFINE d == delete_registration_cfm(s, n)
           t == list_handsets_schedule(d)
<1>1. s \in State /\ d \in State /\ s.listTimers \in Nat
  BY DeletedInv DEF Inv, State
<1>2. /\ d.out = << >> /\ d.radio = s.radio /\ d.reg_mode = s.reg_mode
      /\ d.pingTimers = s.pingTimers /\ d.CallReference = s.CallReference
      /\ d.listTimers = s.listTimers
  BY <1>1 DEF delete_registration_cfm, State
<1>3. ASSUME NEW h \in Handset
      PROVE  /\ d.handset[h].registered = (s.handset[h].registered /\ h # n)
             /\ d.handset[h].ipui = s.handset[h].ipui
             /\ d.handset[h].pinging = s.handset[h].pinging
  <2>1. s.handset \in [Handset -> Hset] /\ s.handset[h] \in Hset
    BY <1>1 DEF State
  <2>2. CASE h = n
    BY <1>1, <2>1, <2>2 DEF delete_registration_cfm, bad_handsetnr, State, Hset
  <2>3. CASE h # n
    BY <1>1, <2>1, <2>3 DEF delete_registration_cfm, bad_handsetnr, State, Hset
  <2> QED BY <2>2, <2>3
<1>4. StaysInStep(s, d)
  <2> HIDE DEF d
  <2> QED BY <1>1, <1>2 DEF StaysInStep, Agrees
<1> HIDE DEF d
<1>5. Goes(d, t)
  BY <1>1, ScheduleGoes
<1>6. t.listTimers > 0 /\ t.out = << >>
  BY <1>1, <1>2 DEF list_handsets_schedule, State
<1>7. StaysInStep(s, t)
  BY <1>4, <1>5, StepTrans DEF Goes
<1>8. t = list_handsets_schedule(delete_registration_cfm(s, n))
  BY DEF d
<1> HIDE DEF t
<1> QED BY <1>2, <1>3, <1>5, <1>6, <1>7, <1>8 DEF Goes, SameTable, SameCalls

LEMMA SetupEffect ==
  ASSUME NEW s \in State, s.out = << >>, NEW n \in Nat
  PROVE  LET t == setup_cfm(s, n)
         IN /\ t \in State /\ StaysInStep(s, t)
            /\ t.handset = s.handset /\ t.pingTimers = s.pingTimers
            /\ t.CallReference = n /\ t.listTimers = s.listTimers
            /\ t.out = << >>
<1> DEFINE t == setup_cfm(s, n)
<1>1. /\ t \in State /\ t.out = << >> /\ t.radio = s.radio
      /\ t.reg_mode = s.reg_mode /\ t.handset = s.handset
      /\ t.pingTimers = s.pingTimers /\ t.CallReference = n
      /\ t.listTimers = s.listTimers
  BY DEF setup_cfm, State
<1>2. t = setup_cfm(s, n)
  OBVIOUS
<1> HIDE DEF t
<1>3. StaysInStep(s, t)
  BY <1>1 DEF StaysInStep, Agrees
<1> QED BY <1>1, <1>2, <1>3

LEMMA ConnectEffect ==
  ASSUME NEW s, Inv(s), s.out = << >>, NEW n \in Nat
  PROVE  LET t == connect_ind(s, n)
         IN /\ t \in State /\ StaysInStep(s, t)
            /\ t.pingTimers = s.pingTimers
            /\ t.CallReference = s.CallReference
            /\ t.listTimers = s.listTimers /\ t.out = << >>
            /\ \A h \in Handset :
                 /\ t.handset[h].registered = s.handset[h].registered
                 /\ t.handset[h].ipui = s.handset[h].ipui
                 /\ t.handset[h].pinging = (s.handset[h].pinging /\ h # n)
<1> DEFINE t == connect_ind(s, n)
<1>1. s \in State /\ t \in State
  BY ConnectInv DEF Inv
<1>2. /\ t.out = << >> /\ t.radio = s.radio /\ t.reg_mode = s.reg_mode
      /\ t.pingTimers = s.pingTimers /\ t.CallReference = s.CallReference
      /\ t.listTimers = s.listTimers
  BY <1>1 DEF connect_ind, State
<1>3. ASSUME NEW h \in Handset
      PROVE  /\ t.handset[h].registered = s.handset[h].registered
             /\ t.handset[h].ipui = s.handset[h].ipui
             /\ t.handset[h].pinging = (s.handset[h].pinging /\ h # n)
  <2>1. s.handset \in [Handset -> Hset] /\ s.handset[h] \in Hset
    BY <1>1 DEF State
  <2>2. CASE h = n
    BY <1>1, <2>1, <2>2 DEF connect_ind, bad_handsetnr, State, Hset
  <2>3. CASE h # n
    BY <1>1, <2>1, <2>3 DEF connect_ind, bad_handsetnr, State, Hset
  <2> QED BY <2>2, <2>3
<1>4. t = connect_ind(s, n)
  OBVIOUS
<1> HIDE DEF t
<1>5. StaysInStep(s, t)
  BY <1>1, <1>2 DEF StaysInStep, Agrees
<1> QED BY <1>1, <1>2, <1>3, <1>4, <1>5

(* A ping of a handset outside the table, or with the radio off in the     *)
(* configuration, does nothing.                                            *)
LEMMA PingEffect ==
  ASSUME NEW s, Inv(s), s.out = << >>, NEW n \in Nat
  PROVE  LET t == ping_handset(s, n)
         IN \/ t = s
            \/ /\ n \in Handset
               /\ t \in State /\ StaysInStep(s, t)
               /\ t.out = <<[prim |-> "CC_SETUP_REQ", arg |-> n]>>
               /\ t.pingTimers = Append(s.pingTimers, n)
               /\ t.listTimers = s.listTimers
               /\ \A h \in Handset :
                    /\ t.handset[h].registered = s.handset[h].registered
                    /\ t.handset[h].ipui = s.handset[h].ipui
                    /\ t.handset[h].pinging = (s.handset[h].pinging \/ h = n)
<1> DEFINE r == [prim |-> "CC_SETUP_REQ", arg |-> n]
           t == ping_handset(s, n)
<1>1. s \in State /\ t \in State
  BY PingInv DEF Inv
<1>2. SUFFICES ASSUME n \in Handset, s.config # DISABLED
               PROVE  /\ StaysInStep(s, t)
                      /\ t.out = <<r>>
                      /\ t.pingTimers = Append(s.pingTimers, n)
                      /\ t.listTimers = s.listTimers
                      /\ \A h \in Handset :
                           /\ t.handset[h].registered = s.handset[h].registered
                           /\ t.handset[h].ipui = s.handset[h].ipui
                           /\ t.handset[h].pinging = (s.handset[h].pinging \/ h = n)
  BY <1>1 DEF ping_handset, bad_handsetnr
<1>3. /\ t.out = Append(s.out, r) /\ t.radio = s.radio
      /\ t.reg_mode = s.reg_mode /\ t.pingTimers = Append(s.pingTimers, n)
      /\ t.listTimers = s.listTimers
  <2> DEFINE u == [[s EXCEPT !.handset[n].pinging = TRUE] EXCEPT !.CallReference = 1]
  <2>1. /\ u.out = s.out /\ u.radio = s.radio /\ u.reg_mode = s.reg_mode
        /\ u.pingTimers = s.pingTimers /\ u.listTimers = s.listTimers
        /\ DOMAIN u = DOMAIN s
    BY <1>1 DEF State
  <2>2. t = [[u EXCEPT !.out = Append(@, r)] EXCEPT !.pingTimers = Append(s.pingTimers, n)]
    BY <1>1, <1>2 DEF ping_handset, ping_handset_start, write_dect, bad_handsetnr, State
  <2> HIDE DEF t, u, r
  <2> QED BY <1>1, <2>1, <2>2 DEF State
<1>4. t.out = <<r>>
  BY <1>3
<1>5. ASSUME NEW h \in Handset
      PROVE  /\ t.handset[h].registered = s.handset[h].registered
             /\ t.handset[h].ipui = s.handset[h].ipui
             /\ t.handset[h].pinging = (s.handset[h].pinging \/ h = n)
  <2>1. s.handset \in [Handset -> Hset] /\ s.handset[h] \in Hset
    BY <1>1 DEF State
  <2>2. t.handset = [s.handset EXCEPT ![n].pinging = TRUE]
    BY <1>1, <1>2 DEF ping_handset, ping_handset_start, write_dect, bad_handsetnr, State
  <2> HIDE DEF t
  <2>3. CASE h = n
    BY <2>1, <2>2, <2>3 DEF Hset
  <2>4. CASE h # n
    BY <2>1, <2>2, <2>4 DEF Hset
  <2> QED BY <2>3, <2>4
<1>6. r \in Request
  BY DEF Request, RequestPrims
<1> HIDE DEF t
<1>7. StaysInStep(s, t)
  BY <1>1, <1>3, <1>6, SaysSo DEF Switches, Modes
<1> QED BY <1>3, <1>4, <1>5, <1>7

LEMMA PingTimerEffect ==
  ASSUME NEW s, Inv(s), s.out = << >>, s.pingTimers # << >>
  PROVE  LET t == ping_expired(s)
             n == Head(s.pingTimers)
         IN /\ n \in Handset
            /\ t \in State /\ StaysInStep(s, t)
            /\ t.pingTimers = Tail(s.pingTimers)
            /\ t.CallReference = s.CallReference
            /\ t.listTimers = s.listTimers
            /\ \A h \in Handset :
                 /\ t.handset[h].registered = s.handset[h].registered
                 /\ t.handset[h].ipui = s.handset[h].ipui
                 /\ t.handset[h].pinging = (s.handset[h].pinging /\ h # n)
            /\ t.out = IF s.handset[n].pinging
                       THEN <<[prim |-> "CC_RELEASE_REQ", arg |-> s.CallReference]>>
                       ELSE << >>
<1> DEFINE t == ping_expired(s)
           n == Head(s.pingTimers)
           r == [prim |-> "CC_RELEASE_REQ", arg |-> s.CallReference]
<1>1. s \in State /\ t \in State /\ n \in Handset
  BY PingTimeoutInv DEF Inv, State
<1>2. /\ t.radio = s.radio /\ t.reg_mode = s.reg_mode
      /\ t.pingTimers = Tail(s.pingTimers) /\ t.CallReference = s.CallReference
      /\ t.listTimers = s.listTimers
      /\ t.out = IF s.handset[n].pinging THEN Append(s.out, r) ELSE s.out
  <2> DEFINE u == [s EXCEPT !.pingTimers = Tail(@)]
  <2>1. /\ u.radio = s.radio /\ u.reg_mode = s.reg_mode /\ u.out = s.out
        /\ u.pingTimers = Tail(s.pingTimers) /\ u.CallReference = s.CallReference
        /\ u.listTimers = s.listTimers /\ u.handset = s.handset
        /\ DOMAIN u = DOMAIN s
    BY <1>1 DEF State
  <2>2. t = IF s.handset[n].pinging
            THEN [[u EXCEPT !.handset[n].pinging = FALSE] EXCEPT !.out = Append(@, r)]
            ELSE u
    BY <1>1, <2>1 DEF ping_expired, ping_handset_stop, write_dect, bad_handsetnr
  <2> HIDE DEF t, n, u, r
  <2> QED BY <1>1, <2>1, <2>2 DEF State
<1>3. ASSUME NEW h \in Handset
      PROVE  /\ t.handset[h].registered = s.handset[h].registered
             /\ t.handset[h].ipui = s.handset[h].ipui
             /\ t.handset[h].pinging = (s.handset[h].pinging /\ h # n)
  <2>1. s.handset \in [Handset -> Hset] /\ s.handset[h] \in Hset
    BY <1>1 DEF State
  <2>2. t.handset = IF s.handset[n].pinging
                    THEN [s.handset EXCEPT ![n].pinging = FALSE] ELSE s.handset
    BY <1>1 DEF ping_expired, ping_handset_stop, write_dect, bad_handsetnr, State
  <2> HIDE DEF t, n
  <2>3. CASE h = n
    BY <2>1, <2>2, <2>3 DEF Hset
  <2>4. CASE h # n
    BY <2>1, <2>2, <2>4 DEF Hset
  <2> QED BY <2>3, <2>4
<1>4. r \in Request
  BY <1>1 DEF Request, RequestPrims, State
<1> HIDE DEF t, n
<1>5. StaysInStep(s, t)
  <2>1. CASE s.handset[n].pinging
    BY <1>1, <1>2, <1>4, <2>1, SaysSo DEF Switches, Modes
  <2>2. CASE ~s.handset[n].pinging
    BY <1>1, <1>2, <2>2 DEF StaysInStep, Agrees
  <2> QED BY <2>1, <2>2
<1> QED BY <1>1, <1>2, <1>3, <1>5 DEF t, n

LEMMA ListTimerEffect ==
  ASSUME NEW s \in State, s.out = << >>, s.listTimers > 0
  PROVE  LET t == list_expired(s)
         IN /\ t \in State /\ StaysInStep(s, t) /\ Mute(t)
            /\ SameTable(s, t) /\ t.pingTimers = s.pingTimers
            /\ t.CallReference = s.CallReference
            /\ \E i \in DOMAIN t.out : t.out[i].prim = "CC_FEATURES_REQ"
<1> DEFINE r == [s EXCEPT !.listTimers = @ - 1]
<1>1. s.listTimers - 1 \in Nat
  BY DEF State
<1>2. /\ r \in State /\ r.out = << >> /\ r.radio = s.radio
      /\ r.reg_mode = s.reg_mode /\ r.handset = s.handset
      /\ r.pingTimers = s.pingTimers /\ r.CallReference = s.CallReference
  BY <1>1 DEF State
<1>3. list_expired(s) = init_cfm(r)
  BY DEF list_expired
<1> HIDE DEF r
<1>4. StaysInStep(s, r) /\ Mute(r)
  BY <1>2 DEF StaysInStep, Agrees, Mute
<1> QED BY <1>2, <1>3, <1>4, InitCfmGoes, StepTrans DEF Goes, SameTable

-----------------------------------------------------------------------------
(* Types, and the stack in step with the daemon.                           *)

StackPacket == [prim : Prims, id : Nat, ids : Seq(Handset), ok : {TRUE},
                ipui : Ipuis \cup {NoIpui}]

Stack == [on : BOOLEAN, open : BOOLEAN, ident : [Handset -> Ipuis \cup {NoIpui}],
          ringing : SUBSET Handset]

SysType ==
  /\ Inv(mngr) /\ mngr.out = << >>
  /\ toStack \in Seq(Request) /\ fromStack \in Seq(StackPacket)
  /\ stack \in Stack
  /\ commands \in 0 .. MaxCommands /\ air \in 0 .. MaxAir
  /\ listed \subseteq Known /\ crossed \in BOOLEAN

InStep == Agrees(toStack, stack.on, stack.open, mngr)

LEMMA StackPacketOK ==
  ASSUME NEW p \in StackPacket
  PROVE  /\ PacketOK(p) /\ p.prim \in Prims /\ p.id \in Nat
         /\ p.ids \in Seq(Handset) /\ p.ok = TRUE
         /\ p.ipui \in Ipuis \cup {NoIpui}
<1>1. /\ p.prim \in Prims /\ p.id \in Nat /\ p.ids \in Seq(Handset) /\ p.ok = TRUE
      /\ p.ipui \in Ipuis \cup {NoIpui}
  BY DEF StackPacket
<1>2. p.ids \in Seq(Nat)
  BY <1>1, MngrAssumption DEF Handset
<1> QED BY <1>1, <1>2 DEF PacketOK

LEMMA PlainPacket ==
  ASSUME NEW prim \in Prims, NEW n \in Nat
  PROVE  /\ Packet(prim, n) \in StackPacket
         /\ Packet(prim, n).prim = prim /\ Packet(prim, n).id = n
         /\ Packet(prim, n).ids = << >> /\ Packet(prim, n).ipui = NoIpui
BY DEF Packet, StackPacket

LEMMA CountPacket ==
  ASSUME NEW ids \in Seq(Handset)
  PROVE  /\ Counted(ids) \in StackPacket /\ Counted(ids).ids = ids
         /\ Counted(ids).prim = "GET_REGISTRATION_COUNT_CFM"
<1>1. "GET_REGISTRATION_COUNT_CFM" \in Prims
  BY DEF Prims
<1> QED BY <1>1 DEF Counted, Packet, StackPacket

(* The answer that names i as the identity of handset n.                   *)
Identified(n, i) == [Packet("GET_HANDSET_IPUI_CFM", n) EXCEPT !.ipui = i]

LEMMA IdentityPacket ==
  ASSUME NEW n \in Nat, NEW i \in Ipuis \cup {NoIpui}
  PROVE  LET p == Identified(n, i)
         IN /\ p \in StackPacket /\ p.prim = "GET_HANDSET_IPUI_CFM"
            /\ p.id = n /\ p.ipui = i /\ p.ids = << >>
<1> DEFINE q == Packet("GET_HANDSET_IPUI_CFM", n)
           p == [q EXCEPT !.ipui = i]
<1> SUFFICES /\ p \in StackPacket /\ p.prim = "GET_HANDSET_IPUI_CFM"
             /\ p.id = n /\ p.ipui = i /\ p.ids = << >>
  BY DEF Identified
<1>1. "GET_HANDSET_IPUI_CFM" \in Prims
  BY DEF Prims
<1>2. /\ q \in StackPacket /\ q.prim = "GET_HANDSET_IPUI_CFM"
      /\ q.id = n /\ q.ids = << >>
  BY <1>1, PlainPacket
<1> HIDE DEF q
<1> QED BY <1>2 DEF StackPacket

(* The numbers of the known handsets in a row: a list of all of them.      *)
LEMMA AscendingKnown ==
  ASSUME SysType, NEW ids \in Ascending(Known)
  PROVE  /\ ids \in Seq(Handset)
         /\ \A h \in Known : \E i \in DOMAIN ids : ids[i] = h
         /\ \A i \in DOMAIN ids : ids[i] \in Known
         /\ \A i, j \in DOMAIN ids : i < j => ids[i] < ids[j]
<1> DEFINE n == Cardinality(Known)
<1>1. Known \in SUBSET Handset /\ Handset \subseteq Nat
  BY MngrAssumption DEF Known, Handset
<1>2. IsFiniteSet(Handset)
  <2>1. 1 \in Int /\ MaxNrHandsets \in Int
    BY MngrAssumption
  <2> QED BY <2>1, FS_Interval DEF Handset
<1>3. IsFiniteSet(Known)
  BY <1>1, <1>2, FS_Subset
<1>4. n \in Nat
  BY <1>3, FS_CardinalityType
<1>5. ids \in [1 .. n -> Known] /\ \A i, j \in 1 .. n : i < j => ids[i] < ids[j]
  BY DEF Ascending
<1> HIDE DEF n
<1>6. DOMAIN ids = 1 .. n /\ \A i \in 1 .. n : ids[i] \in Known
  BY <1>5
<1>7. ids \in Seq(Handset)
  <2>1. ids \in [1 .. n -> Handset]
    BY <1>1, <1>5
  <2> QED BY <1>4, <2>1
<1>8. ids \in Injection(1 .. n, Known)
  <2>1. \A a, b \in 1 .. n : ids[a] = ids[b] => a = b
    <3> SUFFICES ASSUME NEW a \in 1 .. n, NEW b \in 1 .. n, ids[a] = ids[b]
                 PROVE  a = b
      OBVIOUS
    <3>1. ids[a] \in Nat
      BY <1>1, <1>6
    <3>2. ~(a < b) /\ ~(b < a)
      BY <1>5, <3>1
    <3> QED BY <1>4, <3>2
  <2> QED BY <1>5, <2>1, Fun_IsInj
<1>9. Cardinality(1 .. n) = Cardinality(Known)
  <2>1. 1 \in Int /\ n \in Int /\ IF 1 > n THEN n = 0 ELSE n - 1 + 1 = n
    BY <1>4
  <2>2. Cardinality(1 .. n) = n
    BY <2>1, FS_Interval
  <2> QED BY <2>2 DEF n
<1>10. ids \in Surjection(1 .. n, Known)
  BY <1>3, <1>8, <1>9, FS_Injection
<1>11. \A h \in Known : \E i \in 1 .. n : ids[i] = h
  BY <1>10 DEF Surjection
<1> QED BY <1>5, <1>6, <1>7, <1>11

(* Whatever the daemon runs keeps its own invariant and the stack in step. *)
LEMMA HandlerFacts ==
  ASSUME SysType
  PROVE  /\ \A p \in StackPacket :
              LET t == handle_dect_packet(mngr, p)
              IN Inv(t) /\ StaysInStep(mngr, t)
         /\ \A c \in UserCommands, f \in Files :
              LET t == handle_client_packet(mngr, c, f)
              IN Inv(t) /\ StaysInStep(mngr, t)
         /\ mngr.listTimers > 0 =>
              Inv(list_expired(mngr)) /\ StaysInStep(mngr, list_expired(mngr))
         /\ mngr.startTimers > 0 =>
              Inv(start_expired(mngr)) /\ StaysInStep(mngr, start_expired(mngr))
         /\ mngr.stopTimers > 0 =>
              Inv(stop_expired(mngr)) /\ StaysInStep(mngr, stop_expired(mngr))
         /\ mngr.pingTimers # << >> =>
              Inv(ping_expired(mngr)) /\ StaysInStep(mngr, ping_expired(mngr))
<1> Inv(mngr) /\ mngr \in State /\ mngr.out = << >>
  BY DEF SysType, Inv
<1>1. ASSUME NEW p \in StackPacket
      PROVE  /\ Inv(handle_dect_packet(mngr, p))
             /\ StaysInStep(mngr, handle_dect_packet(mngr, p))
  <2>1. /\ PacketOK(p) /\ p.prim \in Prims /\ p.id \in Nat
        /\ p.ids \in Seq(Handset) /\ p.ok = TRUE
        /\ p.ipui \in Ipuis \cup {NoIpui}
    BY StackPacketOK
  <2>2. Inv(handle_dect_packet(mngr, p))
    BY <2>1, DectPacketInv
  <2>3. CASE p.prim \notin Special
    BY <2>1, <2>2, <2>3, PacketGoes DEF Goes
  <2>4. CASE p.prim = "GET_REGISTRATION_COUNT_CFM"
    <3>1. handle_dect_packet(mngr, p) = registration_count_cfm(mngr, TRUE, p.ids)
      BY <2>1, <2>4 DEF handle_dect_packet
    <3>2. StaysInStep(mngr, registration_count_cfm(mngr, TRUE, p.ids))
      BY <2>1, CountEffect
    <3> QED BY <2>2, <3>1, <3>2
  <2>5. CASE p.prim = "GET_HANDSET_IPUI_CFM"
    <3>1. handle_dect_packet(mngr, p) = handset_ipui_cfm(mngr, p.id, p.ipui)
      BY <2>5 DEF handle_dect_packet
    <3>2. CASE p.id \in Handset
      BY <2>1, <2>2, <3>1, <3>2, IpuiEffect
    <3>3. CASE p.id \notin Handset
      BY <2>2, <3>1, <3>3, GoesRefl DEF handset_ipui_cfm, bad_handsetnr, Goes
    <3> QED BY <3>2, <3>3
  <2>6. CASE p.prim = "DELETE_REGISTRATION_CFM"
    <3>1. handle_dect_packet(mngr, p) =
            list_handsets_schedule(delete_registration_cfm(mngr, p.id))
      BY <2>6 DEF handle_dect_packet
    <3> QED BY <2>1, <2>2, <3>1, DeleteEffect
  <2>7. CASE p.prim = "CC_SETUP_CFM"
    <3>1. handle_dect_packet(mngr, p) = setup_cfm(mngr, p.id)
      BY <2>7 DEF handle_dect_packet
    <3> QED BY <2>1, <2>2, <3>1, SetupEffect
  <2>8. CASE p.prim = "CC_CONNECT_IND"
    <3>1. handle_dect_packet(mngr, p) = connect_ind(mngr, p.id)
      BY <2>8 DEF handle_dect_packet
    <3> QED BY <2>1, <2>2, <3>1, ConnectEffect
  <2> QED BY <2>3, <2>4, <2>5, <2>6, <2>7, <2>8 DEF Special
<1>2. ASSUME NEW c \in UserCommands, NEW f \in Files
      PROVE  /\ Inv(handle_client_packet(mngr, c, f))
             /\ StaysInStep(mngr, handle_client_packet(mngr, c, f))
  <2>1. c \in ClientPacket
    BY SystemAssumption
  <2>2. Inv(handle_client_packet(mngr, c, f))
    BY <2>1, ClientInv
  <2>3. CASE c.type # "PING_HSET"
    BY <2>1, <2>2, <2>3, CommandGoes DEF Goes
  <2>4. CASE c.type = "PING_HSET"
    <3>1. handle_client_packet(mngr, c, f) = ping_handset(mngr, c.data)
      BY <2>4 DEF handle_client_packet
    <3>2. c.data \in Nat
      <4>1. c.data \in 0 .. 255
        BY <2>1, MngrAssumption DEF ClientPacket
      <4>2. \A n \in 0 .. 255 : n \in Nat
        OBVIOUS
      <4> QED BY <4>1, <4>2
    <3>3. StaysInStep(mngr, ping_handset(mngr, c.data))
      <4>1. StaysInStep(mngr, mngr)
        BY GoesRefl DEF Goes
      <4>2. \/ ping_handset(mngr, c.data) = mngr
            \/ StaysInStep(mngr, ping_handset(mngr, c.data))
        BY <3>2, PingEffect
      <4> QED BY <4>1, <4>2
    <3> QED BY <2>2, <3>1, <3>3
  <2> QED BY <2>3, <2>4
<1>3. ASSUME mngr.listTimers > 0
      PROVE  Inv(list_expired(mngr)) /\ StaysInStep(mngr, list_expired(mngr))
  BY <1>3, ListTimeoutInv, ListTimerEffect
<1>4. ASSUME mngr.startTimers > 0
      PROVE  Inv(start_expired(mngr)) /\ StaysInStep(mngr, start_expired(mngr))
  BY <1>4, DelayedStartInv, DelayedStartGoes DEF Goes
<1>5. ASSUME mngr.stopTimers > 0
      PROVE  Inv(stop_expired(mngr)) /\ StaysInStep(mngr, stop_expired(mngr))
  BY <1>5, StopTimeoutInv, StopTimerGoes DEF Goes
<1>6. ASSUME mngr.pingTimers # << >>
      PROVE  Inv(ping_expired(mngr)) /\ StaysInStep(mngr, ping_expired(mngr))
  BY <1>6, PingTimeoutInv, PingTimerEffect
<1> QED BY <1>1, <1>2, <1>3, <1>4, <1>5, <1>6

(* The callback t has run.                                                 *)
LEMMA StepFacts ==
  ASSUME SysType, NEW t, Inv(t), Step(t)
  PROVE  /\ Inv(mngr') /\ mngr'.out = << >> /\ mngr' \in State
         /\ mngr'.radio = t.radio /\ mngr'.reg_mode = t.reg_mode
         /\ mngr'.handset = t.handset /\ mngr'.pingTimers = t.pingTimers
         /\ mngr'.listTimers = t.listTimers
         /\ mngr'.CallReference = t.CallReference
         /\ toStack' = toStack \o t.out /\ t.out \in Seq(Request)
         /\ toStack' \in Seq(Request)
         /\ stack' = stack /\ Known' = Known
         /\ listed' = listed \cup {h \in Known : mngr'.handset[h].registered}
<1>1. t \in State /\ mngr' = Sent(t)
  BY DEF Inv, Step, Callback
<1>2. Inv(Sent(t))
  BY <1>1, SentQuiet, QuietInv
<1>3. /\ Sent(t).out = << >> /\ Sent(t).radio = t.radio
      /\ Sent(t).reg_mode = t.reg_mode /\ Sent(t).handset = t.handset
      /\ Sent(t).pingTimers = t.pingTimers /\ Sent(t).listTimers = t.listTimers
      /\ Sent(t).CallReference = t.CallReference /\ t.out \in Seq(Request)
  BY <1>1 DEF Sent, State
<1>4. toStack' = toStack \o t.out /\ toStack' \in Seq(Request)
  BY <1>3 DEF Step, SysType
<1>5. stack' = stack /\ Known' = Known
  BY DEF Step, Known
<1>6. listed' = listed \cup {h \in Known : mngr'.handset[h].registered}
  BY <1>1, <1>3 DEF Step
<1> QED BY <1>1, <1>2, <1>3, <1>4, <1>5, <1>6 DEF Inv

LEMMA StepType ==
  ASSUME SysType, InStep, NEW t, Inv(t), StaysInStep(mngr, t), Step(t),
         fromStack' \in Seq(StackPacket), commands' \in 0 .. MaxCommands,
         air' \in 0 .. MaxAir, crossed' \in BOOLEAN
  PROVE  SysType' /\ InStep'
<1>1. SysType'
  <2>1. listed' \subseteq Known'
    BY StepFacts DEF SysType
  <2> QED BY <2>1, StepFacts DEF SysType
<1>2. InStep'
  <2>1. Agrees(toStack \o mngr.out, stack.on, stack.open, mngr)
    BY DEF SysType, InStep
  <2>2. stack.on \in BOOLEAN /\ stack.open \in BOOLEAN /\ toStack \in Seq(Request)
    BY DEF SysType, Stack
  <2>3. Agrees(toStack \o t.out, stack.on, stack.open, t)
    BY <2>1, <2>2 DEF StaysInStep
  <2>4. Agrees(toStack', stack.on, stack.open, t)
    BY <2>3, StepFacts
  <2>5. stack' = stack /\ mngr'.radio = t.radio /\ mngr'.reg_mode = t.reg_mode
    BY StepFacts
  <2>6. Agrees(toStack', stack.on, stack.open, mngr')
    BY <2>4, <2>5 DEF Agrees
  <2> QED BY <2>5, <2>6 DEF InStep
<1> QED BY <1>1, <1>2

LEMMA ReplyType ==
  ASSUME SysType, NEW r \in Request, NEW ids \in Ascending(Known)
  PROVE  Reply(r, ids) \in Seq(StackPacket)
<1>0. r.arg \in Nat
  BY DEF Request
<1>1. {"LINUX_INIT_CFM", "CC_FEATURES_CFM", "SET_REGISTRATION_MODE_CFM",
       "GET_REGISTRATION_COUNT_CFM", "GET_HANDSET_IPUI_CFM",
       "DELETE_REGISTRATION_CFM", "CC_SETUP_CFM"} \subseteq Prims
  BY DEF Prims
<1>2. Counted(ids) \in StackPacket
  BY AscendingKnown, CountPacket
<1>3. [Packet("GET_HANDSET_IPUI_CFM", r.arg) EXCEPT !.ipui = IdentityOf(r.arg)]
        \in StackPacket
  <2>1. IdentityOf(r.arg) \in Ipuis \cup {NoIpui}
    BY DEF IdentityOf, SysType, Stack
  <2> QED BY <1>0, <2>1, IdentityPacket DEF Identified
<1>4. \A prim \in Prims, n \in Nat : Packet(prim, n) \in StackPacket
  BY PlainPacket
<1>5. \A p \in StackPacket : <<p>> \in Seq(StackPacket)
  OBVIOUS
<1>6. << >> \in Seq(StackPacket)
  OBVIOUS
<1> QED BY <1>0, <1>1, <1>2, <1>3, <1>4, <1>5, <1>6 DEF Reply

LEMMA AnswerType ==
  ASSUME SysType, InStep, StackAnswers
  PROVE  SysType' /\ InStep'
<1> DEFINE r == Head(toStack)
<1>1. /\ r \in Request /\ r.arg \in Nat /\ toStack # << >>
      /\ toStack' = Tail(toStack) /\ toStack' \in Seq(Request)
  <2>1. toStack \in Seq(Request) /\ toStack # << >> /\ toStack' = Tail(toStack)
    BY DEF SysType, StackAnswers
  <2>2. Head(toStack) \in Request /\ Tail(toStack) \in Seq(Request)
    BY <2>1
  <2>3. r \in Request /\ r.arg \in Nat
    BY <2>2 DEF Request
  <2> QED BY <2>1, <2>2, <2>3
<1>2. PICK ids \in Ascending(Known) : fromStack' = fromStack \o Reply(r, ids)
  BY DEF StackAnswers
<1>3. PICK refused \in BOOLEAN : stack' = Effect(r, refused)
  BY DEF StackAnswers
<1> HIDE DEF r
<1>4. Reply(r, ids) \in Seq(StackPacket)
  BY <1>1, ReplyType
<1>5. stack' \in Stack
  <2>1. stack \in Stack /\ Known \subseteq Handset /\ (r.arg = 1) \in BOOLEAN
    BY DEF SysType, Known
  <2> QED BY <1>3, <2>1 DEF Effect, Stack
<1>6. SysType'
  <2>1. fromStack' \in Seq(StackPacket)
    BY <1>2, <1>4 DEF SysType
  <2>2. listed' \subseteq Known' /\ UNCHANGED <<mngr, commands, air, crossed>>
    BY DEF StackAnswers
  <2> QED BY <1>1, <1>5, <2>1, <2>2 DEF SysType
<1>7. /\ IF r.prim \in Switches
         THEN stack'.on = (r.prim = "START_PROTOCOL_REQ") ELSE stack'.on = stack.on
      /\ IF r.prim \in Modes
         THEN stack'.open = (r.arg = 1) ELSE stack'.open = stack.open
  <2>1. stack \in Stack
    BY DEF SysType
  <2> QED BY <1>3, <2>1 DEF Effect, Stack, Switches, Modes
<1>8. Agrees(toStack', stack'.on, stack'.open, mngr)
  <2>1. /\ stack.on \in BOOLEAN /\ stack.open \in BOOLEAN
        /\ stack'.on \in BOOLEAN /\ stack'.open \in BOOLEAN
        /\ toStack \in Seq(Request)
    BY <1>5 DEF SysType, Stack
  <2> QED BY <1>1, <1>7, <2>1, AgreesTail DEF InStep, r
<1>9. mngr' = mngr
  BY DEF StackAnswers
<1> QED BY <1>6, <1>8, <1>9 DEF InStep

LEMMA AirType ==
  ASSUME SysType, InStep, NEW h \in Handset,
         Registers(h) \/ Announces(h) \/ PicksUp(h)
  PROVE  SysType' /\ InStep'
<1>1. ASSUME NEW prim \in Prims, OverTheAir(Packet(prim, h))
      PROVE  /\ fromStack' \in Seq(StackPacket) /\ air' \in 0 .. MaxAir
             /\ UNCHANGED <<mngr, toStack, commands, listed, crossed>>
  <2>1. Packet(prim, h) \in StackPacket
    <3>1. h \in Nat
      BY MngrAssumption DEF Handset
    <3> QED BY <3>1, PlainPacket
  <2>2. air' \in 0 .. MaxAir
    BY <1>1, SystemAssumption DEF OverTheAir, SysType
  <2> QED BY <1>1, <2>1, <2>2 DEF OverTheAir, SysType
<1>2. {"REGISTRATION_COMPLETE_IND", "HANDSET_PRESENT_IND", "CC_CONNECT_IND"}
        \subseteq Prims
  BY DEF Prims
<1>3. stack \in Stack
  BY DEF SysType
<1>4. /\ fromStack' \in Seq(StackPacket) /\ air' \in 0 .. MaxAir
      /\ UNCHANGED <<mngr, toStack, commands, listed, crossed>>
  BY <1>1, <1>2 DEF Registers, Announces, PicksUp
<1>5. /\ stack' \in Stack /\ Known \subseteq Known'
      /\ stack'.on = stack.on /\ stack'.open = stack.open
  <2>1. CASE Registers(h)
    <3>1. PICK i \in Ipuis : stack' = [stack EXCEPT !.ident[h] = i]
      BY <2>1 DEF Registers
    <3>2. i # NoIpui
      BY SystemAssumption
    <3> QED BY <1>3, <3>1, <3>2 DEF Stack, Known
  <2>2. CASE Announces(h)
    BY <1>3, <2>2 DEF Announces, Known
  <2>3. CASE PicksUp(h)
    BY <1>3, <2>3 DEF PicksUp, Stack, Known
  <2> QED BY <2>1, <2>2, <2>3
<1> QED BY <1>4, <1>5 DEF SysType, InStep

LEMMA ReceiveType ==
  ASSUME SysType, Receive
  PROVE  /\ Head(fromStack) \in StackPacket
         /\ fromStack' = Tail(fromStack) /\ fromStack' \in Seq(StackPacket)
         /\ Step(handle_dect_packet(mngr, Head(fromStack)))
BY DEF SysType, Receive

LEMMA TypeNext ==
  ASSUME SysType, InStep, [SystemNext]_vars
  PROVE  SysType' /\ InStep'
<1>1. CASE StackAnswers
  BY <1>1, AnswerType
<1>2. CASE Receive
  BY <1>2, ReceiveType, HandlerFacts, StepType DEF Receive, SysType
<1>3. CASE Command
  <2>1. PICK c \in UserCommands, f \in Files :
          Step(handle_client_packet(mngr, c, f))
    BY <1>3 DEF Command
  <2>2. crossed' \in BOOLEAN
    BY <1>3, Zenon DEF Command, SysType
  <2>3. /\ commands' \in 0 .. MaxCommands
        /\ fromStack' \in Seq(StackPacket) /\ air' \in 0 .. MaxAir
    BY <1>3, SystemAssumption DEF Command, SysType
  <2> QED BY <2>1, <2>2, <2>3, HandlerFacts, StepType
<1>4. CASE ListExpires
  BY <1>4, HandlerFacts, StepType DEF ListExpires, SysType
<1>5. CASE StartExpires
  BY <1>5, HandlerFacts, StepType DEF StartExpires, SysType
<1>6. CASE StopExpires
  BY <1>6, HandlerFacts, StepType DEF StopExpires, SysType
<1>7. CASE PingExpires
  <2>1. crossed' \in BOOLEAN
    BY <1>7 DEF PingExpires, SysType
  <2> QED BY <1>7, <2>1, HandlerFacts, StepType DEF PingExpires, SysType
<1>8. CASE \E h \in Handset : Registers(h) \/ Announces(h) \/ PicksUp(h)
  BY <1>8, AirType
<1>9. CASE UNCHANGED vars
  BY <1>9 DEF vars, SysType, InStep, Known
<1> QED
  BY <1>1, <1>2, <1>3, <1>4, <1>5, <1>6, <1>7, <1>8, <1>9 DEF SystemNext

LEMMA TypeInit == SystemInit => SysType /\ InStep
<1> SUFFICES ASSUME SystemInit
             PROVE  SysType /\ InStep
  OBVIOUS
<1>1. PICK radio \in Configs : mngr = init_status(radio)
  BY DEF SystemInit
<1>2. Inv(mngr)
  <2>1. radio \in {DISABLED, ENABLED_, AUTO}
    BY SystemAssumption
  <2> QED BY <1>1, <2>1, InitInv DEF Init, IInv
<1>3. mngr.out = << >> /\ mngr.radio = DISABLED /\ mngr.reg_mode = DISABLED
  BY <1>1 DEF init_status
<1>4. stack \in Stack /\ stack.on = FALSE
  BY SystemAssumption DEF SystemInit, Stack
<1>5. toStack = << >> /\ fromStack = << >>
      /\ commands = 0 /\ air = 0 /\ listed = {} /\ crossed = FALSE
  BY DEF SystemInit
<1>6. SysType
  <2>1. commands \in 0 .. MaxCommands /\ air \in 0 .. MaxAir
    BY <1>5, SystemAssumption
  <2>2. toStack \in Seq(Request) /\ fromStack \in Seq(StackPacket)
    BY <1>5
  <2>3. listed \subseteq Known /\ crossed \in BOOLEAN
    BY <1>5
  <2> QED BY <1>2, <1>3, <1>4, <2>1, <2>2, <2>3 DEF SysType
<1>7. InStep
  <2>1. DOMAIN toStack = {}
    BY <1>5
  <2>2. mngr.radio # ENABLED_ /\ mngr.reg_mode # ENABLED_ /\ ~stack.on
    BY <1>3, <1>4
  <2>3. stack.on = FALSE
    BY <1>4
  <2> QED BY <2>1, <2>2, <2>3 DEF InStep, Agrees
<1> QED BY <1>6, <1>7

(* The invariant of the first group, and what it says of every behaviour.  *)
LEMMA SysTypeAlways == System => [](SysType /\ InStep)
<1>1. SysType /\ InStep /\ [SystemNext]_vars => (SysType /\ InStep)'
  BY TypeNext
<1> QED BY TypeInit, <1>1, PTL DEF System

(* The daemon's globals, the link, the stack and the history keep their    *)
(* types: nothing that dectmngr.c sends or is sent leaves them.            *)
THEOREM SystemTypeCorrect == System => []SystemTypeOK
<1>1. SysType => SystemTypeOK
  <2> SUFFICES ASSUME SysType
               PROVE  SystemTypeOK
    OBVIOUS
  <2>1. \A i \in DOMAIN fromStack : fromStack[i].prim \in Prims
    <3> SUFFICES ASSUME NEW i \in DOMAIN fromStack
                 PROVE  fromStack[i].prim \in Prims
      OBVIOUS
    <3>1. fromStack[i] \in StackPacket
      BY DEF SysType
    <3> QED BY <3>1 DEF StackPacket
  <2>2. TypeOK
    BY DEF SysType, Inv, TypeOK
  <2> QED BY <2>1, <2>2 DEF SysType, Stack, SystemTypeOK
<1> QED BY <1>1, SysTypeAlways, PTL

(* start_protocol and stop_protocol (dectmngr.c:162-194) always tell the   *)
(* stack: what the status says of the radio is what the stack will do.     *)
THEOREM RadioStaysInStep == System => []RadioInStep
<1>1. InStep => RadioInStep
  BY DEF InStep, Agrees, RadioInStep
<1> QED BY <1>1, SysTypeAlways, PTL

(* While reg_mode is ENABLED the last mode the stack was sent is the open  *)
(* one, whatever timers, indications and commands came in between.         *)
THEOREM WindowStaysReal == System => []WindowIsReal
<1>1. InStep => WindowIsReal
  BY DEF InStep, Agrees, WindowIsReal
<1> QED BY <1>1, SysTypeAlways, PTL

-----------------------------------------------------------------------------
(* Positions on the link.                                                  *)

LEMMA Joined ==
  ASSUME NEW S, NEW q \in Seq(S), NEW w \in Seq(S)
  PROVE  /\ \A i \in DOMAIN q : i \in DOMAIN (q \o w) /\ (q \o w)[i] = q[i]
         /\ \A i \in DOMAIN w : /\ i + Len(q) \in DOMAIN (q \o w)
                                /\ (q \o w)[i + Len(q)] = w[i]
                                /\ \A j \in DOMAIN q : i + Len(q) > j
         /\ \A i \in DOMAIN (q \o w) :
              \/ i \in DOMAIN q
              \/ /\ i - Len(q) \in DOMAIN w
                 /\ (q \o w)[i] = w[i - Len(q)]
                 /\ \A j \in DOMAIN q : i > j
OBVIOUS

LEMMA Passed ==
  ASSUME NEW S, NEW q \in Seq(S), q # << >>
  PROVE  /\ 1 \in DOMAIN q /\ q[1] = Head(q)
         /\ \A i \in DOMAIN Tail(q) : i + 1 \in DOMAIN q /\ Tail(q)[i] = q[i + 1]
         /\ \A i \in DOMAIN q : i > 1 =>
              i - 1 \in DOMAIN Tail(q) /\ Tail(q)[i - 1] = q[i]
         /\ \A i \in DOMAIN q : i \in Nat /\ i >= 1
OBVIOUS

Has(q, prim) == \E i \in DOMAIN q : q[i].prim = prim

After(q, i, prim) == \E j \in DOMAIN q : j > i /\ q[j].prim = prim

LEMMA JoinedHas ==
  ASSUME NEW S, NEW q \in Seq(S), NEW w \in Seq(S), NEW prim
  PROVE  /\ Has(q \o w, prim) <=> Has(q, prim) \/ Has(w, prim)
         /\ \A i \in DOMAIN q :
              After(q, i, prim) \/ Has(w, prim) => After(q \o w, i, prim)
<1>1. Has(q, prim) \/ Has(w, prim) => Has(q \o w, prim)
  <2>1. ASSUME NEW i \in DOMAIN q, q[i].prim = prim
        PROVE  Has(q \o w, prim)
    BY <2>1, Joined DEF Has
  <2>2. ASSUME NEW i \in DOMAIN w, w[i].prim = prim
        PROVE  Has(q \o w, prim)
    <3>1. i + Len(q) \in DOMAIN (q \o w) /\ (q \o w)[i + Len(q)] = w[i]
      BY Joined
    <3> QED BY <2>2, <3>1 DEF Has
  <2> QED BY <2>1, <2>2 DEF Has
<1>2. Has(q \o w, prim) => Has(q, prim) \/ Has(w, prim)
  BY Joined DEF Has
<1>3. ASSUME NEW i \in DOMAIN q, After(q, i, prim)
      PROVE  After(q \o w, i, prim)
  BY <1>3, Joined DEF After
<1>4. ASSUME NEW i \in DOMAIN q, Has(w, prim)
      PROVE  After(q \o w, i, prim)
  <2>1. PICK k \in DOMAIN w : w[k].prim = prim
    BY <1>4 DEF Has
  <2>2. /\ k + Len(q) \in DOMAIN (q \o w) /\ (q \o w)[k + Len(q)] = w[k]
        /\ k + Len(q) > i
    BY Joined
  <2> QED BY <2>1, <2>2 DEF After
<1> QED BY <1>1, <1>2, <1>3, <1>4

LEMMA PassedHas ==
  ASSUME NEW S, NEW q \in Seq(S), q # << >>, NEW prim
  PROVE  /\ Has(q, prim) <=> Head(q).prim = prim \/ Has(Tail(q), prim)
         /\ \A i \in DOMAIN Tail(q) :
              After(q, i + 1, prim) => After(Tail(q), i, prim)
         /\ After(q, 1, prim) => Has(Tail(q), prim)
<1>1. Head(q).prim = prim \/ Has(Tail(q), prim) => Has(q, prim)
  BY Passed DEF Has
<1>2. ASSUME NEW j \in DOMAIN q
      PROVE  j = 1 \/ j > 1
  BY Passed
<1>3. Has(q, prim) => Head(q).prim = prim \/ Has(Tail(q), prim)
  BY <1>2, Passed DEF Has
<1>4. ASSUME NEW i \in DOMAIN Tail(q), After(q, i + 1, prim)
      PROVE  After(Tail(q), i, prim)
  <2>1. PICK j \in DOMAIN q : j > i + 1 /\ q[j].prim = prim
    BY <1>4 DEF After
  <2>2. i \in Nat /\ j \in Nat
    OBVIOUS
  <2>3. j > 1 /\ j - 1 > i
    BY <2>1, <2>2
  <2> QED BY <2>1, <2>3, Passed DEF After
<1>5. After(q, 1, prim) => Has(Tail(q), prim)
  BY Passed DEF After, Has
<1> QED BY <1>1, <1>3, <1>4, <1>5

-----------------------------------------------------------------------------
(* What a packet does to the table, the pings and the requests.            *)

(* p confirms that h was deleted; lists h; tells the identity of h; says   *)
(* that h has answered a call.                                             *)
Deletes(p, h) == p.prim = "DELETE_REGISTRATION_CFM" /\ p.id = h

Names(p, h) ==
  p.prim = "GET_REGISTRATION_COUNT_CFM" /\ \E i \in DOMAIN p.ids : p.ids[i] = h

Tells(p, h) == p.prim = "GET_HANDSET_IPUI_CFM" /\ p.id = h

Picks(p, h) == p.prim = "CC_CONNECT_IND" /\ p.id = h

(* On p the daemon asks for the identity of n.                             *)
Follows(s, p, n) ==
  \/ /\ p.prim = "GET_REGISTRATION_COUNT_CFM"
     /\ p.ids # << >> /\ n = p.ids[1]
  \/ /\ p.prim = "GET_HANDSET_IPUI_CFM" /\ p.id \in Handset
     /\ n = p.id + 1 /\ IsRegistered(s, n)

Handles(s, t, p) ==
  /\ s.listTimers > 0 \/ p.prim = "DELETE_REGISTRATION_CFM" => t.listTimers > 0
  /\ p.prim = "CC_FEATURES_CFM" => Has(t.out, "GET_REGISTRATION_COUNT_REQ")
  /\ ~Has(t.out, "CC_SETUP_REQ")
  /\ \A h \in Handset :
       /\ t.handset[h].registered =
            (Names(p, h) \/ (s.handset[h].registered /\ ~Deletes(p, h)))
       /\ t.handset[h].ipui = IF Tells(p, h) THEN p.ipui ELSE s.handset[h].ipui
       /\ t.handset[h].pinging = (s.handset[h].pinging /\ ~Picks(p, h))
  /\ \A i \in DOMAIN t.out :
       t.out[i].prim = "GET_HANDSET_IPUI_REQ" => Follows(s, p, t.out[i].arg)
  /\ \A n : Follows(s, p, n) =>
       \E i \in DOMAIN t.out :
         t.out[i].prim = "GET_HANDSET_IPUI_REQ" /\ t.out[i].arg = n
  /\ t.pingTimers = s.pingTimers
  /\ t.CallReference = IF p.prim = "CC_SETUP_CFM" THEN p.id ELSE s.CallReference

LEMMA PacketEffect ==
  ASSUME NEW s, Inv(s), s.out = << >>, NEW p \in StackPacket
  PROVE  Handles(s, handle_dect_packet(s, p), p)
<1> DEFINE t == handle_dect_packet(s, p)
<1> SUFFICES Handles(s, t, p)
  OBVIOUS
<1>0. s \in State /\ s.listTimers \in Nat
      /\ \A h \in Handset : s.handset[h].registered \in BOOLEAN
                            /\ s.handset[h].pinging \in BOOLEAN
  BY DEF Inv, State, Hset
<1>1. /\ PacketOK(p) /\ p.prim \in Prims /\ p.id \in Nat
      /\ p.ids \in Seq(Handset) /\ p.ok = TRUE
      /\ p.ipui \in Ipuis \cup {NoIpui}
  BY StackPacketOK
<1>2. CASE p.prim \notin Special
  <2>1. Goes(s, t)
    BY <1>1, <1>2, PacketGoes
  <2>2. Mute(t) /\ (s.listTimers > 0 => t.listTimers > 0)
    BY <1>0, <2>1 DEF Goes, Mute, State
  <2>3. p.prim = "CC_FEATURES_CFM" => Has(t.out, "GET_REGISTRATION_COUNT_REQ")
    BY <1>0, FeaturesGoes DEF handle_dect_packet, Has
  <2> HIDE DEF t
  <2> QED BY <1>0, <1>2, <2>1, <2>2, <2>3
          DEF Special, Goes, SameTable, Mute, Has, Handles,
              Deletes, Names, Tells, Picks, Follows
<1>3. CASE p.prim = "GET_REGISTRATION_COUNT_CFM"
  <2> DEFINE u == registration_count_cfm(s, TRUE, p.ids)
  <2>1. t = u
    BY <1>1, <1>3 DEF handle_dect_packet
  <2>0. u \in State /\ u.listTimers >= s.listTimers
    BY <1>0, <1>1, CountEffect
  <2>5. s.listTimers > 0 => u.listTimers > 0
    <3> HIDE DEF u
    <3> QED BY <1>0, <2>0 DEF State
  <2>2. /\ SameCalls(s, u)
        /\ \A h \in Handset :
             /\ u.handset[h].registered =
                  (s.handset[h].registered \/ \E i \in DOMAIN p.ids : p.ids[i] = h)
             /\ u.handset[h].ipui = s.handset[h].ipui
        /\ IF p.ids = << >> THEN Mute(u) ELSE Queries(u, p.ids[1])
    BY <1>0, <1>1, CountEffect
  <2> HIDE DEF t, u
  <2>3. CASE p.ids = << >>
    BY <1>0, <1>3, <2>1, <2>2, <2>3, <2>5
       DEF SameCalls, Mute, Has, Handles, Deletes, Names, Tells, Picks, Follows
  <2>4. CASE p.ids # << >>
    BY <1>0, <1>3, <2>1, <2>2, <2>4, <2>5
       DEF SameCalls, Queries, Has, Handles, Deletes, Names, Tells, Picks, Follows
  <2> QED BY <2>3, <2>4
<1>4. CASE p.prim = "GET_HANDSET_IPUI_CFM"
  <2> DEFINE u == handset_ipui_cfm(s, p.id, p.ipui)
  <2>1. t = u
    BY <1>4 DEF handle_dect_packet
  <2>2. CASE p.id \in Handset
    <3>0. u \in State /\ u.listTimers >= s.listTimers
      BY <1>0, <1>1, <2>2, IpuiEffect
    <3>4. s.listTimers > 0 => u.listTimers > 0
      <4> HIDE DEF u
      <4> QED BY <1>0, <3>0 DEF State
    <3>1. /\ SameCalls(s, u)
          /\ \A h \in Handset :
               /\ u.handset[h].registered = s.handset[h].registered
               /\ u.handset[h].ipui = IF h = p.id THEN p.ipui ELSE s.handset[h].ipui
          /\ IF IsRegistered(s, p.id + 1) THEN Queries(u, p.id + 1) ELSE Mute(u)
      BY <1>0, <1>1, <2>2, IpuiEffect
    <3> HIDE DEF t, u
    <3>2. CASE IsRegistered(s, p.id + 1)
      BY <1>0, <1>4, <2>1, <2>2, <3>1, <3>2, <3>4
         DEF SameCalls, Queries, Has, Handles, Deletes, Names, Tells, Picks, Follows
    <3>3. CASE ~IsRegistered(s, p.id + 1)
      BY <1>0, <1>4, <2>1, <2>2, <3>1, <3>3, <3>4
         DEF SameCalls, Mute, Has, Handles, Deletes, Names, Tells, Picks, Follows
    <3> QED BY <3>2, <3>3
  <2>3. CASE p.id \notin Handset
    <3>1. t = s
      BY <2>1, <2>3 DEF handset_ipui_cfm, bad_handsetnr
    <3> HIDE DEF t, u
    <3> QED BY <1>0, <1>4, <2>3, <3>1
            DEF Has, Handles, Deletes, Names, Tells, Picks, Follows
  <2> QED BY <2>2, <2>3
<1>5. CASE p.prim = "DELETE_REGISTRATION_CFM"
  <2> DEFINE u == list_handsets_schedule(delete_registration_cfm(s, p.id))
  <2>1. t = u
    BY <1>5 DEF handle_dect_packet
  <2>2. /\ SameCalls(s, u) /\ u.listTimers > 0
        /\ u.out = << >>
        /\ \A h \in Handset :
             /\ u.handset[h].registered = (s.handset[h].registered /\ h # p.id)
             /\ u.handset[h].ipui = s.handset[h].ipui
    BY <1>1, DeleteEffect
  <2> HIDE DEF t, u
  <2> QED BY <1>0, <1>5, <2>1, <2>2
          DEF SameCalls, Has, Handles, Deletes, Names, Tells, Picks, Follows
<1>6. CASE p.prim = "CC_SETUP_CFM"
  <2> DEFINE u == setup_cfm(s, p.id)
  <2>1. t = u
    BY <1>6 DEF handle_dect_packet
  <2>2. /\ u.handset = s.handset /\ u.pingTimers = s.pingTimers
        /\ u.CallReference = p.id /\ u.listTimers = s.listTimers
        /\ u.out = << >>
    BY <1>0, <1>1, SetupEffect
  <2> HIDE DEF t, u
  <2> QED BY <1>0, <1>6, <2>1, <2>2
          DEF Has, Handles, Deletes, Names, Tells, Picks, Follows
<1>7. CASE p.prim = "CC_CONNECT_IND"
  <2> DEFINE u == connect_ind(s, p.id)
  <2>1. t = u
    BY <1>7 DEF handle_dect_packet
  <2>2. /\ u.pingTimers = s.pingTimers /\ u.CallReference = s.CallReference
        /\ u.listTimers = s.listTimers /\ u.out = << >>
        /\ \A h \in Handset :
             /\ u.handset[h].registered = s.handset[h].registered
             /\ u.handset[h].ipui = s.handset[h].ipui
             /\ u.handset[h].pinging = (s.handset[h].pinging /\ h # p.id)
    BY <1>1, ConnectEffect
  <2> HIDE DEF t, u
  <2> QED BY <1>0, <1>7, <2>1, <2>2
          DEF Has, Handles, Deletes, Names, Tells, Picks, Follows
<1> QED BY <1>2, <1>3, <1>4, <1>5, <1>6, <1>7 DEF Special

(* Commands and timers: no handset comes in or goes, no identity is asked  *)
(* for, and a timer for a listing is not lost.                             *)
Acts(s, t) ==
  /\ s.listTimers > 0 => t.listTimers > 0 \/ Has(t.out, "CC_FEATURES_REQ")
  /\ ~Has(t.out, "GET_HANDSET_IPUI_REQ")
  /\ \A h \in Handset :
       /\ t.handset[h].registered = s.handset[h].registered
       /\ t.handset[h].ipui = s.handset[h].ipui

LEMMA GoesActs ==
  ASSUME NEW s \in State, s.out = << >>, NEW t, Goes(s, t)
  PROVE  Acts(s, t) /\ ~Has(t.out, "CC_SETUP_REQ")
<1>1. s.listTimers > 0 => t.listTimers > 0
  BY DEF Goes, State
<1>2. Mute(t)
  BY DEF Goes, Mute
<1> QED BY <1>1, <1>2 DEF Goes, SameTable, Mute, Has, Acts

LEMMA OwnEffect ==
  ASSUME SysType
  PROVE  /\ \A c \in UserCommands, f \in Files :
              Acts(mngr, handle_client_packet(mngr, c, f))
         /\ mngr.listTimers > 0 => Acts(mngr, list_expired(mngr))
         /\ mngr.startTimers > 0 => Acts(mngr, start_expired(mngr))
         /\ mngr.stopTimers > 0 => Acts(mngr, stop_expired(mngr))
         /\ mngr.pingTimers # << >> => Acts(mngr, ping_expired(mngr))
<1> Inv(mngr) /\ mngr \in State /\ mngr.out = << >>
  BY DEF SysType, Inv
<1>1. ASSUME NEW c \in UserCommands, NEW f \in Files
      PROVE  Acts(mngr, handle_client_packet(mngr, c, f))
  <2>1. c \in ClientPacket
    BY SystemAssumption
  <2>2. CASE c.type # "PING_HSET"
    BY <2>1, <2>2, CommandGoes, GoesActs
  <2>3. CASE c.type = "PING_HSET"
    <3>1. handle_client_packet(mngr, c, f) = ping_handset(mngr, c.data)
      BY <2>3 DEF handle_client_packet
    <3>2. c.data \in Nat
      <4>1. c.data \in 0 .. 255
        BY <2>1, MngrAssumption DEF ClientPacket
      <4>2. \A n \in 0 .. 255 : n \in Nat
        OBVIOUS
      <4> QED BY <4>1, <4>2
    <3> DEFINE t == ping_handset(mngr, c.data)
    <3>3. \/ t = mngr
          \/ /\ t.out = <<[prim |-> "CC_SETUP_REQ", arg |-> c.data]>>
             /\ t.listTimers = mngr.listTimers
             /\ \A h \in Handset :
                  /\ t.handset[h].registered = mngr.handset[h].registered
                  /\ t.handset[h].ipui = mngr.handset[h].ipui
      BY <3>2, PingEffect
    <3> HIDE DEF t
    <3>4. Acts(mngr, t)
      BY <3>3 DEF Acts, Has
    <3> QED BY <3>1, <3>4 DEF t
  <2> QED BY <2>2, <2>3
<1>2. ASSUME mngr.listTimers > 0
      PROVE  Acts(mngr, list_expired(mngr))
  <2> DEFINE t == list_expired(mngr)
  <2> SUFFICES Acts(mngr, t)
    OBVIOUS
  <2>1. /\ Mute(t) /\ SameTable(mngr, t)
        /\ \E i \in DOMAIN t.out : t.out[i].prim = "CC_FEATURES_REQ"
    BY <1>2, ListTimerEffect
  <2> HIDE DEF t
  <2> QED BY <2>1 DEF Mute, SameTable, Has, Acts
<1>3. mngr.startTimers > 0 => Acts(mngr, start_expired(mngr))
  BY DelayedStartGoes, GoesActs
<1>4. mngr.stopTimers > 0 => Acts(mngr, stop_expired(mngr))
  BY StopTimerGoes, GoesActs
<1>5. ASSUME mngr.pingTimers # << >>
      PROVE  Acts(mngr, ping_expired(mngr))
  <2> DEFINE t == ping_expired(mngr)
             n == Head(mngr.pingTimers)
  <2> SUFFICES Acts(mngr, t)
    OBVIOUS
  <2>1. /\ t.listTimers = mngr.listTimers
        /\ \A h \in Handset :
             /\ t.handset[h].registered = mngr.handset[h].registered
             /\ t.handset[h].ipui = mngr.handset[h].ipui
        /\ t.out = IF mngr.handset[n].pinging
                   THEN <<[prim |-> "CC_RELEASE_REQ", arg |-> mngr.CallReference]>>
                   ELSE << >>
    BY <1>5, PingTimerEffect
  <2> HIDE DEF t, n
  <2> QED BY <2>1 DEF Has, Acts
<1> QED BY <1>1, <1>2, <1>3, <1>4, <1>5

OwnStep == Command \/ ListExpires \/ StartExpires \/ StopExpires \/ PingExpires

LEMMA OwnFacts ==
  ASSUME SysType, OwnStep
  PROVE  fromStack' = fromStack /\ \E t : Inv(t) /\ Step(t) /\ Acts(mngr, t)
<1>1. CASE Command
  <2>1. PICK c \in UserCommands, f \in Files :
          Step(handle_client_packet(mngr, c, f))
    BY <1>1 DEF Command
  <2> QED BY <1>1, <2>1, HandlerFacts, OwnEffect DEF Command
<1>2. CASE ListExpires
  BY <1>2, HandlerFacts, OwnEffect DEF ListExpires
<1>3. CASE StartExpires
  BY <1>3, HandlerFacts, OwnEffect DEF StartExpires
<1>4. CASE StopExpires
  BY <1>4, HandlerFacts, OwnEffect DEF StopExpires
<1>5. CASE PingExpires
  BY <1>5, HandlerFacts, OwnEffect DEF PingExpires
<1> QED BY <1>1, <1>2, <1>3, <1>4, <1>5 DEF OwnStep

LEMMA PacketFacts ==
  ASSUME SysType, Receive
  PROVE  /\ fromStack # << >> /\ Head(fromStack) \in StackPacket
         /\ fromStack' = Tail(fromStack)
         /\ \E t : /\ Inv(t) /\ Step(t)
                   /\ Handles(mngr, t, Head(fromStack))
<1> Inv(mngr) /\ mngr.out = << >>
  BY DEF SysType
<1>1. /\ Head(fromStack) \in StackPacket /\ fromStack' = Tail(fromStack)
      /\ Step(handle_dect_packet(mngr, Head(fromStack))) /\ fromStack # << >>
  BY ReceiveType DEF Receive
<1> QED BY <1>1, HandlerFacts, PacketEffect

-----------------------------------------------------------------------------
(* What the stack does.                                                    *)

(* w is what it answers to the request r.                                  *)
Answers(r, w) ==
  /\ w \in Seq(StackPacket)
  /\ r.prim = "DELETE_REGISTRATION_REQ" => \E i \in DOMAIN w : Deletes(w[i], r.arg)
  /\ r.prim = "CC_FEATURES_REQ" => Has(w, "CC_FEATURES_CFM")
  /\ r.prim = "GET_REGISTRATION_COUNT_REQ" =>
       \A h \in Known : \E i \in DOMAIN w : Names(w[i], h)
  /\ r.prim = "GET_HANDSET_IPUI_REQ" => \E i \in DOMAIN w : Tells(w[i], r.arg)
  /\ r.prim = "CC_SETUP_REQ" =>
       \E i \in DOMAIN w : w[i].prim = "CC_SETUP_CFM" /\ w[i].id = r.arg
  /\ \A i \in DOMAIN w :
       /\ \A h : Names(w[i], h) => h \in Known' /\ Known' = Known
       /\ w[i].prim = "GET_HANDSET_IPUI_CFM" =>
            /\ r.prim = "GET_HANDSET_IPUI_REQ" /\ w[i].id = r.arg
            /\ w[i].ipui = IdentityOf(r.arg) /\ stack' = stack
       /\ w[i].prim = "CC_SETUP_CFM" => r.prim = "CC_SETUP_REQ" /\ w[i].id = r.arg
       /\ w[i].prim # "CC_CONNECT_IND"
       /\ \A a, b \in DOMAIN w[i].ids : a < b => w[i].ids[a] < w[i].ids[b]

LEMMA ReplyAnswers ==
  ASSUME SysType, NEW r \in Request, NEW refused \in BOOLEAN,
         stack' = Effect(r, refused), NEW ids \in Ascending(Known),
         Reply(r, ids) \in Seq(StackPacket)
  PROVE  Answers(r, Reply(r, ids))
<1> DEFINE w == Reply(r, ids)
<1> USE DEF Deletes, Names, Tells, Has
<1>0. r.prim \in RequestPrims /\ r.arg \in Nat
  BY DEF Request
<1>1. /\ \A h \in Known : \E i \in DOMAIN ids : ids[i] = h
      /\ \A i \in DOMAIN ids : ids[i] \in Known
      /\ \A i, j \in DOMAIN ids : i < j => ids[i] < ids[j]
      /\ ids \in Seq(Handset)
  BY AscendingKnown
<1>2. \A prim \in Prims, n \in Nat :
        /\ Packet(prim, n).prim = prim /\ Packet(prim, n).id = n
        /\ Packet(prim, n).ids = << >>
  BY PlainPacket
<1>3. {"LINUX_INIT_CFM", "CC_FEATURES_CFM", "SET_REGISTRATION_MODE_CFM",
       "GET_REGISTRATION_COUNT_CFM", "GET_HANDSET_IPUI_CFM",
       "DELETE_REGISTRATION_CFM", "CC_SETUP_CFM"} \subseteq Prims
  BY DEF Prims
<1>4. ASSUME NEW p, w = <<p>>, p.ids = << >>,
             p.prim \notin {"GET_REGISTRATION_COUNT_CFM", "GET_HANDSET_IPUI_CFM",
                            "CC_SETUP_CFM", "CC_CONNECT_IND"}
      PROVE  \A i \in DOMAIN w :
               /\ \A h : ~Names(w[i], h)
               /\ w[i].prim \notin {"GET_HANDSET_IPUI_CFM", "CC_SETUP_CFM",
                                    "CC_CONNECT_IND"}
               /\ \A a, b \in DOMAIN w[i].ids : a < b => w[i].ids[a] < w[i].ids[b]
  <2> HIDE DEF w
  <2> QED BY <1>4
<1>5. CASE r.prim \in {"LINUX_INIT_REQ", "CC_FEATURES_REQ",
                       "SET_REGISTRATION_MODE_REQ", "DELETE_REGISTRATION_REQ"}
  <2>1. PICK prim \in {"LINUX_INIT_CFM", "CC_FEATURES_CFM",
                       "SET_REGISTRATION_MODE_CFM", "DELETE_REGISTRATION_CFM"} :
          /\ w = <<Packet(prim, IF r.prim = "DELETE_REGISTRATION_REQ"
                                THEN r.arg ELSE 0)>>
          /\ (prim = "CC_FEATURES_CFM") = (r.prim = "CC_FEATURES_REQ")
          /\ (prim = "DELETE_REGISTRATION_CFM") = (r.prim = "DELETE_REGISTRATION_REQ")
    BY <1>5 DEF Reply
  <2> DEFINE n == IF r.prim = "DELETE_REGISTRATION_REQ" THEN r.arg ELSE 0
             p == Packet(prim, n)
  <2>2. n \in Nat
    BY <1>0
  <2> HIDE DEF n
  <2>3. p.prim = prim /\ p.id = n /\ p.ids = << >>
    BY <1>2, <1>3, <2>2
  <2>4. w = <<p>>
    BY <2>1 DEF n
  <2> HIDE DEF w, p
  <2>5. \A i \in DOMAIN w :
          /\ \A h : ~Names(w[i], h)
          /\ w[i].prim \notin {"GET_HANDSET_IPUI_CFM", "CC_SETUP_CFM",
                               "CC_CONNECT_IND"}
          /\ \A a, b \in DOMAIN w[i].ids : a < b => w[i].ids[a] < w[i].ids[b]
    BY <1>4, <2>3, <2>4
  <2>6. 1 \in DOMAIN w /\ w[1] = p
    BY <2>4
  <2>7. r.prim = "DELETE_REGISTRATION_REQ" => \E i \in DOMAIN w : Deletes(w[i], r.arg)
    BY <2>1, <2>3, <2>6 DEF n
  <2>8. r.prim = "CC_FEATURES_REQ" => Has(w, "CC_FEATURES_CFM")
    BY <2>1, <2>3, <2>6
  <2>9. w \in Seq(StackPacket)
    BY DEF w
  <2> QED BY <1>5, <2>5, <2>7, <2>8, <2>9 DEF Answers, w
<1>6. CASE r.prim = "GET_REGISTRATION_COUNT_REQ"
  <2> DEFINE p == Counted(ids)
  <2>1. w = <<p>> /\ stack' = stack
    BY <1>6 DEF Reply, Effect
  <2>2. p.prim = "GET_REGISTRATION_COUNT_CFM" /\ p.ids = ids
    BY <1>1, CountPacket
  <2>3. Known' = Known
    BY <2>1 DEF Known
  <2>9. w \in Seq(StackPacket)
    OBVIOUS
  <2> HIDE DEF w, p
  <2>4. DOMAIN w = {1} /\ w[1] = p
    BY <2>1
  <2>5. \A h \in Known : \E i \in DOMAIN w : Names(w[i], h)
    BY <1>1, <2>2, <2>4
  <2>6. \A i \in DOMAIN w : \A h : Names(w[i], h) => h \in Known' /\ Known' = Known
    BY <1>1, <2>2, <2>3, <2>4
  <2>7. \A i \in DOMAIN w :
          \A a, b \in DOMAIN w[i].ids : a < b => w[i].ids[a] < w[i].ids[b]
    BY <1>1, <2>2, <2>4
  <2>8. \A i \in DOMAIN w : w[i].prim = "GET_REGISTRATION_COUNT_CFM"
    BY <2>2, <2>4
  <2> QED BY <1>6, <2>5, <2>6, <2>7, <2>8, <2>9 DEF Answers, w
<1>7. CASE r.prim = "GET_HANDSET_IPUI_REQ"
  <2> DEFINE i0 == IdentityOf(r.arg)
             p == Identified(r.arg, i0)
  <2>1. w = <<p>> /\ stack' = stack
    BY <1>7 DEF Reply, Effect, Identified
  <2>2. i0 \in Ipuis \cup {NoIpui}
    BY DEF IdentityOf, SysType, Stack
  <2> HIDE DEF i0
  <2>3. /\ p.prim = "GET_HANDSET_IPUI_CFM" /\ p.id = r.arg /\ p.ids = << >>
        /\ p.ipui = i0
    <3> HIDE DEF w
    <3>1. r.arg \in Nat
      BY <1>0
    <3> QED BY <3>1, <2>2, IdentityPacket, Zenon
  <2>9. w \in Seq(StackPacket)
    OBVIOUS
  <2> HIDE DEF w, p
  <2>4. DOMAIN w = {1} /\ w[1] = p
    BY <2>1
  <2>5. \E i \in DOMAIN w : Tells(w[i], r.arg)
    BY <2>3, <2>4
  <2>6. \A i \in DOMAIN w : /\ w[i].prim = "GET_HANDSET_IPUI_CFM" /\ w[i].id = r.arg
                            /\ w[i].ipui = IdentityOf(r.arg) /\ w[i].ids = << >>
    BY <2>3, <2>4 DEF i0
  <2> QED BY <1>7, <2>1, <2>5, <2>6, <2>9 DEF Answers, w
<1>8. CASE r.prim = "CC_SETUP_REQ"
  <2> DEFINE p == Packet("CC_SETUP_CFM", r.arg)
  <2>1. w = <<p>>
    BY <1>8 DEF Reply
  <2>2. p.prim = "CC_SETUP_CFM" /\ p.id = r.arg /\ p.ids = << >>
    BY <1>0, <1>2, <1>3
  <2>9. w \in Seq(StackPacket)
    OBVIOUS
  <2> HIDE DEF w, p
  <2>3. DOMAIN w = {1} /\ w[1] = p
    BY <2>1
  <2> QED BY <1>8, <2>2, <2>3, <2>9 DEF Answers, w
<1>9. CASE r.prim \notin {"LINUX_INIT_REQ", "CC_FEATURES_REQ",
                          "GET_REGISTRATION_COUNT_REQ", "GET_HANDSET_IPUI_REQ",
                          "SET_REGISTRATION_MODE_REQ", "DELETE_REGISTRATION_REQ",
                          "CC_SETUP_REQ"}
  <2>1. w = << >>
    BY <1>9 DEF Reply
  <2> HIDE DEF w
  <2>2. DOMAIN w = {} /\ w \in Seq(StackPacket)
    BY <2>1
  <2> QED BY <1>9, <2>2 DEF Answers, w
<1> QED BY <1>5, <1>6, <1>7, <1>8, <1>9

LEMMA AnswerFacts ==
  ASSUME SysType, StackAnswers
  PROVE  LET r == Head(toStack)
         IN /\ toStack # << >> /\ r \in Request /\ toStack' = Tail(toStack)
            /\ mngr' = mngr /\ listed' = listed \cap Known' /\ crossed' = crossed
            /\ Known' \subseteq Known
            /\ \A h \in Known' : stack'.ident[h] = stack.ident[h]
            /\ \A h \in Known : h \notin Known' =>
                 r.prim = "DELETE_REGISTRATION_REQ" /\ r.arg = h
            /\ stack'.ringing =
                 CASE r.prim = "CC_SETUP_REQ" ->
                        stack.ringing \cup (Known \cap {r.arg})
                   [] r.prim = "CC_RELEASE_REQ" -> stack.ringing \ {r.arg}
                   [] OTHER -> stack.ringing
            /\ \E w : fromStack' = fromStack \o w /\ Answers(r, w)
<1> DEFINE r == Head(toStack)
<1>1. /\ toStack \in Seq(Request) /\ toStack # << >> /\ toStack' = Tail(toStack)
      /\ mngr' = mngr /\ listed' = listed \cap Known' /\ crossed' = crossed
  BY DEF SysType, StackAnswers
<1>2. r \in Request
  BY <1>1
<1>3. PICK ids \in Ascending(Known) : fromStack' = fromStack \o Reply(r, ids)
  BY DEF StackAnswers
<1>4. PICK refused \in BOOLEAN : stack' = Effect(r, refused)
  BY DEF StackAnswers
<1> HIDE DEF r
<1>5. stack \in Stack
  BY DEF SysType
<1>6. /\ Known' \subseteq Known
      /\ \A h \in Known' : stack'.ident[h] = stack.ident[h]
      /\ \A h \in Known : h \notin Known' =>
           r.prim = "DELETE_REGISTRATION_REQ" /\ r.arg = h
  <2>1. CASE r.prim = "DELETE_REGISTRATION_REQ"
    <3> DEFINE f == [h \in Handset |->
                       IF h = r.arg /\ ~refused THEN NoIpui ELSE stack.ident[h]]
    <3>1. stack'.ident = f
      BY <1>4, <1>5, <2>1 DEF Effect, Stack
    <3>2. \A h \in Handset : stack'.ident[h] =
            IF h = r.arg /\ ~refused THEN NoIpui ELSE stack.ident[h]
      BY <3>1
    <3> QED BY <2>1, <3>2 DEF Known
  <2>2. CASE r.prim # "DELETE_REGISTRATION_REQ"
    <3>1. stack'.ident = stack.ident
      BY <1>4, <1>5, <2>2 DEF Effect, Stack
    <3> QED BY <3>1 DEF Known
  <2> QED BY <2>1, <2>2
<1>7. stack'.ringing =
        CASE r.prim = "CC_SETUP_REQ" -> stack.ringing \cup (Known \cap {r.arg})
          [] r.prim = "CC_RELEASE_REQ" -> stack.ringing \ {r.arg}
          [] OTHER -> stack.ringing
  BY <1>4, <1>5 DEF Effect, Stack
<1>8. Answers(r, Reply(r, ids))
  BY <1>2, <1>4, ReplyAnswers, ReplyType
<1> QED BY <1>1, <1>2, <1>3, <1>6, <1>7, <1>8 DEF r

LEMMA AirFacts ==
  ASSUME SysType, NEW h \in Handset, Registers(h) \/ Announces(h) \/ PicksUp(h)
  PROVE  /\ \E p \in StackPacket :
              /\ p.prim \in {"REGISTRATION_COMPLETE_IND", "HANDSET_PRESENT_IND",
                             "CC_CONNECT_IND"}
              /\ p.id = h /\ p.ids = << >>
              /\ p.prim = "CC_CONNECT_IND" => h \in stack.ringing
              /\ fromStack' = fromStack \o <<p>>
              /\ IF p.prim = "CC_CONNECT_IND"
                 THEN stack'.ringing = stack.ringing \ {h}
                 ELSE stack'.ringing = stack.ringing
         /\ UNCHANGED <<mngr, toStack, listed, crossed>>
         /\ \A g \in Known : g \in Known' /\ stack'.ident[g] = stack.ident[g]
<1>1. \A prim \in Prims :
        /\ Packet(prim, h) \in StackPacket /\ Packet(prim, h).prim = prim
        /\ Packet(prim, h).id = h /\ Packet(prim, h).ids = << >>
  BY PlainPacket, MngrAssumption DEF Handset
<1>2. {"REGISTRATION_COMPLETE_IND", "HANDSET_PRESENT_IND", "CC_CONNECT_IND"}
        \subseteq Prims
  BY DEF Prims
<1>3. stack \in Stack
  BY DEF SysType
<1>4. ASSUME NEW p \in StackPacket, OverTheAir(p)
      PROVE  /\ fromStack' = fromStack \o <<p>>
             /\ UNCHANGED <<mngr, toStack, listed, crossed>>
  <2>1. fromStack \in Seq(StackPacket) /\ fromStack' = Append(fromStack, p)
    BY <1>4 DEF OverTheAir, SysType
  <2>2. fromStack' = fromStack \o <<p>>
    BY <2>1
  <2> QED BY <1>4, <2>2 DEF OverTheAir
<1>5. CASE Registers(h)
  <2>1. PICK i \in Ipuis : stack' = [stack EXCEPT !.ident[h] = i]
    BY <1>5 DEF Registers
  <2>2. /\ stack'.ringing = stack.ringing
        /\ \A g \in Handset : g # h => stack'.ident[g] = stack.ident[g]
    BY <1>3, <2>1 DEF Stack
  <2>3. \A g \in Known : g \in Known' /\ stack'.ident[g] = stack.ident[g]
    BY <1>5, <2>2 DEF Registers, Known
  <2>4. OverTheAir(Packet("REGISTRATION_COMPLETE_IND", h))
    BY <1>5 DEF Registers
  <2> QED BY <1>1, <1>2, <1>4, <2>2, <2>3, <2>4
<1>6. CASE Announces(h)
  <2>1. OverTheAir(Packet("HANDSET_PRESENT_IND", h)) /\ stack' = stack
    BY <1>6 DEF Announces
  <2> QED BY <1>1, <1>2, <1>4, <2>1 DEF Known
<1>7. CASE PicksUp(h)
  <2>1. /\ OverTheAir(Packet("CC_CONNECT_IND", h))
        /\ stack' = [stack EXCEPT !.ringing = @ \ {h}]
    BY <1>7 DEF PicksUp
  <2>2. stack'.ringing = stack.ringing \ {h} /\ stack'.ident = stack.ident
    BY <1>3, <2>1 DEF Stack
  <2>3. h \in stack.ringing
    BY <1>7 DEF PicksUp
  <2> QED BY <1>1, <1>2, <1>4, <2>1, <2>2, <2>3 DEF Known
<1> QED BY <1>5, <1>6, <1>7

-----------------------------------------------------------------------------
(* A handset the stack has dropped.  What makes NoGhostHandset inductive:  *)
(* also a listing still on the link that names the handset is followed by  *)
(* the confirmation of the deletion, which clears the entry again.         *)

GhostsGo ==
  /\ \A h \in Handset : mngr.handset[h].registered /\ h \notin Known =>
       \E j \in DOMAIN fromStack : Deletes(fromStack[j], h)
  /\ \A i \in DOMAIN fromStack, h \in Handset :
       Names(fromStack[i], h) /\ h \notin Known =>
         \E j \in DOMAIN fromStack : j > i /\ Deletes(fromStack[j], h)

LEMMA GhostAnswer ==
  ASSUME SysType, GhostsGo, StackAnswers
  PROVE  GhostsGo'
<1> DEFINE r == Head(toStack)
<1>1. PICK w : fromStack' = fromStack \o w /\ Answers(r, w)
  BY AnswerFacts
<1>2. /\ mngr' = mngr /\ Known' \subseteq Known
      /\ \A h \in Known : h \notin Known' =>
           r.prim = "DELETE_REGISTRATION_REQ" /\ r.arg = h
  BY AnswerFacts
<1> HIDE DEF r
<1>3. fromStack \in Seq(StackPacket) /\ w \in Seq(StackPacket)
  BY <1>1 DEF SysType, Answers
<1>4. ASSUME NEW h \in Handset, h \in Known, h \notin Known'
      PROVE  \E j \in DOMAIN fromStack' :
               Deletes(fromStack'[j], h) /\ \A i \in DOMAIN fromStack : j > i
  <2>1. PICK k \in DOMAIN w : Deletes(w[k], h)
    BY <1>1, <1>2, <1>4 DEF Answers
  <2> QED BY <1>1, <1>3, <2>1, Joined
<1>5. ASSUME NEW h \in Handset, mngr'.handset[h].registered, h \notin Known'
      PROVE  \E j \in DOMAIN fromStack' : Deletes(fromStack'[j], h)
  <2>1. CASE h \in Known
    BY <1>4, <1>5, <2>1
  <2>2. CASE h \notin Known
    <3>1. PICK j \in DOMAIN fromStack : Deletes(fromStack[j], h)
      BY <1>2, <1>5, <2>2 DEF GhostsGo
    <3> QED BY <1>1, <1>3, <3>1, Joined
  <2> QED BY <2>1, <2>2
<1>6. ASSUME NEW i \in DOMAIN fromStack', NEW h \in Handset,
             Names(fromStack'[i], h), h \notin Known'
      PROVE  \E j \in DOMAIN fromStack' : j > i /\ Deletes(fromStack'[j], h)
  <2>1. CASE i \in DOMAIN fromStack
    <3>1. Names(fromStack[i], h)
      BY <1>1, <1>3, <1>6, <2>1, Joined
    <3>2. CASE h \in Known
      BY <1>4, <1>6, <2>1, <3>2
    <3>3. CASE h \notin Known
      <4>1. PICK j \in DOMAIN fromStack : j > i /\ Deletes(fromStack[j], h)
        BY <2>1, <3>1, <3>3 DEF GhostsGo
      <4> QED BY <1>1, <1>3, <4>1, Joined
    <3> QED BY <3>2, <3>3
  <2>2. CASE i \notin DOMAIN fromStack
    <3>1. i - Len(fromStack) \in DOMAIN w
          /\ fromStack'[i] = w[i - Len(fromStack)]
      BY <1>1, <1>3, <2>2, Joined
    <3> QED BY <1>1, <1>6, <3>1 DEF Answers
  <2> QED BY <2>1, <2>2
<1> QED BY <1>5, <1>6 DEF GhostsGo

LEMMA GhostAir ==
  ASSUME SysType, GhostsGo, NEW h0 \in Handset,
         Registers(h0) \/ Announces(h0) \/ PicksUp(h0)
  PROVE  GhostsGo'
<1>1. PICK p \in StackPacket :
        /\ p.prim \in {"REGISTRATION_COMPLETE_IND", "HANDSET_PRESENT_IND",
                       "CC_CONNECT_IND"}
        /\ fromStack' = fromStack \o <<p>>
  BY AirFacts
<1>2. mngr' = mngr /\ \A h \in Known : h \in Known'
  BY AirFacts
<1>3. fromStack \in Seq(StackPacket) /\ <<p>> \in Seq(StackPacket)
  BY DEF SysType
<1>4. \A j \in DOMAIN fromStack :
        j \in DOMAIN fromStack' /\ fromStack'[j] = fromStack[j]
  BY <1>1, <1>3, Joined
<1>5. \A i \in DOMAIN fromStack' : \A h :
        Names(fromStack'[i], h) => i \in DOMAIN fromStack
  BY <1>1, <1>3, Joined DEF Names
<1> QED BY <1>2, <1>4, <1>5 DEF GhostsGo

LEMMA GhostPacket ==
  ASSUME SysType, GhostsGo, Receive
  PROVE  GhostsGo'
<1> DEFINE p == Head(fromStack)
<1>1. PICK t : Inv(t) /\ Step(t) /\ Handles(mngr, t, p)
  BY PacketFacts
<1>2. /\ fromStack \in Seq(StackPacket) /\ fromStack # << >>
      /\ fromStack' = Tail(fromStack) /\ p = fromStack[1]
  BY PacketFacts, Passed DEF SysType
<1> HIDE DEF p
<1>3. /\ Known' = Known
      /\ \A h \in Handset : mngr'.handset[h].registered =
           (Names(p, h) \/ (mngr.handset[h].registered /\ ~Deletes(p, h)))
  BY <1>1, StepFacts DEF Handles
<1>4. \A i \in DOMAIN fromStack : i \in Nat /\ (i = 1 \/ i > 1)
  BY <1>2
<1>5. ASSUME NEW h \in Handset, mngr'.handset[h].registered, h \notin Known'
      PROVE  \E j \in DOMAIN fromStack' : Deletes(fromStack'[j], h)
  <2>1. CASE Names(p, h)
    <3>1. PICK j \in DOMAIN fromStack : j > 1 /\ Deletes(fromStack[j], h)
      BY <1>2, <1>3, <1>5, <2>1, Passed DEF GhostsGo
    <3> QED BY <1>2, <3>1, Passed
  <2>2. CASE ~Names(p, h)
    <3>1. mngr.handset[h].registered /\ ~Deletes(p, h)
      BY <1>3, <1>5, <2>2
    <3>2. PICK j \in DOMAIN fromStack : Deletes(fromStack[j], h)
      BY <1>3, <1>5, <3>1 DEF GhostsGo
    <3>3. j > 1
      BY <1>2, <1>4, <3>1, <3>2
    <3> QED BY <1>2, <3>2, <3>3, Passed
  <2> QED BY <2>1, <2>2
<1>6. ASSUME NEW i \in DOMAIN fromStack', NEW h \in Handset,
             Names(fromStack'[i], h), h \notin Known'
      PROVE  \E j \in DOMAIN fromStack' : j > i /\ Deletes(fromStack'[j], h)
  <2>1. i + 1 \in DOMAIN fromStack /\ fromStack'[i] = fromStack[i + 1] /\ i \in Nat
    BY <1>2, Passed
  <2>2. PICK j \in DOMAIN fromStack : j > i + 1 /\ Deletes(fromStack[j], h)
    BY <1>3, <1>6, <2>1 DEF GhostsGo
  <2>3. j > 1 /\ j - 1 > i
    BY <1>4, <2>1, <2>2
  <2> QED BY <1>2, <2>2, <2>3, Passed
<1> QED BY <1>5, <1>6 DEF GhostsGo

LEMMA GhostNext ==
  ASSUME SysType, GhostsGo, [SystemNext]_vars
  PROVE  GhostsGo'
<1>1. CASE StackAnswers
  BY <1>1, GhostAnswer
<1>2. CASE Receive
  BY <1>2, GhostPacket
<1>3. CASE OwnStep
  <2>1. PICK t : Inv(t) /\ Step(t) /\ Acts(mngr, t)
    BY <1>3, OwnFacts
  <2>2. fromStack' = fromStack
    BY <1>3, OwnFacts
  <2>3. /\ Known' = Known
        /\ \A h \in Handset :
             mngr'.handset[h].registered = mngr.handset[h].registered
    BY <2>1, StepFacts DEF Acts
  <2> QED BY <2>2, <2>3 DEF GhostsGo
<1>4. CASE \E h \in Handset : Registers(h) \/ Announces(h) \/ PicksUp(h)
  BY <1>4, GhostAir
<1>5. CASE UNCHANGED vars
  BY <1>5 DEF vars, GhostsGo, Known
<1> QED BY <1>1, <1>2, <1>3, <1>4, <1>5 DEF SystemNext, OwnStep

(* delete_hset clears nothing: the entry goes when the stack confirms, and *)
(* no count that was on its way brings the handset back for good.          *)
THEOREM GhostsAreCleared == System => []NoGhostHandset
<1>1. SystemInit => GhostsGo
  <2> SUFFICES ASSUME SystemInit
               PROVE  GhostsGo
    OBVIOUS
  <2>1. \A h \in Handset : ~mngr.handset[h].registered
    BY DEF SystemInit, init_status
  <2>2. fromStack = << >>
    BY DEF SystemInit
  <2> QED BY <2>1, <2>2 DEF GhostsGo
<1>2. GhostsGo => NoGhostHandset
  BY DEF GhostsGo, Deletes, NoGhostHandset
<1>3. SysType /\ GhostsGo /\ [SystemNext]_vars => GhostsGo'
  BY GhostNext
<1> QED BY <1>1, <1>2, <1>3, SysTypeAlways, PTL DEF System

-----------------------------------------------------------------------------
(* A listing that is due.  A refused deletion clears the entry of a        *)
(* handset; the listing that brings it back passes from the timer to the   *)
(* requests, to the stack and back, and is nowhere lost.                   *)

WillList ==
  \/ mngr.listTimers > 0
  \/ Has(toStack, "CC_FEATURES_REQ") \/ Has(fromStack, "CC_FEATURES_CFM")
  \/ Has(toStack, "GET_REGISTRATION_COUNT_REQ")

Deleting(h) == \E i \in DOMAIN fromStack : Deletes(fromStack[i], h)

Listing(h) == \E i \in DOMAIN fromStack : Names(fromStack[i], h)

Undone ==
  \A h \in listed :
    mngr.handset[h].registered \/ Deleting(h) \/ WillList \/ Listing(h)

(* What is on its way to the daemon stays there while the stack sends.     *)
LEMMA SendingKeeps ==
  ASSUME SysType, NEW w \in Seq(StackPacket), fromStack' = fromStack \o w
  PROVE  /\ \A h : Deleting(h) => Deleting(h)'
         /\ \A h : Listing(h) => Listing(h)'
         /\ \A h : (\E i \in DOMAIN w : Deletes(w[i], h)) => Deleting(h)'
         /\ \A h : (\E i \in DOMAIN w : Names(w[i], h)) => Listing(h)'
         /\ \A prim : Has(fromStack, prim) \/ Has(w, prim) <=> Has(fromStack', prim)
<1>1. fromStack \in Seq(StackPacket)
  BY DEF SysType
<1>2. ASSUME NEW h, Deleting(h) \/ \E i \in DOMAIN w : Deletes(w[i], h)
      PROVE  Deleting(h)'
  <2>1. CASE Deleting(h)
    BY <1>1, <2>1, Joined DEF Deleting
  <2>2. ASSUME NEW i \in DOMAIN w, Deletes(w[i], h)
        PROVE  Deleting(h)'
    <3>1. i + Len(fromStack) \in DOMAIN fromStack'
          /\ fromStack'[i + Len(fromStack)] = w[i]
      BY <1>1, Joined
    <3> QED BY <2>2, <3>1 DEF Deleting
  <2> QED BY <1>2, <2>1, <2>2
<1>3. ASSUME NEW h, Listing(h) \/ \E i \in DOMAIN w : Names(w[i], h)
      PROVE  Listing(h)'
  <2>1. CASE Listing(h)
    BY <1>1, <2>1, Joined DEF Listing
  <2>2. ASSUME NEW i \in DOMAIN w, Names(w[i], h)
        PROVE  Listing(h)'
    <3>1. i + Len(fromStack) \in DOMAIN fromStack'
          /\ fromStack'[i + Len(fromStack)] = w[i]
      BY <1>1, Joined
    <3> QED BY <2>2, <3>1 DEF Listing
  <2> QED BY <1>3, <2>1, <2>2
<1>4. \A prim : Has(fromStack, prim) \/ Has(w, prim) <=> Has(fromStack', prim)
  BY <1>1, JoinedHas
<1> QED BY <1>2, <1>3, <1>4

(* The packet that is handled leaves the link, and nothing else does.      *)
LEMMA HandlingKeeps ==
  ASSUME SysType, Receive
  PROVE  LET p == Head(fromStack)
         IN /\ \A h : Deleting(h) <=> Deletes(p, h) \/ Deleting(h)'
            /\ \A h : Listing(h) <=> Names(p, h) \/ Listing(h)'
            /\ \A prim : Has(fromStack, prim) <=>
                           p.prim = prim \/ Has(fromStack', prim)
<1> DEFINE p == Head(fromStack)
<1>1. /\ fromStack \in Seq(StackPacket) /\ fromStack # << >>
      /\ fromStack' = Tail(fromStack)
  BY PacketFacts DEF SysType
<1>2. \A i \in DOMAIN fromStack : i = 1 \/ i > 1
  BY <1>1
<1>3. p = fromStack[1] /\ 1 \in DOMAIN fromStack
  BY <1>1
<1> HIDE DEF p
<1>4. ASSUME NEW h
      PROVE  Deleting(h) <=> Deletes(p, h) \/ Deleting(h)'
  BY <1>1, <1>2, <1>3, Passed DEF Deleting
<1>5. ASSUME NEW h
      PROVE  Listing(h) <=> Names(p, h) \/ Listing(h)'
  BY <1>1, <1>2, <1>3, Passed DEF Listing
<1>6. \A prim : Has(fromStack, prim) <=> p.prim = prim \/ Has(fromStack', prim)
  BY <1>1, PassedHas DEF p
<1> QED BY <1>4, <1>5, <1>6 DEF p

LEMMA WillListAnswer ==
  ASSUME SysType, StackAnswers, WillList
  PROVE  WillList' \/ Head(toStack).prim = "GET_REGISTRATION_COUNT_REQ"
<1> DEFINE r == Head(toStack)
<1>1. PICK w : fromStack' = fromStack \o w /\ Answers(r, w)
  BY AnswerFacts
<1>2. /\ toStack \in Seq(Request) /\ toStack # << >> /\ toStack' = Tail(toStack)
      /\ mngr' = mngr
  BY AnswerFacts DEF SysType
<1>3. w \in Seq(StackPacket)
  BY <1>1 DEF Answers
<1>4. \A prim : Has(fromStack, prim) \/ Has(w, prim) <=> Has(fromStack', prim)
  BY <1>1, <1>3, SendingKeeps
<1>5. \A prim : Has(toStack, prim) <=> r.prim = prim \/ Has(toStack', prim)
  BY <1>2, PassedHas
<1>6. r.prim = "CC_FEATURES_REQ" => Has(w, "CC_FEATURES_CFM")
  BY <1>1 DEF Answers
<1> HIDE DEF r
<1>7. WillList' \/ r.prim = "GET_REGISTRATION_COUNT_REQ"
  BY <1>2, <1>4, <1>5, <1>6 DEF WillList
<1> QED BY <1>7 DEF r

LEMMA WritingKeeps ==
  ASSUME SysType, NEW t, Inv(t), Step(t)
  PROVE  /\ \A prim : Has(toStack', prim) <=> Has(toStack, prim) \/ Has(t.out, prim)
         /\ \A i \in DOMAIN toStack : \A prim :
              After(toStack, i, prim) \/ Has(t.out, prim) => After(toStack', i, prim)
<1>1. /\ toStack \in Seq(Request) /\ t.out \in Seq(Request)
      /\ toStack' = toStack \o t.out
  BY StepFacts DEF SysType
<1> QED BY <1>1, JoinedHas

(* All steps but the stack's answers.                                      *)
Elsewhere ==
  \/ Receive \/ OwnStep \/ UNCHANGED vars
  \/ \E h \in Handset : Registers(h) \/ Announces(h) \/ PicksUp(h)

LEMMA WillListNext ==
  ASSUME SysType, Elsewhere, WillList
  PROVE  WillList'
<1>1. CASE Receive
  <2>1. PICK t : Inv(t) /\ Step(t) /\ Handles(mngr, t, Head(fromStack))
    BY <1>1, PacketFacts
  <2>2. mngr'.listTimers = t.listTimers
    BY <2>1, StepFacts
  <2>3. \A prim : Has(toStack', prim) <=> Has(toStack, prim) \/ Has(t.out, prim)
    BY <2>1, WritingKeeps
  <2>4. \A prim : Has(fromStack, prim) <=>
                    Head(fromStack).prim = prim \/ Has(fromStack', prim)
    BY <1>1, HandlingKeeps
  <2> QED BY <2>1, <2>2, <2>3, <2>4 DEF WillList, Handles
<1>2. CASE OwnStep
  <2>1. PICK t : Inv(t) /\ Step(t) /\ Acts(mngr, t)
    BY <1>2, OwnFacts
  <2>2. fromStack' = fromStack /\ mngr'.listTimers = t.listTimers
    BY <1>2, <2>1, OwnFacts, StepFacts
  <2>3. \A prim : Has(toStack', prim) <=> Has(toStack, prim) \/ Has(t.out, prim)
    BY <2>1, WritingKeeps
  <2> QED BY <2>1, <2>2, <2>3 DEF WillList, Acts
<1>3. ASSUME NEW h \in Handset, Registers(h) \/ Announces(h) \/ PicksUp(h)
      PROVE  WillList'
  <2>1. PICK p \in StackPacket : fromStack' = fromStack \o <<p>>
    BY <1>3, AirFacts
  <2>2. mngr' = mngr /\ toStack' = toStack
    BY <1>3, AirFacts
  <2>3. <<p>> \in Seq(StackPacket)
    OBVIOUS
  <2>4. Has(fromStack, "CC_FEATURES_CFM") => Has(fromStack', "CC_FEATURES_CFM")
    BY <2>1, <2>3, SendingKeeps
  <2> QED BY <2>2, <2>4 DEF WillList
<1>4. CASE UNCHANGED vars
  BY <1>4 DEF vars, WillList
<1> QED BY <1>1, <1>2, <1>3, <1>4 DEF Elsewhere

LEMMA UndoneNext ==
  ASSUME SysType, Undone, [SystemNext]_vars
  PROVE  Undone'
<1>1. CASE StackAnswers
  <2> DEFINE r == Head(toStack)
  <2>1. PICK w : fromStack' = fromStack \o w /\ Answers(r, w)
    BY <1>1, AnswerFacts
  <2>2. w \in Seq(StackPacket)
    BY <2>1 DEF Answers
  <2>3. mngr' = mngr /\ listed' = listed \cap Known' /\ Known' \subseteq Known
    BY <1>1, AnswerFacts
  <2>4. ASSUME NEW h \in listed'
        PROVE  \/ mngr'.handset[h].registered \/ Deleting(h)' \/ WillList'
               \/ Listing(h)'
    <3>1. h \in listed /\ h \in Known
      BY <2>3, <2>4
    <3>2. CASE WillList
      <4>1. WillList' \/ r.prim = "GET_REGISTRATION_COUNT_REQ"
        BY <1>1, <3>2, WillListAnswer
      <4>2. ASSUME r.prim = "GET_REGISTRATION_COUNT_REQ"
            PROVE  Listing(h)'
        <5>1. \E i \in DOMAIN w : Names(w[i], h)
          BY <2>1, <3>1, <4>2 DEF Answers
        <5> QED BY <2>1, <2>2, <5>1, SendingKeeps
      <4> QED BY <4>1, <4>2
    <3>3. CASE mngr.handset[h].registered \/ Deleting(h) \/ Listing(h)
      BY <2>1, <2>2, <2>3, <3>3, SendingKeeps
    <3> QED BY <3>1, <3>2, <3>3 DEF Undone
  <2> QED BY <2>4 DEF Undone
<1>2. CASE Receive
  <2> DEFINE p == Head(fromStack)
  <2>1. PICK t : Inv(t) /\ Step(t) /\ Handles(mngr, t, p)
    BY <1>2, PacketFacts
  <2>2. /\ mngr'.listTimers = t.listTimers /\ mngr'.handset = t.handset
        /\ listed' = listed \cup {h \in Known : mngr'.handset[h].registered}
        /\ listed \subseteq Handset
    BY <2>1, StepFacts DEF SysType, Known
  <2>3. /\ \A h : Deleting(h) <=> Deletes(p, h) \/ Deleting(h)'
        /\ \A h : Listing(h) <=> Names(p, h) \/ Listing(h)'
    BY <1>2, HandlingKeeps
  <2>4. WillList => WillList'
    BY <1>2, WillListNext DEF Elsewhere
  <2> HIDE DEF p
  <2>5. \A h \in Handset : mngr'.handset[h].registered =
          (Names(p, h) \/ (mngr.handset[h].registered /\ ~Deletes(p, h)))
    BY <2>1, <2>2 DEF Handles
  <2>6. \A h : Deletes(p, h) => WillList'
    BY <2>1, <2>2 DEF Handles, Deletes, WillList
  <2>7. ASSUME NEW h \in listed'
        PROVE  \/ mngr'.handset[h].registered \/ Deleting(h)' \/ WillList'
               \/ Listing(h)'
    BY <2>2, <2>3, <2>4, <2>5, <2>6, <2>7 DEF Undone
  <2> QED BY <2>7 DEF Undone
<1>3. CASE OwnStep
  <2>1. PICK t : Inv(t) /\ Step(t) /\ Acts(mngr, t)
    BY <1>3, OwnFacts
  <2>2. /\ fromStack' = fromStack /\ mngr'.handset = t.handset
        /\ listed' = listed \cup {h \in Known : mngr'.handset[h].registered}
        /\ listed \subseteq Handset
    BY <1>3, <2>1, OwnFacts, StepFacts DEF SysType, Known
  <2>3. \A h \in Handset :
          mngr'.handset[h].registered = mngr.handset[h].registered
    BY <2>1, <2>2 DEF Acts
  <2>4. WillList => WillList'
    BY <1>3, WillListNext DEF Elsewhere
  <2>5. \A h : (Deleting(h) => Deleting(h)') /\ (Listing(h) => Listing(h)')
    BY <2>2 DEF Deleting, Listing
  <2> QED BY <2>2, <2>3, <2>4, <2>5 DEF Undone
<1>4. ASSUME NEW h \in Handset, Registers(h) \/ Announces(h) \/ PicksUp(h)
      PROVE  Undone'
  <2>1. PICK p \in StackPacket : fromStack' = fromStack \o <<p>>
    BY <1>4, AirFacts
  <2>2. mngr' = mngr /\ listed' = listed /\ <<p>> \in Seq(StackPacket)
    BY <1>4, AirFacts
  <2>3. WillList => WillList'
    BY <1>4, WillListNext DEF Elsewhere
  <2>4. \A g : (Deleting(g) => Deleting(g)') /\ (Listing(g) => Listing(g)')
    BY <2>1, <2>2, SendingKeeps
  <2> QED BY <2>2, <2>3, <2>4 DEF Undone
<1>5. CASE UNCHANGED vars
  BY <1>5 DEF vars, Undone, WillList, Deleting, Listing
<1> QED BY <1>1, <1>2, <1>3, <1>4, <1>5 DEF SystemNext, OwnStep

(* A deletion the stack refuses is undone: delete_registration_cfm clears  *)
(* the entry and schedules a listing (dectmngr.c:729-741), and that listing*)
(* is never lost between the timer and the count that answers it.          *)
THEOREM RefusalsAreUndone == System => []RefusalIsUndone
<1>1. SystemInit => Undone
  BY DEF SystemInit, Undone
<1>2. Undone => RefusalIsUndone
  <2> SUFFICES ASSUME Undone, Settled
               PROVE  \A h \in listed : mngr.handset[h].registered
    BY DEF RefusalIsUndone
  <2>1. DOMAIN toStack = {} /\ DOMAIN fromStack = {} /\ mngr.listTimers = 0
    BY DEF Settled
  <2> QED BY <2>1 DEF Undone, WillList, Deleting, Listing, Has
<1>3. SysType /\ Undone /\ [SystemNext]_vars => Undone'
  BY UndoneNext
<1> QED BY <1>1, <1>2, <1>3, SysTypeAlways, PTL DEF System

-----------------------------------------------------------------------------
(* One ping at a time.  As long as pings have not crossed, a ringing       *)
(* handset is still waiting for its ping to end, with the right call       *)
(* reference in the one global or on its way to it, or the release of its  *)
(* call has been sent.                                                     *)

Requests(q, prim, n) == \E i \in DOMAIN q : q[i].prim = prim /\ q[i].arg = n

Says(q, prim, n) == \E i \in DOMAIN q : q[i].prim = prim /\ q[i].id = n

LEMMA JoinedSays ==
  ASSUME NEW S, NEW q \in Seq(S), NEW w \in Seq(S), NEW prim, NEW n
  PROVE  /\ Requests(q \o w, prim, n) <=> Requests(q, prim, n) \/ Requests(w, prim, n)
         /\ Says(q \o w, prim, n) <=> Says(q, prim, n) \/ Says(w, prim, n)
<1>1. ASSUME NEW i \in DOMAIN q
      PROVE  i \in DOMAIN (q \o w) /\ (q \o w)[i] = q[i]
  BY Joined
<1>2. ASSUME NEW i \in DOMAIN w
      PROVE  /\ i + Len(q) \in DOMAIN (q \o w)
             /\ (q \o w)[i + Len(q)] = w[i]
  BY Joined
<1>3. ASSUME NEW i \in DOMAIN (q \o w), i \notin DOMAIN q
      PROVE  i - Len(q) \in DOMAIN w /\ (q \o w)[i] = w[i - Len(q)]
  BY <1>3, Joined
<1> DEFINE qw == q \o w
           m == Len(q)
<1> HIDE DEF qw, m
<1>4. Requests(qw, prim, n) <=> Requests(q, prim, n) \/ Requests(w, prim, n)
  <2>1. Requests(qw, prim, n) => Requests(q, prim, n) \/ Requests(w, prim, n)
    BY <1>1, <1>3 DEF Requests, qw, m
  <2>2. Requests(q, prim, n) => Requests(qw, prim, n)
    BY <1>1 DEF Requests, qw
  <2>3. Requests(w, prim, n) => Requests(qw, prim, n)
    BY <1>2 DEF Requests, qw
  <2> QED BY <2>1, <2>2, <2>3
<1>5. Says(qw, prim, n) <=> Says(q, prim, n) \/ Says(w, prim, n)
  <2>1. Says(qw, prim, n) => Says(q, prim, n) \/ Says(w, prim, n)
    BY <1>1, <1>3 DEF Says, qw, m
  <2>2. Says(q, prim, n) => Says(qw, prim, n)
    BY <1>1 DEF Says, qw
  <2>3. Says(w, prim, n) => Says(qw, prim, n)
    BY <1>2 DEF Says, qw
  <2> QED BY <2>1, <2>2, <2>3
<1> QED BY <1>4, <1>5 DEF qw

LEMMA PassedSays ==
  ASSUME NEW S, NEW q \in Seq(S), q # << >>, NEW prim, NEW n
  PROVE  /\ Requests(q, prim, n) <=>
              \/ Head(q).prim = prim /\ Head(q).arg = n
              \/ Requests(Tail(q), prim, n)
         /\ Says(q, prim, n) <=>
              \/ Head(q).prim = prim /\ Head(q).id = n
              \/ Says(Tail(q), prim, n)
<1> DEFINE p == Head(q)
           r == Tail(q)
<1>1. /\ 1 \in DOMAIN q /\ q[1] = p
      /\ \A i \in DOMAIN r : i + 1 \in DOMAIN q /\ r[i] = q[i + 1]
      /\ \A i \in DOMAIN q : i = 1 \/ (i - 1 \in DOMAIN r /\ r[i - 1] = q[i])
  OBVIOUS
<1> HIDE DEF p, r
<1>2. Requests(q, prim, n) <=> \/ p.prim = prim /\ p.arg = n
                               \/ Requests(r, prim, n)
  BY <1>1 DEF Requests
<1>3. Says(q, prim, n) <=> \/ p.prim = prim /\ p.id = n
                           \/ Says(r, prim, n)
  BY <1>1 DEF Says
<1> QED BY <1>2, <1>3 DEF p, r

OneSetup(q) ==
  \A i, j \in DOMAIN q :
    q[i].prim = "CC_SETUP_REQ" /\ q[j].prim = "CC_SETUP_REQ" => i = j

LEMMA SetupKeeps ==
  ASSUME NEW q \in Seq(Request), NEW w \in Seq(Request)
  PROVE  /\ OneSetup(q) /\ ~Has(w, "CC_SETUP_REQ") => OneSetup(q \o w)
         /\ OneSetup(w) /\ ~Has(q, "CC_SETUP_REQ") => OneSetup(q \o w)
         /\ OneSetup(q) /\ q # << >> =>
              /\ OneSetup(Tail(q))
              /\ Head(q).prim = "CC_SETUP_REQ" => ~Has(Tail(q), "CC_SETUP_REQ")
<1>1. ASSUME OneSetup(q), ~Has(w, "CC_SETUP_REQ")
      PROVE  OneSetup(q \o w)
  BY <1>1, Joined DEF OneSetup, Has
<1>2. ASSUME OneSetup(w), ~Has(q, "CC_SETUP_REQ")
      PROVE  OneSetup(q \o w)
  <2> SUFFICES ASSUME NEW i \in DOMAIN (q \o w), NEW j \in DOMAIN (q \o w),
                      (q \o w)[i].prim = "CC_SETUP_REQ",
                      (q \o w)[j].prim = "CC_SETUP_REQ"
               PROVE  i = j
    BY DEF OneSetup
  <2>1. i \notin DOMAIN q /\ j \notin DOMAIN q
    BY <1>2, Joined DEF Has
  <2>2. i - Len(q) = j - Len(q)
    BY <1>2, <2>1, Joined DEF OneSetup
  <2> QED BY <2>2
<1>3. ASSUME OneSetup(q), q # << >>
      PROVE  /\ OneSetup(Tail(q))
             /\ Head(q).prim = "CC_SETUP_REQ" => ~Has(Tail(q), "CC_SETUP_REQ")
  <2> DEFINE p == Tail(q)
  <2>1. \A i \in DOMAIN p :
          i \in Nat /\ i + 1 # 1 /\ i + 1 \in DOMAIN q /\ p[i] = q[i + 1]
    BY <1>3
  <2>2. q[1] = Head(q) /\ 1 \in DOMAIN q
    BY <1>3
  <2> HIDE DEF p
  <2>3. OneSetup(p)
    <3> SUFFICES ASSUME NEW i \in DOMAIN p, NEW j \in DOMAIN p,
                        p[i].prim = "CC_SETUP_REQ", p[j].prim = "CC_SETUP_REQ"
                 PROVE  i = j
      BY DEF OneSetup
    <3>1. i + 1 = j + 1
      BY <1>3, <2>1 DEF OneSetup
    <3> QED BY <2>1, <3>1
  <2>4. Head(q).prim = "CC_SETUP_REQ" => ~Has(p, "CC_SETUP_REQ")
    BY <1>3, <2>1, <2>2 DEF OneSetup, Has
  <2> QED BY <2>3, <2>4 DEF p
<1> QED BY <1>1, <1>2, <1>3

Calls ==
  /\ OneSetup(toStack)
  /\ \A n : Requests(toStack, "CC_SETUP_REQ", n) =>
       /\ Pinging = {n} /\ stack.ringing = {}
       /\ ~Has(fromStack, "CC_CONNECT_IND")
  /\ \A n : Says(fromStack, "CC_SETUP_CFM", n) => Pinging \subseteq {n}
  /\ \A n \in stack.ringing :
       /\ ~Says(fromStack, "CC_CONNECT_IND", n)
       /\ \/ /\ n \in Pinging
             /\ Says(fromStack, "CC_SETUP_CFM", n) \/ mngr.CallReference = n
          \/ Requests(toStack, "CC_RELEASE_REQ", n)

(* What a callback writes, as far as calls are concerned.                  *)
LEMMA WritingCalls ==
  ASSUME SysType, NEW t, Inv(t), Step(t)
  PROVE  /\ \A prim, n : Requests(toStack', prim, n) <=>
              Requests(toStack, prim, n) \/ Requests(t.out, prim, n)
         /\ OneSetup(toStack) /\ ~Has(t.out, "CC_SETUP_REQ") => OneSetup(toStack')
         /\ OneSetup(t.out) /\ ~Has(toStack, "CC_SETUP_REQ") => OneSetup(toStack')
<1>1. /\ toStack \in Seq(Request) /\ t.out \in Seq(Request)
      /\ toStack' = toStack \o t.out
  BY StepFacts DEF SysType
<1>2. \A prim, n : Requests(toStack', prim, n) <=>
        Requests(toStack, prim, n) \/ Requests(t.out, prim, n)
  BY <1>1, JoinedSays
<1> QED BY <1>1, <1>2, SetupKeeps

LEMMA HasRequests ==
  ASSUME NEW q, NEW prim, NEW n
  PROVE  /\ Requests(q, prim, n) => Has(q, prim)
         /\ Says(q, prim, n) => Has(q, prim)
BY DEF Requests, Says, Has

LEMMA CallsAnswer ==
  ASSUME SysType, Calls, StackAnswers
  PROVE  Calls'
<1> DEFINE r == Head(toStack)
<1>1. PICK w : fromStack' = fromStack \o w /\ Answers(r, w)
  BY AnswerFacts
<1>2. /\ toStack \in Seq(Request) /\ toStack # << >> /\ toStack' = Tail(toStack)
      /\ mngr' = mngr
  BY AnswerFacts DEF SysType
<1>3. stack'.ringing =
        CASE r.prim = "CC_SETUP_REQ" -> stack.ringing \cup (Known \cap {r.arg})
          [] r.prim = "CC_RELEASE_REQ" -> stack.ringing \ {r.arg}
          [] OTHER -> stack.ringing
  BY AnswerFacts
<1>4. w \in Seq(StackPacket) /\ fromStack \in Seq(StackPacket)
  BY <1>1 DEF Answers, SysType
<1>5. \A prim, n : Requests(toStack, prim, n) <=>
        (r.prim = prim /\ r.arg = n) \/ Requests(toStack', prim, n)
  BY <1>2, PassedSays
<1>6. \A prim, n : Says(fromStack', prim, n) <=>
        Says(fromStack, prim, n) \/ Says(w, prim, n)
  BY <1>1, <1>4, JoinedSays
<1>7. \A prim : Has(fromStack', prim) <=> Has(fromStack, prim) \/ Has(w, prim)
  BY <1>1, <1>4, JoinedHas
<1>8. /\ OneSetup(toStack')
      /\ r.prim = "CC_SETUP_REQ" => ~Has(toStack', "CC_SETUP_REQ")
  BY <1>2, SetupKeeps DEF Calls
<1>9. /\ ~Has(w, "CC_CONNECT_IND")
      /\ \A n : Says(w, "CC_SETUP_CFM", n) => r.prim = "CC_SETUP_REQ" /\ r.arg = n
      /\ r.prim = "CC_SETUP_REQ" => Says(w, "CC_SETUP_CFM", r.arg)
  BY <1>1 DEF Answers, Has, Says
<1> HIDE DEF r
<1>10. \A n : ~Says(w, "CC_CONNECT_IND", n)
  BY <1>9, HasRequests
<1>11. CASE r.prim = "CC_SETUP_REQ"
  <2>1. /\ Pinging = {r.arg} /\ stack.ringing = {}
        /\ ~Has(fromStack, "CC_CONNECT_IND")
    BY <1>5, <1>11 DEF Calls
  <2>2. \A n : ~Requests(toStack', "CC_SETUP_REQ", n)
    BY <1>8, <1>11, HasRequests
  <2>3. \A n : Says(fromStack', "CC_SETUP_CFM", n) => Pinging \subseteq {n}
    BY <1>6, <1>9, <1>11, <2>1 DEF Calls
  <2>4. \A n \in stack'.ringing : n = r.arg
    BY <1>3, <1>11, <2>1
  <2>5. \A n : ~Says(fromStack', "CC_CONNECT_IND", n)
    BY <1>6, <1>10, <2>1, HasRequests
  <2>6. Says(fromStack', "CC_SETUP_CFM", r.arg)
    BY <1>6, <1>9, <1>11
  <2>7. Pinging' = Pinging
    BY <1>2 DEF Pinging
  <2> QED BY <1>2, <1>8, <2>1, <2>2, <2>3, <2>4, <2>5, <2>6, <2>7 DEF Calls
<1>12. CASE r.prim # "CC_SETUP_REQ"
  <2>1. stack'.ringing \subseteq stack.ringing
    BY <1>3, <1>12
  <2>2. \A n : Requests(toStack', "CC_SETUP_REQ", n) =>
          Requests(toStack, "CC_SETUP_REQ", n)
    BY <1>5
  <2>3. \A n : Says(fromStack', "CC_SETUP_CFM", n) <=>
                 Says(fromStack, "CC_SETUP_CFM", n)
    BY <1>6, <1>9, <1>12
  <2>4. \A n : Says(fromStack', "CC_CONNECT_IND", n) <=>
                 Says(fromStack, "CC_CONNECT_IND", n)
    BY <1>6, <1>10
  <2>5. Has(fromStack', "CC_CONNECT_IND") <=> Has(fromStack, "CC_CONNECT_IND")
    BY <1>7, <1>9
  <2>6. \A n \in stack'.ringing : Requests(toStack, "CC_RELEASE_REQ", n) =>
          Requests(toStack', "CC_RELEASE_REQ", n)
    BY <1>3, <1>5
  <2>7. stack.ringing = {} => stack'.ringing = {}
    BY <2>1
  <2>8. Pinging' = Pinging
    BY <1>2 DEF Pinging
  <2>9. \A n : Requests(toStack', "CC_SETUP_REQ", n) =>
          /\ Pinging' = {n} /\ stack'.ringing = {}
          /\ ~Has(fromStack', "CC_CONNECT_IND")
    BY <2>2, <2>5, <2>7, <2>8 DEF Calls
  <2>10. ASSUME NEW n \in stack'.ringing
         PROVE  /\ ~Says(fromStack', "CC_CONNECT_IND", n)
                /\ \/ /\ n \in Pinging'
                      /\ \/ Says(fromStack', "CC_SETUP_CFM", n)
                         \/ mngr'.CallReference = n
                   \/ Requests(toStack', "CC_RELEASE_REQ", n)
    BY <1>2, <2>1, <2>3, <2>4, <2>6, <2>8 DEF Calls
  <2> QED BY <1>8, <2>3, <2>8, <2>9, <2>10 DEF Calls
<1> QED BY <1>11, <1>12

LEMMA CallsPacket ==
  ASSUME SysType, Calls, Receive
  PROVE  Calls'
<1> DEFINE p == Head(fromStack)
<1>1. PICK t : Inv(t) /\ Step(t) /\ Handles(mngr, t, p)
  BY PacketFacts
<1>2. /\ fromStack \in Seq(StackPacket) /\ fromStack # << >>
      /\ fromStack' = Tail(fromStack)
  BY PacketFacts DEF SysType
<1>3. /\ mngr'.handset = t.handset
      /\ mngr'.CallReference = t.CallReference /\ stack' = stack
  BY <1>1, StepFacts
<1>4. /\ \A prim, n : Requests(toStack', prim, n) <=>
           Requests(toStack, prim, n) \/ Requests(t.out, prim, n)
      /\ OneSetup(toStack) /\ ~Has(t.out, "CC_SETUP_REQ") => OneSetup(toStack')
  BY <1>1, WritingCalls
<1>5. \A prim, n : Says(fromStack, prim, n) <=>
        (p.prim = prim /\ p.id = n) \/ Says(fromStack', prim, n)
  BY <1>2, PassedSays
<1>6. \A prim : Has(fromStack, prim) <=> p.prim = prim \/ Has(fromStack', prim)
  BY <1>2, PassedHas
<1> HIDE DEF p
<1>7. /\ ~Has(t.out, "CC_SETUP_REQ")
      /\ \A h \in Handset :
           t.handset[h].pinging = (mngr.handset[h].pinging /\ ~Picks(p, h))
      /\ t.CallReference =
           IF p.prim = "CC_SETUP_CFM" THEN p.id ELSE mngr.CallReference
  BY <1>1 DEF Handles
<1>8. Pinging' = {h \in Pinging : ~Picks(p, h)}
  BY <1>3, <1>7 DEF Pinging
<1>9. \A n : Requests(toStack', "CC_SETUP_REQ", n) <=>
               Requests(toStack, "CC_SETUP_REQ", n)
  BY <1>4, <1>7, HasRequests
<1>10. OneSetup(toStack')
  BY <1>4, <1>7 DEF Calls
<1>11. ASSUME NEW n, Requests(toStack', "CC_SETUP_REQ", n)
       PROVE  /\ Pinging' = {n} /\ stack'.ringing = {}
              /\ ~Has(fromStack', "CC_CONNECT_IND")
  <2>1. /\ Pinging = {n} /\ stack.ringing = {}
        /\ ~Has(fromStack, "CC_CONNECT_IND")
    BY <1>9, <1>11 DEF Calls
  <2>2. p.prim # "CC_CONNECT_IND" /\ ~Has(fromStack', "CC_CONNECT_IND")
    BY <1>6, <2>1
  <2>3. Pinging' = Pinging
    BY <1>8, <2>2 DEF Picks
  <2> QED BY <1>3, <2>1, <2>2, <2>3
<1>12. ASSUME NEW n, Says(fromStack', "CC_SETUP_CFM", n)
       PROVE  Pinging' \subseteq {n}
  BY <1>5, <1>8, <1>12 DEF Calls
<1>13. ASSUME NEW n \in stack'.ringing
       PROVE  /\ ~Says(fromStack', "CC_CONNECT_IND", n)
              /\ \/ /\ n \in Pinging'
                    /\ \/ Says(fromStack', "CC_SETUP_CFM", n)
                       \/ mngr'.CallReference = n
                 \/ Requests(toStack', "CC_RELEASE_REQ", n)
  <2>1. n \in stack.ringing
    BY <1>3, <1>13
  <2>2. ~Says(fromStack, "CC_CONNECT_IND", n) /\ ~Picks(p, n)
    BY <1>5, <2>1 DEF Calls, Picks
  <2>3. ~Says(fromStack', "CC_CONNECT_IND", n)
    BY <1>5, <2>2
  <2>4. CASE Requests(toStack, "CC_RELEASE_REQ", n)
    BY <1>4, <2>3, <2>4
  <2>5. CASE ~Requests(toStack, "CC_RELEASE_REQ", n)
    <3>1. /\ n \in Pinging
          /\ Says(fromStack, "CC_SETUP_CFM", n) \/ mngr.CallReference = n
      BY <2>1, <2>5 DEF Calls
    <3>2. n \in Pinging'
      BY <1>8, <2>2, <3>1
    <3>3. p.prim = "CC_SETUP_CFM" => p.id = n
      <4>1. p.prim = "CC_SETUP_CFM" => Pinging \subseteq {p.id}
        BY <1>5 DEF Calls
      <4> QED BY <3>1, <4>1
    <3>4. Says(fromStack', "CC_SETUP_CFM", n) \/ mngr'.CallReference = n
      BY <1>3, <1>5, <1>7, <3>1, <3>3
    <3> QED BY <2>3, <3>2, <3>4
  <2> QED BY <2>4, <2>5
<1> QED BY <1>10, <1>11, <1>12, <1>13 DEF Calls

(* Commands and timers that have nothing to do with pings.                 *)
LEMMA CallsOther ==
  ASSUME SysType, Calls, fromStack' = fromStack, NEW t, Inv(t), Step(t),
         SameCalls(mngr, t), ~Has(t.out, "CC_SETUP_REQ")
  PROVE  Calls'
<1>1. /\ mngr'.handset = t.handset
      /\ mngr'.CallReference = t.CallReference /\ stack' = stack
  BY StepFacts
<1>2. /\ \A prim, n : Requests(toStack', prim, n) <=>
           Requests(toStack, prim, n) \/ Requests(t.out, prim, n)
      /\ OneSetup(toStack) /\ ~Has(t.out, "CC_SETUP_REQ") => OneSetup(toStack')
  BY WritingCalls
<1>3. Pinging' = Pinging /\ mngr'.CallReference = mngr.CallReference
  BY <1>1 DEF Pinging, SameCalls
<1>4. \A n : Requests(toStack', "CC_SETUP_REQ", n) =>
               Requests(toStack, "CC_SETUP_REQ", n)
  BY <1>2, HasRequests
<1> QED BY <1>1, <1>2, <1>3, <1>4 DEF Calls

LEMMA CallsAir ==
  ASSUME SysType, Calls, NEW h \in Handset,
         Registers(h) \/ Announces(h) \/ PicksUp(h)
  PROVE  Calls'
<1>1. PICK p \in StackPacket :
        /\ p.prim \in {"REGISTRATION_COMPLETE_IND", "HANDSET_PRESENT_IND",
                       "CC_CONNECT_IND"}
        /\ p.id = h /\ (p.prim = "CC_CONNECT_IND" => h \in stack.ringing)
        /\ fromStack' = fromStack \o <<p>>
        /\ IF p.prim = "CC_CONNECT_IND"
           THEN stack'.ringing = stack.ringing \ {h}
           ELSE stack'.ringing = stack.ringing
  BY AirFacts
<1>2. mngr' = mngr /\ toStack' = toStack
  BY AirFacts
<1>3. fromStack \in Seq(StackPacket) /\ <<p>> \in Seq(StackPacket)
  BY DEF SysType
<1>4. \A prim, n : Says(fromStack', prim, n) <=>
        Says(fromStack, prim, n) \/ Says(<<p>>, prim, n)
  BY <1>1, <1>3, JoinedSays
<1>5. \A prim : Has(fromStack', prim) <=> Has(fromStack, prim) \/ Has(<<p>>, prim)
  BY <1>1, <1>3, JoinedHas
<1>6. \A prim, n : Says(<<p>>, prim, n) <=> p.prim = prim /\ p.id = n
  BY DEF Says
<1>7. \A prim : Has(<<p>>, prim) <=> p.prim = prim
  BY DEF Has
<1>8. stack'.ringing \subseteq stack.ringing
  BY <1>1
<1>9. ASSUME NEW n, Requests(toStack', "CC_SETUP_REQ", n)
       PROVE  /\ Pinging' = {n} /\ stack'.ringing = {}
              /\ ~Has(fromStack', "CC_CONNECT_IND")
  <2>1. /\ Pinging = {n} /\ stack.ringing = {}
        /\ ~Has(fromStack, "CC_CONNECT_IND")
    BY <1>2, <1>9 DEF Calls
  <2> QED BY <1>1, <1>2, <1>5, <1>7, <1>8, <2>1 DEF Pinging
<1>10. \A n : Says(fromStack', "CC_SETUP_CFM", n) <=>
                Says(fromStack, "CC_SETUP_CFM", n)
  BY <1>1, <1>4, <1>6
<1>11. ASSUME NEW n \in stack'.ringing
       PROVE  ~Says(fromStack', "CC_CONNECT_IND", n) /\ n \in stack.ringing
  BY <1>1, <1>4, <1>6, <1>8, <1>11 DEF Calls
<1>12. Pinging' = Pinging /\ mngr'.CallReference = mngr.CallReference
  BY <1>2 DEF Pinging
<1> QED BY <1>2, <1>9, <1>10, <1>11, <1>12 DEF Calls

LEMMA NotOnTheLink ==
  ASSUME SysType, NEW prims, ~OnTheLink(prims), NEW prim \in prims
  PROVE  ~Has(toStack, prim) /\ ~Has(fromStack, prim)
<1> DEFINE S == Request \cup StackPacket
<1>1. toStack \in Seq(S) /\ fromStack \in Seq(S)
  BY DEF SysType
<1>2. ~Has(toStack \o fromStack, prim)
  BY DEF OnTheLink, Has
<1> QED BY <1>1, <1>2, JoinedHas

LEMMA CallsCommand ==
  ASSUME SysType, crossed \/ Calls, Command
  PROVE  crossed' \/ Calls'
<1> SUFFICES ASSUME ~crossed'
             PROVE  Calls'
  OBVIOUS
<1>1. PICK c \in UserCommands, f \in Files :
        /\ Step(handle_client_packet(mngr, c, f))
        /\ crossed' = (crossed \/ PingTooEarly(c))
  BY DEF Command
<1> DEFINE t == handle_client_packet(mngr, c, f)
<1>2. Calls /\ fromStack' = fromStack
  BY <1>1 DEF Command
<1>3. Inv(t) /\ Inv(mngr) /\ mngr.out = << >> /\ mngr \in State
  BY HandlerFacts DEF SysType, Inv
<1>4. c \in ClientPacket /\ c.data \in Nat
  <2>1. c \in ClientPacket
    BY SystemAssumption
  <2>2. c.data \in 0 .. 255
    BY <2>1, MngrAssumption DEF ClientPacket
  <2>3. \A n \in 0 .. 255 : n \in Nat
    OBVIOUS
  <2> QED BY <2>1, <2>2, <2>3
<1>5. CASE c.type # "PING_HSET"
  <2>1. Goes(mngr, t)
    BY <1>3, <1>4, <1>5, CommandGoes
  <2>2. ~Has(t.out, "CC_SETUP_REQ")
    BY <1>3, <2>1, GoesActs
  <2>3. SameCalls(mngr, t)
    BY <2>1 DEF Goes, SameTable, SameCalls
  <2> QED BY <1>1, <1>2, <1>3, <2>2, <2>3, CallsOther
<1>6. CASE c.type = "PING_HSET"
  <2>1. t = ping_handset(mngr, c.data)
    BY <1>6 DEF handle_client_packet
  <2>2. \/ t = mngr
        \/ /\ c.data \in Handset
           /\ t.out = <<[prim |-> "CC_SETUP_REQ", arg |-> c.data]>>
           /\ \A h \in Handset :
                t.handset[h].pinging = (mngr.handset[h].pinging \/ h = c.data)
    BY <1>3, <1>4, <2>1, PingEffect
  <2>3. Pinging = {} /\ ~CallUnderWay
    BY <1>1, <1>6 DEF PingTooEarly
  <2>4. mngr'.handset = t.handset /\ stack' = stack
    BY <1>1, <1>3, StepFacts
  <2>5. /\ \A prim, n : Requests(toStack', prim, n) <=>
             Requests(toStack, prim, n) \/ Requests(t.out, prim, n)
        /\ OneSetup(t.out) /\ ~Has(toStack, "CC_SETUP_REQ") => OneSetup(toStack')
    BY <1>1, <1>3, WritingCalls
  <2>6. Step(t) /\ Inv(t)
    BY <1>1, <1>3
  <2> HIDE DEF t
  <2>7. CASE t = mngr
    <3>1. SameCalls(mngr, t) /\ ~Has(t.out, "CC_SETUP_REQ")
      BY <1>3, <2>7 DEF SameCalls, Has
    <3> QED BY <1>2, <2>6, <3>1, CallsOther
  <2>8. CASE t # mngr
    <3>1. /\ ~Has(toStack, "CC_SETUP_REQ") /\ ~Has(fromStack, "CC_SETUP_CFM")
          /\ ~Has(toStack, "CC_RELEASE_REQ") /\ ~Has(fromStack, "CC_CONNECT_IND")
      BY <2>3, NotOnTheLink DEF CallUnderWay, CallComing
    <3>2. stack.ringing = {}
      BY <1>2, <2>3, <3>1, HasRequests DEF Calls
    <3>3. Pinging' = {c.data}
      BY <2>2, <2>3, <2>4, <2>8 DEF Pinging
    <3>4. OneSetup(t.out)
      BY <2>2, <2>8 DEF OneSetup
    <3>5. \A n : Requests(toStack', "CC_SETUP_REQ", n) => n = c.data
      <4>1. \A n : Requests(t.out, "CC_SETUP_REQ", n) => n = c.data
        BY <2>2, <2>8 DEF Requests
      <4>2. \A n : ~Requests(toStack, "CC_SETUP_REQ", n)
        BY <3>1, HasRequests
      <4> QED BY <2>5, <4>1, <4>2
    <3>6. \A n : ~Says(fromStack', "CC_SETUP_CFM", n)
      BY <1>2, <3>1, HasRequests
    <3> QED BY <1>2, <2>4, <2>5, <3>1, <3>2, <3>3, <3>4, <3>5, <3>6 DEF Calls
  <2> QED BY <2>7, <2>8
<1> QED BY <1>5, <1>6

LEMMA CallsTimer ==
  ASSUME SysType, crossed \/ Calls, PingExpires
  PROVE  crossed' \/ Calls'
<1> SUFFICES ASSUME ~crossed'
             PROVE  Calls'
  OBVIOUS
<1> DEFINE t == ping_expired(mngr)
           n == Head(mngr.pingTimers)
<1>1. /\ mngr.pingTimers # << >> /\ Step(t) /\ fromStack' = fromStack
      /\ Calls /\ ~(n \in Pinging /\ CallComing)
  BY DEF PingExpires, TimerTooEarly
<1>2. Inv(t) /\ Inv(mngr) /\ mngr.out = << >>
  BY <1>1, HandlerFacts DEF SysType, Inv
<1>3. /\ n \in Handset /\ t.CallReference = mngr.CallReference
      /\ \A h \in Handset :
           t.handset[h].pinging = (mngr.handset[h].pinging /\ h # n)
      /\ t.out = IF mngr.handset[n].pinging
                 THEN <<[prim |-> "CC_RELEASE_REQ", arg |-> mngr.CallReference]>>
                 ELSE << >>
  BY <1>1, <1>2, PingTimerEffect
<1>4. /\ mngr'.handset = t.handset /\ mngr'.CallReference = t.CallReference
      /\ stack' = stack
  BY <1>1, <1>2, StepFacts
<1>5. /\ \A prim, m : Requests(toStack', prim, m) <=>
           Requests(toStack, prim, m) \/ Requests(t.out, prim, m)
      /\ OneSetup(toStack) /\ ~Has(t.out, "CC_SETUP_REQ") => OneSetup(toStack')
  BY <1>1, <1>2, WritingCalls
<1> HIDE DEF t, n
<1>6. ~Has(t.out, "CC_SETUP_REQ")
  BY <1>3 DEF Has
<1>7. Pinging' = Pinging \ {n}
  BY <1>3, <1>4 DEF Pinging
<1>8. ASSUME NEW m, Requests(toStack', "CC_SETUP_REQ", m)
      PROVE  /\ Pinging' = {m} /\ stack'.ringing = {}
             /\ ~Has(fromStack', "CC_CONNECT_IND")
  <2>1. Requests(toStack, "CC_SETUP_REQ", m)
    BY <1>5, <1>6, <1>8, HasRequests
  <2>2. /\ Pinging = {m} /\ stack.ringing = {}
        /\ ~Has(fromStack, "CC_CONNECT_IND")
    BY <1>1, <2>1 DEF Calls
  <2>3. n \notin Pinging
    <3>1. CallComing
      BY <2>1, HasRequests, NotOnTheLink DEF CallComing
    <3> QED BY <1>1, <3>1
  <2> QED BY <1>1, <1>4, <1>7, <2>2, <2>3
<1>9. ASSUME NEW m, Says(fromStack', "CC_SETUP_CFM", m)
      PROVE  Pinging' \subseteq {m}
  BY <1>1, <1>7, <1>9 DEF Calls
<1>10. ASSUME NEW m \in stack'.ringing
       PROVE  /\ ~Says(fromStack', "CC_CONNECT_IND", m)
              /\ \/ /\ m \in Pinging'
                    /\ \/ Says(fromStack', "CC_SETUP_CFM", m)
                       \/ mngr'.CallReference = m
                 \/ Requests(toStack', "CC_RELEASE_REQ", m)
  <2>1. m \in stack.ringing /\ ~Says(fromStack', "CC_CONNECT_IND", m)
    BY <1>1, <1>4, <1>10 DEF Calls
  <2>2. CASE Requests(toStack, "CC_RELEASE_REQ", m)
    BY <1>5, <2>1, <2>2
  <2>3. CASE ~Requests(toStack, "CC_RELEASE_REQ", m)
    <3>1. /\ m \in Pinging
          /\ Says(fromStack, "CC_SETUP_CFM", m) \/ mngr.CallReference = m
      BY <1>1, <2>1, <2>3 DEF Calls
    <3>2. CASE m # n
      BY <1>1, <1>3, <1>4, <1>7, <2>1, <3>1, <3>2
    <3>3. CASE m = n
      <4>1. ~Has(fromStack, "CC_SETUP_CFM")
        BY <1>1, <3>1, <3>3, NotOnTheLink DEF CallComing
      <4>2. mngr.CallReference = m /\ mngr.handset[n].pinging
        BY <3>1, <3>3, <4>1, HasRequests DEF Pinging
      <4>3. Requests(t.out, "CC_RELEASE_REQ", m)
        BY <1>3, <4>2 DEF Requests
      <4> QED BY <1>5, <2>1, <4>3
    <3> QED BY <3>2, <3>3
  <2> QED BY <2>2, <2>3
<1> QED BY <1>1, <1>5, <1>6, <1>8, <1>9, <1>10 DEF Calls

LEMMA CallsNext ==
  ASSUME SysType, crossed \/ Calls, [SystemNext]_vars
  PROVE  crossed' \/ Calls'
<1> Inv(mngr) /\ mngr \in State /\ mngr.out = << >>
  BY DEF SysType, Inv
<1>1. CASE StackAnswers
  BY <1>1, CallsAnswer, AnswerFacts
<1>2. CASE Receive
  BY <1>2, CallsPacket DEF Receive
<1>3. CASE Command
  BY <1>3, CallsCommand
<1>4. CASE ListExpires
  <2> DEFINE t == list_expired(mngr)
  <2>1. Step(t) /\ Inv(t) /\ fromStack' = fromStack /\ crossed' = crossed
    BY <1>4, HandlerFacts DEF ListExpires
  <2>2. /\ Mute(t) /\ SameTable(mngr, t) /\ t.pingTimers = mngr.pingTimers
        /\ t.CallReference = mngr.CallReference
    BY <1>4, ListTimerEffect DEF ListExpires
  <2> HIDE DEF t
  <2>3. SameCalls(mngr, t) /\ ~Has(t.out, "CC_SETUP_REQ")
    BY <2>2 DEF SameCalls, SameTable, Mute, Has
  <2> QED BY <2>1, <2>3, CallsOther
<1>5. ASSUME NEW t, Goes(mngr, t), Inv(t), Step(t), fromStack' = fromStack,
             crossed' = crossed
      PROVE  crossed' \/ Calls'
  <2>1. SameCalls(mngr, t) /\ ~Has(t.out, "CC_SETUP_REQ")
    BY <1>5, GoesActs DEF Goes, SameTable, SameCalls
  <2> QED BY <1>5, <2>1, CallsOther
<1>6. CASE StartExpires
  BY <1>5, <1>6, HandlerFacts, DelayedStartGoes DEF StartExpires
<1>7. CASE StopExpires
  BY <1>5, <1>7, HandlerFacts, StopTimerGoes DEF StopExpires
<1>8. CASE PingExpires
  BY <1>8, CallsTimer
<1>9. CASE \E h \in Handset : Registers(h) \/ Announces(h) \/ PicksUp(h)
  BY <1>9, CallsAir, AirFacts
<1>10. CASE UNCHANGED vars
  BY <1>10 DEF vars, Calls, Pinging
<1> QED
  BY <1>1, <1>2, <1>3, <1>4, <1>6, <1>7, <1>8, <1>9, <1>10 DEF SystemNext

(* CallReference is one global for every ping (dectmngr.c:477-600), and a  *)
(* ringing handset can still be released or is being released, as long as  *)
(* no ping began before an earlier one was over and no timer ended a ping  *)
(* before its call was confirmed.                                          *)
THEOREM RingingCanBeStopped == System => []RingingIsReleased
<1>1. SystemInit => crossed \/ Calls
  <2> SUFFICES ASSUME SystemInit
               PROVE  Calls
    OBVIOUS
  <2>1. toStack = << >> /\ fromStack = << >> /\ stack.ringing = {}
    BY DEF SystemInit
  <2> QED BY <2>1 DEF Calls, OneSetup, Requests, Says, Has
<1>2. crossed \/ Calls => RingingIsReleased
  BY DEF RingingIsReleased, Calls, Requests, Says
<1>3. SysType /\ (crossed \/ Calls) /\ [SystemNext]_vars => (crossed \/ Calls)'
  BY CallsNext
<1> QED BY <1>1, <1>2, <1>3, SysTypeAlways, PTL DEF System

-----------------------------------------------------------------------------
(* Whose identity the table shows.  The daemon asks for the identities one *)
(* by one, the number of the answer plus one next.  A deletion in between  *)
(* makes an answer stale; a listing is then due that starts the chain anew.*)

Relists == mngr.listTimers > 0 \/ Has(fromStack, "DELETE_REGISTRATION_CFM")

Fresh == WillList \/ Has(fromStack, "DELETE_REGISTRATION_CFM")

Current(p, known, ident) == p.id \in known /\ p.ipui = ident[p.id]

QueriesCurrent ==
  /\ \A i \in DOMAIN toStack :
       toStack[i].prim = "GET_HANDSET_IPUI_REQ" /\ toStack[i].arg \notin Known =>
         Relists \/ After(toStack, i, "CC_FEATURES_REQ")
  /\ \A i \in DOMAIN fromStack :
       fromStack[i].prim = "GET_HANDSET_IPUI_CFM" =>
         \/ Current(fromStack[i], Known, stack.ident) \/ Relists
         \/ Has(toStack, "CC_FEATURES_REQ")
         \/ After(fromStack, i, "CC_FEATURES_CFM")

LEMMA RelistsNext ==
  ASSUME SysType, Relists
  PROVE  /\ StackAnswers => Relists'
         /\ Receive => Relists'
         /\ \A t : OwnStep /\ Inv(t) /\ Step(t) /\ Acts(mngr, t) =>
              Relists' \/ Has(t.out, "CC_FEATURES_REQ")
         /\ (\E h \in Handset : Registers(h) \/ Announces(h) \/ PicksUp(h))
              => Relists'
<1>1. ASSUME NEW w \in Seq(StackPacket), fromStack' = fromStack \o w, mngr' = mngr
      PROVE  Relists'
  BY <1>1, SendingKeeps DEF Relists
<1>2. ASSUME StackAnswers
      PROVE  Relists'
  BY <1>1, <1>2, AnswerFacts DEF Answers
<1>3. ASSUME Receive
      PROVE  Relists'
  <2>1. PICK t : Inv(t) /\ Step(t) /\ Handles(mngr, t, Head(fromStack))
    BY <1>3, PacketFacts
  <2>2. mngr'.listTimers = t.listTimers
    BY <2>1, StepFacts
  <2>3. Has(fromStack, "DELETE_REGISTRATION_CFM") =>
          \/ Head(fromStack).prim = "DELETE_REGISTRATION_CFM"
          \/ Has(fromStack', "DELETE_REGISTRATION_CFM")
    BY <1>3, HandlingKeeps
  <2> QED BY <2>1, <2>2, <2>3 DEF Relists, Handles
<1>4. ASSUME NEW t, OwnStep, Inv(t), Step(t), Acts(mngr, t)
      PROVE  Relists' \/ Has(t.out, "CC_FEATURES_REQ")
  <2>1. fromStack' = fromStack /\ mngr'.listTimers = t.listTimers
    BY <1>4, OwnFacts, StepFacts
  <2> QED BY <1>4, <2>1 DEF Relists, Acts
<1>5. ASSUME NEW h \in Handset, Registers(h) \/ Announces(h) \/ PicksUp(h)
      PROVE  Relists'
  <2>1. PICK p \in StackPacket : fromStack' = fromStack \o <<p>>
    BY <1>5, AirFacts
  <2>2. mngr' = mngr /\ <<p>> \in Seq(StackPacket)
    BY <1>5, AirFacts
  <2> QED BY <1>1, <2>1, <2>2
<1> QED BY <1>2, <1>3, <1>4, <1>5

LEMMA QueriesAnswer ==
  ASSUME SysType, QueriesCurrent, StackAnswers
  PROVE  QueriesCurrent'
<1> DEFINE r == Head(toStack)
<1>1. PICK w : fromStack' = fromStack \o w /\ Answers(r, w)
  BY AnswerFacts
<1>2. /\ toStack \in Seq(Request) /\ toStack # << >> /\ toStack' = Tail(toStack)
      /\ mngr' = mngr /\ Known' \subseteq Known
      /\ \A h \in Known' : stack'.ident[h] = stack.ident[h]
      /\ \A h \in Known : h \notin Known' =>
           r.prim = "DELETE_REGISTRATION_REQ" /\ r.arg = h
  BY AnswerFacts DEF SysType
<1>3. w \in Seq(StackPacket) /\ fromStack \in Seq(StackPacket)
  BY <1>1 DEF Answers, SysType
<1>4. Relists => Relists'
  BY RelistsNext
<1>5. \A i \in DOMAIN fromStack : \A prim :
        After(fromStack, i, prim) \/ Has(w, prim) => After(fromStack', i, prim)
  BY <1>1, <1>3, JoinedHas
<1>6. \A prim : /\ Has(toStack, prim) <=> r.prim = prim \/ Has(toStack', prim)
                /\ After(toStack, 1, prim) => Has(toStack', prim)
  BY <1>2, PassedHas
<1>7. \A i \in DOMAIN toStack' : \A prim :
        After(toStack, i + 1, prim) => After(toStack', i, prim)
  BY <1>2, PassedHas
<1>8. /\ 1 \in DOMAIN toStack /\ toStack[1] = r
      /\ \A i \in DOMAIN toStack' :
           i + 1 \in DOMAIN toStack /\ toStack'[i] = toStack[i + 1]
  BY <1>2, Passed
<1>9. r.prim = "CC_FEATURES_REQ" => Has(w, "CC_FEATURES_CFM")
  BY <1>1 DEF Answers
<1> HIDE DEF r
<1>10. ASSUME NEW h \in Known, h \notin Known'
       PROVE  Relists'
  <2>1. PICK i \in DOMAIN w : Deletes(w[i], h)
    BY <1>1, <1>2, <1>10 DEF Answers
  <2>2. Has(w, "DELETE_REGISTRATION_CFM")
    BY <2>1 DEF Deletes, Has
  <2> QED BY <1>1, <1>3, <2>2, SendingKeeps DEF Relists
<1>11. ASSUME NEW i \in DOMAIN toStack',
              toStack'[i].prim = "GET_HANDSET_IPUI_REQ", toStack'[i].arg \notin Known'
       PROVE  Relists' \/ After(toStack', i, "CC_FEATURES_REQ")
  <2>1. CASE toStack'[i].arg \in Known
    BY <1>10, <1>11, <2>1
  <2>2. CASE toStack'[i].arg \notin Known
    <3>1. Relists \/ After(toStack, i + 1, "CC_FEATURES_REQ")
      BY <1>8, <1>11, <2>2 DEF QueriesCurrent
    <3> QED BY <1>4, <1>7, <3>1
  <2> QED BY <2>1, <2>2
<1>12. ASSUME NEW i \in DOMAIN fromStack',
              fromStack'[i].prim = "GET_HANDSET_IPUI_CFM"
       PROVE  \/ Current(fromStack'[i], Known', stack'.ident) \/ Relists'
              \/ Has(toStack', "CC_FEATURES_REQ")
              \/ After(fromStack', i, "CC_FEATURES_CFM")
  <2>1. CASE i \in DOMAIN fromStack
    <3>1. fromStack'[i] = fromStack[i]
      BY <1>1, <1>3, <2>1, Joined
    <3>2. \/ Current(fromStack[i], Known, stack.ident) \/ Relists
          \/ Has(toStack, "CC_FEATURES_REQ")
          \/ After(fromStack, i, "CC_FEATURES_CFM")
      BY <1>12, <2>1, <3>1 DEF QueriesCurrent
    <3>3. Current(fromStack[i], Known, stack.ident) =>
            Current(fromStack'[i], Known', stack'.ident) \/ Relists'
      BY <1>2, <1>10, <3>1 DEF Current
    <3> QED BY <1>4, <1>5, <1>6, <1>9, <2>1, <3>2, <3>3
  <2>2. CASE i \notin DOMAIN fromStack
    <3> DEFINE k == i - Len(fromStack)
    <3>1. k \in DOMAIN w /\ fromStack'[i] = w[k]
      BY <1>1, <1>3, <2>2, Joined
    <3> HIDE DEF k
    <3>2. /\ r.prim = "GET_HANDSET_IPUI_REQ" /\ w[k].id = r.arg
          /\ w[k].ipui = IdentityOf(r.arg) /\ stack' = stack
      BY <1>1, <1>12, <3>1 DEF Answers
    <3>3. CASE r.arg \in Known
      <4>1. Known' = Known /\ IdentityOf(r.arg) = stack.ident[r.arg]
        BY <3>2, <3>3 DEF Known, IdentityOf
      <4> QED BY <3>1, <3>2, <3>3, <4>1 DEF Current
    <3>4. CASE r.arg \notin Known
      <4>1. Relists \/ After(toStack, 1, "CC_FEATURES_REQ")
        BY <1>8, <3>2, <3>4 DEF QueriesCurrent
      <4> QED BY <1>4, <1>6, <4>1
    <3> QED BY <3>3, <3>4
  <2> QED BY <2>1, <2>2
<1> QED BY <1>11, <1>12 DEF QueriesCurrent, Current

LEMMA QueriesPacket ==
  ASSUME SysType, GhostsGo, QueriesCurrent, Receive
  PROVE  QueriesCurrent'
<1> DEFINE p == Head(fromStack)
<1>1. PICK t : Inv(t) /\ Step(t) /\ Handles(mngr, t, p)
  BY PacketFacts
<1>2. /\ fromStack \in Seq(StackPacket) /\ fromStack # << >>
      /\ fromStack' = Tail(fromStack) /\ fromStack[1] = p /\ p \in StackPacket
  BY PacketFacts, Passed DEF SysType
<1>3. /\ toStack \in Seq(Request) /\ t.out \in Seq(Request)
      /\ toStack' = toStack \o t.out /\ stack' = stack /\ Known' = Known
  BY <1>1, StepFacts DEF SysType
<1>4. Relists => Relists'
  BY RelistsNext
<1>5. /\ \A prim : Has(toStack, prim) => Has(toStack', prim)
      /\ \A i \in DOMAIN toStack : \A prim :
           After(toStack, i, prim) => After(toStack', i, prim)
  BY <1>1, WritingKeeps
<1>6. \A prim : Has(fromStack, prim) <=> p.prim = prim \/ Has(fromStack', prim)
  BY HandlingKeeps
<1>7. \A i \in DOMAIN fromStack' :
        /\ i + 1 \in DOMAIN fromStack /\ fromStack'[i] = fromStack[i + 1]
        /\ \A prim : After(fromStack, i + 1, prim) => After(fromStack', i, prim)
  BY <1>2, Passed, PassedHas
<1> HIDE DEF p
<1>8. ASSUME NEW n, Follows(mngr, p, n), n \notin Known
      PROVE  Relists'
  <2>1. CASE p.prim = "GET_REGISTRATION_COUNT_CFM"
    <3>1. p.ids \in Seq(Handset) /\ p.ids # << >> /\ n = p.ids[1]
      BY <1>2, <1>8, <2>1, StackPacketOK DEF Follows
    <3>2. Names(p, n) /\ n \in Handset
      BY <2>1, <3>1 DEF Names
    <3>3. PICK j \in DOMAIN fromStack : j > 1 /\ Deletes(fromStack[j], n)
      BY <1>2, <1>8, <3>2, Passed DEF GhostsGo
    <3>4. Has(fromStack, "DELETE_REGISTRATION_CFM")
      BY <3>3 DEF Has, Deletes
    <3> QED BY <1>6, <2>1, <3>4 DEF Relists
  <2>2. CASE p.prim = "GET_HANDSET_IPUI_CFM"
    <3>1. n \in Handset /\ mngr.handset[n].registered
      BY <1>8, <2>2 DEF Follows, IsRegistered
    <3>2. PICK j \in DOMAIN fromStack : Deletes(fromStack[j], n)
      BY <1>8, <3>1 DEF GhostsGo
    <3>3. Has(fromStack, "DELETE_REGISTRATION_CFM")
      BY <3>2 DEF Has, Deletes
    <3> QED BY <1>6, <2>2, <3>3 DEF Relists
  <2> QED BY <1>8, <2>1, <2>2 DEF Follows
<1>9. ASSUME NEW i \in DOMAIN toStack',
             toStack'[i].prim = "GET_HANDSET_IPUI_REQ", toStack'[i].arg \notin Known'
      PROVE  Relists' \/ After(toStack', i, "CC_FEATURES_REQ")
  <2>1. CASE i \in DOMAIN toStack
    <3>1. toStack'[i] = toStack[i]
      BY <1>3, <2>1, Joined
    <3>2. Relists \/ After(toStack, i, "CC_FEATURES_REQ")
      BY <1>3, <1>9, <2>1, <3>1 DEF QueriesCurrent
    <3> QED BY <1>4, <1>5, <2>1, <3>2
  <2>2. CASE i \notin DOMAIN toStack
    <3> DEFINE k == i - Len(toStack)
    <3>1. k \in DOMAIN t.out /\ toStack'[i] = t.out[k]
      BY <1>3, <2>2, Joined
    <3> HIDE DEF k
    <3>2. Follows(mngr, p, t.out[k].arg)
      BY <1>1, <1>9, <3>1 DEF Handles
    <3> QED BY <1>3, <1>8, <1>9, <3>1, <3>2
  <2> QED BY <2>1, <2>2
<1>10. ASSUME NEW i \in DOMAIN fromStack',
              fromStack'[i].prim = "GET_HANDSET_IPUI_CFM"
       PROVE  \/ Current(fromStack'[i], Known', stack'.ident) \/ Relists'
              \/ Has(toStack', "CC_FEATURES_REQ")
              \/ After(fromStack', i, "CC_FEATURES_CFM")
  <2>1. \/ Current(fromStack[i + 1], Known, stack.ident) \/ Relists
        \/ Has(toStack, "CC_FEATURES_REQ")
        \/ After(fromStack, i + 1, "CC_FEATURES_CFM")
    BY <1>7, <1>10 DEF QueriesCurrent
  <2>2. Current(fromStack[i + 1], Known, stack.ident) =>
          Current(fromStack'[i], Known', stack'.ident)
    BY <1>3, <1>7, <1>10 DEF Current
  <2> QED BY <1>4, <1>5, <1>7, <1>10, <2>1, <2>2
<1> QED BY <1>9, <1>10 DEF QueriesCurrent, Current

LEMMA QueriesNext ==
  ASSUME SysType, GhostsGo, QueriesCurrent, [SystemNext]_vars
  PROVE  QueriesCurrent'
<1>1. CASE StackAnswers
  BY <1>1, QueriesAnswer
<1>2. CASE Receive
  BY <1>2, QueriesPacket
<1>3. CASE OwnStep
  <2>1. PICK t : Inv(t) /\ Step(t) /\ Acts(mngr, t)
    BY <1>3, OwnFacts
  <2>2. /\ toStack \in Seq(Request) /\ t.out \in Seq(Request)
        /\ toStack' = toStack \o t.out /\ stack' = stack /\ Known' = Known
        /\ fromStack' = fromStack
    BY <1>3, <2>1, OwnFacts, StepFacts DEF SysType
  <2>3. Relists => Relists' \/ Has(t.out, "CC_FEATURES_REQ")
    BY <1>3, <2>1, RelistsNext
  <2>4. /\ \A prim : Has(toStack', prim) <=> Has(toStack, prim) \/ Has(t.out, prim)
        /\ \A i \in DOMAIN toStack : \A prim :
             After(toStack, i, prim) \/ Has(t.out, prim) => After(toStack', i, prim)
    BY <2>1, WritingKeeps
  <2>5. ASSUME NEW i \in DOMAIN toStack',
               toStack'[i].prim = "GET_HANDSET_IPUI_REQ",
               toStack'[i].arg \notin Known'
        PROVE  Relists' \/ After(toStack', i, "CC_FEATURES_REQ")
    <3>1. i \in DOMAIN toStack
      BY <2>1, <2>2, <2>5, Joined DEF Acts, Has
    <3>2. toStack'[i] = toStack[i]
      BY <2>2, <3>1, Joined
    <3>3. Relists \/ After(toStack, i, "CC_FEATURES_REQ")
      BY <2>2, <2>5, <3>1, <3>2 DEF QueriesCurrent
    <3> QED BY <2>3, <2>4, <3>1, <3>3
  <2>6. ASSUME NEW i \in DOMAIN fromStack',
               fromStack'[i].prim = "GET_HANDSET_IPUI_CFM"
        PROVE  \/ Current(fromStack'[i], Known', stack'.ident) \/ Relists'
               \/ Has(toStack', "CC_FEATURES_REQ")
               \/ After(fromStack', i, "CC_FEATURES_CFM")
    BY <2>2, <2>3, <2>4, <2>6 DEF QueriesCurrent
  <2> QED BY <2>5, <2>6 DEF QueriesCurrent
<1>4. ASSUME NEW h \in Handset, Registers(h) \/ Announces(h) \/ PicksUp(h)
      PROVE  QueriesCurrent'
  <2>1. PICK p \in StackPacket :
          /\ p.prim \in {"REGISTRATION_COMPLETE_IND", "HANDSET_PRESENT_IND",
                         "CC_CONNECT_IND"}
          /\ fromStack' = fromStack \o <<p>>
    BY <1>4, AirFacts
  <2>2. /\ toStack' = toStack
        /\ \A g \in Known : g \in Known' /\ stack'.ident[g] = stack.ident[g]
    BY <1>4, AirFacts
  <2>3. fromStack \in Seq(StackPacket) /\ <<p>> \in Seq(StackPacket)
    BY DEF SysType
  <2>4. Relists => Relists'
    BY <1>4, RelistsNext
  <2>5. ASSUME NEW i \in DOMAIN fromStack',
               fromStack'[i].prim = "GET_HANDSET_IPUI_CFM"
        PROVE  \/ Current(fromStack'[i], Known', stack'.ident) \/ Relists'
               \/ Has(toStack', "CC_FEATURES_REQ")
               \/ After(fromStack', i, "CC_FEATURES_CFM")
    <3>1. i \in DOMAIN fromStack
      BY <2>1, <2>3, <2>5, Joined
    <3>2. fromStack'[i] = fromStack[i]
      BY <2>1, <2>3, <3>1, Joined
    <3>3. \/ Current(fromStack[i], Known, stack.ident) \/ Relists
          \/ Has(toStack, "CC_FEATURES_REQ")
          \/ After(fromStack, i, "CC_FEATURES_CFM")
      BY <2>5, <3>1, <3>2 DEF QueriesCurrent
    <3>4. Current(fromStack[i], Known, stack.ident) =>
            Current(fromStack'[i], Known', stack'.ident)
      BY <2>2, <3>2 DEF Current
    <3>5. After(fromStack, i, "CC_FEATURES_CFM") =>
            After(fromStack', i, "CC_FEATURES_CFM")
      BY <2>1, <2>3, <3>1, JoinedHas
    <3> QED BY <2>2, <2>4, <3>3, <3>4, <3>5
  <2> QED BY <2>2, <2>4, <2>5 DEF QueriesCurrent
<1>5. CASE UNCHANGED vars
  BY <1>5 DEF vars, QueriesCurrent, Current, Relists, Known
<1> QED BY <1>1, <1>2, <1>3, <1>4, <1>5 DEF SystemNext, OwnStep

(* The listings on the link name the handsets in the order of their numbers*)
(* so that a chain of queries starts at or below each of them.             *)
Ascends ==
  \A i \in DOMAIN fromStack : \A a, b \in DOMAIN fromStack[i].ids :
    a < b => fromStack[i].ids[a] < fromStack[i].ids[b]

LEMMA AscendsNext ==
  ASSUME SysType, Ascends, [SystemNext]_vars
  PROVE  Ascends'
<1>1. ASSUME NEW w \in Seq(StackPacket), fromStack' = fromStack \o w,
             \A i \in DOMAIN w : \A a, b \in DOMAIN w[i].ids :
               a < b => w[i].ids[a] < w[i].ids[b]
      PROVE  Ascends'
  <2>1. fromStack \in Seq(StackPacket)
    BY DEF SysType
  <2> SUFFICES ASSUME NEW i \in DOMAIN fromStack'
               PROVE  \A a, b \in DOMAIN fromStack'[i].ids :
                        a < b => fromStack'[i].ids[a] < fromStack'[i].ids[b]
    BY DEF Ascends
  <2>2. CASE i \in DOMAIN fromStack
    <3>1. fromStack'[i] = fromStack[i]
      BY <1>1, <2>1, <2>2, Joined
    <3> QED BY <2>2, <3>1 DEF Ascends
  <2>3. CASE i \notin DOMAIN fromStack
    <3>1. \E k \in DOMAIN w : fromStack'[i] = w[k]
      BY <1>1, <2>1, <2>3, Joined
    <3> QED BY <1>1, <3>1
  <2> QED BY <2>2, <2>3
<1>2. CASE StackAnswers
  BY <1>1, <1>2, AnswerFacts DEF Answers
<1>3. CASE Receive
  <2>1. /\ fromStack \in Seq(StackPacket) /\ fromStack # << >>
        /\ fromStack' = Tail(fromStack)
    BY <1>3, PacketFacts DEF SysType
  <2>2. \A i \in DOMAIN fromStack' :
          i + 1 \in DOMAIN fromStack /\ fromStack'[i] = fromStack[i + 1]
    BY <2>1, Passed
  <2> QED BY <2>2 DEF Ascends
<1>4. CASE OwnStep
  BY <1>4, OwnFacts DEF Ascends
<1>5. ASSUME NEW h \in Handset, Registers(h) \/ Announces(h) \/ PicksUp(h)
      PROVE  Ascends'
  <2>1. PICK p \in StackPacket : p.ids = << >> /\ fromStack' = fromStack \o <<p>>
    BY <1>5, AirFacts
  <2>2. <<p>> \in Seq(StackPacket)
    OBVIOUS
  <2>3. \A i \in DOMAIN <<p>> : \A a, b \in DOMAIN <<p>>[i].ids :
          a < b => <<p>>[i].ids[a] < <<p>>[i].ids[b]
    BY <2>1
  <2> QED BY <1>1, <2>1, <2>2, <2>3
<1>6. CASE UNCHANGED vars
  BY <1>6 DEF vars, Ascends
<1> QED BY <1>2, <1>3, <1>4, <1>5, <1>6 DEF SystemNext, OwnStep

(* The numbers up to h at or above the lowest registered one: a chain that *)
(* has reached one of them comes to h, unless it breaks off at a gap.      *)
Upto(known, h) == {n \in Nat : n <= h /\ \E k \in known : k <= n}

Chain(requests, answers, ns) ==
  \E n \in ns : \/ Requests(requests, "GET_HANDSET_IPUI_REQ", n)
                \/ Says(answers, "GET_HANDSET_IPUI_CFM", n)

Gap(table, ns) == \E n \in ns \cap Handset : ~table[n].registered

(* What is to come, or is not to come, to a handset shown with an identity *)
(* that is not its own.                                                    *)
Identities ==
  \A h \in Known :
    \/ mngr.handset[h].ipui = stack.ident[h]
    \/ Fresh \/ Listing(h)
    \/ Chain(toStack, fromStack, Upto(Known, h))
    \/ Gap(mngr.handset, Upto(Known, h))

LEMMA IdentitiesAnswer ==
  ASSUME SysType, Identities, StackAnswers
  PROVE  Identities'
<1> DEFINE r == Head(toStack)
<1>1. PICK w : fromStack' = fromStack \o w /\ Answers(r, w)
  BY AnswerFacts
<1>2. /\ toStack \in Seq(Request) /\ toStack # << >> /\ toStack' = Tail(toStack)
      /\ mngr' = mngr /\ Known' \subseteq Known
      /\ \A h \in Known' : stack'.ident[h] = stack.ident[h]
      /\ \A h \in Known : h \notin Known' =>
           r.prim = "DELETE_REGISTRATION_REQ" /\ r.arg = h
  BY AnswerFacts DEF SysType
<1>3. w \in Seq(StackPacket) /\ fromStack \in Seq(StackPacket)
  BY <1>1 DEF Answers, SysType
<1>4. WillList => WillList' \/ r.prim = "GET_REGISTRATION_COUNT_REQ"
  BY WillListAnswer
<1>5. /\ \A h : Listing(h) => Listing(h)'
      /\ \A h : (\E i \in DOMAIN w : Names(w[i], h)) => Listing(h)'
      /\ \A prim : Has(fromStack, prim) \/ Has(w, prim) <=> Has(fromStack', prim)
  BY <1>1, <1>3, SendingKeeps
<1>6. \A n : /\ Requests(toStack, "GET_HANDSET_IPUI_REQ", n) =>
                  \/ r.prim = "GET_HANDSET_IPUI_REQ" /\ r.arg = n
                  \/ Requests(toStack', "GET_HANDSET_IPUI_REQ", n)
             /\ Says(fromStack, "GET_HANDSET_IPUI_CFM", n)
                \/ Says(w, "GET_HANDSET_IPUI_CFM", n) =>
                  Says(fromStack', "GET_HANDSET_IPUI_CFM", n)
  BY <1>1, <1>2, <1>3, JoinedSays, PassedSays
<1>7. r.prim = "GET_HANDSET_IPUI_REQ" => Says(w, "GET_HANDSET_IPUI_CFM", r.arg)
  BY <1>1 DEF Answers, Tells, Says
<1>8. r.prim = "GET_REGISTRATION_COUNT_REQ" =>
        \A h \in Known : \E i \in DOMAIN w : Names(w[i], h)
  BY <1>1 DEF Answers
<1>9. ASSUME r.prim = "DELETE_REGISTRATION_REQ"
      PROVE  Fresh'
  <2>1. PICK i \in DOMAIN w : Deletes(w[i], r.arg)
    BY <1>1, <1>9 DEF Answers
  <2>2. Has(w, "DELETE_REGISTRATION_CFM")
    BY <2>1 DEF Deletes, Has
  <2> QED BY <1>5, <2>2 DEF Fresh
<1> HIDE DEF r
<1>10. CASE Known' = Known
  <2> SUFFICES ASSUME NEW h \in Known
               PROVE  \/ mngr'.handset[h].ipui = stack'.ident[h]
                      \/ Fresh' \/ Listing(h)'
                      \/ Chain(toStack', fromStack', Upto(Known, h))
                      \/ Gap(mngr'.handset, Upto(Known, h))
    BY <1>10 DEF Identities
  <2> DEFINE ns == Upto(Known, h)
  <2> HIDE DEF ns
  <2>1. Chain(toStack, fromStack, ns) => Chain(toStack', fromStack', ns)
    BY <1>6, <1>7 DEF Chain
  <2>2. Fresh => Fresh' \/ Listing(h)'
    BY <1>4, <1>5, <1>8 DEF Fresh
  <2> QED BY <1>2, <1>5, <1>10, <2>1, <2>2 DEF Identities, ns
<1>11. CASE Known' # Known
  <2>1. Fresh'
    BY <1>2, <1>9, <1>11
  <2> QED BY <2>1 DEF Identities
<1> QED BY <1>10, <1>11

(* A listing starts a chain at or below each handset it names.             *)
LEMMA ChainStarts ==
  ASSUME SysType, GhostsGo, Ascends, Receive,
         NEW g \in Handset, NEW h \in Handset, g <= h, Names(Head(fromStack), g)
  PROVE  Fresh' \/ Chain(toStack', fromStack', Upto(Known, h))
<1> DEFINE p == Head(fromStack)
<1>1. PICK t : Inv(t) /\ Step(t) /\ Handles(mngr, t, p)
  BY PacketFacts
<1>2. /\ fromStack \in Seq(StackPacket) /\ fromStack # << >>
      /\ fromStack' = Tail(fromStack) /\ fromStack[1] = p /\ p \in StackPacket
      /\ 1 \in DOMAIN fromStack
  BY PacketFacts, Passed DEF SysType
<1>3. toStack \in Seq(Request) /\ t.out \in Seq(Request) /\ toStack' = toStack \o t.out
  BY <1>1, StepFacts DEF SysType
<1>4. \A prim : Has(fromStack, prim) <=> p.prim = prim \/ Has(fromStack', prim)
  BY HandlingKeeps
<1>5. Handset \subseteq Nat
  BY MngrAssumption DEF Handset
<1> HIDE DEF p
<1> USE DEF Names
<1>6. Names(p, g)
  BY DEF p
<1> DEFINE n == p.ids[1]
<1>7. /\ p.prim = "GET_REGISTRATION_COUNT_CFM" /\ p.ids \in Seq(Handset)
      /\ p.ids # << >> /\ 1 \in DOMAIN p.ids /\ n \in Handset
  <2>1. p.ids \in Seq(Handset)
    BY <1>2, StackPacketOK
  <2>2. PICK b \in DOMAIN p.ids : p.ids[b] = g
    BY <1>6
  <2> QED BY <1>6, <2>1, <2>2
<1>8. n <= g
  <2>1. PICK b \in DOMAIN p.ids : p.ids[b] = g
    BY <1>6
  <2>2. b = 1 \/ 1 < b
    BY <1>7, <2>1
  <2>3. 1 < b => n < g
    BY <1>2, <1>7, <2>1 DEF Ascends
  <2>4. n \in Nat /\ g \in Nat
    BY <1>5, <1>7
  <2> QED BY <2>1, <2>2, <2>3, <2>4
<1>9. Names(p, n) /\ Follows(mngr, p, n)
  BY <1>7 DEF Follows
<1>10. CASE n \in Known
  <2>1. Requests(t.out, "GET_HANDSET_IPUI_REQ", n)
    BY <1>1, <1>9 DEF Handles, Requests
  <2>2. Requests(toStack', "GET_HANDSET_IPUI_REQ", n)
    BY <1>3, <2>1, JoinedSays
  <2>3. n \in Nat /\ n <= h /\ n <= n
    <3>1. n \in Nat /\ g \in Nat /\ h \in Nat
      BY <1>5, <1>7
    <3> HIDE DEF n
    <3> QED BY <3>1, <1>8
  <2> HIDE DEF n
  <2>4. n \in Upto(Known, h)
    BY <1>10, <2>3 DEF Upto
  <2> QED BY <2>2, <2>4 DEF Chain
<1>11. CASE n \notin Known
  <2>1. PICK j \in DOMAIN fromStack : j > 1 /\ Deletes(fromStack[j], n)
    BY <1>2, <1>7, <1>9, <1>11 DEF GhostsGo
  <2>2. Has(fromStack, "DELETE_REGISTRATION_CFM")
    BY <2>1 DEF Has, Deletes
  <2> QED BY <1>4, <1>7, <2>2 DEF Fresh
<1> QED BY <1>10, <1>11

(* The identity an answer tells is current, or a listing is due.           *)
LEMMA ToldCurrent ==
  ASSUME SysType, QueriesCurrent, Receive, NEW h \in Handset,
         Tells(Head(fromStack), h)
  PROVE  Fresh' \/ mngr'.handset[h].ipui = stack.ident[h]
<1> DEFINE p == Head(fromStack)
<1>1. PICK t : Inv(t) /\ Step(t) /\ Handles(mngr, t, p)
  BY PacketFacts
<1>2. /\ fromStack \in Seq(StackPacket) /\ fromStack # << >>
      /\ fromStack' = Tail(fromStack) /\ fromStack[1] = p
      /\ 1 \in DOMAIN fromStack
  BY PacketFacts, Passed DEF SysType
<1>3. mngr'.handset = t.handset
  BY <1>1, StepFacts DEF SysType
<1>4. Fresh => Fresh'
  <2>1. WillList => WillList'
    BY WillListNext DEF Elsewhere
  <2>2. /\ Has(fromStack, "DELETE_REGISTRATION_CFM") =>
             \/ p.prim = "DELETE_REGISTRATION_CFM"
             \/ Has(fromStack', "DELETE_REGISTRATION_CFM")
    BY HandlingKeeps
  <2> HIDE DEF p
  <2>3. Tells(p, h)
    BY DEF p
  <2> QED BY <2>1, <2>2, <2>3 DEF Fresh, Tells
<1>5. After(fromStack, 1, "CC_FEATURES_CFM") => Has(fromStack, "CC_FEATURES_CFM")
  BY DEF After, Has
<1> HIDE DEF p
<1>6. Tells(p, h)
  BY DEF p
<1>7. \/ Current(p, Known, stack.ident) \/ Relists
      \/ Has(toStack, "CC_FEATURES_REQ")
      \/ After(fromStack, 1, "CC_FEATURES_CFM")
  BY <1>2, <1>6 DEF QueriesCurrent, Tells
<1>8. Current(p, Known, stack.ident) => mngr'.handset[h].ipui = stack.ident[h]
  BY <1>1, <1>3, <1>6 DEF Current, Tells, Handles
<1> QED BY <1>4, <1>5, <1>7, <1>8 DEF Fresh, WillList, Relists

(* The answer for the handset n: the chain goes on to n + 1 or ends there. *)
LEMMA ChainGoesOn ==
  ASSUME SysType, Receive, NEW n \in Handset, NEW h \in Handset, n < h,
         n \in Upto(Known, h), Tells(Head(fromStack), n)
  PROVE  \/ Chain(toStack', fromStack', Upto(Known, h))
         \/ Gap(mngr'.handset, Upto(Known, h))
<1> DEFINE p == Head(fromStack)
<1>1. PICK t : Inv(t) /\ Step(t) /\ Handles(mngr, t, p)
  BY PacketFacts
<1>2. /\ toStack \in Seq(Request) /\ t.out \in Seq(Request)
      /\ toStack' = toStack \o t.out /\ mngr'.handset = t.handset
  BY <1>1, StepFacts DEF SysType
<1> HIDE DEF p
<1>3. Tells(p, n)
  BY DEF p
<1>4. n + 1 \in Handset /\ n + 1 <= h /\ n + 1 \in Nat /\ n <= n + 1
  BY MngrAssumption DEF Handset
<1>5. n + 1 \in Upto(Known, h)
  <2>1. PICK k \in Known : k <= n
    BY DEF Upto
  <2>2. k <= n + 1
    BY <2>1, MngrAssumption DEF Known, Handset
  <2> QED BY <1>4, <2>1, <2>2 DEF Upto
<1>6. CASE mngr.handset[n + 1].registered
  <2>1. Follows(mngr, p, n + 1)
    BY <1>3, <1>4, <1>6 DEF Follows, Tells, IsRegistered
  <2>2. Requests(t.out, "GET_HANDSET_IPUI_REQ", n + 1)
    BY <1>1, <2>1 DEF Handles, Requests
  <2>3. Requests(toStack', "GET_HANDSET_IPUI_REQ", n + 1)
    BY <1>2, <2>2, JoinedSays
  <2> QED BY <1>5, <2>3 DEF Chain
<1>7. CASE ~mngr.handset[n + 1].registered
  <2>1. ~mngr'.handset[n + 1].registered
    BY <1>1, <1>2, <1>3, <1>4, <1>7 DEF Handles, Names, Tells
  <2> QED BY <1>4, <1>5, <2>1 DEF Gap
<1> QED BY <1>6, <1>7

LEMMA IdentitiesPacket ==
  ASSUME SysType, GhostsGo, QueriesCurrent, Ascends, Identities, Receive
  PROVE  Identities'
<1> DEFINE p == Head(fromStack)
<1>1. PICK t : Inv(t) /\ Step(t) /\ Handles(mngr, t, p)
  BY PacketFacts
<1>2. /\ fromStack \in Seq(StackPacket) /\ fromStack # << >>
      /\ fromStack' = Tail(fromStack)
  BY PacketFacts DEF SysType
<1>3. /\ toStack \in Seq(Request) /\ t.out \in Seq(Request)
      /\ toStack' = toStack \o t.out /\ mngr'.handset = t.handset
      /\ mngr'.listTimers = t.listTimers
      /\ stack' = stack /\ Known' = Known
  BY <1>1, StepFacts DEF SysType
<1>4. \A g \in Handset :
        /\ mngr'.handset[g].registered =
             (Names(p, g) \/ (mngr.handset[g].registered /\ ~Deletes(p, g)))
        /\ mngr'.handset[g].ipui =
             IF Tells(p, g) THEN p.ipui ELSE mngr.handset[g].ipui
  BY <1>1, <1>3 DEF Handles
<1>5. /\ \A g : Listing(g) <=> Names(p, g) \/ Listing(g)'
      /\ \A prim : Has(fromStack, prim) <=> p.prim = prim \/ Has(fromStack', prim)
  BY HandlingKeeps
<1>6. WillList => WillList'
  BY WillListNext DEF Elsewhere
<1>7. \A n : /\ Requests(toStack, "GET_HANDSET_IPUI_REQ", n) =>
                  Requests(toStack', "GET_HANDSET_IPUI_REQ", n)
             /\ Says(fromStack, "GET_HANDSET_IPUI_CFM", n) =>
                  \/ Tells(p, n) \/ Says(fromStack', "GET_HANDSET_IPUI_CFM", n)
  BY <1>2, <1>3, JoinedSays, PassedSays DEF Tells
<1>8. Known \subseteq Handset /\ Handset \subseteq Nat
  BY MngrAssumption DEF Known, Handset
<1>9. \A g, h \in Handset : g <= h /\ Names(p, g) =>
        Fresh' \/ Chain(toStack', fromStack', Upto(Known, h))
  BY ChainStarts
<1>10. \A h \in Handset : Tells(p, h) =>
         Fresh' \/ mngr'.handset[h].ipui = stack.ident[h]
  BY ToldCurrent
<1>11. \A n, h \in Handset : n < h /\ n \in Upto(Known, h) /\ Tells(p, n) =>
         \/ Chain(toStack', fromStack', Upto(Known, h))
         \/ Gap(mngr'.handset, Upto(Known, h))
  BY ChainGoesOn
<1>12. p.prim = "DELETE_REGISTRATION_CFM" => Fresh'
  <2>1. p.prim = "DELETE_REGISTRATION_CFM" => t.listTimers > 0
    BY <1>1 DEF Handles
  <2> HIDE DEF p
  <2> QED BY <1>3, <2>1 DEF Fresh, WillList
<1> HIDE DEF p
<1>13. Fresh => Fresh'
  BY <1>5, <1>6, <1>12 DEF Fresh
<1> SUFFICES ASSUME NEW h \in Known
             PROVE  \/ mngr'.handset[h].ipui = stack.ident[h]
                    \/ Fresh' \/ Listing(h)'
                    \/ Chain(toStack', fromStack', Upto(Known, h))
                    \/ Gap(mngr'.handset, Upto(Known, h))
  BY <1>3 DEF Identities
<1>14. h \in Handset /\ h \in Nat /\ h <= h
  BY <1>8
<1> DEFINE ns == Upto(Known, h)
<1>15. \A n \in ns : n \in Handset /\ (n = h \/ n < h)
  <2> SUFFICES ASSUME NEW n \in ns
               PROVE  n \in Handset /\ (n = h \/ n < h)
    OBVIOUS
  <2>1. n \in Nat /\ n <= h /\ \E k \in Known : k <= n
    BY DEF Upto
  <2>2. PICK k \in Handset : k <= n
    BY <1>8, <2>1
  <2> QED BY <1>14, <2>1, <2>2, MngrAssumption DEF Handset
<1> HIDE DEF ns
<1>16. CASE mngr.handset[h].ipui = stack.ident[h]
  BY <1>4, <1>10, <1>14, <1>16
<1>17. CASE Listing(h)
  BY <1>5, <1>9, <1>14, <1>17 DEF ns
<1>18. CASE Chain(toStack, fromStack, ns)
  <2>1. PICK n \in ns : \/ Requests(toStack, "GET_HANDSET_IPUI_REQ", n)
                        \/ Says(fromStack, "GET_HANDSET_IPUI_CFM", n)
    BY <1>18 DEF Chain
  <2>2. Chain(toStack', fromStack', ns) \/ Tells(p, n)
    BY <1>7, <2>1 DEF Chain
  <2> QED BY <1>10, <1>11, <1>14, <1>15, <2>1, <2>2 DEF ns
<1>19. CASE Gap(mngr.handset, ns)
  <2>1. PICK n \in ns : n \in Handset /\ ~mngr.handset[n].registered
    BY <1>19 DEF Gap
  <2>2. n <= h
    BY <2>1 DEF ns, Upto
  <2>3. Gap(mngr'.handset, ns) \/ Names(p, n)
    BY <1>4, <2>1 DEF Gap
  <2> QED BY <1>9, <1>14, <2>1, <2>2, <2>3 DEF ns
<1> QED BY <1>13, <1>16, <1>17, <1>18, <1>19 DEF Identities, ns

LEMMA IdentitiesNext ==
  ASSUME SysType, GhostsGo, QueriesCurrent, Ascends, Identities,
         [SystemNext]_vars
  PROVE  Identities'
<1>1. CASE StackAnswers
  BY <1>1, IdentitiesAnswer
<1>2. CASE Receive
  BY <1>2, IdentitiesPacket
<1>3. CASE OwnStep
  <2>1. PICK t : Inv(t) /\ Step(t) /\ Acts(mngr, t)
    BY <1>3, OwnFacts
  <2>2. /\ toStack \in Seq(Request) /\ t.out \in Seq(Request)
        /\ toStack' = toStack \o t.out /\ stack' = stack /\ Known' = Known
        /\ fromStack' = fromStack /\ mngr'.handset = t.handset
        /\ Known \subseteq Handset
    BY <1>3, <2>1, OwnFacts, StepFacts DEF SysType, Known
  <2>3. \A h \in Handset :
          /\ mngr'.handset[h].registered = mngr.handset[h].registered
          /\ mngr'.handset[h].ipui = mngr.handset[h].ipui
    BY <2>1, <2>2 DEF Acts
  <2>4. Fresh => Fresh'
    <3>1. WillList => WillList'
      BY <1>3, WillListNext DEF Elsewhere
    <3> QED BY <2>2, <3>1 DEF Fresh
  <2>5. \A h : Listing(h) => Listing(h)'
    BY <2>2 DEF Listing
  <2>6. \A n : Requests(toStack, "GET_HANDSET_IPUI_REQ", n) =>
                 Requests(toStack', "GET_HANDSET_IPUI_REQ", n)
    BY <2>2, JoinedSays
  <2> SUFFICES ASSUME NEW h \in Known
               PROVE  \/ mngr'.handset[h].ipui = stack.ident[h]
                      \/ Fresh' \/ Listing(h)'
                      \/ Chain(toStack', fromStack', Upto(Known, h))
                      \/ Gap(mngr'.handset, Upto(Known, h))
    BY <2>2 DEF Identities
  <2> DEFINE ns == Upto(Known, h)
  <2> HIDE DEF ns
  <2>7. Chain(toStack, fromStack, ns) => Chain(toStack', fromStack', ns)
    BY <2>2, <2>6 DEF Chain
  <2>8. Gap(mngr.handset, ns) => Gap(mngr'.handset, ns)
    BY <2>3 DEF Gap
  <2> QED BY <2>2, <2>3, <2>4, <2>5, <2>7, <2>8 DEF Identities, ns
<1>4. ASSUME NEW g \in Handset, Registers(g) \/ Announces(g) \/ PicksUp(g)
      PROVE  Identities'
  <2>1. PICK p \in StackPacket : fromStack' = fromStack \o <<p>>
    BY <1>4, AirFacts
  <2>2. /\ mngr' = mngr /\ toStack' = toStack
        /\ \A k \in Known : k \in Known' /\ stack'.ident[k] = stack.ident[k]
        /\ <<p>> \in Seq(StackPacket) /\ fromStack \in Seq(StackPacket)
    BY <1>4, AirFacts DEF SysType
  <2>3. /\ \A h : Listing(h) => Listing(h)'
        /\ \A prim : Has(fromStack, prim) => Has(fromStack', prim)
    BY <2>1, <2>2, SendingKeeps
  <2>4. \A n : Says(fromStack, "GET_HANDSET_IPUI_CFM", n) =>
                 Says(fromStack', "GET_HANDSET_IPUI_CFM", n)
    BY <2>1, <2>2, JoinedSays
  <2>5. Fresh => Fresh'
    <3>1. WillList => WillList'
      BY <1>4, WillListNext DEF Elsewhere
    <3> QED BY <2>3, <3>1 DEF Fresh
  <2>6. \A h : Upto(Known, h) \subseteq Upto(Known', h)
    BY <2>2 DEF Upto
  <2> SUFFICES ASSUME NEW h \in Known'
               PROVE  \/ mngr'.handset[h].ipui = stack'.ident[h]
                      \/ Fresh' \/ Listing(h)'
                      \/ Chain(toStack', fromStack', Upto(Known', h))
                      \/ Gap(mngr'.handset, Upto(Known', h))
    BY DEF Identities
  <2>7. CASE h \in Known
    <3>1. Chain(toStack, fromStack, Upto(Known, h)) =>
            Chain(toStack', fromStack', Upto(Known', h))
      BY <2>2, <2>4, <2>6 DEF Chain
    <3>2. Gap(mngr.handset, Upto(Known, h)) => Gap(mngr'.handset, Upto(Known', h))
      BY <2>2, <2>6 DEF Gap
    <3> QED BY <2>2, <2>3, <2>5, <2>7, <3>1, <3>2 DEF Identities
  <2>8. CASE h \notin Known
    <3>1. h \in Handset /\ h \in Nat /\ h <= h
      BY MngrAssumption DEF Known, Handset
    <3>2. h \in Upto(Known', h)
      BY <3>1 DEF Upto
    <3>3. CASE mngr.handset[h].registered
      <4>1. PICK j \in DOMAIN fromStack : Deletes(fromStack[j], h)
        BY <2>8, <3>1, <3>3 DEF GhostsGo
      <4>2. Has(fromStack, "DELETE_REGISTRATION_CFM")
        BY <4>1 DEF Has, Deletes
      <4> QED BY <2>3, <4>2 DEF Fresh
    <3>4. CASE ~mngr.handset[h].registered
      BY <2>2, <3>1, <3>2, <3>4 DEF Gap
    <3> QED BY <3>3, <3>4
  <2> QED BY <2>7, <2>8
<1>5. CASE UNCHANGED vars
  BY <1>5 DEF vars, Identities, Fresh, WillList, Listing, Known
<1> QED BY <1>1, <1>2, <1>3, <1>4, <1>5 DEF SystemNext, OwnStep

(* A registered handset comes to be shown with its own identity: the chain *)
(* of handset_ipui_cfm (dectmngr.c:877-899), which goes from one number to *)
(* the next, comes to it, and whatever deletion or registration overtakes  *)
(* the chain, the listing that follows starts it again from the lowest     *)
(* number (registration_count_cfm, dectmngr.c:521-553).                    *)
THEOREM IdentitiesAreOwn == System => []OwnIdentity
<1> DEFINE I == GhostsGo /\ QueriesCurrent /\ Ascends /\ Identities
<1>1. SystemInit => I
  <2> SUFFICES ASSUME SystemInit
               PROVE  I
    OBVIOUS
  <2>1. /\ toStack = << >> /\ fromStack = << >>
        /\ \A h \in Handset : ~mngr.handset[h].registered
    BY DEF SystemInit, init_status
  <2>2. GhostsGo /\ QueriesCurrent /\ Ascends
    BY <2>1 DEF GhostsGo, QueriesCurrent, Ascends
  <2>3. ASSUME NEW h \in Known
        PROVE  Gap(mngr.handset, Upto(Known, h))
    <3>1. h \in Handset /\ h \in Nat /\ h <= h
      BY MngrAssumption DEF Known, Handset
    <3>2. h \in Upto(Known, h)
      BY <3>1 DEF Upto
    <3> QED BY <2>1, <3>1, <3>2 DEF Gap
  <2> QED BY <2>2, <2>3 DEF Identities
<1>2. I => OwnIdentity
  <2> SUFFICES ASSUME Identities, Settled, NEW h \in Known,
                      \A g \in Handset : g <= h /\ (\E k \in Known : k <= g) =>
                        mngr.handset[g].registered
               PROVE  mngr.handset[h].ipui = stack.ident[h]
    BY DEF OwnIdentity
  <2>1. DOMAIN toStack = {} /\ DOMAIN fromStack = {} /\ mngr.listTimers = 0
    BY DEF Settled
  <2>2. ~Fresh /\ ~Listing(h) /\ ~Chain(toStack, fromStack, Upto(Known, h))
    BY <2>1 DEF Fresh, WillList, Has, Listing, Chain, Requests, Says
  <2>3. ~Gap(mngr.handset, Upto(Known, h))
    BY DEF Gap, Upto
  <2> QED BY <2>2, <2>3 DEF Identities
<1>3. SysType /\ I /\ [SystemNext]_vars => I'
  BY GhostNext, QueriesNext, AscendsNext, IdentitiesNext
<1> HIDE DEF I
<1> QED BY <1>1, <1>2, <1>3, SysTypeAlways, PTL DEF System
=============================================================================
