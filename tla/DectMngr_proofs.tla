--------------------------- MODULE DectMngr_proofs ---------------------------
(* What the open daemon guarantees for every length of the handset table,  *)
(* set of terminals, list of ids, command, file and bound: theorems about  *)
(* DectMngr.                                                               *)
(*                                                                         *)
(* Inv is the inductive invariant.  Each C function gets a lemma, in one   *)
(* of three forms: it is Quiet (it changes nothing Inv looks at), it has   *)
(* the stated effect (helpers called while Inv is broken for a moment), or *)
(* it preserves Inv (callbacks and the functions that end them).           *)
EXTENDS DectMngr, TLAPS

USE DEF DISABLED, DELAYED_START, ENABLED_, AUTO

(* The state predicates of the properties, for any record.                 *)
Armed(s) == s.reg_mode = ENABLED_ => s.stopTimers > 0

Pinged(s) ==
  \A h \in Handset : s.handset[h].pinging =>
    \E i \in 1 .. Len(s.pingTimers) : s.pingTimers[i] = h

Lit(s) ==
  \/ s.led = Led(s.radio, s.reg_mode)
  \/ s.led = "none" /\ s.radio = DISABLED /\ s.reg_mode = DISABLED
  \/ s.led = "led_blink" /\ s.radio = ENABLED_ /\ s.reg_mode = DELAYED_START

Gated(s) == s.config = DISABLED /\ s.radio = ENABLED_ => s.override

Inv(s) == s \in State /\ Armed(s) /\ Pinged(s) /\ Lit(s) /\ Gated(s)

(* t is s up to the fields that writing, the LED and the radio may change. *)
Keeps(s, t) ==
  /\ t \in State
  /\ t.config = s.config /\ t.reg_mode = s.reg_mode
  /\ t.stopTimers = s.stopTimers
  /\ t.handset = s.handset /\ t.pingTimers = s.pingTimers

Quiet(s, t) ==
  /\ Keeps(s, t)
  /\ t.radio = s.radio /\ t.led = s.led /\ t.override = s.override

-----------------------------------------------------------------------------
(* Helpers.                                                                *)

LEMMA QuietInv ==
  ASSUME NEW s, Inv(s), NEW t, Quiet(s, t)
  PROVE  Inv(t)
BY DEF Inv, Armed, Pinged, Lit, Gated, Quiet, Keeps

LEMMA QuietTrans ==
  ASSUME NEW s, NEW t, NEW u, Quiet(s, t), Quiet(t, u)
  PROVE  Quiet(s, u)
BY DEF Quiet, Keeps

LEMMA WriteQuiet ==
  ASSUME NEW s \in State, NEW prim \in RequestPrims, NEW arg \in Nat
  PROVE  Quiet(s, write_dect(s, prim, arg))
<1>1. Append(s.out, [prim |-> prim, arg |-> arg]) \in Seq(Request)
  BY DEF Request, State
<1> QED BY <1>1 DEF State, Quiet, Keeps, write_dect

LEMMA SentQuiet ==
  ASSUME NEW s \in State
  PROVE  Quiet(s, Sent(s))
<1>1. << >> \in Seq(Request)
  OBVIOUS
<1> QED BY <1>1 DEF State, Quiet, Keeps, Sent

LEMMA LedEffect ==
  ASSUME NEW s \in State
  PROVE  LET t == control_led(s)
         IN /\ Keeps(s, t)
            /\ t.radio = s.radio /\ t.override = s.override
            /\ t.led = Led(s.radio, s.reg_mode)
BY DEF State, Keeps, control_led, Led

LEMMA StartEffect ==
  ASSUME NEW s \in State
  PROVE  LET t == start_protocol(s)
         IN /\ Keeps(s, t)
            /\ t.radio = ENABLED_ /\ t.override = FALSE
            /\ t.led = Led(ENABLED_, s.reg_mode)
<1> DEFINE w == write_dect(s, "START_PROTOCOL_REQ", 0)
           u == [w EXCEPT !.radio = ENABLED_, !.override = FALSE]
<1>1. Quiet(s, w)
  BY WriteQuiet DEF RequestPrims
<1>2. Keeps(s, u) /\ u.radio = ENABLED_ /\ u.override = FALSE
  <2> HIDE DEF w
  <2> QED BY <1>1 DEF Quiet, Keeps, State
<1>3. start_protocol(s) = control_led(u)
  BY DEF start_protocol
<1> HIDE DEF u
<1> QED BY <1>2, <1>3, LedEffect DEF Keeps

LEMMA StopEffect ==
  ASSUME NEW s \in State
  PROVE  LET t == stop_protocol(s)
         IN /\ Keeps(s, t)
            /\ t.radio = DISABLED /\ t.override = FALSE
            /\ t.led = Led(DISABLED, s.reg_mode)
<1> DEFINE w == write_dect(s, "STOP_PROTOCOL_REQ", 0)
           u == [w EXCEPT !.radio = DISABLED, !.override = FALSE]
<1>1. Quiet(s, w)
  BY WriteQuiet DEF RequestPrims
<1>2. Keeps(s, u) /\ u.radio = DISABLED /\ u.override = FALSE
  <2> HIDE DEF w
  <2> QED BY <1>1 DEF Quiet, Keeps, State
<1>3. stop_protocol(s) = control_led(u)
  BY DEF stop_protocol
<1> HIDE DEF u
<1> QED BY <1>2, <1>3, LedEffect DEF Keeps

(* The radio ends as asked; a call that changes nothing leaves all alone.  *)
LEMMA RadioEffect ==
  ASSUME NEW s \in State, NEW enable \in BOOLEAN
  PROVE  LET t == dect_radio(s, enable)
         IN /\ Keeps(s, t)
            /\ t.radio = IF enable THEN ENABLED_ ELSE DISABLED
            /\ t.radio = s.radio => t.led = s.led /\ t.override = s.override
            /\ t.radio # s.radio => t.led = Led(t.radio, t.reg_mode)
<1>1. s.radio \in {DISABLED, ENABLED_}
  BY DEF State
<1>2. CASE enable /\ s.radio = DISABLED
  BY <1>2, StartEffect DEF dect_radio, Keeps
<1>3. CASE ~enable /\ s.radio = ENABLED_
  BY <1>3, StopEffect DEF dect_radio, Keeps
<1>4. CASE (enable => s.radio # DISABLED) /\ (~enable => s.radio # ENABLED_)
  BY <1>1, <1>4 DEF dect_radio, Keeps
<1> QED BY <1>2, <1>3, <1>4

LEMMA InitCfmQuiet ==
  ASSUME NEW s \in State
  PROVE  Quiet(s, init_cfm(s))
<1> DEFINE w == write_dect(s, "CC_FEATURES_REQ", 0)
<1>1. Quiet(s, w)
  BY WriteQuiet DEF RequestPrims
<1>2. init_cfm(s) = [w EXCEPT !.dect_init = TRUE]
  BY DEF init_cfm
<1> HIDE DEF w
<1>3. w \in State
  BY <1>1 DEF Quiet, Keeps
<1>4. Quiet(w, [w EXCEPT !.dect_init = TRUE])
  BY <1>3 DEF Quiet, Keeps, State
<1> QED BY <1>1, <1>2, <1>4, QuietTrans

LEMMA ScheduleQuiet ==
  ASSUME NEW s \in State
  PROVE  Quiet(s, list_handsets_schedule(s))
<1>1. s.listTimers + 1 \in Nat
  BY DEF State
<1> QED BY <1>1 DEF State, Quiet, Keeps, list_handsets_schedule

LEMMA ExitQuiet ==
  ASSUME NEW s \in State
  PROVE  Quiet(s, exit_failure(s))
BY DEF State, Quiet, Keeps, exit_failure

-----------------------------------------------------------------------------
(* The functions that switch the radio.                                    *)

LEMMA LedInv ==
  ASSUME NEW s, Inv(s)
  PROVE  Inv(control_led(s))
BY LedEffect DEF Keeps, Inv, Armed, Pinged, Lit, Gated

(* Switching the radio keeps Inv if it does not go against the config.     *)
LEMMA RadioInv ==
  ASSUME NEW s, Inv(s), NEW enable \in BOOLEAN,
         enable => s.config # DISABLED
  PROVE  Inv(dect_radio(s, enable))
BY RadioEffect DEF Keeps, Inv, Armed, Pinged, Lit, Gated

LEMMA PerhapsInv ==
  ASSUME NEW s, Inv(s)
  PROVE  Inv(perhaps_disable_protocol(s))
<1>1. AnyRegistered(s) \in BOOLEAN
  BY DEF AnyRegistered
<1>2. CASE s.config = AUTO
  BY <1>1, <1>2, RadioInv, LedInv DEF perhaps_disable_protocol
<1>3. CASE s.config # AUTO
  BY <1>3, LedInv DEF perhaps_disable_protocol
<1> QED BY <1>2, <1>3

LEMMA FeaturesInv ==
  ASSUME NEW s, Inv(s)
  PROVE  Inv(features_cfm(s))
<1> DEFINE r == IF s.config = ENABLED_ THEN dect_radio(s, TRUE) ELSE s
<1>1. Inv(r)
  BY RadioInv
<1>2. features_cfm(s) = write_dect(r, "GET_REGISTRATION_COUNT_REQ", 0)
  BY DEF features_cfm, list_handsets
<1> HIDE DEF r
<1>3. Quiet(r, write_dect(r, "GET_REGISTRATION_COUNT_REQ", 0))
  BY <1>1, WriteQuiet DEF Inv, RequestPrims
<1> QED BY <1>1, <1>2, <1>3, QuietInv

(* A reload ends with the radio the new configuration asks for.            *)
LEMMA ReloadInv ==
  ASSUME NEW s, Inv(s), NEW cfg \in {"on", "off", "auto", "bad"}
  PROVE  Inv(reload_config(s, cfg))
<1>1. CASE cfg = "bad"
  BY <1>1, ExitQuiet, QuietInv DEF reload_config, Inv
<1>2. CASE cfg # "bad"
  <2> DEFINE t == [s EXCEPT !.config = CfgRadio(cfg)]
  <2>1. /\ t \in State /\ t.config = CfgRadio(cfg)
        /\ Armed(t) /\ Pinged(t) /\ Lit(t)
        /\ t.config # DISABLED => Gated(t)
    BY DEF Inv, State, CfgRadio, Armed, Pinged, Lit, Gated
  <2>2. reload_config(s, cfg) =
          CASE t.config = ENABLED_ -> list_handsets_schedule(dect_radio(t, TRUE))
            [] t.config = AUTO     -> init_cfm(t)
            [] t.config = DISABLED -> dect_radio(t, FALSE)
    BY <1>2 DEF reload_config
  <2> HIDE DEF t
  <2>3. CASE t.config = ENABLED_
    <3>1. Inv(dect_radio(t, TRUE))
      BY <2>1, <2>3, RadioInv DEF Inv
    <3> QED BY <2>2, <2>3, <3>1, ScheduleQuiet, QuietInv DEF Inv
  <2>4. CASE t.config = AUTO
    BY <2>1, <2>2, <2>4, InitCfmQuiet, QuietInv DEF Inv
  <2>5. CASE t.config = DISABLED
    <3> DEFINE r == dect_radio(t, FALSE)
    <3>1. /\ Keeps(t, r) /\ r.radio = DISABLED
          /\ r.radio = t.radio => r.led = t.led
          /\ r.radio # t.radio => r.led = Led(r.radio, r.reg_mode)
      BY <2>1, RadioEffect
    <3> HIDE DEF r
    <3>2. Inv(r)
      BY <2>1, <3>1 DEF Keeps, Inv, Armed, Pinged, Lit, Gated
    <3> QED BY <2>2, <2>5, <3>2 DEF r
  <2>6. t.config \in {ENABLED_, AUTO, DISABLED}
    BY <2>1 DEF CfgRadio
  <2> QED BY <2>3, <2>4, <2>5, <2>6
<1> QED BY <1>1, <1>2

(* The RADIO command: the one way round the configuration.                 *)
LEMMA RadioCommandInv ==
  ASSUME NEW s, Inv(s), NEW enable \in BOOLEAN
  PROVE  LET t == dect_radio(s, enable)
         IN Inv([t EXCEPT !.override = @ \/ t.radio # s.radio])
<1> DEFINE t == dect_radio(s, enable)
           u == [t EXCEPT !.override = @ \/ t.radio # s.radio]
<1>1. /\ Keeps(s, t)
      /\ t.radio = s.radio => t.led = s.led /\ t.override = s.override
      /\ t.radio # s.radio => t.led = Led(t.radio, t.reg_mode)
  BY RadioEffect DEF Inv
<1> HIDE DEF t
<1>2. u \in State
  BY <1>1 DEF Keeps, State
<1>3. /\ u.config = t.config /\ u.reg_mode = t.reg_mode
      /\ u.radio = t.radio /\ u.led = t.led /\ u.stopTimers = t.stopTimers
      /\ u.handset = t.handset /\ u.pingTimers = t.pingTimers
      /\ u.override = (t.override \/ t.radio # s.radio)
  BY <1>1 DEF Keeps, State
<1> HIDE DEF u
<1>4. Armed(u) /\ Pinged(u)
  BY <1>1, <1>3 DEF Keeps, Inv, Armed, Pinged
<1>5. Lit(u)
  BY <1>1, <1>3 DEF Keeps, Inv, Lit
<1>6. Gated(u)
  <2>1. CASE t.radio = s.radio
    BY <1>1, <1>3, <2>1 DEF Keeps, Inv, Gated
  <2>2. CASE t.radio # s.radio
    BY <1>3, <2>2 DEF Gated
  <2> QED BY <2>1, <2>2
<1> QED BY <1>2, <1>4, <1>5, <1>6 DEF u, t, Inv

-----------------------------------------------------------------------------
(* Registration.                                                           *)

(* Closing the window needs neither its timer nor a LED that is in step.   *)
LEMMA StopWindowInv ==
  ASSUME NEW s \in State, Pinged(s), Gated(s)
  PROVE  Inv(register_handsets_stop(s))
<1> DEFINE r == [s EXCEPT !.reg_mode = DISABLED]
           t == control_led(r)
<1>1. /\ r \in State /\ r.reg_mode = DISABLED /\ r.config = s.config
      /\ r.handset = s.handset /\ r.pingTimers = s.pingTimers
      /\ r.radio = s.radio /\ r.override = s.override
  BY DEF State
<1>2. Inv(t)
  <2> HIDE DEF r
  <2>1. /\ Keeps(r, t) /\ t.radio = r.radio /\ t.override = r.override
        /\ t.led = Led(r.radio, r.reg_mode)
    BY <1>1, LedEffect
  <2> HIDE DEF t
  <2> QED BY <1>1, <2>1 DEF Keeps, Inv, Armed, Pinged, Lit, Gated
<1>3. Quiet(t, write_dect(t, "SET_REGISTRATION_MODE_REQ", 0))
  BY <1>2, WriteQuiet DEF Inv, RequestPrims
<1>4. register_handsets_stop(s) =
        IF t.radio = ENABLED_
        THEN write_dect(t, "SET_REGISTRATION_MODE_REQ", 0) ELSE t
  BY DEF register_handsets_stop
<1> HIDE DEF t
<1> QED BY <1>2, <1>3, <1>4, QuietInv

(* Opening it breaks Armed until registration has armed the timer.         *)
LEMMA StartWindowEffect ==
  ASSUME NEW s \in State, s.radio = ENABLED_
  PROVE  LET t == register_handsets_start(s)
         IN /\ t \in State
            /\ t.config = s.config /\ t.reg_mode = ENABLED_
            /\ t.stopTimers = s.stopTimers
            /\ t.handset = s.handset /\ t.pingTimers = s.pingTimers
            /\ t.radio = ENABLED_ /\ t.override = s.override
            /\ t.led = "led_blink"
<1> DEFINE r == [s EXCEPT !.reg_mode = ENABLED_]
           l == control_led(r)
<1>1. /\ r \in State /\ r.reg_mode = ENABLED_ /\ r.config = s.config
      /\ r.stopTimers = s.stopTimers /\ r.handset = s.handset
      /\ r.pingTimers = s.pingTimers /\ r.radio = s.radio
      /\ r.override = s.override
  BY DEF State
<1>2. register_handsets_start(s) = write_dect(l, "SET_REGISTRATION_MODE_REQ", 1)
  BY DEF register_handsets_start
<1> HIDE DEF r
<1>3. /\ Keeps(r, l) /\ l.radio = r.radio /\ l.override = r.override
      /\ l.led = "led_blink"
  BY <1>1, LedEffect DEF Led
<1> HIDE DEF l
<1>4. Quiet(l, write_dect(l, "SET_REGISTRATION_MODE_REQ", 1))
  BY <1>3, WriteQuiet DEF Keeps, RequestPrims
<1> QED BY <1>1, <1>2, <1>3, <1>4 DEF Quiet, Keeps

LEMMA RegistrationInv ==
  ASSUME NEW s, Inv(s)
  PROVE  Inv(registration(s))
<1>1. CASE s.config = DISABLED
  BY <1>1 DEF registration
<1>2. CASE s.config # DISABLED /\ s.radio = DISABLED
  <2> DEFINE t == dect_radio(s, TRUE)
             u == [t EXCEPT !.reg_mode = DELAYED_START, !.startTimers = @ + 1]
  <2>1. /\ Keeps(s, t) /\ t.radio = ENABLED_
        /\ t.led = Led(ENABLED_, s.reg_mode)
    BY <1>2, StartEffect DEF Inv, dect_radio
  <2> HIDE DEF t
  <2> t \in State /\ t.startTimers + 1 \in Nat
    <3>1. t \in State
      BY <2>1 DEF Keeps
    <3> QED BY <3>1 DEF State
  <2>2. /\ u \in State /\ u.config = t.config /\ u.reg_mode = DELAYED_START
        /\ u.radio = t.radio /\ u.led = t.led
        /\ u.handset = t.handset /\ u.pingTimers = t.pingTimers
    BY DEF State
  <2>3. registration(s) = u
    BY <1>2 DEF registration, t
  <2> HIDE DEF u
  <2> QED
    BY <1>2, <2>1, <2>2, <2>3
       DEF Keeps, Inv, Armed, Pinged, Lit, Gated, Led
<1>3. CASE s.config # DISABLED /\ s.radio # DISABLED /\ s.reg_mode # ENABLED_
  <2> DEFINE t == register_handsets_start(s)
             u == [t EXCEPT !.stopTimers = @ + 1]
  <2>1. s.radio = ENABLED_
    BY <1>3 DEF Inv, State
  <2>2. /\ t \in State
        /\ t.config = s.config /\ t.reg_mode = ENABLED_
        /\ t.handset = s.handset /\ t.pingTimers = s.pingTimers
        /\ t.radio = ENABLED_ /\ t.override = s.override
        /\ t.led = "led_blink"
    BY <2>1, StartWindowEffect DEF Inv
  <2> HIDE DEF t
  <2>3. /\ u \in State /\ u.config = t.config /\ u.reg_mode = t.reg_mode
        /\ u.radio = t.radio /\ u.led = t.led /\ u.override = t.override
        /\ u.handset = t.handset /\ u.pingTimers = t.pingTimers
        /\ u.stopTimers > 0
    <3>1. t.stopTimers + 1 \in Nat /\ t.stopTimers + 1 > 0
      BY <2>2 DEF State
    <3>2. u.stopTimers = t.stopTimers + 1
      BY <2>2 DEF State
    <3> QED BY <2>2, <3>1, <3>2 DEF State
  <2>4. registration(s) = u
    BY <1>3 DEF registration, t
  <2> HIDE DEF u
  <2> QED
    BY <1>3, <2>2, <2>3, <2>4 DEF Inv, Armed, Pinged, Lit, Gated, Led
<1>4. CASE s.config # DISABLED /\ s.radio # DISABLED /\ s.reg_mode = ENABLED_
  BY <1>4 DEF registration
<1> QED BY <1>1, <1>2, <1>3, <1>4

LEMMA DelayedStartInv ==
  ASSUME NEW s, Inv(s), s.startTimers > 0
  PROVE  Inv(start_expired(s))
<1> DEFINE t == [s EXCEPT !.startTimers = @ - 1]
<1>1. Quiet(s, t)
  <2>1. s \in State /\ s.startTimers - 1 \in Nat
    BY DEF Inv, State
  <2> QED BY <2>1 DEF State, Quiet, Keeps
<1>2. start_expired(s) = IF t.reg_mode = DELAYED_START THEN registration(t) ELSE t
  BY DEF start_expired, registration_delayed_start
<1> HIDE DEF t
<1> QED BY <1>1, <1>2, QuietInv, RegistrationInv

LEMMA StopTimeoutInv ==
  ASSUME NEW s, Inv(s), s.stopTimers > 0
  PROVE  Inv(stop_expired(s))
<1> DEFINE t == [s EXCEPT !.stopTimers = @ - 1]
<1>1. t \in State /\ Pinged(t) /\ Gated(t)
  <2>1. s \in State /\ s.stopTimers - 1 \in Nat
    BY DEF Inv, State
  <2>2. t \in State
    BY <2>1 DEF State
  <2>3. Pinged(t) /\ Gated(t)
    BY <2>1 DEF Inv, State, Pinged, Gated
  <2> QED BY <2>2, <2>3
<1>2. stop_expired(s) = register_handsets_stop(t)
  BY DEF stop_expired
<1> HIDE DEF t
<1> QED BY <1>1, <1>2, StopWindowInv

LEMMA ListTimeoutInv ==
  ASSUME NEW s, Inv(s), s.listTimers > 0
  PROVE  Inv(list_expired(s))
<1> DEFINE t == [s EXCEPT !.listTimers = @ - 1]
<1>1. Quiet(s, t)
  <2>1. s \in State /\ s.listTimers - 1 \in Nat
    BY DEF Inv, State
  <2> QED BY <2>1 DEF State, Quiet, Keeps
<1>2. list_expired(s) = init_cfm(t)
  BY DEF list_expired
<1> HIDE DEF t
<1> QED BY <1>1, <1>2, InitCfmQuiet, QuietInv DEF Quiet, Keeps

-----------------------------------------------------------------------------
(* The table of handsets and the pings.                                    *)

(* The table may change in any way that starts no ping.                    *)
LEMMA TableInv ==
  ASSUME NEW s, Inv(s), NEW f \in [Handset -> Hset],
         \A h \in Handset : f[h].pinging => s.handset[h].pinging
  PROVE  Inv([s EXCEPT !.handset = f])
<1> DEFINE t == [s EXCEPT !.handset = f]
<1>1. /\ t \in State /\ t.handset = f /\ t.config = s.config
      /\ t.reg_mode = s.reg_mode /\ t.radio = s.radio /\ t.led = s.led
      /\ t.stopTimers = s.stopTimers /\ t.pingTimers = s.pingTimers
      /\ t.override = s.override
  BY DEF Inv, State
<1> HIDE DEF t
<1>2. Inv(t)
  BY <1>1 DEF Inv, Armed, Pinged, Lit, Gated
<1> QED BY <1>2 DEF t

LEMMA PresentInv ==
  ASSUME NEW s, Inv(s), NEW h \in Nat
  PROVE  Inv(present_ind(s, h))
<1>1. CASE h \in Handset
  <2> DEFINE f == [s.handset EXCEPT ![h].present = TRUE]
  <2>1. f \in [Handset -> Hset]
        /\ \A x \in Handset : f[x].pinging => s.handset[x].pinging
    <3>1. s.handset \in [Handset -> Hset]
      BY DEF Inv, State
    <3> QED BY <1>1, <3>1 DEF Hset
  <2>2. present_ind(s, h) = [s EXCEPT !.handset = f]
    BY <1>1 DEF present_ind, bad_handsetnr
  <2> HIDE DEF f
  <2> QED BY <2>1, <2>2, TableInv
<1>2. CASE h \notin Handset
  BY <1>2 DEF present_ind, bad_handsetnr
<1> QED BY <1>1, <1>2

LEMMA DeletedInv ==
  ASSUME NEW s, Inv(s), NEW h \in Nat
  PROVE  Inv(delete_registration_cfm(s, h))
<1>1. CASE h \in Handset
  <2> DEFINE e == [s.handset[h] EXCEPT !.registered = FALSE, !.present = FALSE]
             f == [s.handset EXCEPT ![h] = e]
  <2>1. f \in [Handset -> Hset]
        /\ \A x \in Handset : f[x].pinging => s.handset[x].pinging
    <3>1. s.handset \in [Handset -> Hset] /\ s.handset[h] \in Hset
      BY <1>1 DEF Inv, State
    <3>2. e \in Hset /\ e.pinging = s.handset[h].pinging
      BY <3>1 DEF Hset
    <3> HIDE DEF e
    <3> QED BY <3>1, <3>2
  <2>2. delete_registration_cfm(s, h) = [s EXCEPT !.handset = f]
    BY <1>1 DEF delete_registration_cfm, bad_handsetnr, Inv, State
  <2> HIDE DEF f
  <2> QED BY <2>1, <2>2, TableInv
<1>2. CASE h \notin Handset
  BY <1>2 DEF delete_registration_cfm, bad_handsetnr
<1> QED BY <1>1, <1>2

LEMMA ConnectInv ==
  ASSUME NEW s, Inv(s), NEW h \in Nat
  PROVE  Inv(connect_ind(s, h))
<1>1. CASE h \in Handset
  <2> DEFINE f == [s.handset EXCEPT ![h].pinging = FALSE]
  <2>1. f \in [Handset -> Hset]
        /\ \A x \in Handset : f[x].pinging => s.handset[x].pinging
    <3>1. s.handset \in [Handset -> Hset]
      BY DEF Inv, State
    <3> QED BY <1>1, <3>1 DEF Hset
  <2>2. connect_ind(s, h) = [s EXCEPT !.handset = f]
    BY <1>1 DEF connect_ind, bad_handsetnr
  <2> HIDE DEF f
  <2> QED BY <2>1, <2>2, TableInv
<1>2. CASE h \notin Handset
  BY <1>2 DEF connect_ind, bad_handsetnr
<1> QED BY <1>1, <1>2

LEMMA SetupCfmQuiet ==
  ASSUME NEW s \in State, NEW ref \in Nat
  PROVE  Quiet(s, setup_cfm(s, ref))
BY DEF State, Quiet, Keeps, setup_cfm

LEMMA CountInv ==
  ASSUME NEW s, Inv(s), NEW ok \in BOOLEAN, NEW ids \in Seq(Nat)
  PROVE  Inv(registration_count_cfm(s, ok, ids))
<1> DEFINE t == MarkRegistered(s, ids)
<1>1. Inv(t)
  <2> DEFINE f == [h \in Handset |->
                     IF \E i \in GoodPrefix(ids) : ids[i] = h
                     THEN [s.handset[h] EXCEPT !.registered = TRUE]
                     ELSE s.handset[h]]
  <2>1. f \in [Handset -> Hset]
        /\ \A x \in Handset : f[x].pinging => s.handset[x].pinging
    <3>1. s.handset \in [Handset -> Hset]
      BY DEF Inv, State
    <3>2. \A x \in Handset : f[x] \in Hset /\ f[x].pinging = s.handset[x].pinging
      BY <3>1 DEF Hset
    <3> QED BY <3>2
  <2>2. t = [s EXCEPT !.handset = f]
    BY DEF MarkRegistered
  <2> HIDE DEF f
  <2> QED BY <2>1, <2>2, TableInv
<1>2. registration_count_cfm(s, ok, ids) =
        IF ~ok THEN s
        ELSE IF GoodPrefix(ids) # 1 .. Len(ids) THEN t
        ELSE IF ids # << >> THEN write_dect(t, "GET_HANDSET_IPUI_REQ", ids[1])
        ELSE perhaps_disable_protocol(t)
  BY DEF registration_count_cfm, get_handset_ipui
<1> HIDE DEF t
<1>3. ids # << >> => Inv(write_dect(t, "GET_HANDSET_IPUI_REQ", ids[1]))
  <2> SUFFICES ASSUME ids # << >>
               PROVE  Inv(write_dect(t, "GET_HANDSET_IPUI_REQ", ids[1]))
    OBVIOUS
  <2>1. ids[1] \in Nat
    OBVIOUS
  <2> QED BY <1>1, <2>1, WriteQuiet, QuietInv DEF Inv, RequestPrims
<1> QED BY <1>1, <1>2, <1>3, PerhapsInv

LEMMA IpuiInv ==
  ASSUME NEW s, Inv(s), NEW h \in Nat, NEW ipui \in Ipuis \cup {NoIpui}
  PROVE  Inv(handset_ipui_cfm(s, h, ipui))
<1>1. CASE h \in Handset
  <2> DEFINE f == [s.handset EXCEPT ![h].ipui = ipui]
             t == [s EXCEPT !.handset = f]
  <2>1. f \in [Handset -> Hset]
        /\ \A x \in Handset : f[x].pinging => s.handset[x].pinging
    <3>1. s.handset \in [Handset -> Hset]
      BY DEF Inv, State
    <3> QED BY <1>1, <3>1 DEF Hset
  <2>2. handset_ipui_cfm(s, h, ipui) =
          IF IsRegistered(t, h + 1)
          THEN write_dect(t, "GET_HANDSET_IPUI_REQ", h + 1)
          ELSE perhaps_disable_protocol(t)
    BY <1>1 DEF handset_ipui_cfm, bad_handsetnr, get_handset_ipui
  <2>3. Inv(t)
    <3> HIDE DEF f
    <3> QED BY <2>1, TableInv
  <2> HIDE DEF t
  <2>4. Inv(write_dect(t, "GET_HANDSET_IPUI_REQ", h + 1))
    BY <2>3, WriteQuiet, QuietInv DEF Inv, RequestPrims
  <2> QED BY <2>2, <2>3, <2>4, PerhapsInv
<1>2. CASE h \notin Handset
  BY <1>2 DEF handset_ipui_cfm, bad_handsetnr
<1> QED BY <1>1, <1>2

(* A ping arms its timer in the same callback.                             *)
LEMMA PingInv ==
  ASSUME NEW s, Inv(s), NEW h \in Nat
  PROVE  Inv(ping_handset(s, h))
<1>1. CASE h \in Handset /\ s.config # DISABLED
  <2> DEFINE f == [s.handset EXCEPT ![h].pinging = TRUE]
             r == [s EXCEPT !.handset = f, !.CallReference = 1]
             w == write_dect(r, "CC_SETUP_REQ", h)
             q == Append(w.pingTimers, h)
             t == [w EXCEPT !.pingTimers = q]
  <2>1. s \in State /\ s.handset \in [Handset -> Hset]
    BY DEF Inv, State
  <2>2. f \in [Handset -> Hset]
        /\ \A x \in Handset \ {h} : f[x] = s.handset[x]
    BY <2>1, <1>1 DEF Hset
  <2>3. ping_handset(s, h) = t
    <3>1. r = [[s EXCEPT !.handset[h].pinging = TRUE] EXCEPT !.CallReference = 1]
      BY <2>1 DEF State
    <3> QED BY <1>1, <3>1 DEF ping_handset, ping_handset_start, bad_handsetnr
  <2> HIDE DEF f
  <2>4. /\ r \in State /\ r.handset = f /\ r.config = s.config
        /\ r.reg_mode = s.reg_mode /\ r.radio = s.radio /\ r.led = s.led
        /\ r.stopTimers = s.stopTimers /\ r.pingTimers = s.pingTimers
        /\ r.override = s.override
    BY <2>1, <2>2 DEF State
  <2> HIDE DEF r
  <2>5. Quiet(r, w)
    BY <2>4, WriteQuiet DEF RequestPrims
  <2> HIDE DEF w
  <2>6. q \in Seq(Handset) /\ s.pingTimers \in Seq(Handset)
        /\ q = Append(s.pingTimers, h)
    BY <1>1, <2>1, <2>4, <2>5 DEF Quiet, Keeps, State
  <2> HIDE DEF q
  <2>7. /\ t \in State /\ t.handset = f /\ t.config = s.config
        /\ t.reg_mode = s.reg_mode /\ t.radio = s.radio /\ t.led = s.led
        /\ t.stopTimers = s.stopTimers /\ t.pingTimers = q
        /\ t.override = s.override
    <3>1. w \in State
      BY <2>5 DEF Quiet, Keeps
    <3>2. /\ t \in State /\ t.handset = w.handset /\ t.config = w.config
          /\ t.reg_mode = w.reg_mode /\ t.radio = w.radio /\ t.led = w.led
          /\ t.stopTimers = w.stopTimers /\ t.pingTimers = q
          /\ t.override = w.override
      BY <3>1, <2>6 DEF State
    <3> HIDE DEF t
    <3> QED BY <3>2, <2>4, <2>5 DEF Quiet, Keeps
  <2> HIDE DEF t
  <2>8. Pinged(t)
    <3> SUFFICES ASSUME NEW x \in Handset, f[x].pinging
                 PROVE  \E i \in 1 .. Len(q) : q[i] = x
      BY <2>7 DEF Pinged
    <3>1. CASE x = h
      BY <3>1, <2>6
    <3>2. CASE x # h
      <4>1. PICK i \in 1 .. Len(s.pingTimers) : s.pingTimers[i] = x
        BY <3>2, <2>2 DEF Inv, Pinged
      <4>2. i \in 1 .. Len(q) /\ q[i] = x
        BY <4>1, <2>6
      <4> QED BY <4>2
    <3> QED BY <3>1, <3>2
  <2>9. Inv(t)
    BY <2>7, <2>8 DEF Inv, Armed, Lit, Gated
  <2> QED BY <2>3, <2>9
<1>2. CASE h \notin Handset \/ s.config = DISABLED
  BY <1>2 DEF ping_handset, bad_handsetnr
<1> QED BY <1>1, <1>2

(* The oldest ping timer belongs to a handset that ends up not pinging.    *)
LEMMA PingTimeoutInv ==
  ASSUME NEW s, Inv(s), s.pingTimers # << >>
  PROVE  Inv(ping_expired(s))
<1> DEFINE h == Head(s.pingTimers)
           q == Tail(s.pingTimers)
           r == [s EXCEPT !.pingTimers = q]
<1>1. /\ s \in State /\ s.pingTimers \in Seq(Handset)
      /\ s.handset \in [Handset -> Hset]
  BY DEF Inv, State
<1>2. h \in Handset /\ q \in Seq(Handset)
  BY <1>1
<1>3. \A x \in Handset \ {h} : s.handset[x].pinging =>
        \E i \in 1 .. Len(q) : q[i] = x
  <2> SUFFICES ASSUME NEW x \in Handset \ {h}, s.handset[x].pinging
               PROVE  \E i \in 1 .. Len(q) : q[i] = x
    OBVIOUS
  <2>1. PICK i \in 1 .. Len(s.pingTimers) : s.pingTimers[i] = x
    BY DEF Inv, Pinged
  <2>2. i - 1 \in 1 .. Len(q) /\ q[i - 1] = x
    BY <1>1, <2>1
  <2> QED BY <2>2
<1>4. ping_expired(s) = ping_handset_stop(r, h)
  BY DEF ping_expired
<1> HIDE DEF h, q
<1>5. /\ r \in State /\ r.handset = s.handset /\ r.config = s.config
      /\ r.reg_mode = s.reg_mode /\ r.radio = s.radio /\ r.led = s.led
      /\ r.stopTimers = s.stopTimers /\ r.pingTimers = q
      /\ r.override = s.override
  BY <1>1, <1>2 DEF State
<1> HIDE DEF r
<1>6. CASE ~s.handset[h].pinging
  <2>1. ping_handset_stop(r, h) = r
    BY <1>5, <1>6 DEF ping_handset_stop
  <2>2. Pinged(r)
    BY <1>3, <1>5, <1>6 DEF Pinged
  <2> QED BY <1>4, <1>5, <2>1, <2>2 DEF Inv, Armed, Lit, Gated
<1>7. CASE s.handset[h].pinging
  <2> DEFINE f == [r.handset EXCEPT ![h].pinging = FALSE]
             t == [r EXCEPT !.handset = f]
             w == write_dect(t, "CC_RELEASE_REQ", r.CallReference)
  <2>1. f \in [Handset -> Hset] /\ ~f[h].pinging
        /\ \A x \in Handset \ {h} : f[x] = s.handset[x]
    BY <1>1, <1>2, <1>5 DEF Hset
  <2>2. ping_handset_stop(r, h) = w
    BY <1>2, <1>5, <1>7 DEF ping_handset_stop, bad_handsetnr
  <2> HIDE DEF f
  <2>3. /\ t \in State /\ t.handset = f /\ t.config = r.config
        /\ t.reg_mode = r.reg_mode /\ t.radio = r.radio /\ t.led = r.led
        /\ t.stopTimers = r.stopTimers /\ t.pingTimers = r.pingTimers
        /\ t.override = r.override
    BY <1>5, <2>1 DEF State
  <2>4. r.CallReference \in Nat
    BY <1>5 DEF State
  <2> HIDE DEF t
  <2>5. Pinged(t)
    BY <1>3, <1>5, <2>1, <2>3 DEF Pinged
  <2>6. Inv(t)
    BY <1>5, <2>3, <2>5 DEF Inv, Armed, Lit, Gated
  <2>7. Quiet(t, w)
    BY <2>3, <2>4, WriteQuiet DEF RequestPrims
  <2> QED BY <1>4, <2>2, <2>6, <2>7, QuietInv
<1> QED BY <1>6, <1>7

-----------------------------------------------------------------------------
(* Dispatch.                                                               *)

LEMMA ListUnlessInv ==
  ASSUME NEW s, Inv(s)
  PROVE  Inv(ListUnlessRegistering(s))
BY InitCfmQuiet, QuietInv DEF ListUnlessRegistering, Inv

LEMMA WriteInv ==
  ASSUME NEW s, Inv(s), NEW prim \in RequestPrims, NEW arg \in Nat
  PROVE  Inv(write_dect(s, prim, arg))
BY WriteQuiet, QuietInv DEF Inv

LEMMA SwitchInv ==
  ASSUME NEW s, Inv(s), NEW switch_on \in Nat
  PROVE  Inv(ule_data_req(s, switch_on))
<1> DEFINE w == write_dect(s, "ULE_DATA_REQ", switch_on)
<1>1. Inv(w)
  BY WriteInv DEF RequestPrims
<1>2. ule_data_req(s, switch_on) =
        [w EXCEPT !.switch_state_on =
           IF switch_on \in {0, 1} THEN switch_on ELSE w.switch_state_on]
  BY DEF ule_data_req
<1> HIDE DEF w
<1>3. w \in State
  BY <1>1 DEF Inv
<1>4. Quiet(w, [w EXCEPT !.switch_state_on =
                  IF switch_on \in {0, 1} THEN switch_on ELSE w.switch_state_on])
  BY <1>3 DEF Quiet, Keeps, State
<1> QED BY <1>1, <1>2, <1>4, QuietInv

(* What the handlers may rely on in a packet.                              *)
PacketOK(p) ==
  /\ p.prim \in Prims /\ p.id \in Nat /\ p.ids \in Seq(Nat)
  /\ p.ok \in BOOLEAN /\ p.ipui \in Ipuis \cup {NoIpui}

LEMMA PacketTypes ==
  ASSUME NEW p \in Packets
  PROVE  PacketOK(p)
<1> USE DEF PacketOK
<1>1. << >> \in Seq(Nat)
  OBVIOUS
<1>2. CASE p \in [prim : Prims \ NamesTerminal, id : {0}, ids : {<< >>},
                  ok : {TRUE}, ipui : {NoIpui}]
  <2>1. p.prim \in Prims /\ p.id = 0 /\ p.ids = << >> /\ p.ipui = NoIpui
    BY <1>2
  <2>2. p.ok = TRUE
    BY <1>2
  <2>3. p.ok \in BOOLEAN
    BY <2>2, Zenon
  <2>4. p.ids \in Seq(Nat)
    BY <1>1, <2>1, Zenon
  <2>5. p.id \in Nat /\ p.ipui \in Ipuis \cup {NoIpui}
    BY <2>1
  <2> QED BY <2>1, <2>3, <2>4, <2>5, Zenon
<1>3. CASE p \in [prim : NamesTerminal, id : Terminals, ids : {<< >>},
                  ok : {TRUE}, ipui : Ipuis]
  BY <1>1, <1>3, MngrAssumption DEF Prims, NamesTerminal
<1>4. CASE p \in [prim : {"GET_REGISTRATION_COUNT_CFM"}, id : {0},
                  ids : IdLists, ok : BOOLEAN, ipui : {NoIpui}]
  BY <1>4, MngrAssumption DEF Prims
<1> QED BY <1>2, <1>3, <1>4 DEF Packets

LEMMA DectPacketInv ==
  ASSUME NEW s, Inv(s), NEW p, PacketOK(p)
  PROVE  Inv(handle_dect_packet(s, p))
<1> /\ p.prim \in Prims /\ p.id \in Nat /\ p.ids \in Seq(Nat)
    /\ p.ok \in BOOLEAN /\ p.ipui \in Ipuis \cup {NoIpui}
  BY DEF PacketOK
<1>1. CASE p.prim = "LINUX_INIT_CFM"
  <2>1. Inv(init_cfm(s))
    BY InitCfmQuiet, QuietInv DEF Inv
  <2>2. Inv(ule_start(init_cfm(s)))
    BY <2>1, WriteInv DEF ule_start, RequestPrims
  <2> QED BY <1>1, <2>2 DEF handle_dect_packet
<1>2. CASE p.prim = "CC_FEATURES_CFM"
  BY <1>2, FeaturesInv DEF handle_dect_packet
<1>3. CASE p.prim = "GET_REGISTRATION_COUNT_CFM"
  BY <1>3, CountInv DEF handle_dect_packet
<1>4. CASE p.prim = "GET_HANDSET_IPUI_CFM"
  BY <1>4, IpuiInv DEF handle_dect_packet
<1>5. CASE p.prim = "SET_REGISTRATION_MODE_CFM"
  BY <1>5, ListUnlessInv DEF handle_dect_packet
<1>6. CASE p.prim = "REGISTRATION_COMPLETE_IND"
  BY <1>6, StopWindowInv DEF handle_dect_packet, Inv
<1>7. CASE p.prim = "HANDSET_PRESENT_IND"
  BY <1>7, PresentInv, ListUnlessInv DEF handle_dect_packet
<1>8. CASE p.prim = "DELETE_REGISTRATION_CFM"
  <2>1. Inv(delete_registration_cfm(s, p.id))
    BY DeletedInv
  <2>2. Inv(list_handsets_schedule(delete_registration_cfm(s, p.id)))
    BY <2>1, ScheduleQuiet, QuietInv DEF Inv
  <2> QED BY <1>8, <2>2 DEF handle_dect_packet
<1>9. CASE p.prim = "CC_SETUP_CFM"
  BY <1>9, SetupCfmQuiet, QuietInv DEF handle_dect_packet, Inv
<1>10. CASE p.prim = "CC_CONNECT_IND"
  BY <1>10, ConnectInv DEF handle_dect_packet
<1>11. CASE p.prim = "ULE_PVC_CONFIG_IND"
  BY <1>11, WriteInv DEF handle_dect_packet, ule_pvc_config_ind, RequestPrims
<1>12. CASE p.prim = "ULE_PVC_PENDING_IND"
  BY <1>12, WriteInv
     DEF handle_dect_packet, ule_pvc_data_pending_ind, RequestPrims
<1>13. CASE p.prim = "ULE_PVC_IWU_DATA_IND"
  <2>1. Inv(write_dect(s, "ULE_PVC_IWU_DATA_REQ", p.id))
    BY WriteInv DEF RequestPrims
  <2>2. Inv(ule_pvc_data_iwu_ind(s, p.id))
    BY <2>1, WriteInv DEF ule_pvc_data_iwu_ind, RequestPrims
  <2> QED BY <1>13, <2>2 DEF handle_dect_packet
<1>14. CASE p.prim = "printed_only"
  BY <1>14 DEF handle_dect_packet
<1> QED
  BY <1>1, <1>2, <1>3, <1>4, <1>5, <1>6, <1>7, <1>8, <1>9, <1>10, <1>11,
     <1>12, <1>13, <1>14 DEF Prims

LEMMA ClientInv ==
  ASSUME NEW s, Inv(s), NEW c \in ClientPacket, NEW f \in Files
  PROVE  Inv(handle_client_packet(s, c, f))
<1> /\ c.data \in Nat
    /\ f.cfg \in {"on", "off", "auto", "bad"}
    /\ f.dev \in {"ok", "no_shim", "no_nvs"}
  <2>1. c.data \in 0 .. 255
    BY MngrAssumption DEF ClientPacket
  <2>2. c.data \in Nat
    BY <2>1
  <2>3. f \in [cfg : {"on", "off", "auto", "bad"},
               dev : {"ok", "no_shim", "no_nvs"}]
    BY MngrAssumption
  <2> QED BY <2>2, <2>3
<1>1. CASE c.type = "REGISTRATION"
  BY <1>1, RegistrationInv DEF handle_client_packet
<1>2. CASE c.type = "PING_HSET"
  BY <1>2, PingInv DEF handle_client_packet
<1>3. CASE c.type = "ZWITCH"
  BY <1>3, SwitchInv DEF handle_client_packet
<1>4. CASE c.type = "RADIO"
  <2>1. (c.data # 0) \in BOOLEAN
    OBVIOUS
  <2> QED BY <1>4, <2>1, RadioCommandInv DEF handle_client_packet
<1>5. CASE c.type = "RELOAD_CONFIG"
  BY <1>5, ReloadInv DEF handle_client_packet
<1>6. CASE c.type = "DELETE_HSET"
  BY <1>6, WriteInv DEF handle_client_packet, delete_hset, RequestPrims
<1>7. CASE c.type = "LIST_HANDSETS"
  BY <1>7, InitCfmQuiet, QuietInv DEF handle_client_packet, Inv
<1>8. CASE c.type = "ULE_START"
  BY <1>8, WriteInv DEF handle_client_packet, ule_start, RequestPrims
<1>9. CASE c.type = "INIT"
  <2>1. Inv(dect_init(s, f.dev))
    BY WriteInv, ExitQuiet, QuietInv DEF dect_init, RequestPrims, Inv
  <2> QED BY <1>9, <2>1 DEF handle_client_packet
<1>10. CASE c.type = "BUTTON"
  BY <1>10, RegistrationInv DEF handle_client_packet
<1>11. CASE c.type \notin {"REGISTRATION", "PING_HSET", "ZWITCH", "RADIO",
                          "RELOAD_CONFIG", "DELETE_HSET", "LIST_HANDSETS",
                          "ULE_START", "INIT", "BUTTON"}
  BY <1>11 DEF handle_client_packet
<1> QED
  BY <1>1, <1>2, <1>3, <1>4, <1>5, <1>6, <1>7, <1>8, <1>9, <1>10, <1>11

-----------------------------------------------------------------------------
(* The invariant of the specification.                                     *)

IInv == Inv(mngr)

LEMMA InitInv == Init => IInv
<1> SUFFICES ASSUME NEW radio \in {DISABLED, ENABLED_, AUTO},
                    mngr = init_status(radio)
             PROVE  Inv(mngr)
  BY DEF Init, IInv
<1>1. [h \in Handset |-> [registered |-> FALSE, present |-> FALSE,
                          pinging |-> FALSE, ipui |-> NoIpui]]
        \in [Handset -> Hset]
  BY DEF Hset
<1>2. << >> \in Seq(Handset) /\ << >> \in Seq(Request)
  OBVIOUS
<1>3. mngr \in State
  BY <1>1, <1>2 DEF init_status, State
<1>4. Armed(mngr) /\ Pinged(mngr) /\ Lit(mngr) /\ Gated(mngr)
  BY DEF init_status, Armed, Pinged, Lit, Gated
<1> QED BY <1>3, <1>4 DEF Inv

LEMMA CallbackInv ==
  ASSUME NEW s, Inv(s), Callback(s)
  PROVE  Inv(mngr')
BY SentQuiet, QuietInv DEF Callback, Inv

LEMMA NextInv == IInv /\ [Next]_mngr => IInv'
<1> SUFFICES ASSUME Inv(mngr), [Next]_mngr
             PROVE  Inv(mngr')
  BY DEF IInv
<1>1. CASE DectPacket
  BY <1>1, PacketTypes, DectPacketInv, CallbackInv DEF DectPacket
<1>2. CASE Client
  BY <1>2, ClientInv, CallbackInv DEF Client
<1>3. CASE ListTimeout
  BY <1>3, ListTimeoutInv, CallbackInv DEF ListTimeout
<1>4. CASE StartTimeout
  BY <1>4, DelayedStartInv, CallbackInv DEF StartTimeout
<1>5. CASE StopTimeout
  BY <1>5, StopTimeoutInv, CallbackInv DEF StopTimeout
<1>6. CASE PingTimeout
  BY <1>6, PingTimeoutInv, CallbackInv DEF PingTimeout
<1>7. CASE UNCHANGED mngr
  BY <1>7
<1> QED BY <1>1, <1>2, <1>3, <1>4, <1>5, <1>6, <1>7 DEF Next

(* Every state of the open daemon satisfies the inductive invariant.       *)
THEOREM Invariance == Spec => []IInv
BY InitInv, NextInv, PTL DEF Spec

(* The globals keep their types, whatever the stack and the clients send:  *)
(* no packet makes a handler leave the handset table or a timer unowned.   *)
THEOREM TypeCorrect == Spec => []TypeOK
<1>1. IInv => TypeOK
  BY DEF IInv, Inv, TypeOK
<1> QED BY <1>1, Invariance, PTL

(* An open registration window always has an armed timer to close it.      *)
THEOREM WindowCloses == Spec => []WindowHasTimer
<1>1. IInv => WindowHasTimer
  BY DEF IInv, Inv, WindowHasTimer, Armed
<1> QED BY <1>1, Invariance, PTL

(* A handset shown as pinging always has a timer that will stop the ping,  *)
(* however many handsets are pinged at a time.                             *)
THEOREM PingStops == Spec => []PingHasTimer
<1>1. IInv => PingHasTimer
  BY DEF IInv, Inv, PingHasTimer, Pinged
<1> QED BY <1>1, Invariance, PTL

(* The LED is in step with the radio and the registration mode.            *)
THEOREM LedInStep == Spec => []LedShowsStatus
<1>1. IInv => LedShowsStatus
  BY DEF IInv, Inv, LedShowsStatus, Lit
<1> QED BY <1>1, Invariance, PTL

(* A configuration that says off is only overridden by a RADIO command.    *)
THEOREM ConfigRules == Spec => []ConfigGatesRadio
<1>1. IInv => ConfigGatesRadio
  BY DEF IInv, Inv, ConfigGatesRadio, Gated
<1> QED BY <1>1, Invariance, PTL

-----------------------------------------------------------------------------
(* Why the radio goes off.                                                 *)

(* The radio is on in t, or there is one of the three reasons for which it *)
(* may have gone off.                                                      *)
OnOrReason(t) ==
  \/ t.radio # DISABLED \/ t.override \/ t.config = DISABLED
  \/ t.config = AUTO /\ ~AnyRegistered(t)

LEMMA WriteKeepsRadio ==
  ASSUME NEW s \in State, NEW prim, NEW arg
  PROVE  write_dect(s, prim, arg).radio = s.radio
BY DEF State, write_dect

LEMMA PerhapsReason ==
  ASSUME NEW s \in State, s.radio = ENABLED_
  PROVE  OnOrReason(perhaps_disable_protocol(s))
<1> DEFINE r == IF s.config = AUTO THEN dect_radio(s, AnyRegistered(s)) ELSE s
           t == control_led(r)
<1>1. AnyRegistered(s) \in BOOLEAN
  BY DEF AnyRegistered
<1>2. /\ Keeps(s, r)
      /\ r.radio = DISABLED => s.config = AUTO /\ ~AnyRegistered(s)
  BY <1>1, RadioEffect DEF Keeps
<1>3. perhaps_disable_protocol(s) = t
  BY DEF perhaps_disable_protocol
<1> HIDE DEF r
<1>4. Keeps(r, t) /\ t.radio = r.radio
  BY <1>2, LedEffect DEF Keeps
<1> HIDE DEF t
<1>5. t.config = s.config /\ t.handset = s.handset
  BY <1>2, <1>4 DEF Keeps
<1>6. AnyRegistered(t) <=> AnyRegistered(s)
  BY <1>5 DEF AnyRegistered
<1> QED BY <1>2, <1>3, <1>4, <1>5, <1>6 DEF OnOrReason

(* Registration never switches the radio off.                              *)
LEMMA RegistrationReason ==
  ASSUME NEW s \in State, s.radio = ENABLED_
  PROVE  registration(s).radio = ENABLED_
<1> DEFINE t == register_handsets_start(s)
<1>1. t \in State /\ t.radio = ENABLED_
  BY StartWindowEffect
<1>2. registration(s) =
        IF s.config = DISABLED \/ s.reg_mode = ENABLED_ THEN s
        ELSE [t EXCEPT !.stopTimers = @ + 1]
  BY DEF registration
<1> HIDE DEF t
<1>3. [t EXCEPT !.stopTimers = @ + 1].radio = ENABLED_
  BY <1>1 DEF State
<1> QED BY <1>2, <1>3

LEMMA StopWindowReason ==
  ASSUME NEW s \in State
  PROVE  register_handsets_stop(s).radio = s.radio
<1> DEFINE r == [s EXCEPT !.reg_mode = DISABLED]
           t == control_led(r)
<1>1. r \in State /\ r.radio = s.radio
  BY DEF State
<1> HIDE DEF r
<1>2. t \in State /\ t.radio = s.radio
  BY <1>1, LedEffect DEF Keeps
<1>3. register_handsets_stop(s) =
        IF t.radio = ENABLED_
        THEN write_dect(t, "SET_REGISTRATION_MODE_REQ", 0) ELSE t
  BY DEF register_handsets_stop, r
<1> HIDE DEF t
<1> QED BY <1>2, <1>3, WriteKeepsRadio

LEMMA PacketReason ==
  ASSUME NEW s, Inv(s), s.radio = ENABLED_, NEW p, PacketOK(p)
  PROVE  OnOrReason(handle_dect_packet(s, p))
<1> DEFINE t == handle_dect_packet(s, p)
<1> s \in State
  BY DEF Inv
<1> p.prim \in Prims
  BY DEF PacketOK
<1> SUFFICES t.radio = s.radio \/ OnOrReason(t)
  BY DEF OnOrReason
<1>1. CASE p.prim = "LINUX_INIT_CFM"
  <2>1. init_cfm(s) \in State /\ init_cfm(s).radio = s.radio
    BY InitCfmQuiet DEF Quiet, Keeps
  <2> QED BY <1>1, <2>1, WriteKeepsRadio DEF handle_dect_packet, ule_start
<1>2. CASE p.prim = "CC_FEATURES_CFM"
  <2>1. features_cfm(s) = write_dect(s, "GET_REGISTRATION_COUNT_REQ", 0)
    BY DEF features_cfm, list_handsets, dect_radio
  <2> QED BY <1>2, <2>1, WriteKeepsRadio DEF handle_dect_packet
<1>3. CASE p.prim = "GET_REGISTRATION_COUNT_CFM"
  <2> DEFINE m == MarkRegistered(s, p.ids)
  <2>1. m \in State /\ m.radio = s.radio
    <3>0. s.handset \in [Handset -> Hset]
      BY DEF State
    <3>1. \A h \in Handset : s.handset[h] \in Hset
                              /\ [s.handset[h] EXCEPT !.registered = TRUE] \in Hset
      BY <3>0 DEF Hset
    <3>2. [h \in Handset |->
             IF \E i \in GoodPrefix(p.ids) : p.ids[i] = h
             THEN [s.handset[h] EXCEPT !.registered = TRUE] ELSE s.handset[h]]
            \in [Handset -> Hset]
      BY <3>1
    <3> QED BY <3>2 DEF MarkRegistered, State
  <2>2. t = IF ~p.ok THEN s
            ELSE IF GoodPrefix(p.ids) # 1 .. Len(p.ids) THEN m
            ELSE IF p.ids # << >> THEN write_dect(m, "GET_HANDSET_IPUI_REQ", p.ids[1])
            ELSE perhaps_disable_protocol(m)
    BY <1>3 DEF handle_dect_packet, registration_count_cfm, get_handset_ipui
  <2> HIDE DEF m
  <2> QED BY <2>1, <2>2, WriteKeepsRadio, PerhapsReason
<1>4. CASE p.prim = "GET_HANDSET_IPUI_CFM"
  <2>1. CASE p.id \in Handset
    <3> DEFINE m == [s EXCEPT !.handset[p.id].ipui = p.ipui]
    <3>1. m \in State /\ m.radio = s.radio
      <4>1. s.handset \in [Handset -> Hset] /\ s.handset[p.id] \in Hset
        BY <2>1 DEF State
      <4>2. [s.handset[p.id] EXCEPT !.ipui = p.ipui] \in Hset
        BY <4>1 DEF Hset, PacketOK
      <4>3. [s.handset EXCEPT ![p.id].ipui = p.ipui] \in [Handset -> Hset]
        BY <4>1, <4>2
      <4> QED BY <4>3 DEF State
    <3>2. t = IF IsRegistered(m, p.id + 1)
              THEN write_dect(m, "GET_HANDSET_IPUI_REQ", p.id + 1)
              ELSE perhaps_disable_protocol(m)
      BY <1>4, <2>1 DEF handle_dect_packet, handset_ipui_cfm, bad_handsetnr, get_handset_ipui
    <3> HIDE DEF m
    <3> QED BY <3>1, <3>2, WriteKeepsRadio, PerhapsReason
  <2>2. CASE p.id \notin Handset
    BY <1>4, <2>2 DEF handle_dect_packet, handset_ipui_cfm, bad_handsetnr
  <2> QED BY <2>1, <2>2
<1>5. CASE p.prim = "SET_REGISTRATION_MODE_CFM"
  BY <1>5, InitCfmQuiet DEF handle_dect_packet, ListUnlessRegistering, Quiet
<1>6. CASE p.prim = "REGISTRATION_COMPLETE_IND"
  BY <1>6, StopWindowReason DEF handle_dect_packet
<1>7. CASE p.prim = "HANDSET_PRESENT_IND"
  <2>1. present_ind(s, p.id) \in State /\ present_ind(s, p.id).radio = s.radio
    BY PresentInv DEF PacketOK, Inv, State, present_ind
  <2> QED
    BY <1>7, <2>1, InitCfmQuiet DEF handle_dect_packet, ListUnlessRegistering, Quiet
<1>8. CASE p.prim = "DELETE_REGISTRATION_CFM"
  <2> DEFINE d == delete_registration_cfm(s, p.id)
  <2>1. d \in State
    BY DeletedInv DEF PacketOK, Inv
  <2>2. d.radio = s.radio
    BY DEF State, delete_registration_cfm
  <2> HIDE DEF d
  <2> QED BY <1>8, <2>1, <2>2, ScheduleQuiet DEF handle_dect_packet, Quiet, d
<1>9. CASE p.prim \in {"CC_SETUP_CFM", "CC_CONNECT_IND", "printed_only"}
  BY <1>9 DEF handle_dect_packet, setup_cfm, connect_ind, State
<1>10. CASE p.prim \in {"ULE_PVC_CONFIG_IND", "ULE_PVC_PENDING_IND"}
  BY <1>10, WriteKeepsRadio
     DEF handle_dect_packet, ule_pvc_config_ind, ule_pvc_data_pending_ind
<1>11. CASE p.prim = "ULE_PVC_IWU_DATA_IND"
  <2>1. /\ write_dect(s, "ULE_PVC_IWU_DATA_REQ", p.id) \in State
        /\ write_dect(s, "ULE_PVC_IWU_DATA_REQ", p.id).radio = s.radio
    BY WriteQuiet DEF PacketOK, RequestPrims, Quiet, Keeps
  <2> QED BY <1>11, <2>1, WriteKeepsRadio DEF handle_dect_packet, ule_pvc_data_iwu_ind
<1> QED
  BY <1>1, <1>2, <1>3, <1>4, <1>5, <1>6, <1>7, <1>8, <1>9, <1>10, <1>11 DEF Prims

LEMMA ClientReason ==
  ASSUME NEW s, Inv(s), s.radio = ENABLED_, NEW c \in ClientPacket, NEW f \in Files
  PROVE  OnOrReason(handle_client_packet(s, c, f))
<1> DEFINE t == handle_client_packet(s, c, f)
<1> s \in State
  BY DEF Inv
<1> c.data \in Nat /\ f.cfg \in {"on", "off", "auto", "bad"}
                   /\ f.dev \in {"ok", "no_shim", "no_nvs"}
  <2>1. c.data \in 0 .. 255
    BY MngrAssumption DEF ClientPacket
  <2>2. f \in [cfg : {"on", "off", "auto", "bad"},
               dev : {"ok", "no_shim", "no_nvs"}]
    BY MngrAssumption
  <2> QED BY <2>1, <2>2
<1> SUFFICES t.radio = s.radio \/ OnOrReason(t)
  BY DEF OnOrReason
<1>1. CASE c.type \in {"REGISTRATION", "BUTTON"}
  BY <1>1, RegistrationReason DEF handle_client_packet
<1>2. CASE c.type = "PING_HSET"
  <2>1. ping_handset(s, c.data).radio = s.radio
    BY DEF ping_handset, ping_handset_start, write_dect, State
  <2> QED BY <1>2, <2>1 DEF handle_client_packet
<1>3. CASE c.type = "ZWITCH"
  <2>1. ule_data_req(s, c.data).radio = s.radio
    BY DEF ule_data_req, write_dect, State
  <2> QED BY <1>3, <2>1 DEF handle_client_packet
<1>4. CASE c.type = "RADIO"
  <2> DEFINE r == dect_radio(s, c.data # 0)
  <2>1. r \in State
    BY RadioEffect DEF Keeps
  <2>2. t = [r EXCEPT !.override = @ \/ r.radio # s.radio]
    BY <1>4 DEF handle_client_packet
  <2> HIDE DEF r
  <2>3. t.radio = r.radio /\ t.override = (r.override \/ r.radio # s.radio)
    BY <2>1, <2>2 DEF State
  <2> HIDE DEF t
  <2> QED BY <2>3 DEF OnOrReason
<1>5. CASE c.type = "RELOAD_CONFIG"
  <2>0. t = reload_config(s, f.cfg)
    BY <1>5 DEF handle_client_packet
  <2>1. CASE f.cfg = "bad"
    BY <2>0, <2>1, ExitQuiet DEF reload_config, Quiet
  <2>2. CASE f.cfg # "bad"
    <3> DEFINE u == [s EXCEPT !.config = CfgRadio(f.cfg)]
    <3>1. u \in State /\ u.config = CfgRadio(f.cfg) /\ u.radio = s.radio
      BY DEF State, CfgRadio
    <3>2. t = CASE u.config = ENABLED_ -> list_handsets_schedule(dect_radio(u, TRUE))
                [] u.config = AUTO     -> init_cfm(u)
                [] u.config = DISABLED -> dect_radio(u, FALSE)
      BY <2>0, <2>2 DEF reload_config
    <3> HIDE DEF u
    <3>3. CASE u.config = ENABLED_
      <4>1. dect_radio(u, TRUE) = u
        BY <3>1 DEF dect_radio
      <4> QED BY <3>1, <3>2, <3>3, <4>1, ScheduleQuiet DEF Quiet
    <3>4. CASE u.config = AUTO
      BY <3>1, <3>2, <3>4, InitCfmQuiet DEF Quiet
    <3>5. CASE u.config = DISABLED
      <4>1. t = dect_radio(u, FALSE)
        BY <3>2, <3>5
      <4>2. dect_radio(u, FALSE).config = DISABLED
        BY <3>1, <3>5, RadioEffect DEF Keeps
      <4> HIDE DEF t
      <4> QED BY <4>1, <4>2 DEF OnOrReason
    <3> QED BY <3>1, <3>3, <3>4, <3>5 DEF CfgRadio
  <2> QED BY <2>1, <2>2
<1>6. CASE c.type \in {"DELETE_HSET", "ULE_START"}
  BY <1>6, WriteKeepsRadio DEF handle_client_packet, delete_hset, ule_start
<1>7. CASE c.type = "LIST_HANDSETS"
  BY <1>7, InitCfmQuiet DEF handle_client_packet, Quiet
<1>8. CASE c.type = "INIT"
  <2>1. dect_init(s, f.dev).radio = s.radio
    BY WriteKeepsRadio, ExitQuiet DEF dect_init, Quiet
  <2> QED BY <1>8, <2>1 DEF handle_client_packet
<1>9. CASE c.type \notin {"REGISTRATION", "BUTTON", "PING_HSET", "ZWITCH", "RADIO",
                         "RELOAD_CONFIG", "DELETE_HSET", "ULE_START",
                         "LIST_HANDSETS", "INIT"}
  BY <1>9 DEF handle_client_packet
<1> QED BY <1>1, <1>2, <1>3, <1>4, <1>5, <1>6, <1>7, <1>8, <1>9

(* A timer never switches the radio off.                                   *)
LEMMA TimerReason ==
  ASSUME NEW s, Inv(s), s.radio = ENABLED_
  PROVE  /\ list_expired(s).radio = ENABLED_
         /\ s.startTimers > 0 => start_expired(s).radio = ENABLED_
         /\ s.stopTimers > 0 => stop_expired(s).radio = ENABLED_
         /\ ping_expired(s).radio = ENABLED_
<1> s \in State
  BY DEF Inv
<1>1. list_expired(s).radio = ENABLED_
  BY DEF list_expired, init_cfm, write_dect, State
<1>2. ASSUME s.startTimers > 0
      PROVE  start_expired(s).radio = ENABLED_
  <2> DEFINE r == [s EXCEPT !.startTimers = @ - 1]
  <2>1. r \in State /\ r.radio = ENABLED_
    <3>1. s.startTimers - 1 \in Nat
      BY <1>2 DEF State
    <3> QED BY <3>1 DEF State
  <2>2. start_expired(s) = IF r.reg_mode = DELAYED_START THEN registration(r) ELSE r
    BY DEF start_expired, registration_delayed_start
  <2> HIDE DEF r
  <2> QED BY <2>1, <2>2, RegistrationReason
<1>3. ASSUME s.stopTimers > 0
      PROVE  stop_expired(s).radio = ENABLED_
  <2> DEFINE r == [s EXCEPT !.stopTimers = @ - 1]
  <2>1. r \in State /\ r.radio = ENABLED_
    <3>1. s.stopTimers - 1 \in Nat
      BY <1>3 DEF State
    <3> QED BY <3>1 DEF State
  <2>2. stop_expired(s) = register_handsets_stop(r)
    BY DEF stop_expired
  <2> HIDE DEF r
  <2> QED BY <2>1, <2>2, StopWindowReason
<1>4. ping_expired(s).radio = ENABLED_
  BY DEF ping_expired, ping_handset_stop, write_dect, State
<1> QED BY <1>1, <1>2, <1>3, <1>4

LEMMA SentReason ==
  ASSUME NEW t \in State, OnOrReason(t)
  PROVE  OnOrReason(Sent(t))
<1>1. Quiet(t, Sent(t))
  BY SentQuiet
<1>2. AnyRegistered(Sent(t)) <=> AnyRegistered(t)
  BY <1>1 DEF Quiet, Keeps, AnyRegistered
<1> QED BY <1>1, <1>2 DEF Quiet, Keeps, OnOrReason

(* The radio goes off for three reasons only: a RADIO command, the         *)
(* configuration, or auto mode with no handset registered.  No listing,    *)
(* registration, ping, button or timer of its own switches it off.         *)
THEOREM RadioGoesOffForReason == Spec => RadioOffHasReason
<1>1. ASSUME IInv, [Next]_mngr, mngr.radio = ENABLED_
      PROVE  OnOrReason(mngr')
  <2> Inv(mngr)
    BY <1>1 DEF IInv
  <2>1. ASSUME NEW t, Inv(t), OnOrReason(t), Callback(t)
        PROVE  OnOrReason(mngr')
    BY <2>1, SentReason DEF Callback, Inv
  <2>2. CASE DectPacket
    BY <1>1, <2>1, <2>2, PacketTypes, DectPacketInv, PacketReason DEF DectPacket
  <2>3. CASE Client
    BY <1>1, <2>1, <2>3, ClientInv, ClientReason DEF Client
  <2>4. CASE ListTimeout
    BY <1>1, <2>1, <2>4, ListTimeoutInv, TimerReason DEF ListTimeout, OnOrReason
  <2>5. CASE StartTimeout
    BY <1>1, <2>1, <2>5, DelayedStartInv, TimerReason DEF StartTimeout, OnOrReason
  <2>6. CASE StopTimeout
    BY <1>1, <2>1, <2>6, StopTimeoutInv, TimerReason DEF StopTimeout, OnOrReason
  <2>7. CASE PingTimeout
    BY <1>1, <2>1, <2>7, PingTimeoutInv, TimerReason DEF PingTimeout, OnOrReason
  <2>8. CASE UNCHANGED mngr
    BY <1>1, <2>8 DEF OnOrReason
  <2> QED BY <1>1, <2>2, <2>3, <2>4, <2>5, <2>6, <2>7, <2>8 DEF Next
<1>2. IInv /\ [Next]_mngr =>
        [mngr.radio = ENABLED_ /\ mngr'.radio = DISABLED =>
           \/ mngr'.override
           \/ mngr'.config = DISABLED
           \/ mngr'.config = AUTO /\ ~AnyRegistered(mngr')]_mngr
  BY <1>1 DEF OnOrReason
<1> QED BY <1>2, Invariance, PTL DEF Spec, RadioOffHasReason
=============================================================================
