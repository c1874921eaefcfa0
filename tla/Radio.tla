------------------------------- MODULE Radio --------------------------------
(***************************************************************************)
(* The receiver settings of the ESP (esp32s3/src/radio.c) and the analog   *)
(* hardware they are written to.  A setting hands the gain stages back,    *)
(* tunes the PLL if it must, and configures the whole receive path again;  *)
(* each function of that sequence is an action.  A PBUS write may time     *)
(* out, whether or not it took effect; the PLL may not calibrate or lock;  *)
(* the conversion mode may not read back.  A setting that fails is undone  *)
(* by the same sequence, which may fail as well.                           *)
(*                                                                         *)
(* Settings: "lo"; "front" for rate, width, filter and gain selector,      *)
(* which are written and nothing more; "stage" for the two gain stage      *)
(* words; "iq"; and the DC offset registers by name.                       *)
(***************************************************************************)
EXTENDS Integers, Sequences

CONSTANTS PllMin, PllMax,       \* ESP32S3_PLL_MIN_HZ, ESP32S3_PLL_MAX_HZ
          LoMin,                \* ESP32S3_LO_MIN_HZ, ceil(PLL_MIN * 5/6)
          NormalStep, FiveSixthsStep, Parts,    \* step_hz and 65536
          DcNames,              \* the DC offset registers in order, <<"dc0", ...>>
          LastCap,              \* the highest VCO capacitor code (511)
          LockPatterns,         \* the sets of codes at which the PLL may lock
          StageOf(_),           \* stage words the AGC table selects for a "front"
          Boot,                 \* the settings at power-up
          Automatic,            \* ESP_AUTO, ESP_DC_AUTO
          OutOfRange,           \* a value its setting does not allow
          MaxFaults             \* bound: hardware failures in a behaviour

Caps == 0 .. LastCap
Registers == {DcNames[i] : i \in DOMAIN DcNames}

ASSUME RadioAssumption ==
    /\ {PllMin, PllMax, LoMin} \subseteq Nat /\ {NormalStep, FiveSixthsStep, Parts} \subseteq Nat \ {0}
    /\ LoMin <= PllMin /\ PllMin <= PllMax
    /\ LastCap \in Nat /\ LockPatterns \subseteq SUBSET Caps /\ MaxFaults \in Nat
    /\ DcNames \in Seq(STRING)

VARIABLES
    settings, previous,     \* requested settings; the same before this change
    receiver,               \* the receiver as configured
    phase, trying, retune,  \* where reconfigure is, for whom, and whether it tunes
    hw,                     \* the analog hardware
    reply,                  \* what radio_set returned last
    faults

radio == <<settings, previous, receiver, phase, trying, retune, hw, reply, faults>>

OK == "ok"
Codes(c) == [r \in Registers |-> c]
NotLocked == [lo |-> 0, cap |-> 0, locked |-> {}]

RadioInit ==
    /\ settings = Boot /\ previous = Boot
    /\ receiver = [status |-> OK, lo |-> 0, mode |-> "normal", owned |-> FALSE, iq_register |-> Automatic,
                   dc |-> Codes(0), dc_hardware |-> Codes(0)]
    /\ phase = "power_up" /\ trying = "boot" /\ retune = TRUE
    /\ hw = [pll |-> NotLocked, mode |-> "normal", front |-> Boot["front"], stage |-> Automatic,
             dc |-> Codes(Automatic), iq |-> Automatic]
    /\ reply = "none" /\ faults = 0

-----------------------------------------------------------------------------
(* esp32s3_plan_lo: the conversion and the nearest LO it can produce.      *)
Divided(n, d) == (n + d \div 2) \div d
Mode(hz) == IF hz < PllMin THEN "5/6" ELSE "normal"
Plan(hz) ==
    LET step == IF Mode(hz) = "normal" THEN NormalStep ELSE FiveSixthsStep
    IN  [lo |-> Divided(step * Divided(hz * Parts, step), Parts), mode |-> Mode(hz)]

(* The scan over the capacitor codes: the longest run that locked.         *)
LaterToo(scan) == scan.length + 1 >= 1      \* mutant: the last run wins
Longer(scan) == scan.length + 1 > scan.best_length
ScanCode(locked, scan, cap) ==
    LET start == IF scan.length = 0 THEN cap ELSE scan.start
        grown == [scan EXCEPT !.start = start, !.length = @ + 1]
    IN  IF cap \notin locked THEN [scan EXCEPT !.length = 0]
        ELSE IF Longer(scan) THEN [grown EXCEPT !.best = start, !.best_length = grown.length]
        ELSE grown
Scan(locked) ==
    LET before[cap \in 0 .. LastCap + 1] ==
            IF cap = 0 THEN [start |-> 0, length |-> 0, best |-> 0, best_length |-> 0]
            ELSE ScanCode(locked, before[cap - 1], cap - 1)
    IN  before[LastCap + 1]
Pinned(locked) == Scan(locked).best + (Scan(locked).best_length - 1) \div 2

-----------------------------------------------------------------------------
(* A step of the hardware that may fail.                                   *)
Outcomes == IF faults < MaxFaults THEN BOOLEAN ELSE {TRUE}
Counted(ok) == faults' = faults + (IF ok THEN 0 ELSE 1)

Proceed(place) == phase' = place /\ UNCHANGED <<settings, trying, retune, reply>>

(* reconfigure returns `status'; radio_init and radio_set go on.  A failed *)
(* setting is undone, with a retune whatever has failed.                   *)
TuningKept == FALSE     \* mutant: undoes without tuning again
UndoTuning == TRUE
Conclude(status) ==
    IF trying = "set" /\ status # OK
    THEN /\ settings' = previous /\ trying' = "undo" /\ retune' = UndoTuning
         /\ phase' = "release" /\ UNCHANGED reply
    ELSE /\ phase' = "idle"
         /\ reply' = CASE trying = "set" -> "ok" [] trying = "undo" -> "failed" [] OTHER -> reply
         /\ trying' = "none" /\ retune' = FALSE /\ UNCHANGED settings

(* radio_init; calibrate_phy is the vendor's.                              *)
PowerUp ==
    /\ phase = "power_up"
    /\ \E ok \in Outcomes :
        /\ Counted(ok)
        /\ receiver' = [receiver EXCEPT !.status = IF ok THEN OK ELSE "phy_failed"]
        /\ Proceed(IF ok THEN "release" ELSE "idle")
    /\ UNCHANGED <<previous, hw>>

(* release_receiver: the DC codes that were changed, each tried, then the  *)
(* stages, then the control registers.                                     *)
Kept == hw.iq           \* mutant: the I/Q correction is not handed back
HandedBack == receiver.iq_register
Release ==
    /\ phase = "release"
    /\ IF ~receiver.owned
       THEN Proceed(IF retune THEN "tune" ELSE "configure") /\ UNCHANGED <<receiver, hw, faults>>
       ELSE \E ok \in Outcomes, landed \in SUBSET Registers :
            LET changed == {r \in Registers : receiver.dc[r] # receiver.dc_hardware[r]} IN
            /\ Counted(ok) /\ landed \subseteq changed /\ (ok => landed = changed)
            /\ hw' = [hw EXCEPT
                   !.dc = [r \in Registers |-> IF r \in landed THEN receiver.dc_hardware[r] ELSE @[r]],
                   !.iq = HandedBack, !.stage = Automatic]
            /\ receiver' = [receiver EXCEPT !.owned = FALSE, !.status = IF ok THEN @ ELSE "pbus_failed"]
            /\ IF ok THEN Proceed(IF retune THEN "tune" ELSE "configure") ELSE Conclude("pbus_failed")
    /\ UNCHANGED previous

(* tune_pll: the plan is kept before anything can fail.                    *)
Tune ==
    /\ phase = "tune"
    /\ \E ok \in Outcomes, locked \in LockPatterns :
        LET plan == Plan(settings["lo"]) IN
        /\ (locked = {} => ~ok) /\ Counted(ok)
        /\ receiver' = [receiver EXCEPT !.lo = plan.lo, !.mode = plan.mode,
                                        !.status = IF ok THEN @ ELSE "pll_failed"]
        /\ hw' = [hw EXCEPT !.mode = "normal",
                            !.pll = IF ok THEN [lo |-> plan.lo, cap |-> Pinned(locked), locked |-> locked]
                                    ELSE NotLocked]
        /\ IF ok THEN Proceed("configure") ELSE Conclude("pll_failed")
    /\ UNCHANGED previous

(* configure_receiver.  A failure of the first writes reaches no register; *)
(* one of a DC code leaves those after it.  The receiver is owned anyway.  *)
Manual(r) == settings[r] # Automatic /\ settings[r] # hw.dc[r]
Stage == IF settings["stage"] = Automatic THEN StageOf(settings["front"]) ELSE settings["stage"]
Correction == IF settings["iq"] = Automatic THEN hw.iq ELSE settings["iq"]
Configure ==
    /\ phase = "configure"
    /\ \E ok \in Outcomes, last \in 0 .. Len(DcNames), landed \in BOOLEAN :
        LET reached == {DcNames[i] : i \in 1 .. last}
            manual  == {r \in reached : Manual(r)}
            missed  == IF ok \/ landed \/ last = 0 THEN {} ELSE {DcNames[last]} IN
        /\ ok => landed /\ last = Len(DcNames)
        /\ ~ok /\ last > 0 => DcNames[last] \in manual
        /\ Counted(ok)
        /\ receiver' = [receiver EXCEPT
               !.owned = TRUE, !.iq_register = hw.iq,
               !.dc = [r \in Registers |-> IF r \in manual THEN settings[r]
                                           ELSE IF r \in reached THEN hw.dc[r] ELSE 0],
               !.dc_hardware = [r \in Registers |-> IF r \in reached THEN hw.dc[r] ELSE 0],
               !.status = IF ok THEN @ ELSE "pbus_failed"]
        /\ hw' = [hw EXCEPT
               !.front = settings["front"], !.stage = IF ok THEN Stage ELSE Automatic, !.iq = Correction,
               !.dc = [r \in Registers |-> IF r \in manual \ missed THEN settings[r] ELSE @[r]]]
        /\ IF ok THEN Proceed("mode") ELSE Conclude("pbus_failed")
    /\ UNCHANGED previous

(* The end of reconfigure: the conversion is selected and read back.       *)
SelectMode ==
    /\ phase = "mode"
    /\ \E ok \in Outcomes :
        /\ Counted(ok)
        /\ hw' = [hw EXCEPT !.mode = IF ok THEN receiver.mode ELSE @]
        /\ receiver' = [receiver EXCEPT !.status = IF ok THEN OK ELSE "pll_failed"]
        /\ Conclude(receiver'.status)
    /\ UNCHANGED previous

(* radio_set: the checks, the new setting and the decision to tune.        *)
Valid(op, value) == IF op = "lo" THEN value \in LoMin .. PllMax ELSE value # OutOfRange
Retunes(op, value) == (op = "lo" /\ value # settings["lo"]) \/ receiver.status = "pll_failed"
RadioSet(op, value) ==
    /\ phase = "idle"
    /\ IF ~Valid(op, value) \/ receiver.status = "phy_failed"
       THEN /\ reply' = IF Valid(op, value) THEN "not_ready" ELSE "bad_argument"
            /\ UNCHANGED <<settings, previous, phase, trying, retune>>
       ELSE /\ previous' = settings
            /\ settings' = [settings EXCEPT ![op] = value]
            /\ trying' = "set" /\ retune' = Retunes(op, value) /\ phase' = "release"
            /\ UNCHANGED reply
    /\ UNCHANGED <<receiver, hw, faults>>

Reconfiguring == PowerUp \/ Release \/ Tune \/ Configure \/ SelectMode

-----------------------------------------------------------------------------
Ready == phase = "idle" /\ receiver.status = OK

(* When the radio reports OK the PLL is locked at the LO it reports, in    *)
(* the conversion it reports, and the capacitor is pinned where the lock   *)
(* is widest on both sides - although a tune that failed leaves the new LO *)
(* in its report (radio.c 146-215, 341-358).                               *)
Margin(locked, c) ==
    CHOOSE m \in 0 .. LastCap + 1 :
        /\ \A d \in c - m + 1 .. c + m - 1 : d \in locked
        /\ \E d \in {c - m, c + m} : d \notin locked
LockedAsReported ==
    Ready => /\ hw.pll.lo = receiver.lo /\ hw.mode = receiver.mode
             /\ hw.pll.cap \in hw.pll.locked
             /\ \A c \in Caps : Margin(hw.pll.locked, c) <= Margin(hw.pll.locked, hw.pll.cap)

(* When the radio reports OK every other setting is in effect: a manual    *)
(* one as it was asked for, an automatic one as the hardware has it, also  *)
(* after manual ones and after settings that failed half way.              *)
InEffect ==
    Ready => /\ hw.front = settings["front"]
             /\ hw.stage = Stage
             /\ hw.iq = settings["iq"]
             /\ \A r \in Registers : /\ settings[r] # Automatic => hw.dc[r] = settings[r]
                                     /\ receiver.dc[r] = hw.dc[r]

(* A setting that failed and left the radio OK changed nothing: the        *)
(* settings, the LO among them, are in effect as they were (control.h      *)
(* 58-59).                                                                 *)
FailedKeeps ==
    Ready /\ reply = "failed" =>
        /\ settings = previous
        /\ hw.pll.lo = Plan(previous["lo"]).lo

(* A radio that reports OK is what it reports, whatever failed before, and *)
(* a setting that failed has changed none of it.                           *)
SettingsInForce == LockedAsReported /\ InEffect /\ FailedKeeps

(* "A setting that is refused (bad argument) or fails (CTL_FAILED) leaves  *)
(* the previous configuration" (protocol/control.h 58-59; receiver.cpp     *)
(* 126: "the previous LO is kept"): whenever the radio reports OK it is    *)
(* tuned to the LO that was asked for.                                     *)
LoAsSet == Ready => hw.pll.lo = Plan(settings["lo"]).lo
=============================================================================
