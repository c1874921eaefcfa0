---------------------------- MODULE ServeProofs -----------------------------
(***************************************************************************)
(* Whatever the hardware refuses, in whatever order, a radio that reports  *)
(* OK is what it reports, for any frequencies, registers, stage table and  *)
(* lock patterns and any number of failures.  A status of OK says nothing  *)
(* by itself: the receiver may have been left half written many settings   *)
(* ago.  What carries the argument through the failures is that the PLL is *)
(* where the receiver says whenever the gain stages are held, and that     *)
(* only a setting that tunes again may lose it.                            *)
(***************************************************************************)
EXTENDS Serve, SequenceTheorems, TLAPS

\* Any request may come at any time; no request of a type is left out.
Requests == \E op \in DOMAIN Boot : \E value : RadioSet(op, value)
RadioSpec == RadioInit /\ [][Reconfiguring \/ Requests]_radio

-----------------------------------------------------------------------------
Places == {"power_up", "release", "tune", "configure", "mode", "idle"}
Shaped ==
    /\ receiver = [status |-> receiver.status, lo |-> receiver.lo, mode |-> receiver.mode,
                   owned |-> receiver.owned, iq_register |-> receiver.iq_register,
                   dc |-> receiver.dc, dc_hardware |-> receiver.dc_hardware]
    /\ hw = [pll |-> hw.pll, mode |-> hw.mode, front |-> hw.front, stage |-> hw.stage,
             dc |-> hw.dc, iq |-> hw.iq]
    /\ phase \in Places /\ retune \in BOOLEAN /\ receiver.owned \in BOOLEAN

\* Who the sequence runs for: a boot that answers nobody, a setting, or the
\* undoing of one, which has the settings back and tunes again.
ForWhom ==
    /\ phase # "idle" => trying \in {"boot", "set", "undo"}
    /\ phase = "power_up" => trying = "boot" /\ retune
    /\ trying = "boot" => reply # "failed"
    /\ trying = "undo" => settings = previous /\ (phase = "release" => retune)
    /\ phase = "idle" /\ reply = "failed" => settings = previous

\* The stages are held from configure to the next release, and the I/Q
\* register that is handed back is the automatic one.
HandedOver ==
    /\ receiver.iq_register = Automatic
    /\ phase \in {"power_up", "tune", "configure"} => ~receiver.owned
    /\ ~receiver.owned => hw.iq = Automatic

\* Where the PLL is what the receiver says, though a failed setting that did
\* not come to tune, or one that tunes again, may lie between.
PllKnown ==
    \/ receiver.owned
    \/ phase \in {"configure", "mode"}
    \/ phase = "release" /\ ~retune
    \/ phase = "idle" /\ receiver.status \notin {"pll_failed", "phy_failed"}
Pinning ==
    /\ hw.pll.lo = receiver.lo
    /\ hw.pll.locked \in LockPatterns \ {{}}
    /\ hw.pll.cap = Pinned(hw.pll.locked)
Tuned ==
    /\ PllKnown => Pinning
    /\ Ready => hw.mode = receiver.mode
    /\ trying = "undo" /\ phase \in {"configure", "mode"} => hw.pll.lo = Plan(settings["lo"]).lo
    /\ Ready /\ reply = "failed" => hw.pll.lo = Plan(settings["lo"]).lo

Written ==
    /\ hw.front = settings["front"]
    /\ hw.stage = Stage
    /\ hw.iq = settings["iq"]
    /\ \A r \in Registers : /\ settings[r] # Automatic => hw.dc[r] = settings[r]
                            /\ receiver.dc[r] = hw.dc[r]
InForce == phase = "mode" \/ Ready => Written

RadioInv == Shaped /\ ForWhom /\ HandedOver /\ Tuned /\ InForce

\* What the scan is for, of the patterns at which the PLL may lock: a fact of
\* the definition of Scan alone.
ScanFindsWidest ==
    \A locked \in LockPatterns \ {{}} :
        /\ Pinned(locked) \in locked
        /\ \A c \in Caps : Margin(locked, c) <= Margin(locked, Pinned(locked))

-----------------------------------------------------------------------------
\* Undoing always tunes; a setting that is not undone ends the sequence.
LEMMA Concluding ==
    ASSUME NEW status, Conclude(status)
    PROVE  \/ /\ trying = "set" /\ status # OK
              /\ settings' = previous /\ trying' = "undo" /\ retune' = TRUE
              /\ phase' = "release" /\ reply' = reply
           \/ /\ trying # "set" \/ status = OK
              /\ phase' = "idle" /\ trying' = "none" /\ retune' = FALSE /\ settings' = settings
              /\ trying = "set" => reply' = "ok"
              /\ trying = "undo" => reply' = "failed"
              /\ trying \notin {"set", "undo"} => reply' = reply
BY DEF Conclude, UndoTuning

LEMMA GivingUp ==
    ASSUME NEW status, Conclude(status), status # OK, trying \in {"boot", "set", "undo"}
    PROVE  \/ /\ trying = "set" /\ settings' = previous /\ trying' = "undo" /\ retune' = TRUE
              /\ phase' = "release" /\ reply' = reply
           \/ /\ trying # "set" /\ phase' = "idle" /\ trying' = "none" /\ retune' = FALSE
              /\ settings' = settings
              /\ reply' = IF trying = "undo" THEN "failed" ELSE reply
BY Concluding

LEMMA Starts == RadioInit => RadioInv
<1> SUFFICES ASSUME RadioInit PROVE RadioInv
  OBVIOUS
<1>1. Shaped
  BY DEF RadioInit, Shaped, Places
<1>2. ForWhom
  BY DEF RadioInit, ForWhom
<1>2a. HandedOver
  <2>1. receiver.iq_register = Automatic /\ hw.iq = Automatic
    BY DEF RadioInit
  <2>2. receiver.owned = FALSE
    BY DEF RadioInit
  <2>3. QED
    BY <2>1, <2>2 DEF HandedOver
<1>3. ~PllKnown /\ ~Ready /\ phase = "power_up"
  BY DEF RadioInit, PllKnown, Ready
<1>4. QED
  BY <1>1, <1>2, <1>2a, <1>3 DEF RadioInv, Tuned, InForce

LEMMA PowerUpStep == RadioInv /\ PowerUp => RadioInv'
<1> SUFFICES ASSUME RadioInv, PowerUp PROVE RadioInv'
  OBVIOUS
<1> USE DEF RadioInv, PowerUp, Proceed
<1>1. Shaped'
  BY DEF Shaped, Places
<1>2. ForWhom'
  BY DEF ForWhom, Shaped
<1>3. HandedOver'
  BY DEF HandedOver, Shaped
<1>4. Tuned'
  <2>1. ~PllKnown' /\ ~Ready' /\ phase' \notin {"configure", "mode"}
    <3>1. ~receiver'.owned /\ retune'
      BY DEF HandedOver, ForWhom, Shaped
    <3>2. QED
      BY <3>1 DEF PllKnown, Ready, OK, Shaped
  <2>2. QED
    BY <2>1 DEF Tuned
<1>5. InForce'
  BY DEF InForce, Ready, OK, Shaped
<1>6. QED
  BY <1>1, <1>2, <1>3, <1>4, <1>5

LEMMA ReleaseStep == RadioInv /\ Release => RadioInv'
<1> SUFFICES ASSUME RadioInv, Release PROVE RadioInv'
  OBVIOUS
<1>0. Shaped /\ ForWhom /\ HandedOver /\ Tuned
  BY DEF RadioInv
<1>1. phase = "release" /\ previous' = previous
  BY DEF Release
<1>2. \/ /\ ~receiver.owned /\ phase' = IF retune THEN "tune" ELSE "configure"
         /\ UNCHANGED <<receiver, hw, settings, trying, retune, reply>>
      \/ /\ receiver.owned /\ phase' = IF retune THEN "tune" ELSE "configure"
         /\ UNCHANGED <<settings, trying, retune, reply>>
         /\ receiver' = [receiver EXCEPT !.owned = FALSE, !.status = receiver'.status]
         /\ hw' = [hw EXCEPT !.dc = hw'.dc, !.iq = Automatic, !.stage = Automatic]
      \/ /\ receiver.owned /\ Conclude("pbus_failed")
         /\ receiver' = [receiver EXCEPT !.owned = FALSE, !.status = "pbus_failed"]
         /\ hw' = [hw EXCEPT !.dc = hw'.dc, !.iq = Automatic, !.stage = Automatic]
  <2>1. CASE ~receiver.owned
    BY <2>1 DEF Release, Proceed
  <2>2. CASE receiver.owned
    <3>1. PICK ok \in Outcomes, landed \in SUBSET Registers :
             LET changed == {r \in Registers : receiver.dc[r] # receiver.dc_hardware[r]} IN
             /\ Counted(ok) /\ landed \subseteq changed /\ (ok => landed = changed)
             /\ hw' = [hw EXCEPT
                    !.dc = [r \in Registers |-> IF r \in landed THEN receiver.dc_hardware[r] ELSE @[r]],
                    !.iq = HandedBack, !.stage = Automatic]
             /\ receiver' = [receiver EXCEPT !.owned = FALSE, !.status = IF ok THEN @ ELSE "pbus_failed"]
             /\ IF ok THEN Proceed(IF retune THEN "tune" ELSE "configure") ELSE Conclude("pbus_failed")
      BY <2>2 DEF Release
    <3>2. hw' = [hw EXCEPT !.dc = hw'.dc, !.iq = Automatic, !.stage = Automatic]
      BY <3>1, <1>0 DEF HandedBack, HandedOver, Shaped
    <3>3. CASE ok
      BY <3>1, <3>2, <3>3, <2>2, <1>0 DEF Proceed, Shaped
    <3>4. CASE ~ok
      BY <3>1, <3>2, <3>4, <2>2
    <3>5. QED
      BY <3>3, <3>4
  <2>3. QED
    BY <2>1, <2>2
<1>3. /\ ~receiver'.owned /\ receiver'.iq_register = Automatic /\ hw'.iq = Automatic
      /\ hw'.pll = hw.pll /\ receiver'.lo = receiver.lo
  BY <1>0, <1>2 DEF Shaped, HandedOver
<1>4. CASE /\ phase' = IF retune THEN "tune" ELSE "configure"
           /\ UNCHANGED <<settings, trying, retune, reply>>
  <2>1. Shaped'
    BY <1>0, <1>2, <1>4 DEF Shaped, Places
  <2>2. ForWhom' /\ HandedOver'
    BY <1>0, <1>1, <1>3, <1>4 DEF ForWhom, HandedOver
  <2>3. Tuned'
    BY <1>0, <1>1, <1>3, <1>4 DEF ForWhom, Tuned, PllKnown, Pinning, Ready, Shaped
  <2>4. InForce'
    BY <1>4 DEF InForce, Ready
  <2>5. QED
    BY <2>1, <2>2, <2>3, <2>4 DEF RadioInv
<1>5. CASE /\ receiver.owned /\ Conclude("pbus_failed")
           /\ receiver' = [receiver EXCEPT !.owned = FALSE, !.status = "pbus_failed"]
           /\ hw' = [hw EXCEPT !.dc = hw'.dc, !.iq = Automatic, !.stage = Automatic]
  <2>1. receiver'.status = "pbus_failed" /\ ~Ready' /\ Pinning'
    BY <1>0, <1>3, <1>5 DEF Shaped, Ready, OK, Tuned, PllKnown, Pinning
  <2>2. /\ \/ /\ trying = "set" /\ settings' = previous /\ trying' = "undo" /\ retune' = TRUE
              /\ phase' = "release" /\ reply' = reply
           \/ /\ trying # "set" /\ phase' = "idle" /\ trying' = "none" /\ retune' = FALSE
              /\ settings' = settings
              /\ reply' = IF trying = "undo" THEN "failed" ELSE reply
    BY <1>0, <1>1, <1>5, GivingUp DEF OK, ForWhom
  <2>3. Shaped'
    BY <1>0, <1>5, <2>2 DEF Shaped, Places
  <2>4. ForWhom' /\ HandedOver'
    BY <1>0, <1>1, <1>3, <2>2 DEF ForWhom, HandedOver
  <2>5. Tuned'
    BY <2>1, <2>2 DEF Tuned
  <2>6. InForce'
    BY <2>1, <2>2 DEF InForce
  <2>7. QED
    BY <2>3, <2>4, <2>5, <2>6 DEF RadioInv
<1>6. QED
  BY <1>2, <1>4, <1>5

LEMMA TuneStep == RadioInv /\ Tune => RadioInv'
<1> SUFFICES ASSUME RadioInv, Tune PROVE RadioInv'
  OBVIOUS
<1>0. Shaped /\ ForWhom /\ HandedOver
  BY DEF RadioInv
<1>1. phase = "tune" /\ previous' = previous
  BY DEF Tune
<1>2. PICK ok \in Outcomes, locked \in LockPatterns :
         LET plan == Plan(settings["lo"]) IN
         /\ (locked = {} => ~ok) /\ Counted(ok)
         /\ receiver' = [receiver EXCEPT !.lo = plan.lo, !.mode = plan.mode,
                                         !.status = IF ok THEN @ ELSE "pll_failed"]
         /\ hw' = [hw EXCEPT !.mode = "normal",
                             !.pll = IF ok THEN [lo |-> plan.lo, cap |-> Pinned(locked), locked |-> locked]
                                     ELSE NotLocked]
         /\ IF ok THEN Proceed("configure") ELSE Conclude("pll_failed")
  BY DEF Tune
<1>3. HandedOver' /\ ~receiver'.owned
  BY <1>0, <1>1, <1>2 DEF HandedOver, Shaped
<1>4. CASE ok
  <2>1. phase' = "configure" /\ UNCHANGED <<settings, trying, retune, reply>>
    BY <1>2, <1>4 DEF Proceed
  <2>2. Shaped'
    BY <1>0, <1>2, <2>1 DEF Shaped, Places
  <2>3. ForWhom'
    BY <1>0, <1>1, <2>1 DEF ForWhom
  <2>4. hw'.pll.lo = Plan(settings["lo"]).lo /\ Pinning'
    <3>1. hw'.pll = [lo |-> Plan(settings["lo"]).lo, cap |-> Pinned(locked), locked |-> locked]
      BY <1>0, <1>2, <1>4 DEF Shaped
    <3>2. receiver'.lo = Plan(settings["lo"]).lo
      BY <1>0, <1>2 DEF Shaped
    <3>3. locked \in LockPatterns \ {{}}
      BY <1>2, <1>4
    <3>4. QED
      BY <3>1, <3>2, <3>3 DEF Pinning
  <2>5. Tuned' /\ InForce'
    BY <2>1, <2>4 DEF Tuned, Ready, InForce
  <2>6. QED
    BY <1>3, <2>2, <2>3, <2>5 DEF RadioInv
<1>5. CASE ~ok
  <2>1. receiver'.status = "pll_failed" /\ ~Ready'
    BY <1>0, <1>2, <1>5 DEF Shaped, Ready, OK
  <2>2. \/ /\ trying = "set" /\ settings' = previous /\ trying' = "undo" /\ retune' = TRUE
           /\ phase' = "release" /\ reply' = reply
        \/ /\ trying # "set" /\ phase' = "idle" /\ trying' = "none" /\ retune' = FALSE
           /\ settings' = settings
           /\ reply' = IF trying = "undo" THEN "failed" ELSE reply
    <3>1. Conclude("pll_failed")
      BY <1>2, <1>5
    <3>2. QED
      BY <1>0, <1>1, <3>1, GivingUp DEF OK, ForWhom
  <2>3. Shaped'
    BY <1>0, <1>2, <2>2 DEF Shaped, Places
  <2>4. ForWhom'
    BY <1>0, <1>1, <2>2 DEF ForWhom
  <2>5. Tuned' /\ InForce'
    BY <1>3, <2>1, <2>2 DEF Tuned, PllKnown, InForce
  <2>6. QED
    BY <1>3, <2>3, <2>4, <2>5 DEF RadioInv
<1>6. QED
  BY <1>4, <1>5

\* All the registers are reached when nothing fails.
LEMMA AllReached == {DcNames[i] : i \in 1 .. Len(DcNames)} = Registers
BY RadioAssumption DEF RadioAssumption, Registers

LEMMA ConfigureStep == RadioInv /\ Configure => RadioInv'
<1> SUFFICES ASSUME RadioInv, Configure PROVE RadioInv'
  OBVIOUS
<1>0. Shaped /\ ForWhom /\ HandedOver /\ Tuned
  BY DEF RadioInv
<1>1. phase = "configure" /\ previous' = previous
  BY DEF Configure
<1>2. PICK ok \in Outcomes, last \in 0 .. Len(DcNames), landed \in BOOLEAN :
        LET reached == {DcNames[i] : i \in 1 .. last}
            manual  == {r \in reached : Manual(r)}
            missed  == IF ok \/ landed \/ last = 0 THEN {} ELSE {DcNames[last]} IN
        /\ ok => landed /\ last = Len(DcNames)
        /\ ~ok /\ last > 0 => DcNames[last] \in manual
        /\ Counted(ok)
        /\ receiver' = [receiver EXCEPT
               !.owned = TRUE, !.iq_register = hw.iq,
               !.dc = [r \in Registers |-> IF r \in manual THEN settings[r]
                                           ELSE IF r \in reached THEN hw.dc[r] ELSE 0],
               !.dc_hardware = [r \in Registers |-> IF r \in reached THEN hw.dc[r] ELSE 0],
               !.status = IF ok THEN @ ELSE "pbus_failed"]
        /\ hw' = [hw EXCEPT
               !.front = settings["front"], !.stage = IF ok THEN Stage ELSE Automatic, !.iq = Correction,
               !.dc = [r \in Registers |-> IF r \in manual \ missed THEN settings[r] ELSE @[r]]]
        /\ IF ok THEN Proceed("mode") ELSE Conclude("pbus_failed")
  BY DEF Configure
<1>3. receiver'.owned = TRUE /\ receiver'.iq_register = Automatic
  <2>1. hw.iq = Automatic
    BY <1>0, <1>1 DEF HandedOver
  <2>2. QED
    BY <1>0, <1>2, <2>1 DEF Shaped
<1>4. Pinning' /\ hw'.pll = hw.pll
  BY <1>0, <1>1, <1>2 DEF Tuned, PllKnown, Pinning, Shaped
<1>5. CASE ok
  <2>1. phase' = "mode" /\ UNCHANGED <<settings, trying, retune, reply>>
    BY <1>2, <1>5 DEF Proceed
  <2>2. Shaped'
    BY <1>0, <1>2, <2>1 DEF Shaped, Places
  <2>3. ForWhom' /\ HandedOver'
    BY <1>0, <1>1, <1>3, <2>1 DEF ForWhom, HandedOver
  <2>4. Tuned'
    BY <1>0, <1>1, <1>4, <2>1 DEF Tuned, Ready
  <2>5. Written'
    <3>1. hw'.front = settings["front"] /\ hw'.stage = Stage /\ hw'.iq = Correction
      BY <1>0, <1>2, <1>5 DEF Shaped
    <3>2. hw'.stage = Stage'
      BY <2>1, <3>1 DEF Stage
    <3>3. Correction = settings["iq"]
      BY <1>0, <1>1 DEF HandedOver, Correction
    <3>4. /\ hw'.dc = [r \in Registers |-> IF Manual(r) THEN settings[r] ELSE hw.dc[r]]
          /\ receiver'.dc = [r \in Registers |-> IF Manual(r) THEN settings[r] ELSE hw.dc[r]]
      BY <1>0, <1>2, <1>5, AllReached DEF Shaped
    <3>5. \A r \in Registers : /\ settings[r] # Automatic => hw'.dc[r] = settings[r]
                               /\ receiver'.dc[r] = hw'.dc[r]
      BY <3>4 DEF Manual
    <3>6. /\ hw'.front = settings'["front"] /\ hw'.iq = settings'["iq"]
          /\ \A r \in Registers : /\ settings'[r] # Automatic => hw'.dc[r] = settings'[r]
                                  /\ receiver'.dc[r] = hw'.dc[r]
      BY <2>1, <3>1, <3>3, <3>5
    <3>7. QED
      BY <3>2, <3>6 DEF Written
  <2>6. QED
    BY <2>2, <2>3, <2>4, <2>5 DEF RadioInv, InForce
<1>6. CASE ~ok
  <2>1. receiver'.status = "pbus_failed" /\ ~Ready'
    BY <1>0, <1>2, <1>6 DEF Shaped, Ready, OK
  <2>2. \/ /\ trying = "set" /\ settings' = previous /\ trying' = "undo" /\ retune' = TRUE
           /\ phase' = "release" /\ reply' = reply
        \/ /\ trying # "set" /\ phase' = "idle" /\ trying' = "none" /\ retune' = FALSE
           /\ settings' = settings
           /\ reply' = IF trying = "undo" THEN "failed" ELSE reply
    <3>1. Conclude("pbus_failed")
      BY <1>2, <1>6
    <3>2. QED
      BY <1>0, <1>1, <3>1, GivingUp DEF OK, ForWhom
  <2>3. Shaped'
    BY <1>0, <1>2, <2>2 DEF Shaped, Places
  <2>4. ForWhom' /\ HandedOver'
    BY <1>0, <1>1, <1>3, <2>2 DEF ForWhom, HandedOver
  <2>5. Tuned' /\ InForce'
    BY <1>4, <2>1, <2>2 DEF Tuned, InForce
  <2>6. QED
    BY <2>3, <2>4, <2>5 DEF RadioInv
<1>7. QED
  BY <1>5, <1>6

LEMMA SelectModeStep == RadioInv /\ SelectMode => RadioInv'
<1> SUFFICES ASSUME RadioInv, SelectMode PROVE RadioInv'
  OBVIOUS
<1>0. Shaped /\ ForWhom /\ HandedOver /\ Tuned /\ InForce
  BY DEF RadioInv
<1>1. phase = "mode" /\ previous' = previous
  BY DEF SelectMode
<1>2. PICK ok \in Outcomes :
         /\ hw' = [hw EXCEPT !.mode = IF ok THEN receiver.mode ELSE @]
         /\ receiver' = [receiver EXCEPT !.status = IF ok THEN OK ELSE "pll_failed"]
         /\ Conclude(receiver'.status)
  BY DEF SelectMode
<1>3. /\ Pinning' /\ hw'.pll = hw.pll
      /\ UNCHANGED <<receiver.owned, receiver.iq_register, receiver.mode, receiver.dc,
                     hw.iq, hw.dc, hw.front, hw.stage>>
  BY <1>0, <1>1, <1>2 DEF Tuned, PllKnown, Pinning, Shaped
<1>4. CASE ok
  <2>1. receiver'.status = OK /\ hw'.mode = receiver'.mode
    BY <1>0, <1>2, <1>3, <1>4 DEF Shaped
  <2>2. /\ phase' = "idle" /\ trying' = "none" /\ retune' = FALSE /\ settings' = settings
        /\ trying = "set" => reply' = "ok"
        /\ trying = "undo" => reply' = "failed"
        /\ trying \notin {"set", "undo"} => reply' = reply
    BY <1>2, <2>1, Concluding
  <2>3. Shaped'
    BY <1>0, <1>2, <2>2 DEF Shaped, Places
  <2>4. ForWhom' /\ HandedOver'
    BY <1>0, <1>1, <1>3, <2>2 DEF ForWhom, HandedOver
  <2>5. Tuned'
    BY <1>0, <1>1, <1>3, <2>1, <2>2 DEF ForWhom, Tuned
  <2>6. InForce'
    <3>1. Written
      BY <1>0, <1>1 DEF InForce
    <3>2. Stage' = Stage
      BY <2>2 DEF Stage
    <3>3. QED
      BY <1>3, <2>2, <3>1, <3>2 DEF InForce, Written
  <2>7. QED
    BY <2>3, <2>4, <2>5, <2>6 DEF RadioInv
<1>5. CASE ~ok
  <2>1. receiver'.status = "pll_failed" /\ ~Ready'
    BY <1>0, <1>2, <1>5 DEF Shaped, Ready, OK
  <2>2. \/ /\ trying = "set" /\ settings' = previous /\ trying' = "undo" /\ retune' = TRUE
           /\ phase' = "release" /\ reply' = reply
        \/ /\ trying # "set" /\ phase' = "idle" /\ trying' = "none" /\ retune' = FALSE
           /\ settings' = settings
           /\ reply' = IF trying = "undo" THEN "failed" ELSE reply
    <3>1. Conclude("pll_failed")
      BY <1>2, <2>1
    <3>2. QED
      BY <1>0, <1>1, <3>1, GivingUp DEF OK, ForWhom
  <2>3. Shaped'
    BY <1>0, <1>2, <2>2 DEF Shaped, Places
  <2>4. ForWhom' /\ HandedOver'
    BY <1>0, <1>1, <1>3, <2>2 DEF ForWhom, HandedOver
  <2>5. Tuned' /\ InForce'
    BY <1>3, <2>1, <2>2 DEF Tuned, InForce
  <2>6. QED
    BY <2>3, <2>4, <2>5 DEF RadioInv
<1>6. QED
  BY <1>4, <1>5

LEMMA RequestStep == RadioInv /\ Requests => RadioInv'
<1> SUFFICES ASSUME RadioInv, NEW op \in DOMAIN Boot, NEW value, RadioSet(op, value)
             PROVE  RadioInv'
  BY DEF Requests
<1>0. Shaped /\ ForWhom /\ HandedOver /\ Tuned /\ InForce
  BY DEF RadioInv
<1>1. phase = "idle" /\ UNCHANGED <<receiver, hw>>
  BY DEF RadioSet
<1>2. CASE /\ reply' \in {"not_ready", "bad_argument"}
           /\ UNCHANGED <<settings, previous, phase, trying, retune>>
  <2>1. Shaped' /\ HandedOver'
    BY <1>0, <1>1, <1>2 DEF Shaped, HandedOver
  <2>2. ForWhom'
    BY <1>0, <1>1, <1>2 DEF ForWhom
  <2>3. Tuned'
    BY <1>0, <1>1, <1>2 DEF Tuned, PllKnown, Pinning, Ready
  <2>4. InForce'
    BY <1>0, <1>1, <1>2 DEF InForce, Ready, Written, Stage
  <2>5. QED
    BY <2>1, <2>2, <2>3, <2>4 DEF RadioInv
<1>3. CASE /\ receiver.status # "phy_failed" /\ trying' = "set" /\ phase' = "release"
           /\ previous' = settings /\ reply' = reply /\ retune' = Retunes(op, value)
  <2>1. retune' \in BOOLEAN /\ (receiver.status = "pll_failed" => retune')
    BY <1>3 DEF Retunes
  <2>2. Shaped'
    BY <1>0, <1>1, <1>3, <2>1 DEF Shaped, Places
  <2>3. ForWhom' /\ HandedOver'
    BY <1>0, <1>1, <1>3 DEF ForWhom, HandedOver
  <2>4. Tuned'
    <3>1. PllKnown' => PllKnown
      BY <1>1, <1>3, <2>1 DEF PllKnown
    <3>2. QED
      BY <1>0, <1>1, <1>3, <3>1 DEF Tuned, Pinning, Ready
  <2>5. InForce'
    BY <1>3 DEF InForce, Ready
  <2>6. QED
    BY <2>2, <2>3, <2>4, <2>5 DEF RadioInv
<1>4. QED
  BY <1>2, <1>3 DEF RadioSet

LEMMA Stutters == RadioInv /\ UNCHANGED radio => RadioInv'
<1> SUFFICES ASSUME RadioInv, UNCHANGED radio PROVE RadioInv'
  OBVIOUS
<1>1. UNCHANGED <<settings, previous, receiver, phase, trying, retune, hw, reply>>
  BY DEF radio
<1>2. /\ Shaped' = Shaped /\ ForWhom' = ForWhom /\ HandedOver' = HandedOver
      /\ Tuned' = Tuned /\ InForce' = InForce
  BY <1>1 DEF Shaped, ForWhom, HandedOver, Tuned, PllKnown, Pinning, InForce, Ready, Written, Stage
<1>3. QED
  BY <1>2 DEF RadioInv

(* The strengthening that a radio keeps through any requests and failures. *)
THEOREM RadioInvariant == RadioSpec => []RadioInv
<1>1. RadioInv /\ [Reconfiguring \/ Requests]_radio => RadioInv'
  BY PowerUpStep, ReleaseStep, TuneStep, ConfigureStep, SelectModeStep, RequestStep, Stutters
     DEF Reconfiguring
<1>2. QED
  BY Starts, <1>1, PTL DEF RadioSpec

(* When the radio reports OK every setting but the LO is in effect, however *)
(* many settings and undoings failed half way before (radio.c 218-358).     *)
THEOREM SettingsInEffect == RadioSpec => []InEffect
<1>1. RadioInv => InEffect
  BY DEF RadioInv, InForce, Written, InEffect
<1>2. QED
  BY RadioInvariant, <1>1, PTL

(* A setting that failed and left the radio OK kept what was before, the   *)
(* tuning among it (radio.c 341-412).                                      *)
THEOREM FailureKeeps == RadioSpec => []FailedKeeps
<1>1. RadioInv => FailedKeeps
  BY DEF RadioInv, ForWhom, Tuned, FailedKeeps, Ready
<1>2. QED
  BY RadioInvariant, <1>1, PTL

(* All that the run checks of the settings, given that the scan finds the  *)
(* widest lock of the patterns the PLL has.                                *)
THEOREM AlwaysInForce == ASSUME ScanFindsWidest PROVE RadioSpec => []SettingsInForce
<1>1. RadioInv => LockedAsReported
  <2> SUFFICES ASSUME RadioInv, Ready PROVE
        /\ hw.pll.lo = receiver.lo /\ hw.mode = receiver.mode
        /\ hw.pll.cap \in hw.pll.locked
        /\ \A c \in Caps : Margin(hw.pll.locked, c) <= Margin(hw.pll.locked, hw.pll.cap)
    BY DEF LockedAsReported
  <2>1. Pinning /\ hw.mode = receiver.mode
    BY DEF RadioInv, Tuned, PllKnown, Ready, OK
  <2>2. QED
    BY <2>1, ScanFindsWidest DEF Pinning, ScanFindsWidest
<1>2. QED
  BY <1>1, RadioInvariant, SettingsInEffect, FailureKeeps, PTL DEF SettingsInForce
-----------------------------------------------------------------------------
(***************************************************************************)
(* A run is made with the radio as the spectrum engine was told, and with  *)
(* every setting that was accepted and still binds, for any settings, any  *)
(* number of browsers and failures.  What run_once tags a run with is not  *)
(* read from the radio but was published some steps before: nothing in     *)
(* between may touch the radio.  A setting is always in exactly the place  *)
(* where the capture thread will look for it next: among the requests, in  *)
(* the batch taken from them, or in the radio.                             *)
(***************************************************************************)

Settled == {"apply", "announce", "look", "begin", "run", "stopped", "wait"}
Busy == {"announce", "set", "setting"}

\* The records and functions have their fields and domains.
Formed ==
    /\ settings = [op \in Ops |-> settings[op]] /\ previous = [op \in Ops |-> previous[op]]
    /\ latest = [op \in Ops |-> latest[op]]
    /\ published = [state |-> published.state, valid |-> published.valid,
                    receiver |-> published.receiver]
    /\ requests \in Seq(Asked) /\ batch \in Seq(Asked)

\* The ESP is at work only when it boots or for the setting in hand.
AtWork ==
    phase # "idle" => \/ pc = "open" /\ trying = "boot"
                      \/ pc = "setting" /\ trying \in {"set", "undo"}

\* What was published of the receiver is what it is, from the time it was
\* read until the next setting; runs are begun on nothing else.
Current ==
    /\ pc \in Settled => published.receiver = Report
    /\ pc \in {"begin", "run"} => published.receiver.radio = OK
    /\ pc = "run" => tagged = published.receiver

\* The setting in hand is the only one in which the radio can differ from
\* what it was before, and "ok" means that it has it.
InHand ==
    /\ pc \notin Busy => batch = <<>>
    /\ pc = "setting" =>
           /\ batch # <<>>
           /\ phase # "idle" =>
                  /\ \A op \in Ops \ {Head(batch).op} : previous[op] = settings[op]
                  /\ trying = "set" => settings[Head(batch).op] = Head(batch).value
           /\ phase = "idle" /\ reply = "ok" => settings[Head(batch).op] = Head(batch).value

\* Where a setting that binds is to be found.
Held(queue, op, v) == \A i \in DOMAIN queue : queue[i].op = op => queue[i].value = v
Binding ==
    \A op \in Ops :
        latest[op] # Nothing =>
            /\ Held(requests, op, latest[op])
            /\ op \notin Named(requests) => Held(batch, op, latest[op])
            /\ op \notin Named(requests) /\ op \notin Named(batch) => settings[op] = latest[op]

ServeInv == RadioInv /\ Formed /\ AtWork /\ Current /\ InHand /\ Binding
-----------------------------------------------------------------------------
LEMMA RadioKept ==
    ASSUME RadioInv, UNCHANGED radio_alone
    PROVE  RadioInv' /\ Report' = Report
<1>1. UNCHANGED <<settings, previous, receiver, phase, trying, retune, hw, reply>>
  BY DEF radio_alone
<1>2. /\ Shaped' = Shaped /\ ForWhom' = ForWhom /\ HandedOver' = HandedOver
      /\ Tuned' = Tuned /\ InForce' = InForce
  BY <1>1 DEF Shaped, ForWhom, HandedOver, Tuned, PllKnown, Pinning, InForce, Ready, Written, Stage
<1>3. QED
  BY <1>1, <1>2 DEF RadioInv, Report

\* A step of a thread finds the radio at rest and leaves it alone.
LEMMA Quiet ==
    ASSUME ServeInv, phase = "idle", UNCHANGED radio_alone
    PROVE  /\ RadioInv' /\ AtWork' /\ Report' = Report /\ phase' = "idle"
           /\ UNCHANGED <<settings, previous, reply>>
BY RadioKept DEF radio_alone, ServeInv, AtWork

\* Only the published record and the queues change their shape.
LEMMA FormedKept ==
    ASSUME Formed, UNCHANGED <<settings, previous>>,
           latest' = latest \/ latest' = Free,
           published' = [state |-> published'.state, valid |-> published'.valid,
                         receiver |-> published'.receiver],
           requests' \in Seq(Asked), batch' \in Seq(Asked)
    PROVE  Formed'
<1>1. latest' = [op \in Ops |-> latest'[op]]
  BY DEF Formed, Free
<1>2. settings' = [op \in Ops |-> settings'[op]] /\ previous' = [op \in Ops |-> previous'[op]]
  BY DEF Formed
<1>3. QED
  BY <1>1, <1>2 DEF Formed, Ops

LEMMA NoQueue == <<>> \in Seq(Asked)
OBVIOUS

LEMMA BindingKept == Binding /\ UNCHANGED <<settings, requests, batch, latest>> => Binding'
BY DEF Binding, Held, Named

LEMMA NothingBinds == latest' = Free => Binding'
BY DEF Free, Binding

\* Whatever touches none of what the invariant is about.
LEMMA Bystander ==
    ASSUME ServeInv, UNCHANGED <<radio_alone, pc, batch, tagged, published, requests, latest>>
    PROVE  ServeInv'
<1>1. RadioInv' /\ Report' = Report
  BY RadioKept DEF ServeInv
<1>2. UNCHANGED <<settings, previous, phase, trying, reply, pc, batch, tagged, published, requests, latest>>
  BY DEF radio_alone
<1>3. Formed' /\ AtWork'
  BY <1>2 DEF ServeInv, Formed, AtWork
<1>4. Current'
  BY <1>1, <1>2 DEF ServeInv, Current
<1>5. InHand'
  BY <1>2 DEF ServeInv, InHand
<1>6. Binding'
  BY <1>2, BindingKept DEF ServeInv
<1>7. QED
  BY <1>1, <1>3, <1>4, <1>5, <1>6 DEF ServeInv

LEMMA ServeStart == Init => ServeInv
<1> SUFFICES ASSUME Init PROVE ServeInv
  OBVIOUS
<1>1. RadioInv
  BY Starts DEF Init
<1>2. Formed
  BY ServeAssumption DEF ServeAssumption, Init, RadioInit, Formed, Ops, Free
<1>3. AtWork /\ Current /\ InHand
  BY DEF Init, RadioInit, AtWork, Current, InHand, Settled, Busy
<1>4. Binding
  BY DEF Init, Binding, Free
<1>5. QED
  BY <1>1, <1>2, <1>3, <1>4 DEF ServeInv

LEMMA WebStep ==
    ASSUME ServeInv, Greet \/ OnWake \/ Broadcast \/ OnTick \/ OnOpen \/ (\E c \in open : OnClose(c))
                     \/ OnRun \/ Shutdown \/ GraceEnds
    PROVE  ServeInv'
<1>1. UNCHANGED <<radio_alone, capture, published, requests, latest>>
  BY DEF Greet, OnWake, Broadcast, OnTick, OnOpen, OnClose, OnRun, Shutdown, GraceEnds,
         CaptureStays, NewsStay, news, radio, radio_alone, Error
<1>2. QED
  BY <1>1, Bystander DEF capture

LEMMA SetStep ==
    ASSUME ServeInv, NEW q \in Asked, OnSet(q)
    PROVE  ServeInv'
<1>1. CASE UNCHANGED <<requests, latest>>
  <2>1. UNCHANGED <<radio_alone, capture, published, requests, latest>>
    BY <1>1 DEF OnSet, CaptureStays, NewsStay, news, radio, radio_alone
  <2>2. QED
    BY <2>1, Bystander DEF capture
<1>2. CASE requests' = Replaced(requests, q) /\ latest' = [latest EXCEPT ![q.op] = q.value]
  <2>1. /\ UNCHANGED <<radio_alone, capture, published>>
        /\ UNCHANGED <<settings, previous, phase, trying, reply, pc, batch, tagged>>
    BY DEF OnSet, CaptureStays, NewsStay, news, radio, radio_alone, capture
  <2>2. RadioInv' /\ Report' = Report
    BY <2>1, RadioKept DEF ServeInv
  <2>3. requests \in Seq(Asked) /\ q.op \in Ops
    BY ServeAssumption DEF ServeAssumption, Ops, ServeInv, Formed
  <2>4. requests' \in Seq(Asked)
    BY <1>2, <2>3 DEF Replaced
  <2>5. Formed'
    BY <1>2, <2>1, <2>4 DEF ServeInv, Formed
  <2>6. AtWork' /\ Current' /\ InHand'
    BY <2>1, <2>2 DEF ServeInv, AtWork, Current, InHand
  <2>7. Held(requests', q.op, q.value) /\ q.op \in Named(requests')
    <3>1. CASE q.op \in Named(requests)
      BY <1>2, <2>3, <3>1 DEF Replaced, Held, Named
    <3>2. CASE q.op \notin Named(requests)
      <4>1. requests' = Append(requests, q)
        BY <1>2, <3>2 DEF Replaced
      <4>2. \A i \in DOMAIN requests : requests[i].op # q.op
        BY <3>2 DEF Named
      <4>3. QED
        BY <2>3, <4>1, <4>2 DEF Held, Named
    <3>3. QED
      BY <3>1, <3>2
  <2>8. ASSUME NEW op \in Ops, op # q.op, NEW v
        PROVE  /\ op \in Named(requests') <=> op \in Named(requests)
               /\ Held(requests, op, v) => Held(requests', op, v)
    <3>1. CASE q.op \in Named(requests)
      BY <1>2, <2>3, <2>8, <3>1 DEF Replaced, Held, Named
    <3>2. CASE q.op \notin Named(requests)
      <4>1. requests' = Append(requests, q)
        BY <1>2, <3>2 DEF Replaced
      <4>2. QED
        BY <2>3, <2>8, <4>1 DEF Held, Named
    <3>3. QED
      BY <3>1, <3>2
  <2>9. Binding'
    <3> SUFFICES ASSUME NEW op \in Ops, latest'[op] # Nothing
                 PROVE  /\ Held(requests', op, latest'[op])
                        /\ op \notin Named(requests') => Held(batch, op, latest'[op])
                        /\ op \notin Named(requests') /\ op \notin Named(batch) => settings[op] = latest'[op]
      BY <2>1 DEF Binding, Ops
    <3>1. CASE op = q.op
      BY <1>2, <2>3, <2>7, <3>1 DEF ServeInv, Formed
    <3>2. CASE op # q.op
      <4>1. latest'[op] = latest[op]
        BY <1>2, <3>2 DEF ServeInv, Formed
      <4>2. QED
        BY <2>8, <3>2, <4>1 DEF ServeInv, Binding
    <3>3. QED
      BY <3>1, <3>2
  <2>10. QED
    BY <2>2, <2>5, <2>6, <2>9 DEF ServeInv
<1>3. QED
  BY <1>1, <1>2 DEF OnSet
-----------------------------------------------------------------------------
\* The capture thread, one step at a time: in all of these the radio rests.
LEMMA OpenStep == ASSUME ServeInv, phase = "idle", Open PROVE ServeInv'
<1>1. /\ pc' \in {"done", "read", "lose"}
      /\ UNCHANGED <<radio_alone, batch, tagged, requests, published, latest>>
  BY DEF Open, Go, Error, radio, radio_alone, news
<1>2. pc = "open"
  BY DEF Open
<1>3. QED
  <2>1. Formed' /\ Current' /\ InHand' /\ Binding'
    BY <1>1, <1>2, Quiet, BindingKept DEF ServeInv, Formed, Current, InHand, Settled, Busy
  <2>2. QED
    BY <1>1, <2>1, Quiet DEF ServeInv

LEMMA FailStep == ASSUME ServeInv, phase = "idle", ControlFails PROVE ServeInv'
<1>1. /\ pc' = "lose" /\ batch' = <<>> /\ latest' = Free
      /\ UNCHANGED <<radio_alone, tagged, requests, published>>
  BY DEF ControlFails, Throw, Go, Error, news
<1>2. Formed'
  BY <1>1, Quiet DEF ServeInv, Formed, Free
<1>3. Current' /\ InHand' /\ Binding'
  BY <1>1, NothingBinds DEF Current, InHand, Settled, Busy
<1>4. QED
  BY <1>1, <1>2, <1>3, Quiet DEF ServeInv

LEMMA ReadStep == ASSUME ServeInv, ReadReceiver PROVE ServeInv'
<1>1. /\ phase = "idle" /\ pc \in {"read", "reread"} /\ pc' \in {"apply", "look"}
      /\ published' = [published EXCEPT !.valid = TRUE, !.receiver = Report]
      /\ UNCHANGED <<radio_alone, batch, requests, latest>>
  BY DEF ReadReceiver, Publish, Go, radio, radio_alone
<1>2. /\ published'.receiver = Report
      /\ published' = [state |-> published'.state, valid |-> published'.valid,
                       receiver |-> published'.receiver]
  BY <1>1 DEF ServeInv, Formed
<1>2a. Formed'
  BY <1>1, <1>2, Quiet, FormedKept DEF ServeInv, Formed
<1>3. Current'
  BY <1>1, <1>2, Quiet DEF Current
<1>4. InHand' /\ Binding'
  BY <1>1, Quiet, BindingKept DEF ServeInv, InHand, Busy
<1>5. QED
  BY <1>1, <1>2a, <1>3, <1>4, Quiet DEF ServeInv

\* The batch is taken only when the last one is done with.
LEMMA TakeStep == ASSUME ServeInv, phase = "idle", TakeRequests PROVE ServeInv'
<1>1. /\ pc = "apply" /\ UNCHANGED <<radio_alone, tagged, published, latest>>
      /\ \/ pc' = "open" /\ UNCHANGED <<batch, requests>>
         \/ /\ batch' = requests /\ requests' = <<>>
            /\ pc' = IF requests = <<>> THEN "look" ELSE "announce"
  BY DEF TakeRequests, Go, radio, radio_alone, news
<1>2. batch = <<>>
  BY <1>1 DEF ServeInv, InHand, Busy
<1>3. Formed'
  <2>1. requests' \in Seq(Asked) /\ batch' \in Seq(Asked)
    BY <1>1, NoQueue DEF ServeInv, Formed
  <2>2. QED
    BY <1>1, <2>1, Quiet DEF ServeInv, Formed
<1>4. Current'
  BY <1>1, Quiet DEF ServeInv, Current, Settled
<1>5. InHand'
  BY <1>1, <1>2 DEF InHand, Busy
<1>6. Binding'
  <2>1. CASE UNCHANGED <<batch, requests>>
    BY <1>1, <2>1, Quiet, BindingKept DEF ServeInv
  <2>2. CASE batch' = requests /\ requests' = <<>>
    BY <1>1, <1>2, <2>2, Quiet DEF ServeInv, Binding, Held, Named
  <2>3. QED
    BY <1>1, <2>1, <2>2
<1>7. QED
  BY <1>1, <1>3, <1>4, <1>5, <1>6, Quiet DEF ServeInv

LEMMA AnnounceStep == ASSUME ServeInv, phase = "idle", Announce PROVE ServeInv'
<1>1. /\ pc' = "set" /\ UNCHANGED <<radio_alone, tagged, batch, requests, latest>>
      /\ published' = [published EXCEPT !.state = "reconfiguring"]
  BY DEF Announce, Publish, Go, radio, radio_alone
<1>2. Formed'
  BY <1>1, Quiet DEF ServeInv, Formed
<1>3. Current' /\ InHand' /\ Binding'
  BY <1>1, Quiet, BindingKept DEF ServeInv, Current, InHand, Settled, Busy
<1>4. QED
  BY <1>1, <1>2, <1>3, Quiet DEF ServeInv

LEMMA Tails ==
    ASSUME NEW queue \in Seq(Asked), queue # <<>>
    PROVE  /\ 1 \in DOMAIN queue /\ Head(queue) = queue[1]
           /\ \A i \in DOMAIN queue : i = 1 \/ (i - 1 \in DOMAIN Tail(queue) /\ Tail(queue)[i - 1] = queue[i])
           /\ \A i \in DOMAIN Tail(queue) : i + 1 \in DOMAIN queue /\ Tail(queue)[i] = queue[i + 1]
<1>1. Tail(queue) \in Seq(Asked) /\ Len(Tail(queue)) = Len(queue) - 1
  BY HeadTailProperties
<1>2. \A i \in 1 .. Len(Tail(queue)) : Tail(queue)[i] = queue[i + 1]
  BY HeadTailProperties
<1>3. DOMAIN queue = 1 .. Len(queue) /\ DOMAIN Tail(queue) = 1 .. Len(queue) - 1 /\ Len(queue) \in Nat
  BY <1>1
<1>4. 1 \in DOMAIN queue /\ Head(queue) = queue[1]
  BY <1>3
<1>5. ASSUME NEW i \in DOMAIN queue, i # 1
      PROVE  i - 1 \in DOMAIN Tail(queue) /\ Tail(queue)[i - 1] = queue[i]
  <2>1. i \in Int /\ i - 1 \in 1 .. Len(Tail(queue)) /\ i - 1 + 1 = i
    BY <1>1, <1>3, <1>5
  <2>2. QED
    BY <1>1, <1>2, <1>3, <2>1
<1>6. QED
  BY <1>1, <1>2, <1>3, <1>4, <1>5

\* The ESP's answer: "ok" means the setting is in the radio, anything else
\* that it no longer binds.
LEMMA AnsweredStep == ASSUME ServeInv, Answered PROVE ServeInv'
<1>1. /\ pc = "setting" /\ phase = "idle" /\ batch' = Tail(batch) /\ pc' = "set"
      /\ UNCHANGED <<radio_alone, tagged, requests, published>>
      /\ \/ reply = "ok" /\ latest' = latest
         \/ /\ reply # "ok"
            /\ latest' = IF Head(batch).op \in Named(requests) THEN latest
                         ELSE [latest EXCEPT ![Head(batch).op] = Nothing]
  BY DEF Answered, Go, Notice, radio, radio_alone, news
<1>2. batch \in Seq(Asked) /\ batch # <<>> /\ latest = [op \in Ops |-> latest[op]]
  BY <1>1 DEF ServeInv, InHand, Formed
<1>3. Formed'
  BY <1>1, <1>2, Quiet DEF ServeInv, Formed
<1>4. Current' /\ InHand'
  BY <1>1 DEF Current, InHand, Settled, Busy
<1>5. ASSUME NEW op, NEW v
      PROVE  /\ op \in Named(batch) => op = Head(batch).op \/ op \in Named(batch')
             /\ Held(batch, op, v) => Held(batch', op, v)
             /\ Held(batch, Head(batch).op, v) => Head(batch).value = v
  <2>1. op \in Named(batch) => op = Head(batch).op \/ op \in Named(batch')
    <3>1. ASSUME NEW i \in DOMAIN batch, batch[i].op = op
          PROVE  op = Head(batch).op \/ op \in Named(batch')
      <4>1. CASE i = 1
        BY <1>2, <3>1, <4>1, Tails
      <4>2. CASE i - 1 \in DOMAIN batch' /\ batch'[i - 1] = batch[i]
        BY <3>1, <4>2 DEF Named
      <4>3. QED
        BY <1>1, <1>2, <4>1, <4>2, Tails
    <3>2. QED
      BY <3>1 DEF Named
  <2>2. Held(batch, op, v) => Held(batch', op, v)
    BY <1>1, <1>2, Tails DEF Held
  <2>3. Held(batch, Head(batch).op, v) => Head(batch).value = v
    BY <1>2, Tails DEF Held
  <2>4. QED
    BY <2>1, <2>2, <2>3
<1>6. Binding'
  <2> SUFFICES ASSUME NEW op \in Ops, latest'[op] # Nothing
               PROVE  /\ Held(requests, op, latest'[op])
                      /\ op \notin Named(requests) => Held(batch', op, latest'[op])
                      /\ op \notin Named(requests) /\ op \notin Named(batch') => settings[op] = latest'[op]
    BY <1>1, Quiet DEF Binding, Ops
  <2>1. latest'[op] = latest[op]
    BY <1>1, <1>2
  <2>2. /\ Held(requests, op, latest[op])
        /\ op \notin Named(requests) => Held(batch, op, latest[op])
        /\ op \notin Named(requests) /\ op \notin Named(batch) => settings[op] = latest[op]
    BY <2>1 DEF ServeInv, Binding
  <2>3. ASSUME op \notin Named(requests), op \notin Named(batch'), op \in Named(batch)
        PROVE  settings[op] = latest[op]
    <3>1. op = Head(batch).op
      BY <1>5, <2>3
    <3>2. reply = "ok"
      BY <1>1, <1>2, <2>3, <3>1
    <3>3. QED
      BY <1>1, <1>5, <2>2, <2>3, <3>1, <3>2 DEF ServeInv, InHand
  <2>4. QED
    BY <1>5, <2>1, <2>2, <2>3
<1>7. QED
  BY <1>1, <1>3, <1>4, <1>6, Quiet DEF ServeInv

LEMMA LookStep == ASSUME ServeInv, phase = "idle", Look \/ Wait PROVE ServeInv'
<1>1. /\ UNCHANGED <<radio_alone, tagged, batch, requests, published, latest>>
      /\ \/ pc = "look" /\ pc' = "begin" /\ published.receiver.radio = OK
         \/ pc = "look" /\ pc' = "stopped"
         \/ pc = "wait" /\ pc' = "apply"
         \/ pc = "wait_lost" /\ pc' = "open"
  BY DEF Look, Wait, Go, radio, radio_alone, news
<1>2. Formed'
  BY <1>1, Quiet DEF ServeInv, Formed
<1>3. Current' /\ InHand' /\ Binding'
  BY <1>1, Quiet, BindingKept DEF ServeInv, Current, InHand, Settled, Busy
<1>4. QED
  BY <1>1, <1>2, <1>3, Quiet DEF ServeInv

LEMMA StoppedStep == ASSUME ServeInv, phase = "idle", PublishStopped PROVE ServeInv'
<1>1. /\ pc = "stopped" /\ pc' = "wait" /\ UNCHANGED <<radio_alone, tagged, batch, requests, latest>>
      /\ \E state : published' = [published EXCEPT !.state = state]
  BY DEF PublishStopped, Publish, Go, radio, radio_alone
<1>2. Formed' /\ published'.receiver = published.receiver
  BY <1>1, Quiet DEF ServeInv, Formed
<1>3. Current' /\ InHand' /\ Binding'
  BY <1>1, <1>2, Quiet, BindingKept DEF ServeInv, Current, InHand, Settled, Busy
<1>4. QED
  BY <1>1, <1>2, <1>3, Quiet DEF ServeInv

LEMMA BeginStep == ASSUME ServeInv, phase = "idle", BeginRun PROVE ServeInv'
<1>1. /\ pc = "begin" /\ pc' = "run" /\ tagged' = published.receiver
      /\ UNCHANGED <<radio_alone, batch, requests, latest>>
      /\ published' = [published EXCEPT !.state = "running"]
  BY DEF BeginRun, Publish, Go, radio, radio_alone
<1>2. Formed' /\ published'.receiver = published.receiver
  BY <1>1, Quiet DEF ServeInv, Formed
<1>3. Current' /\ InHand' /\ Binding'
  BY <1>1, <1>2, Quiet, BindingKept DEF ServeInv, Current, InHand, Settled, Busy
<1>4. QED
  BY <1>1, <1>2, <1>3, Quiet DEF ServeInv

LEMMA EndStep == ASSUME ServeInv, phase = "idle", EndRun PROVE ServeInv'
<1>1. /\ pc = "run" /\ UNCHANGED <<radio_alone, requests>>
      /\ published' = published \/ published' = [published EXCEPT !.state = "error"]
      /\ \/ pc' = "lose" /\ batch' = <<>> /\ latest' = Free
         \/ pc' \in {"apply", "wait"} /\ UNCHANGED <<batch, latest>>
  BY DEF EndRun, Throw, Go, Error, Publish, radio, radio_alone, news
<1>2. published'.receiver = published.receiver /\ published' = [state |-> published'.state,
         valid |-> published'.valid, receiver |-> published'.receiver]
  BY <1>1 DEF ServeInv, Formed
<1>2a. requests' \in Seq(Asked) /\ batch' \in Seq(Asked) /\ (latest' = latest \/ latest' = Free)
  BY <1>1, NoQueue DEF ServeInv, Formed
<1>3. Formed'
  BY <1>1, <1>2, <1>2a, Quiet, FormedKept DEF ServeInv
<1>4. Current' /\ InHand'
  BY <1>1, <1>2, Quiet DEF ServeInv, Current, InHand, Settled, Busy
<1>5. Binding'
  BY <1>1, Quiet, BindingKept, NothingBinds DEF ServeInv
<1>6. QED
  BY <1>1, <1>3, <1>4, <1>5, Quiet DEF ServeInv

LEMMA LoseStep == ASSUME ServeInv, phase = "idle", DropRequests \/ PublishLost PROVE ServeInv'
<1>1. /\ pc \in {"lose", "lost"} /\ pc' \in {"lost", "wait_lost"} /\ UNCHANGED <<radio_alone, batch>>
      /\ \/ requests' = <<>> /\ latest' = Free /\ published' = published
         \/ /\ UNCHANGED <<requests, latest>>
            /\ published' = [published EXCEPT !.state = seen, !.valid = FALSE]
  BY DEF DropRequests, PublishLost, Publish, Notice, Go, radio, radio_alone, news
<1>2. Formed'
  <2>1. /\ requests' \in Seq(Asked) /\ batch' \in Seq(Asked) /\ (latest' = latest \/ latest' = Free)
    BY <1>1, NoQueue DEF ServeInv, Formed
  <2>2. published' = [state |-> published'.state, valid |-> published'.valid,
                      receiver |-> published'.receiver]
    BY <1>1 DEF ServeInv, Formed
  <2>3. QED
    BY <1>1, <2>1, <2>2, Quiet, FormedKept DEF ServeInv
<1>3. Current' /\ InHand'
  BY <1>1 DEF ServeInv, Current, InHand, Settled, Busy
<1>4. Binding'
  BY <1>1, Quiet, BindingKept, NothingBinds DEF ServeInv
<1>5. QED
  BY <1>1, <1>2, <1>3, <1>4, Quiet DEF ServeInv
-----------------------------------------------------------------------------
\* The next setting of the batch goes to the ESP, or the batch is done.
LEMMA RequestedStep == ASSUME ServeInv, Request PROVE ServeInv'
<1>1. /\ pc = "set" /\ UNCHANGED <<batch, tagged, requests, published, latest>>
      /\ \/ batch = <<>> /\ pc' = "reread" /\ UNCHANGED radio
         \/ batch # <<>> /\ pc' = "setting" /\ RadioSet(Head(batch).op, Head(batch).value)
  BY DEF Request, AfterBatch, Go, news
<1>2. CASE batch = <<>> /\ pc' = "reread" /\ UNCHANGED radio
  <2>1. UNCHANGED <<radio_alone, settings, previous, phase, trying, reply>>
    BY <1>2 DEF radio, radio_alone
  <2>2. RadioInv' /\ Formed' /\ AtWork'
    <3>1. phase = "idle"
      BY <1>1 DEF ServeInv, AtWork
    <3>2. QED
      BY <1>1, <2>1, <3>1, Quiet DEF ServeInv, Formed
  <2>3. Current' /\ InHand' /\ Binding'
    BY <1>1, <1>2, <2>1, BindingKept DEF ServeInv, Current, InHand, Settled, Busy
  <2>4. QED
    BY <2>2, <2>3 DEF ServeInv
<1>3. CASE batch # <<>> /\ pc' = "setting" /\ RadioSet(Head(batch).op, Head(batch).value)
  <2> DEFINE h == Head(batch)
  <2>1. h \in Asked /\ h.op \in Ops
    BY <1>3, ServeAssumption, HeadTailProperties DEF ServeInv, Formed, ServeAssumption, Ops
  <2>2. RadioInv'
    BY <1>3, <2>1, RequestStep DEF ServeInv, Requests, Ops
  <2>3. \/ /\ reply' \in {"not_ready", "bad_argument"} /\ phase' = "idle"
           /\ UNCHANGED <<settings, previous>>
        \/ /\ previous' = settings /\ settings' = [settings EXCEPT ![h.op] = h.value]
           /\ trying' = "set" /\ phase' = "release"
    BY <1>3 DEF RadioSet
  <2>4. /\ settings = [op \in Ops |-> settings[op]] /\ previous = [op \in Ops |-> previous[op]]
    BY DEF ServeInv, Formed
  <2>5. /\ settings' = [op \in Ops |-> settings'[op]] /\ previous' = [op \in Ops |-> previous'[op]]
        /\ \A op \in Ops \ {h.op} : settings'[op] = settings[op] /\ (phase' # "idle" => previous'[op] = settings'[op])
        /\ phase' # "idle" => settings'[h.op] = h.value
    BY <2>1, <2>3, <2>4
  <2>6. Formed'
    BY <1>1, <2>5 DEF ServeInv, Formed, Ops
  <2>7. AtWork' /\ Current'
    BY <1>3, <2>3 DEF AtWork, Current, Settled
  <2>8. InHand'
    BY <1>1, <1>3, <2>3, <2>5 DEF InHand, Busy, Ops
  <2>9. Binding'
    <3>1. h.op \in Named(batch)
      BY <1>3, Tails DEF ServeInv, Formed, Named
    <3>2. QED
      BY <1>1, <2>5, <3>1 DEF ServeInv, Binding, Ops
  <2>10. QED
    BY <2>2, <2>6, <2>7, <2>8, <2>9 DEF ServeInv
<1>4. QED
  BY <1>1, <1>2, <1>3

\* What any step of the ESP does to the settings: a setting ends as it was
\* asked for or is taken back, and the answer tells which.
LEMMA EspEffect ==
    ASSUME ForWhom, Reconfiguring
    PROVE  /\ phase # "idle" /\ previous' = previous
           /\ \/ phase' # "idle" /\ settings' = settings /\ trying' = trying
              \/ /\ trying = "set" /\ phase' # "idle" /\ settings' = previous /\ trying' = "undo"
              \/ /\ phase' = "idle" /\ settings' = settings
                 /\ trying = "undo" => reply' = "failed"
<1> DEFINE Effect == \/ phase' # "idle" /\ settings' = settings /\ trying' = trying
                     \/ /\ trying = "set" /\ phase' # "idle" /\ settings' = previous /\ trying' = "undo"
                     \/ /\ phase' = "idle" /\ settings' = settings
                        /\ trying = "undo" => reply' = "failed"
<1>1. ASSUME NEW status, Conclude(status) PROVE Effect
  BY <1>1, Concluding
<1>2. ASSUME NEW place, place # "idle", Proceed(place) PROVE Effect
  BY <1>2 DEF Proceed
<1>3. CASE PowerUp
  BY <1>3 DEF PowerUp, Proceed, ForWhom
<1>4. CASE Release
  BY <1>1, <1>2, <1>4 DEF Release
<1>5. CASE Tune
  BY <1>1, <1>2, <1>5 DEF Tune
<1>6. CASE Configure
  BY <1>1, <1>2, <1>6 DEF Configure
<1>7. CASE SelectMode
  BY <1>1, <1>7 DEF SelectMode
<1>8. Effect
  BY <1>3, <1>4, <1>5, <1>6, <1>7 DEF Reconfiguring
<1>9. phase # "idle" /\ previous' = previous
  BY DEF Reconfiguring, PowerUp, Release, Tune, Configure, SelectMode
<1>10. QED
  BY <1>8, <1>9

LEMMA EspStep == ASSUME ServeInv, Esp PROVE ServeInv'
<1>1. /\ Reconfiguring /\ UNCHANGED <<pc, batch, tagged, requests, published, latest>>
  BY DEF Esp, capture, news
<1>2. RadioInv'
  BY <1>1, PowerUpStep, ReleaseStep, TuneStep, ConfigureStep, SelectModeStep DEF ServeInv, Reconfiguring
<1>3. /\ phase # "idle" /\ previous' = previous
      /\ \/ phase' # "idle" /\ settings' = settings /\ trying' = trying
         \/ /\ trying = "set" /\ phase' # "idle" /\ settings' = previous /\ trying' = "undo"
         \/ /\ phase' = "idle" /\ settings' = settings
            /\ trying = "undo" => reply' = "failed"
  BY <1>1, EspEffect DEF ServeInv, RadioInv
<1>4. \/ pc = "open" /\ trying = "boot"
      \/ pc = "setting" /\ trying \in {"set", "undo"}
  BY <1>3 DEF ServeInv, AtWork
<1>5. Formed'
  BY <1>1, <1>3 DEF ServeInv, Formed, Ops
<1>6. AtWork' /\ Current'
  BY <1>1, <1>3, <1>4 DEF AtWork, Current, Settled
<1>7. InHand'
  BY <1>1, <1>3, <1>4 DEF ServeInv, InHand, Ops, Busy
<1>8. Binding'
  <2>1. CASE settings' = settings
    BY <1>1, <2>1, BindingKept DEF ServeInv
  <2>2. CASE trying = "set" /\ settings' = previous
    <3>1. pc = "setting" /\ batch # <<>> /\ \A op \in Ops \ {Head(batch).op} : previous[op] = settings[op]
      BY <1>3, <1>4, <2>2 DEF ServeInv, InHand
    <3>2. Head(batch).op \in Named(batch)
      BY <3>1, Tails DEF ServeInv, Formed, Named
    <3>3. QED
      BY <1>1, <2>2, <3>1, <3>2 DEF ServeInv, Binding, Ops
  <2>3. QED
    BY <1>3, <2>1, <2>2
<1>9. QED
  BY <1>2, <1>5, <1>6, <1>7, <1>8 DEF ServeInv

(* The inductive invariant of the server and its radio.                    *)
THEOREM ServeInvariant == Spec => []ServeInv
<1>1. ServeInv /\ [Next]_vars => ServeInv'
  <2> SUFFICES ASSUME ServeInv, [Next]_vars PROVE ServeInv'
    OBVIOUS
  <2>1. CASE UNCHANGED vars
    <3>1. UNCHANGED <<radio_alone, pc, batch, tagged, published, requests, latest>>
      BY <2>1 DEF vars, radio, radio_alone, capture, news
    <3>2. QED
      BY <3>1, Bystander
  <2>2. CASE Esp
    BY <2>2, EspStep
  <2>3. CASE phase = "idle" /\ CaptureThread
    BY <2>3, OpenStep, ReadStep, TakeStep, AnnounceStep, RequestedStep, AnsweredStep, LookStep,
       StoppedStep, BeginStep, EndStep, LoseStep DEF CaptureThread
  <2>4. CASE phase = "idle" /\ (EndRun \/ ControlFails)
    BY <2>4, EndStep, FailStep
  <2>5. CASE WebThread \/ Browser \/ GraceEnds
    BY <2>5, WebStep, SetStep DEF WebThread, Browser
  <2>6. QED
    BY <2>1, <2>2, <2>3, <2>4, <2>5 DEF Next, Others
<1>2. QED
  BY ServeStart, <1>1, PTL DEF Spec

(* serve.cpp run_once, apply_settings: whatever was set or went wrong       *)
(* before, the PLL is where the spectrum engine was told it is, and the     *)
(* receiver as it was told.                                                 *)
THEOREM RunsTagged == Spec => []RunAsTagged
<1>1. ServeInv => RunAsTagged
  <2> SUFFICES ASSUME ServeInv, pc = "run"
               PROVE  tagged = Report /\ hw.pll.lo = tagged.lo /\ hw.front = tagged.front
    BY DEF RunAsTagged
  <2>1. tagged = Report /\ Report.radio = OK
    BY DEF ServeInv, Current, Settled
  <2>2. Ready
    BY <2>1 DEF ServeInv, AtWork, Report, Ready
  <2>3. hw.pll.lo = receiver.lo /\ hw.front = settings["front"]
    BY <2>2 DEF ServeInv, RadioInv, Tuned, PllKnown, Pinning, InForce, Written, Ready, OK
  <2>4. QED
    BY <2>1, <2>3 DEF Report
<1>2. QED
  BY <1>1, ServeInvariant, PTL

(* serve.cpp apply_settings, on_text, lose_devices: no setting that was     *)
(* accepted is lost or overtaken on its way from a browser to the radio,    *)
(* but for those the code says it drops.                                    *)
THEOREM SettingsArrive == Spec => []SettingsAsAsked
<1>1. ServeInv => SettingsAsAsked
  <2> SUFFICES ASSUME ServeInv, pc = "run", NEW op \in Ops \ Named(requests), latest[op] # Nothing
               PROVE  settings[op] = latest[op]
    BY DEF SettingsAsAsked
  <2>1. batch = <<>>
    BY DEF ServeInv, InHand, Busy
  <2>2. QED
    BY <2>1 DEF ServeInv, Binding, Named
<1>2. QED
  BY <1>1, ServeInvariant, PTL
=============================================================================
