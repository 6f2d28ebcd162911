-------------------------------- MODULE Climate --------------------------------
(***************************************************************************)
(* The climate entity of an air conditioner (climate.py) and the settings  *)
(* beside it that share its resources (capabilities/airconditioner.py).    *)
(* One card reads power, mode, fan, swing, preset and temperature from     *)
(* several resources, of two generations of boards, in codes of each       *)
(* board's own; one call of the card may be several commands, with a pause *)
(* between them, while the remote control and other calls go on.           *)
(*                                                                         *)
(* The appliance is modelled by what was measured of it, as the comments   *)
(* of the code record: what it drops, and what it changes by itself.       *)
(***************************************************************************)
EXTENDS Naturals, Sequences, FiniteSets

CONSTANTS
    None,
    Boards,     \* the boards: see BoardOK
    Temps,      \* setpoints asked for, in tenths of a degree
    Hours,      \* sleep timers asked for, in half hours
    Slots,      \* calls that may be under way at the same time
    Budgets     \* bounds: [calls, moves, faults]

AIComfort == "AIComfort"

\* _DEVICE_TO_HVAC, in its order where that matters
DeviceToHvac ==
    [Cool |-> "cool", IndoorDehumidification |-> "dry", Dry |-> "dry",
     Purification |-> "fan_only", Ventilation |-> "fan_only", SmartVentilation |-> "fan_only",
     AutoVentilation |-> "fan_only", FreshAirIntake |-> "fan_only",
     IndoorPurification |-> "fan_only", Fan |-> "fan_only", Wind |-> "fan_only",
     Auto |-> "auto", Heat |-> "heat"]
HvacToDevice ==
    [cool |-> "Cool", dry |-> "Dry", fan_only |-> "Wind", auto |-> "Auto", heat |-> "Heat"]
DeviceToFan == [c \in {"0", "1", "2", "3", "4"} |->
    CASE c = "0" -> "auto" [] c = "1" -> "low" [] c = "2" -> "medium"
      [] c = "3" -> "high" [] c = "4" -> "turbo"]
DeviceToSwing ==
    [Fix |-> "off", All |-> "both", Up_And_Low |-> "vertical", Left_And_Right |-> "horizontal"]

Elems(s) == {s[i] : i \in DOMAIN s}
\* Of the entries at these positions, the first
FirstIn(s, positions) == s[CHOOSE i \in positions : \A j \in positions : i <= j]
Inverted(f, v) == CHOOSE c \in DOMAIN f : f[c] = v

\* The presets of the legacy boards, and the codes the boards have in common
LegacyCodes ==
    {"Off", "Nano", "Quiet", "Comfort", "2Step", "Speed", "DlightCool", "Smart", "Sleep", "NanoSleep"}
Codes ==
    DOMAIN DeviceToHvac \union {AIComfort} \union DOMAIN DeviceToFan \union DOMAIN DeviceToSwing
    \union LegacyCodes \union {"Mute", "33", "100"}

\* legacy: fan and swing in /airflow/vs/0, presets in the options of
\* /mode/vs/0.  code and extended: the maps of what the board has, the
\* readable ones as their set bits.  advertised: the presets it lists, all
\* the ones it can be in.
\* Each code has a name of its own, Off is among the presets a board lists,
\* and one with WindFree, a way of cooling, cools.
BoardOK(b) ==
    /\ b.legacy \in BOOLEAN /\ b.pair \in BOOLEAN /\ b.warm \in BOOLEAN
    /\ b.sleeps \in BOOLEAN /\ b.step \in Nat
    /\ b.code = None \/ DOMAIN b.code = {"bits", "readable"}
    /\ b.extended = None \/ DOMAIN b.extended = {"bits", "readable"}
    /\ b.ocf \in Nat \union {None} /\ b.vs \in Nat \union {None}
    /\ b.modes \in Seq(DOMAIN DeviceToHvac \union {AIComfort})
    /\ b.legacy => "Cool" \in Elems(b.modes)
    /\ ~b.legacy =>
         /\ b.fans \in Seq([code : STRING, label : STRING]) /\ b.fans # <<>>
         /\ \A f, g \in Elems(b.fans) : f.code = g.code \/ f.label = g.label => f = g
         /\ \A f \in Elems(b.fans) : f.code # None
         /\ b.swings \in {"none", "oscillation", "direction"}
         /\ b.swings = "direction" => "Fix" \in b.directions
         /\ b.directions \subseteq DOMAIN DeviceToSwing
         /\ "Off" \in b.advertised
    /\ b.advertised \subseteq b.presets
    /\ b.presets \cap {None, "none", "ai_comfort"} = {}

ClimateOK ==
    /\ \A b \in Boards : BoardOK(b)
    /\ Temps \subseteq Nat /\ Hours \subseteq Nat
    /\ None \notin Nat \union BOOLEAN \union Codes
    /\ Budgets \subseteq [calls : Nat, moves : Nat, faults : Nat]

VARIABLES
    board,
    unit,       \* the appliance: on, mode, fan, the vanes, preset, sleep, ocf, vs,
                \* night (its display dark), volume
    seen,       \* what the cache has of it
    learned,    \* presets reported and not advertised
    calls,      \* for each slot, the call under way
    result,     \* the call that just ended, while nothing else has happened
    budget

vars == <<board, unit, seen, learned, calls, result, budget>>

May(what) == budget[what] > 0
Spend(what) == budget' = [budget EXCEPT ![what] = @ - 1]
Idle == [at |-> "idle"]

-----------------------------------------------------------------------------
(* What the board offers *)

\* option_bit: None where the map cannot be read
OptionBit(map, i) == IF map.readable THEN i \in map.bits ELSE None

LegacyPresets == {"Off", "Nano", "Quiet", "Comfort", "2Step", "Speed"}
LegacyKnownHvac == {"Cool", "Heat", "HeatClean", "Dry", "Fan", "Wind", "Auto", AIComfort}

\* _legacy_preset_codes: what the two maps say, where the board has both
LegacyPresetCodes(mode) ==
    IF board.code = None \/ board.extended = None \/ mode \notin LegacyKnownHvac
    THEN LegacyPresets
    ELSE LET cool == mode \in {"Cool", AIComfort}
             heat == mode \in {"Heat", "HeatClean"}
             heats == heat /\ OptionBit(board.code, 12) # FALSE
             nanoMode == IF mode = "Auto" THEN OptionBit(board.extended, 30) # FALSE
                         ELSE ~heat /\ mode # AIComfort
         IN {"Off"}
            \union {c \in {"Nano"} : nanoMode /\ OptionBit(board.extended, 31) # FALSE}
            \union {c \in {"Speed", "Comfort"} : cool \/ heats}
            \union {c \in {"2Step"} : cool}
            \union {c \in {"DlightCool"} : cool /\ OptionBit(board.code, 2) = TRUE}
            \union {c \in {"Quiet"} : (cool \/ heat) /\ OptionBit(board.code, 10) # FALSE}
            \union {c \in {"Smart"} : mode = "Cool"}
            \union {c \in {"Sleep", "NanoSleep"} : (cool \/ heat) /\ board.sleeps}

\* Slip: only what the rules expect
ConvenientByRules(s) ==
    IF board.legacy THEN LegacyPresetCodes(s.mode) ELSE board.advertised \union learned

\* _supported(CONVENIENT_HREF), _legacy_convenient: what it is in is listed
Convenient(s) ==
    IF board.legacy THEN LegacyPresetCodes(s.mode) \union {s.preset}
                    ELSE board.advertised \union learned

\* _supported(MODE_HREF): the bridge leaves Heat out
Modes == IF board.warm /\ "Heat" \notin Elems(board.modes)
         THEN Append(board.modes, "Heat") ELSE board.modes

HvacOf(code) == IF code \in DOMAIN DeviceToHvac THEN DeviceToHvac[code] ELSE "auto"

HvacModes ==
    {"off"} \union {HvacOf(m) : m \in Elems(Modes) \ {AIComfort}}
            \union {h \in {"auto"} : AIComfort \in Elems(Modes)}

\* _wind_strength_label, after the static scale
FanLabel(fan) == IF fan.code \in DOMAIN DeviceToFan THEN DeviceToFan[fan.code] ELSE fan.label
FanModes == IF board.legacy THEN {DeviceToFan[c] : c \in DOMAIN DeviceToFan}
                            ELSE {FanLabel(f) : f \in Elems(board.fans)}

AllSwings == {DeviceToSwing[c] : c \in DOMAIN DeviceToSwing}
SwingModes ==
    IF board.legacy \/ board.swings = "oscillation" THEN AllSwings
    ELSE IF board.swings = "none" THEN {} ELSE {DeviceToSwing[c] : c \in board.directions}

ToHa(code) == IF code = "Off" THEN "none" ELSE code
PresetModes(s) ==
    {ToHa(c) : c \in Convenient(s)} \union {p \in {"ai_comfort"} : AIComfort \in Elems(Modes)}

-----------------------------------------------------------------------------
(* What the card shows *)

Hvac(s) == IF ~s.on THEN "off" ELSE HvacOf(s.mode)

Fan(s) == IF board.legacy THEN DeviceToFan[s.fan]
          ELSE FanLabel(FirstIn(board.fans, {i \in DOMAIN board.fans : board.fans[i].code = s.fan}))

\* _oscillation_swing: two vanes as one word
OscillationSwing(s) ==
    IF s.vertical THEN IF s.horizontal THEN "both" ELSE "vertical"
    ELSE IF s.horizontal THEN "horizontal" ELSE "off"

Swing(s) ==
    CASE board.swings = "none" /\ ~board.legacy -> None
      [] board.swings = "oscillation" /\ ~board.legacy -> OscillationSwing(s)
      [] OTHER -> DeviceToSwing[s.direction]

Preset(s) == IF s.mode = AIComfort THEN "ai_comfort" ELSE ToHa(s.preset)

\* native_target_temperature: the channel that is written, the other one
\* where it has none
Target(s) == IF board.pair THEN IF s.ocf # None THEN s.ocf ELSE s.vs
                           ELSE IF s.vs # None THEN s.vs ELSE s.ocf

-----------------------------------------------------------------------------
(* What a call writes *)

\* _device_code_for_hvac: the mode it is in where that already is one
DeviceCode(s, h) ==
    IF s.mode # AIComfort /\ HvacOf(s.mode) = h THEN s.mode
    ELSE IF \E m \in Elems(Modes) \ {AIComfort} : HvacOf(m) = h
    THEN FirstIn(Modes, {i \in DOMAIN Modes : Modes[i] # AIComfort /\ HvacOf(Modes[i]) = h})
    ELSE IF h = "auto" /\ AIComfort \in Elems(Modes) THEN AIComfort ELSE HvacToDevice[h]

\* async_set_fan_mode: a static code the board lists, or its own label
FanCode(label) ==
    IF \E c \in DOMAIN DeviceToFan :
         DeviceToFan[c] = label /\ (board.legacy \/ \E f \in Elems(board.fans) : f.code = c)
    THEN Inverted(DeviceToFan, label)
    ELSE FirstIn(board.fans, {i \in DOMAIN board.fans : board.fans[i].label = label}).code

\* target_temperature_step: whole degrees where none is advertised
Step == IF board.step = 0 THEN 10 ELSE board.step

\* _quantize_temperature: to the nearest step, halves to the even one
Quantized(t) ==
    LET low == t \div Step
        past == 2 * (t % Step)
    IN Step * IF past > Step \/ (past = Step /\ low % 2 = 1) THEN low + 1 ELSE low

\* Slip: the token of the preset alone
PresetAlone(code, s) == [preset |-> code, sleep |-> None]

\* _preset_options: one slot says both WindFree and the timer; the timer is
\* written along, or the board chooses one
PresetOptions(code, s) ==
    LET running == s.sleep # 0
        slot == IF code = "Nano" /\ running THEN "NanoSleep" ELSE code
    IN [preset |-> slot,
        sleep |-> IF slot \notin {"Sleep", "NanoSleep"} THEN None
                  ELSE IF running THEN s.sleep ELSE 16]

\* _good_sleep_write: the timer with the mode that it is a parameter of
SleepOptions(half, s) ==
    [preset |-> IF s.preset \in {"Nano", "NanoSleep"}
                THEN IF half > 0 THEN "NanoSleep" ELSE "Nano"
                ELSE IF half > 0 THEN "Sleep" ELSE "Off",
     sleep |-> half]

\* _legacy_preset_needs_cool
NeedsCool(code, s) == board.legacy /\ code = "Nano" /\ s.mode = "Auto"

\* A write as its fields: what the cache takes over at once
Written(s, fields) ==
    [f \in DOMAIN s |-> IF f \in DOMAIN fields /\ fields[f] # None THEN fields[f] ELSE s[f]]

\* WindFree does not exist in Auto
Existing(u) ==
    IF board.legacy /\ u.mode = "Auto" /\ u.preset \in {"Nano", "NanoSleep"}
    THEN [u EXCEPT !.preset = "Off", !.sleep = 0] ELSE u

\* What the appliance makes of it.  WindFree in Auto is dropped; over a
\* running timer WindFree alone becomes both, with a duration of the board's
\* own; leaving the sleep modes ends the timer; a setpoint on the channel it
\* does not use is ignored.
Taken(u, fields) ==
    CASE "ocf" \in DOMAIN fields /\ ~board.pair -> {u}
      [] "vs" \in DOMAIN fields /\ board.pair -> {u}
      [] board.legacy /\ "preset" \in DOMAIN fields ->
           IF fields.preset \in {"Nano", "NanoSleep"} /\ u.mode = "Auto" THEN {u}
           ELSE IF fields.sleep # None THEN {Written(u, fields)}
           ELSE IF fields.preset = "Nano" /\ u.sleep > 0
           THEN {[u EXCEPT !.preset = "NanoSleep", !.sleep = 16]}
           ELSE IF fields.preset \in {"Sleep", "NanoSleep"}
           THEN {[u EXCEPT !.preset = fields.preset, !.sleep = 16]}
           ELSE {[u EXCEPT !.preset = fields.preset, !.sleep = 0]}
      [] OTHER -> {Existing(Written(u, fields))}

-----------------------------------------------------------------------------
(* The calls *)

\* async_send_command: the appliance took it and the cache shows it at once;
\* or it was refused, and the call ends
Send(c, fields, then) ==
    \/ /\ unit' \in Taken(unit, fields)
       /\ seen' = Written(seen, fields)
       /\ calls' = [d \in Slots |->
            IF d = c THEN then ELSE IF calls[d].at = "idle" THEN Idle
                                    ELSE [calls[d] EXCEPT !.clean = FALSE]]
       /\ result' = IF then.at = "idle" /\ calls[c].clean THEN calls[c] ELSE None
       /\ UNCHANGED budget
    \/ /\ May("faults") /\ Spend("faults")
       /\ calls' = [calls EXCEPT ![c] = Idle]
       /\ result' = None
       /\ UNCHANGED <<unit, seen>>

\* Nothing is sent
Skip(c, then) ==
    /\ calls' = [calls EXCEPT ![c] = then]
    /\ result' = IF then.at = "idle" /\ calls[c].clean THEN calls[c] ELSE None
    /\ UNCHANGED <<unit, seen, budget>>

AskFor(c, what, hvac, v, at) ==
    calls' = [calls EXCEPT ![c] =
        [what |-> what, hvac |-> hvac, val |-> v, at |-> at,
         code |-> None, clean |-> seen = unit, running |-> unit.sleep # 0,
         ai |-> seen.mode = AIComfort]]

Ask(c) ==
    /\ calls[c].at = "idle" /\ May("calls") /\ Spend("calls")
    /\ \/ \E h \in HvacModes : AskFor(c, "hvac", h, None, "hvac")
       \/ \E t \in Temps : AskFor(c, "temp", None, t, "temp")
       \/ \E h \in {"off"} \union {HvacOf(m) : m \in Elems(board.modes)}, t \in Temps :
            AskFor(c, "temp", h, t, "hvac")
       \/ \E f \in FanModes : AskFor(c, "fan", None, f, "send")
       \/ \E w \in SwingModes : AskFor(c, "swing", None, w, "send")
       \/ \E p \in PresetModes(seen) : AskFor(c, "preset", None, p, "choose")
       \/ \E n \in IF board.legacy /\ board.sleeps THEN Hours ELSE {} :
            AskFor(c, "sleep", None, n, "send")
       \/ \E what \in {"power", "beep", "light"}, p \in BOOLEAN : AskFor(c, what, None, p, "send")
    /\ result' = None
    /\ UNCHANGED <<board, unit, seen, learned>>

\* What follows the mode in async_set_temperature
AfterMode(c) == IF calls[c].what = "temp" THEN [calls[c] EXCEPT !.at = "temp"] ELSE Idle

\* The mode, unless it is in it already
SetMode(c, code) ==
    IF code = seen.mode THEN Skip(c, AfterMode(c)) ELSE Send(c, [mode |-> code], AfterMode(c))

\* async_set_hvac_mode
SetHvacMode(c) ==
    /\ calls[c].at = "hvac"
    /\ IF calls[c].hvac = "off" THEN Send(c, [on |-> FALSE], Idle)
       ELSE \E code \in {DeviceCode(seen, calls[c].hvac)} :
              IF ~seen.on THEN Send(c, [on |-> TRUE], [calls[c] EXCEPT !.at = "mode", !.code = code])
              ELSE SetMode(c, code)
    /\ UNCHANGED <<board, learned>>

SetModeAfterPower(c) ==
    /\ calls[c].at = "mode"
    /\ SetMode(c, calls[c].code)
    /\ UNCHANGED <<board, learned>>

\* Slip: the vendor channel wherever there is one
ChannelByVendor == IF seen.vs # None THEN "vs" ELSE "ocf"

\* _ocf_temp_authoritative
Channel == IF board.pair THEN "ocf" ELSE "vs"

SetTemperature(c) ==
    /\ calls[c].at = "temp"
    /\ Send(c, [f \in {Channel} |-> Quantized(calls[c].val)], Idle)
    /\ UNCHANGED <<board, learned>>

\* async_set_preset_mode: AI comfort is a mode; WindFree in Auto takes Cool
\* and a pause first
ChoosePreset(c) ==
    /\ calls[c].at = "choose"
    /\ IF calls[c].val = "ai_comfort" THEN Send(c, [mode |-> AIComfort], Idle)
       ELSE IF ~\E code \in Convenient(seen) : ToHa(code) = calls[c].val THEN Skip(c, Idle)
       ELSE \E code \in {CHOOSE code \in Convenient(seen) : ToHa(code) = calls[c].val} :
              IF NeedsCool(code, seen)
              THEN Send(c, [mode |-> DeviceCode(seen, "cool")],
                        [calls[c] EXCEPT !.at = "pause", !.code = code])
              ELSE Skip(c, [calls[c] EXCEPT !.at = "preset", !.code = code])
    /\ UNCHANGED <<board, learned>>

Pause(c) ==
    /\ calls[c].at = "pause"
    /\ Skip(c, [calls[c] EXCEPT !.at = "preset"])
    /\ UNCHANGED <<board, learned>>

SetPreset(c) ==
    /\ calls[c].at = "preset"
    /\ Send(c, IF board.legacy THEN PresetOptions(calls[c].code, seen)
               ELSE [preset |-> calls[c].code], Idle)
    /\ UNCHANGED <<board, learned>>

\* _display_light_on, _display_light_write: the token says the display is off
LightToken(on) == ~on

\* _beep_write
BeepToken(on, s) ==
    IF ~on THEN "Mute" ELSE IF s.volume # "Mute" THEN s.volume ELSE "100"

\* The calls of one command
SendOne(c) ==
    /\ calls[c].at = "send"
    /\ \E v \in {calls[c].val} :
        CASE calls[c].what = "fan" -> Send(c, [fan |-> FanCode(v)], Idle)
          [] calls[c].what = "swing" ->
               Send(c, IF board.swings = "oscillation" /\ ~board.legacy
                       THEN [vertical |-> v \in {"vertical", "both"},
                             horizontal |-> v \in {"horizontal", "both"}]
                       ELSE [direction |-> Inverted(DeviceToSwing, v)], Idle)
          [] calls[c].what = "sleep" -> Send(c, SleepOptions(v, seen), Idle)
          [] calls[c].what = "power" -> Send(c, [on |-> v], Idle)
          [] calls[c].what = "beep" -> Send(c, [volume |-> BeepToken(v, seen)], Idle)
          [] calls[c].what = "light" -> Send(c, [night |-> LightToken(v)], Idle)
    /\ UNCHANGED <<board, learned>>

\* A sweep; LearnedModes.observe: a preset reported and not advertised
Sweep ==
    /\ seen # unit
    /\ seen' = unit
    /\ learned' = IF board.legacy \/ board.advertised = {} \/ unit.preset \in board.advertised
                  THEN learned ELSE learned \union {unit.preset}
    /\ UNCHANGED <<board, unit, calls, result, budget>>

\* The remote control
Remote ==
    /\ May("moves") /\ Spend("moves")
    /\ \/ \E m \in Elems(Modes) : unit' = Existing([unit EXCEPT !.mode = m, !.on = TRUE])
       \/ unit' = [unit EXCEPT !.on = ~@]
       \/ \E p \in board.presets, n \in Hours :
            /\ board.legacy => (p \in {"Sleep", "NanoSleep"}) = (n > 0)
            /\ unit' = Existing([unit EXCEPT !.preset = p, !.sleep = IF board.legacy THEN n ELSE 0])
    /\ unit' # unit
    /\ calls' = [d \in Slots |-> IF calls[d].at = "idle" THEN Idle
                                 ELSE [calls[d] EXCEPT !.clean = FALSE]]
    /\ result' = None
    /\ UNCHANGED <<board, seen, learned>>

-----------------------------------------------------------------------------
Init ==
    /\ board \in Boards
    /\ \E m \in Elems(board.modes), on \in BOOLEAN :
        unit = [on |-> on, mode |-> m,
                fan |-> IF board.legacy THEN "0" ELSE board.fans[1].code,
                direction |-> "Fix", vertical |-> FALSE, horizontal |-> FALSE,
                preset |-> "Off", sleep |-> 0, night |-> FALSE, volume |-> "33",
                ocf |-> board.ocf, vs |-> board.vs]
    /\ seen = unit
    /\ learned = {}
    /\ calls = [c \in Slots |-> Idle]
    /\ result = None
    /\ budget \in Budgets

Call(c) ==
    \/ Ask(c) \/ SetHvacMode(c) \/ SetModeAfterPower(c) \/ SetTemperature(c)
    \/ ChoosePreset(c) \/ Pause(c) \/ SetPreset(c) \/ SendOne(c)

Next == (\E c \in Slots : Call(c)) \/ Sweep \/ Remote

Spec == Init /\ [][Next]_vars

-----------------------------------------------------------------------------
(* Properties *)

\* What the card shows is among what it offers, once the appliance was read:
\* Home Assistant allows no other preset (_legacy_convenient, learned.py),
\* and the same goes for mode, fan and swing.
ShownIsOffered ==
    /\ Hvac(seen) \in HvacModes
    /\ Fan(seen) \in FanModes
    /\ Swing(seen) \in SwingModes \union {None}
    /\ Preset(seen) \in PresetModes(seen)

\* What a call asked for is what the card shows of the appliance.  WindFree
\* over a running timer is both; in AI comfort the presets are not shown.
Shown(r) ==
    /\ r.hvac # None => Hvac(unit) = r.hvac
    /\ r.what = "temp" /\ r.hvac # "off" =>
         \E off \in {IF Target(unit) >= r.val THEN Target(unit) - r.val
                     ELSE r.val - Target(unit)} :
           /\ 2 * off <= Step
           /\ Target(unit) % Step = 0
    /\ r.what = "fan" => Fan(unit) = r.val
    /\ r.what = "swing" => Swing(unit) = r.val
    /\ r.what = "preset" /\ (~r.ai \/ r.val = "ai_comfort") =>
         Preset(unit) = IF r.val = "Nano" /\ board.legacy /\ r.running
                        THEN "NanoSleep" ELSE r.val
    /\ r.what = "sleep" => unit.sleep = r.val
    /\ r.what = "power" => unit.on = r.val
    /\ r.what = "light" => unit.night = ~r.val
    /\ r.what = "beep" => (unit.volume # "Mute") = r.val

\* A call that was answered, with nothing in between, shows what was chosen
\* as soon as the appliance is read: through its codes, its two temperature
\* channels, its vanes, the Cool it needs for WindFree, and in whole steps.
ChosenIsShown == result # None => Shown(result)

\* Choosing WindFree or a sleep mode leaves the duration of a running timer
\* as it is, also where the timer was set while the choice waited for Cool
\* (_preset_options: "silently turning the user's two hours into eight").
TimerKept ==
    [][\A c \in Slots :
        /\ calls[c].at = "preset" /\ calls[c].code \in {"Nano", "Sleep", "NanoSleep"}
        /\ calls'[c].at = "idle" /\ board.legacy
        /\ unit.sleep > 0 /\ seen.sleep = unit.sleep
        => unit'.sleep = unit.sleep]_vars

\* Turning it on in the mode it is in does not swap that mode for another of
\* the same kind (_device_code_for_hvac).
ModeNotSwapped ==
    [][\A c \in Slots :
        /\ calls[c].at \in {"hvac", "mode"} /\ calls[c].clean
        /\ unit.mode # AIComfort /\ HvacOf(unit.mode) = calls[c].hvac
        /\ calls'[c].at # calls[c].at
        => unit'.mode = unit.mode]_vars

\* Switching the beep off and on again gives back the level it had
\* (_beep_write: "so a user's intermediate setting survives an off/on cycle").
BeepLevelKept == unit.volume \in {"33", "Mute"}

=============================================================================
