------------------------------ MODULE CookStart ------------------------------
(***************************************************************************)
(* Starting an oven or microwave cook: what a cavity may start             *)
(* (registry/capabilities/cook.py), the choices held while it is idle      *)
(* (HeldCook) and the start itself (coordinator.py, async_start_cooking).  *)
(*                                                                         *)
(* A board discards a mode, a setpoint or a cook time written from Ready,  *)
(* so the integration holds them and sends all three with the start.  Two  *)
(* cavities report on their own; the board's modeSpec is the upper one's   *)
(* and is shared with the lower (share_mode_spec), and the last one that   *)
(* had entries stands in for an empty one (with_cached_specs).             *)
(*                                                                         *)
(* A rep is a record of the fields the checks read; a missing field is     *)
(* None.  Cook times are whole minutes.                                    *)
(***************************************************************************)
EXTENDS Integers, FiniteSets

CONSTANTS
    Specs,          \* the modeSpecs in play: [name -> [mode -> entry]]
    Reports,        \* [cavity -> set of reps]: what a cavity may report
    Tried,          \* [cavity -> [mode, temperature, duration: values chosen]]
    Given,          \* [cavity -> what an explicit start may be asked for]
    MaxReports,     \* bound: reports after the first poll
    HomeCare,       \* HOMECARE_* codes: flags, not modes
    NeverStartable, \* modes a board without a modeSpec is not offered
    OvenModes,      \* what a board that lists no modes is offered
    MicroModes,     \* modes only a microwave has
    OvenTemps, MicroTemps,  \* the family's static setpoint ranges, per unit
    OpenTimeMax,    \* _OPEN_TIME_MAX, in minutes
    UndeclaredTimeMin,
    None

Cavities == {"upper", "lower"}
Other(c) == IF c = "upper" THEN "lower" ELSE "upper"

ASSUME CookConstantsOK ==
    /\ DOMAIN Reports = Cavities /\ DOMAIN Tried = Cavities
    /\ MaxReports \in Nat /\ OpenTimeMax \in Nat /\ UndeclaredTimeMin \in Nat
    /\ \A c \in Cavities : \A r \in Reports[c] :
          /\ DOMAIN r = {"spec", "live", "default", "mode", "state", "cavity", "unit", "increment",
                         "desired", "time", "divider", "remote", "zoned"}
          /\ r.zoned = FALSE                \* tagged by share_mode_spec alone
          /\ r.live # None => \A modes \in SUBSET r.live : modes # None

VARIABLES
    rep,         \* [cavity -> the rep of the cache]
    remembered,  \* [cavity -> its last modeSpec that had entries, or None]
    values,      \* [cavity -> what its HeldCook holds]
    madeOn,      \* history: [cavity -> [choice -> the device values it was made on]]
    base,        \* [cavity -> the device values its choices were made on]
    starting,    \* [cavity -> the plan whose PUT is awaited, or None]
    reports      \* how many reports came in

vars == <<rep, remembered, values, base, madeOn, starting, reports>>

Nothing == [mode |-> None, temperature |-> None, duration |-> None]
OrElse(v, w) == IF v = None THEN w ELSE v

-----------------------------------------------------------------------------
(* The board's declaration. *)

(* An entry of modeSpec.  One without any time key takes any cook time,    *)
(* and needs one.                                                          *)
ModeSpec(entry) ==
    [startable    |-> entry.startable,
     temps        |-> entry.temps,
     timeMin      |-> IF entry.timed THEN entry.timeMin ELSE UndeclaredTimeMin,
     timeMax      |-> IF entry.timed THEN entry.timeMax ELSE OpenTimeMax,
     timeDefault  |-> entry.timeDefault,
     timeOptional |-> FALSE]

(* A board with no modeSpec is offered its own live modes, within its      *)
(* family's range if it reports a unit.                                    *)
SpeclessTemps(live) == IF live \cap MicroModes # {} THEN MicroTemps ELSE OvenTemps

SpeclessSpec(r) ==
    [startable    |-> TRUE,
     temps        |-> IF r.unit = None THEN <<>> ELSE SpeclessTemps(r.live),
     timeMin      |-> None,
     timeMax      |-> OpenTimeMax,
     timeDefault  |-> None,
     timeOptional |-> TRUE]

HasEntries(spec)    == spec # None /\ DOMAIN Specs[spec] # {}
SelectableModes(ms) == ms \ HomeCare

(* mode_specs: the modes, and the spec of one.                             *)
Modes(r) == IF r.spec = None
            THEN OrElse(r.live, {}) \ (NeverStartable \cup HomeCare \cup MicroModes)
            ELSE DOMAIN Specs[r.spec]
SpecOf(r, m) == IF r.spec = None THEN SpeclessSpec(r) ELSE ModeSpec(Specs[r.spec][m])

Startable(r, m)   == r.spec = None \/ Specs[r.spec][m].startable
StartableModes(r) == {m \in Modes(r) : Startable(r, m) /\ (r.live = None \/ m \in r.live)}

WithCachedSpecs(rs, cached) ==
    [c \in Cavities |->
        IF cached[c] # None /\ ~HasEntries(rs[c].spec)
        THEN [rs[c] EXCEPT !.spec = cached[c]] ELSE rs[c]]

(* The upper cavity's spec on a lower one that has none.  A lower cavity   *)
(* that lists no cooking mode gets those tagged Lower, none with its       *)
(* divider out, and the upper cavity no longer offers them.                *)
ShareModeSpec(rs) ==
    LET main    == rs["upper"]
        low     == rs["lower"]
        tagged  == {m \in DOMAIN Specs[main.spec] : Specs[main.spec][m].lower}
        offered == IF main.live = None THEN tagged ELSE tagged \cap main.live
        zoned   == tagged # {} /\ low.live # None /\ SelectableModes(low.live) = {}
        shared  == [low EXCEPT !.spec = main.spec]
    IN IF ~HasEntries(main.spec) \/ HasEntries(low.spec) THEN rs
       ELSE IF ~zoned THEN [rs EXCEPT !["lower"] = shared]
       ELSE [upper |-> IF main.live = None THEN main
                       ELSE [main EXCEPT !.live = @ \ tagged],
             lower |-> [shared EXCEPT
                          !.live  = IF low.divider = "Off" THEN {} ELSE offered,
                          !.zoned = TRUE]]

CookView == ShareModeSpec(WithCachedSpecs(rep, remembered))

IsIdle(r) ==
    /\ r.state = "Ready"
    /\ r.cavity \in {None, "Ready"}
    /\ r.mode \in {None, "NoOperation"}

-----------------------------------------------------------------------------
(* Checking a start: plan_start. *)

Step(temp, r) == IF temp.step # None THEN temp.step
                 ELSE IF r.increment # None /\ r.increment > 0 THEN r.increment ELSE 1

(* Python's round(a / b): to the nearest, a half to the even one.          *)
RoundDiv(a, b) ==
    LET q == a \div b
        r == 2 * (a % b)
    IN IF r < b \/ (r = b /\ q % 2 = 0) THEN q ELSE q + 1

Refused(key)      == [error |-> key, mode |-> None, temperature |-> None, duration |-> None]
Planned(m, t, d)  == [error |-> "none", mode |-> m, temperature |-> t, duration |-> d]

TempOf(spec, r) == IF r.unit \in DOMAIN spec.temps THEN spec.temps[r.unit] ELSE None

(* _check_temperature: [error, value].                                     *)
CheckTemperature(temp, t, r, complete) ==
    LET step  == Step(temp, r)
        value == temp.min + RoundDiv(t - temp.min, step) * step
    IN IF t = None THEN
           IF temp.default = None /\ complete
           THEN [error |-> "cook_temperature_required", value |-> None]
           ELSE [error |-> "none", value |-> temp.default]
       ELSE IF temp.choices # {} THEN
           IF t \in temp.choices THEN [error |-> "none", value |-> t]
           ELSE [error |-> "cook_temperature_not_a_choice", value |-> None]
       ELSE IF value \in temp.min..temp.max THEN [error |-> "none", value |-> value]
       ELSE [error |-> "cook_temperature_out_of_range", value |-> None]

CheckTemp(spec, t, r, complete) ==
    IF TempOf(spec, r) # None THEN CheckTemperature(TempOf(spec, r), t, r, complete)
    ELSE IF t = None THEN [error |-> "none", value |-> None]
    ELSE [error |-> "cook_temperature_not_supported", value |-> None]

CheckDuration(spec, d, complete) ==
    LET seconds == OrElse(d, spec.timeDefault)
        lo      == OrElse(spec.timeMin, 0)
    IN IF spec.timeMax = None THEN
           IF d = None THEN [error |-> "none", value |-> None]
           ELSE [error |-> "cook_duration_not_supported", value |-> None]
       ELSE IF seconds = None THEN
           IF ~complete \/ spec.timeOptional THEN [error |-> "none", value |-> None]
           ELSE [error |-> "cook_duration_required", value |-> None]
       ELSE IF seconds \in lo..spec.timeMax THEN [error |-> "none", value |-> seconds]
       ELSE [error |-> "cook_duration_out_of_range", value |-> None]

DefaultMode(r) == IF r.default \in StartableModes(r) THEN r.default ELSE None

PlanStart(r, chosen, complete) ==
    LET mode == OrElse(chosen.mode, DefaultMode(r))
        spec == SpecOf(r, mode)
        temp == CheckTemp(spec, chosen.temperature, r, complete)
        time == CheckDuration(spec, chosen.duration, complete)
    IN IF \A m \in Modes(r) : ~Startable(r, m) THEN Refused("cook_start_not_supported")
       ELSE IF ~IsIdle(r) THEN Refused("cook_start_not_idle")
       ELSE IF mode = None THEN Refused("cook_mode_required")
       ELSE IF mode \notin Modes(r) \/ ~Startable(r, mode)
            THEN Refused("cook_mode_not_startable")
       ELSE IF mode \notin StartableModes(r) THEN Refused("cook_mode_unavailable")
       ELSE IF temp.error # "none" THEN Refused(temp.error)
       ELSE IF time.error # "none" THEN Refused(time.error)
       ELSE Planned(mode, temp.value, time.value)

-----------------------------------------------------------------------------
(* HeldCook. *)

DeviceValues(r) == <<r.mode, r.unit, r.desired, r.time>>

(* Slip: only leaving Ready drops the choices.                             *)
ExpiredUnlessIdle(c, r) == values[c] # Nothing /\ ~IsIdle(r)

Expired(c, r) == values[c] # Nothing /\ (~IsIdle(r) \/ DeviceValues(r) # base[c])

(* _expire: the choices that are still held.                               *)
Kept(c, r) == IF Expired(c, r) THEN Nothing ELSE values[c]

(* The choice added to the kept ones; a different mode drops them.         *)
WithChoice(kept, param, v) ==
    IF param = "mode" /\ kept.mode \notin {None, v}
    THEN [Nothing EXCEPT !.mode = v]
    ELSE [kept EXCEPT ![param] = v]

(* Slip: a choice is checked on its own.                                   *)
HoldAlone(r, kept, param, v) ==
    LET held == WithChoice(kept, param, v)
        plan == PlanStart(r, [[Nothing EXCEPT !.mode = held.mode] EXCEPT ![param] = v], FALSE)
    IN [error |-> plan.error, values |-> IF plan.error = "none" THEN held ELSE kept]

(* hold: [error, values].  With no mode to check against, one startable    *)
(* mode has to accept the whole; it neither chooses it nor rounds.         *)
HoldResult(r, kept, param, v) ==
    LET held == WithChoice(kept, param, v)
        plan == PlanStart(r, held, FALSE)
        someModeAccepts == \E m \in StartableModes(r) :
            PlanStart(r, [held EXCEPT !.mode = m], FALSE).error = "none"
        Normal(k) == IF held[k] = None THEN None ELSE plan[k]
    IN IF plan.error = "none"
       THEN [error |-> "none",
             values |-> [mode |-> held.mode, temperature |-> Normal("temperature"),
                         duration |-> Normal("duration")]]
       ELSE IF plan.error = "cook_mode_required" /\ param # "mode" /\ someModeAccepts
       THEN [error |-> "none", values |-> held]
       ELSE [error |-> plan.error, values |-> kept]

(* Slip: with no mode held, the mode shown stays the reported one.         *)
OverlayHeldOnly(v, r) == [mode |-> OrElse(v.mode, r.mode),
                          temperature |-> OrElse(v.temperature, r.desired),
                          duration |-> OrElse(v.duration, r.time)]

(* overlay: what the entities show of mode, setpoint and cook time with the *)
(* choices v held.                                                         *)
Overlay(v, r) ==
    LET mode == OrElse(v.mode, DefaultMode(r))
        temp == IF mode \in Modes(r) THEN TempOf(SpecOf(r, mode), r) ELSE None
        time == IF mode \in Modes(r) THEN SpecOf(r, mode).timeDefault ELSE None
    IN IF v = Nothing THEN [mode |-> r.mode, temperature |-> r.desired, duration |-> r.time]
       ELSE [mode        |-> OrElse(mode, r.mode),
             temperature |-> OrElse(OrElse(v.temperature, IF temp = None THEN None ELSE temp.default),
                                    r.desired),
             duration    |-> OrElse(OrElse(v.duration, time), r.time)]

(* temp_bounds of the mode shown: the setpoint entity's range.             *)
TempBounds(r, mode) ==
    LET temp == IF mode \in Modes(r) THEN TempOf(SpecOf(r, mode), r) ELSE None
    IN IF temp = None THEN None
       ELSE IF temp.choices # {} THEN None
       ELSE [min |-> temp.min, max |-> temp.max, step |-> Step(temp, r)]

(* _cook_time_bounds of the mode shown: the cook-time entity's range.      *)
TimeBounds(r, mode) ==
    IF r.state # "Ready" \/ mode \notin Modes(r) THEN None
    ELSE IF SpecOf(r, mode).timeMax = None THEN None
    ELSE [min |-> OrElse(SpecOf(r, mode).timeMin, 0), max |-> SpecOf(r, mode).timeMax]

(* _oven_mode_options: what the mode select lists, beside the idle state   *)
(* and a program started at the panel.                                     *)
ModeChoices(r) ==
    IF r.spec = None THEN StartableModes(r)
    ELSE IF OrElse(r.live, {}) = {} /\ ~r.zoned THEN OvenModes
    ELSE SelectableModes(OrElse(r.live, {}))

(* Smart Control of the cavity written: its own copy if it reports one.    *)
RemoteControlEnabled(c) == OrElse(OrElse(rep[c].remote, rep["upper"].remote), TRUE)

-----------------------------------------------------------------------------
(* Actions. *)

Init ==
    /\ rep \in [Cavities -> UNION {Reports[c] : c \in Cavities}]
    /\ \A c \in Cavities : rep[c] \in Reports[c]
    /\ remembered = [c \in Cavities |-> IF HasEntries(rep[c].spec) THEN rep[c].spec ELSE None]
    /\ values = [c \in Cavities |-> Nothing]
    /\ base = [c \in Cavities |-> None]
    /\ madeOn = [c \in Cavities |-> Nothing]
    /\ starting = [c \in Cavities |-> None]
    /\ reports = 0

(* _remember_mode_spec: the last modeSpec with entries.                    *)
RememberModeSpec(c, new) ==
    remembered' = IF HasEntries(new.spec) THEN [remembered EXCEPT ![c] = new.spec]
                                          ELSE remembered

Report(c) ==
    /\ reports < MaxReports
    /\ \E new \in Reports[c] \ {rep[c]} :
           rep' = [rep EXCEPT ![c] = new] /\ RememberModeSpec(c, new)
    /\ reports' = reports + 1
    /\ UNCHANGED <<values, base, madeOn, starting>>

(* The held choices of c become `held`, made on the device values of r if  *)
(* none was held; `chosen` are those made now.                             *)
SetHeld(c, r, held, chosen) ==
    /\ madeOn' = [madeOn EXCEPT ![c] = [p \in DOMAIN Nothing |->
                      IF held[p] = None THEN None
                      ELSE IF p \in chosen THEN DeviceValues(r) ELSE @[p]]]
    /\ values' = [values EXCEPT ![c] = held]
    /\ base' = [base EXCEPT ![c] = IF held = Nothing THEN None
                                   ELSE IF Kept(c, r) = Nothing THEN DeviceValues(r)
                                   ELSE @]

(* A mode, setpoint or cook time of an idle cavity that can start          *)
(* something is held; anything else is written through.  A refusal still   *)
(* drops what has expired.                                                 *)
HoldsCook(r) == IsIdle(r) /\ StartableModes(r) # {}

Hold(c, param, v) == \E r \in {CookView[c]} :
    /\ HoldsCook(r)
    /\ param = "mode" => v \in ModeChoices(r)
    /\ \E result \in {HoldResult(r, Kept(c, r), param, v)} : SetHeld(c, r, result.values, IF result.error = "none" THEN {param} ELSE {})
    /\ UNCHANGED <<rep, remembered, starting, reports>>

(* A view is built: overlay drops what has expired.                        *)
Render(c) ==
    /\ Expired(c, CookView[c])
    /\ SetHeld(c, CookView[c], Nothing, {})
    /\ UNCHANGED <<rep, remembered, starting, reports>>

(* async_start_cooking up to the PUT, of the held choices or of `given`.   *)
Send(c, plan) ==
    /\ RemoteControlEnabled(c)
    /\ starting[c] = None              \* bound: one start of a cavity in flight
    /\ plan.error = "none"
    /\ starting' = [starting EXCEPT ![c] = plan]
    /\ UNCHANGED <<rep, remembered, reports>>

StartHeld(c) == \E r \in {CookView[c]} :
    /\ \E plan \in {PlanStart(r, Kept(c, r), TRUE)} : Send(c, plan)
    /\ SetHeld(c, r, Kept(c, r), {})

StartExplicit(c, given) == \E r \in {CookView[c]} :
    /\ given # Nothing
    /\ \E plan \in {PlanStart(r, given, TRUE)} : Send(c, plan)
    /\ UNCHANGED <<values, base, madeOn>>

(* The PUT was answered: the held choices are cleared.                     *)
StartAnswered(c) ==
    /\ starting[c] # None
    /\ starting' = [starting EXCEPT ![c] = None]
    /\ values' = [values EXCEPT ![c] = Nothing]
    /\ base' = [base EXCEPT ![c] = None]
    /\ madeOn' = [madeOn EXCEPT ![c] = Nothing]
    /\ UNCHANGED <<rep, remembered, reports>>

(* It was refused, or no session carried it: they stay.                    *)
StartFails(c) ==
    /\ starting[c] # None
    /\ starting' = [starting EXCEPT ![c] = None]
    /\ UNCHANGED <<rep, remembered, values, base, madeOn, reports>>

Next == \E c \in Cavities :
    \/ Report(c)
    \/ \E param \in DOMAIN Nothing : \E v \in Tried[c][param] \ {None} : Hold(c, param, v)
    \/ Render(c)
    \/ StartHeld(c)
    \/ \E given \in Given[c] : StartExplicit(c, given)
    \/ StartAnswered(c)
    \/ StartFails(c)

Spec == Init /\ [][Next]_vars

-----------------------------------------------------------------------------
(* What holds. *)

\* What is on the screen is what a start sends: whatever was chosen, in any
\* order, and whatever was reported since, every value of the plan a start
\* of the held choices would send is the one the entities show (issue #473:
\* "`resources` as the start would leave them").  A setpoint held while no
\* mode could be checked is sent on the step of the mode it starts with.
ShownIsSent == \A c \in Cavities : \A r \in {CookView[c]} : \A v \in {Kept(c, r)} :
    \A plan \in {PlanStart(r, v, TRUE)}, shown \in {Overlay(v, r)} :
        v # Nothing /\ plan.error = "none" =>
          /\ shown.mode = plan.mode
          /\ plan.duration # None => shown.duration = plan.duration
          /\ plan.temperature # None =>
                plan.temperature =
                    IF v.temperature = None THEN shown.temperature
                    ELSE CheckTemp(SpecOf(r, plan.mode), shown.temperature, r, TRUE).value

\* All a start of the held choices may be refused for
NotChosenYet == {"none", "cook_mode_required", "cook_temperature_required",
                 "cook_duration_required"}

Chose(c) == rep' = rep /\ values'[c] # values[c] /\ values'[c] # Nothing

\* A choice is accepted only together with those held before it: right after
\* one, a start is refused for what was never chosen and has no default, and
\* for nothing else - never for a value out of range, or one the mode has no
\* use for (issue #473: a rejected start raises, so it must be avoidable).
\* Nor is any value refused that is on the ranges then shown.
ChoicesCanStart == [][\A c \in Cavities : Chose(c) =>
    \A r \in {CookView[c]}, v \in {values'[c]} : \A mode \in {Overlay(v, r).mode} :
    \A temp \in {TempBounds(r, mode)}, time \in {TimeBounds(r, mode)} :
        /\ PlanStart(r, v, TRUE).error \in NotChosenYet
        /\ temp # None => \A t \in {temp.min, temp.min + temp.step, temp.max} :
              t <= temp.max => HoldResult(r, v, "temperature", t).error = "none"
        /\ time # None => \A d \in {time.min, time.max} :
              HoldResult(r, v, "duration", d).error = "none"]_vars

\* Whatever a start of the held choices would send was chosen on the very
\* device values it would start from: a panel turned after any one of the
\* choices drops them all, whether or not a view was built in between.
PanelDropsChoices == \A c \in Cavities : \A r \in {CookView[c]} : \A v \in {Kept(c, r)} :
    \A param \in DOMAIN v : v[param] # None => madeOn[c][param] = DeviceValues(r)

\* With the divider in, a mode belongs to one cavity: none is ever startable
\* through both collections, whatever each cavity last reported and whatever
\* spec stands in for a missing one ("a Lower mode started through /device/0
\* answered OK and never ran", issue #597).
OneCavityPerMode ==
    CookView["lower"].zoned /\ rep["upper"].live # None =>
        StartableModes(CookView["upper"]) \cap StartableModes(CookView["lower"]) = {}

\* What the cook entities show is what a start sends, and to the one cavity
\* that has the mode.
CooksAsShown == ShownIsSent /\ OneCavityPerMode

=============================================================================
