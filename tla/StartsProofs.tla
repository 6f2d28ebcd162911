----------------------------- MODULE StartsProofs -----------------------------
(***************************************************************************)
(* Cook starts and the 8888 bridge, each proved for every value of its     *)
(* constants.  Cook starts: any modeSpecs, reports and choices, and any    *)
(* number of them; the choices held were made on the values the appliance  *)
(* still has, what is shown is what is sent, and a mode belongs to one     *)
(* cavity.  The bridge: any appliances and commands, any number of writes, *)
(* sweeps, lost answers and uses of the panel; what is shown is over the   *)
(* last sweep, a start accepted ran, an oven is sent one Run, a washer     *)
(* runs what was shown, and a stop leaves an idle one alone.               *)
(***************************************************************************)
EXTENDS StartParts, TLAPS

-----------------------------------------------------------------------------
(* Cook starts. *)

Params == {"mode", "temperature", "duration"}

\* A choice of each kind, made or not, with whatever values
IsChoice(v) ==
    v = [mode |-> v.mode, temperature |-> v.temperature, duration |-> v.duration]

Shaped ==
    /\ DOMAIN values = Cavities /\ DOMAIN madeOn = Cavities /\ DOMAIN base = Cavities
    /\ values = [c \in Cavities |-> values[c]]
    /\ madeOn = [c \in Cavities |-> madeOn[c]]
    /\ base = [c \in Cavities |-> base[c]]
    /\ \A c \in Cavities : IsChoice(values[c])

\* The choices of a cavity were all made on the values it is held against.
MadeOnBase == \A c \in Cavities : \A p \in Params : values[c][p] # None => madeOn[c][p] = base[c]

Reported == rep = [c \in Cavities |-> rep[c]] /\ \A c \in Cavities : rep[c] \in Reports[c]

IInv == Shaped /\ MadeOnBase /\ Reported

-----------------------------------------------------------------------------
(* HeldCook. *)

LEMMA NothingIsAChoice ==
    /\ IsChoice(Nothing) /\ DOMAIN Nothing = Params
    /\ \A p \in Params : Nothing[p] = None
BY DEF IsChoice, Nothing, Params

LEMMA ChoiceParams ==
    ASSUME NEW v, IsChoice(v)
    PROVE  DOMAIN v = Params
BY DEF IsChoice, Params

\* A choice adds itself to the kept ones, and no other
LEMMA WithChoiceAdds ==
    ASSUME NEW kept, IsChoice(kept), NEW param \in Params, NEW v
    PROVE  /\ IsChoice(WithChoice(kept, param, v))
           /\ \A p \in Params \ {param} :
                WithChoice(kept, param, v)[p] # None => kept[p] # None
<1>1. CASE param = "mode" /\ kept.mode \notin {None, v}
  BY <1>1 DEF WithChoice, IsChoice, Nothing, Params
<1>2. CASE ~(param = "mode" /\ kept.mode \notin {None, v})
  BY <1>2 DEF WithChoice, IsChoice, Params
<1> QED  BY <1>1, <1>2

LEMMA HoldAdds ==
    ASSUME NEW r, NEW kept, IsChoice(kept), NEW param \in Params, NEW v
    PROVE  LET answer == HoldResult(r, kept, param, v)
           IN  /\ IsChoice(answer.values)
               /\ \A p \in Params :
                    (p # param \/ answer.error # "none") /\ answer.values[p] # None =>
                        kept[p] # None
<1> DEFINE held == WithChoice(kept, param, v)
           plan == PlanStart(r, held, FALSE)
           answer == HoldResult(r, kept, param, v)
           Normal(k) == IF held[k] = None THEN None ELSE plan[k]
           normal == [mode |-> held.mode, temperature |-> Normal("temperature"),
                      duration |-> Normal("duration")]
<1>1. IsChoice(held) /\ \A p \in Params \ {param} : held[p] # None => kept[p] # None
  BY WithChoiceAdds
<1>2. IsChoice(normal) /\ \A p \in Params : normal[p] # None => held[p] # None
  <2> HIDE DEF held, plan
  <2>1. IsChoice(normal)
    BY DEF IsChoice
  <2>2. /\ normal["mode"] = held["mode"]
        /\ normal["temperature"] # None => held["temperature"] # None
        /\ normal["duration"] # None => held["duration"] # None
    OBVIOUS
  <2> QED  BY <2>1, <2>2 DEF Params
<1>3. \/ answer = [error |-> "none", values |-> normal]
      \/ answer = [error |-> "none", values |-> held]
      \/ answer = [error |-> plan.error, values |-> kept]
  BY DEF HoldResult
<1> HIDE DEF held, plan, normal, answer
<1>4. CASE answer = [error |-> "none", values |-> normal]
  BY <1>1, <1>2, <1>4 DEF answer
<1>5. CASE answer = [error |-> "none", values |-> held]
  BY <1>1, <1>5 DEF answer
<1>6. CASE answer = [error |-> plan.error, values |-> kept]
  BY <1>6 DEF answer
<1> QED  BY <1>3, <1>4, <1>5, <1>6

LEMMA KeptChoice ==
    ASSUME IInv, NEW c \in Cavities, NEW r
    PROVE  /\ IsChoice(Kept(c, r))
           /\ Kept(c, r) # Nothing => Kept(c, r) = values[c] /\ DeviceValues(r) = base[c]
BY NothingIsAChoice DEF IInv, Shaped, Kept, Expired

\* What is held next: of the kept choices, and of those made now.
LEMMA SetHeldKeeps ==
    ASSUME IInv, NEW c \in Cavities, NEW r, NEW held, NEW chosen, IsChoice(held),
           \A p \in Params \ chosen : held[p] # None => Kept(c, r)[p] # None,
           SetHeld(c, r, held, chosen), UNCHANGED rep
    PROVE  IInv'
<1>1. /\ values' = [values EXCEPT ![c] = held]
      /\ base' = [base EXCEPT ![c] = IF held = Nothing THEN None
                                     ELSE IF Kept(c, r) = Nothing THEN DeviceValues(r)
                                     ELSE base[c]]
      /\ madeOn' = [madeOn EXCEPT ![c] = [p \in Params |->
                        IF held[p] = None THEN None
                        ELSE IF p \in chosen THEN DeviceValues(r) ELSE madeOn[c][p]]]
  BY NothingIsAChoice DEF SetHeld, IInv, Shaped
<1>2. values'[c] = held /\ \A d \in Cavities \ {c} : values'[d] = values[d]
  BY <1>1 DEF IInv, Shaped
<1>3. /\ \A d \in Cavities \ {c} : base'[d] = base[d] /\ madeOn'[d] = madeOn[d]
      /\ base'[c] = IF held = Nothing THEN None
                    ELSE IF Kept(c, r) = Nothing THEN DeviceValues(r) ELSE base[c]
      /\ \A p \in Params : madeOn'[c][p] = IF held[p] = None THEN None
                                          ELSE IF p \in chosen THEN DeviceValues(r)
                                          ELSE madeOn[c][p]
  BY <1>1 DEF IInv, Shaped
<1>4. Shaped'
  BY <1>1, <1>2 DEF IInv, Shaped
<1>5. ASSUME NEW p \in Params, held[p] # None PROVE madeOn'[c][p] = base'[c]
  <2>1. held # Nothing
    BY <1>5, NothingIsAChoice
  <2>2. CASE Kept(c, r) = Nothing
    BY <1>3, <1>5, <2>1, <2>2, NothingIsAChoice
  <2>3. CASE Kept(c, r) # Nothing
    <3>1. Kept(c, r) = values[c] /\ DeviceValues(r) = base[c]
      BY <2>3, KeptChoice
    <3>2. p \notin chosen => madeOn[c][p] = base[c]
      BY <1>5, <3>1 DEF IInv, MadeOnBase
    <3> QED  BY <1>3, <1>5, <2>1, <2>3, <3>1, <3>2
  <2> QED  BY <2>2, <2>3
<1>6. MadeOnBase'
  BY <1>2, <1>3, <1>5 DEF IInv, MadeOnBase
<1> QED  BY <1>4, <1>6 DEF IInv, Reported

-----------------------------------------------------------------------------
(* The invariant. *)

LEMMA InitEstablishes == Init => IInv
<1> SUFFICES ASSUME Init PROVE IInv
  OBVIOUS
<1>1. Shaped
  BY NothingIsAChoice DEF Init, Shaped
<1>2. MadeOnBase
  BY NothingIsAChoice DEF Init, MadeOnBase
<1>3. Reported
  BY DEF Init, Reported
<1> QED  BY <1>1, <1>2, <1>3 DEF IInv

LEMMA StepKeeps == IInv /\ [Next]_vars => IInv'
<1> SUFFICES ASSUME IInv, [Next]_vars PROVE IInv'
  OBVIOUS
<1>1. ASSUME UNCHANGED <<values, base, madeOn>>, Reported' PROVE IInv'
  BY <1>1 DEF IInv, Shaped, MadeOnBase
<1>2. ASSUME NEW c \in Cavities, Report(c) PROVE IInv'
  <2>1. Reported'
    BY <1>2 DEF Report, IInv, Reported
  <2> QED  BY <1>1, <1>2, <2>1 DEF Report
<1>3. ASSUME NEW c \in Cavities, NEW param \in Params, NEW v, Hold(c, param, v) PROVE IInv'
  <2> DEFINE r == CookView[c]
             answer == HoldResult(r, Kept(c, r), param, v)
  <2>1. /\ SetHeld(c, r, answer.values, IF answer.error = "none" THEN {param} ELSE {})
        /\ UNCHANGED rep
    BY <1>3 DEF Hold
  <2>2. /\ IsChoice(answer.values)
        /\ \A p \in Params :
             (p # param \/ answer.error # "none") /\ answer.values[p] # None =>
                 Kept(c, r)[p] # None
    BY KeptChoice, HoldAdds
  <2> HIDE DEF r, answer
  <2> QED  BY <2>1, <2>2, SetHeldKeeps
<1>4. ASSUME NEW c \in Cavities, Render(c) PROVE IInv'
  BY <1>4, NothingIsAChoice, SetHeldKeeps DEF Render
<1>5. ASSUME NEW c \in Cavities, StartHeld(c) PROVE IInv'
  <2> DEFINE r == CookView[c]
  <2>1. SetHeld(c, r, Kept(c, r), {}) /\ UNCHANGED rep
    BY <1>5 DEF StartHeld, Send
  <2> HIDE DEF r
  <2> QED  BY <2>1, KeptChoice, SetHeldKeeps
<1>6. ASSUME NEW c \in Cavities, NEW given, StartExplicit(c, given) PROVE IInv'
  BY <1>1, <1>6 DEF StartExplicit, Send, IInv, Reported
<1>7. ASSUME NEW c \in Cavities, StartAnswered(c) PROVE IInv'
  <2>1. /\ values' = [values EXCEPT ![c] = Nothing] /\ base' = [base EXCEPT ![c] = None]
        /\ madeOn' = [madeOn EXCEPT ![c] = Nothing] /\ rep' = rep
    BY <1>7 DEF StartAnswered
  <2>2. Shaped'
    BY <2>1, NothingIsAChoice DEF IInv, Shaped
  <2>3. MadeOnBase'
    BY <2>1, NothingIsAChoice DEF IInv, Shaped, MadeOnBase
  <2> QED  BY <2>1, <2>2, <2>3 DEF IInv, Reported
<1>8. ASSUME NEW c \in Cavities, StartFails(c) PROVE IInv'
  BY <1>1, <1>8 DEF StartFails, IInv, Reported
<1>9. CASE UNCHANGED vars
  BY <1>1, <1>9 DEF vars, IInv, Reported
<1>10. DOMAIN Nothing = Params
  BY NothingIsAChoice
<1> QED  BY <1>2, <1>3, <1>4, <1>5, <1>6, <1>7, <1>8, <1>9, <1>10 DEF Next

\* Whatever a start of the held choices would send was chosen on the very
\* device values it would start from: a panel turned after any of the choices
\* drops them all, however many were made and whenever a view was built
\* (HeldCook._expire).
THEOREM PanelDrops == Spec => []PanelDropsChoices
<1>1. IInv => PanelDropsChoices
  <2> SUFFICES ASSUME IInv, NEW c \in Cavities, NEW param \in DOMAIN Kept(c, CookView[c]),
                      Kept(c, CookView[c])[param] # None
               PROVE  madeOn[c][param] = DeviceValues(CookView[c])
    BY DEF PanelDropsChoices
  <2>1. IsChoice(Kept(c, CookView[c])) /\ param \in Params
    BY KeptChoice, ChoiceParams
  <2>2. Kept(c, CookView[c]) = values[c] /\ DeviceValues(CookView[c]) = base[c]
    BY <2>1, KeptChoice, NothingIsAChoice
  <2> QED  BY <2>1, <2>2 DEF IInv, MadeOnBase
<1> QED  BY <1>1, InitEstablishes, StepKeeps, PTL DEF Spec

-----------------------------------------------------------------------------
(* What is shown. *)

\* A start that is planned has a mode that may be started, and its values
\* pass the checks against the spec of that mode.
LEMMA PlannedAsChecked ==
    ASSUME NEW r, NEW v, PlanStart(r, v, TRUE).error = "none"
    PROVE  LET mode == OrElse(v.mode, DefaultMode(r))
               temp == CheckTemp(SpecOf(r, mode), v.temperature, r, TRUE)
               time == CheckDuration(SpecOf(r, mode), v.duration, TRUE)
           IN  /\ mode # None /\ mode \in Modes(r)
               /\ temp.error = "none" /\ time.error = "none"
               /\ PlanStart(r, v, TRUE) = Planned(mode, temp.value, time.value)
<1> DEFINE mode == OrElse(v.mode, DefaultMode(r))
           temp == CheckTemp(SpecOf(r, mode), v.temperature, r, TRUE)
           time == CheckDuration(SpecOf(r, mode), v.duration, TRUE)
<1> HIDE DEF mode, temp, time
<1>1. PlanStart(r, v, TRUE) =
        IF \A m \in Modes(r) : ~Startable(r, m) THEN Refused("cook_start_not_supported")
        ELSE IF ~IsIdle(r) THEN Refused("cook_start_not_idle")
        ELSE IF mode = None THEN Refused("cook_mode_required")
        ELSE IF mode \notin Modes(r) \/ ~Startable(r, mode)
             THEN Refused("cook_mode_not_startable")
        ELSE IF mode \notin StartableModes(r) THEN Refused("cook_mode_unavailable")
        ELSE IF temp.error # "none" THEN Refused(temp.error)
        ELSE IF time.error # "none" THEN Refused(time.error)
        ELSE Planned(mode, temp.value, time.value)
  BY DEF PlanStart, mode, temp, time
<1>2. /\ Refused("cook_start_not_supported").error # "none"
      /\ Refused("cook_start_not_idle").error # "none"
      /\ Refused("cook_mode_required").error # "none"
      /\ Refused("cook_mode_not_startable").error # "none"
      /\ Refused("cook_mode_unavailable").error # "none"
      /\ Refused(temp.error).error = temp.error
      /\ Refused(time.error).error = time.error
  BY DEF Refused
<1>3. PlanStart(r, v, TRUE).error = "none"
  OBVIOUS
<1>4. /\ mode # None /\ mode \in Modes(r) /\ temp.error = "none" /\ time.error = "none"
      /\ PlanStart(r, v, TRUE) = Planned(mode, temp.value, time.value)
  BY <1>1, <1>2, <1>3
<1> QED  BY <1>4 DEF mode, temp, time

\* What ShownIsSent asks of the choices v of a cavity that reports r
Agree(r, v, plan, view) ==
    /\ view.mode = plan.mode
    /\ plan.duration # None => view.duration = plan.duration
    /\ plan.temperature # None =>
          plan.temperature =
              IF v.temperature = None THEN view.temperature
              ELSE CheckTemp(SpecOf(r, plan.mode), view.temperature, r, TRUE).value

LEMMA PlanIsShown ==
    ASSUME NEW r, NEW v, v # Nothing, PlanStart(r, v, TRUE).error = "none"
    PROVE  Agree(r, v, PlanStart(r, v, TRUE), Overlay(v, r))
<1> DEFINE mode == OrElse(v.mode, DefaultMode(r))
           spec == SpecOf(r, mode)
           temp == TempOf(spec, r)
           warm == CheckTemp(spec, v.temperature, r, TRUE)
           timed == CheckDuration(spec, v.duration, TRUE)
           plan == PlanStart(r, v, TRUE)
           view == Overlay(v, r)
<1> HIDE DEF mode, spec, temp, warm, timed, plan, view
<1>1. /\ mode # None /\ mode \in Modes(r) /\ warm.error = "none" /\ timed.error = "none"
      /\ plan = Planned(mode, warm.value, timed.value)
  BY PlannedAsChecked DEF mode, spec, warm, timed, plan
<1>2. plan.mode = mode /\ plan.temperature = warm.value /\ plan.duration = timed.value
  BY <1>1 DEF Planned
<1>3. /\ view.mode = OrElse(mode, r.mode)
      /\ view.temperature = OrElse(OrElse(v.temperature, IF temp = None THEN None ELSE temp.default),
                                    r.desired)
      /\ view.duration = OrElse(OrElse(v.duration, spec.timeDefault), r.time)
  BY <1>1 DEF Overlay, mode, spec, temp, view
<1>4. view.mode = plan.mode
  BY <1>1, <1>2, <1>3 DEF OrElse
<1>5. ASSUME plan.duration # None PROVE view.duration = plan.duration
  <2>1. timed.value \in {None, OrElse(v.duration, spec.timeDefault)}
    BY DEF CheckDuration, timed
  <2> QED  BY <1>2, <1>3, <1>5, <2>1 DEF OrElse
<1>6. ASSUME plan.temperature # None
      PROVE  plan.temperature =
                 IF v.temperature = None THEN view.temperature
                 ELSE CheckTemp(SpecOf(r, plan.mode), view.temperature, r, TRUE).value
  <2>1. CASE v.temperature = None
    <3>1. warm.value # None => temp # None /\ warm.value = temp.default
      BY <1>1, <2>1 DEF CheckTemp, CheckTemperature, temp, warm
    <3>2. view.temperature = temp.default
      BY <1>2, <1>3, <1>6, <2>1, <3>1 DEF OrElse
    <3> QED  BY <1>2, <1>6, <2>1, <3>1, <3>2
  <2>2. CASE v.temperature # None
    <3>1. view.temperature = v.temperature
      BY <1>3, <2>2 DEF OrElse
    <3>2. SpecOf(r, plan.mode) = spec
      BY <1>2 DEF spec
    <3> QED  BY <1>2, <2>2, <3>1, <3>2 DEF warm
  <2> QED  BY <2>1, <2>2
<1>7. Agree(r, v, plan, view)
  BY <1>4, <1>5, <1>6 DEF Agree
<1> QED  BY <1>7 DEF plan, view

-----------------------------------------------------------------------------
(* The two cavities. *)

LEMMA CachedSpecs ==
    ASSUME IInv, NEW c \in Cavities
    PROVE  /\ WithCachedSpecs(rep, remembered)[c].live = rep[c].live
           /\ WithCachedSpecs(rep, remembered)[c].zoned = FALSE
           /\ DOMAIN WithCachedSpecs(rep, remembered)[c] = DOMAIN rep[c]
           /\ {"spec", "live", "zoned"} \subseteq DOMAIN rep[c]
<1>1. /\ {"spec", "live", "zoned"} \subseteq DOMAIN rep[c]
      /\ rep[c].zoned = FALSE
  BY CookConstantsOK DEF IInv, Reported
<1> QED  BY <1>1 DEF WithCachedSpecs

\* Modes that are given to the lower cavity are taken from the upper one.
LEMMA ModesParted == IInv => OneCavityPerMode
<1> SUFFICES ASSUME IInv, CookView["lower"].zoned, rep["upper"].live # None
             PROVE  StartableModes(CookView["upper"]) \cap StartableModes(CookView["lower"]) = {}
  BY DEF OneCavityPerMode
<1> DEFINE rs     == WithCachedSpecs(rep, remembered)
           main   == rs["upper"]
           low    == rs["lower"]
           tagged == {m \in DOMAIN Specs[main.spec] : Specs[main.spec][m].lower}
           given  == IF low.divider = "Off" THEN {} ELSE tagged \cap main.live
<1>1. /\ main.live = rep["upper"].live /\ main.zoned = FALSE /\ low.zoned = FALSE
      /\ {"spec", "live", "zoned"} \subseteq DOMAIN main
      /\ {"spec", "live", "zoned"} \subseteq DOMAIN low
  BY CachedSpecs DEF Cavities
<1>2. \A modes \in SUBSET main.live : modes # None
  BY <1>1, CookConstantsOK DEF IInv, Reported, Cavities
<1>3. rs = [c \in Cavities |-> rs[c]]
  BY DEF WithCachedSpecs
<1> HIDE DEF rs
<1>4. /\ CookView["upper"].live = main.live \ tagged
      /\ CookView["lower"].live = given
  <2>1. CookView = ShareModeSpec(rs)
    BY DEF CookView, rs
  <2>2. CookView # rs
    BY <1>1
  <2>3. CookView # [rs EXCEPT !["lower"] = [low EXCEPT !.spec = main.spec]]
    <3>1. [rs EXCEPT !["lower"] = [low EXCEPT !.spec = main.spec]]["lower"].zoned = FALSE
      BY <1>1, <1>3 DEF Cavities
    <3> QED  BY <3>1
  <2>4. CookView = [upper |-> [main EXCEPT !.live = @ \ tagged],
                    lower |-> [[low EXCEPT !.spec = main.spec] EXCEPT !.live = given, !.zoned = TRUE]]
    BY <1>1, <2>1, <2>2, <2>3 DEF ShareModeSpec
  <2>5. CookView["upper"] = [main EXCEPT !.live = @ \ tagged]
    BY <2>4
  <2>6. CookView["lower"] = [[low EXCEPT !.spec = main.spec] EXCEPT !.live = given, !.zoned = TRUE]
    BY <2>4
  <2> HIDE DEF main, low, tagged, given
  <2> QED  BY <1>1, <2>5, <2>6
<1>5. /\ CookView["upper"].live # None /\ CookView["lower"].live # None
      /\ CookView["lower"].live \subseteq tagged
  BY <1>2, <1>4
<1> HIDE DEF main, low, tagged, given
<1> QED  BY <1>4, <1>5 DEF StartableModes

\* What the cook entities show of the held choices is what a start of them
\* sends, whatever the board declares and reports (HeldCook.overlay against
\* plan_start); and with the divider in no mode can be started through both
\* cavities (share_mode_spec).
THEOREM StartsAsShown == Spec => []CooksAsShown
<1>1. ShownIsSent
  <2>1. \A r, v : v # Nothing /\ PlanStart(r, v, TRUE).error = "none" =>
                     Agree(r, v, PlanStart(r, v, TRUE), Overlay(v, r))
    BY PlanIsShown
  <2> SUFFICES ASSUME NEW c \in Cavities, NEW r \in {CookView[c]}, NEW v \in {Kept(c, r)},
                      NEW plan \in {PlanStart(r, v, TRUE)}, NEW view \in {Overlay(v, r)},
                      v # Nothing, plan.error = "none"
               PROVE  Agree(r, v, plan, view)
    BY DEF ShownIsSent, Agree
  <2>2. plan = PlanStart(r, v, TRUE) /\ view = Overlay(v, r)
    OBVIOUS
  <2>3. Agree(r, v, PlanStart(r, v, TRUE), Overlay(v, r))
    BY <2>1, <2>2
  <2> QED  BY <2>2, <2>3
<1>2. IInv => CooksAsShown
  BY <1>1, ModesParted DEF CooksAsShown
<1> QED  BY <1>2, InitEstablishes, StepKeeps, PTL DEF Spec

-----------------------------------------------------------------------------
(* The 8888 bridge. *)

\* The steps of a write
Steps == {"admit", "clock", "sync", "type", "compose", "put", "stop",
          "composed", "check", "run", "recheck", "oven", "ovenrun"}
Starting == {"composed", "check", "run", "recheck"}

Sweeping ==
    /\ op.call = "sweep"
    /\ DOMAIN op = {"call", "index", "steady", "seen", "pc"}
    /\ op.pc \in {"record", "listing", "sibling"} /\ op.index \in Bridge!Devices
    /\ op.index = 0 => op.pc # "sibling"

Writing ==
    /\ op.call = "write"
    /\ DOMAIN op = {"call", "cmd", "pc", "attempt", "runs", "ran", "dropped", "saw", "expected"}
    /\ op.cmd \in CommandsOf[kind] /\ op.pc \in Steps /\ op.runs \in Nat

Typed ==
    /\ kind \in Kinds /\ panel \in Nat
    /\ world = [i \in Bridge!Devices |-> [state |-> world[i].state, set |-> world[i].set]]
    /\ \A i \in Bridge!Devices : world[i].state \in {"Ready", "Run", "Pause"}
    /\ last = [i \in Bridge!Devices |-> last[i]]
    /\ listed = [i \in Bridge!Devices |-> listed[i]]
    /\ shown = [i \in Bridge!Devices |-> shown[i]]
    /\ \A k \in DOMAIN staged : staged[k] = [value |-> staged[k].value, base |-> staged[k].base]
    /\ divider \in BOOLEAN /\ fresh \subseteq Bridge!Devices
    /\ op = Bridge!NoOp \/ Sweeping \/ Writing

\* What a sweep found of the divider holds until it moves
Divided ==
    /\ kind = "Oven" /\ 0 \in fresh => shown[0] = IF divider THEN "upper" ELSE "whole"
    /\ kind = "Oven" /\ 1 \in fresh => shown[1] = IF divider THEN "lower" ELSE "none"
    /\ kind = "Oven" /\ 0 \in fresh => divided = divider
    /\ 1 \in fresh => listed[1] = divider
    /\ Sweeping /\ op.pc = "sibling" /\ op.steady /\ op.seen # None => (1 \in op.seen <=> divider)
    /\ Writing /\ Bridge!Index = 1 /\ op.pc # "admit" /\ 1 \in fresh => divider

\* Which writes reach which step
Routed ==
    Writing =>
        /\ op.pc \in {"clock", "sync"} => ~Bridge!Starts(op.cmd)
        /\ op.pc = "stop" => Bridge!Sendable = Bridge!StopBody
        /\ op.pc = "put" /\ Bridge!Sendable = Bridge!StopBody => op.saw \notin {None, "Ready"}
        /\ op.pc \in Starting => Bridge!IsStart(Bridge!Sendable) /\ Bridge!Index = 0 /\ kind # "Oven"
        /\ op.pc \in {"oven", "ovenrun"} => kind = "Oven"
        /\ kind = "Oven" => op.runs = 0
        /\ kind = "Oven" /\ op.pc = "put" => ~Bridge!IsStart(Bridge!Sendable)

\* A washer's settings, and what may be held over them
Washed(set) ==
    /\ set = [k \in DOMAIN set |-> set[k]]
    /\ Bridge!TempKey \in DOMAIN set /\ Bridge!StateKey \notin DOMAIN set
    /\ \A c \in CommandsOf["Washer"] : Bridge!HeldOf(c, "Washer") \subseteq DOMAIN set

Washes ==
    kind = "Washer" =>
        /\ \A i \in Bridge!Devices : Washed(world[i].set)
        /\ staged = [k \in DOMAIN staged |-> staged[k]]
        /\ DOMAIN staged \subseteq UNION {Bridge!HeldOf(c, "Washer") : c \in CommandsOf["Washer"]}

\* What a start pressed now would run is what was shown
Expected ==
    kind = "Washer" /\ Writing /\ op.expected # None =>
        /\ Bridge!Idle(0)
        /\ Bridge!IsStart(Bridge!Sendable) /\ world[0].state # "Run" =>
            /\ Bridge!View(staged, world[0].set) = op.expected
            /\ op.pc \in {"put", "check", "run", "recheck"} /\ Bridge!Index = 0 => staged = <<>>

BridgeInv ==
    Typed /\ Divided /\ Routed /\ Washes /\ Expected /\ Bridge!HeldOverReported /\ Bridge!StartRanOnce

-----------------------------------------------------------------------------
(* What a body leaves. *)

LEMMA TakenIs ==
    ASSUME Bridge!BridgeConstantsOK,
           NEW w, w = [state |-> w.state, set |-> w.set],
           NEW body, NEW v \in Bridge!Taken(w, body)
    PROVE  /\ v = [state |-> v.state, set |-> v.set]
           /\ w.state \in {"Ready", "Run", "Pause"} => v.state \in {"Ready", "Run", "Pause"}
           /\ kind = "Washer" /\ Washed(w.set) => Washed(v.set)
           /\ Bridge!IsStart(body) =>
                /\ w.state = "Run" => v.state = "Run"
                /\ w.state # "Run" => v.set = Bridge!Loaded(w.set, body)
           /\ ~Bridge!IsStart(body) /\ w.state # "Run" => v.state # "Run"
           /\ w.state = "Ready" /\ v.state = "Pause" =>
                kind = "Washer" /\ Bridge!StateKey \in DOMAIN body /\ body[Bridge!StateKey] = "Ready"
<1>1. ASSUME NEW set, NEW b, Washed(set)  PROVE Washed(Bridge!Loaded(set, b))
  BY <1>1 DEF Washed, Bridge!Loaded, Bridge!Restrict
<1>2. None # "Run" /\ None # "Ready"
  BY DEF Bridge!BridgeConstantsOK
<1> QED  BY <1>1, <1>2 DEF Bridge!Taken, Bridge!IsStart


\* What may be held for a washer with these settings
Fits(held, set) == held = [k \in DOMAIN held |-> held[k]] /\ DOMAIN held \subseteq DOMAIN set

\* A view replaces heldValues, and adds none
LEMMA ViewIs ==
    ASSUME NEW set, Washed(set), NEW held, Fits(held, set)
    PROVE  Bridge!View(held, set) =
             [k \in DOMAIN set |->
                 IF k = Bridge!TempKey /\ Bridge!CourseKey \in DOMAIN held /\ k \notin DOMAIN held
                 THEN CourseDefault[held[Bridge!CourseKey].value]
                 ELSE IF k \in DOMAIN held THEN held[k].value ELSE set[k]]
<1> DEFINE heldValues == Bridge!HeldValues(held)
           inner == [k \in DOMAIN set |-> IF k \in DOMAIN held THEN held[k].value ELSE set[k]]
<1>1. Bridge!WithStaged(set, heldValues) = inner
  BY DEF Bridge!WithStaged, Bridge!Over, Bridge!Restrict, Bridge!HeldValues, Fits, Washed
<1>2. DOMAIN inner = DOMAIN set /\ Bridge!TempKey \in DOMAIN set
  BY DEF Washed
<1>3. CASE Bridge!CourseKey \in DOMAIN held /\ Bridge!TempKey \notin DOMAIN held
  <2> DEFINE default == [k \in {Bridge!TempKey} |-> CourseDefault[held[Bridge!CourseKey].value]]
  <2>1. Bridge!CourseDefaults(held) = default
    BY <1>3 DEF Bridge!CourseDefaults, Bridge!Only
  <2>2. Bridge!WithStaged(inner, default) =
          [k \in DOMAIN set |-> IF k = Bridge!TempKey
                                THEN CourseDefault[held[Bridge!CourseKey].value] ELSE inner[k]]
    BY <1>2 DEF Bridge!WithStaged, Bridge!Over, Bridge!Restrict
  <2> QED  BY <1>1, <1>3, <2>1, <2>2 DEF Bridge!View
<1>4. CASE ~(Bridge!CourseKey \in DOMAIN held /\ Bridge!TempKey \notin DOMAIN held)
  <2>1. Bridge!CourseDefaults(held) = <<>>
    BY <1>4 DEF Bridge!CourseDefaults
  <2>2. Bridge!WithStaged(inner, <<>>) = inner
    BY DEF Bridge!WithStaged, Bridge!Over, Bridge!Restrict
  <2> QED  BY <1>1, <1>4, <2>1, <2>2 DEF Bridge!View
<1> QED  BY <1>3, <1>4

\* What a composed start loads is what is shown, and loading it again the same
LEMMA LoadedIs ==
    ASSUME NEW set, Washed(set), NEW held, Fits(held, set),
           NEW body, DOMAIN body = {Bridge!StateKey}
    PROVE  /\ Bridge!Loaded(set, Bridge!AddStaged(body, Bridge!HeldValues(held))) = Bridge!View(held, set)
           /\ Bridge!Loaded(set, body) = set
           /\ Bridge!View(<<>>, set) = set
           /\ Washed(Bridge!View(held, set))
           /\ Bridge!View(held, Bridge!View(held, set)) = Bridge!View(held, set)
           /\ Fits(held, Bridge!View(held, set))
<1> DEFINE heldValues == Bridge!HeldValues(held)
           sent == Bridge!AddStaged(body, heldValues)
<1>1. Bridge!CourseKey # Bridge!StateKey
  BY DEF Bridge!CourseKey, Bridge!StateKey
<1>2. /\ DOMAIN sent = DOMAIN held \cup {Bridge!StateKey}
      /\ \A k \in DOMAIN held : sent[k] = held[k].value
  BY DEF Bridge!AddStaged, Bridge!Over, Bridge!HeldValues
<1>3. Bridge!Loaded(set, sent) = Bridge!View(held, set)
  <2>1. CASE Bridge!CourseKey \in DOMAIN held
    <3>1. Bridge!CourseKey \in DOMAIN sent /\ sent[Bridge!CourseKey] = held[Bridge!CourseKey].value
      BY <1>2, <2>1
    <3> QED  BY <1>2, <2>1, <3>1, ViewIs DEF Bridge!Loaded, Bridge!Over, Bridge!Only, Bridge!Restrict, Washed, Fits
  <2>2. CASE Bridge!CourseKey \notin DOMAIN held
    <3>1. Bridge!CourseKey \notin DOMAIN sent
      BY <1>1, <1>2, <2>2
    <3> QED  BY <1>2, <2>2, <3>1, ViewIs DEF Bridge!Loaded, Bridge!Over, Bridge!Restrict, Washed, Fits
  <2> QED  BY <2>1, <2>2
<1>4. Bridge!Loaded(set, body) = set
  BY <1>1 DEF Bridge!Loaded, Bridge!Over, Bridge!Restrict, Washed
<1>5. Fits(<<>>, set) /\ DOMAIN <<>> = {}
  BY DEF Fits
<1>6. Bridge!View(<<>>, set) = set
  BY <1>5, ViewIs DEF Washed
<1>7. Washed(Bridge!View(held, set)) /\ Fits(held, Bridge!View(held, set))
  BY ViewIs DEF Washed, Fits
<1>8. Bridge!View(held, Bridge!View(held, set)) = Bridge!View(held, set)
  <2> DEFINE Over(f) == [k \in DOMAIN f |->
                           IF k = Bridge!TempKey /\ Bridge!CourseKey \in DOMAIN held /\ k \notin DOMAIN held
                           THEN CourseDefault[held[Bridge!CourseKey].value]
                           ELSE IF k \in DOMAIN held THEN held[k].value ELSE f[k]]
  <2>1. Bridge!View(held, set) = Over(set)
    BY ViewIs
  <2>2. Bridge!View(held, Bridge!View(held, set)) = Over(Bridge!View(held, set))
    BY <1>7, ViewIs
  <2>3. Over(Over(set)) = Over(set)
    OBVIOUS
  <2> QED  BY <2>1, <2>2, <2>3
<1> QED  BY <1>3, <1>4, <1>6, <1>7, <1>8


-----------------------------------------------------------------------------
(* The steps of a write. *)

\* What any of them leaves alone, and the call after it
Frame == UNCHANGED <<kind, divider, last, listed, divided, shown, fresh, panel>>
Ends == op' = Bridge!NoOp
Continues ==
    /\ Writing' /\ op'.cmd = op.cmd /\ op'.expected = op.expected
    /\ UNCHANGED result
LEMMA AtWrite ==
    ASSUME BridgeInv, Bridge!BridgeConstantsOK, NEW pc \in Steps, Bridge!At(pc)
    PROVE  Writing /\ op.pc = pc /\ Bridge!Index \in Bridge!Devices
<1>1. Writing
  <2>1. op # Bridge!NoOp
    BY DEF Bridge!At, Bridge!NoOp
  <2>2. ~Sweeping
    BY DEF Sweeping, Bridge!At, Steps
  <2> QED  BY <2>1, <2>2 DEF BridgeInv, Typed
<1> QED  BY <1>1 DEF Writing, Bridge!At, Bridge!Index, Bridge!Cmd, Bridge!BridgeConstantsOK, BridgeInv, Typed

\* The call in progress, but for what it counts
Call(m) ==
    /\ DOMAIN m = {"call", "cmd", "pc", "attempt", "runs", "ran", "dropped", "saw", "expected"}
    /\ m.call = "write" /\ m.cmd = op.cmd /\ m.saw = op.saw /\ m.expected = op.expected
    /\ m.runs \in Nat

LEMMA Raised ==
    ASSUME Writing, UNCHANGED kind, NEW m, Call(m),
           NEW unconfirmed \in BOOLEAN, Bridge!Raise(m, unconfirmed)
    PROVE  /\ \/ /\ Ends
                 /\ result' # None => /\ result' = [outcome |-> result'.outcome, ran |-> m.ran, dropped |-> m.dropped, runs |-> m.runs]
                                      /\ result'.outcome # "ok"
              \/ Continues /\ op'.pc = "admit" /\ op'.runs = m.runs /\ op'.saw = op.saw
           /\ unconfirmed => Ends
<1>1. CASE ~unconfirmed /\ m.attempt = 1
  BY <1>1 DEF Bridge!Raise, Continues, Writing, Steps, Call
<1>2. CASE ~(~unconfirmed /\ m.attempt = 1)
  BY <1>2 DEF Bridge!Raise, Bridge!End, Ends
<1> QED  BY <1>1, <1>2

LEMMA Ended ==
    ASSUME Writing, NEW m, Call(m), NEW outcome,
           Bridge!End(m, outcome)
    PROVE  /\ Ends
           /\ result' # None => Bridge!Starts(op.cmd) /\
                result' = [outcome |-> outcome, ran |-> m.ran, dropped |-> m.dropped, runs |-> m.runs]
BY DEF Bridge!End, Ends, Writing, Call

LEMMA Gone ==
    ASSUME Writing, NEW pc \in Steps, Bridge!Goto(pc), UNCHANGED <<kind, result>>
    PROVE  Continues /\ op'.pc = pc /\ op'.runs = op.runs /\ op'.saw = op.saw
BY DEF Bridge!Goto, Continues, Writing, Steps


\* A step of a write that touches neither the appliance nor what is held
LEMMA QuietStep ==
    ASSUME BridgeInv, Bridge!BridgeConstantsOK, Writing, Frame, UNCHANGED <<world, staged>>,
           (Ends /\ Bridge!StartRanOnce') \/ (Continues /\ Routed'),
           Continues /\ op.pc = "admit" /\ Bridge!Index = 1 => listed[1] # FALSE,
           Continues /\ op'.pc \in {"put", "check", "run", "recheck"} =>
               op.pc \in {"put", "check", "run", "recheck"} \/ op.pc = "stop"
    PROVE  BridgeInv'
<1>1. Typed'
  BY DEF BridgeInv, Typed, Frame, Ends, Continues, Bridge!NoOp
<1>2. Continues => Bridge!Index' = Bridge!Index /\ Bridge!Sendable' = Bridge!Sendable
  BY DEF Continues, Bridge!Index, Bridge!Cmd, Bridge!Sendable, Frame
<1>3. Divided'
  <2>1. CASE Ends
    BY <2>1 DEF BridgeInv, Divided, Frame, Ends, Bridge!NoOp, Sweeping, Writing
  <2>2. CASE Continues
    <3>1. ~Sweeping'
      BY <2>2 DEF Continues, Sweeping, Writing
    <3>2. divider \in BOOLEAN
      BY DEF BridgeInv, Typed
    <3>3. Writing' /\ Bridge!Index' = 1 /\ op'.pc # "admit" /\ 1 \in fresh' => divider'
      BY <1>2, <2>2, <3>2 DEF BridgeInv, Divided, Frame
    <3> QED  BY <3>1, <3>3 DEF BridgeInv, Divided, Frame
  <2> QED  BY <2>1, <2>2
<1>4. Routed'
  BY DEF Routed, Ends, Bridge!NoOp, Writing
<1>5. Washes'
  BY DEF BridgeInv, Washes, Washed, Frame
<1>6. Expected'
  <2>1. CASE Ends
    BY <2>1 DEF Expected, Ends, Bridge!NoOp, Writing
  <2>2. CASE Continues
    <3>1. op.pc = "stop" => ~Bridge!IsStart(Bridge!Sendable)
      BY DEF BridgeInv, Routed, Bridge!IsStart, Bridge!StopBody, Bridge!Only, Bridge!StateKey
    <3>2. Bridge!Idle(0)' = Bridge!Idle(0)
      BY DEF Bridge!Idle, Frame
    <3>3. Bridge!View(staged, world[0].set)' = Bridge!View(staged, world[0].set)
      OBVIOUS
    <3> QED  BY <2>2, <1>2, <3>1, <3>2 DEF BridgeInv, Expected, Frame, Continues
  <2> QED  BY <2>1, <2>2
<1>7. Bridge!HeldOverReported'
  BY DEF BridgeInv, Bridge!HeldOverReported, Frame
<1>8. Bridge!StartRanOnce'
  BY DEF BridgeInv, Bridge!StartRanOnce, Bridge!AcceptedStartRan, Bridge!OvenRunOnce, Continues, Frame
<1> QED  BY <1>1, <1>3, <1>4, <1>5, <1>6, <1>7, <1>8 DEF BridgeInv


\* How a step of a write ends, or goes on: the history stays right if an "ok"
\* comes only of a start that ran, and an oven's runs are none so far.
LEMMA EndKeeps ==
    ASSUME BridgeInv, Writing, Frame, NEW outcome, Bridge!End(op, outcome),
           outcome = "ok" => ~Bridge!Starts(op.cmd)
    PROVE  Ends /\ Bridge!StartRanOnce'
<1>1. Ends /\ (result' # None => /\ Bridge!Starts(op.cmd)
                                 /\ result' = [outcome |-> outcome, ran |-> op.ran,
                                               dropped |-> op.dropped, runs |-> op.runs])
  <2>1. Call(op)
    BY DEF Writing, Call
  <2> QED  BY <2>1, Ended
<1> QED  BY <1>1 DEF BridgeInv, Routed, Frame, Bridge!StartRanOnce, Bridge!AcceptedStartRan, Bridge!OvenRunOnce

LEMMA RaiseKeeps ==
    ASSUME BridgeInv, Writing, Frame, Bridge!Raise(op, FALSE)
    PROVE  \/ Ends /\ Bridge!StartRanOnce'
           \/ Continues /\ op'.pc = "admit" /\ op'.runs = op.runs /\ op'.saw = op.saw
<1>1. Call(op)
  BY DEF Writing, Call
<1>2. CASE Continues /\ op'.pc = "admit" /\ op'.runs = op.runs /\ op'.saw = op.saw
  BY <1>2
<1>3. CASE Ends /\ (result' # None => /\ result' = [outcome |-> result'.outcome, ran |-> op.ran, dropped |-> op.dropped, runs |-> op.runs]
                                      /\ result'.outcome # "ok")
  <2>1. kind' = "Oven" => op.runs = 0
    BY DEF BridgeInv, Routed, Frame
  <2>2. result' # None => result'.outcome # "ok" /\ result'.runs = op.runs
    BY <1>3
  <2> QED  BY <1>3, <2>1, <2>2 DEF Bridge!StartRanOnce, Bridge!AcceptedStartRan, Bridge!OvenRunOnce
<1> QED  BY <1>1, <1>2, <1>3, Raised DEF Frame

LEMMA QuietEnd ==
    ASSUME BridgeInv, Bridge!BridgeConstantsOK, Writing, Frame, UNCHANGED <<world, staged>>,
           Ends, Bridge!StartRanOnce'
    PROVE  BridgeInv'
<1>1. ~Continues
  BY DEF Ends, Continues, Bridge!NoOp, Writing
<1> QED  BY <1>1, QuietStep

\* The same command, one step on
LEMMA QuietOn ==
    ASSUME BridgeInv, Bridge!BridgeConstantsOK, Writing, Frame, UNCHANGED <<world, staged>>,
           Continues, op'.runs = op.runs, op'.pc \in {"admit", "clock", "sync", "type", "compose"},
           op'.pc \in {"clock", "sync"} => ~Bridge!Starts(op.cmd),
           op.pc = "admit" /\ Bridge!Index = 1 => listed[1] # FALSE
    PROVE  BridgeInv'
<1>1. Routed'
  BY DEF BridgeInv, Routed, Continues, Frame, Starting
<1> QED  BY <1>1, QuietStep

LEMMA AdmitKeeps ==
    ASSUME BridgeInv, Bridge!BridgeConstantsOK, Bridge!Admit
    PROVE  BridgeInv'
<1>1. Writing /\ op.pc = "admit" /\ Frame /\ UNCHANGED <<world, staged>>
  BY AtWrite DEF Bridge!Admit, Frame, Steps, Bridge!World, Bridge!State
<1>2. CASE Bridge!Index # 0 /\ listed[Bridge!Index] = FALSE
  <2>1. Bridge!End(op, "forbidden")
    BY <1>2 DEF Bridge!Admit
  <2> QED  BY <1>1, <2>1, EndKeeps, QuietEnd
<1>3. CASE ~(Bridge!Index # 0 /\ listed[Bridge!Index] = FALSE)
  <2>1. Bridge!ClockWrite => ~Bridge!Starts(op.cmd)
    BY DEF Bridge!ClockWrite, Bridge!Starts, Bridge!Cmd
  <2>2. Continues /\ op'.pc \in {"clock", "type"} /\ op'.runs = op.runs /\ (op'.pc = "clock" => Bridge!ClockWrite)
    BY <1>1, <1>3, Gone DEF Bridge!Admit, Frame, Steps
  <2>3. op.pc = "admit" /\ Bridge!Index = 1 => listed[1] # FALSE
    <3>1. Bridge!Index = 1 => Bridge!Index # 0
      OBVIOUS
    <3> QED  BY <1>3, <3>1, Zenon
  <2>4. op'.pc \in {"clock", "sync"} => ~Bridge!Starts(op.cmd)
    BY <2>1, <2>2
  <2> QED  BY <1>1, <2>2, <2>3, <2>4, QuietOn
<1> QED  BY <1>2, <1>3

LEMMA ProbeClockKeeps ==
    ASSUME BridgeInv, Bridge!BridgeConstantsOK, NEW serves \in BOOLEAN, Bridge!ProbeClock(serves)
    PROVE  BridgeInv'
<1>1. Writing /\ op.pc = "clock" /\ Frame /\ UNCHANGED <<world, staged, result>>
  BY AtWrite DEF Bridge!ProbeClock, Frame, Steps, Bridge!World, Bridge!History
<1>2. Continues /\ op'.pc \in {"sync", "type"} /\ op'.runs = op.runs
  BY <1>1, Gone DEF Bridge!ProbeClock, Frame, Steps
<1>3. ~Bridge!Starts(op.cmd)
  BY <1>1 DEF BridgeInv, Routed
<1> QED  BY <1>1, <1>2, <1>3, QuietOn

LEMMA SyncClockKeeps ==
    ASSUME BridgeInv, Bridge!BridgeConstantsOK, Bridge!SyncClock
    PROVE  BridgeInv'
<1>1. Writing /\ op.pc = "sync" /\ Frame /\ UNCHANGED <<world, staged>> /\ ~Bridge!Starts(op.cmd)
  BY AtWrite DEF Bridge!SyncClock, Frame, Steps, Bridge!World, Bridge!State, BridgeInv, Routed
<1>2. CASE Bridge!Raise(op, FALSE)
  BY <1>1, <1>2, RaiseKeeps, QuietEnd, QuietOn
<1>3. ASSUME NEW outcome, Bridge!End(op, outcome)  PROVE BridgeInv'
  BY <1>1, <1>3, EndKeeps, QuietEnd
<1> QED  BY <1>2, <1>3 DEF Bridge!SyncClock

LEMMA LearnTypeKeeps ==
    ASSUME BridgeInv, Bridge!BridgeConstantsOK, Bridge!LearnType
    PROVE  BridgeInv'
<1>1. Writing /\ op.pc = "type" /\ Frame /\ UNCHANGED <<world, staged>>
  BY AtWrite DEF Bridge!LearnType, Frame, Steps, Bridge!World
<1>2. CASE Bridge!Raise(op, FALSE)
  BY <1>1, <1>2, RaiseKeeps, QuietEnd, QuietOn
<1>3. CASE Bridge!End(op, "refused")
  BY <1>1, <1>3, EndKeeps, QuietEnd
<1>4. CASE Bridge!Goto("compose") /\ UNCHANGED result
  <2>1. Continues /\ op'.pc = "compose" /\ op'.runs = op.runs
    BY <1>1, <1>4, Gone DEF Frame, Steps
  <2> QED  BY <1>1, <2>1, QuietOn
<1> QED  BY <1>2, <1>3, <1>4 DEF Bridge!LearnType


LEMMA SaysRun ==
    ASSUME BridgeInv, Bridge!BridgeConstantsOK, Writing
    PROVE  /\ Bridge!Starts(op.cmd) => Bridge!IsStart(Bridge!Sendable)
           /\ ~Bridge!IsStart(Bridge!StopBody)
           /\ Bridge!IsStart(Bridge!Sendable) =>
                /\ kind = "Washer" => /\ DOMAIN Bridge!Sendable = {Bridge!StateKey}
                                      /\ Bridge!HeldOf(op.cmd, kind) = {}
                /\ kind = "Oven" => \E k \in DOMAIN Bridge!Sendable : Bridge!Wrapper(k) = "Mode"
<1>1. op.cmd \in CommandsOf[kind] /\ kind \in Kinds
  BY DEF Writing, BridgeInv, Typed
<1>2. ~Bridge!IsStart(Bridge!StopBody)
  BY DEF Bridge!IsStart, Bridge!StopBody, Bridge!Only
<1>3. ASSUME Bridge!IsStart(Bridge!Sendable), kind = "Washer"
      PROVE  DOMAIN Bridge!Sendable = {Bridge!StateKey} /\ Bridge!HeldOf(op.cmd, kind) = {}
  <2>1. DOMAIN Bridge!Wire(op.cmd, kind) = {Bridge!StateKey}
    BY <1>1, <1>3 DEF Bridge!BridgeConstantsOK, Bridge!CommandsOK, Bridge!Sendable
  <2>2. Bridge!StateKey \in DOMAIN Bridge!Sendable
    BY <1>3 DEF Bridge!IsStart
  <2>3. DOMAIN Bridge!Sendable = DOMAIN Bridge!Wire(op.cmd, kind) \ Bridge!HeldOf(op.cmd, kind)
    BY DEF Bridge!Sendable, Bridge!Sent, Bridge!Restrict
  <2>4. Bridge!HeldOf(op.cmd, kind) \subseteq DOMAIN Bridge!Wire(op.cmd, kind)
    BY DEF Bridge!HeldOf
  <2> QED  BY <2>1, <2>2, <2>3, <2>4
<1> QED  BY <1>1, <1>2, <1>3 DEF Bridge!BridgeConstantsOK, Bridge!CommandsOK, Bridge!Sendable

LEMMA FreshReadKeeps ==
    ASSUME BridgeInv, Bridge!BridgeConstantsOK, Bridge!FreshRead
    PROVE  BridgeInv'
<1>1. Writing /\ op.pc = "stop" /\ Bridge!Index \in Bridge!Devices
  BY AtWrite DEF Bridge!FreshRead, Steps
<1>2. Frame /\ UNCHANGED <<world, staged>>
  BY DEF Bridge!FreshRead, Frame, Bridge!World, Bridge!State
<1>3. Bridge!Sendable = Bridge!StopBody /\ ~Bridge!Starts(op.cmd)
  BY <1>1, SaysRun DEF BridgeInv, Routed
<1>4. CASE Bridge!Raise(op, FALSE)
  BY <1>1, <1>2, <1>4, RaiseKeeps, QuietEnd, QuietOn
<1>5. CASE Bridge!End(op, "ok")
  BY <1>1, <1>2, <1>3, <1>5, EndKeeps, QuietEnd
<1>6. ASSUME NEW saw, saw \notin {None, "Ready"},
             op' = [op EXCEPT !.pc = "put", !.saw = saw], UNCHANGED result
      PROVE  BridgeInv'
  <2>1. Continues /\ op'.pc = "put" /\ op'.runs = op.runs /\ op'.saw = saw
    BY <1>1, <1>2, <1>6 DEF Continues, Writing, Steps, Frame
  <2>2. Bridge!Sendable' = Bridge!Sendable
    BY <1>2, <2>1 DEF Bridge!Sendable, Frame, Continues
  <2>3. Routed'
    BY <1>1, <1>2, <1>3, <2>1, <2>2, <1>6, SaysRun DEF BridgeInv, Routed, Frame, Starting
  <2> QED  BY <1>1, <1>2, <2>1, <2>3, QuietStep
<1>7. world[Bridge!Index].state # "Ready" => world[Bridge!Index].state \notin {None, "Ready"}
  BY <1>1 DEF BridgeInv, Typed, Bridge!BridgeConstantsOK
<1>8. "unread" \notin {None, "Ready"}
  BY DEF Bridge!BridgeConstantsOK
<1> QED  BY <1>4, <1>5, <1>6, <1>7, <1>8 DEF Bridge!FreshRead, Bridge!Stop

\* Whether it runs: the start is done, refused, sent the Run or tried again
LEMMA CheckKeeps ==
    ASSUME BridgeInv, Bridge!BridgeConstantsOK, Writing, op.pc \in {"check", "recheck"}, Frame,
           UNCHANGED <<world, staged>>,
           NEW after \in {None, "run"}, Bridge!CheckRuns(after)
    PROVE  BridgeInv'
<1>1. CASE Bridge!Raise(op, FALSE)
  BY <1>1, RaiseKeeps, QuietEnd, QuietOn
<1>2. kind # "Oven"
  BY DEF BridgeInv, Routed, Starting
<1>3. CASE Bridge!End([op EXCEPT !.ran = TRUE], "ok")
  <2> DEFINE m == [op EXCEPT !.ran = TRUE]
  <2>1. Call(m) /\ m.ran = TRUE
    BY DEF Call, Writing
  <2> HIDE DEF m
  <2>2. Ends /\ (result' # None => result' = [outcome |-> "ok", ran |-> m.ran,
                                              dropped |-> m.dropped, runs |-> m.runs])
    BY <1>3, <2>1, Ended DEF m
  <2>4. result' # None => result'.ran = TRUE
    BY <2>1, <2>2
  <2>3. Bridge!StartRanOnce'
    BY <1>2, <2>4 DEF Bridge!StartRanOnce, Bridge!AcceptedStartRan, Bridge!OvenRunOnce, Frame
  <2> QED  BY <2>2, <2>3, QuietEnd
<1>4. CASE Bridge!End(op, "refused")
  BY <1>4, EndKeeps, QuietEnd
<1>5. CASE after = "run" /\ Bridge!Goto("run") /\ UNCHANGED result
  <2>1. Continues /\ op'.pc = "run"
    BY <1>5, Gone DEF Frame, Steps
  <2>2. Bridge!Sendable' = Bridge!Sendable /\ Bridge!Index' = Bridge!Index
    BY <2>1 DEF Bridge!Sendable, Bridge!Index, Bridge!Cmd, Frame, Continues
  <2>3. Routed'
    BY <1>2, <2>1, <2>2 DEF BridgeInv, Routed, Frame, Starting
  <2> QED  BY <2>1, <2>3, QuietStep
<1> QED  BY <1>1, <1>3, <1>4, <1>5 DEF Bridge!CheckRuns

LEMMA ChecksKeep ==
    ASSUME BridgeInv, Bridge!BridgeConstantsOK, Bridge!StartChecked \/ Bridge!StartRechecked
    PROVE  BridgeInv'
<1>1. Frame /\ UNCHANGED <<world, staged>>
  BY DEF Bridge!StartChecked, Bridge!StartRechecked, Frame, Bridge!World, Bridge!State
<1>2. CASE Bridge!StartChecked
  <2>1. Writing /\ op.pc = "check"
    BY <1>2, AtWrite DEF Bridge!StartChecked, Steps
  <2> QED  BY <1>1, <1>2, <2>1, CheckKeeps DEF Bridge!StartChecked
<1>3. CASE Bridge!StartRechecked
  <2>1. Writing /\ op.pc = "recheck"
    BY <1>3, AtWrite DEF Bridge!StartRechecked, Steps
  <2> QED  BY <1>1, <1>3, <2>1, CheckKeeps DEF Bridge!StartRechecked
<1> QED  BY <1>2, <1>3

LEMMA BudgetKeeps ==
    ASSUME BridgeInv, Bridge!BridgeConstantsOK, Bridge!OvenBudgetSpent
    PROVE  BridgeInv'
<1>1. Writing /\ op.pc = "ovenrun"
  BY AtWrite DEF Bridge!OvenBudgetSpent, Steps
<1>2. Frame /\ UNCHANGED <<world, staged>> /\ Bridge!Raise(op, FALSE)
  BY DEF Bridge!OvenBudgetSpent, Frame, Bridge!World, Bridge!State
<1> QED  BY <1>1, <1>2, RaiseKeeps, QuietEnd, QuietOn


\* What a request with a body does
LEMMA Sending ==
    ASSUME BridgeInv, Bridge!BridgeConstantsOK, Bridge!Index \in Bridge!Devices,
           NEW o \in Bridge!Outcomes, NEW body, Bridge!Sends(o, body)
    PROVE  /\ Frame
           /\ world' = [i \in Bridge!Devices |-> [state |-> world'[i].state, set |-> world'[i].set]]
           /\ \A i \in Bridge!Devices : world'[i].state \in {"Ready", "Run", "Pause"}
           /\ kind = "Washer" => \A i \in Bridge!Devices : Washed(world'[i].set)
           /\ \A i \in Bridge!Devices \ {Bridge!Index} : world'[i] = world[i]
           /\ \/ world'[Bridge!Index] \in Bridge!Taken(world[Bridge!Index], body)
              \/ o # "answered" /\ world'[Bridge!Index] = world[Bridge!Index]
<1>1. Frame
  BY DEF Bridge!Sends, Frame
<1>2. CASE UNCHANGED world /\ o # "answered"
  BY <1>1, <1>2 DEF BridgeInv, Typed, Washes
<1>3. ASSUME NEW v \in Bridge!Taken(world[Bridge!Index], body), world' = [world EXCEPT ![Bridge!Index] = v]
      PROVE  /\ world' = [i \in Bridge!Devices |-> [state |-> world'[i].state, set |-> world'[i].set]]
             /\ \A i \in Bridge!Devices : world'[i].state \in {"Ready", "Run", "Pause"}
             /\ kind = "Washer" => \A i \in Bridge!Devices : Washed(world'[i].set)
             /\ \A i \in Bridge!Devices \ {Bridge!Index} : world'[i] = world[i]
             /\ world'[Bridge!Index] = v
  <2>1. /\ DOMAIN world = Bridge!Devices
        /\ \A i \in Bridge!Devices : /\ world[i] = [state |-> world[i].state, set |-> world[i].set]
                                     /\ world[i].state \in {"Ready", "Run", "Pause"}
                                     /\ kind = "Washer" => Washed(world[i].set)
    BY DEF BridgeInv, Typed, Washes
  <2>2. /\ v = [state |-> v.state, set |-> v.set] /\ v.state \in {"Ready", "Run", "Pause"}
        /\ kind = "Washer" => Washed(v.set)
    BY <2>1, TakenIs
  <2>3. world' = [i \in Bridge!Devices |-> IF i = Bridge!Index THEN v ELSE world[i]]
    BY <1>3, <2>1 DEF BridgeInv, Typed
  <2> QED  BY <2>1, <2>2, <2>3
<1> QED  BY <1>1, <1>2, <1>3 DEF Bridge!Sends, Bridge!Put, Bridge!Happens, Bridge!Outcomes

\* A step that sends one
LEMMA SendStep ==
    ASSUME BridgeInv, Bridge!BridgeConstantsOK, Writing, Bridge!Index \in Bridge!Devices,
           NEW o \in Bridge!Outcomes, NEW body, Bridge!Sends(o, body),
           staged' \in {staged, <<>>},
           (Ends /\ Bridge!StartRanOnce') \/ (Continues /\ Routed' /\ op.pc # "admit"),
           Expected'
    PROVE  BridgeInv'
<1>1. /\ Frame
      /\ world' = [i \in Bridge!Devices |-> [state |-> world'[i].state, set |-> world'[i].set]]
      /\ \A i \in Bridge!Devices : world'[i].state \in {"Ready", "Run", "Pause"}
      /\ kind = "Washer" => \A i \in Bridge!Devices : Washed(world'[i].set)
  BY Sending
<1>2. Typed'
  BY <1>1 DEF BridgeInv, Typed, Frame, Ends, Continues, Bridge!NoOp
<1>3. Continues => Bridge!Index' = Bridge!Index
  BY <1>1 DEF Continues, Bridge!Index, Bridge!Cmd, Frame
<1>4. Divided'
  <2>1. CASE Ends
    <3>1. ~Sweeping' /\ ~Writing'
      BY <2>1 DEF Ends, Bridge!NoOp, Sweeping, Writing
    <3> QED  BY <1>1, <3>1 DEF BridgeInv, Divided, Frame
  <2>2. CASE Continues /\ op.pc # "admit"
    <3>1. ~Sweeping'
      BY <2>2 DEF Continues, Sweeping, Writing
    <3>2. Writing' /\ Bridge!Index' = 1 /\ op'.pc # "admit" /\ 1 \in fresh' => divider'
      BY <1>1, <1>3, <2>2 DEF BridgeInv, Divided, Frame
    <3> QED  BY <1>1, <3>1, <3>2 DEF BridgeInv, Divided, Frame
  <2> QED  BY <2>1, <2>2
<1>5. Routed'
  BY DEF Routed, Ends, Bridge!NoOp, Writing
<1>6. Washes'
  <2>1. CASE UNCHANGED staged
    BY <1>1, <2>1 DEF BridgeInv, Washes, Washed, Frame
  <2>2. CASE staged' = <<>>
    BY <1>1, <2>2 DEF BridgeInv, Washes, Washed, Frame
  <2> QED  BY <2>1, <2>2
<1>7. Bridge!HeldOverReported'
  BY <1>1 DEF BridgeInv, Bridge!HeldOverReported, Frame
<1>8. Bridge!StartRanOnce'
  BY <1>1 DEF BridgeInv, Bridge!StartRanOnce, Bridge!AcceptedStartRan, Bridge!OvenRunOnce, Continues, Frame
<1> QED  BY <1>2, <1>4, <1>5, <1>6, <1>7, <1>8 DEF BridgeInv

\* The call after a request, and how it ends or is tried again
LEMMA MarkedIs ==
    ASSUME Writing, NEW body
    PROVE  /\ Call(Bridge!Marked(body))
           /\ Bridge!Marked(body).runs = IF Bridge!IsStart(body) THEN op.runs + 1 ELSE op.runs
           /\ world'[Bridge!Index].state = "Run" => Bridge!Marked(body).ran = TRUE
           /\ Bridge!IsStart(body) /\ op.pc # "composed" =>
                Bridge!Marked(body).ran = TRUE \/ Bridge!Marked(body).dropped = TRUE
<1> DEFINE sent == IF Bridge!IsStart(body) THEN op.runs + 1 ELSE op.runs
           ran == op.ran \/ world'[Bridge!Index].state = "Run"
           dropped == Bridge!IsStart(body) /\ op.pc # "composed" /\ world'[Bridge!Index].state # "Run"
<1>1. Bridge!Marked(body) = [op EXCEPT !.runs = sent, !.ran = ran, !.dropped = dropped]
  BY DEF Bridge!Marked
<1>2. /\ world'[Bridge!Index].state = "Run" => ran = TRUE
      /\ Bridge!IsStart(body) /\ op.pc # "composed" => ran = TRUE \/ dropped = TRUE
  OBVIOUS
<1>3. sent \in Nat
  BY DEF Writing
<1> HIDE DEF sent, ran, dropped
<1>4. /\ Call(Bridge!Marked(body)) /\ Bridge!Marked(body).runs = sent
      /\ Bridge!Marked(body).ran = ran /\ Bridge!Marked(body).dropped = dropped
  BY <1>1, <1>3 DEF Writing, Call
<1> QED  BY <1>2, <1>4 DEF sent

LEMMA SentRaises ==
    ASSUME BridgeInv, Writing, Frame, NEW body, NEW unconfirmed \in BOOLEAN,
           Bridge!Raise(Bridge!Marked(body), unconfirmed)
    PROVE  /\ \/ Ends /\ Bridge!StartRanOnce'
              \/ Continues /\ op'.pc = "admit" /\ op'.runs = Bridge!Marked(body).runs /\ op'.saw = op.saw
           /\ unconfirmed => Ends
<1>1. Call(Bridge!Marked(body)) /\ Bridge!Marked(body).runs \in {op.runs, op.runs + 1}
  BY MarkedIs
<1>2. kind = "Oven" => Bridge!Marked(body).runs <= 1
  BY <1>1 DEF BridgeInv, Routed
<1>3. ASSUME Ends, result' # None => /\ result' = [outcome |-> result'.outcome, ran |-> Bridge!Marked(body).ran,
                                                   dropped |-> Bridge!Marked(body).dropped,
                                                   runs |-> Bridge!Marked(body).runs]
                                     /\ result'.outcome # "ok"
      PROVE  Bridge!StartRanOnce'
  <2>1. result' # None => result'.outcome # "ok" /\ result'.runs = Bridge!Marked(body).runs
    BY <1>3
  <2> QED  BY <1>2, <2>1 DEF Bridge!StartRanOnce, Bridge!AcceptedStartRan, Bridge!OvenRunOnce, Frame
<1> QED  BY <1>1, <1>3, Raised DEF Frame

LEMMA SentEnds ==
    ASSUME BridgeInv, Writing, Frame, NEW body, NEW outcome, Bridge!End(Bridge!Marked(body), outcome),
           outcome = "ok" /\ Bridge!Starts(op.cmd) => Bridge!IsStart(body) /\ op.pc # "composed"
    PROVE  Ends /\ Bridge!StartRanOnce'
<1>1. Call(Bridge!Marked(body)) /\ Bridge!Marked(body).runs \in {op.runs, op.runs + 1}
  BY MarkedIs
<1>2. kind = "Oven" => Bridge!Marked(body).runs <= 1
  BY <1>1 DEF BridgeInv, Routed
<1>3. Ends /\ (result' # None => /\ Bridge!Starts(op.cmd)
                                 /\ result' = [outcome |-> outcome, ran |-> Bridge!Marked(body).ran,
                                               dropped |-> Bridge!Marked(body).dropped,
                                               runs |-> Bridge!Marked(body).runs])
  BY <1>1, Ended
<1>4. result' # None => /\ result'.runs = Bridge!Marked(body).runs
                        /\ result'.outcome = "ok" => result'.ran = TRUE \/ result'.dropped = TRUE
  <2>1. ASSUME result' # None
        PROVE  /\ Bridge!Starts(op.cmd) /\ result'.outcome = outcome
               /\ result'.ran = Bridge!Marked(body).ran /\ result'.runs = Bridge!Marked(body).runs
               /\ result'.dropped = Bridge!Marked(body).dropped
    BY <1>3, <2>1
  <2>2. Bridge!IsStart(body) /\ op.pc # "composed" =>
          Bridge!Marked(body).ran = TRUE \/ Bridge!Marked(body).dropped = TRUE
    BY MarkedIs
  <2> QED  BY <2>1, <2>2
<1> QED  BY <1>2, <1>3, <1>4 DEF Bridge!StartRanOnce, Bridge!AcceptedStartRan, Bridge!OvenRunOnce, Frame


\* A washer's start: what its requests load is what was shown
LEMMA Loads ==
    ASSUME BridgeInv, Bridge!BridgeConstantsOK, Writing, kind = "Washer", op.expected # None,
           Bridge!Index = 0, world[0].state # "Run", Bridge!IsStart(Bridge!Sendable),
           NEW o \in Bridge!Outcomes, NEW body, Bridge!IsStart(body), Bridge!Sends(o, body),
           \/ DOMAIN body = {Bridge!StateKey} /\ staged = <<>>
           \/ body = Bridge!AddStaged(Bridge!Sendable, Bridge!HeldValues(staged))
    PROVE  /\ world'[0].state = "Run" => world'[0].set = op.expected
           /\ Bridge!View(staged, world'[0].set) = op.expected
           /\ o = "answered" => Bridge!View(<<>>, world'[0].set) = op.expected
<1>1. /\ Washed(world[0].set) /\ Fits(staged, world[0].set)
      /\ world[0] = [state |-> world[0].state, set |-> world[0].set]
      /\ Bridge!View(staged, world[0].set) = op.expected
  <2>1. 0 \in Bridge!Devices
    BY DEF Bridge!Devices
  <2>2. Washed(world[0].set) /\ Fits(staged, world[0].set)
    BY <2>1 DEF BridgeInv, Washes, Washed, Fits
  <2> QED  BY <2>1, <2>2 DEF BridgeInv, Typed, Expected
<1>2. DOMAIN Bridge!Sendable = {Bridge!StateKey}
  BY SaysRun
<1>3. Bridge!Loaded(world[0].set, body) = op.expected
  <2>1. CASE DOMAIN body = {Bridge!StateKey} /\ staged = <<>>
    BY <1>1, <2>1, LoadedIs
  <2>2. CASE body = Bridge!AddStaged(Bridge!Sendable, Bridge!HeldValues(staged))
    BY <1>1, <1>2, <2>2, LoadedIs
  <2> QED  BY <2>1, <2>2
<1>4. /\ Bridge!View(staged, op.expected) = op.expected
      /\ Bridge!View(<<>>, op.expected) = op.expected
  <2> DEFINE shownSet == Bridge!View(staged, world[0].set)
  <2>1. Washed(shownSet) /\ Bridge!View(staged, shownSet) = shownSet
    BY <1>1, <1>2, LoadedIs
  <2>2. Fits(<<>>, shownSet)
    BY DEF Fits
  <2>3. Bridge!View(<<>>, shownSet) = shownSet
    BY <1>2, <2>1, <2>2, LoadedIs
  <2> QED  BY <1>1, <2>1, <2>3
<1>5. CASE world'[0] \in Bridge!Taken(world[0], body)
  <2>1. world'[0].set = op.expected
    BY <1>1, <1>3, <1>5, TakenIs
  <2> QED  BY <1>4, <2>1
<1>6. CASE world'[0] = world[0] /\ o # "answered"
  BY <1>1, <1>6
<1> QED  BY <1>5, <1>6, Sending DEF Bridge!Devices

\* Once it is sent, what was shown is still what a start would run
LEMMA SendExpected ==
    ASSUME BridgeInv, Bridge!BridgeConstantsOK, Writing, Bridge!Index \in Bridge!Devices,
           NEW o \in Bridge!Outcomes, NEW body, Bridge!Sends(o, body),
           kind = "Washer" => (Bridge!IsStart(Bridge!Sendable) => Bridge!IsStart(body)),
           kind = "Washer" /\ Bridge!Index = 0 /\ Bridge!IsStart(Bridge!Sendable)
             /\ op.expected # None /\ world[0].state # "Run" =>
               \/ DOMAIN body = {Bridge!StateKey} /\ staged = <<>>
               \/ body = Bridge!AddStaged(Bridge!Sendable, Bridge!HeldValues(staged)),
           \/ UNCHANGED staged
           \/ staged' = <<>> /\ o = "answered" /\ Bridge!Index = 0,
           Ends \/ Continues,
           kind = "Washer" /\ Continues /\ Bridge!Index = 0 /\ Bridge!IsStart(Bridge!Sendable)
             /\ op.expected # None /\ world'[0].state # "Run" =>
               op'.pc = "admit" \/ staged' = <<>>
    PROVE  Expected'
<1>1. Frame /\ \A i \in Bridge!Devices \ {Bridge!Index} : world'[i] = world[i]
  BY Sending
<1>2. CASE Ends
  BY <1>2 DEF Expected, Ends, Bridge!NoOp, Writing
<1>3. CASE Continues
  <2>1. Bridge!Index' = Bridge!Index /\ Bridge!Sendable' = Bridge!Sendable /\ op'.expected = op.expected
    BY <1>1, <1>3 DEF Continues, Bridge!Index, Bridge!Cmd, Bridge!Sendable, Frame
  <2> SUFFICES ASSUME kind = "Washer", op.expected # None
               PROVE  /\ Bridge!Idle(0)'
                      /\ Bridge!IsStart(Bridge!Sendable) /\ world'[0].state # "Run" =>
                           /\ Bridge!View(staged', world'[0].set) = op.expected
                           /\ op'.pc \in {"put", "check", "run", "recheck"} /\ Bridge!Index = 0 => staged' = <<>>
    BY <1>1, <2>1 DEF Expected, Frame
  <2>2. Bridge!Idle(0)'
    BY <1>1 DEF BridgeInv, Expected, Bridge!Idle, Frame
  <2>3. ASSUME Bridge!IsStart(Bridge!Sendable), world'[0].state # "Run"
        PROVE  Bridge!View(staged', world'[0].set) = op.expected
    <3>1. CASE Bridge!Index # 0
      <4>1. world'[0] = world[0] /\ UNCHANGED staged
        BY <1>1, <3>1 DEF Bridge!Devices
      <4> QED  BY <2>3, <4>1 DEF BridgeInv, Expected
    <3>2. CASE Bridge!Index = 0
      <4>1. world[0].state # "Run"
        <5>1. world[0] = [state |-> world[0].state, set |-> world[0].set]
          BY DEF BridgeInv, Typed, Bridge!Devices
        <5> QED  BY <2>3, <3>2, <5>1, Sending, TakenIs
      <4> QED  BY <2>3, <3>2, <4>1, Loads
    <3> QED  BY <3>1, <3>2
  <2> QED  BY <1>3, <2>2, <2>3
<1> QED  BY <1>2, <1>3


LEMMA RunBody ==
    /\ DOMAIN Bridge!Only(Bridge!StateKey, "Run") = {Bridge!StateKey}
    /\ Bridge!IsStart(Bridge!Only(Bridge!StateKey, "Run"))
BY DEF Bridge!Only, Bridge!IsStart

LEMMA PutKeeps ==
    ASSUME BridgeInv, Bridge!BridgeConstantsOK, Bridge!PutOnce
    PROVE  BridgeInv'
<1>1. Writing /\ op.pc = "put" /\ Bridge!Index \in Bridge!Devices
  BY AtWrite DEF Bridge!PutOnce, Steps
<1>2. PICK o \in Bridge!Outcomes :
        /\ Bridge!Sends(o, Bridge!Sendable) /\ UNCHANGED staged
        /\ IF Bridge!Raises(o) THEN Bridge!Raise(Bridge!Marked(Bridge!Sendable), FALSE)
           ELSE Bridge!End(Bridge!Marked(Bridge!Sendable), IF o = "answered" THEN "ok" ELSE "refused")
  BY DEF Bridge!PutOnce
<1>3. Frame
  BY <1>1, <1>2, Sending
<1>4. Bridge!Starts(op.cmd) => Bridge!IsStart(Bridge!Sendable) /\ op.pc # "composed"
  BY <1>1, SaysRun
<1>5. (Ends /\ Bridge!StartRanOnce')
      \/ (Continues /\ op'.pc = "admit" /\ op'.runs = Bridge!Marked(Bridge!Sendable).runs /\ op'.saw = op.saw)
  BY <1>1, <1>2, <1>3, <1>4, SentRaises, SentEnds
<1>6. Continues /\ op'.pc = "admit" /\ op'.runs = Bridge!Marked(Bridge!Sendable).runs => Routed'
  <2>1. kind = "Oven" => Bridge!Marked(Bridge!Sendable).runs = 0
    BY <1>1, MarkedIs DEF BridgeInv, Routed
  <2> QED  BY <1>3, <2>1 DEF Routed, Frame, Starting
<1>7. Expected'
  <2>1. kind = "Washer" /\ Bridge!Index = 0 /\ Bridge!IsStart(Bridge!Sendable)
          /\ op.expected # None /\ world[0].state # "Run" =>
            DOMAIN Bridge!Sendable = {Bridge!StateKey} /\ staged = <<>>
    BY <1>1, SaysRun DEF BridgeInv, Expected
  <2>2. (Ends \/ Continues) /\ (Continues => op'.pc = "admit")
    BY <1>1, <1>5 DEF Ends, Continues, Bridge!NoOp, Writing
  <2> QED  BY <1>1, <1>2, <2>1, <2>2, SendExpected
<1> QED  BY <1>1, <1>2, <1>5, <1>6, <1>7, SendStep

\* Once a start's settings are answered nothing is held
LEMMA Cleared ==
    ASSUME NEW o, Bridge!Clear(o)
    PROVE  \/ UNCHANGED staged /\ (o # "answered" \/ Bridge!Index # 0)
           \/ staged' = <<>> /\ o = "answered" /\ Bridge!Index = 0
BY DEF Bridge!Clear

LEMMA StartComposedKeeps ==
    ASSUME BridgeInv, Bridge!BridgeConstantsOK, Bridge!StartComposed
    PROVE  BridgeInv'
<1> DEFINE body == Bridge!AddStaged(Bridge!Sendable, Bridge!HeldValues(staged))
           m == Bridge!Marked(body)
<1>1. Writing /\ op.pc = "composed" /\ Bridge!Index \in Bridge!Devices
  BY AtWrite DEF Bridge!StartComposed, Steps
<1>2. PICK o \in Bridge!Outcomes :
        /\ Bridge!Sends(o, body) /\ Bridge!Clear(o)
        /\ IF Bridge!Raises(o) THEN Bridge!Raise(m, FALSE)
           ELSE IF o = "refused" THEN Bridge!End(m, "refused")
           ELSE op' = [m EXCEPT !.pc = "check"] /\ UNCHANGED result
  BY DEF Bridge!StartComposed
<1>3. Frame /\ Bridge!IsStart(Bridge!Sendable) /\ Bridge!Index = 0 /\ kind # "Oven"
  BY <1>1, <1>2, Sending DEF BridgeInv, Routed, Starting
<1>4. kind = "Washer" => Bridge!IsStart(body)
  <2>1. ASSUME kind = "Washer"  PROVE Bridge!StateKey \notin DOMAIN staged
    BY <2>1, 0 \in Bridge!Devices DEF BridgeInv, Washes, Washed, Bridge!Devices
  <2> QED  BY <1>3, <2>1 DEF Bridge!IsStart, Bridge!AddStaged, Bridge!Over, Bridge!HeldValues
<1>5. Call(m)
  BY <1>1, MarkedIs
<1> HIDE DEF body, m
<1>6. \/ Ends /\ Bridge!StartRanOnce'
      \/ Continues /\ op'.pc = "admit"
      \/ Continues /\ op'.pc = "check" /\ o = "answered"
  <2>1. CASE Bridge!Raise(m, FALSE)
    BY <1>1, <1>3, <2>1, SentRaises DEF m
  <2>2. CASE Bridge!End(m, "refused")
    BY <1>1, <1>3, <2>2, SentEnds DEF m
  <2>3. CASE op' = [m EXCEPT !.pc = "check"] /\ UNCHANGED result /\ o = "answered"
    BY <1>1, <1>3, <1>5, <2>3 DEF Continues, Writing, Call, Frame, Steps
  <2> QED  BY <1>2, <2>1, <2>2, <2>3 DEF Bridge!Outcomes, Bridge!Raises
<1>7. Continues /\ op'.pc \in {"admit", "check"} => Routed'
  <2>1. Continues => Bridge!Sendable' = Bridge!Sendable /\ Bridge!Index' = Bridge!Index
    BY <1>3 DEF Bridge!Sendable, Bridge!Index, Bridge!Cmd, Frame, Continues
  <2> QED  BY <1>3, <2>1 DEF Routed, Frame, Starting
<1>8. Expected'
  <2>1. (UNCHANGED staged \/ (staged' = <<>> /\ o = "answered" /\ Bridge!Index = 0))
        /\ (Continues => (op'.pc = "admit" \/ staged' = <<>>))
    BY <1>2, <1>3, <1>6, Cleared DEF Continues, Ends, Bridge!NoOp, Writing
  <2> QED  BY <1>1, <1>2, <1>4, <1>6, <2>1, SendExpected DEF body
<1>9. staged' \in {staged, <<>>}
  BY <1>2, Cleared
<1> QED  BY <1>1, <1>2, <1>6, <1>7, <1>8, <1>9, SendStep


LEMMA StartRunKeeps ==
    ASSUME BridgeInv, Bridge!BridgeConstantsOK, Bridge!StartRun
    PROVE  BridgeInv'
<1> DEFINE body == Bridge!Only(Bridge!StateKey, "Run")
           m == Bridge!Marked(body)
<1>1. Writing /\ op.pc = "run" /\ Bridge!Index \in Bridge!Devices
  BY AtWrite DEF Bridge!StartRun, Steps
<1>2. PICK o \in Bridge!Outcomes :
        /\ Bridge!Sends(o, body) /\ UNCHANGED staged
        /\ IF Bridge!Raises(o) THEN Bridge!Raise(m, FALSE)
           ELSE IF o = "answered" THEN Bridge!End(m, "ok")
           ELSE op' = [m EXCEPT !.pc = "recheck"] /\ UNCHANGED result
  BY DEF Bridge!StartRun
<1>3. Frame /\ Bridge!IsStart(Bridge!Sendable) /\ Bridge!Index = 0 /\ kind # "Oven"
  BY <1>1, <1>2, Sending DEF BridgeInv, Routed, Starting
<1>4. Call(m) /\ Bridge!IsStart(body) /\ DOMAIN body = {Bridge!StateKey}
  BY <1>1, MarkedIs, RunBody
<1>5. Bridge!IsStart(body) /\ op.pc # "composed"
  BY <1>1, <1>4
<1> HIDE DEF body, m
<1>6. \/ Ends /\ Bridge!StartRanOnce'
      \/ Continues /\ op'.pc \in {"admit", "recheck"}
  <2>1. CASE Bridge!Raise(m, FALSE)
    BY <1>1, <1>3, <2>1, SentRaises DEF m
  <2>2. CASE o = "answered" /\ Bridge!End(m, "ok")
    BY <1>1, <1>3, <1>5, <2>2, SentEnds DEF m
  <2>3. CASE op' = [m EXCEPT !.pc = "recheck"] /\ UNCHANGED result
    BY <1>1, <1>3, <1>4, <2>3 DEF Continues, Writing, Call, Frame, Steps
  <2> QED  BY <1>2, <2>1, <2>2, <2>3
<1>7. Continues /\ op'.pc \in {"admit", "recheck"} => Routed'
  <2>1. Continues => Bridge!Sendable' = Bridge!Sendable /\ Bridge!Index' = Bridge!Index
    BY <1>3 DEF Bridge!Sendable, Bridge!Index, Bridge!Cmd, Frame, Continues
  <2> QED  BY <1>3, <2>1 DEF Routed, Frame, Starting
<1>8. Expected'
  <2>1. kind = "Washer" /\ op.expected # None /\ world[0].state # "Run" => staged = <<>>
    BY <1>1, <1>3 DEF BridgeInv, Expected
  <2>2. kind = "Washer" /\ world'[0].state # "Run" => world[0].state # "Run"
    <3>1. world[0] = [state |-> world[0].state, set |-> world[0].set]
      BY DEF BridgeInv, Typed, Bridge!Devices
    <3> QED  BY <1>1, <1>2, <1>3, <1>4, <3>1, Sending, TakenIs
  <2> QED  BY <1>1, <1>2, <1>4, <1>6, <2>1, <2>2, SendExpected
<1> QED  BY <1>1, <1>2, <1>6, <1>7, <1>8, SendStep

LEMMA OvenSettingsKeeps ==
    ASSUME BridgeInv, Bridge!BridgeConstantsOK, Bridge!OvenSettings
    PROVE  BridgeInv'
<1> DEFINE body == Bridge!Restrict(Bridge!Sendable, DOMAIN Bridge!Sendable \ {Bridge!StateKey})
           m == Bridge!Marked(body)
<1>1. Writing /\ op.pc = "oven" /\ Bridge!Index \in Bridge!Devices
  BY AtWrite DEF Bridge!OvenSettings, Steps
<1>2. PICK o \in Bridge!Outcomes :
        /\ Bridge!Sends(o, body) /\ Bridge!Clear(o)
        /\ IF Bridge!Raises(o) THEN Bridge!Raise(m, FALSE)
           ELSE IF o = "refused" THEN Bridge!End(m, "refused")
           ELSE op' = [m EXCEPT !.pc = "ovenrun"] /\ UNCHANGED result
  BY DEF Bridge!OvenSettings
<1>3. Frame /\ kind = "Oven" /\ op.runs = 0
  BY <1>1, <1>2, Sending DEF BridgeInv, Routed
<1>4. ~Bridge!IsStart(body)
  BY DEF Bridge!IsStart, Bridge!Restrict
<1>5. Call(m) /\ m.runs = 0
  BY <1>1, <1>3, <1>4, MarkedIs
<1> HIDE DEF body, m
<1>6. \/ Ends /\ Bridge!StartRanOnce'
      \/ Continues /\ op'.pc \in {"admit", "ovenrun"} /\ op'.runs = 0
  <2>1. CASE Bridge!Raise(m, FALSE)
    BY <1>1, <1>3, <1>5, <2>1, SentRaises DEF m
  <2>2. CASE Bridge!End(m, "refused")
    BY <1>1, <1>3, <2>2, SentEnds DEF m
  <2>3. CASE op' = [m EXCEPT !.pc = "ovenrun"] /\ UNCHANGED result
    BY <1>1, <1>3, <1>5, <2>3 DEF Continues, Writing, Call, Frame, Steps
  <2> QED  BY <1>2, <2>1, <2>2, <2>3
<1>7. Continues /\ op'.pc \in {"admit", "ovenrun"} /\ op'.runs = 0 => Routed'
  BY <1>3 DEF Routed, Frame, Starting
<1>8. Expected'
  BY <1>3 DEF Expected, Frame
<1>9. staged' \in {staged, <<>>}
  BY <1>2, Cleared
<1> QED  BY <1>1, <1>2, <1>6, <1>7, <1>8, <1>9, SendStep

LEMMA OvenRunKeeps ==
    ASSUME BridgeInv, Bridge!BridgeConstantsOK, Bridge!OvenRun
    PROVE  BridgeInv'
<1> DEFINE body == Bridge!Only(Bridge!StateKey, "Run")
           m == Bridge!Marked(body)
<1>1. Writing /\ op.pc = "ovenrun" /\ Bridge!Index \in Bridge!Devices
  BY AtWrite DEF Bridge!OvenRun, Steps
<1>2. PICK o \in Bridge!Outcomes :
        /\ Bridge!Sends(o, body) /\ UNCHANGED staged
        /\ IF Bridge!Raises(o) THEN Bridge!Raise(m, TRUE)
           ELSE Bridge!End(m, IF o = "answered" THEN "ok" ELSE "refused")
  BY DEF Bridge!OvenRun
<1>3. Frame /\ kind = "Oven"
  BY <1>1, <1>2, Sending DEF BridgeInv, Routed
<1>4. Bridge!IsStart(body) /\ op.pc # "composed"
  BY <1>1, RunBody
<1>5. Ends /\ Bridge!StartRanOnce'
  <2>1. CASE Bridge!Raise(m, TRUE)
    <3>1. Ends /\ ((Ends /\ Bridge!StartRanOnce') \/ Continues)
      BY <1>1, <1>3, <2>1, SentRaises, TRUE \in BOOLEAN
    <3>2. Ends => ~Continues
      BY DEF Ends, Continues, Bridge!NoOp, Writing
    <3> QED  BY <3>1, <3>2
  <2>2. CASE Bridge!End(m, IF o = "answered" THEN "ok" ELSE "refused")
    BY <1>1, <1>3, <1>4, <2>2, SentEnds
  <2> QED  BY <1>2, <2>1, <2>2
<1>6. Expected'
  BY <1>3 DEF Expected, Frame
<1> QED  BY <1>1, <1>2, <1>5, <1>6, SendStep


\* Holding a choice adds what the write holds, over what was last swept
LEMMA HeldIs ==
    ASSUME NEW held, NEW new
    PROVE  LET after == Bridge!Held(held, new) IN
           /\ after = [k \in DOMAIN after |-> after[k]]
           /\ DOMAIN after \subseteq DOMAIN held \cup DOMAIN new
           /\ DOMAIN new = {} /\ held = [k \in DOMAIN held |-> held[k]] => after = held
           /\ \A k \in DOMAIN after :
                /\ k \in DOMAIN new => after[k] = [value |-> after[k].value, base |-> after[k].base]
                /\ k \in DOMAIN new => after[k].base = IF last[0] # None /\ k \in DOMAIN last[0].set
                                                       THEN last[0].set[k] ELSE None
                /\ k \notin DOMAIN new => k \in DOMAIN held /\ after[k] = held[k]
<1>1. CASE DOMAIN new = {}
  BY <1>1 DEF Bridge!Held, Bridge!Over, Bridge!Restrict
<1>2. CASE DOMAIN new # {}
  BY <1>2 DEF Bridge!Held, Bridge!Over, Bridge!Restrict
<1> QED  BY <1>1, <1>2

\* A write composed: what only a start carries is held, the rest is sent
LEMMA ComposeKeeps ==
    ASSUME BridgeInv, Bridge!BridgeConstantsOK, Bridge!Compose
    PROVE  BridgeInv'
<1>1. Writing /\ op.pc = "compose" /\ Bridge!Index \in Bridge!Devices
  BY AtWrite DEF Bridge!Compose, Steps
<1>2. Frame /\ UNCHANGED world
  BY DEF Bridge!Compose, Frame, Bridge!World
<1>3. CASE Bridge!Refusal # "none"
  <2>1. Bridge!End(op, Bridge!Refusal) /\ UNCHANGED staged
    BY <1>3 DEF Bridge!Compose
  <2>2. Bridge!Refusal # "ok"
    BY DEF Bridge!Refusal
  <2> QED  BY <1>1, <1>2, <2>1, <2>2, EndKeeps, QuietEnd
<1>4. CASE Bridge!Refusal = "none"
  <2> DEFINE new == Bridge!Restrict(Bridge!Aggregate, Bridge!HeldOf(op.cmd, kind))
             sent == Bridge!Sendable
  <2>1. /\ staged' = IF Bridge!Index = 0 THEN Bridge!Held(staged, new) ELSE staged
        /\ \/ /\ Bridge!IsStart(sent) /\ kind = "Oven"
              /\ Bridge!Goto("oven") /\ UNCHANGED result
           \/ /\ ~(kind = "Oven" /\ Bridge!IsStart(sent) /\ \E k \in DOMAIN sent : Bridge!Wrapper(k) = "Mode")
              /\ \/ /\ Bridge!IsStart(sent) /\ Bridge!Index = 0
                    /\ Bridge!Goto("composed") /\ UNCHANGED result
                 \/ sent = <<>> /\ Bridge!End(op, "ok")
                 \/ sent = Bridge!StopBody /\ Bridge!Goto("stop") /\ UNCHANGED result
                 \/ Bridge!End(op, "bad_request")
                 \/ /\ ~(Bridge!IsStart(sent) /\ Bridge!Index = 0 /\ staged' # <<>> /\ Bridge!Idle(0))
                    /\ sent # Bridge!StopBody
                    /\ Bridge!Goto("put") /\ UNCHANGED result
    BY <1>4 DEF Bridge!Compose
  <2>2. DOMAIN new = Bridge!HeldOf(op.cmd, kind)
    BY DEF new, Bridge!Restrict
  <2> HIDE DEF new
  <2>3. (Bridge!Starts(op.cmd) => sent # <<>>) /\ (Bridge!IsStart(sent) => sent # <<>>)
    BY <1>1, SaysRun DEF Bridge!IsStart
  <2>4. \/ Ends /\ Bridge!StartRanOnce'
        \/ /\ Continues /\ op'.runs = op.runs /\ op'.saw = op.saw
           /\ \/ op'.pc = "oven" /\ kind = "Oven"
              \/ op'.pc = "composed" /\ kind # "Oven" /\ Bridge!IsStart(sent) /\ Bridge!Index = 0
              \/ op'.pc = "stop" /\ sent = Bridge!StopBody
              \/ /\ op'.pc = "put" /\ sent # Bridge!StopBody
                 /\ ~(Bridge!IsStart(sent) /\ Bridge!Index = 0 /\ staged' # <<>> /\ Bridge!Idle(0))
                 /\ kind = "Oven" => ~Bridge!IsStart(sent)
    <3>1. kind = "Oven" /\ Bridge!IsStart(sent) => \E k \in DOMAIN sent : Bridge!Wrapper(k) = "Mode"
      BY <1>1, SaysRun
    <3>2. ASSUME NEW pc \in Steps, Bridge!Goto(pc), UNCHANGED result
          PROVE  Continues /\ op'.pc = pc /\ op'.runs = op.runs /\ op'.saw = op.saw
      BY <1>1, <1>2, <3>2, Gone DEF Frame
    <3>3. CASE sent = <<>> /\ Bridge!End(op, "ok")
      BY <1>1, <1>2, <2>3, <3>3, EndKeeps
    <3>4. CASE Bridge!End(op, "bad_request")
      BY <1>1, <1>2, <3>4, EndKeeps
    <3> HIDE DEF sent
    <3> QED  BY <2>1, <3>1, <3>2, <3>3, <3>4 DEF Steps
  <2>5. Continues => Bridge!Index' = Bridge!Index /\ Bridge!Sendable' = Bridge!Sendable
    BY <1>2 DEF Continues, Bridge!Index, Bridge!Cmd, Bridge!Sendable, Frame
  <2>6. Typed'
    <3>1. \A k \in DOMAIN staged' : staged'[k] = [value |-> staged'[k].value, base |-> staged'[k].base]
      <4>1. \A k \in DOMAIN staged : staged[k] = [value |-> staged[k].value, base |-> staged[k].base]
        BY DEF BridgeInv, Typed
      <4>2. CASE staged' = Bridge!Held(staged, new)
        <5> TAKE k \in DOMAIN staged'
        <5>1. CASE k \in DOMAIN new
          BY <4>2, <5>1, HeldIs
        <5>2. CASE k \notin DOMAIN new
          <6>1. k \in DOMAIN staged /\ staged'[k] = staged[k]
            BY <4>2, <5>2, HeldIs
          <6> QED  BY <4>1, <6>1
        <5> QED  BY <5>1, <5>2
      <4> QED  BY <2>1, <4>1, <4>2
    <3> QED  BY <1>2, <2>4, <3>1 DEF BridgeInv, Typed, Frame, Ends, Continues, Bridge!NoOp
  <2>7. Divided'
    <3>1. CASE Ends
      BY <1>2, <3>1 DEF BridgeInv, Divided, Frame, Ends, Bridge!NoOp, Sweeping, Writing
    <3>2. CASE Continues
      <4>1. ~Sweeping'
        BY <3>2 DEF Continues, Sweeping, Writing
      <4>2. Writing' /\ Bridge!Index' = 1 /\ op'.pc # "admit" /\ 1 \in fresh' => divider'
        BY <1>1, <1>2, <2>5, <3>2 DEF BridgeInv, Divided, Frame
      <4> QED  BY <1>2, <4>1, <4>2 DEF BridgeInv, Divided, Frame
    <3> QED  BY <2>4, <3>1, <3>2
  <2>8. Routed'
    <3>1. CASE Ends
      BY <3>1 DEF Routed, Ends, Bridge!NoOp, Writing
    <3>2. CASE ~Ends
      BY <1>1, <1>2, <2>4, <2>5, <3>2 DEF BridgeInv, Routed, Frame, Starting
    <3> QED  BY <3>1, <3>2
  <2>9. Washes'
    <3>1. CASE UNCHANGED staged
      BY <1>2, <3>1 DEF BridgeInv, Washes, Washed, Frame
    <3>2. ASSUME kind = "Washer", staged' = Bridge!Held(staged, new)
          PROVE  /\ staged' = [k \in DOMAIN staged' |-> staged'[k]]
                 /\ DOMAIN staged' \subseteq UNION {Bridge!HeldOf(c, "Washer") : c \in CommandsOf["Washer"]}
      BY <1>1, <2>2, <3>2, HeldIs DEF BridgeInv, Washes, Writing
    <3> QED  BY <1>2, <2>1, <3>1, <3>2 DEF BridgeInv, Washes, Washed, Frame
  <2>10. kind = "Washer" /\ Bridge!IsStart(Bridge!Sendable) => UNCHANGED staged
    <3>1. ASSUME kind = "Washer", Bridge!IsStart(Bridge!Sendable)  PROVE DOMAIN new = {}
      BY <1>1, <2>2, <3>1, SaysRun
    <3>2. kind = "Washer" => staged = [k \in DOMAIN staged |-> staged[k]]
      BY DEF BridgeInv, Washes
    <3> QED  BY <2>1, <3>1, <3>2, HeldIs
  <2>11. Expected'
    <3>1. CASE Ends
      BY <3>1 DEF Expected, Ends, Bridge!NoOp, Writing
    <3>2. CASE ~Ends
      <4>1. /\ op'.expected = op.expected /\ Bridge!Idle(0)' = Bridge!Idle(0) /\ kind' = kind
            /\ Continues
        BY <1>2, <2>4, <3>2 DEF Continues, Frame, Bridge!Idle
      <4> SUFFICES ASSUME kind = "Washer", op.expected # None, Bridge!Idle(0)
                   PROVE  Bridge!IsStart(Bridge!Sendable) /\ world[0].state # "Run" =>
                            /\ Bridge!View(staged', world[0].set) = op.expected
                            /\ op'.pc \in {"put", "check", "run", "recheck"} /\ Bridge!Index = 0 => staged' = <<>>
        BY <1>1, <1>2, <2>5, <4>1 DEF BridgeInv, Expected
      <4> QED  BY <1>1, <2>4, <2>10, <3>2 DEF BridgeInv, Expected, sent
    <3> QED  BY <3>1, <3>2
  <2>12. Bridge!HeldOverReported'
    <3>1. CASE UNCHANGED staged
      BY <1>2, <3>1 DEF BridgeInv, Bridge!HeldOverReported, Frame
    <3>2. CASE staged' = Bridge!Held(staged, new)
      BY <1>2, <3>2, HeldIs DEF BridgeInv, Bridge!HeldOverReported, Frame
    <3> QED  BY <2>1, <3>1, <3>2
  <2>13. Bridge!StartRanOnce'
    BY <1>2, <2>4 DEF BridgeInv, Bridge!StartRanOnce, Bridge!AcceptedStartRan, Bridge!OvenRunOnce, Continues, Frame
  <2> QED  BY <2>6, <2>7, <2>8, <2>9, <2>11, <2>12, <2>13 DEF BridgeInv
<1> QED  BY <1>3, <1>4


-----------------------------------------------------------------------------
(* The other steps. *)

LEMMA RevisedIs ==
    ASSUME NEW held, \A k \in DOMAIN held : held[k] = [value |-> held[k].value, base |-> held[k].base],
           NEW keys, NEW w, NEW stateRead
    PROVE  LET after == Bridge!Revised(held, keys, w, stateRead) IN
           /\ after = [k \in DOMAIN after |-> after[k]]
           /\ DOMAIN after \subseteq DOMAIN held
           /\ \A k \in DOMAIN after :
                /\ after[k] = [value |-> after[k].value, base |-> after[k].base]
                /\ held[k].base # None => after[k].base = held[k].base
                /\ k \in keys => after[k].base = w.set[k]
<1> DEFINE kept == {k \in DOMAIN held : k \in keys => held[k].base \in {None, w.set[k]}}
           after == [k \in kept |-> IF held[k].base = None /\ k \in keys
                                    THEN [held[k] EXCEPT !.base = w.set[k]] ELSE held[k]]
<1>1. CASE stateRead /\ w.state # "Ready"
  <2>1. Bridge!Revised(held, keys, w, stateRead) = <<>>
    BY <1>1 DEF Bridge!Revised
  <2> QED  BY <2>1
<1>2. CASE ~(stateRead /\ w.state # "Ready")
  <2>1. Bridge!Revised(held, keys, w, stateRead) = after
    BY <1>2 DEF Bridge!Revised
  <2>2. DOMAIN after = kept
    OBVIOUS
  <2>3. ASSUME NEW k \in kept
        PROVE  /\ after[k] = [value |-> after[k].value, base |-> after[k].base]
               /\ held[k].base # None => after[k].base = held[k].base
               /\ k \in keys => after[k].base = w.set[k]
    <3>1. held[k] = [value |-> held[k].value, base |-> held[k].base]
      OBVIOUS
    <3>2. CASE held[k].base = None /\ k \in keys
      <4>1. [held[k] EXCEPT !.base = w.set[k]] = [value |-> held[k].value, base |-> w.set[k]]
        BY <3>1
      <4> QED  BY <3>2, <4>1
    <3>3. CASE ~(held[k].base = None /\ k \in keys)
      BY <3>1, <3>3
    <3> QED  BY <3>2, <3>3
  <2> QED  BY <2>1, <2>2, <2>3
<1> QED  BY <1>1, <1>2

\* A read revises what is held, and nothing that was swept changes but with it
LEMMA Rereads ==
    ASSUME BridgeInv, NEW keys, NEW w, NEW stateRead,
           staged' = Bridge!Revised(staged, keys, w, stateRead), UNCHANGED <<kind, world>>,
           last' = last \/ (last'[0] = w /\ keys = DOMAIN w.set)
    PROVE  /\ \A k \in DOMAIN staged' : staged'[k] = [value |-> staged'[k].value, base |-> staged'[k].base]
           /\ Washes' /\ Bridge!HeldOverReported'
<1>1. /\ staged' = [k \in DOMAIN staged' |-> staged'[k]]
      /\ DOMAIN staged' \subseteq DOMAIN staged
      /\ \A k \in DOMAIN staged' :
           /\ staged'[k] = [value |-> staged'[k].value, base |-> staged'[k].base]
           /\ staged[k].base # None => staged'[k].base = staged[k].base
           /\ k \in keys => staged'[k].base = w.set[k]
  <2>1. \A k \in DOMAIN staged : staged[k] = [value |-> staged[k].value, base |-> staged[k].base]
    BY DEF BridgeInv, Typed
  <2> QED  BY <2>1, RevisedIs
<1>2. Washes'
  BY <1>1 DEF BridgeInv, Washes, Washed
<1>3. Bridge!HeldOverReported'
  <2>1. CASE last' = last
    BY <1>1, <2>1 DEF BridgeInv, Bridge!HeldOverReported
  <2>2. CASE last'[0] = w /\ keys = DOMAIN w.set
    BY <1>1, <2>2 DEF Bridge!HeldOverReported
  <2> QED  BY <2>1, <2>2
<1> QED  BY <1>1, <1>2, <1>3

LEMMA ReadKeeps ==
    ASSUME BridgeInv, Bridge!BridgeConstantsOK, NEW wrapper, Bridge!ReadEndpoint(wrapper)
    PROVE  BridgeInv'
<1>1. /\ UNCHANGED <<kind, world, divider, last, listed, divided, shown, fresh, panel, op, result>>
      /\ op = Bridge!NoOp
  BY DEF Bridge!ReadEndpoint, Bridge!World, Bridge!History
<1>2. /\ \A k \in DOMAIN staged' : staged'[k] = [value |-> staged'[k].value, base |-> staged'[k].base]
      /\ Washes' /\ Bridge!HeldOverReported'
  <2>1. CASE UNCHANGED staged
    BY <1>1, <2>1 DEF BridgeInv, Typed, Washes, Washed, Bridge!HeldOverReported
  <2>2. CASE staged' = Bridge!Revised(staged, {k \in DOMAIN world[0].set : Bridge!Wrapper(k) = wrapper},
                                      world[0], wrapper = "Operation")
    BY <1>1, <2>2, Rereads
  <2> QED  BY <2>1, <2>2 DEF Bridge!ReadEndpoint
<1>3. Typed'
  BY <1>1, <1>2 DEF BridgeInv, Typed, Bridge!NoOp
<1>4. ~Writing /\ ~Sweeping /\ ~Writing' /\ ~Sweeping'
  BY <1>1 DEF Writing, Sweeping, Bridge!NoOp
<1>5. Divided' /\ Routed' /\ Expected' /\ Bridge!StartRanOnce'
  BY <1>1, <1>4 DEF BridgeInv, Divided, Routed, Expected, Bridge!StartRanOnce, Bridge!AcceptedStartRan, Bridge!OvenRunOnce
<1> QED  BY <1>2, <1>3, <1>5 DEF BridgeInv


\* The lower cavity is listed while the divider is in
LEMMA ListedDivided ==
    ASSUME BridgeInv
    PROVE  (1 \in Bridge!Listing) = divider
BY DEF Bridge!Listing, BridgeInv, Typed

\* A lone read of the listing or of a cavity's modes: what it finds of the
\* divider is right, and what was right before it stays
LEMMA LoneReadsKeep ==
    ASSUME BridgeInv, Bridge!BridgeConstantsOK, NEW i \in Bridge!Devices,
           Bridge!ReadListed \/ Bridge!ReadMode(i)
    PROVE  BridgeInv'
<1>1. /\ UNCHANGED <<kind, world, divider, last, staged, panel, op, result>>
      /\ op = Bridge!NoOp /\ kind = "Oven"
  BY DEF Bridge!ReadListed, Bridge!ReadMode, Bridge!World, Bridge!History
<1>2. ~Writing /\ ~Sweeping /\ ~Writing' /\ ~Sweeping'
  BY <1>1 DEF Writing, Sweeping, Bridge!NoOp
<1>3. /\ divider \in BOOLEAN /\ None \notin BOOLEAN /\ fresh \subseteq Bridge!Devices
      /\ listed = [j \in Bridge!Devices |-> listed[j]] /\ shown = [j \in Bridge!Devices |-> shown[j]]
  BY DEF BridgeInv, Typed, Bridge!BridgeConstantsOK
<1>4. CASE Bridge!ReadListed
  <2>1. /\ divided' \in {divided, divider} /\ UNCHANGED shown
        /\ \/ fresh' = fresh /\ (listed' = listed \/ listed' = [listed EXCEPT ![1] = divider])
           \/ fresh' = fresh \ {1} /\ listed' = [listed EXCEPT ![1] = None]
    BY <1>4, ListedDivided DEF Bridge!ReadListed, Bridge!Outcomes
  <2>2. /\ listed' = [j \in Bridge!Devices |-> listed'[j]] /\ fresh' \subseteq fresh
        /\ 1 \in fresh' => listed'[1] \in {listed[1], divider}
    BY <1>3, <2>1 DEF Bridge!Devices
  <2>3. Typed'
    BY <1>1, <2>1, <2>2 DEF BridgeInv, Typed
  <2>4. Divided'
    BY <1>1, <1>2, <2>1, <2>2 DEF BridgeInv, Divided
  <2> QED  BY <1>1, <1>2, <2>3, <2>4 DEF BridgeInv, Routed, Expected, Washes, Washed, Bridge!HeldOverReported,
              Bridge!StartRanOnce, Bridge!AcceptedStartRan, Bridge!OvenRunOnce
<1>5. CASE Bridge!ReadMode(i)
  <2>1. /\ UNCHANGED <<divided, listed, fresh>>
        /\ shown' = shown \/ shown' = [shown EXCEPT ![i] = Bridge!CavityModes(i, divided, listed[i])]
    BY <1>5 DEF Bridge!ReadMode, Bridge!History
  <2>2. shown' = [j \in Bridge!Devices |-> shown'[j]]
    BY <1>3, <2>1
  <2>3. \A j \in Bridge!Devices : shown'[j] \in {shown[j], Bridge!CavityModes(j, divided, listed[j])}
    BY <1>3, <2>1
  <2>4. Typed'
    BY <1>1, <2>1, <2>2 DEF BridgeInv, Typed
  <2>5. 0 \in fresh => shown'[0] = IF divider THEN "upper" ELSE "whole"
    BY <1>1, <1>3, <2>3 DEF BridgeInv, Divided, Bridge!CavityModes, Bridge!Devices
  <2>6. 1 \in fresh => shown'[1] = IF divider THEN "lower" ELSE "none"
    BY <1>1, <1>3, <2>3 DEF BridgeInv, Divided, Bridge!CavityModes, Bridge!Devices
  <2>7. Divided'
    BY <1>1, <1>2, <2>1, <2>5, <2>6 DEF BridgeInv, Divided
  <2> QED  BY <1>1, <1>2, <2>4, <2>7 DEF BridgeInv, Routed, Expected, Washes, Washed, Bridge!HeldOverReported,
              Bridge!StartRanOnce, Bridge!AcceptedStartRan, Bridge!OvenRunOnce
<1> QED  BY <1>4, <1>5


\* The end of a sweep
LEMMA SweptKeeps ==
    ASSUME BridgeInv, Bridge!BridgeConstantsOK, UNCHANGED <<kind, world, divider, panel, result>>,
           NEW i \in Bridge!Devices, NEW w, NEW isDivided, NEW isListed, NEW isKnown \in BOOLEAN,
           Bridge!Swept(i, w, isDivided, isListed, isKnown),
           listed' = [j \in Bridge!Devices |-> listed'[j]],
           listed' = listed \/ (i = 1 /\ isKnown),
           kind = "Oven" => divided' \in {divided, divider} \/ (i = 0 /\ ~isKnown),
           kind = "Oven" /\ i = 0 /\ isKnown => divided' = divider,
           kind = "Oven" /\ isKnown /\ op.steady => isDivided = divider \/ i = 1,
           i = 1 /\ isKnown /\ op.steady => isListed = divider /\ listed'[1] = divider
    PROVE  BridgeInv'
<1>1. op' = Bridge!NoOp /\ ~Writing' /\ ~Sweeping'
  BY DEF Bridge!Swept, Writing, Sweeping, Bridge!NoOp
<1>2. /\ \A k \in DOMAIN staged' : staged'[k] = [value |-> staged'[k].value, base |-> staged'[k].base]
      /\ Washes' /\ Bridge!HeldOverReported'
  <2>1. CASE i = 0
    <3>1. last'[0] = w
      BY <2>1 DEF Bridge!Swept, BridgeInv, Typed, Bridge!Devices
    <3> QED  BY <2>1, <3>1, Rereads DEF Bridge!Swept
  <2>2. CASE i # 0
    <3>1. last'[0] = last[0] /\ UNCHANGED staged
      BY <2>2 DEF Bridge!Swept, BridgeInv, Typed, Bridge!Devices
    <3> QED  BY <3>1 DEF BridgeInv, Typed, Washes, Washed, Bridge!HeldOverReported
  <2> QED  BY <2>1, <2>2
<1>3. /\ last' = [j \in Bridge!Devices |-> last'[j]]
      /\ shown' = [j \in Bridge!Devices |-> shown'[j]]
      /\ fresh' \subseteq Bridge!Devices
  BY DEF Bridge!Swept, BridgeInv, Typed
<1>4. Typed'
  BY <1>1, <1>2, <1>3 DEF BridgeInv, Typed
<1>5. Divided'
  <2>1. /\ i \in fresh' => isKnown /\ op.steady
        /\ \A j \in Bridge!Devices \ {i} : (j \in fresh' <=> j \in fresh) /\ shown'[j] = shown[j]
        /\ kind = "Oven" => shown'[i] = Bridge!CavityModes(i, isDivided, isListed)
    BY DEF Bridge!Swept, BridgeInv, Typed
  <2>2. divider \in BOOLEAN /\ None \notin BOOLEAN
    BY DEF BridgeInv, Typed, Bridge!BridgeConstantsOK
  <2>3. kind = "Oven" /\ 0 \in fresh' => shown'[0] = IF divider THEN "upper" ELSE "whole"
    BY <2>1, <2>2 DEF BridgeInv, Divided, Bridge!CavityModes, Bridge!Devices
  <2>4. kind = "Oven" /\ 1 \in fresh' => shown'[1] = IF divider THEN "lower" ELSE "none"
    BY <2>1, <2>2 DEF BridgeInv, Divided, Bridge!CavityModes, Bridge!Devices
  <2>5. 1 \in fresh' => listed'[1] = divider
    BY <2>1, <2>2 DEF BridgeInv, Divided, Bridge!Devices
  <2>6. kind = "Oven" /\ 0 \in fresh' => divided' = divider
    BY <2>1 DEF BridgeInv, Divided, Bridge!Devices
  <2> QED  BY <1>1, <2>3, <2>4, <2>5, <2>6 DEF Divided
<1>6. Routed' /\ Expected' /\ Bridge!StartRanOnce'
  BY <1>1 DEF BridgeInv, Routed, Expected, Bridge!StartRanOnce, Bridge!AcceptedStartRan, Bridge!OvenRunOnce
<1> QED  BY <1>2, <1>4, <1>5, <1>6 DEF BridgeInv


LEMMA AtSweep ==
    ASSUME BridgeInv, Bridge!At("record") \/ Bridge!At("listing") \/ Bridge!At("sibling")
    PROVE  Sweeping
BY DEF BridgeInv, Typed, Writing, Steps, Bridge!At, Bridge!NoOp

\* A sweep that goes on, or stops short: nothing is shown yet
LEMMA SweepGoesOn ==
    ASSUME BridgeInv, UNCHANGED <<kind, world, divider, last, staged, shown, panel, result>>,
           op' = Bridge!NoOp \/ Sweeping', divided' \in {divided, divider},
           Sweeping' /\ op'.pc = "sibling" /\ op'.steady /\ op'.seen # None => (1 \in op'.seen <=> divider),
           \/ UNCHANGED <<listed, fresh>>
           \/ listed' = [listed EXCEPT ![1] = None] /\ fresh' = fresh \ {1}
    PROVE  BridgeInv'
<1>1. /\ listed' = [j \in Bridge!Devices |-> listed'[j]] /\ fresh' \subseteq fresh
      /\ 1 \in fresh' => listed'[1] = listed[1]
  BY DEF BridgeInv, Typed
<1>2. ~Writing'
  BY DEF Writing, Sweeping, Bridge!NoOp
<1>3. Typed'
  BY <1>1 DEF BridgeInv, Typed
<1>4. Divided'
  BY <1>1, <1>2 DEF BridgeInv, Divided
<1>5. Routed' /\ Expected'
  BY <1>2 DEF Routed, Expected
<1>6. Washes' /\ Bridge!HeldOverReported' /\ Bridge!StartRanOnce'
  BY DEF BridgeInv, Washes, Washed, Bridge!HeldOverReported, Bridge!StartRanOnce, Bridge!AcceptedStartRan,
         Bridge!OvenRunOnce
<1> QED  BY <1>3, <1>4, <1>5, <1>6 DEF BridgeInv

LEMMA SweepBeginsKeeps ==
    ASSUME BridgeInv, NEW i \in Bridge!Devices, Bridge!SweepBegins(i)
    PROVE  BridgeInv'
<1>1. UNCHANGED <<kind, world, divider, last, staged, shown, panel, result, listed, divided, fresh>>
  BY DEF Bridge!SweepBegins, Bridge!World, Bridge!State, Bridge!History
<1>2. Sweeping' /\ op'.pc # "sibling"
  BY DEF Bridge!SweepBegins, Sweeping
<1> QED  BY <1>1, <1>2, SweepGoesOn

LEMMA RecordKeeps ==
    ASSUME BridgeInv, Bridge!BridgeConstantsOK, Bridge!SweepRecord
    PROVE  BridgeInv'
<1>1. Sweeping /\ op.pc = "record" /\ op.index = 0
      /\ UNCHANGED <<kind, world, divider, panel, result, listed, divided>>
  BY AtSweep DEF Bridge!SweepRecord, Bridge!World, Bridge!At
<1>2. CASE op' = Bridge!NoOp /\ UNCHANGED <<last, typed, staged, shown, fresh>>
  BY <1>1, <1>2, SweepGoesOn DEF Sweeping, Bridge!NoOp
<1>3. CASE op' = [op EXCEPT !.pc = "listing", !.seen = world[0]]
           /\ UNCHANGED <<last, typed, staged, shown, fresh>>
  <2>1. Sweeping' /\ op'.pc = "listing"
    BY <1>1, <1>3 DEF Sweeping
  <2> QED  BY <1>1, <1>3, <2>1, SweepGoesOn
<1>4. CASE kind # "Oven" /\ Bridge!Swept(0, world[0], None, None, TRUE)
  <2>1. listed' = [j \in Bridge!Devices |-> listed'[j]] /\ 0 \in Bridge!Devices
    BY <1>1 DEF BridgeInv, Typed, Bridge!Devices
  <2>2. TRUE \in BOOLEAN /\ 0 # 1
    OBVIOUS
  <2> QED  BY <1>1, <1>4, <2>1, <2>2, SweptKeeps
<1> QED  BY <1>2, <1>3, <1>4 DEF Bridge!SweepRecord

LEMMA ListingKeeps ==
    ASSUME BridgeInv, Bridge!BridgeConstantsOK, Bridge!SweepListing
    PROVE  BridgeInv'
<1>1. UNCHANGED <<kind, world, divider, panel, result, listed>>
  BY DEF Bridge!SweepListing, Bridge!World
<1>2. PICK o \in Bridge!Outcomes :
        /\ divided' = IF o = "answered" THEN 1 \in Bridge!Listing ELSE None
        /\ Bridge!Swept(0, op.seen, divided', None, o = "answered")
  BY DEF Bridge!SweepListing
<1>3. listed' = [j \in Bridge!Devices |-> listed'[j]] /\ 0 \in Bridge!Devices /\ 0 # 1
  BY <1>1 DEF BridgeInv, Typed, Bridge!Devices
<1>4. CASE o = "answered"
  <2>1. Bridge!Swept(0, op.seen, divider, None, TRUE) /\ TRUE \in BOOLEAN /\ divided' = divider
    BY <1>2, <1>4, ListedDivided
  <2> QED  BY <1>1, <1>3, <2>1, SweptKeeps
<1>5. CASE o # "answered"
  <2>1. Bridge!Swept(0, op.seen, None, None, FALSE) /\ FALSE \in BOOLEAN
    BY <1>2, <1>5
  <2> QED  BY <1>1, <1>3, <2>1, SweptKeeps
<1> QED  BY <1>4, <1>5

LEMMA SiblingListingKeeps ==
    ASSUME BridgeInv, Bridge!BridgeConstantsOK, Bridge!SiblingListing
    PROVE  BridgeInv'
<1>1. Sweeping /\ op.pc = "listing" /\ op.index = 1 /\ 1 \in Bridge!Devices
      /\ UNCHANGED <<kind, world, divider, panel, result>> /\ divided' \in {divided, divider}
  BY AtSweep, ListedDivided DEF Bridge!SiblingListing, Bridge!World, Bridge!At, Bridge!Devices
<1>2. PICK o \in Bridge!Outcomes :
        IF o = "answered" /\ Bridge!OffersRecord(1) /\ (1 \in Bridge!Listing \/ StillListed)
        THEN Bridge!SiblingSwept(1 \in Bridge!Listing, TRUE)
        ELSE /\ op' = IF Bridge!Raises(o) THEN Bridge!NoOp
                      ELSE [op EXCEPT !.pc = "sibling",
                                      !.seen = IF o = "answered" THEN Bridge!Listing ELSE None]
             /\ listed' = IF o = "refused" THEN [listed EXCEPT ![1] = None] ELSE listed
             /\ fresh' = IF o = "refused" THEN fresh \ {1} ELSE fresh
             /\ UNCHANGED <<last, typed, staged, shown>>
  BY DEF Bridge!SiblingListing
<1>3. CASE Bridge!SiblingSwept(1 \in Bridge!Listing, TRUE)
  <2>1. listed' = [listed EXCEPT ![1] = divider]
        /\ Bridge!Swept(1, world[1], divided, 1 \in Bridge!Listing, TRUE)
    BY <1>3, ListedDivided DEF Bridge!SiblingSwept
  <2>2. listed' = [j \in Bridge!Devices |-> listed'[j]] /\ listed'[1] = divider
    BY <1>1, <2>1 DEF BridgeInv, Typed
  <2>3. 1 # 0 /\ TRUE \in BOOLEAN
    OBVIOUS
  <2> QED  BY <1>1, <2>1, <2>2, <2>3, ListedDivided, SweptKeeps
<1>4. CASE op' = Bridge!NoOp
           /\ (\/ UNCHANGED <<listed, fresh>>
               \/ listed' = [listed EXCEPT ![1] = None] /\ fresh' = fresh \ {1})
           /\ UNCHANGED <<last, typed, staged, shown>>
  BY <1>1, <1>4, SweepGoesOn DEF Sweeping, Bridge!NoOp
<1>5. ASSUME NEW seen \in {Bridge!Listing, None}, op' = [op EXCEPT !.pc = "sibling", !.seen = seen],
             \/ UNCHANGED <<listed, fresh>>
             \/ listed' = [listed EXCEPT ![1] = None] /\ fresh' = fresh \ {1},
             UNCHANGED <<last, typed, staged, shown>>
      PROVE  BridgeInv'
  <2>1. Sweeping' /\ op'.seen = seen
    BY <1>1, <1>5 DEF Sweeping
  <2>2. op'.seen # None => (1 \in op'.seen <=> divider)
    BY <1>5, <2>1, ListedDivided
  <2> QED  BY <1>1, <1>5, <2>1, <2>2, SweepGoesOn
<1> QED  BY <1>2, <1>3, <1>4, <1>5

LEMMA SiblingRecordKeeps ==
    ASSUME BridgeInv, Bridge!BridgeConstantsOK, Bridge!SiblingRecord
    PROVE  BridgeInv'
<1>1. Sweeping /\ op.pc = "sibling" /\ 1 \in Bridge!Devices
      /\ UNCHANGED <<kind, world, divider, divided, panel, result>>
  BY AtSweep DEF Bridge!SiblingRecord, Bridge!World, Bridge!At, Bridge!Devices
<1>2. CASE op' = Bridge!NoOp /\ UNCHANGED <<listed, last, typed, staged, shown, fresh>>
  BY <1>1, <1>2, SweepGoesOn DEF Sweeping, Bridge!NoOp
<1>3. CASE op.seen = None /\ Bridge!Swept(1, world[1], divided, listed[1], FALSE) /\ UNCHANGED listed
  <2>1. listed' = [j \in Bridge!Devices |-> listed'[j]]
    BY <1>3 DEF BridgeInv, Typed
  <2> QED  BY <1>1, <1>3, <2>1, SweptKeeps
<1>4. CASE op.seen # None /\ Bridge!SiblingSwept(1 \in op.seen, TRUE)
  <2>1. op.steady => (1 \in op.seen) = divider
    BY <1>1, <1>4 DEF BridgeInv, Divided, Typed
  <2>2. listed' = [listed EXCEPT ![1] = (1 \in op.seen)]
        /\ Bridge!Swept(1, world[1], divided, 1 \in op.seen, TRUE)
    BY <1>4 DEF Bridge!SiblingSwept
  <2>3. listed' = [j \in Bridge!Devices |-> listed'[j]] /\ (op.steady => listed'[1] = divider)
    BY <1>1, <2>1, <2>2 DEF BridgeInv, Typed
  <2>4. 1 # 0 /\ TRUE \in BOOLEAN /\ divided' \in {divided, divider}
    BY <1>1
  <2> QED  BY <1>1, <2>1, <2>2, <2>3, <2>4, SweptKeeps
<1> QED  BY <1>2, <1>3, <1>4 DEF Bridge!SiblingRecord


\* A write given: what a start pressed now would run is what is shown
LEMMA CommandKeeps ==
    ASSUME BridgeInv, NEW c \in CommandsOf[kind], Bridge!Command(c)
    PROVE  BridgeInv'
<1>1. UNCHANGED <<kind, world, divider, last, staged, listed, divided, shown, fresh, panel>>
      /\ result' = None
  BY DEF Bridge!Command, Bridge!World, Bridge!State
<1>2. Writing' /\ ~Sweeping' /\ op'.pc = "admit" /\ op'.runs = 0
      /\ op'.expected = IF kind = "Washer" /\ last[0] = world[0] /\ Bridge!Idle(0)
                        THEN Bridge!View(staged, last[0].set) ELSE None
  BY <1>1 DEF Bridge!Command, Writing, Sweeping, Steps
<1>3. Typed' /\ Divided' /\ Routed'
  BY <1>1, <1>2 DEF BridgeInv, Typed, Divided, Routed, Starting
<1>4. Washes' /\ Bridge!HeldOverReported' /\ Bridge!StartRanOnce'
  BY <1>1 DEF BridgeInv, Washes, Washed, Bridge!HeldOverReported, Bridge!StartRanOnce,
              Bridge!AcceptedStartRan, Bridge!OvenRunOnce
<1>5. Expected'
  <2>1. op'.expected # None => /\ Bridge!Idle(0)
                               /\ Bridge!View(staged, world[0].set) = op'.expected
    BY <1>2
  <2> QED  BY <1>1, <1>2, <2>1 DEF Expected, Bridge!Idle
<1> QED  BY <1>3, <1>4, <1>5 DEF BridgeInv

\* The panel used: nothing more is expected of a start, and nothing known of the divider
LEMMA PanelKeeps ==
    ASSUME BridgeInv, Bridge!BridgeConstantsOK, Bridge!Panel
    PROVE  BridgeInv'
<1>1. UNCHANGED <<kind, last, staged, listed, divided, shown, result>> /\ panel' \in Nat
  BY DEF Bridge!Panel, Bridge!State, BridgeInv, Typed
<1>2. Bridge!HeldOverReported' /\ Bridge!StartRanOnce'
  BY <1>1 DEF BridgeInv, Bridge!HeldOverReported, Bridge!StartRanOnce,
              Bridge!AcceptedStartRan, Bridge!OvenRunOnce
<1>3. ASSUME NEW i \in Bridge!Devices, NEW state \in {"Ready", "Run"}, NEW set \in Settings[kind],
             world' = [world EXCEPT ![i] = [state |-> state, set |-> set]],
             op' = IF op.call = "write" THEN [op EXCEPT !.expected = None] ELSE op,
             UNCHANGED <<divider, fresh>>
      PROVE  BridgeInv'
  <2>1. kind = "Washer" => Washed(set)
    BY <1>3 DEF BridgeInv, Typed, Bridge!BridgeConstantsOK, Bridge!SettingsOK, Washed
  <2>2. /\ world' = [j \in Bridge!Devices |-> [state |-> world'[j].state, set |-> world'[j].set]]
        /\ \A j \in Bridge!Devices : world'[j].state \in {"Ready", "Run", "Pause"}
        /\ kind = "Washer" => \A j \in Bridge!Devices : Washed(world'[j].set)
    <3>1. world' = [j \in Bridge!Devices |-> IF j = i THEN [state |-> state, set |-> set] ELSE world[j]]
      BY <1>3 DEF BridgeInv, Typed
    <3>2. \A j \in Bridge!Devices : /\ world[j] = [state |-> world[j].state, set |-> world[j].set]
                                    /\ world[j].state \in {"Ready", "Run", "Pause"}
                                    /\ kind = "Washer" => Washed(world[j].set)
      BY DEF BridgeInv, Typed, Washes
    <3> QED  BY <2>1, <3>1, <3>2
  <2>3. Washes'
    BY <1>1, <2>2 DEF BridgeInv, Washes, Washed
  <2>4. CASE Writing
    <3>1. Writing' /\ ~Sweeping' /\ op'.expected = None /\ op'.cmd = op.cmd /\ op'.pc = op.pc
          /\ op'.runs = op.runs /\ op'.saw = op.saw
      BY <1>1, <1>3, <2>4 DEF Writing, Sweeping
    <3>2. Bridge!Index' = Bridge!Index /\ Bridge!Sendable' = Bridge!Sendable
      BY <1>1, <3>1 DEF Bridge!Index, Bridge!Cmd, Bridge!Sendable
    <3>3. Typed'
      BY <1>1, <1>3, <2>2, <3>1 DEF BridgeInv, Typed
    <3>4. Divided' /\ Routed'
      BY <1>1, <1>3, <2>4, <3>1, <3>2 DEF BridgeInv, Divided, Routed
    <3>5. Expected'
      BY <3>1 DEF Expected
    <3> QED  BY <1>2, <2>3, <3>3, <3>4, <3>5 DEF BridgeInv
  <2>5. CASE ~Writing
    <3>1. UNCHANGED op
      BY <1>3, <2>5 DEF BridgeInv, Typed, Sweeping, Bridge!NoOp
    <3>2. ~Writing' /\ Sweeping' = Sweeping
      BY <1>1, <2>5, <3>1 DEF Writing, Sweeping
    <3>3. Typed'
      BY <1>1, <1>3, <2>2, <3>1, <3>2, <2>5 DEF BridgeInv, Typed, Bridge!NoOp
    <3>4. Divided' /\ Routed' /\ Expected'
      BY <1>1, <1>3, <3>1, <3>2 DEF BridgeInv, Divided, Routed, Expected
    <3> QED  BY <1>2, <2>3, <3>3, <3>4 DEF BridgeInv
  <2> QED  BY <2>4, <2>5
<1>4. ASSUME kind = "Oven", divider' = ~divider, fresh' = {}, UNCHANGED world,
             op' = IF op.call = "sweep" THEN [op EXCEPT !.steady = FALSE] ELSE op
      PROVE  BridgeInv'
  <2>1. Washes' /\ Expected'
    BY <1>1, <1>4 DEF Washes, Expected
  <2>2. CASE Sweeping
    <3>1. Sweeping' /\ ~Writing' /\ op'.steady = FALSE
      BY <1>4, <2>2 DEF Sweeping, Writing
    <3>2. Typed' /\ Divided' /\ Routed'
      BY <1>1, <1>4, <3>1 DEF BridgeInv, Typed, Divided, Routed
    <3> QED  BY <1>2, <2>1, <3>2 DEF BridgeInv
  <2>3. CASE ~Sweeping
    <3>1. UNCHANGED op
      BY <1>4, <2>3 DEF BridgeInv, Typed, Writing, Bridge!NoOp
    <3>2. ~Sweeping' /\ Writing' = Writing
      BY <1>1, <2>3, <3>1 DEF Writing, Sweeping
    <3>3. Bridge!Index' = Bridge!Index /\ Bridge!Sendable' = Bridge!Sendable
      BY <1>1, <3>1 DEF Bridge!Index, Bridge!Cmd, Bridge!Sendable
    <3>4. Typed' /\ Divided' /\ Routed'
      BY <1>1, <1>4, <2>3, <3>1, <3>2, <3>3 DEF BridgeInv, Typed, Divided, Routed, Bridge!NoOp
    <3> QED  BY <1>2, <2>1, <3>4 DEF BridgeInv
  <2> QED  BY <2>2, <2>3
<1> QED  BY <1>3, <1>4 DEF Bridge!Panel

LEMMA BridgeInit ==
    ASSUME Bridge!BridgeConstantsOK, Bridge!Init
    PROVE  BridgeInv
<1>1. ~Writing /\ ~Sweeping /\ op = Bridge!NoOp
  BY DEF Bridge!Init, Writing, Sweeping, Bridge!NoOp
<1>2. PICK set \in Settings[kind] : world = [i \in Bridge!Devices |-> [state |-> "Ready", set |-> set]]
  BY DEF Bridge!Init
<1>3. Typed
  <2>1. DOMAIN staged = {}
    BY DEF Bridge!Init
  <2> QED  BY <1>1, <1>2, <2>1 DEF Bridge!Init, Bridge!BridgeConstantsOK, Typed
<1>4. Washes
  <2>1. kind = "Washer" => Washed(set)
    BY DEF Bridge!Init, Bridge!BridgeConstantsOK, Bridge!SettingsOK, Washed
  <2> QED  BY <1>2, <2>1 DEF Bridge!Init, Washes
<1>5. Divided /\ Routed /\ Expected /\ Bridge!HeldOverReported /\ Bridge!StartRanOnce
  BY <1>1 DEF Bridge!Init, Divided, Routed, Expected, Bridge!HeldOverReported, Bridge!StartRanOnce,
              Bridge!AcceptedStartRan, Bridge!OvenRunOnce, Bridge!Devices
<1> QED  BY <1>3, <1>4, <1>5 DEF BridgeInv

LEMMA BridgeStep ==
    ASSUME Bridge!BridgeConstantsOK, BridgeInv, [Bridge!Next]_Bridge!vars
    PROVE  BridgeInv'
<1>1. CASE Bridge!Next
  <2>1. 0 \in Bridge!Devices /\ 1 \in Bridge!Devices
    BY DEF Bridge!Devices
  <2> QED  BY <1>1, <2>1, PanelKeeps, ReadKeeps, LoneReadsKeep, SweepBeginsKeeps, RecordKeeps, ListingKeeps, SiblingListingKeeps,
              SiblingRecordKeeps, CommandKeeps, AdmitKeeps, SyncClockKeeps, LearnTypeKeeps, ComposeKeeps,
              FreshReadKeeps, PutKeeps, ProbeClockKeeps, StartComposedKeeps, ChecksKeep, StartRunKeeps,
              OvenSettingsKeeps, BudgetKeeps, OvenRunKeeps DEF Bridge!Next
<1>2. CASE UNCHANGED Bridge!vars
  <2>1. UNCHANGED <<kind, world, divider, last, staged, listed, divided, shown, op, result, fresh, panel>>
    BY <1>2 DEF Bridge!vars, Bridge!World, Bridge!State, Bridge!History
  <2>2. Bridge!Index' = Bridge!Index /\ Bridge!Sendable' = Bridge!Sendable
    BY <2>1 DEF Bridge!Index, Bridge!Cmd, Bridge!Sendable
  <2>3. Writing' = Writing /\ Sweeping' = Sweeping
    BY <2>1 DEF Writing, Sweeping
  <2>4. Typed' /\ Divided' /\ Routed' /\ Washes'
    <3>1. Typed'
      BY <2>1, <2>3 DEF BridgeInv, Typed, Bridge!NoOp
    <3>2. Divided'
      BY <2>1, <2>2, <2>3 DEF BridgeInv, Divided
    <3>3. Routed'
      BY <2>1, <2>2, <2>3 DEF BridgeInv, Routed
    <3>4. Washes'
      BY <2>1 DEF BridgeInv, Washes, Washed
    <3> QED  BY <3>1, <3>2, <3>3, <3>4
  <2>5. Expected'
    BY <2>1, <2>2, <2>3 DEF BridgeInv, Expected, Bridge!Idle
  <2>6. Bridge!HeldOverReported' /\ Bridge!StartRanOnce'
    BY <2>1 DEF BridgeInv, Bridge!HeldOverReported, Bridge!StartRanOnce, Bridge!AcceptedStartRan, Bridge!OvenRunOnce
  <2> QED  BY <2>4, <2>5, <2>6 DEF BridgeInv
<1> QED  BY <1>1, <1>2


-----------------------------------------------------------------------------
(* What starts and stops do. *)

\* Only these change what an appliance is doing, but for its panel
LEMMA WorldChanges ==
    ASSUME BridgeInv, Bridge!Next, world' # world, panel' = panel
    PROVE  Bridge!PutOnce \/ Bridge!StartComposed \/ Bridge!StartRun \/ Bridge!OvenSettings \/ Bridge!OvenRun
<1>1. ~Bridge!Panel
  BY DEF Bridge!Panel, BridgeInv, Typed
<1>2. /\ \A wrapper : ~Bridge!ReadEndpoint(wrapper)
      /\ ~Bridge!ReadListed /\ \A i : ~Bridge!ReadMode(i)
      /\ \A i : ~Bridge!SweepBegins(i)
      /\ ~Bridge!SweepRecord /\ ~Bridge!SweepListing /\ ~Bridge!SiblingListing /\ ~Bridge!SiblingRecord
      /\ \A c : ~Bridge!Command(c)
      /\ ~Bridge!Admit /\ ~Bridge!SyncClock /\ ~Bridge!LearnType /\ ~Bridge!Compose /\ ~Bridge!FreshRead
      /\ \A serves : ~Bridge!ProbeClock(serves)
      /\ ~Bridge!StartChecked /\ ~Bridge!StartRechecked /\ ~Bridge!OvenBudgetSpent
  BY DEF Bridge!World, Bridge!ReadEndpoint, Bridge!ReadListed, Bridge!ReadMode, Bridge!SweepBegins, Bridge!SweepRecord, Bridge!SweepListing,
         Bridge!SiblingListing, Bridge!SiblingRecord, Bridge!Command, Bridge!Admit, Bridge!SyncClock,
         Bridge!LearnType, Bridge!Compose, Bridge!FreshRead, Bridge!ProbeClock, Bridge!StartChecked,
         Bridge!StartRechecked, Bridge!OvenBudgetSpent
<1> QED  BY <1>1, <1>2 DEF Bridge!Next

\* The request by which it does
LEMMA ChangedBy ==
    ASSUME BridgeInv, Bridge!BridgeConstantsOK, Bridge!Next, world' # world, panel' = panel
    PROVE  /\ Writing /\ Bridge!Index \in Bridge!Devices
           /\ \E o, body :
                /\ o \in Bridge!Outcomes /\ Bridge!Sends(o, body)
                /\ \/ op.pc = "put" /\ body = Bridge!Sendable
                   \/ op.pc = "composed" /\ body = Bridge!AddStaged(Bridge!Sendable, Bridge!HeldValues(staged))
                   \/ op.pc = "run" /\ body = Bridge!Only(Bridge!StateKey, "Run")
                   \/ kind = "Oven"
<1>1. CASE Bridge!PutOnce
  <2>1. Writing /\ op.pc = "put" /\ Bridge!Index \in Bridge!Devices
    BY <1>1, AtWrite DEF Bridge!PutOnce, Steps
  <2>2. \E o \in Bridge!Outcomes : Bridge!Sends(o, Bridge!Sendable)
    BY <1>1 DEF Bridge!PutOnce
  <2> QED  BY <2>1, <2>2
<1>2. CASE Bridge!StartComposed
  <2>1. Writing /\ op.pc = "composed" /\ Bridge!Index \in Bridge!Devices
    BY <1>2, AtWrite DEF Bridge!StartComposed, Steps
  <2>2. \E o \in Bridge!Outcomes :
          Bridge!Sends(o, Bridge!AddStaged(Bridge!Sendable, Bridge!HeldValues(staged)))
    BY <1>2 DEF Bridge!StartComposed
  <2> QED  BY <2>1, <2>2
<1>3. CASE Bridge!StartRun
  <2>1. Writing /\ op.pc = "run" /\ Bridge!Index \in Bridge!Devices
    BY <1>3, AtWrite DEF Bridge!StartRun, Steps
  <2>2. \E o \in Bridge!Outcomes : Bridge!Sends(o, Bridge!Only(Bridge!StateKey, "Run"))
    BY <1>3 DEF Bridge!StartRun
  <2> QED  BY <2>1, <2>2
<1>4. CASE Bridge!OvenSettings
  <2>1. Writing /\ op.pc = "oven" /\ Bridge!Index \in Bridge!Devices
    BY <1>4, AtWrite DEF Bridge!OvenSettings, Steps
  <2>2. kind = "Oven"
    BY <2>1 DEF BridgeInv, Routed
  <2>3. \E o \in Bridge!Outcomes : \E body : Bridge!Sends(o, body)
    BY <1>4 DEF Bridge!OvenSettings
  <2> QED  BY <2>1, <2>2, <2>3
<1>5. CASE Bridge!OvenRun
  <2>1. Writing /\ op.pc = "ovenrun" /\ Bridge!Index \in Bridge!Devices
    BY <1>5, AtWrite DEF Bridge!OvenRun, Steps
  <2>2. kind = "Oven"
    BY <2>1 DEF BridgeInv, Routed
  <2>3. \E o \in Bridge!Outcomes : \E body : Bridge!Sends(o, body)
    BY <1>5 DEF Bridge!OvenRun
  <2> QED  BY <2>1, <2>2, <2>3
<1> QED  BY <1>1, <1>2, <1>3, <1>4, <1>5, WorldChanges

LEMMA RunsShown ==
    ASSUME BridgeInv, Bridge!BridgeConstantsOK, Bridge!Next, panel' = panel,
           kind = "Washer", op.call = "write", op.expected # None,
           world[0].state # "Run", world'[0].state = "Run"
    PROVE  world'[0].set = op.expected
<1>1. Writing /\ Bridge!Index \in Bridge!Devices /\ world' # world
  BY ChangedBy
<1>2. PICK o, body :
        /\ o \in Bridge!Outcomes /\ Bridge!Sends(o, body)
        /\ \/ op.pc = "put" /\ body = Bridge!Sendable
           \/ op.pc = "composed" /\ body = Bridge!AddStaged(Bridge!Sendable, Bridge!HeldValues(staged))
           \/ op.pc = "run" /\ body = Bridge!Only(Bridge!StateKey, "Run")
           \/ kind = "Oven"
  BY <1>1, ChangedBy
<1>3. Bridge!Index = 0 /\ world'[0] \in Bridge!Taken(world[0], body)
  BY <1>1, <1>2, Sending DEF Bridge!Devices
<1>4. Bridge!IsStart(body)
  <2>1. world[0] = [state |-> world[0].state, set |-> world[0].set]
    BY DEF BridgeInv, Typed, Bridge!Devices
  <2> QED  BY <1>3, <2>1, TakenIs
<1>5. Bridge!IsStart(Bridge!Sendable)
  BY <1>1, <1>2, <1>4 DEF BridgeInv, Routed, Starting
<1>6. \/ DOMAIN body = {Bridge!StateKey} /\ staged = <<>>
      \/ body = Bridge!AddStaged(Bridge!Sendable, Bridge!HeldValues(staged))
  <2>1. op.pc \in {"put", "run"} => staged = <<>>
    BY <1>1, <1>3, <1>5 DEF BridgeInv, Expected
  <2>2. DOMAIN Bridge!Sendable = {Bridge!StateKey}
    BY <1>1, <1>5, SaysRun
  <2> QED  BY <1>2, <2>1, <2>2, RunBody
<1> QED  BY <1>1, <1>2, <1>3, <1>4, <1>5, <1>6, Loads

LEMMA StopsKeep ==
    ASSUME BridgeInv, Bridge!BridgeConstantsOK, Bridge!Next, NEW i \in Bridge!Devices,
           world[i].state = "Ready", world'[i].state = "Pause"
    PROVE  op.saw \notin {None, "Ready"}
<1>1. panel' = panel
  <2>1. ~Bridge!Panel
    <3> SUFFICES ASSUME Bridge!Panel  PROVE FALSE
      OBVIOUS
    <3>1. CASE UNCHANGED world
      BY <3>1
    <3>2. ASSUME NEW j \in Bridge!Devices, NEW state \in {"Ready", "Run"}, NEW set,
                 world' = [world EXCEPT ![j] = [state |-> state, set |-> set]]
          PROVE  FALSE
      <4>1. world'[i] = IF i = j THEN [state |-> state, set |-> set] ELSE world[i]
        BY <3>2 DEF BridgeInv, Typed
      <4> QED  BY <3>2, <4>1
    <3> QED  BY <3>1, <3>2 DEF Bridge!Panel
  <2>2. Bridge!Next /\ ~Bridge!Panel => panel' = panel
    BY DEF Bridge!Next, Bridge!ReadEndpoint, Bridge!ReadListed, Bridge!ReadMode,
         Bridge!SweepBegins, Bridge!SweepRecord, Bridge!SweepListing,
         Bridge!SiblingListing, Bridge!SiblingRecord, Bridge!Command, Bridge!Admit, Bridge!SyncClock,
         Bridge!LearnType, Bridge!Compose, Bridge!FreshRead, Bridge!ProbeClock, Bridge!StartChecked,
         Bridge!StartRechecked, Bridge!OvenBudgetSpent, Bridge!PutOnce, Bridge!StartComposed, Bridge!StartRun,
         Bridge!OvenSettings, Bridge!OvenRun, Bridge!Sends
  <2> QED  BY <2>1, <2>2
<1>2. Writing /\ Bridge!Index \in Bridge!Devices /\ world' # world
  BY <1>1, ChangedBy
<1>3. PICK o, body :
        /\ o \in Bridge!Outcomes /\ Bridge!Sends(o, body)
        /\ \/ op.pc = "put" /\ body = Bridge!Sendable
           \/ op.pc = "composed" /\ body = Bridge!AddStaged(Bridge!Sendable, Bridge!HeldValues(staged))
           \/ op.pc = "run" /\ body = Bridge!Only(Bridge!StateKey, "Run")
           \/ kind = "Oven"
  BY <1>1, <1>2, ChangedBy
<1>4. Bridge!Index = i /\ world'[i] \in Bridge!Taken(world[i], body)
  BY <1>2, <1>3, Sending
<1>5. kind = "Washer" /\ Bridge!StateKey \in DOMAIN body /\ body[Bridge!StateKey] = "Ready"
  <2>1. world[i] = [state |-> world[i].state, set |-> world[i].set]
    BY DEF BridgeInv, Typed
  <2> QED  BY <1>4, <2>1, TakenIs
<1>6. op.pc # "run" \/ body # Bridge!Only(Bridge!StateKey, "Run")
  BY <1>5 DEF Bridge!Only
<1>7. ASSUME op.pc = "composed", body = Bridge!AddStaged(Bridge!Sendable, Bridge!HeldValues(staged))
      PROVE  FALSE
  <2>1. Bridge!StateKey \notin DOMAIN staged
    BY <1>5, 0 \in Bridge!Devices DEF BridgeInv, Washes, Washed, Bridge!Devices
  <2>2. Bridge!IsStart(Bridge!Sendable)
    BY <1>2, <1>7 DEF BridgeInv, Routed, Starting
  <2> QED  BY <1>5, <1>7, <2>1, <2>2 DEF Bridge!IsStart, Bridge!AddStaged, Bridge!Over, Bridge!HeldValues
<1>8. op.pc = "put" /\ body = Bridge!Sendable
  BY <1>3, <1>5, <1>6, <1>7
<1>9. Bridge!Sendable = Bridge!StopBody
  BY <1>2, <1>5, <1>8 DEF Bridge!BridgeConstantsOK, Bridge!CommandsOK, Bridge!Sendable, Writing, BridgeInv, Typed
<1> QED  BY <1>2, <1>8, <1>9 DEF BridgeInv, Routed

LEMMA BridgeRuns == PartsSpec => Bridge!Spec
<1>1. PartsInit => Bridge!Init
  BY DEF PartsInit
<1>2. [PartsNext]_<<part, vars, bridgeVars>> => [Bridge!Next]_Bridge!vars
  BY DEF PartsNext, bridgeVars, Bridge!vars, Bridge!World, Bridge!State, Bridge!History
<1> QED BY <1>1, <1>2, PTL DEF PartsSpec, Bridge!Spec

LEMMA BridgeInvHolds == PartsSpec => []BridgeInv
  BY BridgeRuns, BridgeInit, BridgeStep, BridgeOK, PTL DEF Bridge!Spec

(* What is shown is over the last sweep: a held value over what it         *)
(* reported, a cavity's modes over the divider it found.                   *)
THEOREM BridgeShows == PartsSpec => []BridgeShowsSwept
<1>1. BridgeInv => BridgeShowsSwept
  <2>1. BridgeInv /\ op.call = "write" => Writing
    BY BridgeOK DEF BridgeInv, Typed, Sweeping, Bridge!NoOp, Bridge!BridgeConstantsOK
  <2> QED  BY <2>1 DEF BridgeInv, Divided, BridgeShowsSwept, Bridge!BridgeShowsSwept,
                      Bridge!CavitiesAsDivided
<1> QED  BY <1>1, BridgeInvHolds, PTL

(* A start reported as accepted ran, but for an answered Run that the      *)
(* appliance left, and an oven is sent at most one Run for it, whatever    *)
(* answer is lost and retried.                                             *)
THEOREM BridgeStartsOnce == PartsSpec => []StartRanOnce
<1>1. BridgeInv => StartRanOnce
  BY DEF BridgeInv, StartRanOnce
<1> QED  BY <1>1, BridgeInvHolds, PTL

(* A start of an idle washer runs what was shown as it was pressed, and a  *)
(* stop does not reset one that is idle.                                   *)
THEOREM BridgeStartsAsShown == PartsSpec => StartsAndStopsAsShown
<1> DEFINE Runs == /\ kind = "Washer" /\ op.call = "write" /\ op.expected # None /\ panel' = panel
                   /\ world[0].state # "Run" /\ world'[0].state = "Run"
                   => world'[0].set = op.expected
           Stops == \A i \in Bridge!Devices :
                        world[i].state = "Ready" /\ world'[i].state = "Pause" => op.saw \notin {None, "Ready"}
<1>1. BridgeInv /\ [Bridge!Next]_Bridge!vars => [Runs]_Bridge!vars /\ [Stops]_Bridge!vars
  BY RunsShown, StopsKeep, BridgeOK
<1>2. PartsSpec => [][Runs]_Bridge!vars /\ [][Stops]_Bridge!vars
  BY <1>1, BridgeRuns, BridgeInvHolds, PTL DEF Bridge!Spec
<1> QED  BY <1>2, PTL
         DEF StartsAndStopsAsShown, Bridge!StartsAndStopsAsShown, Bridge!StartRunsShown, Bridge!StopKeepsIdle

=============================================================================
