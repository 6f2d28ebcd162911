------------------------------ MODULE FinishSensor ------------------------------
(***************************************************************************)
(* The progress and finish-time sensors of a washer, a dryer, a dishwasher *)
(* or an oven (sensor.py, capabilities/operational.py).  What they show is *)
(* held back twice: "finish" is kept for a while after the appliance has   *)
(* gone idle, once for each cycle; and the finish time moves only by a     *)
(* threshold.  Both are states of the entity, computed from the flattened  *)
(* data and from the live rep, which a thread may have changed in between. *)
(*                                                                         *)
(* Time is in minutes and starts at a poll.                                *)
(***************************************************************************)
EXTENDS Integers

CONSTANTS
    None,
    Window,      \* sticky_seconds
    Threshold,   \* CONF_FINISH_TIME_HYSTERESIS_MINUTES
    Lengths,     \* the cycles' lengths
    Jitter,      \* by how much the appliance revises its remaining time
    Horizon,     \* bound: the minutes that pass
    Budgets      \* bounds: [cycles, flaps, loads]

ASSUME FinishOK ==
    /\ Window \in Nat \ {0} /\ Threshold \in Nat /\ Horizon \in Nat
    /\ Lengths \subseteq Nat \ {0} /\ Jitter \subseteq Int
    /\ Budgets \subseteq [cycles : Nat, flaps : Nat, loads : Nat]

ASSUME NoneIsApart == None \notin Int \cup {"Finish", "drying", "idle", "finish"}

VARIABLES
    unit,     \* the appliance: state, progress, left
    cache,    \* the rep of /operational/state/vs/0
    data,     \* what the last publication flattened of it
    pending,  \* "flatten", "write" or "none": what the last change still waits for
    now,
    sticky,   \* _sticky_value (None or "finish"), _sticky_until, _sticky_spent
    shown,    \* the states of the two entities; the time is _hysteresis_value too
    seen,     \* history: when "Finish" was first read since a running cycle was
    told,     \* history: "finish" was shown since a cycle was seen to run
    budget

vars == <<unit, cache, data, pending, now, sticky, shown, seen, told, budget>>

\* The appliance is in a cycle
Runs(rep) == rep.state = "active" /\ rep.progress = "drying"

Spend(what) == budget[what] > 0 /\ budget' = [budget EXCEPT ![what] = @ - 1]

-----------------------------------------------------------------------------
(* What a rep says *)

StateIsActive(rep) == rep.state = "active"

\* _progress, the rep_fn of progress
Progress(rep) ==
    IF ~StateIsActive(rep) \/ rep.progress = None THEN "idle"
    ELSE IF rep.progress = "Finish" THEN "finish" ELSE rep.progress

\* _finish_time: while it runs; a remaining time of nothing says nothing
FinishTime(rep, at) ==
    IF StateIsActive(rep) /\ rep.progress # "Finish" /\ rep.left > 0 THEN at + rep.left ELSE None

\* _just_finished: whatever the state
JustFinished(rep) == rep.progress = "Finish"

\* _new_cycle_running: the stage alone may be the tail of the last cycle
NewCycleRunning(rep) == StateIsActive(rep) /\ rep.progress \notin {None, "Finish"}

Flat(rep, at) == [progress |-> Progress(rep), finish |-> FinishTime(rep, at)]

-----------------------------------------------------------------------------
(* The entities *)

Unarmed == [value |-> None, until |-> None, spent |-> FALSE]

\* Slip: armed whenever it matches
RearmedEachTime(rep) ==
    IF JustFinished(rep) THEN [value |-> "finish", until |-> now + Window, spent |-> TRUE]
    ELSE IF NewCycleRunning(rep) THEN Unarmed ELSE sticky

\* _apply_sticky, its state: one window for each cycle that was seen to run
Armed(rep) ==
    IF JustFinished(rep)
    THEN IF sticky.spent THEN sticky
         ELSE [value |-> "finish", until |-> now + Window, spent |-> TRUE]
    ELSE IF NewCycleRunning(rep) THEN [sticky EXCEPT !.until = None, !.spent = FALSE]
         ELSE sticky

\* _apply_sticky, its value
Held(raw, hold) == IF hold.until # None /\ now < hold.until THEN hold.value ELSE raw

Apart(a, b) == IF a >= b THEN a - b ELSE b - a

\* Slip: a change by the threshold itself is held back too
SteadyAtThreshold(raw) ==
    IF raw # None /\ shown.finish # None /\ Apart(raw, shown.finish) <= Threshold
    THEN shown.finish ELSE raw

\* _apply_hysteresis: the value shown stays until one differs enough from it
Steady(raw) ==
    IF Threshold > 0 /\ raw # None /\ shown.finish # None /\ Apart(raw, shown.finish) < Threshold
    THEN shown.finish ELSE raw

\* native_value, as Home Assistant writes the states after a publication, or
\* asks again between two
Evaluate ==
    /\ sticky' = Armed(cache)
    /\ shown' = [progress |-> Held(data.progress, sticky'), finish |-> Steady(data.finish)]
    /\ pending' = IF pending = "write" THEN "none" ELSE pending
    /\ seen' = IF Runs(cache) THEN None
               ELSE IF cache.progress = "Finish" /\ seen = None THEN now ELSE seen
    /\ told' = (~Runs(cache) /\ (told \/ shown'.progress = "finish"))
    /\ UNCHANGED <<unit, cache, data, now, budget>>

\* A sweep or a notification
Read ==
    /\ cache # unit
    /\ cache' = unit
    /\ pending' = "flatten"
    /\ UNCHANGED <<unit, data, now, sticky, shown, seen, told, budget>>

\* The data are flattened from the rep as it is; the entities are written
\* after that
Publish ==
    /\ data' = Flat(cache, now)
    /\ pending' = "write"
    /\ UNCHANGED <<unit, cache, now, sticky, shown, seen, told, budget>>

\* A reload: coordinator and entities are made anew, after a first poll
Load ==
    /\ Spend("loads")
    /\ sticky' = Unarmed
    /\ shown' = [progress |-> None, finish |-> None]
    /\ seen' = None /\ told' = FALSE
    /\ cache' = unit
    /\ data' = Flat(unit, now)
    /\ pending' = "write"
    /\ UNCHANGED <<unit, now>>

-----------------------------------------------------------------------------
(* The appliance, as the reports of issues #345 and #358 have it *)

Becomes(state, progress, left) ==
    unit' = [state |-> state, progress |-> progress, left |-> left]

\* It changes no faster than a change reaches the entities
MayChange ==
    /\ pending = "none"
    /\ UNCHANGED <<cache, data, pending, now, sticky, shown, seen, told>>

Start ==
    /\ MayChange
    /\ ~Runs(unit) /\ unit.state # "pause" /\ Spend("cycles")
    /\ \E n \in Lengths : Becomes("active", "drying", n)

\* A cycle outlasts the poll that shows it.  The state may be idle by the
\* time the progress says Finish; the remaining time freezes at a minute
Finish ==
    /\ MayChange
    /\ Runs(unit) /\ Runs(cache)
    /\ \E s \in {"active", "idle"} : Becomes(s, "Finish", 1)
    /\ UNCHANGED budget

\* The progress goes back to the first stage with the state idle, or to None
Settle ==
    /\ MayChange
    /\ unit.progress = "Finish" \/ unit.state = "idle"
    /\ \E p \in {"drying", None} : Becomes("idle", p, unit.left)
    /\ unit' # unit
    /\ UNCHANGED budget

\* It says Finish again, or goes idle and leaves the progress as it is
Flap ==
    /\ MayChange
    /\ unit.state = "idle" \/ unit.progress = "Finish"
    /\ Becomes("idle", "Finish", unit.left)
    /\ unit' # unit
    /\ Spend("flaps")

Pause ==
    /\ MayChange
    /\ unit.progress = "drying" /\ unit.state \in {"active", "pause"}
    /\ Becomes(IF unit.state = "pause" THEN "active" ELSE "pause", unit.progress, unit.left)
    /\ Spend("flaps")

\* A minute; a publication never takes as long, so one that is due comes
\* first.  The appliance counts down, and revises its estimate
Tick ==
    /\ now < Horizon /\ pending = "none"
    /\ now' = now + 1
    /\ \E d \in Jitter :
        unit' = IF Runs(unit)
                THEN [unit EXCEPT !.left = IF @ - 1 + d > 1 THEN @ - 1 + d ELSE 1] ELSE unit
    /\ UNCHANGED <<cache, data, pending, sticky, shown, seen, told, budget>>

-----------------------------------------------------------------------------
Init ==
    /\ unit \in {[state |-> "idle", progress |-> p, left |-> 1] : p \in {None, "Finish"}}
    /\ cache = unit
    /\ data = Flat(unit, 0)
    /\ pending = "write"
    /\ now = 0
    /\ sticky = Unarmed
    /\ shown = [progress |-> None, finish |-> None]
    /\ seen = None
    /\ told = FALSE
    /\ budget \in Budgets

Next ==
    \/ Evaluate \/ Read \/ Publish \/ Load
    \/ Start \/ Finish \/ Settle \/ Flap \/ Pause \/ Tick

Spec == Init /\ [][Next]_vars

-----------------------------------------------------------------------------
(* Properties *)

\* From the first time the entities meet "Finish" after a running cycle, the
\* progress reads finish for one window, whatever the appliance reports
\* meanwhile short of a cycle that runs, and no longer (issue #345); and once
\* it has left finish it comes back to it only for another cycle, or another
\* load ("exactly the repeated announcements #345 and #358 are about").
FinishHeldOneWindow ==
    [][Evaluate =>
        /\ seen' # None /\ now < seen' + Window => shown'.progress = "finish"
        /\ seen' # None /\ now >= seen' + Window => shown'.progress = data.progress
        /\ told /\ ~Runs(cache) /\ shown.progress # "finish"
             => shown'.progress # "finish"]_vars

\* The finish time shown is never further than the threshold from the one
\* computed, moves by no less than that, and comes and goes with it at once.
FinishTimeSteady ==
    [][Evaluate =>
        /\ (shown'.finish = None) = (data.finish = None)
        /\ data.finish # None => \/ Apart(shown'.finish, data.finish) < Threshold
                                 \/ shown'.finish = data.finish
        /\ shown'.finish # None /\ shown.finish # None /\ shown'.finish # shown.finish
             => Apart(shown'.finish, shown.finish) >= Threshold]_vars

=============================================================================
