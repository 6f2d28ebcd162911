------------------------------ MODULE ControlParts ------------------------------
(***************************************************************************)
(* Four parts of an entry that share no state, side by side: the finish    *)
(* sensors, an air conditioner's card, a laundry appliance's courses, and  *)
(* the debug services.  A behaviour is one of one part, the others staying *)
(* as they were first loaded; so what a part reaches is what its own       *)
(* specification reaches.                                                  *)
(***************************************************************************)
EXTENDS FinishSensor

CONSTANTS
    AirConditioners, Temps, Hours, Slots, CardBudgets,                 \* Climate
    Laundries, Turns,                                                  \* LaundryCourses
    Devices, Actual, Vals, Plans, Own, Watched, DebugBudgets           \* DebugServices

VARIABLES
    part,
    card, room, cardSeen, learned, calls, result, cardBudget,          \* Climate
    drum, load, loadSeen, picked, turns,                               \* LaundryCourses
    val, last, lock, session, open, relations, push, tap, cached, seq, obs, left, stray,
    debugBudget                                                        \* DebugServices

cardVars  == <<card, room, cardSeen, learned, calls, result, cardBudget>>
drumVars  == <<drum, load, loadSeen, picked, turns>>
debugVars ==
    <<val, last, lock, session, open, relations, push, tap, cached, seq, obs, left, stray,
      debugBudget>>

Card == INSTANCE Climate WITH
    Boards <- AirConditioners, Budgets <- CardBudgets,
    board <- card, unit <- room, seen <- cardSeen, budget <- cardBudget

Drum == INSTANCE LaundryCourses WITH
    Boards <- Laundries, Moves <- Turns,
    board <- drum, unit <- load, seen <- loadSeen, moves <- turns

Debug == INSTANCE DebugServices WITH Budgets <- DebugBudgets, budget <- debugBudget

ASSUME PartsOK == Card!ClimateOK /\ Drum!LaundryOK /\ Debug!DebugOK

-----------------------------------------------------------------------------
PartsInit ==
    /\ part \in {"finish", "card", "drum", "debug"}
    /\ Init /\ Card!Init /\ Drum!Init /\ Debug!Init

PartsNext ==
    \/ part = "finish" /\ Next /\ UNCHANGED <<part, cardVars, drumVars, debugVars>>
    \/ part = "card" /\ Card!Next /\ UNCHANGED <<part, vars, drumVars, debugVars>>
    \/ part = "drum" /\ Drum!Next /\ UNCHANGED <<part, vars, cardVars, debugVars>>
    \/ part = "debug" /\ Debug!Next /\ UNCHANGED <<part, vars, cardVars, drumVars>>

PartsSpec == PartsInit /\ [][PartsNext]_<<part, vars, cardVars, drumVars, debugVars>>

-----------------------------------------------------------------------------
(* What the parts promise, stated and explained in their modules; what the *)
(* finish sensors do is stated in FinishSensor, and holds as well while    *)
(* they stay.                                                              *)

\* climate.py: what the card shows is among what it offers.
CardShownIsOffered == part = "card" => Card!ShownIsOffered

\* climate.py: what was chosen on the card is what it shows afterwards.
CardChosenIsShown == part = "card" => Card!ChosenIsShown

\* airconditioner.py: a choice changes nothing on its way that it does not
\* name, neither a running timer nor the mode.
CardKeepsTheRest == Card!TimerKept /\ Card!ModeNotSwapped

\* laundry.py: a select offers the levels its course takes, the live one
\* among them, and one that was picked is taken unless the appliance refuses
\* one that it advertises.
LevelsAsTheCourse ==
    part = "drum" => Drum!LiveIsOffered /\ Drum!NothingWithheld /\ Drum!PickedIsTaken

\* washer.py: a switch is refused only on a course without it, and on each of
\* those where the table states its width; of a course outside the table
\* nothing is said, but where the list of courses is as long as the table.
SwitchAsTheCourse == part = "drum" => Drum!SwitchAsTheCourse

\* services.py: the services and the coordinator leave each other alone - the
\* writes of a held sequence go out with nothing in between but what a thread
\* without a turn sends, and push mode keeps its relation on its session.
DebugAside == part = "debug" => Debug!DebugAside

\* services.py: the verdicts of a verification are what the appliance has.
WriteVerdictsTrue == Debug!WriteVerdictsTrue

-----------------------------------------------------------------------------
(* What the source says and the code does not do: neither holds. *)

\* airconditioner.py: the beep switched off and on again is as loud as it was.
BeepLevelKept == part = "card" => Card!BeepLevelKept

\* coordinator.py: what a relation under a query pushes stays out of the cache.
QueryKeptOut == part = "debug" => Debug!QueryKeptOut

=============================================================================
