------------------------------- MODULE MCControls -------------------------------
(***************************************************************************)
(* ControlParts for TLC: cycles of two lengths, seven boards, six recorded *)
(* course tables, and eight write plans for a master and one sibling.      *)
(***************************************************************************)
EXTENDS ControlParts, TLC

INSTANCE ClimateBoards
INSTANCE LaundryTables

MCJitter == {-1, 0, 2}
MCBudgets == {[cycles |-> 2, flaps |-> 2, loads |-> 0], [cycles |-> 1, flaps |-> 1, loads |-> 1]}

-----------------------------------------------------------------------------
MCBoards == ClimateBoards
MCTemps == {240, 245, 213}
MCHours == {0, 4}
MCSlots == {1, 2}
MCCardBudgets == {[calls |-> 2, moves |-> 0, faults |-> 0], [calls |-> 1, moves |-> 1, faults |-> 1]}

MCLaundries == LaundryBoards
MCTurns == 1

-----------------------------------------------------------------------------
(* A master and one sibling. *)

MCDevices == "oven" :> "main" @@ "lower" :> "sub" @@ "hub" :> None
MCActual ==
    "main" :> ("mode" :> "/mode/0" @@ "run" :> "/run/0") @@ "sub" :> ("mode" :> "/mode/1")
MCVals == {"a", "b"}

Write(href, v, rb) == [href |-> href, val |-> v, readback |-> rb]
Plan(targets, writes, hold) ==
    [caller |-> "admin", targets |-> targets, writes |-> writes, hold |-> hold]
MCPlans ==
    {Plan({"oven"}, <<Write("mode", "a", TRUE), Write("run", "a", FALSE)>>, h) : h \in BOOLEAN}
      \union {Plan({"oven"}, <<Write("mode", "a", TRUE), Write("mode", "b", TRUE)>>, TRUE),
              Plan({"lower"}, <<Write("mode", "b", TRUE)>>, TRUE),
              Plan({"oven", "lower"}, <<Write("mode", "b", TRUE)>>, TRUE),
              Plan({"hub"}, <<Write("mode", "b", TRUE)>>, TRUE),
              Plan({"lower"}, <<Write("mode", "b", TRUE), Write("mode", "{}", TRUE)>>, TRUE),
              [Plan({"oven"}, <<Write("mode", "b", TRUE)>>, TRUE) EXCEPT !.caller = "guest"]}

DebugBudget(c, f, m, a) == [calls |-> c, faults |-> f, moves |-> m, attempts |-> a]
MCDebugBudgets ==
    {DebugBudget(2, 1, 0, 0), DebugBudget(2, 0, 0, 1), DebugBudget(1, 1, 1, 1),
     DebugBudget(1, 1, 0, 2), DebugBudget(1, 2, 0, 0), DebugBudget(1, 0, 2, 1)}

MCOwn == "oven"
MCWatched == "/mode/0"

-----------------------------------------------------------------------------
(* The parts that stay as they are. *)

FinishStays == budget = (CHOOSE b \in MCBudgets : TRUE) /\ Init /\ unit.progress = None

CardStays ==
    /\ card = Krac18 /\ cardBudget = (CHOOSE b \in MCCardBudgets : TRUE)
    /\ Card!Init /\ room.mode = "Cool" /\ room.on

DrumStays ==
    /\ drum = CHOOSE b \in LaundryBoards : b.body = AirDresser
    /\ Drum!Init /\ load = [course |-> 1, level |-> 1]

DebugStays ==
    /\ val = [h \in Debug!Hrefs |-> "a"] /\ debugBudget = DebugBudget(1, 1, 1, 1)
    /\ Debug!Init

MCInit ==
    \/ part = "finish" /\ Init /\ CardStays /\ DrumStays /\ DebugStays
    \/ part = "card" /\ FinishStays /\ Card!Init /\ DrumStays /\ DebugStays
    \/ part = "drum" /\ FinishStays /\ CardStays /\ Drum!Init /\ DebugStays
    \/ part = "debug" /\ FinishStays /\ CardStays /\ DrumStays /\ Debug!Init

MCSpec == MCInit /\ [][PartsNext]_<<part, vars, cardVars, drumVars, debugVars>>

=============================================================================
