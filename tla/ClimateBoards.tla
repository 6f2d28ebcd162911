----------------------------- MODULE ClimateBoards -----------------------------
(* The air conditioners of the runs: boards of both generations, as the    *)
(* recorded appliances have them.                                          *)
EXTENDS Naturals, Sequences

CONSTANT None

MapOf(s) == [bits |-> s, readable |-> TRUE]
Fan(c, l) == [code |-> c, label |-> l]
Scale == <<Fan("0", "auto"), Fan("1", "low"), Fan("2", "medium"), Fan("3", "high"), Fan("4", "turbo")>>
Slot == {"Off", "Nano", "Quiet", "Speed", "Sleep", "NanoSleep"}

Krac18 ==
    [legacy |-> TRUE, modes |-> <<"Auto", "Cool", "Dry", "Wind", "Heat">>, warm |-> TRUE,
     fans |-> <<>>, swings |-> "none", directions |-> {}, presets |-> Slot, advertised |-> {},
     code |-> MapOf({10, 12}), extended |-> MapOf({30, 31}), sleeps |-> TRUE,
     pair |-> FALSE, step |-> 10, ocf |-> None, vs |-> 240]
CoolOnly == [Krac18 EXCEPT !.modes = <<"Cool", "Wind">>, !.warm = FALSE,
                           !.code = [bits |-> {}, readable |-> FALSE], !.extended = MapOf({}),
                           !.ocf = 180, !.step = 0]
Unmapped == [Krac18 EXCEPT !.modes = <<"Auto", "Cool">>, !.code = None, !.sleeps = FALSE]
Modern ==
    [legacy |-> FALSE, modes |-> <<"AIComfort", "Cool", "Wind", "Auto">>, warm |-> TRUE,
     fans |-> Scale, swings |-> "direction", directions |-> {"Fix", "All", "Up_And_Low"},
     presets |-> {"Off", "Quiet", "Nano"}, advertised |-> {"Off", "Nano"},
     code |-> None, extended |-> None, sleeps |-> FALSE,
     pair |-> TRUE, step |-> 5, ocf |-> 240, vs |-> 180]
Relabelled == [Modern EXCEPT !.modes = <<"Cool", "Fan">>,
                 !.fans = <<Fan("0", "auto"), Fan("31", "low"), Fan("32", "2"), Fan("35", "turbo")>>,
                 !.swings = "oscillation", !.pair = FALSE, !.ocf = 260, !.vs = 220]
Ventilator == [Modern EXCEPT !.modes = <<"Purification", "Ventilation", "SmartVentilation">>,
                 !.warm = FALSE, !.swings = "none", !.presets = {"Off"}, !.advertised = {"Off"}]
AirCombo == [Ventilator EXCEPT !.modes = <<"IndoorDehumidification", "FreshAirIntake", "AIComfort">>]

ClimateBoards == {Krac18, CoolOnly, Unmapped, Modern, Relabelled, Ventilator, AirCombo}

================================================================================
