------------------------------- MODULE MCStarts -------------------------------
(***************************************************************************)
(* StartParts for TLC: a two-cavity oven over OCF, and behind the bridge a *)
(* washer, a divided oven and an air conditioner.                          *)
(***************************************************************************)
EXTENDS StartParts, TLC

CONSTANTS bake, broil, keep, lowBake, clean, wizard

Range(lo, hi, d, step, choices) ==
    [min |-> lo, max |-> hi, default |-> d, step |-> step, choices |-> choices]

Entry(ok, temps, timed, lo, hi, d, low) ==
    [startable |-> ok, temps |-> temps, timed |-> timed, timeMin |-> lo,
     timeMax |-> hi, timeDefault |-> d, lower |-> low]

FullSpec ==
    bake    :> Entry(TRUE, [C |-> Range(10, 18, 14, 4, {}), F |-> Range(50, 68, 58, None, {})],
                     TRUE, 1, 3, None, FALSE) @@
    broil   :> Entry(TRUE, [C |-> Range(1, 2, None, None, {1, 2})], TRUE, None, 2, 1, FALSE) @@
    keep    :> Entry(TRUE, [C |-> Range(12, 12, 12, None, {12})], TRUE, None, None, None, FALSE) @@
    lowBake :> Entry(TRUE, [C |-> Range(10, 14, None, 4, {})], FALSE, None, None, None, TRUE) @@
    clean   :> Entry(FALSE, <<>>, TRUE, None, None, None, FALSE)

MCSpecs == [full |-> FullSpec, empty |-> <<>>]

Rep0 == [spec |-> None, live |-> None, default |-> None, mode |-> None, state |-> "Ready",
         cavity |-> "Ready", unit |-> "C", increment |-> 2, desired |-> 14, time |-> 0,
         divider |-> None, remote |-> None, zoned |-> FALSE]

Upper == [Rep0 EXCEPT !.spec = "full", !.live = {bake, broil, keep, lowBake, clean},
                      !.default = bake]

UpperReports ==
    {Upper,
     [Upper EXCEPT !.default = None, !.desired = 18],       \* turned at the panel, no default mode
     \* after a restart of its Wi-Fi board; the default mode is not offered now
     [Upper EXCEPT !.live = {broil, lowBake}, !.spec = "empty"],
     [Upper EXCEPT !.spec = None],                          \* no modeSpec at all
     [Upper EXCEPT !.unit = "F", !.desired = 58],
     [Upper EXCEPT !.mode = keep],                          \* running under Ready
     [Upper EXCEPT !.state = "Run", !.mode = bake, !.remote = FALSE]}

LowerReports ==
    {[Rep0 EXCEPT !.live = {wizard}, !.divider = "On"],
     [Rep0 EXCEPT !.live = {wizard}, !.divider = "Off", !.spec = "empty"],
     [Rep0 EXCEPT !.live = {bake}, !.default = bake, !.remote = TRUE]}

MCReports == [upper |-> UpperReports, lower |-> LowerReports]

MCTried == [upper |-> [mode |-> {bake, broil, lowBake}, temperature |-> {2, 13},
                       duration |-> {3}],
            lower |-> [mode |-> {lowBake}, temperature |-> {}, duration |-> {}]]

MCGiven == [upper |-> {[mode |-> lowBake, temperature |-> 14, duration |-> 2],
                       [mode |-> None, temperature |-> None, duration |-> 1]},
            lower |-> {[mode |-> lowBake, temperature |-> 11, duration |-> 9]}]

MCOven  == [C |-> Range(3, 28, None, 5, {}), F |-> Range(36, 81, None, 5, {})]
MCMicro == [C |-> Range(4, 19, None, 5, {})]

-----------------------------------------------------------------------------
(* The bridge: a washer, a divided oven and an air conditioner. *)

Steps(s) == [index |-> 0, href |-> "/device", batch |-> FALSE, elements |-> {0},
             each |-> {s}, steps |-> s]
At0(s, href) == [Steps(s) EXCEPT !.href = href]

Run    == <<"/operational/state", "state", None>> :> "Run"
Ready  == <<"/operational/state", "state", None>> :> "Ready"
Course(c) == <<"/course", "options", "Course">> :> c
Temp(t)   == <<"/washer", "waterTemperature", None>> :> t
Bake   == <<"/mode", "modes", None>> :> "Bake"
Wind   == <<"/airflow", "speedLevel", None>> :> 2
Lamp   == <<"/light", "lamp", None>> :> "On"
Sync   == <<"/configuration", "currentTime", None>> :> "noon"

Cook(i, elements) == [index |-> i, href |-> "/device", batch |-> TRUE, elements |-> elements,
                      each |-> {Run, Bake}, steps |-> Run @@ Bake]

MCCommands ==
    [course  |-> At0(Course("C2"), "/course"),
     temp    |-> At0(Temp(60), "/washer"),
     start   |-> At0(Run, "/operational/state"),
     stop    |-> At0(Ready, "/operational/state"),
     cook    |-> Cook(0, {0}),
     lower   |-> Cook(1, {1}),
     astray  |-> Cook(1, {0, 1}),
     clock   |-> At0(Sync, "/configuration"),
     wind    |-> At0(Wind, "/airflow"),
     lamp    |-> At0(Lamp, "/light")]

MCCommandsOf ==
    [Washer          |-> {"course", "temp", "start", "stop"},
     Oven            |-> {"cook", "lower", "astray", "clock"},
     Air_Conditioner |-> {"wind", "lamp", "cook"}]

Dial(c, t) == (<<"Mode", "options", "Course">> :> c) @@ (<<"Washer", "waterTemperature", None>> :> t)

MCSettings ==
    [Washer          |-> {Dial("C1", 40), Dial("C1", 60), Dial("C3", 40)},
     Oven            |-> {<<"Mode", "modes", None>> :> "NoOperation"},
     Air_Conditioner |-> {<<"Wind", "speedLevel", None>> :> 1}]

MCDefault == [C1 |-> 40, C2 |-> 0, C3 |-> 40]

MCKinds == {"Washer", "Oven", "Air_Conditioner"}
MCSent == [Washer |-> 3, Oven |-> 2, Air_Conditioner |-> 2]
MCTogether == [Washer |-> 5, Oven |-> 3, Air_Conditioner |-> 3]

\* What is read of an appliance is written back to where it was read: no two
\* rows of a type's table, and no renamed or fanned-out field, meet.
ASSUME
    \A type \in MCKinds \cup {"Refrigerator"} : \A table \in {Bridge!TableFor(type)} :
        \A row \in table :
            \A f \in IF row.asItems THEN {"items"} ELSE {"state"} \cup DOMAIN row.fanOut \cup DOMAIN row.rename :
                \A body \in {<<row.wrapper, f, None>> :> 1} :
                    /\ Bridge!UnmappedWrappers(body, table) = {}
                    /\ Bridge!ToWrite(Bridge!ToResources(body, table), table) = body

CookStays == rep = [upper |-> Upper, lower |-> CHOOSE r \in LowerReports : TRUE] /\ Init

BridgeStays ==
    /\ kind = "Washer" /\ world = [i \in Bridge!Devices |-> [state |-> "Ready", set |-> Dial("C1", 40)]]
    /\ divider = FALSE
    /\ Bridge!Init

MCInit ==
    \/ part = "cook" /\ Init /\ BridgeStays
    \/ part = "bridge" /\ CookStays /\ Bridge!Init

MCSpec == MCInit /\ [][PartsNext]_<<part, vars, bridgeVars>>

=============================================================================
