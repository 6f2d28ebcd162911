------------------------------- MODULE StartParts -------------------------------
(***************************************************************************)
(* The two places where choices are held back until a start, side by side: *)
(* an oven's cook mode, temperature and time, and what the 8888 bridge     *)
(* stages for an appliance that takes settings only as it starts.  They    *)
(* share no state: a behaviour is one of one of them, the other staying as *)
(* it was first loaded.                                                    *)
(***************************************************************************)
EXTENDS CookStart

CONSTANTS                                                              \* LegacyBridge
    Kinds, Commands, CommandsOf, Settings, CourseDefault, StillListed, MaxPanel, MaxFaults,
    MaxCommands, MaxTogether

VARIABLES
    part,
    kind, world, divider, last, staged, listed, divided, typed, clock, shown, op, result,
    fresh, panel, faults, commands

bridgeVars ==
    <<kind, world, divider, last, staged, listed, divided, typed, clock, shown, op, result,
      fresh, panel, faults, commands>>

Bridge == INSTANCE LegacyBridge

ASSUME BridgeOK == Bridge!BridgeConstantsOK

-----------------------------------------------------------------------------
PartsInit == part \in {"cook", "bridge"} /\ Init /\ Bridge!Init

PartsNext ==
    \/ part = "cook" /\ Next /\ UNCHANGED <<part, bridgeVars>>
    \/ part = "bridge" /\ Bridge!Next /\ UNCHANGED <<part, vars>>

PartsSpec == PartsInit /\ [][PartsNext]_<<part, vars, bridgeVars>>

-----------------------------------------------------------------------------
(* What the bridge promises, stated and explained in its module; what the  *)
(* cook does is stated in CookStart, and holds as well while it stays.     *)

\* legacy_http_transport.py: what is shown is over the last sweep - a held
\* value over what it reported, a cavity's modes over the divider it found.
BridgeShowsSwept == part = "bridge" => Bridge!BridgeShowsSwept

\* legacy_http_transport.py: a start reported as accepted ran, but for an
\* answered Run that the appliance left, and an oven is sent at most one Run
\* for it, whatever answer is lost and retried.
StartRanOnce == part = "bridge" => Bridge!StartRanOnce

\* legacy_http_transport.py: a start of an idle washer runs what was shown as
\* it was pressed, and a stop does not reset one that is idle.
StartsAndStopsAsShown == Bridge!StartsAndStopsAsShown

=============================================================================
