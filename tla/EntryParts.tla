------------------------------- MODULE EntryParts -------------------------------
(***************************************************************************)
(* How an entry comes to stand for an appliance: the entries and addresses *)
(* of an installation, and the probe of one address, side by side.  They   *)
(* share no state: a behaviour is one of one of them, the other staying as *)
(* it was at first.                                                        *)
(***************************************************************************)
EXTENDS EntryBook, Sequences

CONSTANTS PortRange, Preferred, MulticastPort, ProbedHosts, Jobs       \* SetupProbe

VARIABLES
    part,
    probed, job, pc, scan, credential, reminted, todo, retried, failures, alert, orphans, result

probeVars ==
    <<probed, job, pc, scan, credential, reminted, todo, retried, failures, alert, orphans, result>>

Probe == INSTANCE SetupProbe WITH Hosts <- ProbedHosts, host <- probed

ASSUME ProbedOK == Probe!ProbeOK

-----------------------------------------------------------------------------
PartsInit == part \in {"book", "probe"} /\ Init /\ Probe!Init

PartsNext ==
    \/ part = "book" /\ Next /\ UNCHANGED <<part, probeVars>>
    \/ part = "probe" /\ Probe!Next /\ UNCHANGED <<part, vars>>

PartsSpec == PartsInit /\ [][PartsNext]_<<part, vars, probeVars>>

-----------------------------------------------------------------------------
\* probing.py, config_flow.py: a probe sends the user for other credentials
\* only if the appliance refused the one it was offered, leaves no more
\* half-open peers than one of each pass, and dials nothing where it cannot
\* tell which appliance is meant.  (What the entries do is stated in
\* EntryBook, and holds as well while they stay.)
ProbeHarmsNothing == part = "probe" => Probe!ProbeHarmsNothing

=============================================================================
