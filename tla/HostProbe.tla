------------------------------ MODULE HostProbe ------------------------------
(***************************************************************************)
(* What is at an address before anything authenticates to it               *)
(* (probing.py): which ports are worth a DTLS handshake and in which       *)
(* order, what the host said about itself, and where a port moved to.      *)
(*                                                                         *)
(* A host is a record of what it answers; the exchanges themselves are the *)
(* network's:                                                              *)
(*   plaintext  the plaintext port that answered discovery, or None        *)
(*   advertised the secure ports it advertises there, in order             *)
(*   types      what /oic/d declares: "appliance", "other", or "unknown"   *)
(*              when it lists none or was not read                         *)
(*   responders the appliances multicast finds there: [ports, plaintext,   *)
(*              types, di]                                                 *)
(*   tcp        the 8888 bridge accepts a connection                       *)
(*   hello      the ports a ClientHello proves a DTLS server on            *)
(*   sweep      [port of the range -> "live", "refused", "unreachable"]    *)
(***************************************************************************)
EXTENDS Integers, SequencesExt

CONSTANTS
    PortRange,      \* PROBE_PORT_RANGE, in order
    Preferred,      \* PREFERRED_PROBE_PORTS, in order
    MulticastPort,  \* MULTICAST_SECURE_PORT: answers on every board
    None

PortsOK ==
    /\ ToSet(Preferred) \subseteq ToSet(PortRange)
    /\ MulticastPort \notin ToSet(PortRange)

First(s, Test(_)) ==
    LET first == {i \in DOMAIN s : Test(s[i]) /\ \A j \in 1..(i - 1) : ~Test(s[j])}
    IN IF first = {} THEN None ELSE s[CHOOSE i \in first : TRUE]

(* Known DTLS ports first, the wildcard socket last.                       *)
OrderCandidates(ports) ==
    LET rest == ports \ (ToSet(Preferred) \cup {MulticastPort})
    IN SelectSeq(Preferred, LAMBDA p : p \in ports)
       \o SetToSortSeq(rest, <)
       \o SelectSeq(<<MulticastPort>>, LAMBDA p : p \in ports)

(* The device's own advertisement first, then the range, then the wildcard *)
(* socket, which an advertisement does not move up.                        *)
ProbePorts(advertised) ==
    LET own == SelectSeq(advertised, LAMBDA p : p # MulticastPort)
    IN own \o SelectSeq(PortRange, LAMBDA p : p \notin ToSet(own)) \o <<MulticastPort>>

PreferredPort(advertised) == First(advertised, LAMBDA p : p # MulticastPort)

(* The servers a ClientHello proves among `ports`: the advertised one if   *)
(* it is among them, else the only one, else every one.                    *)
ClientHelloScan(host, ports, preferred) ==
    LET responders == host.hello \cap ToSet(ports)
    IN IF preferred \in responders THEN <<preferred>>
       ELSE OrderCandidates(responders)

(* The sweep's verdict is not trusted on the preferred ports (issue #192). *)
SweepLive(host)       == {p \in ToSet(PortRange) : host.sweep[p] = "live"}
SweepCandidates(host) == OrderCandidates(SweepLive(host) \cup ToSet(Preferred))

DeclaresNoAppliance(types) == types = "other"

(* The responders that declare an appliance type and have a secure port.    *)
ApplianceResponders(host) ==
    {i \in DOMAIN host.responders :
        host.responders[i].types = "appliance" /\ host.responders[i].ports # <<>>}

Scan0 == [candidates |-> <<>>, confirmed |-> <<>>, swept |-> FALSE, advertised |-> <<>>,
          plaintext |-> None, legacy |-> FALSE, typeless |-> FALSE, appliances |-> 0]

(* look: plaintext advertisement, then a ClientHello, then the sweep.  A   *)
(* stack of another kind that answers in front of one appliance gives way  *)
(* to it; in front of several, nothing is dialled.                         *)
Look(host) ==
    LET others   == DeclaresNoAppliance(host.types)
        found    == IF others THEN ApplianceResponders(host) ELSE {}
        front    == IF Cardinality(found) = 1
                    THEN host.responders[CHOOSE i \in found : TRUE]
                    ELSE [ports |-> host.advertised, plaintext |-> host.plaintext]
        ports    == front.ports
        plain    == front.plaintext
        said     == [Scan0 EXCEPT !.advertised = ports, !.plaintext = plain,
                                  !.appliances = Cardinality(found)]
        hello    == ClientHelloScan(host, ProbePorts(ports), PreferredPort(ports))
        evidence == [said EXCEPT !.legacy = host.tcp, !.typeless = others /\ found = {}]
    IN IF Cardinality(found) > 1 THEN said
       ELSE IF host.tcp /\ plain = None /\ ports = <<>> THEN [Scan0 EXCEPT !.legacy = TRUE]
       ELSE IF hello # <<>> THEN [evidence EXCEPT !.candidates = hello, !.confirmed = hello]
       ELSE [evidence EXCEPT !.candidates = SweepCandidates(host), !.swept = TRUE]

(* moved_secure_port: a different port the device answers on now, by its   *)
(* advertisement - the one of the responder with this entry's di, behind a *)
(* stack of another kind - and, with `probeScan`, by a ClientHello.        *)
MovedSecurePort(host, current, deviceId, probeScan) ==
    LET others     == deviceId # None /\ host.plaintext # None /\ DeclaresNoAppliance(host.types)
        own        == SelectSeq(host.responders, LAMBDA r : r.di = deviceId)
        advertised == IF ~others THEN host.advertised
                      ELSE IF own = <<>> THEN <<>> ELSE own[1].ports
        Elsewhere(p) == p \notin {current, MulticastPort}
        moved      == First(advertised, Elsewhere)
        hello      == ClientHelloScan(host, ProbePorts(advertised), PreferredPort(advertised))
    IN IF moved # None \/ ~probeScan THEN moved ELSE First(hello, Elsewhere)
=============================================================================
