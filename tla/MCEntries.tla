------------------------------- MODULE MCEntries -------------------------------
(***************************************************************************)
(* EntryParts for TLC: two entries, appliances and addresses, and nineteen *)
(* kinds of host to probe.                                                 *)
(***************************************************************************)
EXTENDS EntryParts, TLC

(* Two appliances, two entries, two addresses. *)

MCEntries == {1, 2}
MCNames ==
    {"h1", "h2", "junk", "U1", "U9", "V1", "V9", "P1", "S1", "S2", "m1", "m2"}
MCAppliances == {"x", "y"}
MCHosts == {"h1", "h2"}
MCPlaceholders == {"junk"}
MCRecognised == {"x"}
MCNewDi == [a \in MCAppliances |-> IF a = "x" THEN "U9" ELSE "V9"]

Rep(di, serial, mac) == [di |-> di, pi |-> None, serial |-> serial, mac |-> mac, psk |-> FALSE]
WithPsk(rep) == [rep EXCEPT !.psk = TRUE]

X == Rep("U1", "S1", "m1")

Stored(host, key, serial, version, uid, psk) ==
    [host |-> host, key |-> key, serial |-> serial, ocf |-> IF psk THEN key ELSE None,
     mac |-> None, psk |-> psk, version |-> version, uid |-> uid, title |-> host]

(* No entry yet; one with a PSK; one from before v4, of a board with a     *)
(* serial or without; one of version 1, some rows still under the host.    *)
(* The second appliance is another one, one with the same serial, one that *)
(* reports nothing usable, or one that has no di.  With no entry yet the   *)
(* leases stay, two entries having to be made.  The type of the second     *)
(* appliance is unknown; an entry of its own awaits its di in the last.    *)
MCStarts ==
    LET start(y, stored, keys, rep) ==
            [reports |-> [a \in MCAppliances |-> IF a = "y" THEN y ELSE IF y.psk THEN WithPsk(X) ELSE X],
             at |-> [a \in MCAppliances |-> IF a = "x" THEN "h1" ELSE "h2"],
             moves |-> IF stored = None THEN MaxMoves ELSE 0,
             data |-> <<stored, None>>, rows |-> <<keys, {}>>, snapshot |-> <<rep, None>>,
             own |-> <<"x", "y">>]
        twin == Rep("V1", "S1", "m2")
        other == Rep("V1", "S2", "m2")
        mute == Rep("junk", "junk", "junk")
        board == [Rep(None, None, "m2") EXCEPT !.pi = "P1"]
    IN {start(twin, None, {}, None),
        start(WithPsk(twin), Stored("h1", "U1", "S1", 4, "U1", TRUE), {"U1"}, X),
        start(mute, Stored("h1", None, "S1", 3, "S1", FALSE), {"S1"}, X),
        start(board, Stored("h1", None, "h1", 3, "h1", FALSE), {"h1"}, None),
        start(other, Stored("h1", None, None, 1, "S1", FALSE), {"h1", "S1"}, None),
        [start(twin, Stored("h2", None, "S1", 3, "S1", FALSE), {"S1"}, twin)
            EXCEPT !.moves = MaxMoves - 1, !.at.x = None, !.own = <<"y", "x">>]}

-----------------------------------------------------------------------------
(* Three ports in the range, one advertised outside it, and hosts that     *)
(* differ in one thing at a time.                                          *)

MCRange == <<2, 3, 4>>
MCPreferred == <<3, 4>>

Refusing == [p \in {2, 3, 4} |-> "refused"]

Appliance == [plaintext |-> 5, advertised |-> <<9>>, types |-> "appliance", responders |-> <<>>,
              tcp |-> FALSE, hello |-> {9, 6}, sweep |-> Refusing,
              accepts |-> {"reused", "self", "ca"}, refusal |-> "cert", full |-> FALSE,
              usable |-> TRUE, proves |-> TRUE]

Responder(ports, di) == [ports |-> ports, plaintext |-> 7, types |-> "appliance", di |-> di]

MCProbed == {
    Appliance,
    [Appliance EXCEPT !.accepts = {"self", "ca"}],             \* the stored leaf is stale
    [Appliance EXCEPT !.accepts = {"ca"}],
    [Appliance EXCEPT !.accepts = {"psk"}, !.refusal = "other"],
    [Appliance EXCEPT !.accepts = {}, !.refusal = "psk", !.hello = {9, 3}, !.advertised = <<6>>],
    [Appliance EXCEPT !.full = TRUE],
    [Appliance EXCEPT !.usable = FALSE, !.tcp = TRUE],
    [Appliance EXCEPT !.accepts = {"psk"}, !.proves = FALSE],
    [Appliance EXCEPT !.hello = {}],                           \* it advertises, and no DTLS answers
    [Appliance EXCEPT !.types = "other", !.accepts = {}],      \* another stack, nothing behind it
    [Appliance EXCEPT !.types = "other", !.usable = FALSE],
    [Appliance EXCEPT !.types = "other", !.responders = <<Responder(<<9>>, 1)>>, !.advertised = <<8>>],
    [Appliance EXCEPT !.types = "other",
                      !.responders = <<Responder(<<9>>, 1), Responder(<<8>>, 2)>>],
    [Appliance EXCEPT !.plaintext = None, !.advertised = <<>>, !.types = "unknown", !.tcp = TRUE],
    [Appliance EXCEPT !.plaintext = None, !.advertised = <<>>, !.types = "unknown", !.hello = {2, 3}],
    [Appliance EXCEPT !.plaintext = None, !.advertised = <<>>, !.types = "unknown", !.hello = {},
                      !.sweep = [Refusing EXCEPT ![2] = "live"]],
    [Appliance EXCEPT !.plaintext = None, !.advertised = <<>>, !.types = "unknown", !.hello = {}],
    [Appliance EXCEPT !.plaintext = None, !.advertised = <<>>, !.types = "unknown", !.hello = {},
                      !.sweep = [p \in {2, 3, 4} |-> "live"]],
    [Appliance EXCEPT !.plaintext = None, !.advertised = <<>>, !.types = "unknown", !.hello = {},
                      !.sweep = [p \in {2, 3, 4} |-> "unreachable"]]}

MCJobs == [psk: {FALSE}, ca: BOOLEAN, leaf: {None, "minted"}, fixed: BOOLEAN, bindable: BOOLEAN]
     \cup [psk: {TRUE}, ca: {FALSE}, leaf: {None}, fixed: BOOLEAN, bindable: {TRUE}]

\* A port is followed only to one that differs, and behind a stack of another
\* kind, unless a scan was asked for, only to the entry's own appliance.
ASSUME
    \A h \in MCProbed, di \in {None, 1, 2, 3}, current \in {6, 8, 9}, scanned \in BOOLEAN :
        \A p \in {Probe!MovedSecurePort(h, current, di, scanned)} :
            p # None =>
                /\ p \notin {current, MulticastPort}
                /\ h.types = "other" /\ h.plaintext # None /\ di # None /\ ~scanned =>
                     \E r \in Probe!ToSet(h.responders) : r.di = di /\ p \in Probe!ToSet(r.ports)

BookStays ==
    /\ data = [e \in Entries |-> None] /\ \A a \in Appliances : ~reports[a].psk

ProbeStays ==
    /\ probed = Appliance
    /\ job = [psk |-> FALSE, ca |-> FALSE, leaf |-> None, fixed |-> TRUE, bindable |-> TRUE]
    /\ Probe!Init

MCInit ==
    \/ part = "book" /\ Init /\ ProbeStays
    \/ part = "probe" /\ Init /\ BookStays /\ Probe!Init

MCSpec == MCInit /\ [][PartsNext]_<<part, vars, probeVars>>

=============================================================================
