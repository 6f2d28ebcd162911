------------------------------- MODULE Identity -------------------------------
(***************************************************************************)
(* Which appliance is this?  What identifies one (registry/identity.py),   *)
(* what a session proved of it (credentials.py), and when an answer at an  *)
(* address is the appliance an entry is for: asked by the config flow      *)
(* before an address is stored, and by the coordinator on the first cycle  *)
(* of every load.                                                          *)
(*                                                                         *)
(* An appliance reports [di, pi, serial, mac], any of them None or one of  *)
(* the placeholders some firmware families ship.                           *)
(***************************************************************************)
CONSTANTS
    Hosts,        \* addresses
    Placeholders, \* serials and UUIDs that every unit of a family reports
    None

Usable(id) == id # None /\ id \notin Placeholders

(* /oic/d's di, else /oic/p's pi.                                          *)
OcfDeviceKey(rep) == IF Usable(rep.di) THEN rep.di ELSE IF Usable(rep.pi) THEN rep.pi ELSE None

(* The di alone: pi is shared by the logical devices of one board.         *)
ProvenOcfDeviceId(rep) == IF Usable(rep.di) THEN rep.di ELSE None

ResolveSerial(rep, host) == IF Usable(rep.serial) THEN rep.serial ELSE host

ResolveDeviceKey(rep, host) ==
    IF OcfDeviceKey(rep) # None THEN OcfDeviceKey(rep) ELSE ResolveSerial(rep, host)

(* An unflashed radio reports zeros.                                       *)
ResolveMac(rep) == IF Usable(rep.mac) THEN rep.mac ELSE None

(* check_device_binding.                                                   *)
Binding(expected, reported) ==
    IF expected = None \/ reported = None THEN "unproven"
    ELSE IF expected = reported THEN "matched" ELSE "mismatched"

(* The key an entry's coordinator starts under, before any poll.           *)
SeedKey(entry) ==
    IF entry.key # None THEN entry.key
    ELSE IF entry.serial # None THEN entry.serial ELSE entry.host

(* Registered against an address, for want of an identity.                 *)
HostKeyed(entry) == entry.serial \in Hosts

(* _identity_matches: what the config flow asks of the appliance at `host`.*)
IdentityMatches(entry, rep, host) ==
    LET probed == ResolveDeviceKey(rep, host)
        serial == ResolveSerial(rep, host)
    IN \/ probed # host /\ probed = SeedKey(entry)
       \/ entry.serial # None /\ serial = entry.serial /\ serial # host
       \/ entry.serial = None
       \/ HostKeyed(entry) /\ probed = host

(* Slip: the serial of an appliance that is turned away is taken on.       *)
ResolveIdentityTakingSerial(entry, rep) ==
    LET serial  == ResolveSerial(rep, entry.host)
        polled  == ResolveDeviceKey(rep, entry.host)
        current == SeedKey(entry)
        same    == serial = entry.serial /\ serial # entry.host
    IN IF polled = current \/ (entry.key # None /\ OcfDeviceKey(rep) = None)
          \/ ~(current = entry.host \/ same \/ entry.serial = None)
       THEN [key |-> current, serial |-> serial]
       ELSE [key |-> polled, serial |-> serial]

(* _resolve_identity on a live poll: the key and serial to register under. *)
(* A change of key is followed only where the serial corroborates it, or   *)
(* there is no identity to defend; the serial of an appliance turned away  *)
(* is not taken on, as it would corroborate that one next time.            *)
ResolveIdentity(entry, rep) ==
    LET serial   == ResolveSerial(rep, entry.host)
        polled   == ResolveDeviceKey(rep, entry.host)
        current  == SeedKey(entry)
        known    == IF entry.serial # None THEN entry.serial ELSE serial
        sameUnit == serial = entry.serial /\ serial # entry.host
    IN IF polled = current THEN [key |-> current, serial |-> serial]
       ELSE IF entry.key # None /\ OcfDeviceKey(rep) = None THEN [key |-> entry.key, serial |-> known]
       ELSE IF current = entry.host \/ sameUnit \/ entry.serial = None
       THEN [key |-> polled, serial |-> serial]
       ELSE [key |-> current, serial |-> known]

=============================================================================
