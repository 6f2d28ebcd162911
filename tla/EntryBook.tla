------------------------------ MODULE EntryBook ------------------------------
(***************************************************************************)
(* The entries of an installation and the appliances they stand for: how   *)
(* the config flow adds and moves them (config_flow.py), how an old entry  *)
(* is migrated (__init__.py), how a load replays the discovery snapshot    *)
(* and a first live cycle resolves the identity (coordinator.py), and how  *)
(* registry rows change keys (rekey.py), while addresses move between      *)
(* appliances and an appliance may be reset.                               *)
(*                                                                         *)
(* The rows an entry registered - its entity_ids, history, automations -   *)
(* are the thing to protect; they are the set of keys they are under.      *)
(* The actions are what runs without an await on the event loop.           *)
(***************************************************************************)
EXTENDS Identity, Naturals

CONSTANTS
    Names,       \* every id, serial, MAC, address and title
    Entries,     \* entry ids
    Appliances,  \* appliances on the network
    Starts,      \* installations: [reports, at, moves, data, rows, snapshot, own]
    Recognised,  \* the appliances whose device type is known
    NewDi,       \* the di each appliance has after a reset
    MaxMoves     \* bound: how often a lease moves

VARIABLES
    reports,  \* what each appliance reports, and whether it takes a PSK
    at,       \* its address, or None
    moves,    \* lease moves and resets so far
    data,     \* what is stored of each entry, or None
    rows,     \* the keys each entry's registry rows are under
    snapshot, \* the report each entry's discovery snapshot holds, or None
    live,     \* the coordinator of each entry: [state, key, read, discovered]
    flow,     \* the config flow under way
    own       \* the appliance each entry was set up for

world == <<reports, at, moves>>
book  == <<data, rows, snapshot, live, own>>
vars  == <<reports, at, moves, data, rows, snapshot, live, flow, own>>

Unloaded == [state |-> "unloaded", key |-> None, read |-> None, discovered |-> FALSE]
Up == {"setup", "replayed", "loaded"}
NoFlow   == [step |-> "none"]

OrNone(S) == S \cup {None}
Readings  == [di : OrNone(Names), pi : OrNone(Names), serial : OrNone(Names),
              mac : OrNone(Names), psk : BOOLEAN]
EntryData == [host : Names, key : OrNone(Names), serial : OrNone(Names), ocf : OrNone(Names),
              mac : OrNone(Names), psk : BOOLEAN, version : 1..4, uid : OrNone(Names),
              title : Names]

(* _serial_from_unique_id: the identity a version 1 entry was made with; a *)
(* placeholder, and host:port, become the host.                            *)
SerialFromUid(entry) ==
    IF entry.uid = None \/ entry.uid \in Placeholders THEN entry.host ELSE entry.uid

(* The serial an entry from before version 4 is given.                     *)
MigratedSerial(entry) ==
    IF entry.serial # None THEN entry.serial
    ELSE IF entry.version = 1 THEN SerialFromUid(entry) ELSE entry.host

(* The rows of an entry are where its next start, or its migration, looks  *)
(* for them.                                                               *)
UnderSeed(entry, keys) ==
    /\ entry.serial # None
    /\ keys \subseteq {SeedKey(entry)} /\ entry.uid = SeedKey(entry)

Unmigrated(entry, keys) ==
    /\ entry.key = None
    /\ keys \subseteq {MigratedSerial(entry)} \cup (IF entry.version = 1 THEN {entry.host} ELSE {})
    /\ entry.version # 1 => entry.uid = MigratedSerial(entry)

(* What an appliance has ever identified itself by, a reset included.      *)
KnownBy(start, a) ==
    LET rep == start.reports[a] IN {id \in {rep.di, rep.pi, rep.serial, NewDi[a]} : Usable(id)}

(* An entry and the appliance it was set up for: registered against an     *)
(* address, or under an identity that appliance has.                       *)
Claims(start, entry, a) ==
    \/ HostKeyed(entry)
    \/ /\ Usable(entry.serial) /\ entry.serial = start.reports[a].serial
       /\ \E b \in Appliances :
            start.reports[b].serial = entry.serial /\ SeedKey(entry) \in KnownBy(start, b)

(* The installations an older release left.  An identity is no address, and *)
(* appliances that share one (the logical devices of a board) share the    *)
(* serial.                                                                 *)
ASSUME BookOK ==
    /\ None \notin Names /\ None \notin EntryData /\ Hosts \subseteq Names
    /\ NewDi \in [Appliances -> Names]
    /\ \A start \in Starts :
        /\ start.reports \in [Appliances -> Readings]
        /\ start.at \in [Appliances -> OrNone(Hosts)]
        /\ start.data \in [Entries -> OrNone(EntryData)]
        /\ start.rows \in [Entries -> SUBSET Names]
        /\ start.snapshot \in [Entries -> OrNone(Readings)]
        /\ start.own \in [Entries -> Appliances]
        /\ \A a, b \in Appliances :
            /\ KnownBy(start, a) \cap Hosts = {}
            /\ KnownBy(start, a) \cap KnownBy(start, b) # {} =>
                 start.reports[a].serial = start.reports[b].serial
        /\ \A e \in Entries :
            \E entry \in {start.data[e]}, keys \in {start.rows[e]}, a \in {start.own[e]} :
                IF entry = None
                THEN keys = {}
                ELSE /\ entry.host \in Hosts
                     /\ entry.psk => entry.ocf # None
                     /\ IF entry.version = 4
                        THEN UnderSeed(entry, keys) /\ Claims(start, entry, a)
                        ELSE /\ Unmigrated(entry, keys)
                             /\ MigratedSerial(entry) \in Hosts
                                  \/ /\ Usable(MigratedSerial(entry))
                                     /\ MigratedSerial(entry) = start.reports[a].serial

Init ==
    \E start \in Starts :
        /\ reports = start.reports /\ at = start.at /\ moves = start.moves
        /\ data = start.data /\ rows = start.rows /\ snapshot = start.snapshot
        /\ live = [e \in Entries |-> Unloaded]
        /\ flow = NoFlow
        /\ own = start.own

Present == {e \in Entries : data[e] # None}

(* Entries are migrated as they are set up, before a flow can start.       *)
AllMigrated == \A e \in Present : data[e].version = 4

-----------------------------------------------------------------------------
(* The network. *)

(* The address of an appliance that is off may be given to another one.    *)
LeaseMoves(a, h) ==
    /\ moves < MaxMoves
    /\ h # at[a]
    /\ at' = [b \in Appliances |-> IF b = a THEN h ELSE IF at[b] = h THEN None ELSE at[b]]
    /\ moves' = moves + 1
    /\ UNCHANGED <<reports, book, flow>>

(* A hard reset gives an appliance another di.                             *)
HardReset(a) ==
    /\ moves < MaxMoves
    /\ Usable(reports[a].di) /\ reports[a].di # NewDi[a]
    /\ reports' = [reports EXCEPT ![a].di = NewDi[a]]
    /\ moves' = moves + 1
    /\ UNCHANGED <<at, book, flow>>

-----------------------------------------------------------------------------
(* Registry rows. *)

(* Slip: the rows are left under the key they had.                         *)
RowsStay(e, old, new) == UNCHANGED rows

(* rekey_entry: the rows under `old` move to `new`; where `new` is taken,  *)
(* the copy under `old` is removed.                                        *)
RekeyEntry(e, old, new) ==
    rows' = [rows EXCEPT ![e] =
                IF old \notin @ THEN @
                ELSE IF \E f \in Entries : new \in rows[f] THEN @ \ {old}
                ELSE (@ \ {old}) \cup {new}]

(* A platform registers its entities; a unique id is given once.           *)
Registered(e, key) ==
    IF \E f \in Entries \ {e} : key \in rows[f] THEN rows[e] ELSE rows[e] \cup {key}

-----------------------------------------------------------------------------
(* Setup of an entry. *)

(* async_migrate_entry, 1 to 4: the serial is stored, the rows registered  *)
(* under the host before it was known move to it.  The di is left to the   *)
(* first live poll.                                                        *)
MigrateEntry(e) ==
    /\ e \in Present /\ data[e].version < 4
    /\ LET serial == MigratedSerial(data[e])
       IN /\ data' = [data EXCEPT ![e].serial = serial, ![e].version = 4,
                                  ![e].uid = IF data[e].version = 1 THEN serial ELSE @]
          /\ IF data[e].version = 1 /\ serial # data[e].host
             THEN RekeyEntry(e, data[e].host, serial) ELSE UNCHANGED rows
    /\ UNCHANGED <<world, snapshot, live, flow, own>>

(* async_setup_entry up to its first await on the device.  With a snapshot *)
(* the entry comes up from it (async_rehydrate); the replay never reached  *)
(* the device, so the key stays, and the serial and MAC are the snapshot's *)
(* where none is stored, respectively always.                              *)
SetupEntry(e) ==
    /\ e \in Present /\ data[e].version = 4
    /\ live[e].state \in {"unloaded", "retry"}
    /\ LET rep == snapshot[e]
           serial == IF data[e].serial # None THEN data[e].serial ELSE ResolveSerial(rep, data[e].host)
           mac == IF ResolveMac(rep) # None THEN ResolveMac(rep) ELSE data[e].mac
       IN data' = IF rep = None THEN data
                  ELSE [data EXCEPT ![e].serial = serial, ![e].mac = mac]
    /\ live' = [live EXCEPT ![e].key = SeedKey(data[e]),
                            ![e].state = IF snapshot[e] # None THEN "replayed" ELSE "setup"]
    /\ UNCHANGED <<world, rows, snapshot, flow, own>>

(* Nothing stored and no answer: ConfigEntryNotReady.                      *)
FirstRefreshFails(e) ==
    /\ live[e].state = "setup" /\ ~live[e].discovered /\ live[e].read = None
    /\ live' = [live EXCEPT ![e] = [Unloaded EXCEPT !.state = "retry"]]
    /\ UNCHANGED <<world, data, rows, snapshot, flow, own>>

(* The platforms enumerate the entities and register them.                 *)
ForwardEntrySetups(e) ==
    /\ live[e].state = "replayed" \/ (live[e].state = "setup" /\ live[e].discovered)
    /\ live' = [live EXCEPT ![e].state = "loaded"]
    /\ rows' = [rows EXCEPT ![e] = Registered(e, live[e].key)]
    /\ UNCHANGED <<world, data, snapshot, flow, own>>

(* Home Assistant restarts.                                                *)
Restart ==
    /\ \E e \in Entries : live[e].state = "loaded"
    /\ live' = [e \in Entries |-> Unloaded] /\ flow' = NoFlow
    /\ UNCHANGED <<world, data, rows, snapshot, own>>

-----------------------------------------------------------------------------
(* The first live cycle of a load. *)

(* _check_device_binding: only a pre-shared key leaves it open which       *)
(* appliance answered.                                                     *)
CheckDeviceBinding(entry, rep) ==
    entry.psk => Binding(entry.ocf, ProvenOcfDeviceId(rep)) # "mismatched"

PollAnswers(e, a) ==
    /\ live[e].state \in Up /\ ~live[e].discovered /\ live[e].read = None
    /\ at[a] = data[e].host /\ reports[a].psk = data[e].psk
    /\ CheckDeviceBinding(data[e], reports[a])
    /\ live' = [live EXCEPT ![e].read = [from |-> a, rep |-> reports[a]]]
    /\ UNCHANGED <<world, data, rows, snapshot, flow, own>>

(* _persist_identity: a MAC or a di of None leaves the one that is stored. *)
PersistIdentity(entry, resolved, mac, di) ==
    [entry EXCEPT !.key = resolved.key, !.serial = resolved.serial,
                  !.mac = IF mac # None THEN mac ELSE @,
                  !.ocf = IF di # None THEN di ELSE @]

(* The end of _run_discovery, with _persist_identity and the snapshot.     *)
(* The MAC and the proven di are taken only from a poll the entry adopted. *)
Discover(e) ==
    /\ live[e].read # None
    /\ LET rep      == live[e].read.rep
           entry    == data[e]
           resolved == ResolveIdentity(entry, rep)
           adopted  == ResolveDeviceKey(rep, entry.host) = resolved.key
           mac      == IF adopted THEN ResolveMac(rep) ELSE None
           proven   == IF ProvenOcfDeviceId(rep) = resolved.key THEN resolved.key ELSE None
           rekeyed  == resolved.key # SeedKey(entry)
           kept     == [entry EXCEPT !.uid = IF rekeyed THEN resolved.key ELSE @]
           persisted == PersistIdentity(kept, resolved, mac, proven)
       IN /\ data' = [data EXCEPT ![e] = persisted]
          /\ IF rekeyed THEN RekeyEntry(e, SeedKey(entry), resolved.key) ELSE UNCHANGED rows
          /\ live' = [live EXCEPT ![e].discovered = TRUE, ![e].read = None, ![e].key = resolved.key]
          /\ snapshot' = [snapshot EXCEPT ![e] = rep]
          /\ own' = IF adopted THEN [own EXCEPT ![e] = live[e].read.from] ELSE own
    /\ UNCHANGED <<world, flow>>

-----------------------------------------------------------------------------
(* The config flow. *)

(* async_step_user and the credential steps: the probe of a host.          *)
FlowProbes(h, a) ==
    /\ flow = NoFlow /\ at[a] = h /\ AllMigrated
    /\ reports[a].psk => Usable(reports[a].di)
    /\ flow' = [step |-> "probed", host |-> h, appliance |-> a, rep |-> reports[a]]
    /\ UNCHANGED <<world, book>>

(* Slip: only the di is compared.                                          *)
NeverPending(e) == FALSE

(* The address is an old entry's, still under the serial it was made with: *)
(* it has not met the di yet.                                              *)
AwaitsItsDi(e) ==
    /\ data[e].key = None /\ data[e].host = flow.host
    /\ data[e].uid = ResolveSerial(flow.rep, flow.host)

Created ==
    [host |-> flow.host, key |-> ResolveDeviceKey(flow.rep, flow.host),
     serial |-> ResolveSerial(flow.rep, flow.host), ocf |-> ProvenOcfDeviceId(flow.rep),
     mac |-> ResolveMac(flow.rep), psk |-> reports[flow.appliance].psk, version |-> 4,
     uid |-> ResolveDeviceKey(flow.rep, flow.host), title |-> flow.host]

Fresh == Entries \ Present

(* _create_entry.  Home Assistant lets a new entry take the place of one   *)
(* with its unique id.                                                     *)
CreateEntry(e) ==
    LET twins == {f \in Present : data[f].uid = Created.uid}
        gone(f) == f \in twins
    IN /\ data' = [f \in Entries |-> IF f = e THEN Created ELSE IF gone(f) THEN None ELSE data[f]]
       /\ rows' = [f \in Entries |-> IF f = e \/ gone(f) THEN {} ELSE rows[f]]
       /\ snapshot' = [f \in Entries |-> IF f = e \/ gone(f) THEN None ELSE snapshot[f]]
       /\ live' = [f \in Entries |-> IF f = e \/ gone(f) THEN Unloaded ELSE live[f]]
       /\ own' = [own EXCEPT ![e] = flow.appliance]
       /\ flow' = NoFlow

(* _finish_probe.                                                          *)
FinishProbe ==
    /\ flow.step = "probed"
    /\ IF \E e \in Present : AwaitsItsDi(e) \/ data[e].uid = ResolveDeviceKey(flow.rep, flow.host)
       THEN flow' = NoFlow /\ UNCHANGED book
       ELSE \/ flow.appliance \in Recognised /\ Fresh # {} /\ CreateEntry(CHOOSE e \in Fresh : TRUE)
            \/ flow.appliance \notin Recognised /\ flow' = [flow EXCEPT !.step = "confirm"] /\ UNCHANGED book
    /\ UNCHANGED world

ConfirmUnknownType ==
    /\ flow.step = "confirm"
    /\ Fresh # {} /\ CreateEntry(CHOOSE e \in Fresh : TRUE)
    /\ UNCHANGED world

(* _followed_title: a title that names the address moves with it.          *)
FollowedTitle(entry, host) == IF entry.title = entry.host THEN host ELSE entry.title

(* async_step_dhcp: the entry that stores this MAC follows the address; it *)
(* is reloaded if it moved, and retried at once if it was waiting.         *)
Dhcp(a) ==
    /\ at[a] # None /\ Usable(reports[a].mac) /\ AllMigrated
    /\ \E e \in Present :
        /\ data[e].mac = reports[a].mac /\ data[e].uid # None
        /\ data[e].host # at[a] \/ live[e].state = "retry"
        /\ data' = [data EXCEPT ![e].host = at[a], ![e].title = FollowedTitle(data[e], at[a])]
        /\ live' = [live EXCEPT ![e] = IF @.state \in {"retry", "loaded"} THEN Unloaded ELSE @]
    /\ UNCHANGED <<world, rows, snapshot, flow, own>>

(* async_step_reconfigure: the probe of the address typed in.              *)
ReconfigureProbes(e, a) ==
    /\ flow = NoFlow /\ e \in Present /\ at[a] # None /\ AllMigrated
    /\ reports[a].psk = data[e].psk /\ (reports[a].psk => Usable(reports[a].di))
    /\ flow' = [step |-> "reconfigure", entry |-> e, host |-> at[a], appliance |-> a, rep |-> reports[a]]
    /\ UNCHANGED <<world, book>>

(* A PSK entry is bound to the di it stored, and to nothing less.          *)
ReconfigureMatches(entry, rep, host) ==
    /\ IdentityMatches(entry, rep, host)
    /\ entry.psk => Binding(entry.ocf, ProvenOcfDeviceId(rep)) = "matched"

FinishReconfigure ==
    /\ flow.step = "reconfigure"
    /\ LET e == flow.entry
           mac == IF ResolveMac(flow.rep) # None THEN ResolveMac(flow.rep) ELSE data[e].mac
       IN IF e \in Present /\ ReconfigureMatches(data[e], flow.rep, flow.host)
          THEN /\ data' = [data EXCEPT ![e].host = flow.host, ![e].mac = mac,
                                       ![e].title = FollowedTitle(data[e], flow.host)]
               /\ live' = [live EXCEPT ![e] = Unloaded]
               /\ own' = [own EXCEPT ![e] = flow.appliance]
          ELSE UNCHANGED <<data, live, own>>
    /\ flow' = NoFlow
    /\ UNCHANGED <<world, rows, snapshot>>

-----------------------------------------------------------------------------
Next ==
    \/ \E a \in Appliances : HardReset(a) \/ Dhcp(a)
    \/ \E a \in Appliances, h \in Hosts : LeaseMoves(a, h) \/ FlowProbes(h, a)
    \/ \E e \in Entries :
        \/ MigrateEntry(e) \/ SetupEntry(e) \/ FirstRefreshFails(e)
        \/ ForwardEntrySetups(e) \/ Discover(e)
    \/ \E e \in Entries, a \in Appliances : PollAnswers(e, a) \/ ReconfigureProbes(e, a)
    \/ FinishProbe \/ ConfirmUnknownType \/ FinishReconfigure
    \/ Restart

Spec == Init /\ [][Next]_vars

-----------------------------------------------------------------------------
(* What holds. *)

\* The rows of an entry are under the key its next start seeds, and no other:
\* a key is never changed without moving them, nor stored without being
\* theirs, or the rows are orphaned (issue #236).
RowsUnderSeed ==
    \A e \in Present :
        data[e].version = 4 =>
            /\ rows[e] \subseteq {SeedKey(data[e])}
            /\ live[e].state \in Up => live[e].key = SeedKey(data[e])
            /\ data[e].uid = SeedKey(data[e])

\* The rows go to another appliance only if it corroborates the serial, or
\* the entry was registered against an address, never because it answers at
\* the address the entry's own appliance had (issues #381, #469); and a PSK
\* entry stays with the di it was imported for: at whatever address, by
\* whichever path, no other appliance that knows the key takes it over.
RowsKeepTheirAppliance ==
    [][/\ \A e \in Entries :
            own'[e] # own[e] /\ rows[e] # {} =>
                HostKeyed(data[e]) \/ reports[own'[e]].serial = reports[own[e]].serial
       /\ \A e \in Present : data[e].psk /\ data'[e] # None => data'[e].ocf = data[e].ocf]_vars

\* A new entry never stands for an appliance another entry stands for and
\* can know: one that was not reset, that was registered under an identity,
\* and either has met the di, or awaits it where the appliance answered when
\* its probe ended.  (Nothing is asked again at the end of the form for an
\* unknown type, and the lease of an entry that awaits its di may have moved
\* there while it was open.)
AddedOnce ==
    [][\A e, f \in Entries :
        data[e] = None /\ data'[e] # None /\ data[f] # None /\ data'[f] # None /\ own[f] = own'[e] =>
            \/ reports[own[f]].di = NewDi[own[f]]
            \/ HostKeyed(data[f])
            \/ ~(\/ data[f].key = OcfDeviceKey(reports[own[f]])
                 \/ flow.step = "probed" /\ data[f].key = None /\ data[f].host = data'[e].host)]_vars

\* An entry never takes the MAC, and so the leases, of an appliance that does
\* not report its own appliance's serial: "following the lease of an appliance
\* _resolve_identity refused to re-key onto would be following the wrong
\* device" (_run_discovery).
FollowsItsOwnMac ==
    [][\A e \in Entries, a \in Appliances :
        data[e] # None /\ data'[e] # None /\ data'[e].mac # data[e].mac /\ data'[e].mac = reports[a].mac =>
            reports[a].serial = reports[own'[e]].serial]_vars

=============================================================================
