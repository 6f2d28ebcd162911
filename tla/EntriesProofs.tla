----------------------------- MODULE EntriesProofs -----------------------------
(***************************************************************************)
(* EntryBook and SetupProbe, each proved for every value of its constants. *)
(* EntryBook: any number of entries, appliances, lease moves and resets,   *)
(* and any installation an older release left; the rows of an entry are    *)
(* always under the key its next start seeds, they stay with its           *)
(* appliance, and an appliance whose entry has met its UUID is not added   *)
(* again.  SetupProbe: any hosts, ports and credentials; a probe reads as  *)
(* a refusal only what is one, and leaves few half-open peers behind.      *)
(***************************************************************************)
EXTENDS EntryParts, FiniteSetTheorems, TLAPS

-----------------------------------------------------------------------------
(* The entries and their rows. *)

LiveData ==
    [state : {"unloaded", "retry", "setup", "replayed", "loaded"}, key : OrNone(Names),
     read : OrNone([from : Appliances, rep : Readings]), discovered : BOOLEAN]

Flows ==
    {NoFlow}
      \cup [step : {"probed", "confirm"}, host : Hosts, appliance : Appliances, rep : Readings]
      \cup [step : {"reconfigure"}, entry : Entries, host : Hosts, appliance : Appliances,
            rep : Readings]

Typed ==
    /\ reports \in [Appliances -> Readings]
    /\ at \in [Appliances -> OrNone(Hosts)]
    /\ data \in [Entries -> OrNone(EntryData)]
    /\ rows \in [Entries -> SUBSET Names]
    /\ snapshot \in [Entries -> OrNone(Readings)]
    /\ live \in [Entries -> LiveData]
    /\ flow \in Flows

\* An entry before and after its migration
Tidy(e) ==
    data[e] # None =>
        IF data[e].version = 4
        THEN UnderSeed(data[e], rows[e]) /\ (live[e].state \in Up => live[e].key = SeedKey(data[e]))
        ELSE Unmigrated(data[e], rows[e])

\* Nothing is loaded of an entry before it is migrated
Migrated(e) == data[e] # None /\ data[e].version = 4

LoadedLate == \A e \in Entries : live[e].state \in Up \/ live[e].read # None => Migrated(e)

FlowsLate == flow # NoFlow => AllMigrated

IInv == Typed /\ (\A e \in Entries : Tidy(e)) /\ LoadedLate /\ FlowsLate

-----------------------------------------------------------------------------
(* What the identity operators return. *)

LEMMA ResolvedNames ==
    ASSUME NEW rep \in Readings, NEW host \in Names
    PROVE  /\ ResolveSerial(rep, host) \in Names
           /\ ResolveDeviceKey(rep, host) \in Names
           /\ ResolveMac(rep) \in OrNone(Names)
           /\ ProvenOcfDeviceId(rep) \in OrNone(Names)
BY BookOK DEF Readings, OrNone, ResolveSerial, ResolveDeviceKey, ResolveMac, ProvenOcfDeviceId,
              OcfDeviceKey, Usable

LEMMA SeedKeyNamed ==
    ASSUME NEW entry \in EntryData, entry.serial # None
    PROVE  SeedKey(entry) \in Names
BY BookOK DEF EntryData, OrNone, SeedKey

LEMMA SerialNamed ==
    ASSUME NEW entry \in EntryData
    PROVE  MigratedSerial(entry) \in Names
BY BookOK DEF EntryData, OrNone, MigratedSerial, SerialFromUid

\* An identity is resolved to a key and a serial, whatever was polled.
LEMMA IdentityNamed ==
    ASSUME NEW entry \in EntryData, entry.serial # None, NEW rep \in Readings
    PROVE  /\ ResolveIdentity(entry, rep).key \in Names
           /\ ResolveIdentity(entry, rep).serial \in Names
<1>1. entry.host \in Names /\ entry.serial \in Names /\ entry.key \in OrNone(Names)
  BY DEF EntryData, OrNone
<1>2. SeedKey(entry) \in Names
  BY SeedKeyNamed
<1> QED  BY <1>1, <1>2, ResolvedNames DEF ResolveIdentity, OrNone

-----------------------------------------------------------------------------
(* Initially. *)

LEMMA InitEstablishes == Init => IInv
<1> SUFFICES ASSUME Init PROVE IInv
  OBVIOUS
<1>1. PICK start \in Starts :
        /\ reports = start.reports /\ at = start.at
        /\ data = start.data /\ rows = start.rows /\ snapshot = start.snapshot
  BY DEF Init
<1>2. live = [e \in Entries |-> Unloaded] /\ flow = NoFlow
  BY DEF Init
<1>3. Typed
  <2>1. Unloaded \in LiveData
    BY DEF Unloaded, LiveData, OrNone
  <2> QED  BY <1>1, <1>2, <2>1, BookOK DEF Typed, Flows
<1>4. \A e \in Entries : Tidy(e)
  <2>1. \A e \in Entries : live[e].state \notin Up
    BY <1>2 DEF Unloaded, Up
  <2> QED  BY <1>1, <2>1, BookOK DEF Tidy
<1>5. LoadedLate
  BY <1>2 DEF LoadedLate, Unloaded, Up
<1> QED  BY <1>2, <1>3, <1>4, <1>5 DEF IInv, FlowsLate

-----------------------------------------------------------------------------
(* The steps. *)

\* The network's steps, and those that only begin a flow, leave the book alone.
LEMMA BookUntouched ==
    ASSUME IInv, UNCHANGED <<data, rows, snapshot, live>>,
           reports' \in [Appliances -> Readings], at' \in [Appliances -> OrNone(Hosts)],
           flow' \in Flows, flow' # NoFlow => AllMigrated
    PROVE  IInv'
<1>1. Typed'
  BY DEF IInv, Typed
<1>2. \A e \in Entries : Tidy(e)'
  BY DEF IInv, Tidy, UnderSeed, Unmigrated
<1>3. LoadedLate'
  BY DEF IInv, LoadedLate, Migrated
<1>4. FlowsLate'
  BY DEF FlowsLate, AllMigrated, Present
<1> QED  BY <1>1, <1>2, <1>3, <1>4 DEF IInv

\* A change of one entry and of what is loaded of it.
LEMMA OneEntryChanges ==
    ASSUME IInv, NEW e \in Entries, NEW d \in OrNone(EntryData), NEW l \in LiveData,
           NEW k \in SUBSET Names,
           UNCHANGED <<reports, at>>, flow' \in Flows, flow' # NoFlow => flow' = flow,
           data' = [data EXCEPT ![e] = d], live' = [live EXCEPT ![e] = l],
           rows' = [rows EXCEPT ![e] = k],
           snapshot' \in [Entries -> OrNone(Readings)],
           data[e] # None /\ data[e].version = 4 /\ d # None => d.version = 4,
           data[e] = None => d = None,
           l.state \in Up \/ l.read # None => d # None /\ d.version = 4,
           d # None =>
               IF d.version = 4
               THEN UnderSeed(d, k) /\ (l.state \in Up => l.key = SeedKey(d))
               ELSE Unmigrated(d, k)
    PROVE  IInv'
<1>1. Typed'
  BY DEF IInv, Typed
<1>2. ASSUME NEW f \in Entries PROVE Tidy(f)'
  <2>1. CASE f = e
    BY <2>1 DEF IInv, Typed, Tidy
  <2>2. CASE f # e
    <3>1. data'[f] = data[f] /\ live'[f] = live[f] /\ rows'[f] = rows[f]
      BY <2>2 DEF IInv, Typed
    <3> QED  BY <3>1 DEF IInv, Tidy
  <2> QED  BY <2>1, <2>2
<1>3. LoadedLate'
  <2>1. ASSUME NEW f \in Entries, f # e
        PROVE  data'[f] = data[f] /\ live'[f] = live[f]
    BY <2>1 DEF IInv, Typed
  <2>2. data'[e] = d /\ live'[e] = l
    BY DEF IInv, Typed
  <2> QED  BY <2>1, <2>2 DEF IInv, LoadedLate, Migrated
<1>4. FlowsLate'
  <2>1. ASSUME NEW f \in Entries, f # e  PROVE data'[f] = data[f]
    BY <2>1 DEF IInv, Typed
  <2>2. data'[e] = d
    BY DEF IInv, Typed
  <2> QED  BY <2>1, <2>2 DEF IInv, FlowsLate, AllMigrated, Present
<1> QED  BY <1>1, <1>2, <1>3, <1>4 DEF IInv

LEMMA ResetReading ==
    ASSUME NEW x \in Readings, NEW i \in Names
    PROVE  [x EXCEPT !.di = i] \in Readings
BY DEF Readings, OrNone

LEMMA NetworkStep ==
    ASSUME IInv, NEW a \in Appliances
    PROVE  /\ HardReset(a) => IInv'
           /\ \A h \in Hosts : LeaseMoves(a, h) => IInv'
           /\ \A h \in Hosts : FlowProbes(h, a) => IInv'
           /\ \A e \in Entries : ReconfigureProbes(e, a) => IInv'
<1>1. HardReset(a) => IInv'
  <2> SUFFICES ASSUME HardReset(a) PROVE IInv'
    OBVIOUS
  <2>1. reports' \in [Appliances -> Readings]
    <3>1. [reports[a] EXCEPT !.di = NewDi[a]] \in Readings
      BY BookOK, ResetReading DEF IInv, Typed
    <3> QED  BY <3>1 DEF HardReset, IInv, Typed
  <2> QED  BY <2>1, BookUntouched DEF HardReset, book, IInv, Typed, FlowsLate
<1>2. ASSUME NEW h \in Hosts, LeaseMoves(a, h) PROVE IInv'
  <2>1. at' \in [Appliances -> OrNone(Hosts)]
    BY <1>2 DEF LeaseMoves, IInv, Typed, OrNone
  <2> QED  BY <1>2, <2>1, BookUntouched DEF LeaseMoves, book, IInv, Typed, FlowsLate
<1>3. ASSUME NEW h \in Hosts, FlowProbes(h, a) PROVE IInv'
  <2>1. flow' \in Flows
    BY <1>3 DEF FlowProbes, Flows, IInv, Typed
  <2> QED  BY <1>3, <2>1, BookUntouched DEF FlowProbes, world, book, IInv, Typed
<1>4. ASSUME NEW e \in Entries, ReconfigureProbes(e, a) PROVE IInv'
  <2>1. at[a] \in Hosts
    BY <1>4 DEF ReconfigureProbes, IInv, Typed, OrNone
  <2>2. flow' \in Flows
    BY <1>4, <2>1 DEF ReconfigureProbes, Flows, IInv, Typed
  <2> QED  BY <1>4, <2>2, BookUntouched DEF ReconfigureProbes, world, book, IInv, Typed
<1> QED  BY <1>1, <1>2, <1>3, <1>4

\* The rows that move are under the new key, or gone.
LEMMA Rekeyed ==
    ASSUME Typed, NEW e \in Entries, NEW old, NEW new \in Names, NEW other,
           rows[e] \subseteq {old, other}, RekeyEntry(e, old, new)
    PROVE  \E k \in SUBSET Names : rows' = [rows EXCEPT ![e] = k] /\ k \subseteq {new, other}
<1> DEFINE k == IF old \notin rows[e] THEN rows[e]
                ELSE IF \E f \in Entries : new \in rows[f] THEN rows[e] \ {old}
                ELSE (rows[e] \ {old}) \cup {new}
<1>1. rows' = [rows EXCEPT ![e] = k]
  BY DEF RekeyEntry
<1>2. k \in SUBSET Names
  BY DEF Typed
<1>3. k \subseteq {new, other}
  OBVIOUS
<1> QED  BY <1>1, <1>2, <1>3

LEMMA MigratedData ==
    ASSUME NEW x \in EntryData, NEW s \in Names, NEW u \in OrNone(Names)
    PROVE  [x EXCEPT !.serial = s, !.version = 4, !.uid = u] \in EntryData
<1>1. s \in OrNone(Names) /\ 4 \in 1..4
  BY DEF OrNone
<1> QED  BY <1>1 DEF EntryData

LEMMA MigrateStep ==
    ASSUME IInv, NEW e \in Entries, MigrateEntry(e)
    PROVE  IInv'
<1> DEFINE s == MigratedSerial(data[e])
           d == [data[e] EXCEPT !.serial = s, !.version = 4,
                                !.uid = IF data[e].version = 1 THEN s ELSE @]
<1>1. data[e] \in EntryData /\ data[e].version # 4 /\ data[e] # None
  BY DEF MigrateEntry, Present, IInv, Typed, OrNone
<1>2. s \in Names /\ s # None
  BY <1>1, SerialNamed, BookOK
<1>3. Unmigrated(data[e], rows[e])
  BY <1>1 DEF IInv, Tidy
<1>4. d \in EntryData /\ d.serial = s /\ d.key = None /\ d.version = 4 /\ d.host = data[e].host
  <2>1. d.serial = s /\ d.version = 4 /\ d.host = data[e].host /\ d.key = data[e].key
    BY <1>1 DEF EntryData
  <2>2. (IF data[e].version = 1 THEN s ELSE data[e].uid) \in OrNone(Names)
    BY <1>1, <1>2 DEF EntryData, OrNone
  <2>3. d \in EntryData
    BY <1>1, <1>2, <2>2, MigratedData
  <2> QED  BY <1>3, <2>1, <2>3 DEF Unmigrated
<1>5. SeedKey(d) = s /\ d.uid = s
  BY <1>1, <1>2, <1>3, <1>4 DEF SeedKey, Unmigrated, EntryData
<1>6. \E k \in SUBSET Names : rows' = [rows EXCEPT ![e] = k] /\ k \subseteq {s}
  <2>1. CASE data[e].version = 1 /\ s # data[e].host
    <3>1. RekeyEntry(e, data[e].host, s)
      BY <2>1 DEF MigrateEntry
    <3>2. rows[e] \subseteq {data[e].host, s}
      BY <1>3 DEF Unmigrated
    <3> QED  BY <1>2, <3>1, <3>2, Rekeyed DEF IInv
  <2>2. CASE ~(data[e].version = 1 /\ s # data[e].host)
    <3>1. rows' = rows /\ rows[e] \subseteq {s}
      BY <1>3, <2>2 DEF MigrateEntry, Unmigrated
    <3> QED  BY <3>1 DEF IInv, Typed
  <2> QED  BY <2>1, <2>2
<1>7. PICK k \in SUBSET Names : rows' = [rows EXCEPT ![e] = k] /\ k \subseteq {s}
  BY <1>6
<1>8. data' = [data EXCEPT ![e] = d]
  BY DEF MigrateEntry, IInv, Typed
<1>9. live[e].state \notin Up /\ live[e].read = None
  BY <1>1 DEF IInv, LoadedLate, Migrated
<1>10. UnderSeed(d, k)
  BY <1>2, <1>4, <1>5, <1>7 DEF UnderSeed
<1>11. live[e] \in LiveData /\ live' = [live EXCEPT ![e] = live[e]]
  BY DEF MigrateEntry, IInv, Typed
<1>12. /\ reports' = reports /\ at' = at /\ flow' = flow /\ flow' \in Flows
       /\ snapshot' \in [Entries -> OrNone(Readings)]
  BY DEF MigrateEntry, world, IInv, Typed
<1> HIDE DEF d, s
<1> QED  BY <1>1, <1>4, <1>7, <1>8, <1>9, <1>10, <1>11, <1>12, OneEntryChanges DEF OrNone

\* What a step that changes only what is loaded of an entry has to show.
LEMMA OneLoadChanges ==
    ASSUME IInv, NEW e \in Entries, NEW l \in LiveData,
           UNCHANGED <<world, data, rows, snapshot, flow>>, live' = [live EXCEPT ![e] = l],
           l.state \in Up \/ l.read # None => Migrated(e),
           l.state \in Up => l.key = SeedKey(data[e])
    PROVE  IInv'
<1>1. data[e] \in OrNone(EntryData) /\ data' = [data EXCEPT ![e] = data[e]]
  BY DEF IInv, Typed
<1>2. rows[e] \in SUBSET Names /\ rows' = [rows EXCEPT ![e] = rows[e]]
  BY DEF IInv, Typed
<1>3. snapshot' \in [Entries -> OrNone(Readings)] /\ flow' \in Flows /\ flow' = flow
  BY DEF IInv, Typed
<1>4. Tidy(e)
  BY DEF IInv
<1> QED  BY <1>1, <1>2, <1>3, <1>4, OneEntryChanges DEF world, Tidy, Migrated

LEMMA UnloadedData == Unloaded \in LiveData /\ Unloaded.state \notin Up /\ Unloaded.read = None
BY DEF Unloaded, LiveData, OrNone, Up

LEMMA FirstRefreshFailsStep ==
    ASSUME IInv, NEW e \in Entries, FirstRefreshFails(e)
    PROVE  IInv'
<1> DEFINE l == [Unloaded EXCEPT !.state = "retry"]
<1>1. l \in LiveData /\ l.state \notin Up /\ l.read = None
  BY DEF Unloaded, LiveData, OrNone, Up
<1>2. live' = [live EXCEPT ![e] = l] /\ UNCHANGED <<world, data, rows, snapshot, flow>>
  BY DEF FirstRefreshFails
<1> HIDE DEF l
<1> QED  BY <1>1, <1>2, OneLoadChanges

LEMMA PollAnswersStep ==
    ASSUME IInv, NEW e \in Entries, NEW a \in Appliances, PollAnswers(e, a)
    PROVE  IInv'
<1> DEFINE l == [live[e] EXCEPT !.read = [from |-> a, rep |-> reports[a]]]
<1>1. live[e] \in LiveData /\ live[e].state \in Up
  BY DEF PollAnswers, IInv, Typed
<1>2. [from |-> a, rep |-> reports[a]] \in OrNone([from : Appliances, rep : Readings])
  BY DEF IInv, Typed, OrNone
<1>3. l \in LiveData /\ l.state = live[e].state /\ l.key = live[e].key
  BY <1>1, <1>2 DEF LiveData
<1>4. Migrated(e) /\ live[e].key = SeedKey(data[e])
  BY <1>1 DEF IInv, LoadedLate, Migrated, Tidy
<1>5. live' = [live EXCEPT ![e] = l] /\ UNCHANGED <<world, data, rows, snapshot, flow>>
  BY DEF PollAnswers, IInv, Typed
<1> HIDE DEF l
<1> QED  BY <1>3, <1>4, <1>5, OneLoadChanges

LEMMA RestartStep ==
    ASSUME IInv, Restart
    PROVE  IInv'
<1>1. live' = [e \in Entries |-> Unloaded] /\ flow' = NoFlow
  BY DEF Restart
<1>2. Typed'
  BY <1>1, UnloadedData DEF Restart, world, IInv, Typed, Flows
<1>3. \A e \in Entries : Tidy(e)'
  BY <1>1, UnloadedData DEF Restart, IInv, Tidy, UnderSeed, Unmigrated
<1>4. LoadedLate' /\ FlowsLate'
  BY <1>1, UnloadedData DEF LoadedLate, FlowsLate
<1> QED  BY <1>2, <1>3, <1>4 DEF IInv

LEMMA SetupEntryStep ==
    ASSUME IInv, NEW e \in Entries, SetupEntry(e)
    PROVE  IInv'
<1> DEFINE rep == snapshot[e]
           serial == IF data[e].serial # None THEN data[e].serial
                     ELSE ResolveSerial(rep, data[e].host)
           mac == IF ResolveMac(rep) # None THEN ResolveMac(rep) ELSE data[e].mac
           d == IF rep = None THEN data[e] ELSE [data[e] EXCEPT !.serial = serial, !.mac = mac]
           l == [live[e] EXCEPT !.key = SeedKey(data[e]),
                                !.state = IF rep # None THEN "replayed" ELSE "setup"]
<1>1. data[e] \in EntryData /\ data[e].version = 4 /\ data[e] # None /\ data[e].serial # None
  BY DEF SetupEntry, Present, IInv, Typed, OrNone, Tidy, UnderSeed
<1>2. SeedKey(data[e]) \in Names
  BY <1>1, SeedKeyNamed
<1>3. d \in EntryData /\ d.version = 4 /\ d.serial = data[e].serial /\ d.key = data[e].key
      /\ d.host = data[e].host /\ d.uid = data[e].uid
  <2>1. CASE rep = None
    BY <1>1, <2>1
  <2>2. CASE rep # None
    <3>1. rep \in Readings /\ data[e].host \in Names /\ data[e].mac \in OrNone(Names)
      BY <1>1, <2>2 DEF IInv, Typed, OrNone, EntryData
    <3>2. mac \in OrNone(Names) /\ serial = data[e].serial /\ serial \in OrNone(Names)
      BY <1>1, <3>1, ResolvedNames DEF EntryData
    <3> HIDE DEF serial, mac
    <3> QED  BY <1>1, <2>2, <3>2 DEF EntryData
  <2> QED  BY <2>1, <2>2
<1>4. l \in LiveData /\ l.key = SeedKey(data[e])
  <2>1. SeedKey(data[e]) \in OrNone(Names) /\ live[e] \in LiveData
    BY <1>2 DEF OrNone, IInv, Typed
  <2> QED  BY <2>1 DEF LiveData
<1>5. SeedKey(d) = SeedKey(data[e])
  BY <1>3 DEF SeedKey
<1>6. UnderSeed(d, rows[e])
  BY <1>1, <1>3, <1>5 DEF IInv, Tidy, UnderSeed
<1>7. data' = [data EXCEPT ![e] = d]
  BY DEF SetupEntry, IInv, Typed
<1>8. live' = [live EXCEPT ![e] = l]
  BY DEF SetupEntry, IInv, Typed
<1>9. rows[e] \in SUBSET Names /\ rows' = [rows EXCEPT ![e] = rows[e]]
  BY DEF SetupEntry, IInv, Typed
<1>10. /\ reports' = reports /\ at' = at /\ flow' = flow /\ flow' \in Flows
       /\ snapshot' \in [Entries -> OrNone(Readings)]
  BY DEF SetupEntry, world, IInv, Typed
<1>11. d # None
  BY <1>3, BookOK
<1> HIDE DEF d, l
<1> QED  BY <1>1, <1>3, <1>4, <1>5, <1>6, <1>7, <1>8, <1>9, <1>10, <1>11, OneEntryChanges DEF OrNone

LEMMA ForwardStep ==
    ASSUME IInv, NEW e \in Entries, ForwardEntrySetups(e)
    PROVE  IInv'
<1> DEFINE l == [live[e] EXCEPT !.state = "loaded"]
           k == Registered(e, live[e].key)
<1>1. live[e] \in LiveData /\ live[e].state \in Up
  BY DEF ForwardEntrySetups, Up, IInv, Typed
<1>2. Migrated(e) /\ live[e].key = SeedKey(data[e]) /\ UnderSeed(data[e], rows[e])
  BY <1>1 DEF IInv, LoadedLate, Migrated, Tidy
<1>3. data[e] \in EntryData /\ SeedKey(data[e]) \in Names
  BY <1>2, SeedKeyNamed DEF IInv, Typed, OrNone, Migrated, UnderSeed
<1>4. l \in LiveData /\ l.key = live[e].key
  BY <1>1 DEF LiveData
<1>5. k \in SUBSET Names /\ UnderSeed(data[e], k)
  BY <1>2, <1>3 DEF Registered, UnderSeed, IInv, Typed
<1>6. live' = [live EXCEPT ![e] = l] /\ rows' = [rows EXCEPT ![e] = k]
  BY DEF ForwardEntrySetups, IInv, Typed
<1>7. data' = [data EXCEPT ![e] = data[e]]
  BY DEF ForwardEntrySetups, IInv, Typed
<1>8. /\ reports' = reports /\ at' = at /\ flow' = flow /\ flow' \in Flows
      /\ snapshot' \in [Entries -> OrNone(Readings)]
  BY DEF ForwardEntrySetups, world, IInv, Typed
<1> HIDE DEF k, l
<1> QED  BY <1>2, <1>3, <1>4, <1>5, <1>6, <1>7, <1>8, OneEntryChanges DEF OrNone, Migrated

\* The identity an entry persists is the one its rows are moved to.
LEMMA PersistedData ==
    ASSUME NEW entry \in EntryData, NEW rep \in Readings, entry.serial # None,
           entry.version = 4, entry.uid = SeedKey(entry),
           NEW mac \in OrNone(Names), NEW di \in OrNone(Names), NEW uid,
           uid = IF ResolveIdentity(entry, rep).key # SeedKey(entry)
                 THEN ResolveIdentity(entry, rep).key ELSE entry.uid,
           NEW d,
           d = PersistIdentity([entry EXCEPT !.uid = uid], ResolveIdentity(entry, rep), mac, di)
    PROVE  /\ d \in EntryData /\ d.version = 4 /\ d.serial # None
           /\ SeedKey(d) = ResolveIdentity(entry, rep).key
           /\ d.uid = ResolveIdentity(entry, rep).key
           /\ d.key = ResolveIdentity(entry, rep).key
           /\ d.serial = ResolveIdentity(entry, rep).serial
           /\ d.host = entry.host /\ d.psk = entry.psk
           /\ d.ocf = IF di # None THEN di ELSE entry.ocf
<1> DEFINE r == ResolveIdentity(entry, rep)
<1>1. r.key \in Names /\ r.serial \in Names
  BY IdentityNamed
<1>2. uid = r.key
  OBVIOUS
<1>3. [entry EXCEPT !.uid = uid] = [host |-> entry.host, key |-> entry.key, serial |-> entry.serial,
                                     ocf |-> entry.ocf, mac |-> entry.mac, psk |-> entry.psk,
                                     version |-> entry.version, uid |-> uid, title |-> entry.title]
  BY DEF EntryData
<1>4. d = [host |-> entry.host, key |-> r.key, serial |-> r.serial,
           ocf |-> IF di # None THEN di ELSE entry.ocf,
           mac |-> IF mac # None THEN mac ELSE entry.mac,
           psk |-> entry.psk, version |-> entry.version, uid |-> uid, title |-> entry.title]
  <2> HIDE DEF r
  <2> QED  BY <1>3 DEF PersistIdentity, r
<1>5. r.key # None /\ r.serial # None
  BY <1>1, BookOK
<1> HIDE DEF r
<1>6. d \in EntryData
  <2>1. entry.host \in Names /\ entry.ocf \in OrNone(Names) /\ entry.mac \in OrNone(Names)
        /\ entry.psk \in BOOLEAN /\ entry.version \in 1..4 /\ entry.title \in Names
    BY DEF EntryData
  <2> QED  BY <1>1, <1>2, <1>4, <2>1 DEF EntryData, OrNone
<1> QED  BY <1>2, <1>4, <1>5, <1>6 DEF SeedKey, r

LEMMA DiscoverStep ==
    ASSUME IInv, NEW e \in Entries, Discover(e)
    PROVE  IInv'
<1> DEFINE rep      == live[e].read.rep
           entry    == data[e]
           resolved == ResolveIdentity(entry, rep)
           adopted  == ResolveDeviceKey(rep, entry.host) = resolved.key
           mac      == IF adopted THEN ResolveMac(rep) ELSE None
           proven   == IF ProvenOcfDeviceId(rep) = resolved.key THEN resolved.key ELSE None
           rekeyed  == resolved.key # SeedKey(entry)
           uid      == IF rekeyed THEN resolved.key ELSE entry.uid
           d        == PersistIdentity([entry EXCEPT !.uid = uid], resolved, mac, proven)
           l        == [live[e] EXCEPT !.discovered = TRUE, !.read = None, !.key = resolved.key]
<1>1. rep \in Readings
  BY DEF Discover, IInv, Typed, LiveData, OrNone
<1>2. entry \in EntryData /\ entry.version = 4 /\ UnderSeed(entry, rows[e])
  BY DEF Discover, IInv, Typed, OrNone, LoadedLate, Migrated, Tidy
<1>3. resolved.key \in Names
  BY <1>1, <1>2, IdentityNamed DEF UnderSeed
<1>4. mac \in OrNone(Names) /\ proven \in OrNone(Names)
  <2>1. entry.host \in Names
    BY <1>2 DEF EntryData
  <2> QED  BY <1>1, <1>3, <2>1, ResolvedNames DEF OrNone
<1>5. /\ d \in EntryData /\ d.version = 4 /\ d.serial # None
      /\ SeedKey(d) = resolved.key /\ d.uid = resolved.key
  <2> HIDE DEF mac, proven, entry, rep
  <2> QED  BY <1>1, <1>2, <1>4, PersistedData DEF UnderSeed
<1>6. \E k \in SUBSET Names : rows' = [rows EXCEPT ![e] = k] /\ k \subseteq {resolved.key}
  <2>1. CASE rekeyed
    <3>1. RekeyEntry(e, SeedKey(entry), resolved.key)
      BY <2>1 DEF Discover
    <3>2. rows[e] \subseteq {SeedKey(entry), resolved.key}
      BY <1>2 DEF UnderSeed
    <3> HIDE DEF resolved, entry
    <3> QED  BY <1>3, <3>1, <3>2, Rekeyed DEF IInv
  <2>2. CASE ~rekeyed
    <3>1. rows' = rows /\ rows[e] \subseteq {resolved.key}
      BY <1>2, <2>2 DEF Discover, UnderSeed
    <3> QED  BY <3>1 DEF IInv, Typed
  <2> QED  BY <2>1, <2>2
<1>7. PICK k \in SUBSET Names : rows' = [rows EXCEPT ![e] = k] /\ k \subseteq {resolved.key}
  BY <1>6
<1>8. data' = [data EXCEPT ![e] = d]
  BY DEF Discover
<1>9. live' = [live EXCEPT ![e] = l]
  BY DEF Discover, IInv, Typed
<1>10. l \in LiveData /\ l.key = resolved.key
  <2>1. resolved.key \in OrNone(Names) /\ live[e] \in LiveData
        /\ None \in OrNone([from : Appliances, rep : Readings])
    BY <1>3 DEF OrNone, IInv, Typed
  <2> HIDE DEF resolved
  <2> QED  BY <2>1 DEF LiveData
<1>11. snapshot' \in [Entries -> OrNone(Readings)]
  BY <1>1 DEF Discover, IInv, Typed, OrNone
<1>12. reports' = reports /\ at' = at /\ flow' = flow /\ flow' \in Flows
  BY DEF Discover, world, IInv, Typed
<1>13. UnderSeed(d, k) /\ d # None /\ data[e] # None
  BY <1>2, <1>5, <1>7, BookOK DEF UnderSeed
<1> HIDE DEF d, l, resolved
<1> QED
  BY <1>5, <1>7, <1>8, <1>9, <1>10, <1>11, <1>12, <1>13, OneEntryChanges DEF OrNone

LEMMA MovedData ==
    ASSUME NEW x \in EntryData, NEW h \in Names, NEW m \in OrNone(Names), NEW t \in Names
    PROVE  [x EXCEPT !.host = h, !.mac = m, !.title = t] \in EntryData
BY DEF EntryData

\* A migrated entry moves to another address: the key it seeds stays.
LEMMA SeedStays ==
    ASSUME NEW x, NEW d, NEW keys, UnderSeed(x, keys),
           d.key = x.key, d.serial = x.serial, d.uid = x.uid
    PROVE  SeedKey(d) = SeedKey(x) /\ UnderSeed(d, keys)
BY DEF UnderSeed, SeedKey

LEMMA FollowedTitleNamed ==
    ASSUME NEW entry \in EntryData, NEW h \in Names
    PROVE  FollowedTitle(entry, h) \in Names
BY DEF FollowedTitle, EntryData

LEMMA DhcpStep ==
    ASSUME IInv, NEW a \in Appliances, Dhcp(a)
    PROVE  IInv'
<1>1. PICK e \in Present :
        /\ data' = [data EXCEPT ![e].host = at[a], ![e].title = FollowedTitle(data[e], at[a])]
        /\ live' = [live EXCEPT ![e] = IF @.state \in {"retry", "loaded"} THEN Unloaded ELSE @]
  BY DEF Dhcp
<1>2. e \in Entries /\ data[e] \in EntryData /\ data[e].version = 4 /\ data[e] # None
  BY DEF Dhcp, AllMigrated, Present, IInv, Typed, OrNone
<1>3. UnderSeed(data[e], rows[e])
  BY <1>2 DEF IInv, Tidy
<1> DEFINE d == [data[e] EXCEPT !.host = at[a], !.mac = data[e].mac,
                                !.title = FollowedTitle(data[e], at[a])]
           l == IF live[e].state \in {"retry", "loaded"} THEN Unloaded ELSE live[e]
<1>4. at[a] \in Names /\ FollowedTitle(data[e], at[a]) \in Names /\ data[e].mac \in OrNone(Names)
  <2>1. at[a] \in Names
    BY BookOK DEF Dhcp, IInv, Typed, OrNone
  <2>2. data[e].mac \in OrNone(Names)
    BY <1>2 DEF EntryData
  <2> QED  BY <1>2, <2>1, <2>2, FollowedTitleNamed
<1>5. /\ d \in EntryData /\ d.version = 4
      /\ SeedKey(d) = SeedKey(data[e]) /\ UnderSeed(d, rows[e])
  <2>1. d \in EntryData
    BY <1>2, <1>4, MovedData
  <2>2. d.version = 4 /\ d.key = data[e].key /\ d.serial = data[e].serial /\ d.uid = data[e].uid
    BY <1>2 DEF EntryData
  <2> HIDE DEF d
  <2> QED  BY <1>3, <2>1, <2>2, SeedStays
<1>6. data' = [data EXCEPT ![e] = d]
  <2>1. d = [data[e] EXCEPT !.host = at[a], !.title = FollowedTitle(data[e], at[a])]
    BY <1>2 DEF EntryData
  <2> QED  BY <1>1, <2>1
<1>7. live' = [live EXCEPT ![e] = l]
  BY <1>1
<1>8. l \in LiveData /\ (l.state \in Up => l.key = SeedKey(d))
  <2>1. live[e] \in LiveData /\ (live[e].state \in Up => live[e].key = SeedKey(data[e]))
    BY <1>2 DEF IInv, Typed, Tidy
  <2> QED  BY <1>5, <2>1, UnloadedData
<1>9. rows[e] \in SUBSET Names /\ rows' = [rows EXCEPT ![e] = rows[e]]
  BY <1>2 DEF Dhcp, IInv, Typed
<1>10. /\ reports' = reports /\ at' = at /\ flow' = flow /\ flow' \in Flows
       /\ snapshot' \in [Entries -> OrNone(Readings)]
  BY DEF Dhcp, world, IInv, Typed
<1>11. d # None
  BY <1>5, BookOK
<1> HIDE DEF d, l
<1> QED
  BY <1>2, <1>5, <1>6, <1>7, <1>8, <1>9, <1>10, <1>11, OneEntryChanges DEF OrNone

LEMMA FinishReconfigureStep ==
    ASSUME IInv, FinishReconfigure
    PROVE  IInv'
<1> DEFINE e   == flow.entry
           mac == IF ResolveMac(flow.rep) # None THEN ResolveMac(flow.rep) ELSE data[e].mac
           d   == [data[e] EXCEPT !.host = flow.host, !.mac = mac,
                                  !.title = FollowedTitle(data[e], flow.host)]
<1>1. e \in Entries /\ flow.host \in Hosts /\ flow.rep \in Readings /\ flow # NoFlow
  BY DEF FinishReconfigure, IInv, Typed, Flows, NoFlow
<1>2. reports' = reports /\ at' = at /\ flow' = NoFlow /\ flow' \in Flows
      /\ rows' = rows /\ snapshot' = snapshot
  BY DEF FinishReconfigure, world, Flows
<1>3. CASE e \in Present /\ ReconfigureMatches(data[e], flow.rep, flow.host)
  <2>1. data[e] \in EntryData /\ data[e].version = 4 /\ data[e] # None
    BY <1>1, <1>3 DEF Present, IInv, Typed, OrNone, FlowsLate, AllMigrated
  <2>2. UnderSeed(data[e], rows[e])
    BY <1>1, <2>1 DEF IInv, Tidy
  <2>3. flow.host \in Names /\ FollowedTitle(data[e], flow.host) \in Names /\ mac \in OrNone(Names)
    <3>1. flow.host \in Names /\ data[e].mac \in OrNone(Names)
      BY <1>1, <2>1, BookOK DEF EntryData
    <3> QED  BY <1>1, <2>1, <3>1, ResolvedNames, FollowedTitleNamed
  <2>4. /\ d \in EntryData /\ d.version = 4
        /\ SeedKey(d) = SeedKey(data[e]) /\ UnderSeed(d, rows[e])
    <3> HIDE DEF mac, e
    <3>1. d \in EntryData
      BY <2>1, <2>3, MovedData
    <3>2. d.version = 4 /\ d.key = data[e].key /\ d.serial = data[e].serial /\ d.uid = data[e].uid
      BY <2>1 DEF EntryData
    <3> HIDE DEF d
    <3> QED  BY <2>2, <3>1, <3>2, SeedStays
  <2>5. data' = [data EXCEPT ![e] = d] /\ live' = [live EXCEPT ![e] = Unloaded]
    BY <1>3 DEF FinishReconfigure
  <2>6. rows[e] \in SUBSET Names /\ rows' = [rows EXCEPT ![e] = rows[e]]
    BY <1>1, <1>2 DEF IInv, Typed
  <2>7. d # None /\ snapshot' \in [Entries -> OrNone(Readings)]
    BY <1>2, <2>4, BookOK DEF IInv, Typed
  <2> HIDE DEF d, e
  <2> QED
    BY <1>1, <1>2, <2>1, <2>4, <2>5, <2>6, <2>7, UnloadedData, OneEntryChanges DEF OrNone, e
<1>4. CASE ~(e \in Present /\ ReconfigureMatches(data[e], flow.rep, flow.host))
  <2>1. data' = data /\ live' = live
    BY <1>4 DEF FinishReconfigure
  <2> QED  BY <1>2, <2>1, BookUntouched DEF IInv, Typed
<1> QED  BY <1>3, <1>4

\* A new entry is keyed by what was probed of its appliance, and has no rows.
LEMMA CreateEntryStep ==
    ASSUME IInv, NEW e \in Fresh, flow.step \in {"probed", "confirm"}, CreateEntry(e),
           UNCHANGED world
    PROVE  IInv'
<1> DEFINE gone(f) == f \in Present /\ data[f].uid = Created.uid
<1>1. /\ flow.host \in Names /\ flow.appliance \in Appliances /\ flow.rep \in Readings
      /\ flow # NoFlow
  BY BookOK DEF IInv, Typed, Flows, NoFlow
<1>2. /\ Created \in EntryData /\ Created.version = 4 /\ Created.serial # None
      /\ SeedKey(Created) = Created.uid
  <2>1. reports[flow.appliance].psk \in BOOLEAN
    BY <1>1 DEF IInv, Typed, Readings
  <2>2. /\ ResolveDeviceKey(flow.rep, flow.host) \in Names
        /\ ResolveSerial(flow.rep, flow.host) \in Names
        /\ ResolveMac(flow.rep) \in OrNone(Names)
        /\ ProvenOcfDeviceId(flow.rep) \in OrNone(Names)
    BY <1>1, ResolvedNames
  <2> QED  BY <1>1, <2>1, <2>2, BookOK DEF Created, EntryData, OrNone, SeedKey
<1>3. /\ data' = [f \in Entries |-> IF f = e THEN Created ELSE IF gone(f) THEN None ELSE data[f]]
      /\ rows' = [f \in Entries |-> IF f = e \/ gone(f) THEN {} ELSE rows[f]]
      /\ snapshot' = [f \in Entries |-> IF f = e \/ gone(f) THEN None ELSE snapshot[f]]
      /\ live' = [f \in Entries |-> IF f = e \/ gone(f) THEN Unloaded ELSE live[f]]
      /\ flow' = NoFlow
  BY DEF CreateEntry
<1>4. Created # None
  BY <1>2, BookOK
<1> HIDE DEF gone
<1>5. Typed'
  <2>1. data' \in [Entries -> OrNone(EntryData)]
    BY <1>2, <1>3 DEF IInv, Typed, OrNone
  <2>2. rows' \in [Entries -> SUBSET Names] /\ snapshot' \in [Entries -> OrNone(Readings)]
    BY <1>3 DEF IInv, Typed, OrNone
  <2>3. live' \in [Entries -> LiveData]
    BY <1>3, UnloadedData DEF IInv, Typed
  <2> QED  BY <1>3, <2>1, <2>2, <2>3 DEF IInv, Typed, world, Flows
<1>6. ASSUME NEW f \in Entries PROVE Tidy(f)'
  <2>1. CASE f = e
    <3>1. data'[f] = Created /\ rows'[f] = {} /\ live'[f] = Unloaded
      BY <1>3, <2>1
    <3> QED  BY <1>2, <3>1, UnloadedData DEF Tidy, UnderSeed
  <2>2. CASE f # e /\ gone(f)
    BY <1>3, <2>2 DEF Tidy
  <2>3. CASE f # e /\ ~gone(f)
    <3>1. data'[f] = data[f] /\ rows'[f] = rows[f] /\ live'[f] = live[f]
      BY <1>3, <2>3
    <3> QED  BY <3>1 DEF IInv, Tidy
  <2> QED  BY <2>1, <2>2, <2>3
<1>7. LoadedLate'
  <2> SUFFICES ASSUME NEW f \in Entries, live'[f].state \in Up \/ live'[f].read # None
               PROVE  Migrated(f)'
    BY DEF LoadedLate, Up
  <2>1. f # e /\ ~gone(f)
    BY <1>3, UnloadedData
  <2>2. data'[f] = data[f] /\ live'[f] = live[f]
    BY <1>3, <2>1
  <2> QED  BY <2>2 DEF IInv, LoadedLate, Migrated
<1> QED  BY <1>3, <1>5, <1>6, <1>7 DEF IInv, FlowsLate

-----------------------------------------------------------------------------
(* Every step keeps the invariant. *)

LEMMA StepKeeps == IInv /\ [Next]_vars => IInv'
<1> SUFFICES ASSUME IInv, [Next]_vars PROVE IInv'
  OBVIOUS
<1>1. ASSUME NEW a \in Appliances, HardReset(a) \/ Dhcp(a) PROVE IInv'
  BY <1>1, NetworkStep, DhcpStep
<1>2. ASSUME NEW a \in Appliances, NEW h \in Hosts, LeaseMoves(a, h) \/ FlowProbes(h, a)
      PROVE  IInv'
  BY <1>2, NetworkStep
<1>3. ASSUME NEW e \in Entries,
             MigrateEntry(e) \/ SetupEntry(e) \/ FirstRefreshFails(e)
               \/ ForwardEntrySetups(e) \/ Discover(e)
      PROVE  IInv'
  BY <1>3, MigrateStep, SetupEntryStep, FirstRefreshFailsStep, ForwardStep, DiscoverStep
<1>4. ASSUME NEW e \in Entries, NEW a \in Appliances, PollAnswers(e, a) \/ ReconfigureProbes(e, a)
      PROVE  IInv'
  BY <1>4, PollAnswersStep, NetworkStep
<1>5. CASE FinishProbe
  <2>1. CASE \E e \in Present : AwaitsItsDi(e) \/ data[e].uid = ResolveDeviceKey(flow.rep, flow.host)
    BY <1>5, <2>1, BookUntouched DEF FinishProbe, world, book, Flows, IInv, Typed
  <2>2. CASE flow.appliance \in Recognised /\ Fresh # {} /\ CreateEntry(CHOOSE e \in Fresh : TRUE)
    <3>1. (CHOOSE e \in Fresh : TRUE) \in Fresh
      BY <2>2
    <3> QED  BY <1>5, <2>2, <3>1, CreateEntryStep DEF FinishProbe
  <2>3. CASE /\ flow.appliance \notin Recognised
             /\ flow' = [flow EXCEPT !.step = "confirm"] /\ UNCHANGED book
    <3>1. flow' \in Flows /\ flow # NoFlow
      BY <1>5, <2>3 DEF FinishProbe, Flows, IInv, Typed, NoFlow
    <3> QED  BY <1>5, <2>3, <3>1, BookUntouched DEF FinishProbe, world, book, IInv, Typed, FlowsLate
  <2> QED  BY <1>5, <2>1, <2>2, <2>3 DEF FinishProbe
<1>6. CASE ConfirmUnknownType
  <2>1. (CHOOSE e \in Fresh : TRUE) \in Fresh
    BY <1>6 DEF ConfirmUnknownType
  <2> QED  BY <1>6, <2>1, CreateEntryStep DEF ConfirmUnknownType
<1>7. CASE FinishReconfigure
  BY <1>7, FinishReconfigureStep
<1>8. CASE Restart
  BY <1>8, RestartStep
<1>9. CASE UNCHANGED vars
  BY <1>9, BookUntouched DEF vars, IInv, Typed, FlowsLate
<1> QED  BY <1>1, <1>2, <1>3, <1>4, <1>5, <1>6, <1>7, <1>8, <1>9 DEF Next

\* Every part of the book keeps its type, for any names, and any number of
\* entries, appliances, moves and resets.
THEOREM TypeCorrect == Spec => []Typed
<1>1. IInv => Typed
  BY DEF IInv
<1> QED  BY <1>1, InitEstablishes, StepKeeps, PTL DEF Spec

\* The rows of an entry are always under the key its next start seeds, so
\* that no migration, re-key, refused poll or change of address orphans them.
THEOREM RowsStayUnderSeed == Spec => []RowsUnderSeed
<1>1. IInv => RowsUnderSeed
  BY DEF IInv, Tidy, UnderSeed, RowsUnderSeed, Present
<1> QED  BY <1>1, InitEstablishes, StepKeeps, PTL DEF Spec

-----------------------------------------------------------------------------
(* Whose an entry is.  What holds of the installation a behaviour starts   *)
(* from, its resets apart: what each appliance may have reported, and that *)
(* an entry has the serial of the appliance it is for, and a key of it.    *)

Seen(start, a) == {start.reports[a], [start.reports[a] EXCEPT !.di = NewDi[a]]}

SeenReports(start) ==
    /\ \A a \in Appliances : reports[a] \in Seen(start, a)
    /\ \A e \in Entries : live[e].read # None => live[e].read.rep \in Seen(start, live[e].read.from)

\* A reset since is all that tells a probe's report from the appliance's own
SeenFlow(start) ==
    flow # NoFlow =>
        /\ flow.rep \in Seen(start, flow.appliance)
        /\ flow.step \in {"probed", "confirm"} =>
             /\ flow.rep.psk => Usable(flow.rep.di)
             /\ flow.rep = reports[flow.appliance]
                  \/ reports[flow.appliance].di = NewDi[flow.appliance]

Owned(start, e) ==
    /\ own[e] \in Appliances
    /\ data[e] = None => rows[e] = {}
    /\ data[e] # None =>
         /\ data[e].host \in Hosts
         /\ IF data[e].version = 4
            THEN Claims(start, data[e], own[e])
            ELSE MigratedSerial(data[e]) \in Hosts
                  \/ /\ Usable(MigratedSerial(data[e]))
                     /\ MigratedSerial(data[e]) = start.reports[own[e]].serial

\* An entry of a pre-shared key has the di it was imported for, and is read
\* from no appliance that is known to have another
Bound(e) ==
    data[e] # None /\ data[e].psk =>
        /\ data[e].ocf # None
        /\ live[e].read # None =>
             Binding(data[e].ocf, ProvenOcfDeviceId(live[e].read.rep)) # "mismatched"

Kept(start) ==
    /\ SeenReports(start) /\ SeenFlow(start)
    /\ own \in [Entries -> Appliances]
    /\ \A e \in Entries : Owned(start, e) /\ Bound(e)

-----------------------------------------------------------------------------
(* What an identity says of the appliance. *)

LEMMA SeenReading ==
    ASSUME NEW start \in Starts, NEW b \in Appliances, NEW rep \in Seen(start, b)
    PROVE  /\ rep \in Readings
           /\ rep.serial = start.reports[b].serial
           /\ rep.psk = start.reports[b].psk
           /\ rep.pi = start.reports[b].pi
           /\ rep.di \in {start.reports[b].di, NewDi[b]}
<1>1. start.reports[b] \in Readings /\ NewDi[b] \in Names
  BY BookOK
<1> QED BY <1>1, ResetReading DEF Seen, Readings

\* Whatever is resolved from a report is an identity of the appliance, or the
\* address it answered at
LEMMA SeenIdentity ==
    ASSUME NEW start \in Starts, NEW b \in Appliances, NEW rep \in Seen(start, b), NEW host \in Hosts
    PROVE  /\ ResolveDeviceKey(rep, host) \in KnownBy(start, b) \cup {host}
           /\ ResolveSerial(rep, host) # host =>
                /\ ResolveDeviceKey(rep, host) \in KnownBy(start, b)
                /\ ResolveSerial(rep, host) = start.reports[b].serial
                /\ Usable(start.reports[b].serial)
           /\ ResolveSerial(rep, host) = host => ResolveSerial(rep, host) \in Hosts
<1>1. /\ rep.serial = start.reports[b].serial /\ rep.pi = start.reports[b].pi
      /\ rep.di \in {start.reports[b].di, NewDi[b]}
  BY SeenReading
<1>2. OcfDeviceKey(rep) # None => OcfDeviceKey(rep) \in KnownBy(start, b)
  BY <1>1 DEF OcfDeviceKey, KnownBy
<1>3. Usable(rep.serial) => rep.serial \in KnownBy(start, b)
  BY <1>1 DEF KnownBy
<1> QED BY <1>1, <1>2, <1>3 DEF ResolveDeviceKey, ResolveSerial

\* An entry that claims one appliance and is keyed by an identity of another
\* claims both: they have one serial
LEMMA SameUnit ==
    ASSUME NEW start \in Starts, NEW entry, NEW a \in Appliances, NEW b \in Appliances,
           Claims(start, entry, a), ~HostKeyed(entry), SeedKey(entry) \in KnownBy(start, b)
    PROVE  start.reports[b].serial = start.reports[a].serial
BY BookOK DEF Claims

LEMMA SeedNoHost ==
    ASSUME NEW start \in Starts, NEW entry, NEW a \in Appliances,
           Claims(start, entry, a), ~HostKeyed(entry)
    PROVE  SeedKey(entry) \notin Hosts
BY BookOK DEF Claims

LEMMA ClaimMoves ==
    ASSUME NEW start \in Starts, NEW entry, NEW a \in Appliances, NEW b \in Appliances,
           Claims(start, entry, a), ~HostKeyed(entry),
           start.reports[b].serial = start.reports[a].serial
    PROVE  Claims(start, entry, b)
BY DEF Claims

\* What is resolved of a live poll: the appliance that is adopted has the
\* serial the entry claims, and one that is not leaves the claim as it was.
LEMMA ResolvedClaim ==
    ASSUME NEW start \in Starts, NEW a \in Appliances, NEW b \in Appliances,
           NEW rep \in Seen(start, b), NEW entry \in EntryData, entry.serial # None,
           entry.host \in Hosts, Claims(start, entry, a),
           NEW d, d.key = ResolveIdentity(entry, rep).key,
           d.serial = ResolveIdentity(entry, rep).serial
    PROVE  IF ResolveDeviceKey(rep, entry.host) = ResolveIdentity(entry, rep).key
           THEN /\ HostKeyed(entry) \/ start.reports[b].serial = start.reports[a].serial
                /\ Claims(start, d, b)
           ELSE Claims(start, d, a)
<1> DEFINE host == entry.host
           r == ResolveIdentity(entry, rep)
           serial == ResolveSerial(rep, host)
           polled == ResolveDeviceKey(rep, host)
           current == SeedKey(entry)
           sameUnit == serial = entry.serial /\ serial # host
<1>1. r.key \in Names /\ r.key # None
  BY SeenReading, IdentityNamed, BookOK
<1>2. SeedKey(d) = r.key
  BY <1>1 DEF SeedKey
<1>3. /\ polled \in KnownBy(start, b) \cup {host}
      /\ serial # host => /\ polled \in KnownBy(start, b)
                          /\ serial = start.reports[b].serial /\ Usable(serial)
  BY SeenIdentity
<1>4. polled # current =>
        \/ r.key = current /\ r.serial = entry.serial
        \/ r.key = polled /\ r.serial = serial /\ (current = host \/ sameUnit)
  BY DEF ResolveIdentity, SeedKey
<1>5. polled = current => r.key = current /\ r.serial = serial
  BY DEF ResolveIdentity
<1> HIDE DEF r, serial, polled, current
<1>6. CASE r.key # polled
  <2>1. r.key = current /\ r.serial = entry.serial
    BY <1>4, <1>5, <1>6
  <2> QED BY <1>2, <1>6, <2>1 DEF Claims, HostKeyed, r, polled, current
<1>7. CASE r.key = polled
  <2>1. r.serial = serial
    BY <1>4, <1>5, <1>7
  <2>2. serial \in Hosts => Claims(start, d, b)
    BY <2>1 DEF Claims, HostKeyed, r
  <2>3. serial # host => Claims(start, d, b)
    BY <1>2, <1>3, <1>7, <2>1 DEF Claims, r
  <2>4. HostKeyed(entry) \/ start.reports[b].serial = start.reports[a].serial
    <3> SUFFICES ASSUME ~HostKeyed(entry)
                 PROVE  start.reports[b].serial = start.reports[a].serial
      OBVIOUS
    <3>1. current \notin Hosts
      BY SeedNoHost DEF current
    <3>2. CASE polled = current
      BY <1>3, <3>1, <3>2, SameUnit DEF current
    <3>3. CASE sameUnit
      BY <1>3, <3>3 DEF Claims
    <3> QED BY <1>4, <1>7, <3>1, <3>2, <3>3
  <2> QED BY <1>7, <2>2, <2>3, <2>4 DEF r, polled
<1> QED BY <1>6, <1>7

\* What the config flow lets an entry be moved to has the serial it claims.
LEMMA MatchedClaim ==
    ASSUME NEW start \in Starts, NEW a \in Appliances, NEW b \in Appliances, NEW host \in Hosts,
           NEW rep \in Seen(start, b), NEW entry, entry.serial # None,
           Claims(start, entry, a), IdentityMatches(entry, rep, host)
    PROVE  /\ HostKeyed(entry) \/ start.reports[b].serial = start.reports[a].serial
           /\ Claims(start, entry, b)
<1>1. /\ ResolveDeviceKey(rep, host) \in KnownBy(start, b) \cup {host}
      /\ ResolveSerial(rep, host) # host => ResolveSerial(rep, host) = start.reports[b].serial
  BY SeenIdentity
<1>2. CASE HostKeyed(entry)
  BY <1>2 DEF Claims
<1>3. CASE ~HostKeyed(entry)
  <2>1. CASE /\ ResolveDeviceKey(rep, host) # host
             /\ ResolveDeviceKey(rep, host) = SeedKey(entry)
    BY <1>1, <1>3, <2>1, SameUnit, ClaimMoves
  <2>2. CASE ResolveSerial(rep, host) = entry.serial /\ ResolveSerial(rep, host) # host
    <3>1. start.reports[b].serial = start.reports[a].serial
      BY <1>1, <1>3, <2>2 DEF Claims
    <3> QED BY <1>3, <3>1, ClaimMoves
  <2> QED BY <1>3, <2>1, <2>2 DEF IdentityMatches
<1> QED BY <1>2, <1>3

\* A migrated entry that was made with its appliance's serial claims it.
LEMMA MadeClaim ==
    ASSUME NEW start \in Starts, NEW a \in Appliances, NEW d,
           \/ d.serial \in Hosts
           \/ /\ Usable(d.serial) /\ d.serial = start.reports[a].serial
              /\ SeedKey(d) \in KnownBy(start, a)
    PROVE  Claims(start, d, a)
BY DEF Claims, HostKeyed

-----------------------------------------------------------------------------
(* The steps keep what each entry is for. *)

\* What RowsKeepTheirAppliance asks of a step
KeepTheirAppliance ==
    /\ \A e \in Entries :
        own'[e] # own[e] /\ rows[e] # {} =>
            HostKeyed(data[e]) \/ reports[own'[e]].serial = reports[own[e]].serial
    /\ \A e \in Present : data[e].psk /\ data'[e] # None => data'[e].ocf = data[e].ocf

LEMMA NoEntryChanges ==
    ASSUME UNCHANGED <<data, own>>
    PROVE  KeepTheirAppliance
BY DEF KeepTheirAppliance

LEMMA BookKept ==
    ASSUME NEW start \in Starts, Kept(start), UNCHANGED <<data, rows, own>>,
           SeenReports(start)', SeenFlow(start)',
           \A e \in Entries : live'[e].read \in {live[e].read, None}
    PROVE  Kept(start)'
<1>1. ASSUME NEW e \in Entries PROVE Owned(start, e)' /\ Bound(e)'
  BY DEF Kept, Owned, Bound
<1> QED BY <1>1 DEF Kept

\* A change of a migrated entry, or of one that is migrated now
LEMMA OneEntryKept ==
    ASSUME IInv, NEW start \in Starts, Kept(start), NEW e \in Entries, NEW d, NEW a \in Appliances,
           data[e] # None, d # None, d.version = 4, d.host \in Hosts, Claims(start, d, a),
           d.psk = data[e].psk, d.psk => d.ocf = data[e].ocf,
           data' = [data EXCEPT ![e] = d], own' = [own EXCEPT ![e] = a], reports' = reports,
           \A f \in Entries \ {e} : rows'[f] = rows[f],
           \A f \in Entries : live'[f].read \in {live[f].read, None},
           flow' \in {flow, NoFlow},
           a = own[e] \/ HostKeyed(data[e])
             \/ start.reports[a].serial = start.reports[own[e]].serial
    PROVE  Kept(start)' /\ KeepTheirAppliance
<1>1. data'[e] = d /\ own'[e] = a /\ own' \in [Entries -> Appliances]
  BY DEF IInv, Typed, Kept
<1>2. ASSUME NEW f \in Entries, f # e PROVE data'[f] = data[f] /\ own'[f] = own[f] /\ rows'[f] = rows[f]
  BY <1>2 DEF IInv, Typed, Kept
<1>3. SeenReports(start)' /\ SeenFlow(start)'
  BY DEF Kept, SeenReports, SeenFlow
<1>4. ASSUME NEW f \in Entries PROVE Owned(start, f)' /\ Bound(f)'
  <2>1. CASE f = e
    BY <1>1, <2>1 DEF Kept, Owned, Bound
  <2>2. CASE f # e
    BY <1>2, <2>2 DEF Kept, Owned, Bound
  <2> QED BY <2>1, <2>2
<1>5. ASSUME NEW f \in Entries, own'[f] # own[f]
      PROVE  HostKeyed(data[f]) \/ reports[own'[f]].serial = reports[own[f]].serial
  <2>1. f = e /\ own[e] \in Appliances
    BY <1>2, <1>5 DEF Kept
  <2>2. \A b \in Appliances : reports[b].serial = start.reports[b].serial
    BY SeenReading DEF Kept, SeenReports
  <2> QED BY <1>1, <1>5, <2>1, <2>2
<1>6. ASSUME NEW f \in Present, data[f].psk PROVE data'[f].ocf = data[f].ocf
  BY <1>1, <1>2, <1>6 DEF Present
<1> QED BY <1>1, <1>3, <1>4, <1>5, <1>6 DEF Kept, KeepTheirAppliance

LEMMA NetworkKeeps ==
    ASSUME IInv, NEW start \in Starts, Kept(start), NEW a \in Appliances
    PROVE  /\ HardReset(a) => Kept(start)'
           /\ \A h \in Hosts : LeaseMoves(a, h) => Kept(start)'
           /\ \A h \in Hosts : FlowProbes(h, a) => Kept(start)'
           /\ \A e \in Entries : ReconfigureProbes(e, a) => Kept(start)'
<1>1. ASSUME HardReset(a) PROVE Kept(start)'
  <2>1. reports' = [reports EXCEPT ![a].di = NewDi[a]] /\ UNCHANGED <<book, flow>>
    BY <1>1 DEF HardReset
  <2>2. reports \in [Appliances -> Readings] /\ start.reports \in [Appliances -> Readings]
    BY BookOK DEF IInv, Typed
  <2>3. reports'[a] = [reports[a] EXCEPT !.di = NewDi[a]] /\ reports'[a].di = NewDi[a]
    BY <2>1, <2>2 DEF Readings
  <2>4. reports'[a] \in Seen(start, a)
    <3>1. reports[a] \in Seen(start, a) /\ start.reports[a] \in Readings
      BY <2>2 DEF Kept, SeenReports
    <3>2. [[start.reports[a] EXCEPT !.di = NewDi[a]] EXCEPT !.di = NewDi[a]]
            = [start.reports[a] EXCEPT !.di = NewDi[a]]
      BY <3>1 DEF Readings
    <3> QED BY <2>3, <3>1, <3>2 DEF Seen
  <2>5. \A b \in Appliances \ {a} : reports'[b] = reports[b]
    BY <2>1, <2>2
  <2>6. SeenReports(start)'
    BY <2>1, <2>4, <2>5 DEF book, Kept, SeenReports
  <2>7. SeenFlow(start)'
    <3>1. flow # NoFlow => flow.appliance \in Appliances
      BY DEF IInv, Typed, Flows
    <3> QED BY <2>1, <2>3, <2>5, <3>1 DEF Kept, SeenFlow
  <2> QED BY <2>1, <2>6, <2>7, BookKept DEF book
<1>2. ASSUME NEW h \in Hosts, LeaseMoves(a, h) PROVE Kept(start)'
  BY <1>2, BookKept DEF LeaseMoves, book, Kept, SeenReports, SeenFlow
<1>3. ASSUME NEW h \in Hosts, FlowProbes(h, a) PROVE Kept(start)'
  BY <1>3, BookKept DEF FlowProbes, world, book, Kept, SeenReports, SeenFlow
<1>4. ASSUME NEW e \in Entries, ReconfigureProbes(e, a) PROVE Kept(start)'
  BY <1>4, BookKept DEF ReconfigureProbes, world, book, Kept, SeenReports, SeenFlow
<1> QED BY <1>1, <1>2, <1>3, <1>4

LEMMA LoadKeeps ==
    ASSUME IInv, NEW start \in Starts, Kept(start)
    PROVE  /\ \A e \in Entries : FirstRefreshFails(e) => Kept(start)'
           /\ \A e \in Entries, a \in Appliances : PollAnswers(e, a) => Kept(start)'
           /\ Restart => Kept(start)'
<1>1. ASSUME NEW e \in Entries, FirstRefreshFails(e) PROVE Kept(start)'
  <2>1. live' = [live EXCEPT ![e] = [Unloaded EXCEPT !.state = "retry"]]
        /\ UNCHANGED <<world, data, rows, own, flow>>
    BY <1>1 DEF FirstRefreshFails
  <2>2. \A f \in Entries : live'[f].read \in {live[f].read, None}
    BY <2>1 DEF Unloaded, IInv, Typed
  <2>3. SeenReports(start)' /\ SeenFlow(start)'
    BY <2>1 DEF Unloaded, IInv, Typed, world, Kept, SeenReports, SeenFlow
  <2> QED BY <2>1, <2>2, <2>3, BookKept
<1>2. ASSUME NEW e \in Entries, NEW a \in Appliances, PollAnswers(e, a) PROVE Kept(start)'
  <2>1. /\ live' = [live EXCEPT ![e].read = [from |-> a, rep |-> reports[a]]]
        /\ UNCHANGED <<world, data, rows, own, flow>>
        /\ CheckDeviceBinding(data[e], reports[a])
    BY <1>2 DEF PollAnswers
  <2>2. live \in [Entries -> LiveData]
    BY DEF IInv, Typed
  <2>3. live'[e].read = [from |-> a, rep |-> reports[a]]
    BY <2>1, <2>2 DEF LiveData
  <2>4. \A f \in Entries \ {e} : live'[f] = live[f]
    BY <2>1, <2>2
  <2>5. SeenReports(start)' /\ SeenFlow(start)'
    BY <2>1, <2>3, <2>4 DEF world, Kept, SeenReports, SeenFlow
  <2>6. ASSUME NEW f \in Entries PROVE Owned(start, f)' /\ Bound(f)'
    BY <2>1, <2>3, <2>4 DEF Kept, Owned, Bound, CheckDeviceBinding
  <2> QED BY <2>1, <2>5, <2>6 DEF Kept
<1>3. ASSUME Restart PROVE Kept(start)'
  BY <1>3, BookKept DEF Restart, Unloaded, world, Kept, SeenReports, SeenFlow
<1> QED BY <1>1, <1>2, <1>3

\* Only a present entry's rows are moved, or registered
LEMMA OnlyItsRows ==
    ASSUME Typed, NEW e \in Entries, NEW old, NEW new, RekeyEntry(e, old, new)
    PROVE  \A f \in Entries \ {e} : rows'[f] = rows[f]
BY DEF RekeyEntry, Typed

LEMMA ForwardKeeps ==
    ASSUME IInv, NEW start \in Starts, Kept(start), NEW e \in Entries, ForwardEntrySetups(e)
    PROVE  Kept(start)'
<1>1. /\ live' = [live EXCEPT ![e].state = "loaded"]
      /\ \A f \in Entries \ {e} : rows'[f] = rows[f]
      /\ UNCHANGED <<world, data, own, flow>>
  BY DEF ForwardEntrySetups, IInv, Typed
<1>2. data[e] # None
  BY DEF ForwardEntrySetups, IInv, LoadedLate, Migrated, Up
<1>3. \A f \in Entries : live'[f].read = live[f].read
  BY <1>1 DEF IInv, Typed, LiveData
<1>4. SeenReports(start)' /\ SeenFlow(start)'
  <2>1. \A f \in Entries : live'[f].read # None => live'[f].read.rep \in Seen(start, live'[f].read.from)
    BY <1>3 DEF Kept, SeenReports
  <2> QED BY <1>1, <2>1 DEF world, Kept, SeenReports, SeenFlow
<1>5. ASSUME NEW f \in Entries PROVE Owned(start, f)' /\ Bound(f)'
  BY <1>1, <1>2, <1>3 DEF Kept, Owned, Bound
<1> QED BY <1>1, <1>4, <1>5 DEF Kept

LEMMA MigrateKeeps ==
    ASSUME IInv, NEW start \in Starts, Kept(start), NEW e \in Entries, MigrateEntry(e)
    PROVE  Kept(start)' /\ KeepTheirAppliance
<1> DEFINE s == MigratedSerial(data[e])
           d == [data[e] EXCEPT !.serial = s, !.version = 4,
                                !.uid = IF data[e].version = 1 THEN s ELSE @]
           a == own[e]
<1>1. data[e] \in EntryData /\ data[e].version # 4 /\ data[e] # None
  BY DEF MigrateEntry, Present, IInv, Typed, OrNone
<1>2. /\ d.serial = s /\ d.key = None /\ d.version = 4 /\ d.host = data[e].host
      /\ d.psk = data[e].psk /\ d.ocf = data[e].ocf
  <2>1. data[e].key = None
    BY <1>1 DEF IInv, Tidy, Unmigrated
  <2> QED BY <1>1, <2>1 DEF EntryData
<1>3. s # None
  BY <1>1, SerialNamed, BookOK
<1>4. /\ data' = [data EXCEPT ![e] = d] /\ own' = [own EXCEPT ![e] = a]
      /\ live' = live /\ flow' = flow /\ reports' = reports
  BY DEF MigrateEntry, world, IInv, Typed, Kept
<1>5. \A f \in Entries \ {e} : rows'[f] = rows[f]
  BY OnlyItsRows DEF MigrateEntry, IInv
<1>6. a \in Appliances /\ data[e].host \in Hosts
      /\ (s \in Hosts \/ (Usable(s) /\ s = start.reports[a].serial))
  BY <1>1 DEF Kept, Owned
<1> HIDE DEF d, s, a
<1>7. SeedKey(d) = s
  BY <1>2, <1>3 DEF SeedKey
<1>8. Claims(start, d, a)
  <2>1. s \notin Hosts => s \in KnownBy(start, a)
    BY <1>6 DEF KnownBy
  <2> QED BY <1>2, <1>6, <1>7, <2>1, MadeClaim
<1>9. d # None
  <2>1. d \in EntryData
    BY <1>1, SerialNamed, MigratedData DEF d, s, EntryData, OrNone
  <2> QED BY <2>1, BookOK
<1> QED BY <1>1, <1>2, <1>4, <1>5, <1>6, <1>8, <1>9, OneEntryKept DEF a

LEMMA SetupKeeps ==
    ASSUME IInv, NEW start \in Starts, Kept(start), NEW e \in Entries, SetupEntry(e)
    PROVE  Kept(start)' /\ KeepTheirAppliance
<1> DEFINE rep == snapshot[e]
           serial == IF data[e].serial # None THEN data[e].serial
                     ELSE ResolveSerial(rep, data[e].host)
           mac == IF ResolveMac(rep) # None THEN ResolveMac(rep) ELSE data[e].mac
           d == IF rep = None THEN data[e] ELSE [data[e] EXCEPT !.serial = serial, !.mac = mac]
           a == own[e]
<1>1. data[e] \in EntryData /\ data[e].version = 4 /\ data[e] # None /\ data[e].serial # None
  BY DEF SetupEntry, Present, IInv, Typed, OrNone, Tidy, UnderSeed
<1>2. /\ d.version = 4 /\ d.serial = data[e].serial /\ d.key = data[e].key
      /\ d.host = data[e].host /\ d.psk = data[e].psk /\ d.ocf = data[e].ocf
  <2>1. CASE rep = None
    BY <1>1, <2>1
  <2>2. CASE rep # None
    <3>1. serial = data[e].serial
      BY <1>1
    <3> HIDE DEF serial, mac
    <3> QED BY <1>1, <2>2, <3>1 DEF EntryData
  <2> QED BY <2>1, <2>2
<1>3. data' = [data EXCEPT ![e] = d] /\ own' = [own EXCEPT ![e] = a]
  BY DEF SetupEntry, IInv, Typed, Kept
<1>4. \A f \in Entries : live'[f].read = live[f].read
  BY DEF SetupEntry, IInv, Typed, LiveData
<1>5. rows' = rows /\ flow' = flow /\ reports' = reports
  BY DEF SetupEntry, world
<1>6. a \in Appliances /\ data[e].host \in Hosts /\ Claims(start, data[e], a)
  BY <1>1 DEF Kept, Owned
<1>7. d # None
  <2>1. d.serial # None /\ (rep = None => d = data[e])
    BY <1>1, <1>2
  <2>2. CASE rep # None
    <3>1. rep \in Readings /\ data[e].host \in Names /\ data[e].mac \in OrNone(Names)
      BY <1>1, <2>2 DEF IInv, Typed, OrNone, EntryData
    <3>2. mac \in OrNone(Names) /\ serial = data[e].serial /\ serial \in OrNone(Names)
      BY <1>1, <3>1, ResolvedNames DEF EntryData
    <3>3. d \in EntryData
      <4> HIDE DEF serial, mac
      <4> QED BY <1>1, <2>2, <3>2 DEF EntryData
    <3> QED BY <3>3, BookOK
  <2> QED BY <1>1, <2>1, <2>2
<1> HIDE DEF d, a
<1>8. Claims(start, d, a)
  BY <1>2, <1>6 DEF Claims, HostKeyed, SeedKey
<1> QED BY <1>1, <1>2, <1>3, <1>4, <1>5, <1>6, <1>7, <1>8, OneEntryKept DEF a

LEMMA DhcpKeeps ==
    ASSUME IInv, NEW start \in Starts, Kept(start), NEW a \in Appliances, Dhcp(a)
    PROVE  Kept(start)' /\ KeepTheirAppliance
<1>1. PICK e \in Present :
        /\ data' = [data EXCEPT ![e].host = at[a], ![e].title = FollowedTitle(data[e], at[a])]
        /\ live' = [live EXCEPT ![e] = IF @.state \in {"retry", "loaded"} THEN Unloaded ELSE @]
  BY DEF Dhcp
<1> DEFINE d == [data[e] EXCEPT !.host = at[a], !.title = FollowedTitle(data[e], at[a])]
           owner == own[e]
<1>2. e \in Entries /\ data[e] \in EntryData /\ data[e].version = 4 /\ data[e] # None
  BY DEF Dhcp, AllMigrated, Present, IInv, Typed, OrNone
<1>3. at[a] \in Hosts
  BY DEF Dhcp, IInv, Typed, OrNone
<1>4. /\ d.version = 4 /\ d.serial = data[e].serial /\ d.key = data[e].key
      /\ d.host = at[a] /\ d.psk = data[e].psk /\ d.ocf = data[e].ocf
  BY <1>2 DEF EntryData
<1>5. d # None
  <2>1. d \in EntryData
    <3>1. at[a] \in Names
      BY <1>3, BookOK
    <3>2. data[e].mac \in OrNone(Names)
      BY <1>2 DEF EntryData
    <3>3. d = [data[e] EXCEPT !.host = at[a], !.mac = data[e].mac,
                              !.title = FollowedTitle(data[e], at[a])]
      BY <1>2 DEF EntryData
    <3>4. FollowedTitle(data[e], at[a]) \in Names
      BY <1>2, <3>1, FollowedTitleNamed
    <3>5. [data[e] EXCEPT !.host = at[a], !.mac = data[e].mac,
                          !.title = FollowedTitle(data[e], at[a])] \in EntryData
      BY <1>2, <3>1, <3>2, <3>4, MovedData
    <3> HIDE DEF d
    <3> QED BY <3>3, <3>5
  <2> QED BY <2>1, BookOK
<1>6. data' = [data EXCEPT ![e] = d] /\ own' = [own EXCEPT ![e] = owner]
  BY <1>1, <1>2 DEF Dhcp, IInv, Typed, Kept
<1>7. \A f \in Entries : live'[f].read \in {live[f].read, None}
  BY <1>1, UnloadedData DEF IInv, Typed
<1>8. rows' = rows /\ flow' = flow /\ reports' = reports
  BY DEF Dhcp, world
<1>9. owner \in Appliances /\ Claims(start, data[e], owner) /\ data[e].serial # None
  BY <1>2 DEF Kept, Owned, IInv, Tidy, UnderSeed
<1> HIDE DEF d, owner
<1>10. Claims(start, d, owner)
  BY <1>4, <1>9 DEF Claims, HostKeyed, SeedKey
<1> QED BY <1>2, <1>3, <1>4, <1>5, <1>6, <1>7, <1>8, <1>9, <1>10, OneEntryKept DEF owner

LEMMA DiscoverKeeps ==
    ASSUME IInv, NEW start \in Starts, Kept(start), NEW e \in Entries, Discover(e)
    PROVE  Kept(start)' /\ KeepTheirAppliance
<1> DEFINE rep      == live[e].read.rep
           from     == live[e].read.from
           entry    == data[e]
           resolved == ResolveIdentity(entry, rep)
           adopted  == ResolveDeviceKey(rep, entry.host) = resolved.key
           mac      == IF adopted THEN ResolveMac(rep) ELSE None
           proven   == IF ProvenOcfDeviceId(rep) = resolved.key THEN resolved.key ELSE None
           uid      == IF resolved.key # SeedKey(entry) THEN resolved.key ELSE entry.uid
           d        == PersistIdentity([entry EXCEPT !.uid = uid], resolved, mac, proven)
           a        == IF adopted THEN from ELSE own[e]
<1>1. live[e].read # None /\ rep \in Readings /\ from \in Appliances /\ rep \in Seen(start, from)
  BY DEF Discover, IInv, Typed, LiveData, OrNone, Kept, SeenReports
<1>2. entry \in EntryData /\ entry.version = 4 /\ entry # None /\ UnderSeed(entry, rows[e])
  BY <1>1 DEF IInv, Typed, OrNone, LoadedLate, Migrated, Tidy
<1>3. entry.host \in Hosts /\ Claims(start, entry, own[e]) /\ own[e] \in Appliances
  BY <1>2 DEF Kept, Owned
<1>4. resolved.key \in Names
  BY <1>1, <1>2, IdentityNamed DEF UnderSeed
<1>5. mac \in OrNone(Names) /\ proven \in OrNone(Names)
  <2>1. entry.host \in Names
    BY <1>2 DEF EntryData
  <2> QED BY <1>1, <1>4, <2>1, ResolvedNames DEF OrNone
<1>6. /\ d \in EntryData /\ d.version = 4
      /\ d.key = resolved.key /\ d.serial = resolved.serial
      /\ d.host = entry.host /\ d.psk = entry.psk
      /\ d.ocf = IF proven # None THEN proven ELSE entry.ocf
  <2> HIDE DEF mac, proven, entry, rep
  <2> QED BY <1>1, <1>2, <1>5, PersistedData DEF UnderSeed
<1>7. d.psk => d.ocf = entry.ocf
  <2>1. entry.psk => entry.ocf # None /\ Binding(entry.ocf, ProvenOcfDeviceId(rep)) # "mismatched"
    BY <1>1, <1>2 DEF Kept, Bound
  <2>2. proven # None => ProvenOcfDeviceId(rep) = proven
    OBVIOUS
  <2> HIDE DEF d, proven, entry, rep
  <2> QED BY <1>6, <2>1, <2>2 DEF Binding
<1>8. /\ IF adopted
         THEN /\ HostKeyed(entry) \/ start.reports[from].serial = start.reports[own[e]].serial
              /\ Claims(start, d, from)
         ELSE Claims(start, d, own[e])
  <2> HIDE DEF d, entry, rep, from
  <2> QED BY <1>1, <1>2, <1>3, <1>6, ResolvedClaim DEF UnderSeed
<1>9. data' = [data EXCEPT ![e] = d] /\ own' = [own EXCEPT ![e] = a]
  BY DEF Discover, Kept
<1>10. \A f \in Entries : live'[f].read \in {live[f].read, None}
  <2>1. live' = [live EXCEPT ![e] = [live[e] EXCEPT !.discovered = TRUE, !.read = None,
                                                     !.key = resolved.key]]
    BY DEF Discover, IInv, Typed
  <2>2. live'[e].read = None
    BY <2>1 DEF IInv, Typed, LiveData
  <2> QED BY <2>1, <2>2 DEF IInv, Typed
<1>11. \A f \in Entries \ {e} : rows'[f] = rows[f]
  BY OnlyItsRows DEF Discover, IInv
<1>12. reports' = reports /\ flow' = flow
  BY DEF Discover, world
<1>13. d # None /\ d.host \in Hosts
  BY <1>3, <1>6, BookOK
<1>14. Claims(start, d, a) /\ a \in Appliances
       /\ (a = own[e] \/ HostKeyed(entry) \/ start.reports[a].serial = start.reports[own[e]].serial)
  <2> HIDE DEF d, adopted, from
  <2> QED BY <1>1, <1>3, <1>8
<1> HIDE DEF d, a, rep, from, resolved, adopted
<1> QED BY <1>2, <1>6, <1>7, <1>9, <1>10, <1>11, <1>12, <1>13, <1>14, OneEntryKept

LEMMA ReconfigureKeeps ==
    ASSUME IInv, NEW start \in Starts, Kept(start), FinishReconfigure
    PROVE  Kept(start)' /\ KeepTheirAppliance
<1> DEFINE e   == flow.entry
           a   == flow.appliance
           mac == IF ResolveMac(flow.rep) # None THEN ResolveMac(flow.rep) ELSE data[e].mac
           d   == [data[e] EXCEPT !.host = flow.host, !.mac = mac,
                                  !.title = FollowedTitle(data[e], flow.host)]
<1>1. e \in Entries /\ a \in Appliances /\ flow.host \in Hosts /\ flow.rep \in Readings
      /\ flow # NoFlow
  BY DEF FinishReconfigure, IInv, Typed, Flows, NoFlow
<1>2. /\ reports' = reports /\ flow' = NoFlow /\ rows' = rows
  BY DEF FinishReconfigure, world
<1>3. CASE e \in Present /\ ReconfigureMatches(data[e], flow.rep, flow.host)
  <2>1. data[e] \in EntryData /\ data[e].version = 4 /\ data[e] # None /\ data[e].serial # None
    BY <1>1, <1>3 DEF Present, IInv, Typed, OrNone, FlowsLate, AllMigrated, Tidy, UnderSeed
  <2>2. /\ d.version = 4 /\ d.key = data[e].key /\ d.serial = data[e].serial
        /\ d.host = flow.host /\ d.psk = data[e].psk /\ d.ocf = data[e].ocf
    BY <2>1 DEF EntryData
  <2>3. d # None
    <3>1. flow.host \in Names /\ FollowedTitle(data[e], flow.host) \in Names /\ mac \in OrNone(Names)
      <4>1. flow.host \in Names /\ data[e].mac \in OrNone(Names)
        BY <1>1, <2>1, BookOK DEF EntryData
      <4> QED BY <1>1, <2>1, <4>1, ResolvedNames, FollowedTitleNamed
    <3>2. d \in EntryData
      <4> HIDE DEF mac, e
      <4> QED BY <2>1, <3>1, MovedData
    <3> QED BY <3>2, BookOK
  <2>4. Claims(start, data[e], own[e]) /\ own[e] \in Appliances /\ flow.rep \in Seen(start, a)
    BY <1>1, <2>1 DEF Kept, Owned, SeenFlow
  <2>5. /\ HostKeyed(data[e]) \/ start.reports[a].serial = start.reports[own[e]].serial
        /\ Claims(start, data[e], a)
    <3>1. IdentityMatches(data[e], flow.rep, flow.host)
      BY <1>3 DEF ReconfigureMatches
    <3> HIDE DEF a, e
    <3> QED BY <1>1, <2>1, <2>4, <3>1, MatchedClaim
  <2>6. /\ data' = [data EXCEPT ![e] = d] /\ live' = [live EXCEPT ![e] = Unloaded]
        /\ own' = [own EXCEPT ![e] = a]
    BY <1>3 DEF FinishReconfigure
  <2>7. \A f \in Entries : live'[f].read \in {live[f].read, None}
    BY <2>6, UnloadedData DEF IInv, Typed
  <2> HIDE DEF d, e, a
  <2>8. Claims(start, d, a)
    BY <2>1, <2>2, <2>5 DEF Claims, HostKeyed, SeedKey
  <2> QED BY <1>1, <1>2, <2>1, <2>2, <2>3, <2>5, <2>6, <2>7, <2>8, OneEntryKept
<1>4. CASE ~(e \in Present /\ ReconfigureMatches(data[e], flow.rep, flow.host))
  <2>1. data' = data /\ live' = live /\ own' = own
    BY <1>4 DEF FinishReconfigure
  <2>2. SeenReports(start)' /\ SeenFlow(start)'
    BY <1>2, <2>1 DEF Kept, SeenReports, SeenFlow
  <2> QED BY <1>2, <2>1, <2>2, BookKept, NoEntryChanges
<1> QED BY <1>3, <1>4

\* What AddedOnce asks of a step
AddsOnce ==
    \A e, f \in Entries :
        data[e] = None /\ data'[e] # None /\ data[f] # None /\ data'[f] # None /\ own[f] = own'[e] =>
            \/ reports[own[f]].di = NewDi[own[f]]
            \/ HostKeyed(data[f])
            \/ ~(\/ data[f].key = OcfDeviceKey(reports[own[f]])
                 \/ flow.step = "probed" /\ data[f].key = None /\ data[f].host = data'[e].host)

LEMMA NoneAdded ==
    ASSUME \A e \in Entries : data[e] = None => data'[e] = None
    PROVE  AddsOnce
BY DEF AddsOnce

\* A new entry claims the appliance that was probed for it.  Another entry of
\* that appliance that knows its identity has the same unique id, and gives
\* way; one that awaits it at that address ended the probe.
LEMMA CreateKeeps ==
    ASSUME IInv, NEW start \in Starts, Kept(start), NEW e \in Fresh,
           flow.step \in {"probed", "confirm"}, CreateEntry(e), UNCHANGED world,
           flow.step = "probed" => ~ \E f \in Present : AwaitsItsDi(f)
    PROVE  Kept(start)' /\ KeepTheirAppliance /\ AddsOnce
<1> DEFINE gone(f) == f \in Present /\ data[f].uid = Created.uid
           a == flow.appliance
           rep == flow.rep
           host == flow.host
<1>1. host \in Hosts /\ host \in Names /\ a \in Appliances /\ rep \in Readings /\ flow # NoFlow
  BY BookOK DEF IInv, Typed, Flows, NoFlow
<1>2. /\ data' = [f \in Entries |-> IF f = e THEN Created ELSE IF gone(f) THEN None ELSE data[f]]
      /\ rows' = [f \in Entries |-> IF f = e \/ gone(f) THEN {} ELSE rows[f]]
      /\ live' = [f \in Entries |-> IF f = e \/ gone(f) THEN Unloaded ELSE live[f]]
      /\ own' = [own EXCEPT ![e] = a]
      /\ flow' = NoFlow /\ reports' = reports
  BY DEF CreateEntry, world
<1>3. rep \in Seen(start, a) /\ (rep.psk => Usable(rep.di))
      /\ (rep = reports[a] \/ reports[a].di = NewDi[a])
  BY <1>1 DEF Kept, SeenFlow
<1>4. e \in Entries /\ data[e] = None /\ rows[e] = {}
  BY DEF Fresh, Present, Kept, Owned
<1>5. /\ Created.host = host /\ Created.version = 4
      /\ Created.serial = ResolveSerial(rep, host)
      /\ Created.key = ResolveDeviceKey(rep, host) /\ Created.uid = ResolveDeviceKey(rep, host)
      /\ Created.psk = reports[a].psk /\ Created.ocf = ProvenOcfDeviceId(rep)
  BY DEF Created
<1>6. Created.key \in Names /\ Created.key # None /\ SeedKey(Created) = Created.key
  BY <1>1, <1>5, ResolvedNames, BookOK DEF SeedKey
<1>7. Created # None
  <2>1. ResolveMac(rep) \in OrNone(Names) /\ ProvenOcfDeviceId(rep) \in OrNone(Names)
        /\ ResolveSerial(rep, host) \in Names
    BY <1>1, ResolvedNames
  <2>2. reports[a].psk \in BOOLEAN
    BY <1>1 DEF IInv, Typed, Readings
  <2>3. Created \in EntryData
    BY <1>1, <1>5, <1>6, <2>1, <2>2 DEF Created, EntryData, OrNone
  <2> QED BY <2>3, BookOK
<1>8. Claims(start, Created, a)
  <2>1. /\ ResolveSerial(rep, host) # host =>
             /\ ResolveDeviceKey(rep, host) \in KnownBy(start, a)
             /\ ResolveSerial(rep, host) = start.reports[a].serial
             /\ Usable(start.reports[a].serial)
        /\ ResolveSerial(rep, host) = host => ResolveSerial(rep, host) \in Hosts
    BY <1>1, <1>3, SeenIdentity
  <2> HIDE DEF a, rep, host
  <2> QED BY <1>1, <1>5, <1>6, <2>1, MadeClaim
<1>9. Created.psk => Created.ocf # None
  <2>1. reports[a].psk = rep.psk
    BY <1>1, <1>3, SeenReading DEF Kept, SeenReports
  <2> QED BY <1>3, <1>5, <2>1 DEF ProvenOcfDeviceId, Usable
<1> HIDE DEF gone, a, rep, host
<1>10. SeenReports(start)' /\ SeenFlow(start)'
  BY <1>2, UnloadedData DEF Kept, SeenReports, SeenFlow
<1>11. ASSUME NEW f \in Entries PROVE Owned(start, f)' /\ Bound(f)'
  <2>1. CASE f = e
    <3>1. data'[f] = Created /\ rows'[f] = {} /\ live'[f] = Unloaded /\ own'[f] = a
      BY <1>2, <1>4, <2>1 DEF Kept
    <3> QED BY <1>1, <1>5, <1>7, <1>8, <1>9, <3>1, UnloadedData DEF Owned, Bound
  <2>2. CASE f # e /\ gone(f)
    <3>1. data'[f] = None /\ rows'[f] = {} /\ own'[f] = own[f]
      BY <1>2, <2>2 DEF Kept
    <3> QED BY <3>1 DEF Kept, Owned, Bound
  <2>3. CASE f # e /\ ~gone(f)
    <3>1. data'[f] = data[f] /\ rows'[f] = rows[f] /\ own'[f] = own[f] /\ live'[f] = live[f]
      BY <1>2, <2>3 DEF Kept
    <3> QED BY <3>1 DEF Kept, Owned, Bound
  <2> QED BY <2>1, <2>2, <2>3
<1>12. own' \in [Entries -> Appliances]
  BY <1>1, <1>2 DEF Kept
<1>13. KeepTheirAppliance
  <2>1. ASSUME NEW f \in Entries, own'[f] # own[f] PROVE rows[f] = {}
    BY <1>2, <1>4, <2>1 DEF Kept
  <2>2. ASSUME NEW f \in Present, data'[f] # None PROVE data'[f] = data[f]
    BY <1>2, <1>4, <2>2 DEF Present
  <2> QED BY <2>1, <2>2 DEF KeepTheirAppliance
<1>14. AddsOnce
  <2> SUFFICES ASSUME NEW f \in Entries, data[f] # None, data'[f] # None, own[f] = a,
                      reports[a].di # NewDi[a], ~HostKeyed(data[f]),
                      \/ data[f].key = OcfDeviceKey(reports[a])
                      \/ flow.step = "probed" /\ data[f].key = None /\ data[f].host = host
               PROVE  FALSE
    <3>1. ASSUME NEW g \in Entries, data[g] = None, data'[g] # None PROVE g = e
      BY <1>2, <3>1
    <3>2. data'[e].host = host /\ own'[e] = a
      BY <1>2, <1>4, <1>5 DEF Kept
    <3> QED BY <3>1, <3>2 DEF AddsOnce
  <2>1. rep = reports[a]
    BY <1>3
  <2>2. data[f].uid # ResolveDeviceKey(rep, host)
    <3>1. f # e /\ ~gone(f)
      BY <1>2, <1>4
    <3> QED BY <1>5, <3>1 DEF gone, Present
  <2>3. data[f].version = 4 /\ data[f].uid = SeedKey(data[f]) /\ data[f].serial # None
    BY <1>1 DEF IInv, FlowsLate, AllMigrated, Present, Tidy, UnderSeed
  <2>4. Usable(data[f].serial) /\ data[f].serial = rep.serial
    <3>1. Claims(start, data[f], a)
      BY <2>3 DEF Kept, Owned
    <3> QED BY <1>1, <1>3, <3>1, SeenReading DEF Claims
  <2>5. ResolveSerial(rep, host) = data[f].serial
    BY <2>4 DEF ResolveSerial
  <2>6. data[f].key # None
    <3> SUFFICES ASSUME data[f].key = None PROVE FALSE
      OBVIOUS
    <3>1. data[f].uid = ResolveSerial(rep, host)
      BY <2>3, <2>5 DEF SeedKey
    <3>2. OcfDeviceKey(rep) # None
      BY <2>2, <3>1 DEF ResolveDeviceKey
    <3>3. flow.step = "probed" /\ data[f].host = host
      BY <2>1, <3>2
    <3> QED BY <3>1, <3>3 DEF AwaitsItsDi, Present, rep, host
  <2>7. data[f].uid = OcfDeviceKey(rep) /\ OcfDeviceKey(rep) # None
    BY <2>1, <2>3, <2>6 DEF SeedKey
  <2> QED BY <2>2, <2>7 DEF ResolveDeviceKey
<1> QED BY <1>10, <1>11, <1>12, <1>13, <1>14 DEF Kept

-----------------------------------------------------------------------------
(* Every step keeps both invariants. *)

LEMMA InitKept == Init => \E start \in Starts : Kept(start)
<1> SUFFICES ASSUME Init PROVE \E start \in Starts : Kept(start)
  OBVIOUS
<1>1. PICK start \in Starts :
        /\ reports = start.reports /\ data = start.data /\ rows = start.rows
        /\ own = start.own
  BY DEF Init
<1>2. live = [e \in Entries |-> Unloaded] /\ flow = NoFlow
  BY DEF Init
<1>3. SeenReports(start) /\ SeenFlow(start)
  BY <1>1, <1>2 DEF SeenReports, SeenFlow, Seen, Unloaded
<1>4. ASSUME NEW e \in Entries PROVE Owned(start, e) /\ Bound(e)
  <2>1. live[e].read = None
    BY <1>2 DEF Unloaded
  <2>2. own[e] \in Appliances
    BY <1>1, BookOK
  <2>3. IF data[e] = None
        THEN rows[e] = {}
        ELSE /\ data[e].host \in Hosts
             /\ data[e].psk => data[e].ocf # None
             /\ IF data[e].version = 4
                THEN UnderSeed(data[e], rows[e]) /\ Claims(start, data[e], own[e])
                ELSE /\ Unmigrated(data[e], rows[e])
                     /\ MigratedSerial(data[e]) \in Hosts
                          \/ /\ Usable(MigratedSerial(data[e]))
                             /\ MigratedSerial(data[e]) = start.reports[own[e]].serial
    BY <1>1, BookOK
  <2> QED  BY <2>1, <2>2, <2>3 DEF Owned, Bound
<1>5. own \in [Entries -> Appliances]
  BY <1>1, BookOK
<1> QED  BY <1>3, <1>4, <1>5 DEF Kept

\* An entry is added by the end of a probe, and by nothing else
LEMMA OthersAddNone ==
    ASSUME IInv, NEW e \in Entries,
           \/ MigrateEntry(e) \/ SetupEntry(e) \/ FirstRefreshFails(e)
           \/ ForwardEntrySetups(e) \/ Discover(e)
    PROVE  AddsOnce
<1>1. data[e] # None \/ data' = data
  <2>1. CASE Discover(e)
    BY <2>1 DEF Discover, IInv, LoadedLate, Migrated
  <2>2. CASE MigrateEntry(e) \/ SetupEntry(e)
    BY <2>2 DEF MigrateEntry, SetupEntry, Present
  <2>3. CASE FirstRefreshFails(e) \/ ForwardEntrySetups(e)
    BY <2>3 DEF FirstRefreshFails, ForwardEntrySetups
  <2> QED  BY <2>1, <2>2, <2>3
<1>2. ASSUME NEW f \in Entries, f # e PROVE data'[f] = data[f]
  BY <1>2 DEF MigrateEntry, SetupEntry, FirstRefreshFails, ForwardEntrySetups, Discover, IInv, Typed
<1> QED  BY <1>1, <1>2, NoneAdded

LEMMA ProbeEnds ==
    ASSUME IInv, NEW start \in Starts, Kept(start), FinishProbe
    PROVE  Kept(start)' /\ KeepTheirAppliance /\ AddsOnce
<1>1. UNCHANGED world /\ flow.step = "probed" /\ flow # NoFlow
  BY DEF FinishProbe, NoFlow
<1>2. CASE /\ ~ \E e \in Present : AwaitsItsDi(e)
           /\ Fresh # {} /\ CreateEntry(CHOOSE e \in Fresh : TRUE)
  <2>1. (CHOOSE e \in Fresh : TRUE) \in Fresh
    BY <1>2
  <2> QED  BY <1>1, <1>2, <2>1, CreateKeeps
<1>3. CASE UNCHANGED book /\ flow' \in {NoFlow, [flow EXCEPT !.step = "confirm"]}
  <2>1. SeenReports(start)'
    BY <1>1, <1>3 DEF world, book, Kept, SeenReports
  <2>2. SeenFlow(start)'
    <3>1. CASE flow' = NoFlow
      BY <3>1 DEF SeenFlow
    <3>2. CASE flow' = [flow EXCEPT !.step = "confirm"]
      <4>1. /\ flow'.rep = flow.rep /\ flow'.appliance = flow.appliance
            /\ flow'.step = "confirm" /\ reports' = reports
        BY <1>1, <3>2 DEF IInv, Typed, Flows, NoFlow, world
      <4> QED  BY <1>1, <4>1 DEF Kept, SeenFlow
    <3> QED  BY <1>3, <3>1, <3>2
  <2> QED  BY <1>3, <2>1, <2>2, BookKept, NoEntryChanges, NoneAdded DEF book
<1> QED  BY <1>2, <1>3 DEF FinishProbe

LEMMA EveryStepKeeps ==
    ASSUME IInv, NEW start \in Starts, Kept(start), [Next]_vars
    PROVE  Kept(start)' /\ KeepTheirAppliance /\ AddsOnce
<1>1. ASSUME NEW a \in Appliances, HardReset(a)
      PROVE  Kept(start)' /\ KeepTheirAppliance /\ AddsOnce
  BY <1>1, NetworkKeeps, NoEntryChanges, NoneAdded DEF HardReset, book
<1>2. ASSUME NEW a \in Appliances, NEW h \in Hosts, LeaseMoves(a, h) \/ FlowProbes(h, a)
      PROVE  Kept(start)' /\ KeepTheirAppliance /\ AddsOnce
  BY <1>2, NetworkKeeps, NoEntryChanges, NoneAdded DEF LeaseMoves, FlowProbes, book
<1>3. ASSUME NEW a \in Appliances, Dhcp(a)
      PROVE  Kept(start)' /\ KeepTheirAppliance /\ AddsOnce
  <2>1. \A f \in Entries : data[f] = None => data'[f] = None
    BY <1>3 DEF Dhcp, Present, IInv, Typed
  <2> QED  BY <1>3, <2>1, DhcpKeeps, NoneAdded
<1>4. ASSUME NEW e \in Entries, MigrateEntry(e) \/ SetupEntry(e) \/ Discover(e)
      PROVE  Kept(start)' /\ KeepTheirAppliance /\ AddsOnce
  BY <1>4, MigrateKeeps, SetupKeeps, DiscoverKeeps, OthersAddNone
<1>5. ASSUME NEW e \in Entries, FirstRefreshFails(e) \/ ForwardEntrySetups(e)
      PROVE  Kept(start)' /\ KeepTheirAppliance /\ AddsOnce
  <2>1. UNCHANGED <<data, own>>
    BY <1>5 DEF FirstRefreshFails, ForwardEntrySetups
  <2> QED  BY <1>5, <2>1, LoadKeeps, ForwardKeeps, NoEntryChanges, OthersAddNone
<1>6. ASSUME NEW e \in Entries, NEW a \in Appliances, PollAnswers(e, a) \/ ReconfigureProbes(e, a)
      PROVE  Kept(start)' /\ KeepTheirAppliance /\ AddsOnce
  <2>1. UNCHANGED <<data, own>>
    BY <1>6 DEF PollAnswers, ReconfigureProbes, book
  <2> QED  BY <1>6, <2>1, LoadKeeps, NetworkKeeps, NoEntryChanges, NoneAdded
<1>7. CASE ConfirmUnknownType
  <2>1. /\ (CHOOSE e \in Fresh : TRUE) \in Fresh /\ CreateEntry(CHOOSE e \in Fresh : TRUE)
        /\ flow.step = "confirm" /\ UNCHANGED world
    BY <1>7 DEF ConfirmUnknownType
  <2> QED  BY <2>1, CreateKeeps
<1>8. CASE FinishReconfigure
  <2>1. \A f \in Entries : data[f] = None => data'[f] = None
    BY <1>8 DEF FinishReconfigure, Present, IInv, Typed
  <2> QED  BY <1>8, <2>1, ReconfigureKeeps, NoneAdded
<1>9. CASE Restart
  <2>1. UNCHANGED <<data, own>>
    BY <1>9 DEF Restart
  <2> QED  BY <1>9, <2>1, LoadKeeps, NoEntryChanges, NoneAdded
<1>10. CASE UNCHANGED vars
  <2>1. SeenReports(start)' /\ SeenFlow(start)'
    BY <1>10 DEF vars, Kept, SeenReports, SeenFlow
  <2> QED  BY <1>10, <2>1, BookKept, NoEntryChanges, NoneAdded DEF vars
<1> QED
  BY <1>1, <1>2, <1>3, <1>4, <1>5, <1>6, <1>7, <1>8, <1>9, <1>10, ProbeEnds DEF Next

\* The parts of an installation stay in step with what it started from
Whole == IInv /\ \E start \in Starts : Kept(start)

LEMMA WholeKept == Whole /\ [Next]_vars => Whole' /\ KeepTheirAppliance /\ AddsOnce
<1> SUFFICES ASSUME Whole, [Next]_vars PROVE Whole' /\ KeepTheirAppliance /\ AddsOnce
  OBVIOUS
<1>1. PICK start \in Starts : Kept(start)
  BY DEF Whole
<1>2. IInv
  BY DEF Whole
<1>3. IInv'
  BY <1>2, StepKeeps
<1>4. Kept(start)' /\ KeepTheirAppliance /\ AddsOnce
  BY <1>1, <1>2, EveryStepKeeps
<1> QED  BY <1>3, <1>4 DEF Whole

\* The rows of an entry go to another appliance only if it has the serial of
\* the one they were registered for, or they were registered against an
\* address; and the di a PSK entry was imported for is never another.  For
\* any installation, whatever leases move, appliances are reset and forms
\* are filled in between (_run_discovery, async_step_dhcp and
\* async_step_reconfigure together).
THEOREM RowsStayWithTheirAppliance == Spec => RowsKeepTheirAppliance
<1>1. Init => Whole
  BY InitEstablishes, InitKept DEF Whole
<1>2. Whole /\ [Next]_vars => KeepTheirAppliance
  BY WholeKept
<1>3. Whole /\ [Next]_vars => Whole'
  BY WholeKept
<1> QED  BY <1>1, <1>2, <1>3, PTL DEF Spec, RowsKeepTheirAppliance, KeepTheirAppliance

\* No appliance is added again beside an entry that stands for it and can
\* know, for any number of entries, appliances, moves and resets
\* (_finish_probe and _create_entry).
THEOREM AddedOnlyOnce == Spec => AddedOnce
<1>1. Init => Whole
  BY InitEstablishes, InitKept DEF Whole
<1>2. Whole /\ [Next]_vars => AddsOnce
  BY WholeKept
<1>3. Whole /\ [Next]_vars => Whole'
  BY WholeKept
<1> QED  BY <1>1, <1>2, <1>3, PTL DEF Spec, AddedOnce, AddsOnce

-----------------------------------------------------------------------------
(* The probe of a setup form. *)

\* A sequence, of whatever elements
Sequential(s) == s \in Seq({s[i] : i \in DOMAIN s})

Credentials ==
    /\ job.psk => pc # "mint" /\ (pc # "look" => credential = "psk")
    /\ reminted /\ pc \in {"dial", "try", "classify"} => credential # "reused"

\* What is kept of this pass, and what it drew
Evidence ==
    /\ Sequential(failures)
    /\ probed.full => \A i \in DOMAIN failures : failures[i].exc = "timeout"
    /\ pc = "classify" /\ alert # None => credential \notin probed.accepts /\ ~probed.full
    /\ pc = "try" => alert = None
    /\ result # None => pc = "done"

\* Of each pass that has been diagnosed, one peer
Peers ==
    /\ orphans = [fixed |-> orphans.fixed, ephemeral |-> orphans.ephemeral]
    /\ orphans.fixed \in Nat /\ orphans.ephemeral \in Nat
    /\ reminted \in BOOLEAN /\ (pc = "look" => ~reminted)
    /\ job.fixed /\ job.bindable =>
         orphans.ephemeral <= (IF reminted THEN 1 ELSE 0) + (IF pc \in {"classify", "done"} THEN 1 ELSE 0)

Undialled ==
    Probe!Ambiguous =>
        /\ pc \in {"look", "mint", "dial", "done"}
        /\ pc # "look" => scan.appliances > 1
        /\ orphans = [fixed |-> 0, ephemeral |-> 0] /\ result # "device"

ProbeInv == Credentials /\ Evidence /\ Peers /\ Undialled /\ Probe!RejectionIsReal

LEMMA AppendSequential ==
    ASSUME NEW s, Sequential(s), NEW x
    PROVE  /\ Sequential(Append(s, x))
           /\ DOMAIN Append(s, x) = 1..(Len(s) + 1) /\ DOMAIN s = 1..Len(s) /\ Len(s) \in Nat
           /\ \A i \in 1..Len(s) : Append(s, x)[i] = s[i]
           /\ Append(s, x)[Len(s) + 1] = x
<1> DEFINE S == {s[i] : i \in DOMAIN s}
           T == S \cup {x}
           t == Append(s, x)
<1>1. s \in Seq(S)
  BY DEF Sequential
<1>2. s \in Seq(T) /\ Len(s) \in Nat /\ DOMAIN s = 1..Len(s)
  BY <1>1
<1> HIDE DEF S
<1>3. t \in Seq(T) /\ Len(t) = Len(s) + 1 /\ DOMAIN t = 1..(Len(s) + 1)
      /\ (\A i \in 1..Len(s) : t[i] = s[i]) /\ t[Len(s) + 1] = x
  BY <1>2
<1>4. Sequential(t)
  <2> DEFINE R == {t[i] : i \in DOMAIN t}
  <2>1. Len(t) \in Nat /\ \A i \in 1..Len(t) : t[i] \in R
    BY <1>2, <1>3
  <2>2. t \in [1..Len(t) -> T]
    <3> HIDE DEF t, T
    <3> QED BY <1>3
  <2> HIDE DEF t, R
  <2>3. t \in [1..Len(t) -> R]
    BY <2>1, <2>2
  <2>4. t \in Seq(R)
    BY <2>1, <2>3
  <2> QED BY <2>4 DEF Sequential, R
<1> QED BY <1>2, <1>3, <1>4

\* Two appliances behind another stack are two
LEMMA TwoAnswer ==
    ASSUME Probe!ProbeOK, probed \in ProbedHosts, Probe!Ambiguous
    PROVE  Probe!Look(probed).appliances > 1
<1> DEFINE found == Probe!ApplianceResponders(probed)
<1>1. IsFiniteSet(found) /\ Cardinality(found) \in Nat
  <2>1. probed.responders \in Seq({probed.responders[i] : i \in DOMAIN probed.responders})
    BY DEF Probe!ProbeOK
  <2>2. Len(probed.responders) \in Nat /\ DOMAIN probed.responders = 1..Len(probed.responders)
    BY <2>1
  <2>3. found \subseteq 1..Len(probed.responders)
    BY <2>2 DEF Probe!ApplianceResponders
  <2>4. IsFiniteSet(1..Len(probed.responders))
    BY <2>2, FS_Interval
  <2>5. IsFiniteSet(found)
    BY <2>3, <2>4, FS_Subset
  <2> QED BY <2>5, FS_CardinalityType
<1>2. PICK i \in found, j \in found : i # j
  BY DEF Probe!Ambiguous, Probe!ApplianceResponders
<1> HIDE DEF found
<1>3. Cardinality(found) > 1
  <2>1. found # {}
    BY <1>2
  <2>2. Cardinality(found) # 0
    BY <1>1, <2>1, FS_EmptySet
  <2>3. Cardinality(found) # 1
    <3>1. SUFFICES ASSUME Cardinality(found) = 1 PROVE FALSE
      OBVIOUS
    <3>2. PICK x : found = {x}
      BY <1>1, <3>1, FS_Singleton
    <3> QED BY <1>2, <3>2
  <2> QED BY <1>1, <2>2, <2>3
<1>4. Probe!DeclaresNoAppliance(probed.types)
  BY DEF Probe!Ambiguous, Probe!DeclaresNoAppliance
<1>7. Probe!Cardinality(found) = Cardinality(found)
  BY DEF Probe!Cardinality, Cardinality
<1>5. \E a, p : Probe!Look(probed) = [Probe!Scan0 EXCEPT !.advertised = a, !.plaintext = p,
                                                     !.appliances = Cardinality(found)]
  BY <1>3, <1>4, <1>7 DEF Probe!Look, found
<1>6. Probe!Look(probed).appliances = Cardinality(found)
  BY <1>5 DEF Probe!Scan0
<1> QED BY <1>3, <1>6

\* The port diagnosed is one that failed
LEMMA DiagnosedFailed ==
    ASSUME Sequential(failures), failures # <<>>
    PROVE  Probe!ExcOf(Probe!DiagnosedPort) \in {failures[i].exc : i \in DOMAIN failures}
<1> DEFINE failed(p) == \E i \in DOMAIN failures : failures[i].port = p
           first == {i \in DOMAIN scan.confirmed :
                       failed(scan.confirmed[i]) /\ \A j \in 1..(i - 1) : ~failed(scan.confirmed[j])}
           confirmed == IF first = {} THEN None ELSE scan.confirmed[CHOOSE i \in first : TRUE]
<1>1. failed(failures[1].port)
  <2>1. failures \in Seq({failures[i] : i \in DOMAIN failures})
    BY DEF Sequential
  <2>2. 1 \in DOMAIN failures
    BY <2>1
  <2> QED BY <2>2
<1>2. Probe!DiagnosedPort = IF confirmed # None THEN confirmed ELSE failures[1].port
  BY DEF Probe!DiagnosedPort, Probe!First
<1>3. first # {} => failed(confirmed)
  OBVIOUS
<1> HIDE DEF first
<1>4. failed(Probe!DiagnosedPort)
  <2>1. CASE first = {}
    BY <1>1, <1>2, <2>1
  <2>2. CASE first # {}
    BY <1>1, <1>2, <1>3, <2>2
  <2> QED BY <2>1, <2>2
<1> QED BY <1>4 DEF Probe!ExcOf

\* The credential refused is the one offered, and a full appliance's silence
\* is not taken for its refusal
LEMMA EvidenceKept ==
    ASSUME ProbeInv, [Probe!Next]_Probe!vars
    PROVE  Evidence'
<1> USE DEF Evidence
<1>1. CASE Probe!LookAtHost
  BY <1>1 DEF Probe!LookAtHost, ProbeInv, Probe!Done, Probe!facts
<1>2. CASE Probe!Mint
  BY <1>2 DEF Probe!Mint, ProbeInv, Probe!Done, Probe!facts
<1>3. CASE Probe!Dial
  <2>1. Sequential(<<>>)
    BY DEF Sequential
  <2>2. probed.full => \A i \in DOMAIN failures' : failures'[i].exc = "timeout"
    BY <1>3 DEF Probe!Dial, ProbeInv, Probe!facts
  <2> QED BY <1>3, <2>1, <2>2 DEF Probe!Dial, ProbeInv, Probe!Done, Probe!facts
<1>4. CASE Probe!TryPort
  <2>1. pc = "try" /\ (pc' = "try" \/ pc' = "done") /\ result = None /\ UNCHANGED <<probed, alert, credential>>
    BY <1>4 DEF Probe!TryPort, Probe!Done, Probe!facts, ProbeInv
  <2>2. result' # None => pc' = "done"
    BY <1>4, <2>1 DEF Probe!TryPort, Probe!Done
  <2>3. CASE UNCHANGED failures
    BY <2>1, <2>2, <2>3 DEF ProbeInv
  <2>4. ASSUME NEW outcome \in Probe!Outcomes(Head(todo)), NEW p,
               failures' = Append(failures, [port |-> p, exc |-> outcome])
        PROVE  Evidence'
    <3> DEFINE f == [port |-> p, exc |-> outcome]
    <3>1. probed.full => f.exc = "timeout"
      BY <2>4 DEF Probe!Outcomes
    <3> HIDE DEF f
    <3>2. Sequential(failures) /\ failures' = Append(failures, f)
      BY <2>4 DEF f, ProbeInv
    <3>3. Sequential(failures') /\ (probed.full => \A i \in DOMAIN failures' : failures'[i].exc = "timeout")
      BY <3>1, <3>2, AppendSequential DEF ProbeInv
    <3> QED BY <2>1, <2>2, <3>3 DEF ProbeInv
  <2> QED BY <1>4, <2>3, <2>4 DEF Probe!TryPort
<1>5. CASE Probe!Diagnose
  <2>1. pc = "try" /\ pc' = "classify" /\ UNCHANGED <<probed, failures, credential, result>>
    BY <1>5 DEF Probe!Diagnose, Probe!facts
  <2>2. ASSUME alert' # None, failures # <<>>
        PROVE  credential \notin probed.accepts /\ ~probed.full
    <3>1. PICK drawn \in Probe!Drawn(Probe!DiagnosedPort) :
              alert' = Probe!ResolveAlert(Probe!ExcOf(Probe!DiagnosedPort), drawn)
      BY <1>5, <2>2 DEF Probe!Diagnose
    <3>2. drawn.name # None /\ drawn.level = 2
          /\ ~(Probe!ExcOf(Probe!DiagnosedPort) = "timeout" /\ ~drawn.sent)
      BY <2>2, <3>1 DEF Probe!ResolveAlert
    <3>3. probed.full => Probe!ExcOf(Probe!DiagnosedPort) = "timeout"
      BY <2>2, DiagnosedFailed DEF ProbeInv
    <3>4. ~probed.full
      BY <3>1, <3>2, <3>3 DEF Probe!Drawn
    <3> QED BY <3>1, <3>2, <3>4 DEF Probe!Drawn
  <2>3. failures = <<>> => alert' = None
    BY <1>5, <2>1 DEF Probe!Diagnose, ProbeInv
  <2> QED BY <2>1, <2>2, <2>3 DEF ProbeInv
<1>6. CASE Probe!Classify
  BY <1>6 DEF Probe!Classify, Probe!Done, Probe!facts, ProbeInv
<1>7. CASE UNCHANGED Probe!vars
  BY <1>7 DEF Probe!vars, Probe!facts, ProbeInv
<1> QED BY <1>1, <1>2, <1>3, <1>4, <1>5, <1>6, <1>7 DEF Probe!Next

LEMMA CredentialsKept ==
    ASSUME Probe!ProbeOK, ProbeInv, [Probe!Next]_Probe!vars
    PROVE  Credentials'
<1> USE DEF Credentials
<1>1. CASE Probe!LookAtHost
  BY <1>1 DEF Probe!LookAtHost, ProbeInv, Probe!Done, Probe!facts, Peers
<1>2. CASE Probe!Mint
  BY <1>2 DEF Probe!Mint, Probe!Minted, ProbeInv, Probe!Done, Probe!facts
<1>3. CASE Probe!Dial \/ Probe!TryPort \/ Probe!Diagnose
  <2>1. UNCHANGED <<job, reminted, credential>> /\ pc \in {"dial", "try"} /\ pc' # "mint"
    BY <1>3 DEF Probe!Dial, Probe!TryPort, Probe!Diagnose, Probe!Done, Probe!facts
  <2> QED BY <2>1 DEF ProbeInv
<1>4. CASE Probe!Classify
  BY <1>4 DEF Probe!Classify, ProbeInv, Probe!Done, Probe!facts
<1>5. CASE UNCHANGED Probe!vars
  BY <1>5 DEF Probe!vars, Probe!facts, ProbeInv
<1> QED BY <1>1, <1>2, <1>3, <1>4, <1>5 DEF Probe!Next

LEMMA PeersKept ==
    ASSUME ProbeInv, [Probe!Next]_Probe!vars
    PROVE  Peers'
<1> USE DEF Peers
<1>1. CASE Probe!LookAtHost \/ Probe!Mint \/ Probe!Dial
  BY <1>1 DEF Probe!LookAtHost, Probe!Mint, Probe!Dial, ProbeInv, Probe!Done, Probe!facts
<1>2. CASE Probe!TryPort
  <2>1. UNCHANGED <<job, reminted>> /\ pc = "try" /\ (pc' = "try" \/ pc' = "done")
    BY <1>2 DEF Probe!TryPort, Probe!Done, Probe!facts
  <2>2. UNCHANGED orphans \/ Probe!LeavesPeer(Probe!Source)
    BY <1>2 DEF Probe!TryPort
  <2>3. orphans'.ephemeral = orphans.ephemeral \/ ~(job.fixed /\ job.bindable)
    BY <2>2 DEF Probe!LeavesPeer, Probe!Source, ProbeInv
  <2>4. /\ orphans' = [fixed |-> orphans'.fixed, ephemeral |-> orphans'.ephemeral]
        /\ orphans'.fixed \in Nat /\ orphans'.ephemeral \in Nat
    BY <2>2 DEF Probe!LeavesPeer, Probe!Source, ProbeInv
  <2> QED BY <2>1, <2>3, <2>4 DEF ProbeInv
<1>3. CASE Probe!Diagnose
  BY <1>3 DEF Probe!Diagnose, Probe!LeavesPeer, ProbeInv, Probe!facts
<1>4. CASE Probe!Classify
  <2>1. UNCHANGED <<job, orphans>> /\ pc = "classify"
    BY <1>4 DEF Probe!Classify, Probe!facts
  <2>2. CASE pc' = "done" /\ UNCHANGED reminted
    BY <2>1, <2>2 DEF ProbeInv
  <2>3. CASE pc' = "mint" /\ reminted' = TRUE /\ credential = "reused"
    <3>1. ~reminted
      BY <2>1, <2>3 DEF ProbeInv, Credentials
    <3> QED BY <2>1, <2>3, <3>1 DEF ProbeInv
  <2> QED BY <1>4, <2>2, <2>3 DEF Probe!Classify, Probe!Done
<1>5. CASE UNCHANGED Probe!vars
  BY <1>5 DEF Probe!vars, Probe!facts, ProbeInv
<1> QED BY <1>1, <1>2, <1>3, <1>4, <1>5 DEF Probe!Next

LEMMA UndialledKept ==
    ASSUME Probe!ProbeOK, probed \in ProbedHosts, ProbeInv, [Probe!Next]_Probe!vars
    PROVE  Undialled'
<1> SUFFICES ASSUME Probe!Ambiguous'
             PROVE  Undialled'
  BY DEF Undialled
<1>1. UNCHANGED <<probed, job>> /\ Probe!Ambiguous
  BY DEF Probe!Ambiguous, Probe!Next, Probe!LookAtHost, Probe!Mint, Probe!Dial, Probe!TryPort,
     Probe!Diagnose, Probe!Classify, Probe!vars, Probe!facts
<1>2. pc \in {"look", "mint", "dial", "done"} /\ (pc # "look" => scan.appliances > 1)
      /\ orphans = [fixed |-> 0, ephemeral |-> 0] /\ result # "device"
  BY <1>1 DEF ProbeInv, Undialled
<1>3. CASE Probe!LookAtHost
  BY <1>1, <1>2, <1>3, TwoAnswer DEF Probe!LookAtHost, Probe!Done, Undialled
<1>4. CASE Probe!Mint
  BY <1>2, <1>4 DEF Probe!Mint, Probe!Done, Undialled
<1>5. CASE Probe!Dial
  BY <1>2, <1>5 DEF Probe!Dial, Probe!Done, Undialled
<1>6. CASE UNCHANGED Probe!vars
  BY <1>2, <1>6 DEF Probe!vars, Undialled
<1> QED BY <1>2, <1>3, <1>4, <1>5, <1>6 DEF Probe!Next, Probe!TryPort, Probe!Diagnose, Probe!Classify

LEMMA RejectionKept ==
    ASSUME Probe!ProbeOK, ProbeInv, [Probe!Next]_Probe!vars
    PROVE  Probe!RejectionIsReal'
<1> USE DEF Probe!RejectionIsReal
<1>1. CASE Probe!LookAtHost \/ Probe!Mint \/ Probe!Dial
  BY <1>1 DEF Probe!LookAtHost, Probe!Mint, Probe!Dial, ProbeInv, Evidence, Probe!Done, Probe!ProbeOK
<1>2. CASE Probe!TryPort
  BY <1>2 DEF Probe!TryPort, Probe!ReadDevice, Probe!StackFailure, ProbeInv, Evidence, Probe!Done,
     Probe!ProbeOK
<1>3. CASE Probe!Diagnose
  BY <1>3 DEF Probe!Diagnose, ProbeInv, Evidence, Probe!ProbeOK
<1>4. CASE Probe!Classify
  <2>1. SUFFICES ASSUME result' \in {"cert_rejected", "psk_rejected"}
                 PROVE  credential \notin probed.accepts \cup {"reused"} /\ ~probed.full /\ ~scan.typeless
    BY <1>4 DEF Probe!Classify, Probe!facts
  <2>2. result' = Probe!StackFailure(Probe!ClassifyHandshakeFailure) /\ pc = "classify"
        /\ ~(result' = "cert_rejected" /\ credential = "reused")
    BY <1>4, <2>1 DEF Probe!Classify, Probe!Done, ProbeInv, Evidence, Probe!ProbeOK
  <2>3. ~scan.typeless /\ result' = Probe!ClassifyHandshakeFailure
    BY <2>1, <2>2 DEF Probe!StackFailure
  <2>4. \/ result' = "cert_rejected" /\ alert = "cert"
        \/ result' = "psk_rejected" /\ alert = "psk" /\ job.psk
    BY <2>1, <2>3 DEF Probe!ClassifyHandshakeFailure, Probe!SweepFailure
  <2>5. alert # None
    BY <2>4 DEF Probe!ProbeOK
  <2>6. credential \notin probed.accepts /\ ~probed.full
    BY <2>2, <2>5 DEF ProbeInv, Evidence
  <2>7. credential # "reused"
    BY <2>2, <2>4 DEF ProbeInv, Credentials
  <2> QED BY <2>3, <2>6, <2>7
<1>5. CASE UNCHANGED Probe!vars
  BY <1>5 DEF Probe!vars, Probe!facts, ProbeInv
<1> QED BY <1>1, <1>2, <1>3, <1>4, <1>5 DEF Probe!Next

\* A probe does no harm (config_flow.py, _probe_and_validate): whatever the
\* host answers, and however slowly, the user is sent for other credentials
\* only if the appliance refused the one it was offered; attempts leave no
\* more half-open peers than one for each pass; and of two appliances behind
\* another stack neither is dialled.
THEOREM ProbesHarmNothing == PartsSpec => []ProbeHarmsNothing
<1> DEFINE Inv == probed \in ProbedHosts /\ ProbeInv
<1>1. Probe!Init => Inv
  <2>1. Sequential(<<>>) /\ DOMAIN <<>> = {}
    BY DEF Sequential
  <2> SUFFICES ASSUME Probe!Init
               PROVE  Inv
    OBVIOUS
  <2>2. Credentials /\ Evidence
    BY <2>1 DEF Probe!Init, Credentials, Evidence
  <2>3. Peers
    <3>1. /\ orphans.fixed = 0 /\ orphans.ephemeral = 0 /\ reminted = FALSE
          /\ orphans = [fixed |-> orphans.fixed, ephemeral |-> orphans.ephemeral]
      BY DEF Probe!Init
    <3>2. ~reminted /\ reminted \in BOOLEAN
      BY <3>1, Zenon
    <3>3. (IF reminted THEN 1 ELSE 0) + (IF pc \in {"classify", "done"} THEN 1 ELSE 0) \in Nat
      OBVIOUS
    <3> QED BY <3>1, <3>2, <3>3 DEF Peers
  <2>4. Undialled
    BY ProbedOK DEF Probe!Init, Undialled, Probe!ProbeOK
  <2>5. Probe!RejectionIsReal
    BY ProbedOK DEF Probe!Init, Probe!RejectionIsReal, Probe!ProbeOK
  <2> QED BY <2>2, <2>3, <2>4, <2>5 DEF Probe!Init, ProbeInv
<1>2. Inv /\ [Probe!Next]_Probe!vars => Inv'
  <2>1. [Probe!Next]_Probe!vars => UNCHANGED probed
    BY DEF Probe!Next, Probe!LookAtHost, Probe!Mint, Probe!Dial, Probe!TryPort,
       Probe!Diagnose, Probe!Classify, Probe!vars, Probe!facts
  <2> QED BY <2>1, ProbedOK, CredentialsKept, EvidenceKept, PeersKept, UndialledKept, RejectionKept DEF ProbeInv
<1>3. Inv => ProbeHarmsNothing
  BY DEF ProbeInv, ProbeHarmsNothing, Peers, Undialled, Probe!ProbeHarmsNothing, Probe!PeersDoNotPileUp,
     Probe!AmbiguousNotDialled
<1>4. PartsInit => Inv
  BY <1>1 DEF PartsInit
<1>5. [PartsNext]_<<part, vars, probeVars>> => [Probe!Next]_Probe!vars
  BY DEF PartsNext, probeVars, Probe!vars, Probe!facts
<1> QED BY <1>2, <1>3, <1>4, <1>5, PTL DEF PartsSpec

=============================================================================
