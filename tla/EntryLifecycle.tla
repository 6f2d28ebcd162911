---------------------------- MODULE EntryLifecycle -----------------------------
(***************************************************************************)
(* One config entry from setup to reload (__init__.py, coordinator.py):    *)
(* the entities replayed from the snapshot of the last discovery, the      *)
(* first live cycle that runs beside the platforms' own setup, the new     *)
(* discovery, its snapshot, and the reload when the two disagree; the      *)
(* choice of subdevices in the options; the registry rows that outlive a   *)
(* load.                                                                   *)
(*                                                                         *)
(* The appliance may be off, leave reads unanswered, or come back with new *)
(* firmware; Home Assistant may restart at any step.  The snapshot, the    *)
(* options and the rows survive, the coordinator does not.                 *)
(***************************************************************************)
EXTENDS Subdevices

CONSTANTS
    None,       \* no coordinator, no snapshot
    Apps,       \* the appliances, by name
    Upgraded,   \* what an appliance's new firmware makes of it
    Quiets,     \* the sets of hrefs that may not answer, for each
    Limits,     \* how many probes the enumeration's time may last for
    Platforms,
    Moved,      \* (platform, key) no release binds any more
    Obsolete,   \* for each type, the rows an earlier routing left
    Leftover,   \* the rows an earlier release may have left
    Budgets     \* bounds: [misses, turns, choices, restarts]

Keys == {KeyOf(Main)} \union {KeyOf(Indexed(n)) : n \in 1..3} \union {KeyOf(Prefixed(i, {})) : i \in Ids}

ASSUME LifecycleOK ==
    /\ DOMAIN Upgraded = DOMAIN Apps /\ DOMAIN Quiets = DOMAIN Apps
    /\ \A a \in DOMAIN Apps : Upgraded[a] \in DOMAIN Apps /\ {} \in Quiets[a]
    /\ Budgets \subseteq [misses : Nat, turns : Nat, choices : Nat, restarts : Nat]

VARIABLES
    app,        \* the appliance at the entry's address, by name
    on,
    disk,       \* the snapshot: [res, cands]
    disabled,   \* the subdevices the options switch off
    rows,       \* the registry: (platform, entity key)
    setup,      \* [at, left]: "out", "first", "tidy", "forwarding", "loaded"
    c,          \* the coordinator
    task,       \* the refresh of the first cycle
    registered, \* the entities the platforms added in this load
    reload,     \* whether a reload is scheduled
    budget

Stored == <<disk, disabled, rows>>
Loaded == <<setup, c, task, registered, reload>>
vars == <<app, on, Stored, Loaded, budget>>

May(what) == budget[what] > 0
Spend(what) == budget' = [budget EXCEPT ![what] = @ - 1]
Miss(missed) == IF missed THEN May("misses") /\ Spend("misses") ELSE UNCHANGED budget

Out == [at |-> "out", left |-> {}]
Forwarding == [at |-> "forwarding", left |-> Platforms]
Idle == [at |-> "idle"]

-----------------------------------------------------------------------------
(* What a coordinator holds *)

Fresh(off) ==
    [off |-> off, subs |-> <<>>, offs |-> {}, bound |-> {},
     rres |-> None, rbound |-> None, rincl |-> {},
     extra |-> NoBatch, cache |-> NoBatch, done |-> FALSE]

\* The candidates that were not switched off
Enabled(subs, off) ==
    LET Kept(su) == KeyOf(su) \notin off
    IN  SelectSeq(subs, Kept)

\* _without_disabled
WithoutOwned(resources, offs) ==
    Restrict(resources, {h \in DOMAIN resources : ~OwnedBy(offs, h)})

\* _run_discovery
Discover(co, resources, cands) ==
    LET enabled == Enabled(cands, co.off)
        offs    == Range(cands) \ Range(enabled)
        found   == Partitioned(WithoutOwned(resources, offs), enabled)
    IN  [co EXCEPT !.offs = offs, !.subs = found.live, !.bound = found.bound]

\* async_rehydrate
Replayed(off) ==
    LET co == Discover(Fresh(off), disk.res, disk.cands)
    IN  [co EXCEPT !.rres = disk.res,
                   !.rbound = BoundKeys(co.bound),
                   !.rincl = Registered(co.bound, disk.res)]

\* discovery_resources
DiscoveryResources(co) ==
    IF co.rres # None THEN co.rres ELSE co.cache @@ co.extra

-----------------------------------------------------------------------------
(* What one read of the appliance brings *)

\* flat.read_all: nothing unless at least half of it answered
MainRead(a, quiet) ==
    LET heard == DOMAIN a.main \ quiet
    IN  CASE ~a.flat -> a.main
          [] a.flat /\ 2 * Cardinality(heard) >= Cardinality(DOMAIN a.main) -> Restrict(a.main, heard)
          [] OTHER -> NoBatch

\* _poll_subdevice_seed
SeedRead(a, quiet, su) ==
    IF su.flat # {}
    THEN Restrict(a.props, Answering(a, quiet, {ToActual(su, h) : h \in su.flat}))
    ELSE Normalized(su, ReadBatch(a, quiet, Seed(su)))

\* _poll_once: the subdevices of the replay are read along with it
PolledNow(a, quiet, subs) ==
    FoldLeft(LAMBDA res, su : SeedRead(a, quiet, su) @@ res, MainRead(a, quiet), subs)

\* _probe_blocking: what no batch carries
ProbedNow(a, quiet, subs) ==
    LET hrefs == {ToActual(su, Master("usage")) : su \in {Main} \union Range(subs)}
    IN  IF a.flat THEN NoBatch ELSE Restrict(a.props, Answering(a, quiet, hrefs))

\* Slip: discovery is left with what answered
FoundOfLive(co, a, live) == live

\* _with_remembered_resources: what a flat board advertises is not forgotten
Found(co, a, live) ==
    LET kept == IF co.rres # None THEN co.rres ELSE IF disk # None THEN disk.res ELSE NoBatch
    IN  IF a.flat THEN live @@ Restrict(kept, DOMAIN kept \intersect DOMAIN a.main) ELSE live

-----------------------------------------------------------------------------
(* Setup and reload *)

\* async_setup_entry up to its first await that waits for the appliance
Load ==
    /\ setup.at = "out"
    /\ IF disk = None
       THEN /\ c' = Fresh(disabled)
            /\ setup' = [Out EXCEPT !.at = "first"]
       ELSE /\ c' = Replayed(disabled)
            /\ setup' = [Out EXCEPT !.at = IF c'.bound = {} THEN "first" ELSE "tidy"]
    /\ task' = [at |-> "poll"]
    /\ UNCHANGED <<app, on, Stored, registered, reload, budget>>

\* Rows dropped at every setup (the _drop_* functions)
DeadRows(co) ==
    LET res == DiscoveryResources(co)
        TypeFor(su) == IF su = Main \/ TypeOf(CanonicalView(su, res, Range(co.subs))) = NoType
                       THEN TypeOf(CanonicalView(Main, res, Range(co.subs)))
                       ELSE TypeOf(CanonicalView(su, res, Range(co.subs)))
        Gated   == {b \in co.bound : b.desc.gated /\ ~Included(b, res)}
        Renewed == {b \in co.bound : b.desc.was # "none" /\ b.href \in DOMAIN res /\ HasField(res[b.href])}
    IN  {r \in rows : <<r[1], r[2][2]>> \in Moved}
          \union {<<b.desc.platform, EntityKey(b)>> : b \in Gated}
          \union {<<b.desc.was, EntityKey(b)>> : b \in Renewed}
          \union {r \in rows : \E su \in {Main} \union Range(co.subs) :
                    r[2][1] = KeyOf(su) /\ <<r[1], r[2][2]>> \in Obsolete[TypeFor(su)]}

Tidy ==
    /\ setup.at = "tidy"
    /\ rows' = rows \ DeadRows(c)
    /\ setup' = Forwarding
    /\ UNCHANGED <<app, on, disk, disabled, c, task, registered, reload, budget>>

\* A platform adds its entities, from what discovery holds at that moment
Forward(platform) ==
    /\ setup.at = "forwarding" /\ platform \in setup.left
    /\ \E keys \in {Registered({b \in c.bound : b.desc.platform = platform}, DiscoveryResources(c))} :
        /\ registered' = registered \union keys
        /\ rows' = rows \union {<<platform, k>> : k \in keys}
    /\ setup' = IF setup.left = {platform}
                THEN [Out EXCEPT !.at = "loaded"]
                ELSE [setup EXCEPT !.left = @ \ {platform}]
    /\ UNCHANGED <<app, on, disk, disabled, c, task, reload, budget>>

Unloaded ==
    /\ setup' = Out /\ c' = None /\ task' = Idle /\ registered' = {} /\ reload' = FALSE

\* The scheduled reload: the refresh in flight is cancelled with the load
Reload ==
    /\ reload /\ setup.at = "loaded"
    /\ Unloaded
    /\ UNCHANGED <<app, on, Stored, budget>>

Restart ==
    /\ May("restarts") /\ Spend("restarts")
    /\ setup.at # "out"
    /\ Unloaded
    /\ UNCHANGED <<app, on, Stored>>

-----------------------------------------------------------------------------
(* The first live cycle (_async_update_data) *)

\* Slip: the snapshot is left for after the reload was asked for
StepsBankingLast == <<"find", "reconcile", "bank", "idle">>

\* The order of its last steps
Steps == <<"find", "bank", "reconcile", "idle">>

After(step) == Steps[1 + CHOOSE i \in 1..3 : Steps[i] = step]

\* The timer, while nothing was discovered
Refresh ==
    /\ task.at = "idle" /\ setup.at \in {"tidy", "forwarding", "loaded"}
    /\ ~c.done
    /\ task' = [at |-> "poll"]
    /\ UNCHANGED <<app, on, Stored, setup, c, registered, reload, budget>>

\* An entry without a snapshot that does not reach it is retried
PollFails ==
    /\ task.at = "poll"
    /\ \/ ~on /\ UNCHANGED budget
       \/ \E q \in Quiets[app] : MainRead(Apps[app], q) = NoBatch /\ May("misses") /\ Spend("misses")
    /\ IF setup.at = "first"
       THEN setup' = Out /\ c' = None
       ELSE UNCHANGED <<setup, c>>
    /\ task' = Idle
    /\ UNCHANGED <<app, on, Stored, registered, reload>>

Poll ==
    /\ task.at = "poll" /\ on
    /\ \E q \in Quiets[app] :
        /\ Miss(q # {})
        /\ MainRead(Apps[app], q) # NoBatch
        /\ task' = [at |-> "list", res |-> PolledNow(Apps[app], q, c.subs)]
    /\ UNCHANGED <<app, on, Stored, setup, c, registered, reload>>

\* _enumerate_subdevices_blocking, then the resources no batch carries
Enumerate ==
    /\ task.at = "list" /\ on
    /\ \E q \in Quiets[app], limit \in Limits :
        /\ Miss(q # {} \/ \E l \in Limits : l > limit)
        /\ \E e \in {Enumerated(Apps[app], q, task.res, limit)} :
            /\ c' = [c EXCEPT !.subs = e.subs]
            /\ task' = [at |-> "find",
                        res |-> ProbedNow(Apps[app], q, Enabled(e.subs, c.off)) @@ e.fetched @@ task.res]
    /\ UNCHANGED <<app, on, Stored, setup, registered, reload>>

\* The session was lost: discovery goes on with what was polled
EnumerateFails ==
    /\ task.at = "list"
    /\ IF on THEN May("misses") /\ Spend("misses") ELSE UNCHANGED budget
    /\ task' = [task EXCEPT !.at = "find"]
    /\ UNCHANGED <<app, on, Stored, setup, c, registered, reload>>

Find ==
    /\ task.at = "find"
    /\ \E found \in {Found(c, Apps[app], task.res)} :
        \* the pre-narrowing candidates, and those switched off though not heard of
        \E cands \in {c.subs \o Listing(c.offs \ Range(c.subs))} :
        \E co \in {Discover(c, found, c.subs)} :
            /\ c' = [co EXCEPT !.extra = Restrict(found, DOMAIN found \ DOMAIN task.res)]
            /\ task' = [at |-> After("find"), res |-> task.res, found |-> found, cands |-> cands]
    /\ UNCHANGED <<app, on, Stored, setup, registered, reload, budget>>

\* _async_save_snapshot
Bank ==
    /\ task.at = "bank"
    /\ disk' = [res |-> task.found, cands |-> task.cands]
    /\ task' = IF After("bank") = "idle" THEN Idle ELSE [task EXCEPT !.at = After("bank")]
    /\ UNCHANGED <<app, on, disabled, rows, setup, c, registered, reload, budget>>

\* Slip: an entity that stays bound counts as unchanged
DiffersWhereBound(co, found) ==
    co.rbound # None /\ co.rbound # BoundKeys(co.bound)

\* Whether what the platforms would register changed
Differs(co, found) ==
    /\ co.rbound # None
    /\ \/ co.rbound # BoundKeys(co.bound)
       \/ co.rincl # Registered(co.bound, found)

\* _reconcile_rehydrated, and the live reps into the cache
Reconcile ==
    /\ task.at = "reconcile"
    /\ reload' = (reload \/ Differs(c, task.found))
    /\ c' = [c EXCEPT !.done = TRUE, !.rres = None, !.rbound = None, !.rincl = {},
                      !.cache = WithoutOwned(task.res, c.offs)]
    /\ setup' = IF setup.at = "first" THEN [Out EXCEPT !.at = "tidy"] ELSE setup
    /\ task' = IF After("reconcile") = "idle" THEN Idle ELSE [task EXCEPT !.at = After("reconcile")]
    /\ UNCHANGED <<app, on, Stored, registered, budget>>

-----------------------------------------------------------------------------
(* The owner, and the appliance *)

OfSub(keys, k) == {e \in keys : e[1] = k}

\* async_step_subdevices: what is newly switched off loses its device at
\* once, and the update listener reloads if this load chose otherwise
Choose ==
    /\ setup.at \in {"tidy", "forwarding", "loaded"}
    /\ May("choices") /\ Spend("choices")
    /\ \E k \in {KeyOf(su) : su \in Range(c.subs) \union c.offs} \union disabled :
        LET chosen == IF k \in disabled THEN disabled \ {k} ELSE disabled \union {k}
        IN  /\ disabled' = chosen
            /\ IF k \in disabled
               THEN UNCHANGED <<rows, registered>>
               ELSE /\ rows' = {r \in rows : r[2][1] # k}
                    /\ registered' = {e \in registered : e[1] # k}
            /\ reload' = (reload \/ chosen # c.off)
    /\ UNCHANGED <<app, on, disk, setup, c, task>>

\* async_remove_config_entry_device: only a device the entry no longer has
RemoveDevice ==
    /\ setup.at = "loaded"
    /\ \E k \in {r[2][1] : r \in rows} \ ({KeyOf(Main)} \union {KeyOf(su) : su \in Range(c.subs)}) :
        /\ rows' = {r \in rows : r[2][1] # k}
        /\ registered' = {e \in registered : e[1] # k}
    /\ UNCHANGED <<app, on, disk, disabled, setup, c, task, reload, budget>>

Turn ==
    /\ May("turns") /\ Spend("turns")
    /\ \/ on' = ~on /\ UNCHANGED app
       \/ Upgraded[app] # app /\ app' = Upgraded[app] /\ UNCHANGED on
    /\ UNCHANGED <<Stored, Loaded>>

-----------------------------------------------------------------------------
Init ==
    /\ app \in DOMAIN Apps
    /\ on = TRUE
    /\ disk = None /\ disabled = {} /\ rows = Leftover
    /\ setup = Out /\ c = None /\ task = Idle
    /\ registered = {} /\ reload = FALSE
    /\ budget \in Budgets

Cycle == Refresh \/ Poll \/ PollFails \/ Enumerate \/ EnumerateFails \/ Find \/ Bank \/ Reconcile

\* What the loop runs by itself, the appliance reached or not
Registering == Tidy \/ (\E p \in Platforms : Forward(p)) \/ Reload

Next == Load \/ Registering \/ Cycle \/ Restart \/ Choose \/ RemoveDevice \/ Turn

\* The appliance may never answer: nothing is assumed of its cycle
Fairness == WF_vars(Registering)

Spec == Init /\ [][Next]_vars /\ Fairness

-----------------------------------------------------------------------------
(* Properties *)

\* A load that discovered live, and awaits no reload
Settled == setup.at = "loaded" /\ c.done /\ ~reload

\* ... and no row is left of a switch the appliance turned out not to have.
NoDeadRow ==
    \A b \in c.bound :
        b.desc.gated /\ ~Included(b, DiscoveryResources(c)) =>
            <<b.desc.platform, EntityKey(b)>> \notin rows

Unit(k) == IF k[2] = NoId THEN k ELSE <<k[1], LowerId[k[2]]>>

\* Entities stand for the units that are installed, each once: an unused slot
\* answers like a sibling, and one unit may be listed under two spellings.
OneOfEachUnit ==
    \A subs \in {{e[1] : e \in registered}} :
        /\ \A k \in subs : Unit(k) \in Apps[app].installed \union {KeyOf(Main)}
        /\ \A k, l \in subs : Unit(k) = Unit(l) => k = l

\* Once setup, the first cycle and the reloads between them are through, the
\* entities are those of the live discovery, whichever of the two the
\* platforms had registered from (_reconcile_rehydrated); a subdevice that was
\* switched off is gone, though its slot still answers and the snapshot still
\* holds it.
SettledAsLive ==
    Settled =>
        /\ registered = Registered(c.bound, DiscoveryResources(c))
        /\ \A e \in registered : e[1] \notin disabled
        /\ NoDeadRow
        /\ OneOfEachUnit

\* A flat board's snapshot keeps every resource the board still advertises,
\* whichever of them missed the read (_with_remembered_resources).
RememberedKept ==
    [][disk # None /\ Apps[app].flat =>
        \A h \in DOMAIN disk.res : h \in DOMAIN Apps[app].main => h \in DOMAIN disk'.res]_vars

\* The reloads come to an end: each one comes up against the snapshot of the
\* discovery that asked for it.
ReloadsEnd == <>[]~reload

=============================================================================
