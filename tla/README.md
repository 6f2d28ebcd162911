# LocalThings in TLA+

LocalThings is a Home Assistant integration that talks to Samsung appliances on
the local network: CoAP over DTLS to most of them, an HTTPS bridge on port 8888
to older ones. `custom_components/localthings/coordinator.py` holds one
`LocalThingsCoordinator` per appliance. It polls the appliance, sends commands,
subscribes to notifications, and keeps one cache of the resources ("reps", by
href) that all entities read. Around it are the config flow, which finds an
appliance and comes by a credential for it, the identity and the snapshot that
an entry keeps, and the entities.

This directory holds TLA+ models of the parts whose correctness depends on the
order in which coroutines, threads, the appliance, its owner and restarts act,
TLC configurations that check them, and TLAPS proofs. All source paths below are
relative to `src/custom_components/localthings/`.

## 1. Inventory

### Where the concurrency is

* The **event loop** runs coroutines: the poll cycle (`_async_update_data`), the
  commands, the debug services, the observe attempts, the flows' steps, the
  platforms' setup. Two coroutines never interleave between two awaits.
* **Executor threads** run everything that blocks: `_poll_once`, `_do_put`,
  `_poll_hrefs_blocking`, `_close_session`, `obtain_device_token`, a probe.
* The **DTLS reader thread** calls `ObserveManager.on_notification`.
* The **refresh thread** of `ObserveManager` renews OBSERVE relations.
* The **listener thread** of a token exchange takes the appliance's callback.
* `_session_lock` (asyncio) orders the users of the session. `async_close` does
  not take it. `_cache_lock` and `_settle_lock` (threading) guard the merge and
  the settle windows, one at a time and never both.
* The **appliance** and its panel act at any time; Home Assistant may **restart**
  at any step, and what it keeps is the entry, its options, the snapshot and the
  registry rows.

### Components

| Component | State | Operations | What makes it correct |
|---|---|---|---|
| Cache and settle guard (`observe.py`) | `StateCache`, `_settle_until`, `_cache_lock`, `_settle_lock` | `apply`, `mark_write_pending`, `restore_write_pending`, `on_notification` | no update lost; a write's value held while its window runs; the cache ends up right |
| Commands (`async_send_command`, `_async_put`, `_took_effect`) | `previous_settle`, `armed_settle`, the optimistic body | optimistic merge, arm, PUT, retry, re-arm, confirm, restore | a failed command leaves nothing behind and takes nothing from another |
| Poll cycle and session (`_async_update_data`, `_connect_session`, `async_close`) | `_session`, `_closed`, the failure counts | open, read, probe, defer, reconnect, give up, close | one session at a time, none after unload, an outage ends by itself |
| Push mode (`_attempt_observe_mode`, `ObserveManager`'s mode) | `mode`, the subscribed hrefs, `_resubscribe_due` | subscribe, wait, commit or abandon, downgrade, retry | push is claimed only when it is live, and comes back |
| Sub-polls (`_run_subpolls`) | the task, its slot and rotation | read and apply hot and warm hrefs, cancel | never in a poll's way |
| Publishing (`_on_cache_changed`, `_publish_data`, `canonical_resources`) | `_push_pending`, `_canonical_cache`, `data` | coalesce, flatten, memoise | listeners end up with the cached state |
| Held cooks (`registry/capabilities/cook.py`, `async_start_cooking`) | `HeldCook` per cavity, the remembered modeSpec | hold, plan, overlay, start, clear | what is shown as chosen is what a start sends |
| 8888 transport (`legacy_http.py`, `legacy_http_transport.py`) | last bodies, held values, siblings | read, write, start in one or two requests | a start sends what is held, once |
| 8888 token (`legacy_http_token.py`) | listener, token | request, callback, stop | the token is its appliance's, the port is freed |
| Credentials, probing (`credentials.py`, `probing.py`, `config_flow.py`) | the flow's draft, half-open peers | scan, handshake, diagnose, mint, store | what is stored was accepted; a diagnosis is honest; few peers are left behind |
| Identity (`registry/identity.py`, `rekey.py`) | stored key, serial, MAC, registry rows | corroborate, re-key, migrate, follow a lease | rows stay with their appliance |
| Entry life cycle (`__init__.py`, `async_rehydrate`, `_reconcile_rehydrated`) | snapshot, platforms, rows, subdevice choice | set up offline, discover, reconcile, reload, unload | entities match the live set in the end |
| Discovery, subdevices (`registry/`) | bound entities | enumerate, translate hrefs, bind | each unit once, under an href that leads back to it |
| Learned modes, cloud programs (`learned.py`, `cloudcourse.py`, the options flow) | memory, entry, memo, dialog | learn (any thread), persist (loop), name, forget | nothing learned is lost, and what is offered is what runs |
| Climate (`climate.py`, `airconditioner.py`) | one card over several resources | power, mode, fan, swing, preset, timers, light, beep | the card offers what it shows, and a call leaves the rest alone |
| Laundry courses (`laundry.py`, `washer.py`) | a table of bytes, a course, levels | offer, write, refuse | a setting offers what the course takes |
| Progress sensors (`sensor.py`, `operational.py`) | the sticky hold, the steadied value | evaluate | finish is announced once a cycle |
| Debug services (`services.py`) | taps, debug relations, a write sequence | raw read, write sequence, observe | no trace on the coordinator's own relations; a verdict is true |
| Views, tables, names | - | views of `coordinator.data`, data | - |

What is hard: three kinds of thread merging onto one rep; windows armed, noted
and put back across awaits; a session closed under an attempt that waits
outside the lock; retries of requests that may have been taken; choices held
back until a start while the panel turns; reads of two resources of one state at
different times; a snapshot replayed at an address that has gone to another
appliance; learning on one thread what a dialog edits on another.
`PROJECT.json` lists these hazards, each at its line.

## 2. Modules

| Module | What it is |
|---|---|
| `Reports` | fields, values, reps, and the field-level merge |
| `AtomicCache` | the abstract specification of `apply`: whole reports, one step each |
| `SettleGuard` | cache, settle windows, commands and the three kinds of report, on one href |
| `SettleGuardProofs` | its types, the merge lock, the refinement of `AtomicCache`, the windows |
| `ObserveSession`, `ObserveSessionProofs` | the session, the poll cycle, observe attempts, commands, debug reads, their cancellation, unload |
| `PublishPush`, `PublishPushProofs` | from a change of a rep, a held choice or a program to `coordinator.data` and the memoised views |
| `TokenExchange` | the exchange that gets a device token |
| `CredentialFlow`, `CredentialFlowProofs` | setup and reauthentication, over `TokenExchange` |
| `CloudCourse` | programs: payloads, names, the store, what a cycle select offers and writes |
| `OptionsFlow`, `OptionsFlowProofs` | learning, persisting and the options dialog, over `CloudCourse` |
| `Subdevices` | enumeration of siblings, href translation, discovery and the primary rule |
| `EntryLifecycle` | setup, first live cycle, snapshot, reload, over `Subdevices` |
| `Identity` | which appliance an answer comes from |
| `EntryBook` | entries, addresses, migration, replay and re-keying, over `Identity` |
| `HostProbe` | what a host says before anybody authenticates |
| `SetupProbe` | the probe behind a setup form, over `HostProbe` |
| `Envelope` | the translation between the bridge's bodies and reps |
| `LegacyBridge` | the 8888 transport and the appliance behind it, over `Envelope` |
| `CookStart` | held cook choices and the start |
| `Climate`, `ClimateBoards` | the climate card, and the recorded boards it is run on |
| `LaundryCourses`, `LaundryTables` | course tables and what they permit, and the recorded tables |
| `FinishSensor` | the progress and finish-time sensors |
| `DebugServices` | the raw services beside everything else |
| `ControlParts`, `ControlsProofs` | `FinishSensor`, `Climate`, `LaundryCourses` and `DebugServices` side by side |
| `StartParts`, `StartsProofs` | `CookStart` and `LegacyBridge` side by side |
| `EntryParts`, `EntriesProofs` | `EntryBook` and `SetupProbe` side by side |
| `MC...` | instances for TLC |

**Sums.** `ControlParts`, `StartParts` and `EntryParts` hold several parts that share
no state. `part` is chosen at the start; a behaviour is one of that part, and the
variables of the others stay as they were first loaded. So each part reaches
exactly what its own specification reaches, and nothing is gained by letting
them interleave. The first part of a sum (`FinishSensor`, `CookStart`,
`EntryBook`) is EXTENDED, the others are instances with their variables renamed.
A property of an instance is stated as `part = "x" => P!Inv`, or
`[][part = "x" => ...]`, and its theorem is one of `PartsSpec`; one of the EXTENDED
part is listed as its module, and its theorem, state it, since it holds while
that part stays at its first state. `MCControls`, `MCStarts` and `MCEntries` give the
constants their values.

### SettleGuard

One resource. The variables follow the code: `cache` is the cached rep, `settle`
is `_settle_until[href]`, `cacheLock` and `lock` hold the name of the lock's
holder, `previous`, `armed` and `draft` are the command's `previous_settle`,
`armed_settle` and `optimistic_body`. `loop` names a coroutine in the middle of
a stretch without awaits, so that only threads interleave there.

* **Deadlines are window numbers.** All windows last `_write_settle_s`, so they
  expire in the order in which they are armed; `expired` is the number up to
  which time has come, and `settle > expired` is `_is_settling`. Two windows
  armed at the same reading of the clock would share a deadline; the model
  keeps them apart.
* **`apply` is three steps:** the gate (`Gate`), the lock and the read
  (`EnterCache`), the store (`MergeReport`). The optimistic merge has no gate.
* **Who runs where:** the sweep is read in a thread and applied on the event
  loop; a sub-poll is read and applied in its thread under `_session_lock`,
  cancelled or not; a notification is applied on the reader thread.
* **A command** notes the window it finds and drafts its body, which for a list
  is completed from the cache (`BeginCommand`); merges it; arms a window; PUTs
  under the session lock; may retry once and arm anew; and ends accepted, by a
  confirming read, refused, given up or cancelled. Every failure runs
  `restore_write_pending`.
* **The appliance** takes a PUT or not, whatever it answers, and shows it some
  time later or never; somebody may turn a dial.

Fields stand for the properties of a resource or for the tokens of its options
list; both merge by name.  `/alarms/vs/0`, which is replaced whole, is not such
a resource, and write-only descriptors, which touch neither cache nor window,
are not in the model.

### ObserveSession

`_session_lock`'s holder has a job in a thread (`job[0]`), which moves through
`at`: open, handshake, publish, check, request, close. `next` and `try` say where
it goes after it closed the session and whether it is the retry. `_close_session`
is two steps (read, clear and close), for the job and for `async_close`'s thread.
Sessions are numbered; `alive` are those not closed, `registered` those with
OBSERVE relations. `cycle` is the poll cycle's coroutine, which goes from the
poll through the sweep's application to an observe attempt and its grace wait.

A coroutine may be **cancelled** at any await, with the lock (`CancelHolder`) or
without (`CancelCycle`). The lock is then free, what the coroutine had yet to do is
not done, and its thread, if one is running, goes on to the end of its function:
the job is moved to a number of its own (`Strays`) and takes the same thread steps,
beside those of the next holder. So a command cancelled at `coordinator.py:3023`
leaves a thread that still connects and sends, and one cancelled at 3025 leaves the
session closed and the mode as it was. `loose` is history: the sessions in use or
claimed when a job was cancelled, those put in use beside a cancelled job's thread,
and the one a debug read closes under a claim.

Every failure (handshake, request, silent appliance), every cancellation and the
unload counts against `MaxFaults`; an event that follows from an already closed
session is free. `MaxCancels` bounds the cancellations among them.
`EnterObserveMode`, `AbandonObserveAttempt` and `DowngradeToPoll` are the three
calls of `ObserveManager`. Left out: the hrefs within a session, boards with
nothing to subscribe, flat boards, the 8888 transport.

### PublishPush

What the coordinator knows has two parts, each only a number of changes: the
cached reps, and the extras that `entity_resources` merges onto them (held cook
choices, downloaded programs). `coordinator.data` and a view in
`_canonical_cache` are the numbers they were made of; `seen` is the copy of the
reps the loop works from, which is taken before the extras are read.

* **An applier** (a thread, or a coroutine holding the loop) stores a rep, clears
  the memo, tests and sets `_push_pending`, queues a push - all under
  `_cache_lock` - then runs `_on_rep_applied`, which may learn a program and queue
  a persist. The memo and the flag have no lock in common.
* **The loop** runs one thing at a time: a sweep, a queued push or persist, an
  edit of the programs or options, a held choice, the end of a poll, the
  building of a view. Between the steps of each, threads interleave.
* **What a push does** is spread over `RunPush`, `ResetFlag`, `ReadReps` and
  `Publish`; a persist and an edit go through `CloudCoursesChanged` first, which
  may rebuild the view for the Repair.

One memo entry stands for all: subdevices' views are built and dropped alike.
Actual contents, and so two changes that cancel out, are left out.

### CredentialFlow and TokenExchange

Several flows at a time; a flow is its source, its step, and the draft it
gathers. Each handler (`async_step_user`, `_pick`, `_psk`, `_ca`, `_token`,
`reauth`, ...) is an action whose outcome is what the appliance takes. The token
exchange is a job of an executor thread with one listening port for all
exchanges; its callback may come late, twice, from another appliance, or never,
and the flow that started it may be closed meanwhile.

### OptionsFlow and CloudCourse

A program is a slot and the rest of its payload. `store` is what the coordinator
has in memory, `entry` what is on the config entry, `memo` the view, `shown` what
the cycle select shows, `jobs` what is queued on the event loop: two identical
jobs queued at once are one, as the second does nothing. `dlg` is the options
dialog with its guided wait and the task that waits. `swept` says whether a sweep was applied since the last
start: the names an appliance gives its courses are in a resource of their own, and
until then the dialog knows none to compare with (`config_flow.py:2440`), nor any course
to accept (2434). `blind` is history: the names given in that state. Two kinds of appliance are
run, a washer that teaches programs and an air conditioner that teaches modes.

### EntryLifecycle and Subdevices

`Subdevices` is pure: an appliance is what it answers by href, and enumeration,
translation, discovery and the primary rule are operators over it.
`EntryLifecycle` has the coordinator of the present load (`c`), where setup is
(`setup`: rehydrated, tidied, forwarded platform by platform, loaded), where the
first live cycle is (`task`), the rows on disk and the entities of this load.
Setup and the cycle are coroutines beside one another; a reload cancels both.

### EntryBook and Identity

An entry's data, the registry rows under their keys, the snapshot, and which
appliance answers at which address. `own` is history: the appliance an entry
was made for, and each row's. Leases move, an appliance may be reset (a new di),
Home Assistant restarts. Actions are what runs without an await.

### HostProbe and SetupProbe

A host is a record of what it answers. The probe is a sequential program over it:
look, mint or reuse a credential, dial the candidates in order, retry once where
the code does, and diagnose. `orphans` counts the peers it leaves half open.

### LegacyBridge and Envelope

`Envelope` is the two-way translation by tables. `LegacyBridge` runs one call of
the transport at a time, one HTTP request per step; each request may be answered,
refused, lost, or taken without an answer. `staged` is what is held for a start,
`last` the last bodies, `shown` what the coordinator was last given. Beside the sweep an
endpoint may be read alone, as the sub-polls do: a laundry's or an air conditioner's
revises what is held over it, `/connected` asks `/devices` anew and says of the divider
what a sweep's listing says (`ReadListed`), `/mode` is offered by the listings so far
(`ReadMode`). An answered Run may go unheeded (`legacy_http.py:687`, `oven.py:228`): the
command's `dropped` notes it. What a composed start sets is taken as measured
(`legacy_http_transport.py:661`): settings that are answered hold.

### CookStart

Two cavities, each with its rep and held choices. Temperatures are in units of
10 degrees or so, which keeps the steps and the remainder; the modeSpec, the unit,
the default mode and the offered modes may change with each report.

### Climate, LaundryCourses, FinishSensor, DebugServices

`Climate` has one board, two calls of the card and the remote control; a call is
asked for, then sends one command at a time, and may wait in between.
`LaundryCourses` has a table of bytes, a course and a level, read from two
resources. A mask is what the appliance advertises of a course, not what it enforces
(`laundry.py:287`): each board has a set of pairs it refuses all the same, and an
appliance may be at a level its own list omits (`Unlisted`). `FinishSensor` counts
minutes.

`DebugServices` has one write sequence and one observation beside commands, attempts
and reconnects, each of which may be cancelled. What a cancelled call has in its thread
is in `left`, by kind, and is done later or not at all, whoever has the lock
(`LeftJob`); two equal jobs left are one. A job that was at its handshake replaces a
session opened since. The thread that refreshes push mode's relations takes no lock
either (`Refresh`), and may run once more after it was told to stop. A failed GET of an
observation closes the session and leaves push mode as it is (`ObserveGetBreaks`), and
so does a command cancelled as it closes one (`ClosedUnseen`). `stray` is history: the
sessions on which a job left behind has unsubscribed.

## 3. Runs

| Run | Instance and bounds | Checks |
|---|---|---|
| `settle_windows` | 2 commands on 1 field, one of which may retry, all appliers | `SweepHonoursWindow`, `WindowKept`, `FailedWindowOnlyPutBack` |
| `settle_converge` | 1 list command, 2 fields, 1 panel change | `AppliesAtomically` (refinement), `CacheConverges` (liveness) |
| `settle_newer_write` | as `settle_windows` | violates `NewerWriteKeepsWindow` |
| `observe_session` | `TimeoutLimit` 2; 2 failures, cancellations and unloads, 1 of them a cancellation | `PushIsLive`, `NoOrphanSession`, `ClosedStaysClosed`, `PushRecovers` (liveness) |
| `publish_push` | 2 threads and the loop, 2 changes of reps, 2 of extras | `NoChangeForgotten`, `ExtrasReachViews`, `PublishedInTheEnd` (liveness) |
| `credential_flow` | 2 flows, 2 appliances, 3 starting situations, 2 rounds of asking, 1 token of each | `StoredAsAccepted`, `ExchangeEnds` (liveness) |
| `options_flow` | 3 slots, 3 payloads, 2 names; 4 budgets of turns, dialogs, settings, reloads | `SavedAndShown`, `PickRunsProgram`, `DialogSettles` (liveness) |
| `entry_lifecycle` | 7 appliance shapes; 4 budgets of misses, turns, choices, restarts | `SettledAsLive`, `RememberedKept`, `ReloadsEnd` (liveness) |
| `controls` | `FinishSensor` (7 minutes), `Climate` (7 boards), `LaundryCourses` (6 tables), `DebugServices` (8 plans, 6 budgets) | `FinishHeldOneWindow`, `FinishTimeSteady`, `CardShownIsOffered`, `CardChosenIsShown`, `CardKeepsTheRest`, `LevelsAsTheCourse`, `SwitchAsTheCourse`, `DebugAside`, `WriteVerdictsTrue` |
| `starts` | `CookStart` (2 reports per cavity), `LegacyBridge` (3 appliances, 1 panel turn, 2 faults, 2-3 commands, `MaxTogether` of both) | `CooksAsShown`, `PanelDropsChoices`, `ChoicesCanStart`, `BridgeShowsSwept`, `StartRanOnce`, `StartsAndStopsAsShown` |
| `entries` | `EntryBook` (2 entries, 2 appliances, 2 addresses, 6 situations, 2 moves), `SetupProbe` (19 hosts, all jobs) | `RowsUnderSeed`, `AddedOnce`, `RowsKeepTheirAppliance`, `ProbeHarmsNothing` |
| `entry_mac` | as `entries` | violates `FollowsItsOwnMac` |

Deadlock is checked in the runs of the settle guard, the session and the pushes,
which go on for ever. In the others budgets run out, or a probe ends, and the
system may stop: they say `CHECK_DEADLOCK FALSE`.

Why the bounds are enough.

* *Windows.* A window can be taken over by one other command and come back; two
  commands, one with two windows, give every order of three windows, and the
  proofs cover any number. Lost updates need two writers and two fields.
* *Session.* Two faults are a failure and the retry's, or a failure and the
  cancellation of what deals with it, or a cancellation and an unload beside the
  thread it left. One job left behind is what it takes to meet a holder's. The proofs
  cover any number of either. A `TimeoutLimit` of 2 (3 in the code) is the
  least at which a deferral is followed by a reconnect. Nothing bounds polls,
  attempts or commands.
* *Pushes.* One change has its flag up while another comes, and a persist's push
  falls in between; the safety is proved for any number.
* *Credentials.* Two flows are what it takes for one's callback to meet the
  other's listener, and for a reauthentication to race a setup.
* *Options.* A turn teaches, another confirms or contradicts; one dialog with its
  wait meets each of them, a reload and a restart. Three payloads, two of them of
  one slot, tell a changed program from another one.
* *Lifecycle.* A snapshot older than the appliance, an answer missed in the first
  cycle, a choice or a restart in between, and one more of either on the reloaded
  entry. The shapes are those of the recorded dumps: indexed siblings with an
  empty slot, prefixed siblings of two kinds and in two spellings, an oven's
  cavity, a flat board.
* *Controls.* Two cycles with two flaps give every end a second announcement could
  come from (any number is proved, as of everything else in this run). Two calls
  on a card, one waiting, or one and
  the remote control and a lost command. Course tables are all visited. Debug
  budgets are of calls, faults (a cancellation is one), moves of the appliance, another
  command or the refresh thread, and attempts: (2,1,0,0), (2,0,0,1), (1,1,1,1),
  (1,1,0,2), (1,2,0,0) and (1,0,2,1) put two calls, or one and a job left behind, beside
  each of the events that could fall between.
* *Starts.* Two reports are a choice, a turned panel, and another choice. Two
  faults are the lost answer of a start and of its retry. `MaxTogether` bounds lost
  answers and commands together (5 for a washer, 3 for the others).
* *Entries.* Two moves swap the two appliances, or are a move and a reset. One move
  is enough for a lease to change while the form for an unknown type is open.

## 4. What holds and what does not

The properties are stated with their comments at the end of each module. Each
property of a passing run has a mutant in `PROJECT.json`: a slip defined next to the
operator it replaces, under which TLC finds the property violated.

Where the code does not do what one would expect, the module keeps the statement
that fails, out of the passing cfgs; adding it to the named run's cfg as an
INVARIANT (or PROPERTY) shows the behaviour.

* **No lost update** (`AppliesAtomically`, `MergeSeesLatest`): inside `apply`.
  It fails one step before: the optimistic list is completed outside the lock,
  and a notification between the two is erased (`WritesOnlyItsBody`, with
  `settle_converge`, `coordinator.py:2902`).
* **Windows** (`WindowKept`, `FailedWindowOnlyPutBack`): a command that has not
  failed keeps its window, with one exception, the finding of `settle_newer_write`:
  a re-arm on retry replaces a newer command's window and a later failure puts
  back what was there before the FIRST one. And a failed command's window may be
  put back by the next to fail (`FailedWritesRelease`, with `settle_windows`).
* **The guard** holds against the sweep (`SweepHonoursWindow`) but not against
  the two appliers on threads, which check the window before they take the
  cache's lock (`HeldWhileSettling`, with `settle_windows`).
* **Convergence** (`CacheConverges`): all of the above heals; once commands and
  panel have come to rest the cache comes to equal the appliance.
* **Push** (`PushIsLive`): when the lock is free and the entry not unloaded,
  observe mode means relations on the session in use, unless the claimed session is
  loose. Two things loosen one. A debug read that fails closes the session without the
  downgrade (`coordinator.py:3400`). And a cancelled command does: at 3025 the session is
  closed and the downgrade that follows never runs, so the next poll reconnects on its
  first try and push stays claimed on a session without relations; at 3023 the thread it
  leaves may put a session in use beside the claim. Such a claim lasts until another
  failure takes it down (`SilentPushEnds`, with `observe_session`).
* **Sessions** (`NoOrphanSession`, `ClosedStaysClosed`): one at a time, and none
  in use for good after unload, cancelled or not. Excepted from the first are the
  loose sessions again: a command cancelled at 3023 frees the lock while its thread is
  still at the handshake, the next holder finds no session and opens one, and of the
  two one is overwritten and never closed. And `_close_session`'s read and clear may
  enclose another thread's publication, and then a session that nothing holds
  stays open (`NothingOpenAfterUnload`, `coordinator.py:1315`).
* **Recovery** (`PushRecovers`): when faults end, push comes back and stays, or is claimed
  on a loose session, which is then claimed for ever.
* **Publishing** (`NoChangeForgotten`, `PublishedInTheEnd`): the flag is lowered
  before the reps are read, so a change that finds it up is still read by the
  job it stands for, also when a persist lowers the flag out of turn.
* **Views** (`ExtrasReachViews`): what is learnt on a thread but dropped from the
  memo on the loop never sticks. A rep's change is dropped from the memo on its
  own thread, while the loop may be building a view from the reps before, and
  that view sticks until the next change, although the push has published the
  new data (`ViewIsCurrent`, `coordinator.py:751`).
* **Credentials** (`StoredAsAccepted`, `ExchangeEnds`): what is stored is one accepted
  whole, and the port comes free.
* **Programs and modes** (`SavedAndShown`, `PickRunsProgram`, `DialogSettles`): with
  the queue empty, memory, entry and select agree; a label runs the program that
  is shown under it, unless the program's name was taken by the dialog before the first
  sweep after a start and proves to be a course's own: nothing is known then of the
  names the appliance gives, so the dialog accepts it (`config_flow.py:2402`), and picking
  it runs the course, which comes first (`OfACourse`). Not promised: the candidate offered for naming may be the
  wrong one when the course changes between two polls, and a form opened before a
  slot was named elsewhere erases that name when it is submitted.
* **Lifecycle** (`SettledAsLive`, `RememberedKept`, `ReloadsEnd`): a settled entry has
  the entities of its live discovery, each unit once, and no dead row; a flat
  board's resources are not forgotten; reloads end, as the snapshot is on disk
  before one is asked for. An indexed candidate owns every `/x/<n>` href; an
  enumeration that fails on the first load loses the siblings until the next
  one; the keys of switched-off subdevices are compared with their case, which
  the ids probed for are not.
* **Identity** (`RowsUnderSeed`, `RowsKeepTheirAppliance`, `AddedOnce`): an entry's rows
  are under its key, and stay with its appliance, over resets and moves; an
  appliance is not added twice while its entry has met its UUID, or awaits it at
  the address the appliance is found at. Twins remain possible for an entry that
  was hard-reset, host-keyed or moved before v4. And for one more: an appliance of
  an unknown type is asked about in a form, whose end looks nothing up again
  (`config_flow.py:1657`); an entry that awaits its UUID may have followed its lease
  onto the probed address while the form was open. The attempt to prove `AddedOnce`
  found it, and the sixth situation of `entries` reaches it; the property excepts it.
  A pre-v4 entry that polled an appliance it refused has its legacy serial frozen
  as its device key, after which the legacy duplicate check no longer sees it. The
  MAC does not stay (`FollowsItsOwnMac`, the finding of `entry_mac`).
* **Probing** (`ProbeHarmsNothing`): other credentials are asked for only after a
  real refusal, at most one peer of each pass is left half open, and nothing is
  dialled where two appliances could be meant.
* **8888** (`BridgeShowsSwept`, `StartRanOnce`, `StartsAndStopsAsShown`): a start of a
  washer that was idle runs what was shown; one reported as accepted has had the
  appliance running, or has sent a Run that was answered and went unheeded, which no
  read tells from one that ran (`legacy_http.py:687`). An oven is sent at most one Run for
  one start, whatever answer is lost; the retry of another appliance's may send a second,
  which changes nothing of one that runs. A cavity offers what the divider was last
  read as, by a sweep or by a lone read. Courses without a usable default are left out; a
  panel-turned course that has the same default keeps a held setting of the
  dropped one (`legacy_http_transport.py:464`).
* **Cooks** (`CooksAsShown`, `PanelDropsChoices`, `ChoicesCanStart`): what is shown of a
  choice or a default is what a start sends, a held temperature once it passed
  the check of the range; a mode belongs to one cavity. A choice made
  while a start's PUT is awaited is cleared by its answer (`coordinator.py:3256`);
  `StartAnswered` has it, no property is about it.
* **Climate** (`CardShownIsOffered`, `CardChosenIsShown`, `CardKeepsTheRest`): an ordinary
  preset chosen in AIComfort leaves `ai_comfort` shown, and `set_hvac_mode(auto)` leaves
  AI comfort, contrary to its comment. Switching the beep off and on again sets
  it to 100: `_beep_write` takes the level to restore from the rep, which by then
  says Mute, contrary to its docstring (`BeepLevelKept`, with `controls`).
* **Courses** (`LevelsAsTheCourse`, `SwitchAsTheCourse`): a select offers no less than the
  course takes, and the level that is set, also one outside the mask or the list; where
  nothing is known of the course (`Silent`) the list alone is offered, and a level it omits
  is not. A level picked is taken unless the appliance refuses one its own mask has. What is
  said of a course is said where the width found is the table's own (`WidthFound`). A switch is judged
  where the course is in the table; of one outside it nothing is claimed where the list
  of courses is as long as the table, since that list is then asked for the order of the
  bytes (`washer.py:423`). `_course_codes_from_supported_options` says that
  it shares the split with the masks "so it can never drift apart"; the masks pass
  a check (`must_cover`) that it does not.
* **Progress** (`FinishHeldOneWindow`, `FinishTimeSteady`): assuming that the appliance
  does not change between the flattening of the data and the entities' write; if
  it does, a raw "finish" may be shown without the hold being armed.
* **Debug** (`DebugAside`, `WriteVerdictsTrue`): between the writes of a sequence that holds
  the lock nothing takes its turn. What can be sent there comes from a thread that needs
  none: the refresh, or one a cancelled call has left. The coordinator's relation lives as
  long as its session, but for an unsubscribe cancelled in its thread, which takes it
  along if the coordinator has subscribed meanwhile. A verdict is about what was read. `observe_resource` releases its tap before its relation, so what
  that relation pushes in between gets into the cache (`QueryKeptOut`, with
  `controls`).

## 5. Proofs

| Theorem | States |
|---|---|
| `SettleGuardProofs!TypeCorrect` | `Spec => []TypeOK` |
| `MergesSeeLatest` | `Spec => []MergeSeesLatest` |
| `ImplementsAtomicCache` | `Spec => AppliesAtomically` |
| `SweepsHonourWindows` | `Spec => []SweepHonoursWindow` |
| `WindowsKept` | `Spec => []WindowKept` |
| `FailedWindowsOnlyPutBack` | `Spec => []FailedWindowOnlyPutBack` |
| `ObserveSessionProofs!TypeCorrect` | `Spec => []TypeOK` |
| `OneSession` | `Spec => []NoOrphanSession` |
| `PushStaysLive` | `Spec => []PushIsLive` |
| `PublishPushProofs!TypeCorrect` | `Spec => []TypeOK` |
| `NothingForgotten` | `Spec => []NoChangeForgotten` |
| `ViewsGetExtras` | `Spec => []ExtrasReachViews` |
| `CredentialFlowProofs!TypeCorrect` | `Spec => [](TypedExchange /\ TypedFlows)` |
| `StoresWhatWasAccepted` | `Spec => StoredAsAccepted` |
| `OptionsFlowProofs!TypeCorrect` | `Spec => []TypedMemory` |
| `KeepsAndShows` | `Spec => []SavedAndShown` |
| `PickedProgramsRun` | `Spec => PickRunsProgram` |
| `EntriesProofs!TypeCorrect` | `Spec => []Typed` |
| `RowsStayUnderSeed` | `Spec => []RowsUnderSeed` |
| `RowsStayWithTheirAppliance` | `Spec => RowsKeepTheirAppliance` |
| `AddedOnlyOnce` | `Spec => AddedOnce` |
| `ProbesHarmNothing` | `PartsSpec => []ProbeHarmsNothing` |
| `StartsProofs!PanelDrops` | `Spec => []PanelDropsChoices` |
| `StartsAsShown` | `Spec => []CooksAsShown` |
| `BridgeShows` | `PartsSpec => []BridgeShowsSwept` |
| `BridgeStartsOnce` | `PartsSpec => []StartRanOnce` |
| `BridgeStartsAsShown` | `PartsSpec => StartsAndStopsAsShown` |
| `ControlsProofs!TypeCorrect` | `Spec => []Typed` |
| `FinishIsHeldOnce` | `Spec => FinishHeldOneWindow` |
| `FinishTimesSteady` | `Spec => FinishTimeSteady` |
| `ServicesAside` | `PartsSpec => []DebugAside` |
| `VerdictsAreTrue` | `PartsSpec => WriteVerdictsTrue` |
| `CardOffersWhatItShows` | `PartsSpec => []CardShownIsOffered` |
| `CardShowsWhatWasChosen` | `PartsSpec => []CardChosenIsShown` |
| `CardChangesNoMore` | `PartsSpec => CardKeepsTheRest` |
| `OffersWhatTheCourseTakes` | `PartsSpec => []LevelsAsTheCourse` |
| `RefusesAsTheCourse` | `PartsSpec => []SwitchAsTheCourse` |

They hold for every set of commands, fields and values, every body, any set of
threads, flows, appliances, entries, programs, modes and reports, any boards,
course tables, hosts, write sequences and settings, any cycle lengths, window,
threshold and limits, and any bounds. Assumed of the constants
(TLC evaluates each on the instance it checks):

* Settle windows, `ConstantsOK`: bodies are reps, the sets of commands nest, names
  differ. Sessions, `LimitOK`: the limits are numbers. Pushes: nothing. Sensors,
  `FinishOK` and `NoneIsApart`: numbers are numbers, nothing else is `None`.
* Credentials, `CredentialsOK`: a token is stored with a certificate or not at
  all, an address typed into a flow is an appliance's.
* Programs, `CourseConstantsOK` and `FlowConstantsOK`: payloads have a slot, and a
  typed name is none of the names a course without a personal label is shown by. The
  personal labels are a constant: an appliance does not rename its courses. The
  dialog refuses only the personal labels it has read and names already given; a name equal to a
  translated course name is let through on purpose (`config_flow.py:2389`), and the
  select then shows two equal labels, which is what the assumption sets aside.
* Entries, `BookOK`: the installation a behaviour starts from is one an older
  release left: an identity is no address, appliances that share one (the
  logical devices of a board) share the serial, an entry registered under an
  identity has its appliance's serial, and one with a PSK has the di it was
  imported for. Nothing is assumed of two entries together.
* Cooks, `CookConstantsOK`: reports have their fields, `None` is no set of modes, and
  no report comes with the tag of a shared modeSpec, which `share_mode_spec` alone sets.
* The bridge, `BridgeConstantsOK`: in it `CommandsOK` says what the entities write - a
  laundry's start or stop says nothing but that (`operational.py:328`), an oven's start
  names a mode (`cook.py:496`) - and `SettingsOK` that a washer reports its temperature
  and what else can be chosen before a start, since an entity is made of what the
  record has. Nothing is assumed of the answers.
* Probing, `ProbeOK`: the preferred ports are in the range, the multicast port is not,
  responders are a sequence. Of a host nothing is assumed.
* Debug services, `DebugOK`: the watched href exists, a plan is a sequence of writes.
* The card, `ClimateOK` with `BoardOK` for each board: two fan speeds share neither a code
  nor a name (with one name for two, the speed chosen could be shown as the other), an
  appliance that lists presets lists Off, one with WindFree can cool, one whose vane has
  directions can fix it, and no preset is called "none" or "ai_comfort", the names the
  card adds. The setpoint's two channels, their steps and the presets
  learned later are any.
* Courses, `LaundryOK` with `TableOK` for each board, which is the format documented at
  `laundry.py:256`: a record for each course, with a code of its own, a group of a kind at
  most once, the slot of the downloaded program with empty masks, and the switch's bytes
  in the table's order. Of the width, the header, the list of courses, the courses
  outside the table and what the appliance refuses nothing is assumed. TLC evaluates it
  on the recorded tables.

**`SettleGuardProofs`.** `TypeOK` is not inductive: a merge yields a full rep only
because it starts from the cached one, and two coroutines are never in one
stretch only because `loop` says so. `Ordered == TypeOK /\ MergeSeesLatest /\
LoopHeld` is; the first two theorems follow from it. For the refinement, a
report or body is `hand[x]` of `AtomicCache`; the steps of `SettleGuard` map to
`Bring`, `Apply`, `Drop` or a stutter, and the one fact needed beside `Ordered` is
`EmptyHanded`: an actor that is idle has nothing in its hand.

**The windows.** Of the thirty-odd disjuncts of `Next`, only six kinds of
thing happen to the windows: a command notes the window it finds, arms one,
gives up; a lapsed window is deleted; a window expires; commands move on
(`WindowSteps`). The window invariants are proved over these six.
`Numbered` says how the numbers relate: a command's first window is newer than
the one it noted and not newer than its latest, windows of different commands
differ, none is newer than `arms`. `WindowKept` alone is not inductive: the
failure of another command may put an older window in place, so `Kept` adds, for
each pair of commands, which windows the failure of one could put back over the
other's (`KeptOver`). `PutBack` says of every window in place that is not its
command's latest, or whose command failed, that another command noted it.
`SweepsHonourWindows` needs only `Ordered`: between the sweep's gate and its merge the
loop is the sweep's, and arming needs it.

**`ObserveSessionProofs`.** `NoOrphanSession` is inductive with what says which
session each party has in hand (`Owned`): a job that is connecting found none in
use, the one it has opened is `mine`, and whoever closes one closes the one in
use, until unload. `Held` ties a job's steps to the lock. Cancelled jobs' threads take the same steps, but
only while the session in use is loose (`Owned`), which is what makes the exception
inductive. For `PushIsLive`, the
claim is followed while it is false: `Claimed` says that with push claimed the claim is
loose, or the session in use is the registered one that the refresh thread has, or the
job that holds the lock is at a step from which it has to downgrade
(`Downgrading`). A deferral after a timeout is not such a step, and needs that the
session was kept. `Burst` keeps an attempt's relations through its wait.

**`PublishPushProofs`.** `NoChangeForgotten` is not inductive in its part about the
reps: an applier that finds the flag up adds nothing. `FlagStandsForPush` says
what the flag stands for (a push about to be queued, queued, or taken but not
yet at its reset), and `ReadOrFollowed` that a publication from reps already
outdated is followed by another. The extras' part and `ExtrasReachViews` are
inductive with the types alone.

**`CredentialFlowProofs`.** `InHand` says of each step of a flow what its draft may
hold: at which step an address, a unit, a token or a certificate has been
proved, and against which appliance. `Awaited`: the flow that owns the running
exchange waits for it, so an answer cannot reach a draft that has moved on to
another appliance. Storing is then a matter of the last steps of the three
sources. That stored tokens come with a certificate is what makes a reauth's
reuse of one sound.

**`OptionsFlowProofs`.** `SavedAndShown` speaks of an empty queue; its inductive form
says what each kind of job is queued for (`QueuedToSave`, `QueuedToShow`).
`PickRunsProgram` needs two facts about names: those in the store are distinct, and no
course's but for those given unread (`NamesDistinct`, of the saved copy too, since a
reload brings it back), and a memoised
view may lag behind the store in its payloads but never in its names
(`MemoFits`) - which is why a pick by name from an old view still runs the
program the store has now.

**`EntriesProofs`.** The rows are where the next start seeds them (`Tidy`), before
and after migration; nothing is loaded or probed of an entry before it is
migrated (`LoadedLate`, `FlowsLate`). `RowsKeepTheirAppliance` is about appliances, which
the code knows by what they report, so `Kept` ties the two: every report in
use is what the appliance says now or said before its reset (`SeenReports`,
`SeenFlow`), and every entry `Claims` its appliance: it is keyed by an address, or has
that appliance's serial and a key of an appliance of that serial. The lemmas
`ResolvedClaim` and `MatchedClaim` say that re-keying and following a lease move a
claim only between such appliances; `Bound` adds the di for entries with a PSK.
`AddedOnce` follows from the unique ids: a second entry with the key the probe
resolved gives way, and so does one that awaits its di at that address.
For the probe (`ProbeInv`), `Evidence` says what the pass has on record: an appliance
that is full lets every attempt time out, and an alert that is believed came
from one that is not and does not accept the credential; `Peers` counts one peer
left half open for a pass
diagnosed, of which there are two at most, as a leaf is minted anew once.

**`StartsProofs`.** Choices are held against the device values they were made on
(`MadeOnBase`), and are shown only while these are what the report says. That what
is shown is sent (`ShownIsSent`) and that a mode is of one cavity (`OneCavityPerMode`)
are facts about `Overlay`, `PlanStart` and `Modes`, for every report and every choice,
reachable or not.
Of the bridge, `StartRanOnce` is inductive only with what leads up to an accepted
start (`BridgeInv`). `Routed` says which writes reach which step of a command, so that an
oven, whose request carries the Run and the settings, never comes to the steps of a
washer, which sets and then runs. `Expected` ties the two ends: what a start pressed
on an idle washer would run, held values over the device's, is what was shown when it
was pressed, and from the first request on nothing is held any more. It rests on
`HeldOverReported` (a held value stands over the base that was reported) and `Washes`
(what is held are settings the record has). `Divided` follows the divider from the
appliance to the listing, the sweep or the lone read and what is shown.

**`ControlsProofs`.** That finish is shown for one window follows from one fact:
the entity's hold (`_sticky_until`, `_sticky_spent`) is what the history says,
armed when "Finish" was first read since a running cycle (`HoldsSinceSeen`). That it
does not come back needs to know where a "finish" can come from. It is raw only of a
rep that is active and says Finish (`Ended`), and the data are flattened from a rep
that may be newer than the one the hold was computed from; so the invariant
follows an end from the appliance (`EndsACycle`: it comes after a cycle that was
seen to run) to the cache (`Met`: an end not yet evaluated is still pending) and
to the data (`Flattened`), and says that once finish was told and is shown no
more, none of the four could show it again (`Announced`). `FinishTimeSteady` needs
only the types, and the arithmetic of the threshold.

*Debug services* (`DebugInv`): from its first write to its last, a sequence that asked for the lock has it, and the
last to send anything was it or a thread that needs no lock (`Alone`); while push mode's
session lives, its relation is there or a job left behind has unsubscribed on it
(`Subscribed`). That
a verdict is true also where an href is written twice needs that the last
write of an href is the one it is compared with (`LastIsWritten`).

*The card* (`CardInv`): the readings are of what the board has (`Readings`), each
call asks
for what the card offers and is at a step of its own (`Calls`), and `Undisturbed` says
that a call which nothing came between knows the appliance as it is until it has
sent what it was asked for. So its last command is computed from what is true,
and the answer, read back, shows the choice: over the codes of the board, the two
channels of the setpoint, and the Cool that comes first for WindFree.

*Courses* (`DrumInv`): the state says little (readings are of the board's courses and
levels, and a level picked is taken); the weight is in the lemmas about the tables.
`SplitOfTable`: split by its own width, a table yields each course's record, by its
code. `StatedWidth`: that width is found if it is stated and the list of courses has no
others, so the condition `WidthFound` of the property holds there; elsewhere the
smallest width that passes may be another. `MaskOfCourse`: the first group
of the kind in the record is the course's only one, and its mask is what is read.
`AdvertisedByMask`: a mask is the levels advertised of the course among the first eight.
`OrderOfTable`: the codes sorted by where they stand are in the order of the switch's
bytes, whatever the list of courses beside the table says.

**Only model-checked:** the liveness properties, which are beyond the prover, as
is `ENABLED`; what a fold or a recursive definition computes (enumeration,
translation); and

* `SettledAsLive` (`EntryLifecycle`): one unit once is a statement about a fold over
  discovered units, and rows that match under two types would need an assumption
  about the catalogue (a key means one platform and href in every type) that the
  code does not state;
* `RememberedKept`: it holds because no firmware of the instance brings an advertised
  resource back. With one that does, and comes between the discovery and its
  snapshot, what the former remembered is what was advertised then;
* `ChoicesCanStart`: it holds of ranges whose bounds are on their step, which the
  code checks of no appliance.

## 6. Fairness

* A request ends: every one has a timeout. A job in a thread goes on.
* A thread left by a cancelled coroutine goes on as well.
* A coroutine that can run does; time passes; the coordinator keeps polling
  (Home Assistant reschedules it; an entry keeps a listener for that).
* Strong fairness only where a lock is taken: `asyncio.Lock` serves its waiters
  in order, and the cache's lock is held for a few instructions.
* `RetryObserve` strongly: its timer runs out again and again while polling.
* In `PublishPush`: queued jobs run in order, so strongly for a push, a persist and
  the end of a sweep. A poll is assumed to succeed only where one was asked for
  (`async_request_refresh`): nothing else has to wait for it to be published.
* In `CredentialFlow`: the job of the exchange goes on (`Job`, each of its waits has a
  timeout), and the flow manager runs the step of a progress task that has begun
  or ended (`StartExchange`, `TokenReceived`). No callback, and no user, is assumed.
* In `OptionsFlow`: polls, queued jobs, the probing task and its step. No dialog,
  turn of a dial or reload is assumed.
* In `EntryLifecycle`: only what the loop runs by itself (`Registering`: the end of
  setup, the forwarding, a scheduled reload). The appliance may never answer.
* The runs `controls`, `starts` and `entries` check safety only, without fairness.
* Not assumed anywhere: that anybody sends a command, calls a service, cancels one or unloads;
  that the appliance pushes, takes a write, or shows one it took.

## 7. Limits of the models

One href in the settle guard and the session; the order of threads at the grain
of the lock operations and of the reads and writes of shared attributes;
`StateCache`, the DTLS session and Home Assistant's scheduler by how the code
uses them. `PublishPush` knows what data and views were made of, not what they
show; availability is in no model.

Left out of the modules:

* `EntryLifecycle`: the removal of the entry, later polls, the typing of mode specs,
  the count `/multidevice` gives, `exists_fn` over a whole view.
* `Climate`: unmapped modes and HeatClean, the tropical night, the selection of a
  ventilation mode; the option to learn modes is taken to be on; the settle
  window is not in it, so a card's command is confirmed or lost at once.
* `OptionsFlow`: the check of translated names; the manual form edits one name at a
  time.
* `CredentialFlow`: the wording of forms, and the lookup of an address, which is
  `SetupProbe`'s. `EntryBook`: with no entry yet the leases stay.
* `DebugServices`: more than one sequence or observation at a time; two equal jobs left
  behind count as one, and a refresh told to stop runs once more at most.
* `LegacyBridge`: settings that are answered with a start and not taken, which the code
  says of a Run alone.
* TLS, the DTLS record layer, HTTP keep-alive, datagrams: their outcomes only.

## 8. Not modelled, and the plan

The capability tables beyond those named above (fridges, purifiers, hoods, robot
vacuums, lights) are descriptors: a field, a name and a one-line reading each, with
no state of their own; so are the platforms that show them, the translations and
the catalogue. A model of one would repeat it.

What is left, most important first:

1. Proofs: the parts of `SettledAsLive` that are about the load and its rows, under an
   assumption on the catalogue that the catalogue's own tests would have to state.
2. `PortFollow`: `_rediscover_port`'s backoff and `_persist_moved_port` over
   `moved_secure_port`, a port followed, proven and stored.
3. Sub-polls: the nine slots, the rotation and the budgets; a flat board's poll.
4. The 8888 session's close and `AuthRejected` beside `ObserveSession`.
5. The alarms resource, which is replaced whole, and the discrepancies a sweep finds.
