----------------------------- MODULE SettleGuard -----------------------------
(***************************************************************************)
(* The write-settle guard of one resource (href): ObserveManager.apply and *)
(* its settle window (observe.py), driven by the commands of               *)
(* LocalThingsCoordinator.async_send_command (coordinator.py).             *)
(*                                                                         *)
(* Four kinds of actor meet on one cache entry:                            *)
(*   - commands, coroutines on the event loop: an optimistic merge, a      *)
(*     settle window, then a PUT under the session lock;                   *)
(*   - the sweep: /device/0 read in an executor thread, applied on the     *)
(*     event loop after the session lock is released;                      *)
(*   - the sub-poll: read AND applied in an executor thread, under the     *)
(*     session lock;                                                       *)
(*   - notifications: applied on the session's reader thread, under no     *)
(*     lock but the cache's.                                               *)
(* Code on the event loop runs between two awaits without another          *)
(* coroutine in between ("loop"), but not without the two threads.         *)
(*                                                                         *)
(* A deadline is abstracted to the number of the window it belongs to:     *)
(* every window lasts the same _write_settle_s, so windows expire in the   *)
(* order they were armed and "expired" says how far time has come.         *)
(***************************************************************************)
EXTENDS Integers, Reports

CONSTANTS
    Commands,    \* the commands sent, each once
    Body,        \* Body[c]: the fields command c writes
    ListWrites,  \* the commands whose fields are entries of one list
    Retrying,    \* the commands whose PUT may meet a dead session
    MaxChanges,  \* bound: changes made at the appliance's own panel
    Nobody

Sweep   == "sweep"
Subpoll == "subpoll"
Notify  == "notify"
Appliers == {Sweep, Subpoll, Notify}
Actors   == Appliers \cup Commands

ASSUME ConstantsOK ==
    /\ Body \in [Commands -> Reps]
    /\ ListWrites \subseteq Commands /\ Retrying \subseteq Commands
    /\ MaxChanges \in Nat
    /\ Commands \cap Appliers = {}
    /\ Nobody \notin Actors

VARIABLES
    device,     \* what the appliance holds and would report
    taking,     \* commands the appliance has taken but does not show yet
    changes,    \* changes made at the panel so far
    cache,      \* StateCache's rep of the href
    cacheLock,  \* holder of _cache_lock
    prior,      \* prior[x]: the rep x read under _cache_lock
    settle,     \* _settle_until: number of the window, 0 when there is none
    expired,    \* the windows numbered up to this one are past their deadline
    arms,       \* windows armed so far
    loop,       \* coroutine in the middle of a stretch without awaits
    lock,       \* holder of _session_lock
    pc,         \* where each command is
    draft,      \* optimistic_body of each command, until it is merged
    previous,   \* previous_settle of each command
    armed,      \* armed_settle of each command: its latest window
    first,      \* the window each command armed first
    step,       \* where each applier is
    rep         \* the rep each applier holds

deviceVars  == <<device, taking, changes>>
cacheVars   == <<cache, cacheLock, prior>>
windowVars  == <<settle, expired, arms>>
commandVars == <<pc, draft, previous, armed, first>>
applierVars == <<step, rep>>
vars == <<deviceVars, cacheVars, windowVars, loop, lock, commandVars, applierVars>>

TypeOK ==
    /\ device \in State
    /\ taking \subseteq Commands
    /\ changes \in 0..MaxChanges
    /\ cache \in State
    /\ cacheLock \in Actors \cup {Nobody}
    /\ prior \in [Actors -> Reps]
    /\ settle \in Nat /\ expired \in Nat /\ arms \in Nat
    /\ loop \in Commands \cup {Sweep, Nobody}
    /\ lock \in Commands \cup {Subpoll, Nobody}
    /\ pc \in [Commands -> {"idle", "drafted", "merging", "merged", "queued", "put",
                            "put again", "answered", "confirm", "confirm refusal",
                            "landed", "failed"}]
    /\ draft \in [Commands -> Reps]
    /\ previous \in [Commands -> Nat]
    /\ armed \in [Commands -> Nat]
    /\ first \in [Commands -> Nat]
    /\ step \in [Appliers -> {"idle", "read", "passed", "merging"}]
    /\ rep \in [Appliers -> Reps]

Init ==
    /\ device \in State
    /\ taking = {}
    /\ changes = 0
    /\ cache = device
    /\ cacheLock = Nobody
    /\ prior = [x \in Actors |-> NoRep]
    /\ settle = 0 /\ expired = 0 /\ arms = 0
    /\ loop = Nobody
    /\ lock = Nobody
    /\ pc = [c \in Commands |-> "idle"]
    /\ draft = [c \in Commands |-> NoRep]
    /\ previous = [c \in Commands |-> 0]
    /\ armed = [c \in Commands |-> 0]
    /\ first = [c \in Commands |-> 0]
    /\ step = [a \in Appliers |-> "idle"]
    /\ rep = [a \in Appliers |-> NoRep]

-----------------------------------------------------------------------------
(* The settle window.                                                      *)

\* Slip: a window that never lapses.
SettlingForEver == settle # 0

\* _is_settling: a window is there and its deadline has not passed.
Settling == settle > expired

\* _is_settling deletes an entry it finds past its deadline.
Lapse == settle' = IF Settling THEN settle ELSE 0

\* mark_write_pending: a new window replaces whatever is there.
MarkWritePending(c) ==
    /\ arms' = arms + 1
    /\ settle' = arms'
    /\ armed' = [armed EXCEPT ![c] = arms']

\* Slip: a refusal undoes whatever window is there.
RestoreAnyWindow(c) == settle' = IF previous[c] > expired THEN previous[c] ELSE 0

\* Slip: a refusal leaves its window running.
RestoreNothing(c) == settle' = settle

\* restore_write_pending: unless a newer write has armed since, back to the
\* window the command found, if that one is still running.
RestoreWritePending(c) ==
    settle' = IF settle # armed[c] THEN settle
              ELSE IF previous[c] > expired THEN previous[c]
              ELSE 0

\* The deadline of the oldest running window passes.
Expire ==
    /\ expired < arms
    /\ expired' = expired + 1
    /\ UNCHANGED <<deviceVars, cacheVars, settle, arms, loop, lock, commandVars, applierVars>>

-----------------------------------------------------------------------------
(* ObserveManager.apply, after its gate: the read, merge and replacement   *)
(* of the cached rep, under _cache_lock.                                   *)

\* Slip: read, merge and replace outside _cache_lock.
TakeNoCacheLock(x) ==
    /\ cacheLock' = x
    /\ prior' = [prior EXCEPT ![x] = cache]
    /\ UNCHANGED cache

TakeCacheLock(x) ==
    /\ cacheLock = Nobody
    /\ cacheLock' = x
    /\ prior' = [prior EXCEPT ![x] = cache]
    /\ UNCHANGED cache

StoreMerged(x, new) ==
    /\ cache' = Merge(prior[x], new)
    /\ cacheLock' = Nobody
    /\ prior' = [prior EXCEPT ![x] = NoRep]

-----------------------------------------------------------------------------
(* The appliance.                                                          *)

\* Somebody turns a dial.
PanelChange ==
    /\ changes < MaxChanges
    /\ changes' = changes + 1
    /\ \E f \in Fields, v \in Values : device' = [device EXCEPT ![f] = v]
    /\ UNCHANGED <<taking, cacheVars, windowVars, loop, lock, commandVars, applierVars>>

\* A write the appliance took shows, some time after the answer.
DeviceShows(c) ==
    /\ c \in taking
    /\ taking' = taking \ {c}
    /\ device' = Merge(device, Body[c])
    /\ UNCHANGED <<changes, cacheVars, windowVars, loop, lock, commandVars, applierVars>>

\* What an appliance does with a PUT it received: take it, or not.
MayTake(c) == taking' \in {taking, taking \cup {c}}

-----------------------------------------------------------------------------
(* async_send_command, for a command that is not write-only.               *)

\* previous_settle is noted and the optimistic body drafted.  A body that
\* writes into a list (options, modes, items) is completed with the entries
\* the cache holds now, so that apply does not wipe them.
BeginCommand(c) ==
    /\ pc[c] = "idle" /\ loop = Nobody
    /\ loop' = c
    /\ pc' = [pc EXCEPT ![c] = "drafted"]
    /\ draft' = [draft EXCEPT ![c] = IF c \in ListWrites THEN Merge(cache, Body[c]) ELSE Body[c]]
    /\ previous' = [previous EXCEPT ![c] = settle]
    /\ UNCHANGED <<deviceVars, cacheVars, windowVars, lock, armed, first, applierVars>>

\* apply(..., "optimistic"): no gate, straight to the cache lock ...
EnterOptimistic(c) ==
    /\ pc[c] = "drafted"
    /\ pc' = [pc EXCEPT ![c] = "merging"]
    /\ TakeCacheLock(c)
    /\ UNCHANGED <<deviceVars, windowVars, loop, lock, draft, previous, armed, first, applierVars>>

\* ... and the merge.
MergeOptimistic(c) ==
    /\ pc[c] = "merging"
    /\ pc' = [pc EXCEPT ![c] = "merged"]
    /\ StoreMerged(c, draft[c])
    /\ draft' = [draft EXCEPT ![c] = NoRep]
    /\ UNCHANGED <<deviceVars, windowVars, loop, lock, previous, armed, first, applierVars>>

\* mark_write_pending comes after the optimistic merge; the next await is
\* the one on the session lock.
ArmWindow(c) ==
    /\ pc[c] = "merged"
    /\ MarkWritePending(c)
    /\ first' = [first EXCEPT ![c] = arms']
    /\ loop' = Nobody
    /\ pc' = [pc EXCEPT ![c] = "queued"]
    /\ UNCHANGED <<deviceVars, cacheVars, expired, lock, draft, previous, applierVars>>

\* _async_put enters "async with self._session_lock" and starts _do_put.
StartPut(c) ==
    /\ pc[c] = "queued" /\ loop = Nobody /\ lock = Nobody
    /\ lock' = c
    /\ pc' = [pc EXCEPT ![c] = "put"]
    /\ UNCHANGED <<deviceVars, cacheVars, windowVars, loop, draft, previous, armed, first, applierVars>>

\* The first PUT raises: close, pause and PUT again, the lock still held.
RetryPut(c) ==
    /\ pc[c] = "put" /\ c \in Retrying /\ loop = Nobody
    /\ pc' = [pc EXCEPT ![c] = "put again"]
    /\ MayTake(c)
    /\ UNCHANGED <<device, changes, cacheVars, windowVars, loop, lock,
                   draft, previous, armed, first, applierVars>>

\* A PUT came back with a code; after a retry, on_retry (_rearm) arms anew.
Answer(c) ==
    /\ pc[c] \in {"put", "put again"} /\ loop = Nobody
    /\ IF pc[c] = "put again" THEN MarkWritePending(c)
                              ELSE UNCHANGED <<arms, settle, armed>>
    /\ loop' = c
    /\ lock' = Nobody
    /\ pc' = [pc EXCEPT ![c] = "answered"]
    /\ MayTake(c)
    /\ UNCHANGED <<device, changes, cacheVars, expired, draft, previous, first, applierVars>>

\* 2.xx, and nothing to confirm.
Accepted(c) ==
    /\ pc[c] = "answered"
    /\ pc' = [pc EXCEPT ![c] = "landed"]
    /\ loop' = Nobody
    /\ UNCHANGED <<deviceVars, cacheVars, windowVars, lock, draft, previous, armed, first, applierVars>>

\* 2.xx with Remote Control off, or 4.00 from a control that may lie:
\* _took_effect awaits its delay before it reads back.
Unsure(c) ==
    /\ pc[c] = "answered"
    /\ \E where \in {"confirm", "confirm refusal"} : pc' = [pc EXCEPT ![c] = where]
    /\ loop' = Nobody
    /\ UNCHANGED <<deviceVars, cacheVars, windowVars, lock, draft, previous, armed, first, applierVars>>

\* The handler of HomeAssistantError and CancelledError.
Fails(c) ==
    /\ RestoreWritePending(c)
    /\ pc' = [pc EXCEPT ![c] = "failed"]
    /\ UNCHANGED <<arms, expired, draft, previous, armed, first>>

\* Any other code: command_refused.
Refused(c) ==
    /\ pc[c] = "answered"
    /\ Fails(c)
    /\ loop' = Nobody
    /\ UNCHANGED <<deviceVars, cacheVars, lock, applierVars>>

\* The second PUT raises too (command_failed), or the first did with an
\* oven's start unconfirmed, which is never sent twice.
GiveUp(c) ==
    /\ pc[c] \in {"put", "put again"} /\ loop = Nobody
    /\ Fails(c)
    /\ lock' = Nobody
    /\ MayTake(c)
    /\ UNCHANGED <<device, changes, cacheVars, loop, applierVars>>

\* The coroutine is cancelled at one of its awaits; a PUT in its thread
\* runs on.
Cancel(c) ==
    /\ pc[c] \in {"queued", "put", "put again", "confirm", "confirm refusal"}
    /\ loop = Nobody
    /\ Fails(c)
    /\ lock' = IF lock = c THEN Nobody ELSE lock
    /\ IF lock = c THEN MayTake(c) ELSE UNCHANGED taking
    /\ UNCHANGED <<device, changes, cacheVars, loop, applierVars>>

\* _took_effect: a read under the session lock. What it fails to read
\* counts as taken, unless the appliance had refused (strict). A refusal
\* it overturns may still have Remote Control's confirmation ahead.
Confirm(c) ==
    /\ pc[c] \in {"confirm", "confirm refusal"} /\ loop = Nobody /\ lock = Nobody
    /\ LET shown  == \A f \in DOMAIN Body[c] : device[f] = Body[c][f]
           strict == pc[c] = "confirm refusal"
       IN \/ /\ shown \/ ~strict
             /\ \E where \in {"landed", "confirm"} :
                   (where = "landed" \/ strict) /\ pc' = [pc EXCEPT ![c] = where]
             /\ UNCHANGED <<windowVars, draft, previous, armed, first>>
          \/ /\ ~shown \/ strict
             /\ Fails(c)
    /\ UNCHANGED <<deviceVars, cacheVars, loop, lock, applierVars>>

-----------------------------------------------------------------------------
(* Reports.                                                                *)

\* _poll_once: /device/0, inside one hold of the session lock.
ReadSweep ==
    /\ step[Sweep] = "idle" /\ lock = Nobody /\ loop = Nobody
    /\ step' = [step EXCEPT ![Sweep] = "read"]
    /\ rep' = [rep EXCEPT ![Sweep] = device]
    /\ UNCHANGED <<deviceVars, cacheVars, windowVars, loop, lock, commandVars>>

\* _poll_hrefs_blocking, its thread covered by the session lock until the
\* rep is applied.
ReadSubpoll ==
    /\ step[Subpoll] = "idle" /\ lock = Nobody /\ loop = Nobody
    /\ lock' = Subpoll
    /\ step' = [step EXCEPT ![Subpoll] = "read"]
    /\ rep' = [rep EXCEPT ![Subpoll] = device]
    /\ UNCHANGED <<deviceVars, cacheVars, windowVars, loop, commandVars>>

\* A notification leaves the appliance with some of the fields; it is
\* handled when the reader thread gets to it.
Push ==
    /\ step[Notify] = "idle"
    /\ step' = [step EXCEPT ![Notify] = "read"]
    /\ \E S \in SUBSET Fields \ {{}} :
          rep' = [rep EXCEPT ![Notify] = [f \in S |-> device[f]]]
    /\ UNCHANGED <<deviceVars, cacheVars, windowVars, loop, lock, commandVars>>

\* Slip: the sweep applied from the executor, like a sub-poll.
LoopFree(a, where) == UNCHANGED loop

\* The sweep is applied by the event loop and keeps it to the end.
LoopAt(a, where) ==
    IF a # Sweep THEN UNCHANGED loop
    ELSE /\ loop \in {Nobody, Sweep}
         /\ loop' = IF where = "idle" THEN Nobody ELSE Sweep

MoveTo(a, where) ==
    /\ step' = [step EXCEPT ![a] = where]
    /\ rep' = IF where = "idle" THEN [rep EXCEPT ![a] = NoRep] ELSE rep
    /\ LoopAt(a, where)
    /\ lock' = IF a = Subpoll /\ where = "idle" THEN Nobody ELSE lock

\* apply's gate: dropped while a window runs.
Gate(a) ==
    /\ step[a] = "read"
    /\ MoveTo(a, IF Settling THEN "idle" ELSE "passed")
    /\ Lapse
    /\ UNCHANGED <<deviceVars, cacheVars, expired, arms, commandVars>>

\* Past the gate, apply waits for _cache_lock ...
EnterCache(a) ==
    /\ step[a] = "passed"
    /\ MoveTo(a, "merging")
    /\ TakeCacheLock(a)
    /\ UNCHANGED <<deviceVars, windowVars, commandVars>>

\* ... and replaces the cached rep.
MergeReport(a) ==
    /\ step[a] = "merging"
    /\ MoveTo(a, "idle")
    /\ StoreMerged(a, rep[a])
    /\ UNCHANGED <<deviceVars, windowVars, commandVars>>

-----------------------------------------------------------------------------
CommandStep(c) ==
    \/ BeginCommand(c) \/ EnterOptimistic(c) \/ MergeOptimistic(c) \/ ArmWindow(c)
    \/ StartPut(c) \/ RetryPut(c) \/ Answer(c)
    \/ Accepted(c) \/ Unsure(c) \/ Refused(c) \/ Confirm(c)
    \/ GiveUp(c) \/ Cancel(c)

ReportStep(a) == Gate(a) \/ EnterCache(a) \/ MergeReport(a)

Next ==
    \/ \E c \in Commands : CommandStep(c) \/ DeviceShows(c)
    \/ \E a \in Appliers : ReportStep(a)
    \/ ReadSweep \/ ReadSubpoll \/ Push
    \/ PanelChange \/ Expire

Spec == Init /\ [][Next]_vars

(***************************************************************************)
(* Fairness.  A request ends (every one has a timeout), a coroutine that   *)
(* can run is run, a thread is scheduled, time passes, and the coordinator *)
(* polls again.  asyncio.Lock serves its waiters in order, so a waiter     *)
(* among repeated holders is served: strong fairness where a lock is       *)
(* taken.  No command has to be sent, nothing has to be pushed, and a      *)
(* write the appliance took need never show.                               *)
(***************************************************************************)
Fairness ==
    /\ WF_vars(Expire)
    /\ SF_vars(ReadSweep)
    /\ \A a \in Appliers :
          WF_vars(Gate(a) \/ MergeReport(a)) /\ SF_vars(EnterCache(a))
    /\ \A c \in Commands :
          /\ WF_vars(MergeOptimistic(c) \/ ArmWindow(c) \/ Answer(c) \/ GiveUp(c)
                     \/ Accepted(c) \/ Unsure(c) \/ Refused(c))
          /\ SF_vars(EnterOptimistic(c) \/ StartPut(c) \/ Confirm(c))

FairSpec == Spec /\ Fairness

-----------------------------------------------------------------------------
(* What holds.                                                             *)

\* Whoever is about to replace the cached rep merges onto the rep as it is
\* now: of two reports, or a report and a command, that carry different
\* fields, neither erases the other's (issue #27; _cache_lock in apply).
MergeSeesLatest ==
    /\ \A c \in Commands : pc[c] = "merging" => cacheLock = c /\ prior[c] = cache
    /\ \A a \in Appliers : step[a] = "merging" => cacheLock = a /\ prior[a] = cache

\* The reports and bodies on their way into the cache.
Hand == [x \in Actors |->
            IF x \in Appliers THEN rep[x] ELSE draft[x]]

Atomic == INSTANCE AtomicCache WITH Holders <- Actors, hand <- Hand

\* With its threads and its lock, the cache is the atomic one: what enters
\* it is one whole report or body at a time, onto the rep of that moment.
AppliesAtomically == Atomic!Spec

\* A sweep past the gate meets no window: it is gated and merged in one
\* stretch of the event loop, where no command can arm in between. (The
\* other two appliers are threads, see HeldWhileSettling.)
SweepHonoursWindow ==
    step[Sweep] \in {"passed", "merging"} => ~Settling

\* A command that has not failed keeps its window to its deadline (or a
\* later one), however other commands on the href end - unless a command
\* sent before it armed again after it, on its retry, and then failed.
OverRearmed(c) ==
    \E o \in Commands \ {c} :
        /\ pc[o] = "failed"
        /\ previous[o] < armed[c] /\ armed[c] < armed[o]
        /\ first[o] < armed[o]

WindowKept ==
    \A c \in Commands :
        armed[c] > expired /\ pc[c] # "failed"
            => settle >= armed[c] \/ OverRearmed(c)

\* The window of a command that failed runs on only where another command
\* found it in place and put it back.
FailedWindowOnlyPutBack ==
    \A c \in Commands :
        pc[c] = "failed" /\ Settling /\ settle \in {first[c], armed[c]}
            => \E o \in Commands \ {c} : previous[o] = settle

\* Commands are finite and the panel comes to rest: then the cache comes
\* to hold what the appliance reports, and stays so - no refused write,
\* dropped report or late notification leaves it wrong for ever.
CacheConverges == <>[](cache = device)

-----------------------------------------------------------------------------
(* What the documentation says, and what overlapping commands or a thread  *)
(* outside the cache's lock break.                                         *)

\* "A newer write that has armed its own since keeps it"
\* (restore_write_pending): no other command's failure ends the window of
\* a command that has not failed.
NewerWriteKeepsWindow ==
    \A c \in Commands :
        armed[c] > expired /\ pc[c] # "failed" => settle >= armed[c]

\* "Not known to have landed: let the next poll replace the optimistic
\* value instead of holding it for the settle window"
\* (async_send_command): with every command sent failed, no window runs.
FailedWritesRelease ==
    (\A c \in Commands : pc[c] \in {"idle", "failed"}) => ~Settling

\* "the second writer would silently lose the first's fields" without the
\* lock (apply), and a body is completed "the way the device does"
\* (async_send_command): a command's merge touches nothing it does not
\* write.
WritesOnlyItsBody ==
    [][\A c \in Commands :
          pc[c] = "merging" /\ pc'[c] = "merged"
              => \A f \in Fields \ DOMAIN Body[c] : cache'[f] = cache[f]]_vars

\* "drops a just-written href's incoming updates for a few seconds"
\* (observe.py): while a window runs only a command changes the cache.
HeldWhileSettling ==
    [][Settling /\ settle' = settle /\ cache' # cache
         => \E c \in Commands : pc[c] = "merging"]_vars
=============================================================================
