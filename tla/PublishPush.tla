----------------------------- MODULE PublishPush -----------------------------
(***************************************************************************)
(* How a change of what the coordinator knows reaches Home Assistant:      *)
(* _on_cache_changed, _push_cache_snapshot and _publish_data, and the memo *)
(* of canonical_resources (coordinator.py).                                *)
(*                                                                         *)
(* Reps are applied on any thread: notifications on the session's reader   *)
(* thread, sub-polls in an executor thread, sweeps and commands on the     *)
(* event loop. A change clears the memo and, unless one is pending, queues *)
(* a push for the event loop. A downloaded program learnt from a rep       *)
(* changes what the integration merges onto the reps, and queues a persist.*)
(* The loop runs those jobs, builds views and publishes.                   *)
(*                                                                         *)
(* What is known has two parts, each abstracted to its number of changes:  *)
(* the reps, and the extras merged onto them (held cook choices, cloud     *)
(* programs). Code that puts them together reads the reps first.           *)
(***************************************************************************)
EXTENDS Integers

CONSTANTS
    Threads,      \* the threads that apply reps, beside the event loop
    MaxReps,      \* bound: changes of the reps
    MaxExtras,    \* bound: changes of the extras
    Nobody,
    NoView

Loop     == "loop"
Appliers == Threads \cup {Loop}
Known    == [reps: Nat, extras: Nat]

ASSUME PublishConstantsOK ==
    /\ MaxReps \in Nat /\ MaxExtras \in Nat
    /\ Loop \notin Threads
    /\ Nobody \notin Appliers
    /\ NoView \notin Known

VARIABLES
    live,        \* the cached reps and the extras, as they are
    cacheLock,   \* holder of ObserveManager's _cache_lock
    step,        \* where each applier is
    pending,     \* _push_pending
    pushes,      \* _push_cache_snapshot jobs queued on the loop
    persists,    \* _persist_cloud_courses jobs queued on the loop
    loop,        \* what the event loop is in the middle of
    memo,        \* _canonical_cache: the view of a subdevice, or NoView
    seen,        \* the reps the loop has read for a view or a publication
    data,        \* coordinator.data, as the listeners last got it
    due          \* a poll has been asked for, and none has ended since

applierVars == <<cacheLock, step>>
jobVars     == <<pending, pushes, persists>>
loopVars    == <<loop, memo, seen, data, due>>
vars == <<live, applierVars, jobVars, loopVars>>

TypeOK ==
    /\ live \in Known
    /\ cacheLock \in Appliers \cup {Nobody}
    /\ step \in [Appliers -> {"idle", "stored", "cleared", "flagged", "applied", "learnt"}]
    /\ pending \in BOOLEAN
    /\ pushes \in Nat /\ persists \in Nat
    /\ loop \in {"free", "applying", "viewing", "checking", "reset", "publish", "publishing"}
    /\ memo \in Known \cup {NoView}
    /\ seen \in Nat
    /\ data \in Known
    /\ due \in BOOLEAN

Init ==
    /\ live = [reps |-> 0, extras |-> 0]
    /\ cacheLock = Nobody
    /\ step = [a \in Appliers |-> "idle"]
    /\ pending = FALSE /\ pushes = 0 /\ persists = 0
    /\ loop = "free" /\ memo = NoView /\ seen = 0
    /\ data = live
    /\ due = FALSE

-----------------------------------------------------------------------------
(* Applying a rep, on any thread.                                          *)

\* The loop is held throughout by a coroutine that applies without awaiting.
MayRun(a) == a = Loop => loop = "applying"

Goto(a, s) == step' = [step EXCEPT ![a] = s]

\* The loop begins, and ends, applying a sweep's reps or an optimistic body.
BeginApplying ==
    /\ loop = "free"
    /\ loop' = "applying"
    /\ UNCHANGED <<live, applierVars, jobVars, memo, seen, data, due>>

EndApplying ==
    /\ loop = "applying" /\ step[Loop] = "idle"
    /\ loop' = "free"
    /\ UNCHANGED <<live, applierVars, jobVars, memo, seen, data, due>>

\* apply stores a rep that differs: StateCache calls _on_cache_changed with
\* _cache_lock still held.
StoreRep(a) ==
    /\ step[a] = "idle" /\ MayRun(a)
    /\ cacheLock = Nobody
    /\ live.reps < MaxReps
    /\ cacheLock' = a
    /\ live' = [live EXCEPT !.reps = @ + 1]
    /\ Goto(a, "stored")
    /\ UNCHANGED <<jobVars, loopVars>>

\* One that does not differ: _on_cache_changed returns at once.
StoreSameRep(a) ==
    /\ step[a] = "idle" /\ MayRun(a)
    /\ cacheLock = Nobody
    /\ Goto(a, "applied")
    /\ UNCHANGED <<live, cacheLock, jobVars, loopVars>>

ClearMemo(a) ==
    /\ step[a] = "stored"
    /\ memo' = NoView
    /\ Goto(a, "cleared")
    /\ UNCHANGED <<live, cacheLock, jobVars, loop, seen, data, due>>

\* The test and the set of the flag are one step, under _push_pending_lock.
RaiseFlag(a) ==
    /\ step[a] = "cleared"
    /\ pending' = TRUE
    /\ IF pending
       THEN Goto(a, "applied") /\ cacheLock' = Nobody
       ELSE Goto(a, "flagged") /\ UNCHANGED cacheLock
    /\ UNCHANGED <<live, pushes, persists, loopVars>>

QueuePush(a) ==
    /\ step[a] = "flagged"
    /\ pushes' = pushes + 1
    /\ cacheLock' = Nobody
    /\ Goto(a, "applied")
    /\ UNCHANGED <<live, pending, persists, loopVars>>

\* _on_rep_applied finds nothing to learn, or a downloaded program.
LearnNothing(a) ==
    /\ step[a] = "applied"
    /\ Goto(a, "idle")
    /\ UNCHANGED <<live, cacheLock, jobVars, loopVars>>

LearnProgram(a) ==
    /\ step[a] = "applied"
    /\ live.extras < MaxExtras
    /\ live' = [live EXCEPT !.extras = @ + 1]
    /\ Goto(a, "learnt")
    /\ UNCHANGED <<cacheLock, jobVars, loopVars>>

QueuePersist(a) ==
    /\ step[a] = "learnt"
    /\ persists' = persists + 1
    /\ Goto(a, "idle")
    /\ UNCHANGED <<live, cacheLock, pending, pushes, loopVars>>

-----------------------------------------------------------------------------
(* The event loop.                                                         *)

\* Slip: what the programs change is published, and the memo is left as it is.
PublishOnly ==
    /\ loop' = "reset"
    /\ UNCHANGED <<memo, seen>>

\* Slip: views are built anew, and nobody is told.
ForgetPush ==
    /\ memo' = NoView
    /\ UNCHANGED <<loop, seen>>

\* _on_cloud_courses_changed: drop the memo; refresh the Repair, which reads a
\* view unless the option is off or the appliance has no such rep; then push.
CloudCoursesChanged ==
    /\ memo' = NoView
    /\ \/ loop' = "checking" /\ seen' = live.reps
       \/ loop' = "reset" /\ UNCHANGED seen

RunPersist ==
    /\ loop = "free" /\ persists > 0
    /\ persists' = persists - 1
    /\ CloudCoursesChanged
    /\ UNCHANGED <<live, applierVars, pending, pushes, data, due>>

\* The user names a program, or turns the option on or off.
ChangeCourses ==
    /\ loop = "free" /\ live.extras < MaxExtras
    /\ live' = [live EXCEPT !.extras = @ + 1]
    /\ CloudCoursesChanged
    /\ UNCHANGED <<applierVars, jobVars, data, due>>

\* _hold_cook: a choice held until the cook starts is published at once.
HoldChoice ==
    /\ loop = "free" /\ live.extras < MaxExtras
    /\ live' = [live EXCEPT !.extras = @ + 1]
    /\ memo' = NoView
    /\ loop' = "publish"
    /\ UNCHANGED <<applierVars, jobVars, seen, data, due>>

\* async_start_cooking: the choices sent are dropped, and a poll asked for.
DropChoices ==
    /\ loop = "free" /\ live.extras < MaxExtras
    /\ live' = [live EXCEPT !.extras = @ + 1]
    /\ memo' = NoView
    /\ due' = TRUE
    /\ UNCHANGED <<applierVars, jobVars, loop, seen, data>>

\* canonical_resources, when the memo has no view.
ReadView ==
    /\ loop = "free" /\ memo = NoView
    /\ loop' = "viewing"
    /\ seen' = live.reps
    /\ UNCHANGED <<live, applierVars, jobVars, memo, data, due>>

\* The view just built goes into the memo, whatever was cleared meanwhile.
StoreView ==
    /\ loop \in {"viewing", "checking"}
    /\ memo' = [reps |-> seen, extras |-> live.extras]
    /\ loop' = IF loop = "viewing" THEN "free" ELSE "reset"
    /\ UNCHANGED <<live, applierVars, jobVars, seen, data, due>>

RunPush ==
    /\ loop = "free" /\ pushes > 0
    /\ pushes' = pushes - 1
    /\ loop' = "reset"
    /\ UNCHANGED <<live, applierVars, pending, persists, memo, seen, data, due>>

\* Slip: the flag is left up.
PublishFlagUp ==
    /\ loop = "reset"
    /\ loop' = "publish"
    /\ UNCHANGED <<live, applierVars, jobVars, memo, seen, data, due>>

\* _push_cache_snapshot lowers the flag, and goes on to publish.
ResetFlag ==
    /\ loop = "reset"
    /\ pending' = FALSE
    /\ loop' = "publish"
    /\ UNCHANGED <<live, applierVars, pushes, persists, memo, seen, data, due>>

\* The end of _async_update_data: the poll's result is what is known by now.
EndPoll ==
    /\ loop = "free"
    /\ due' = FALSE
    /\ loop' = "publish"
    /\ UNCHANGED <<live, applierVars, jobVars, memo, seen, data>>

\* _publish_data: entity_resources reads the reps and then the extras.
ReadReps ==
    /\ loop = "publish"
    /\ seen' = live.reps
    /\ loop' = "publishing"
    /\ UNCHANGED <<live, applierVars, jobVars, memo, data, due>>

Publish ==
    /\ loop = "publishing"
    /\ data' = [reps |-> seen, extras |-> live.extras]
    /\ loop' = "free"
    /\ UNCHANGED <<live, applierVars, jobVars, memo, seen, due>>

-----------------------------------------------------------------------------
ApplierStep(a) ==
    \/ ClearMemo(a) \/ RaiseFlag(a) \/ QueuePush(a)
    \/ LearnNothing(a) \/ LearnProgram(a) \/ QueuePersist(a)

LoopStep == StoreView \/ ResetFlag \/ ReadReps \/ Publish

Next ==
    \/ \E a \in Appliers : StoreRep(a) \/ StoreSameRep(a) \/ ApplierStep(a)
    \/ BeginApplying \/ EndApplying \/ LoopStep
    \/ RunPush \/ RunPersist
    \/ ChangeCourses \/ HoldChoice \/ DropChoices
    \/ ReadView \/ EndPoll

Spec == Init /\ [][Next]_vars

\* Threads and the loop go on with what they began, and a sweep has an end. Queued
\* jobs run in order, so one's turn comes although others are always ready. A poll
\* succeeds sooner or later, which is needed only where one is asked for.
Fairness ==
    /\ \A a \in Appliers : WF_vars(ApplierStep(a))
    /\ WF_vars(LoopStep) /\ SF_vars(EndApplying)
    /\ SF_vars(RunPush) /\ SF_vars(RunPersist)
    /\ SF_vars(due /\ EndPoll)

FairSpec == Spec /\ Fairness

-----------------------------------------------------------------------------
(* Properties.                                                             *)

\* Somebody is between a store and the end of _on_cache_changed.
Notifying(a) == step[a] \in {"stored", "cleared", "flagged"}

\* A rep changed but not yet published is on its way: its applier has still to
\* see to a push, or one is queued, or the loop is about to read the reps, or
\* has read them as they are. ("if self._push_pending: return" is right only
\* because of this: a flag that is up stands for a job that has not yet read.)
RepsOnTheirWay ==
    \/ data.reps = live.reps
    \/ \E a \in Appliers : Notifying(a)
    \/ pushes > 0
    \/ loop \in {"reset", "publish"}
    \/ loop = "publishing" /\ seen = live.reps

\* The same for held choices and cloud programs, which no push follows: the
\* applier that learnt one has still to queue a persist, or one is queued, or
\* the loop is about to read them, or a poll is asked for.
ExtrasOnTheirWay ==
    \/ data.extras = live.extras
    \/ \E a \in Appliers : step[a] = "learnt"
    \/ persists > 0
    \/ loop \in {"checking", "reset", "publish", "publishing"}
    \/ due

\* No change is forgotten between the threads that make them and the loop that
\* publishes them, however bursts, pushes, persists and edits interleave.
NoChangeForgotten == RepsOnTheirWay /\ ExtrasOnTheirWay

\* A view with outdated held choices or cloud programs never stays in the memo:
\* if there is one, a persist that clears it is still to come. (A program is
\* learnt on a thread but invalidated on the loop, where no view is being built.)
ExtrasReachViews ==
    \/ memo = NoView
    \/ memo.extras = live.extras
    \/ \E a \in Appliers : step[a] = "learnt"
    \/ persists > 0

\* Every change is published in the end, without waiting for the next poll
\* (except for the choices dropped by a start, which ask for one).
PublishedInTheEnd ==
    /\ \A n \in 1..MaxReps : live.reps >= n ~> data.reps >= n
    /\ \A n \in 1..MaxExtras : live.extras >= n ~> data.extras >= n

AtRest ==
    /\ \A a \in Appliers : step[a] = "idle"
    /\ pushes = 0 /\ persists = 0 /\ loop = "free"

\* "canonical_resources() memo; invalidated in _on_cache_changed", "Memoized
\* per cache generation": when nothing is on its way, a view in the memo is the
\* view of what is cached. Does not hold: the applier clears the memo while
\* the loop is building a view from the reps it had read before.
ViewIsCurrent == AtRest => memo \in {NoView, live}
=============================================================================
