---------------------------- MODULE ObserveSession ----------------------------
(***************************************************************************)
(* The coordinator's one session to the appliance and the push mode that   *)
(* rides on it (coordinator.py), with ObserveManager's mode (observe.py).  *)
(*                                                                         *)
(* Poll cycles, observe attempts, commands and debug reads take            *)
(* _session_lock in turn and, in an executor thread, open the session when *)
(* there is none, use it, and close it when it fails them.  Each can be    *)
(* cancelled at any await: the lock is then free, and the thread that was  *)
(* running goes on to the end of its function, beside the next holder's.   *)
(* async_close, at unload, takes no lock: its thread races the others.     *)
(*                                                                         *)
(* Sessions are numbered in the order they are opened.  An OBSERVE         *)
(* relation lives and dies with its session, so "registered" is the set of *)
(* sessions a subscribe burst went out on.  The href granularity of        *)
(* subscriptions, flat (per-href) boards and the 8888 transport, which     *)
(* alone raises AuthRejected and never observes, are left out.             *)
(***************************************************************************)
EXTENDS Integers

CONSTANTS
    TimeoutLimit,   \* _POLL_TIMEOUT_LIMIT
    MaxFaults,      \* bound: failed requests, handshakes and pushes, cancellations, unloads
    MaxCancels      \* bound: cancellations

Poll == "poll"
Observe == "observe"
Attempt == "attempt"
Command == "command"
RawRead == "raw read"
Free == "free"
NoSession == 0

ASSUME LimitOK ==
    /\ TimeoutLimit \in Nat \ {0}
    /\ MaxFaults \in Nat /\ MaxCancels \in Nat

VARIABLES
    \* the appliance and the network
    faults,       \* failures, cancellations and unloads so far
    opened,       \* sessions opened so far
    alive,        \* sessions opened and not closed
    registered,   \* sessions that hold OBSERVE relations
    \* the coordinator
    session,      \* _session
    closed,       \* _closed
    closer,       \* async_close: "idle", "closing", "dropping", "done"
    closing,      \* the session its _close_session read
    discovered,   \* _discovered
    timeouts,     \* _consecutive_poll_timeouts
    dark,         \* _failed_cycles > 0
    handshakeFailed,  \* _handshake_failed
    resubscribe,  \* _resubscribe_due
    cycle,        \* _async_update_data
    attempted,    \* sess of the attempt in its grace wait
    \* jobs: that of the holder of _session_lock, and cancelled ones whose
    \* threads still run
    job,          \* whose, where it is, where it goes on once it has closed the
                  \* session, the session in its hands, the one it is to close
    try,          \* the holder's first or second time round
    cancels,      \* coroutines cancelled so far
    \* ObserveManager
    mode,
    refresh,      \* the session of the running refresh thread
    \* history
    loose         \* sessions in use, or claimed, when nobody answers for them

network  == <<faults, opened, alive, registered>>
unload   == <<closed, closer, closing>>
verdicts == <<discovered, timeouts, dark>>
rounds   == <<resubscribe, cycle, attempted>>
lock     == <<job, try>>
push     == <<mode, refresh>>
history == <<cancels, loose>>
vars == <<network, session, unload, verdicts, handshakeFailed, rounds, lock, push, history>>

Sessions == 0..opened

\* The holder's job is number 0; a cancelled one takes the number of its
\* cancellation.
Jobs == 0..MaxCancels

NoJob == [by |-> Free, at |-> "-", next |-> "-", mine |-> NoSession, dropping |-> NoSession]

holder == job[0].by
at == job[0].at

TypeOK ==
    /\ faults \in 0..MaxFaults /\ cancels \in 0..MaxCancels /\ opened \in Nat
    /\ alive \subseteq 1..opened /\ registered \subseteq 1..opened /\ loose \subseteq 1..opened
    /\ session \in Sessions /\ closing \in Sessions /\ attempted \in Sessions
    /\ refresh \in Sessions
    /\ closed \in BOOLEAN /\ discovered \in BOOLEAN /\ handshakeFailed \in BOOLEAN
    /\ dark \in BOOLEAN /\ resubscribe \in BOOLEAN
    /\ closer \in {"idle", "closing", "dropping", "done"}
    /\ timeouts \in 0..TimeoutLimit - 1
    /\ cycle \in {"idle", "poll", "applying", "attempt", "subscribing", "grace",
                  "reached", "missed"}
    /\ job \in [Jobs ->
         [by : {Free, Poll, Attempt, Command, RawRead},
          at : {"-", "open", "handshake", "published", "ready", "request",
                "close", "drop", "ok", "timeout", "error", "no answer", "no session", "gone",
                "again", "unreachable", "abort", "lost", "done"},
          next : {"-", "error", "no session", "again", "unreachable", "abort", "lost", "done"},
          mine : Sessions, dropping : Sessions]]
    /\ try \in {1, 2}
    /\ mode \in {Poll, Observe}

Init ==
    /\ faults = 0 /\ cancels = 0 /\ opened = 0 /\ alive = {} /\ registered = {}
    /\ session = NoSession /\ closed = FALSE /\ closer = "idle" /\ closing = NoSession
    /\ discovered = FALSE /\ timeouts = 0 /\ dark = FALSE /\ handshakeFailed = FALSE
    /\ resubscribe = FALSE /\ cycle = "idle" /\ attempted = NoSession
    /\ job = [i \in Jobs |-> NoJob] /\ try = 1
    /\ mode = Poll /\ refresh = NoSession /\ loose = {}

\* One of the failures the bound allows.
Fault == faults < MaxFaults /\ faults' = faults + 1
Cancel == Fault /\ cancels < MaxCancels /\ cancels' = cancels + 1

-----------------------------------------------------------------------------
(* The lock and the jobs.                                                  *)

Acquire(who) ==
    /\ holder = Free
    /\ job' = [job EXCEPT ![0] = [NoJob EXCEPT !.by = who, !.at = "open"]]
    /\ try' = 1

Release == job' = [job EXCEPT ![0] = NoJob] /\ try' = 1

\* The job moves on, and touches nothing else of its own.
Goto(i, where) == job' = [job EXCEPT ![i].at = where] /\ UNCHANGED try

\* The job runs _close_session and then goes on there.
CloseThen(i, where) ==
    job' = [job EXCEPT ![i].at = "close", ![i].next = where] /\ UNCHANGED try

\* The thread's function returns or raises: whoever awaits it goes on
\* there, and nobody awaits a cancelled one.
Return(i, how) ==
    /\ job' = [job EXCEPT ![i] =
         IF i = 0 THEN [NoJob EXCEPT !.by = job[i].by, !.at = how] ELSE NoJob]
    /\ UNCHANGED try

\* A thread is running, and has more to do with the session.
Running(j) ==
    \/ j.at \in {"open", "handshake", "published", "ready", "close", "drop"}
    \/ j.at = "request" /\ j.by \in {Poll, Attempt}

\* The cancelled jobs whose threads still run.
Strays == {i \in Jobs \ {0} : job[i] # NoJob}

Loosen(sessions) == loose' = loose \cup (sessions \ {NoSession})

-----------------------------------------------------------------------------
(* _connect_session, _open_session and _close_session, in the job's        *)
(* thread.                                                                 *)

\* Slip: connect without looking whether there is a session.
OpenAnother(i) ==
    /\ job[i].at = "open"
    /\ IF closed THEN Return(i, "no session") ELSE Goto(i, "handshake")
    /\ UNCHANGED <<network, session, unload, verdicts, handshakeFailed, rounds, push, history>>

\* "if self._session is None: self._connect_session()", which refuses once
\* the coordinator is closed.
Open(i) ==
    /\ job[i].at = "open"
    /\ IF session = NoSession /\ closed THEN Return(i, "no session")
       ELSE Goto(i, IF session # NoSession THEN "ready" ELSE "handshake")
    /\ UNCHANGED <<network, session, unload, verdicts, handshakeFailed, rounds, push, history>>

\* Silence, a refused port, an alert, or another appliance's identity.  A
\* poll's thread notes that no session was opened.
HandshakeFails(i) ==
    /\ job[i].at = "handshake"
    /\ Fault
    /\ \E how \in {"no answer", "no session"} : Return(i, how)
    /\ handshakeFailed' = (handshakeFailed \/ job[i].by = Poll)
    /\ UNCHANGED <<opened, alive, registered, session, unload, verdicts, rounds, push, history>>

\* The handshake is done, and its session put in use.
Publish(i) ==
    /\ job[i].at = "handshake"
    /\ opened' = opened + 1
    /\ alive' = alive \cup {opened'}
    /\ session' = opened'
    /\ Goto(i, "published")
    /\ Loosen(IF Strays # {} THEN {opened'} ELSE {})
    /\ UNCHANGED <<faults, registered, unload, verdicts, handshakeFailed, rounds, push, cancels>>

\* Slip: _closed checked before the handshake only.
UseUnchecked(i) ==
    /\ job[i].at = "published"
    /\ Goto(i, "ready")
    /\ UNCHANGED <<network, session, unload, verdicts, handshakeFailed, rounds, push, history>>

\* "Checked after publishing": async_close may have run meanwhile.
CheckClosed(i) ==
    /\ job[i].at = "published"
    /\ IF closed THEN CloseThen(i, "no session") ELSE Goto(i, "ready")
    /\ UNCHANGED <<network, session, unload, verdicts, handshakeFailed, rounds, push, history>>

\* _close_session reads the session ...
CloseReads(i) ==
    /\ job[i].at = "close"
    /\ job' = [job EXCEPT ![i].at = "drop", ![i].dropping = session]
    /\ UNCHANGED <<network, session, unload, verdicts, handshakeFailed, rounds, push, try, history>>

\* ... and clears it and closes what it read.
CloseDrops(i) ==
    /\ job[i].at = "drop"
    /\ session' = NoSession
    /\ alive' = alive \ {job[i].dropping} /\ registered' = registered \ {job[i].dropping}
    /\ Return(i, job[i].next)
    /\ UNCHANGED <<faults, opened, unload, verdicts, handshakeFailed, rounds, push,
                   history>>

\* The job takes the session it will use; another thread may have cleared
\* it.  Of cancelled jobs only a poll's goes on here: an attempt's burst is
\* not begun, and a PUT or a GET does nothing more to the session.
TakeSession(i) ==
    /\ job[i].at = "ready"
    /\ IF session = NoSession \/ (i # 0 /\ job[i].by # Poll) THEN Return(i, "gone")
       ELSE job' = [job EXCEPT ![i].at = "request", ![i].mine = session] /\ UNCHANGED try
    /\ attempted' = IF i = 0 /\ job[i].by = Attempt THEN session ELSE attempted
    /\ handshakeFailed' = (handshakeFailed /\ job[i].by # Poll)
    /\ UNCHANGED <<network, session, unload, verdicts, resubscribe, cycle, push, history>>

-----------------------------------------------------------------------------
(* What the thread asks of its session: _poll_once's batch, a subscribe    *)
(* burst, a PUT, a debug GET.                                              *)

\* Any code answers a PUT; a burst leaves relations behind.
Answered(i) ==
    /\ job[i].at = "request" /\ job[i].mine \in alive
    /\ registered' = registered \cup (IF job[i].by = Attempt THEN {job[i].mine} ELSE {})
    /\ Return(i, "ok")
    /\ UNCHANGED <<faults, opened, alive, session, unload, verdicts, handshakeFailed, rounds, push,
                   history>>

\* A batch that is slow, yet the liveness probe is answered (before
\* discovery none is sent), or a GET; either says nothing of the session.
TimesOut(i) ==
    /\ job[i].at = "request" /\ job[i].by \in {Poll, RawRead}
    /\ Fault
    /\ Return(i, "timeout")
    /\ UNCHANGED <<opened, alive, registered, session, unload, verdicts, handshakeFailed, rounds,
                   push, history>>

\* A batch that cannot be decoded: the session stays open.
Undecodable(i) ==
    /\ job[i].at = "request" /\ job[i].by = Poll
    /\ Fault
    /\ Return(i, "error")
    /\ UNCHANGED <<opened, alive, registered, session, unload, verdicts, handshakeFailed, rounds,
                   push, history>>

\* Anything else: no answer to the probe either, a dead session, a bad
\* code, no href that could be subscribed.  A poll's thread closes the
\* session that is in use then.
Fails(i) ==
    /\ job[i].at = "request"
    /\ Fault \/ (job[i].mine \notin alive /\ UNCHANGED faults)
    /\ IF job[i].by = Poll THEN CloseThen(i, "error") ELSE Return(i, "error")
    /\ UNCHANGED <<opened, alive, registered, session, unload, verdicts, handshakeFailed, rounds,
                   push, history>>

-----------------------------------------------------------------------------
(* ObserveManager.                                                         *)

DowngradeToPoll == mode' = Poll /\ refresh' = NoSession
AbandonObserveAttempt == mode' = Poll /\ refresh' = NoSession
EnterObserveMode(s) == mode' = Observe /\ refresh' = s

\* Slip: the session is gone, the claim stays (issue #287).
KeepClaiming == UNCHANGED push

\* Every path that gives the session up downgrades when it was observing.
DowngradeIfObserving == IF mode = Observe THEN DowngradeToPoll ELSE UNCHANGED push

-----------------------------------------------------------------------------
(* _async_update_data.                                                     *)

StartPoll ==
    /\ cycle = "idle"
    /\ Acquire(Poll)
    /\ cycle' = "poll"
    /\ UNCHANGED <<network, session, unload, verdicts, handshakeFailed, resubscribe, attempted,
                   push, history>>

\* _mark_device_answered; a retry's session has no relations, so observe
\* mode is torn down and its resubscription noted.
PollAnswered ==
    /\ holder = Poll /\ at = "ok"
    /\ timeouts' = 0 /\ dark' = FALSE
    /\ IF try = 2 /\ mode = Observe
       THEN DowngradeToPoll /\ resubscribe' = TRUE
       ELSE UNCHANGED <<push, resubscribe>>
    /\ cycle' = "applying"
    /\ Release
    /\ UNCHANGED <<network, session, unload, discovered, handshakeFailed, attempted, history>>

Raised == at \in {"timeout", "error", "no answer", "no session", "gone"}
PollFailed == holder = Poll /\ Raised

\* _defer_reconnect_for
Defers ==
    /\ discovered
    /\ at \in {"timeout", "no answer"}
    /\ timeouts + 1 < TimeoutLimit

EndCycle == cycle' = "idle" /\ attempted' = NoSession /\ Release

\* _device_unreachable
Unreachable ==
    /\ dark' = TRUE
    /\ DowngradeIfObserving
    /\ EndCycle

FirstFailure ==
    /\ PollFailed /\ try = 1
    /\ \/ /\ closed
          /\ CloseThen(0, "abort")
          /\ UNCHANGED <<timeouts, dark, cycle, attempted, push>>
       \/ /\ ~closed /\ Defers
          /\ timeouts' = timeouts + 1
          /\ EndCycle
          /\ UNCHANGED <<dark, push>>
       \/ /\ ~closed /\ ~Defers
          /\ timeouts' = 0
          /\ IF handshakeFailed THEN Unreachable
             ELSE /\ CloseThen(0, IF dark THEN "unreachable" ELSE "again")
                  /\ UNCHANGED <<dark, cycle, attempted, push>>
    /\ UNCHANGED <<network, session, unload, discovered, handshakeFailed, resubscribe, history>>

\* After the pause, the second _poll_once.
PollAgain ==
    /\ holder = Poll /\ at = "again"
    /\ job' = [job EXCEPT ![0].at = "open"] /\ try' = 2
    /\ UNCHANGED <<network, session, unload, verdicts, handshakeFailed, rounds, push, history>>

GiveUpCycle ==
    /\ holder = Poll
    /\ \/ PollFailed /\ try = 2 /\ Unreachable
       \/ at = "unreachable" /\ Unreachable
       \/ at = "abort" /\ EndCycle /\ UNCHANGED <<dark, push>>
    /\ UNCHANGED <<network, session, unload, discovered, timeouts, handshakeFailed, resubscribe,
                   history>>

\* The rest of the cycle: on the first one, discovery; then an attempt at
\* observe mode if one is due.
ObserveDue == ~discovered \/ resubscribe

AttemptIsDue ==
    /\ cycle = "applying" /\ ObserveDue
    /\ discovered' = TRUE /\ resubscribe' = FALSE
    /\ cycle' = "attempt"
    /\ UNCHANGED <<network, session, unload, timeouts, dark, handshakeFailed, attempted, lock, push,
                   history>>

\* _maybe_retry_observe_mode, its timer run out.
RetryObserve ==
    /\ cycle = "applying" /\ ~ObserveDue /\ mode = Poll
    /\ cycle' = "attempt"
    /\ UNCHANGED <<network, session, unload, verdicts, handshakeFailed, resubscribe, attempted,
                   lock, push, history>>

\* The cycle ends without one.
Rest ==
    /\ cycle = "applying" /\ ~ObserveDue
    /\ cycle' = "idle"
    /\ UNCHANGED <<network, session, unload, verdicts, handshakeFailed, resubscribe, attempted,
                   lock, push, history>>

-----------------------------------------------------------------------------
(* _attempt_observe_mode: a subscribe burst under the lock, a grace wait   *)
(* without it, and the commit under the lock again.                        *)

StartAttempt ==
    /\ cycle = "attempt"
    /\ Acquire(Attempt)
    /\ cycle' = "subscribing"
    /\ UNCHANGED <<network, session, unload, verdicts, handshakeFailed, resubscribe, attempted,
                   push, history>>

Subscribed ==
    /\ holder = Attempt /\ at = "ok"
    /\ cycle' = "grace"
    /\ Release
    /\ UNCHANGED <<network, session, unload, verdicts, handshakeFailed, resubscribe, attempted,
                   push, history>>

\* No connection, or no href that could be subscribed.
NothingSubscribed ==
    /\ holder = Attempt /\ at \in {"no answer", "no session", "error"}
    /\ AbandonObserveAttempt
    /\ EndCycle
    /\ UNCHANGED <<network, session, unload, verdicts, handshakeFailed, resubscribe, history>>

\* The session was cleared just then: return, as it is.
AttemptOverrun ==
    /\ holder = Attempt /\ at = "gone"
    /\ EndCycle
    /\ UNCHANGED <<network, session, unload, verdicts, handshakeFailed, resubscribe, push, history>>

\* await_observe_notifies: enough hrefs notified, or not in time.
GraceEnds ==
    /\ cycle = "grace"
    /\ \/ attempted \in alive /\ cycle' = "reached" /\ UNCHANGED faults
       \/ attempted \notin alive /\ cycle' = "missed" /\ UNCHANGED faults
       \/ Fault /\ cycle' = "missed"
    /\ UNCHANGED <<opened, alive, registered, session, unload, verdicts, handshakeFailed,
                   resubscribe, attempted, lock, push, history>>

\* Slip: a stale success commits (issue #294).
NeverStale == FALSE

\* The session was replaced while the attempt waited.
Stale == session # attempted

CommitAttempt ==
    /\ cycle \in {"reached", "missed"} /\ holder = Free
    /\ IF cycle = "reached" /\ ~Stale
       THEN EnterObserveMode(attempted) /\ UNCHANGED resubscribe
       ELSE /\ AbandonObserveAttempt
            /\ resubscribe' = (resubscribe \/ Stale)
    /\ attempted' = NoSession
    /\ cycle' = "idle"
    /\ UNCHANGED <<network, session, unload, verdicts, handshakeFailed, lock, history>>

-----------------------------------------------------------------------------
(* A command's _async_put, and the debug service's async_raw_read.         *)

StartCommand ==
    /\ Acquire(Command)
    /\ UNCHANGED <<network, session, unload, verdicts, handshakeFailed, rounds, push, history>>

PutAnswered ==
    /\ holder = Command /\ at = "ok"
    /\ Release
    /\ UNCHANGED <<network, session, unload, verdicts, handshakeFailed, rounds, push, history>>

\* The first time, the session is closed; the second time it is left as it
\* is and the command fails.
PutFails ==
    /\ holder = Command /\ Raised
    /\ IF try = 1 THEN CloseThen(0, "lost") ELSE Release
    /\ UNCHANGED <<network, session, unload, verdicts, handshakeFailed, rounds, push, history>>

\* Closed: downgrade before the retry, or before giving up on an oven's
\* unconfirmed start.
PutLost ==
    /\ holder = Command /\ at = "lost"
    /\ IF mode = Observe THEN DowngradeToPoll /\ resubscribe' = TRUE
                         ELSE UNCHANGED <<push, resubscribe>>
    /\ \/ job' = [job EXCEPT ![0].at = "open"] /\ try' = 2
       \/ Release
    /\ UNCHANGED <<network, session, unload, verdicts, handshakeFailed, cycle, attempted, history>>

StartRawRead ==
    /\ Acquire(RawRead)
    /\ UNCHANGED <<network, session, unload, verdicts, handshakeFailed, rounds, push, history>>

\* An answer, or a timeout, which says nothing about the session.
RawReadEnds ==
    /\ holder = RawRead /\ at \in {"ok", "timeout", "no answer", "done"}
    /\ Release
    /\ UNCHANGED <<network, session, unload, verdicts, handshakeFailed, rounds, push, history>>

\* Anything else: the session is closed, and the mode left as it is.
RawReadFails ==
    /\ holder = RawRead /\ at \in {"error", "no session", "gone"}
    /\ CloseThen(0, "done")
    /\ Loosen({refresh})
    /\ UNCHANGED <<network, session, unload, verdicts, handshakeFailed, rounds, push, cancels>>

-----------------------------------------------------------------------------
(* Cancellation, of a service call or of the refresh it awaits.            *)

\* The coroutine ends where it is, its lock is free, and a running thread
\* goes on without it.  What the coroutine had yet to do for the session
\* (a downgrade, _resubscribe_due) is not done.
CancelHolder ==
    /\ holder # Free
    /\ Cancel
    /\ job' = [job EXCEPT ![cancels + 1] = IF Running(job[0]) THEN job[0] ELSE NoJob,
                          ![0] = NoJob]
    /\ try' = 1
    /\ IF holder \in {Poll, Attempt} THEN cycle' = "idle" /\ attempted' = NoSession
       ELSE UNCHANGED <<cycle, attempted>>
    /\ Loosen({session, refresh})
    /\ UNCHANGED <<opened, alive, registered, session, unload, verdicts, handshakeFailed,
                   resubscribe, push>>

\* A cycle that does not hold the lock; its attempt is not committed.
CancelCycle ==
    /\ cycle \in {"applying", "attempt", "grace", "reached", "missed"}
    /\ Cancel
    /\ cycle' = "idle" /\ attempted' = NoSession
    /\ UNCHANGED <<opened, alive, registered, session, unload, verdicts, handshakeFailed,
                   resubscribe, lock, push, loose>>

-----------------------------------------------------------------------------
(* async_close, at unload or shutdown, and its thread.                     *)

AsyncClose ==
    /\ closer = "idle"
    /\ Fault
    /\ closed' = TRUE
    /\ closer' = "closing"
    /\ refresh' = NoSession
    /\ UNCHANGED <<opened, alive, registered, session, closing, verdicts, handshakeFailed, rounds, lock, mode, history>>

CloserReads ==
    /\ closer = "closing"
    /\ closing' = session
    /\ closer' = "dropping"
    /\ UNCHANGED <<network, session, closed, verdicts, handshakeFailed, rounds, lock, push, history>>

CloserDrops ==
    /\ closer = "dropping"
    /\ session' = NoSession
    /\ alive' = alive \ {closing} /\ registered' = registered \ {closing}
    /\ closing' = NoSession
    /\ closer' = "done"
    /\ UNCHANGED <<faults, opened, closed, verdicts, handshakeFailed, rounds, lock,
                   push, history>>

-----------------------------------------------------------------------------
ThreadStep(i) ==
    \/ Open(i) \/ HandshakeFails(i) \/ Publish(i) \/ CheckClosed(i)
    \/ CloseReads(i) \/ CloseDrops(i) \/ TakeSession(i)
    \/ Answered(i) \/ TimesOut(i) \/ Undecodable(i) \/ Fails(i)

\* What the holder of the lock does between its threads' functions.
HolderStep ==
    \/ PollAnswered \/ FirstFailure \/ PollAgain \/ GiveUpCycle
    \/ Subscribed \/ NothingSubscribed \/ AttemptOverrun
    \/ PutAnswered \/ PutFails \/ PutLost
    \/ RawReadEnds \/ RawReadFails

Next ==
    \/ \E i \in Jobs : ThreadStep(i)
    \/ HolderStep
    \/ StartPoll \/ AttemptIsDue \/ RetryObserve \/ Rest
    \/ StartAttempt \/ GraceEnds \/ CommitAttempt
    \/ StartCommand \/ StartRawRead
    \/ CancelHolder \/ CancelCycle
    \/ AsyncClose \/ CloserReads \/ CloserDrops

Spec == Init /\ [][Next]_vars

(***************************************************************************)
(* Fairness.  A thread goes on and ends, every request having a timeout,   *)
(* and so does what awaits it; the grace wait has one; polls are scheduled *)
(* for ever; the retry timer of _maybe_retry_observe_mode runs out again   *)
(* and again; and the asyncio lock serves its waiters in order, so a cycle *)
(* waiting among commands gets it.  Nobody has to send commands, call a    *)
(* service, cancel one or unload the entry; a started unload goes on.      *)
(***************************************************************************)
Fairness ==
    /\ WF_vars(ThreadStep(0) \/ HolderStep)
    /\ \A i \in Jobs \ {0} : WF_vars(ThreadStep(i))
    /\ SF_vars(StartPoll \/ StartAttempt \/ CommitAttempt)
    /\ WF_vars(AttemptIsDue \/ Rest \/ GraceEnds) /\ SF_vars(RetryObserve)
    /\ WF_vars(CloserReads \/ CloserDrops)

FairSpec == Spec /\ Fairness

-----------------------------------------------------------------------------
(* What holds.                                                             *)

\* The connection-mode sensor claims Push, and the refresh thread keeps
\* relations alive, only on the session in use, and only when relations
\* were registered on that one: every reconnect by a poll or a command
\* takes the claim down before the lock is released (issue #287, #294).
\* Excepted is a claim on a session that is loose: in use or claimed when
\* its job was cancelled, put in use beside one, or closed by a debug read.
PushIsLive ==
    ~closed /\ holder = Free /\ mode = Observe
        => \/ session \in registered \cap alive /\ refresh = session
           \/ refresh \in loose

\* Before unload, no session is open but the one in use: a job opens one
\* only when there is none and closes the old one before it opens another
\* (the appliance holds few sessions, and an orphan is never closed).
\* Excepted again are the loose ones: a cancelled job's thread and the next
\* holder's can each open a session, and one overwrites the other.
NoOrphanSession ==
    ~closed => alive \subseteq {session} \cup loose

\* Once async_close has run, no job still in flight, cancelled or not, puts
\* a session back in use for good (the two checks of _closed).
ClosedStaysClosed == [](closed => <>[](session = NoSession))

\* The appliance answers again and pushes again: then the coordinator is
\* back in observe mode, on the live session, and stays there - or it was
\* unloaded. A stale attempt, a retry that lost the subscriptions or a
\* deferred timeout never leaves it polling for ever.  What a cancelled job
\* or a debug read can leave for ever is a claim on a loose session.
PushRecovers ==
    <>[](closed \/ (mode = Observe
                       /\ (holder = Free => session \in registered \/ refresh \in loose)))

-----------------------------------------------------------------------------
(* What the comments promise, and a cancelled command, a debug read and a  *)
(* race at unload break.                                                   *)

\* "claiming Push with nothing left to notice it's dead" (the docstring of
\* _attempt_observe_mode) does not last: a claim without relations is taken
\* down, or made good.
SilentPushEnds ==
    (mode = Observe /\ session \notin registered)
        ~> (mode = Poll \/ session \in registered \/ closed)

\* "a session that nothing ever closes after unload" (_connect_session) is
\* what _closed is there to prevent: with async_close done and no job
\* running, no session is open.
NothingOpenAfterUnload ==
    closer = "done" /\ holder = Free /\ Strays = {} => alive = {}
=============================================================================
