------------------------- MODULE ObserveSessionProofs -------------------------
(***************************************************************************)
(* Proofs about ObserveSession, for any TimeoutLimit and any number of     *)
(* failures and cancellations: one session at a time, and a claim of push  *)
(* only on the session in use, with relations registered on it, but for    *)
(* the sessions that a cancelled job or a debug read leaves loose.         *)
(***************************************************************************)
EXTENDS ObserveSession, TLAPS

\* The types: counters, sessions, flags, places and jobs.
Counters ==
    /\ faults \in 0..MaxFaults /\ cancels \in 0..MaxCancels
    /\ timeouts \in 0..TimeoutLimit - 1

Numbered ==
    /\ opened \in Nat
    /\ alive \subseteq 1..opened /\ registered \subseteq 1..opened /\ loose \subseteq 1..opened
    /\ session \in Sessions /\ closing \in Sessions /\ attempted \in Sessions
    /\ refresh \in Sessions

Flags ==
    /\ closed \in BOOLEAN /\ discovered \in BOOLEAN /\ handshakeFailed \in BOOLEAN
    /\ dark \in BOOLEAN /\ resubscribe \in BOOLEAN

Steps ==
    {"-", "open", "handshake", "published", "ready", "request", "close", "drop",
     "ok", "timeout", "error", "no answer", "no session", "gone", "again", "unreachable",
     "abort", "lost", "done"}

Nexts == {"-", "error", "no session", "again", "unreachable", "abort", "lost", "done"}

Cycles ==
    {"idle", "poll", "applying", "attempt", "subscribing", "grace", "reached", "missed"}

Places ==
    /\ closer \in {"idle", "closing", "dropping", "done"}
    /\ cycle \in Cycles
    /\ try \in {1, 2}
    /\ mode \in {Poll, Observe}

Users == {Free, Poll, Attempt, Command, RawRead}

JobSet(n) == [by : Users, at : Steps, next : Nexts, mine : 0..n, dropping : 0..n]

Jobbed == job \in [Jobs -> JobSet(opened)]

\* A job that closes the session knows where it goes on; the numbers of
\* cancellations to come are unused; async_close closes the coordinator.
Held ==
    /\ holder = Free <=> at = "-"
    /\ job[0].next # "-" <=> at \in {"close", "drop"}
    /\ job[0].next \notin {"close", "drop", "handshake"}
    /\ at = "abort" \/ job[0].next = "abort" => closed
    /\ closer = "idle" <=> ~closed
    /\ \A i \in Jobs : i > cancels => job[i] = NoJob

\* Where sessions are.  Beside a cancelled job's thread the one in use is
\* loose; without one the holder opens none but when there is none in use,
\* and drops the one it closes.  Before unload, the one in use is open, and
\* what else is open is loose.
Owned ==
    /\ Strays # {} => session \in loose \cup {NoSession}
    /\ at = "handshake" => session \in loose \cup {NoSession}
    /\ at = "drop" => session \in loose \cup {NoSession, job[0].dropping}
    /\ ~closed => session \in alive \cup {NoSession}
    /\ ~closed => alive \subseteq {session} \cup loose

\* A poll that will take the claim down, or has to try once more before it
\* does, and a command that closes the session.
Downgrading ==
    \/ /\ holder = Poll
       /\ try = 2 \/ at \in {"error", "again", "unreachable", "close", "drop"}
    \/ holder = Command /\ at \in {"lost", "close", "drop"}

\* Whoever closes the session before unload downgrades next, but for the
\* debug read.
Closing ==
    at \in {"close", "drop"} =>
        /\ holder = Poll => job[0].next \in {"error", "again", "unreachable"}
        /\ holder = Command => job[0].next = "lost"
        /\ holder # Attempt
        /\ holder = RawRead /\ mode = Observe => refresh \in loose

\* A claim that nobody is taking down has its relations or is loose.
Claim ==
    mode = Observe =>
        /\ refresh # NoSession
        /\ holder = Command => try = 1
        /\ refresh \in loose \/ Downgrading \/ (session = refresh /\ session \in registered)

Claimed == ~closed => Closing /\ Claim

\* The session of an attempt whose burst is over has its relations, as long
\* as it is open.
HasRelations(s) == s \in registered \/ s \notin alive

Burst ==
    /\ holder = Attempt => cycle = "subscribing"
    /\ holder = Attempt /\ at = "request" => attempted # NoSession /\ job[0].mine = attempted
    /\ cycle \in {"grace", "reached", "missed"} \/ (holder = Attempt /\ at = "ok") =>
         attempted # NoSession /\ HasRelations(attempted)

Inv == TypeOK /\ Held /\ Owned /\ Burst /\ Claimed

\* What the counters can hold.
LEMMA StepsNamed ==
    /\ "-" \in Nexts /\ Nexts \subseteq Steps
    /\ \A s \in {"error", "no session", "again", "unreachable", "abort", "lost", "done"} :
        s \in Nexts
    /\ \A s \in {"-", "open", "handshake", "published", "ready", "request", "close",
               "drop", "ok", "timeout", "error", "no answer", "no session", "gone"} : s \in Steps
    /\ \A c \in {"idle", "poll", "applying", "attempt", "subscribing", "grace", "reached",
               "missed"} : c \in Cycles
BY DEF Steps, Nexts, Cycles

LEMMA TypesAreParts == TypeOK <=> Counters /\ Numbered /\ Flags /\ Places /\ Jobbed
BY DEF TypeOK, Counters, Numbered, Flags, Places, Jobbed, JobSet, Users, Steps, Nexts, Cycles,
   Sessions

\* The jobs: one record replaced, or one put aside and the holder's cleared.
LEMMA HolderIsAJob == 0 \in Jobs
BY LimitOK DEF LimitOK, Jobs

LEMMA NoJobIsOne == \A n \in Nat : NoJob \in JobSet(n)
<1> SUFFICES ASSUME NEW n \in Nat PROVE NoJob \in JobSet(n)
  OBVIOUS
<1>1. Free \in Users /\ "-" \in Steps /\ "-" \in Nexts
  BY StepsNamed DEF Users
<1>2. NoSession \in 0..n
  BY DEF NoSession
<1> QED  BY <1>1, <1>2 DEF NoJob, JobSet

LEMMA JobMoves ==
    ASSUME NEW n, NEW j \in JobSet(n), NEW w \in Steps
    PROVE  [j EXCEPT !.at = w] \in JobSet(n)
BY DEF JobSet

LEMMA MovesKeepJobs ==
    ASSUME Jobbed, NEW i \in Jobs, NEW w \in Steps, Goto(i, w)
    PROVE  job' \in [Jobs -> JobSet(opened)]
<1>1. job' = [job EXCEPT ![i] = [job[i] EXCEPT !.at = w]]
  BY DEF Goto
<1>2. [job[i] EXCEPT !.at = w] \in JobSet(opened)
  BY JobMoves DEF Jobbed
<1> QED  BY <1>1, <1>2 DEF Jobbed

LEMMA ClosesKeepJobs ==
    ASSUME Jobbed, NEW i \in Jobs, NEW w \in Nexts, CloseThen(i, w)
    PROVE  job' \in [Jobs -> JobSet(opened)]
<1>1. job' = [job EXCEPT ![i] = [job[i] EXCEPT !.at = "close", !.next = w]]
  BY DEF CloseThen
<1>2. [job[i] EXCEPT !.at = "close", !.next = w] \in JobSet(opened)
  BY StepsNamed DEF Jobbed, JobSet
<1> QED  BY <1>1, <1>2 DEF Jobbed

LEMMA ReturnsKeepJobs ==
    ASSUME Numbered, Jobbed, NEW i \in Jobs, NEW w \in Steps, Return(i, w)
    PROVE  job' \in [Jobs -> JobSet(opened)]
<1>1. NoJob \in JobSet(opened)
  BY NoJobIsOne DEF Numbered
<1>2. [NoJob EXCEPT !.by = job[i].by, !.at = w] \in JobSet(opened)
  BY <1>1 DEF Jobbed, JobSet
<1> QED  BY <1>1, <1>2 DEF Return, Jobbed

LEMMA ReleaseKeepsJobs ==
    ASSUME Numbered, Jobbed, Release
    PROVE  job' \in [Jobs -> JobSet(opened)]
BY NoJobIsOne, HolderIsAJob DEF Release, Numbered, Jobbed

LEMMA AcquireKeepsJobs ==
    ASSUME Numbered, Jobbed, NEW who \in Users, Acquire(who)
    PROVE  job' \in [Jobs -> JobSet(opened)]
<1>1. NoJob \in JobSet(opened)
  BY NoJobIsOne DEF Numbered
<1>2. [NoJob EXCEPT !.by = who, !.at = "open"] \in JobSet(opened)
  BY <1>1, StepsNamed DEF JobSet
<1> QED  BY <1>1, <1>2 DEF Acquire, Jobbed

LEMMA JobsGrow ==
    ASSUME NEW n \in Nat, NEW m \in Nat, n <= m
    PROVE  JobSet(n) \subseteq JobSet(m)
<1>1. 0..n \subseteq 0..m
  OBVIOUS
<1> QED  BY <1>1 DEF JobSet

LEMMA JobsGrowByOne == \A n \in Nat : JobSet(n) \subseteq JobSet(n + 1)
<1> SUFFICES ASSUME NEW n \in Nat PROVE JobSet(n) \subseteq JobSet(n + 1)
  OBVIOUS
<1>1. n + 1 \in Nat /\ n <= n + 1
  OBVIOUS
<1> QED  BY <1>1, JobsGrow

LEMMA InitEstablishes == Init => Inv
<1> SUFFICES ASSUME Init PROVE Inv
  OBVIOUS
<1>1. Counters
  BY LimitOK DEF Init, LimitOK, Counters
<1>2. Numbered
  BY DEF Init, Numbered, Sessions, NoSession
<1>3. Flags
  BY DEF Init, Flags
<1>4. Places
  BY StepsNamed DEF Init, Places, Poll
<1>5. Jobbed
  BY NoJobIsOne DEF Init, Jobbed
<1>6. \A i \in Jobs : job[i] = NoJob
  BY DEF Init
<1>7. Held /\ Owned
  BY <1>6, HolderIsAJob DEF Init, Held, Owned, Strays, NoJob, NoSession, Free, holder, at
<1>8. Burst /\ Claimed
  BY <1>6, HolderIsAJob DEF Init, Burst, Claimed, Closing, Claim, NoJob, Free, Attempt, Poll,
     Observe, holder, at
<1> QED  BY <1>1, <1>2, <1>3, <1>4, <1>5, <1>7, <1>8, TypesAreParts DEF Inv


\* What a move leaves of one job, and of the others.
Moved(i, by, where, next, dropping) ==
    /\ job'[i].by = by /\ job'[i].at = where
    /\ job'[i].next = next /\ job'[i].dropping = dropping
    /\ \A k \in Jobs \ {i} : job'[k] = job[k]

LEMMA GotoMoves ==
    ASSUME Jobbed, NEW i \in Jobs, NEW w, Goto(i, w)
    PROVE  Moved(i, job[i].by, w, job[i].next, job[i].dropping)
BY DEF Goto, Moved, Jobbed, JobSet

LEMMA CloseMoves ==
    ASSUME Jobbed, NEW i \in Jobs, NEW w, CloseThen(i, w)
    PROVE  Moved(i, job[i].by, "close", w, job[i].dropping)
BY DEF CloseThen, Moved, Jobbed, JobSet

LEMMA ReturnMoves ==
    ASSUME Jobbed, NEW w, Return(0, w)
    PROVE  Moved(0, job[0].by, w, "-", NoSession)
BY HolderIsAJob DEF Return, Moved, Jobbed, JobSet, NoJob

LEMMA ReturnEnds ==
    ASSUME Jobbed, NEW i \in Jobs \ {0}, NEW w, Return(i, w)
    PROVE  job'[i] = NoJob /\ \A k \in Jobs \ {i} : job'[k] = job[k]
BY DEF Return, Jobbed

LEMMA ReleaseMoves ==
    ASSUME Jobbed, Release
    PROVE  Moved(0, Free, "-", "-", NoSession)
BY HolderIsAJob DEF Release, Moved, Jobbed, NoJob

LEMMA AcquireMoves ==
    ASSUME Jobbed, NEW who, Acquire(who)
    PROVE  Moved(0, who, "open", "-", NoSession)
BY HolderIsAJob DEF Acquire, Moved, Jobbed, NoJob

\* A thread's step is one of a running job, and moves that job alone.
LEMMA OneJobMoves ==
    ASSUME Jobbed, NEW i \in Jobs, ThreadStep(i)
    PROVE  /\ job[i] # NoJob
           /\ \A k \in Jobs \ {i} : job'[k] = job[k]
           /\ UNCHANGED <<closed, closer, cancels, mode, refresh>>
<1>1. job[i].at # "-"
  BY DEF ThreadStep, Open, HandshakeFails, Publish, CheckClosed, CloseReads, CloseDrops, TakeSession,
     Answered, TimesOut, Undecodable, Fails
<1>2. job[i] # NoJob
  BY <1>1 DEF NoJob
<1>3. UNCHANGED <<closed, closer, cancels, mode, refresh>>
  BY DEF ThreadStep, Open, HandshakeFails, Publish, CheckClosed, CloseReads, CloseDrops, TakeSession,
     Answered, TimesOut, Undecodable, Fails, unload, history, push
<1>4. \E j : job' = [job EXCEPT ![i] = j]
  <2>1. CASE Open(i)
    BY <2>1 DEF Open, Goto, Return
  <2>2. CASE HandshakeFails(i)
    BY <2>2 DEF HandshakeFails, Return
  <2>3. CASE Publish(i) \/ CloseReads(i)
    BY <2>3 DEF Publish, Goto, CloseReads
  <2>4. CASE CheckClosed(i)
    BY <2>4 DEF CheckClosed, CloseThen, Goto
  <2>5. CASE CloseDrops(i) \/ Answered(i) \/ TimesOut(i) \/ Undecodable(i)
    BY <2>5 DEF CloseDrops, Answered, TimesOut, Undecodable, Return
  <2>6. CASE TakeSession(i)
    BY <2>6 DEF TakeSession, Return
  <2>7. CASE Fails(i)
    BY <2>7 DEF Fails, CloseThen, Return
  <2> QED  BY <2>1, <2>2, <2>3, <2>4, <2>5, <2>6, <2>7 DEF ThreadStep
<1> QED  BY <1>2, <1>3, <1>4 DEF Jobbed

\* Every step keeps the counters in range.
LEMMA CountersKept == Counters /\ [Next]_vars => Counters'
<1> SUFFICES ASSUME Counters, [Next]_vars PROVE Counters'
  OBVIOUS
<1> USE LimitOK DEF LimitOK, network, verdicts, history, Counters
<1>1. ASSUME NEW i \in Jobs, Open(i) PROVE Counters'
  BY <1>1 DEF Open
<1>2. ASSUME NEW i \in Jobs, HandshakeFails(i) PROVE Counters'
  <2>1. faults < MaxFaults /\ faults' = faults + 1 /\ timeouts' = timeouts /\ cancels' = cancels
    BY <1>2 DEF HandshakeFails, Fault
  <2> QED  BY <2>1
<1>3. ASSUME NEW i \in Jobs, Publish(i) PROVE Counters'
  BY <1>3 DEF Publish
<1>4. ASSUME NEW i \in Jobs, CheckClosed(i) PROVE Counters'
  BY <1>4 DEF CheckClosed
<1>5. ASSUME NEW i \in Jobs, CloseReads(i) PROVE Counters'
  BY <1>5 DEF CloseReads
<1>6. ASSUME NEW i \in Jobs, CloseDrops(i) PROVE Counters'
  BY <1>6 DEF CloseDrops
<1>7. ASSUME NEW i \in Jobs, TakeSession(i) PROVE Counters'
  BY <1>7 DEF TakeSession
<1>8. ASSUME NEW i \in Jobs, Answered(i) PROVE Counters'
  BY <1>8 DEF Answered
<1>9. ASSUME NEW i \in Jobs, TimesOut(i) PROVE Counters'
  BY <1>9 DEF TimesOut, Fault
<1>10. ASSUME NEW i \in Jobs, Undecodable(i) PROVE Counters'
  BY <1>10 DEF Undecodable, Fault
<1>11. ASSUME NEW i \in Jobs, Fails(i) PROVE Counters'
  BY <1>11 DEF Fails, Fault
<1>12. CASE PollAnswered
  BY <1>12 DEF PollAnswered
<1>13. CASE FirstFailure
  <2>1. \/ timeouts' \in {0, timeouts}
        \/ timeouts + 1 < TimeoutLimit /\ timeouts' = timeouts + 1
    BY <1>13 DEF FirstFailure, Defers, Unreachable
  <2>2. faults' = faults /\ cancels' = cancels
    BY <1>13 DEF FirstFailure
  <2> QED  BY <2>1, <2>2
<1>14. CASE PollAgain
  BY <1>14 DEF PollAgain
<1>15. CASE GiveUpCycle
  BY <1>15 DEF GiveUpCycle, Unreachable
<1>16. CASE Subscribed
  BY <1>16 DEF Subscribed
<1>17. CASE NothingSubscribed
  BY <1>17 DEF NothingSubscribed
<1>18. CASE AttemptOverrun
  BY <1>18 DEF AttemptOverrun
<1>19. CASE PutAnswered
  BY <1>19 DEF PutAnswered
<1>20. CASE PutFails
  BY <1>20 DEF PutFails
<1>21. CASE PutLost
  BY <1>21 DEF PutLost
<1>22. CASE RawReadEnds
  BY <1>22 DEF RawReadEnds
<1>23. CASE RawReadFails
  BY <1>23 DEF RawReadFails
<1>24. CASE StartPoll
  BY <1>24 DEF StartPoll
<1>25. CASE AttemptIsDue
  BY <1>25 DEF AttemptIsDue
<1>26. CASE RetryObserve
  BY <1>26 DEF RetryObserve
<1>27. CASE Rest
  BY <1>27 DEF Rest
<1>28. CASE StartAttempt
  BY <1>28 DEF StartAttempt
<1>29. CASE GraceEnds
  BY <1>29 DEF GraceEnds, Fault
<1>30. CASE CommitAttempt
  BY <1>30 DEF CommitAttempt
<1>31. CASE StartCommand
  BY <1>31 DEF StartCommand
<1>32. CASE StartRawRead
  BY <1>32 DEF StartRawRead
<1>33. CASE CancelHolder
  BY <1>33 DEF CancelHolder, Cancel, Fault
<1>34. CASE CancelCycle
  BY <1>34 DEF CancelCycle, Cancel, Fault
<1>35. CASE AsyncClose
  BY <1>35 DEF AsyncClose, Fault
<1>36. CASE CloserReads
  BY <1>36 DEF CloserReads
<1>37. CASE CloserDrops
  BY <1>37 DEF CloserDrops
<1>38. CASE UNCHANGED vars
  BY <1>38 DEF vars
<1> QED  BY <1>1, <1>2, <1>3, <1>4, <1>5, <1>6, <1>7, <1>8, <1>9, <1>10, <1>11, <1>12, <1>13,
     <1>14, <1>15, <1>16, <1>17, <1>18, <1>19, <1>20, <1>21, <1>22, <1>23, <1>24, <1>25, <1>26,
     <1>27, <1>28, <1>29, <1>30, <1>31, <1>32, <1>33, <1>34, <1>35, <1>36, <1>37, <1>38 DEF
     Next, ThreadStep, HolderStep

\* Every step keeps the sessions numbered.
LEMMA NumberedKept == Numbered /\ [Next]_vars => Numbered'
<1> SUFFICES ASSUME Numbered, [Next]_vars PROVE Numbered'
  OBVIOUS
<1> USE DEF Sessions, NoSession, network, unload, rounds, lock, push, history, Numbered
<1>1. ASSUME NEW i \in Jobs, Open(i) PROVE Numbered'
  BY <1>1 DEF Open
<1>2. ASSUME NEW i \in Jobs, HandshakeFails(i) PROVE Numbered'
  BY <1>2 DEF HandshakeFails
<1>3. ASSUME NEW i \in Jobs, Publish(i) PROVE Numbered'
  BY <1>3 DEF Publish, Loosen
<1>4. ASSUME NEW i \in Jobs, CheckClosed(i) PROVE Numbered'
  BY <1>4 DEF CheckClosed
<1>5. ASSUME NEW i \in Jobs, CloseReads(i) PROVE Numbered'
  BY <1>5 DEF CloseReads
<1>6. ASSUME NEW i \in Jobs, CloseDrops(i) PROVE Numbered'
  <2>1. /\ session' = NoSession /\ alive' \subseteq alive /\ registered' \subseteq registered
        /\ UNCHANGED <<opened, loose, closing, attempted, refresh>>
    BY <1>6 DEF CloseDrops
  <2> QED  BY <2>1
<1>7. ASSUME NEW i \in Jobs, TakeSession(i) PROVE Numbered'
  BY <1>7 DEF TakeSession
<1>8. ASSUME NEW i \in Jobs, Answered(i) PROVE Numbered'
  BY <1>8 DEF Answered
<1>9. ASSUME NEW i \in Jobs, TimesOut(i) PROVE Numbered'
  BY <1>9 DEF TimesOut
<1>10. ASSUME NEW i \in Jobs, Undecodable(i) PROVE Numbered'
  BY <1>10 DEF Undecodable
<1>11. ASSUME NEW i \in Jobs, Fails(i) PROVE Numbered'
  BY <1>11 DEF Fails
<1>12. CASE PollAnswered
  BY <1>12 DEF PollAnswered, DowngradeToPoll
<1>13. CASE FirstFailure
  BY <1>13 DEF FirstFailure, EndCycle, Unreachable, DowngradeIfObserving, DowngradeToPoll
<1>14. CASE PollAgain
  BY <1>14 DEF PollAgain
<1>15. CASE GiveUpCycle
  BY <1>15 DEF GiveUpCycle, EndCycle, Unreachable, DowngradeIfObserving, DowngradeToPoll
<1>16. CASE Subscribed
  BY <1>16 DEF Subscribed
<1>17. CASE NothingSubscribed
  <2>1. /\ refresh' = NoSession /\ attempted' = NoSession
        /\ UNCHANGED <<opened, alive, registered, loose, session, closing>>
    BY <1>17 DEF NothingSubscribed, AbandonObserveAttempt, EndCycle
  <2> QED  BY <2>1
<1>18. CASE AttemptOverrun
  BY <1>18 DEF AttemptOverrun, EndCycle
<1>19. CASE PutAnswered
  BY <1>19 DEF PutAnswered
<1>20. CASE PutFails
  BY <1>20 DEF PutFails
<1>21. CASE PutLost
  BY <1>21 DEF PutLost, DowngradeToPoll
<1>22. CASE RawReadEnds
  BY <1>22 DEF RawReadEnds
<1>23. CASE RawReadFails
  <2>1. loose' = loose \cup ({refresh} \ {NoSession})
    BY <1>23 DEF RawReadFails, Loosen
  <2>2. UNCHANGED <<opened, alive, registered, session, closing, attempted, refresh>>
    BY <1>23 DEF RawReadFails
  <2> QED  BY <2>1, <2>2
<1>24. CASE StartPoll
  BY <1>24 DEF StartPoll
<1>25. CASE AttemptIsDue
  BY <1>25 DEF AttemptIsDue
<1>26. CASE RetryObserve
  BY <1>26 DEF RetryObserve
<1>27. CASE Rest
  BY <1>27 DEF Rest
<1>28. CASE StartAttempt
  BY <1>28 DEF StartAttempt
<1>29. CASE GraceEnds
  BY <1>29 DEF GraceEnds
<1>30. CASE CommitAttempt
  BY <1>30 DEF CommitAttempt, EnterObserveMode, AbandonObserveAttempt
<1>31. CASE StartCommand
  BY <1>31 DEF StartCommand
<1>32. CASE StartRawRead
  BY <1>32 DEF StartRawRead
<1>33. CASE CancelHolder
  BY <1>33 DEF CancelHolder, Loosen
<1>34. CASE CancelCycle
  BY <1>34 DEF CancelCycle
<1>35. CASE AsyncClose
  BY <1>35 DEF AsyncClose
<1>36. CASE CloserReads
  BY <1>36 DEF CloserReads
<1>37. CASE CloserDrops
  BY <1>37 DEF CloserDrops
<1>38. CASE UNCHANGED vars
  BY <1>38 DEF vars
<1> QED  BY <1>1, <1>2, <1>3, <1>4, <1>5, <1>6, <1>7, <1>8, <1>9, <1>10, <1>11, <1>12, <1>13,
     <1>14, <1>15, <1>16, <1>17, <1>18, <1>19, <1>20, <1>21, <1>22, <1>23, <1>24, <1>25, <1>26,
     <1>27, <1>28, <1>29, <1>30, <1>31, <1>32, <1>33, <1>34, <1>35, <1>36, <1>37, <1>38 DEF
     Next, ThreadStep, HolderStep

\* Every step keeps the flags.
LEMMA FlagsKept == Flags /\ [Next]_vars => Flags'
<1> SUFFICES ASSUME Flags, [Next]_vars PROVE Flags'
  OBVIOUS
<1> USE DEF unload, verdicts, rounds, Flags
<1>1. ASSUME NEW i \in Jobs, Open(i) PROVE Flags'
  BY <1>1 DEF Open
<1>2. ASSUME NEW i \in Jobs, HandshakeFails(i) PROVE Flags'
  BY <1>2 DEF HandshakeFails
<1>3. ASSUME NEW i \in Jobs, Publish(i) PROVE Flags'
  BY <1>3 DEF Publish
<1>4. ASSUME NEW i \in Jobs, CheckClosed(i) PROVE Flags'
  BY <1>4 DEF CheckClosed
<1>5. ASSUME NEW i \in Jobs, CloseReads(i) PROVE Flags'
  BY <1>5 DEF CloseReads
<1>6. ASSUME NEW i \in Jobs, CloseDrops(i) PROVE Flags'
  BY <1>6 DEF CloseDrops
<1>7. ASSUME NEW i \in Jobs, TakeSession(i) PROVE Flags'
  BY <1>7 DEF TakeSession
<1>8. ASSUME NEW i \in Jobs, Answered(i) PROVE Flags'
  BY <1>8 DEF Answered
<1>9. ASSUME NEW i \in Jobs, TimesOut(i) PROVE Flags'
  BY <1>9 DEF TimesOut
<1>10. ASSUME NEW i \in Jobs, Undecodable(i) PROVE Flags'
  BY <1>10 DEF Undecodable
<1>11. ASSUME NEW i \in Jobs, Fails(i) PROVE Flags'
  BY <1>11 DEF Fails
<1>12. CASE PollAnswered
  BY <1>12 DEF PollAnswered
<1>13. CASE FirstFailure
  BY <1>13 DEF FirstFailure, Unreachable
<1>14. CASE PollAgain
  BY <1>14 DEF PollAgain
<1>15. CASE GiveUpCycle
  BY <1>15 DEF GiveUpCycle, Unreachable
<1>16. CASE Subscribed
  BY <1>16 DEF Subscribed
<1>17. CASE NothingSubscribed
  BY <1>17 DEF NothingSubscribed
<1>18. CASE AttemptOverrun
  BY <1>18 DEF AttemptOverrun
<1>19. CASE PutAnswered
  BY <1>19 DEF PutAnswered
<1>20. CASE PutFails
  BY <1>20 DEF PutFails
<1>21. CASE PutLost
  BY <1>21 DEF PutLost
<1>22. CASE RawReadEnds
  BY <1>22 DEF RawReadEnds
<1>23. CASE RawReadFails
  BY <1>23 DEF RawReadFails
<1>24. CASE StartPoll
  BY <1>24 DEF StartPoll
<1>25. CASE AttemptIsDue
  BY <1>25 DEF AttemptIsDue
<1>26. CASE RetryObserve
  BY <1>26 DEF RetryObserve
<1>27. CASE Rest
  BY <1>27 DEF Rest
<1>28. CASE StartAttempt
  BY <1>28 DEF StartAttempt
<1>29. CASE GraceEnds
  BY <1>29 DEF GraceEnds
<1>30. CASE CommitAttempt
  BY <1>30 DEF CommitAttempt
<1>31. CASE StartCommand
  BY <1>31 DEF StartCommand
<1>32. CASE StartRawRead
  BY <1>32 DEF StartRawRead
<1>33. CASE CancelHolder
  BY <1>33 DEF CancelHolder
<1>34. CASE CancelCycle
  BY <1>34 DEF CancelCycle
<1>35. CASE AsyncClose
  BY <1>35 DEF AsyncClose
<1>36. CASE CloserReads
  BY <1>36 DEF CloserReads
<1>37. CASE CloserDrops
  BY <1>37 DEF CloserDrops
<1>38. CASE UNCHANGED vars
  BY <1>38 DEF vars
<1> QED  BY <1>1, <1>2, <1>3, <1>4, <1>5, <1>6, <1>7, <1>8, <1>9, <1>10, <1>11, <1>12, <1>13,
     <1>14, <1>15, <1>16, <1>17, <1>18, <1>19, <1>20, <1>21, <1>22, <1>23, <1>24, <1>25, <1>26,
     <1>27, <1>28, <1>29, <1>30, <1>31, <1>32, <1>33, <1>34, <1>35, <1>36, <1>37, <1>38 DEF
     Next, ThreadStep, HolderStep

\* Every step keeps the places.
LEMMA PlacesKept == Places /\ [Next]_vars => Places'
<1> SUFFICES ASSUME Places, [Next]_vars PROVE Places'
  OBVIOUS
<1> USE StepsNamed DEF unload, rounds, lock, push, Poll, Observe, Places
<1>1. ASSUME NEW i \in Jobs, Open(i) PROVE Places'
  BY <1>1 DEF Open, Return, Goto
<1>2. ASSUME NEW i \in Jobs, HandshakeFails(i) PROVE Places'
  BY <1>2 DEF HandshakeFails, Return
<1>3. ASSUME NEW i \in Jobs, Publish(i) PROVE Places'
  BY <1>3 DEF Publish, Goto
<1>4. ASSUME NEW i \in Jobs, CheckClosed(i) PROVE Places'
  BY <1>4 DEF CheckClosed, CloseThen, Goto
<1>5. ASSUME NEW i \in Jobs, CloseReads(i) PROVE Places'
  BY <1>5 DEF CloseReads
<1>6. ASSUME NEW i \in Jobs, CloseDrops(i) PROVE Places'
  BY <1>6 DEF CloseDrops, Return
<1>7. ASSUME NEW i \in Jobs, TakeSession(i) PROVE Places'
  BY <1>7 DEF TakeSession, Return
<1>8. ASSUME NEW i \in Jobs, Answered(i) PROVE Places'
  BY <1>8 DEF Answered, Return
<1>9. ASSUME NEW i \in Jobs, TimesOut(i) PROVE Places'
  BY <1>9 DEF TimesOut, Return
<1>10. ASSUME NEW i \in Jobs, Undecodable(i) PROVE Places'
  BY <1>10 DEF Undecodable, Return
<1>11. ASSUME NEW i \in Jobs, Fails(i) PROVE Places'
  BY <1>11 DEF Fails, CloseThen, Return
<1>12. CASE PollAnswered
  BY <1>12 DEF PollAnswered, DowngradeToPoll, Release
<1>13. CASE FirstFailure
  BY <1>13 DEF FirstFailure, CloseThen, EndCycle, Release, Unreachable, DowngradeIfObserving,
       DowngradeToPoll
<1>14. CASE PollAgain
  BY <1>14 DEF PollAgain
<1>15. CASE GiveUpCycle
  BY <1>15 DEF GiveUpCycle, EndCycle, Release, Unreachable, DowngradeIfObserving,
       DowngradeToPoll
<1>16. CASE Subscribed
  BY <1>16 DEF Subscribed, Release
<1>17. CASE NothingSubscribed
  BY <1>17 DEF NothingSubscribed, AbandonObserveAttempt, EndCycle, Release
<1>18. CASE AttemptOverrun
  BY <1>18 DEF AttemptOverrun, EndCycle, Release
<1>19. CASE PutAnswered
  BY <1>19 DEF PutAnswered, Release
<1>20. CASE PutFails
  BY <1>20 DEF PutFails, CloseThen, Release
<1>21. CASE PutLost
  BY <1>21 DEF PutLost, DowngradeToPoll, Release
<1>22. CASE RawReadEnds
  BY <1>22 DEF RawReadEnds, Release
<1>23. CASE RawReadFails
  BY <1>23 DEF RawReadFails, CloseThen
<1>24. CASE StartPoll
  BY <1>24 DEF StartPoll, Acquire
<1>25. CASE AttemptIsDue
  BY <1>25 DEF AttemptIsDue
<1>26. CASE RetryObserve
  BY <1>26 DEF RetryObserve
<1>27. CASE Rest
  BY <1>27 DEF Rest
<1>28. CASE StartAttempt
  BY <1>28 DEF StartAttempt, Acquire
<1>29. CASE GraceEnds
  BY <1>29 DEF GraceEnds
<1>30. CASE CommitAttempt
  BY <1>30 DEF CommitAttempt, EnterObserveMode, AbandonObserveAttempt
<1>31. CASE StartCommand
  BY <1>31 DEF StartCommand, Acquire
<1>32. CASE StartRawRead
  BY <1>32 DEF StartRawRead, Acquire
<1>33. CASE CancelHolder
  BY <1>33 DEF CancelHolder
<1>34. CASE CancelCycle
  BY <1>34 DEF CancelCycle
<1>35. CASE AsyncClose
  BY <1>35 DEF AsyncClose
<1>36. CASE CloserReads
  BY <1>36 DEF CloserReads
<1>37. CASE CloserDrops
  BY <1>37 DEF CloserDrops
<1>38. CASE UNCHANGED vars
  BY <1>38 DEF vars
<1> QED  BY <1>1, <1>2, <1>3, <1>4, <1>5, <1>6, <1>7, <1>8, <1>9, <1>10, <1>11, <1>12, <1>13,
     <1>14, <1>15, <1>16, <1>17, <1>18, <1>19, <1>20, <1>21, <1>22, <1>23, <1>24, <1>25, <1>26,
     <1>27, <1>28, <1>29, <1>30, <1>31, <1>32, <1>33, <1>34, <1>35, <1>36, <1>37, <1>38 DEF
     Next, ThreadStep, HolderStep

\* Every step keeps the jobs.
LEMMA JobbedKept == Numbered /\ Counters /\ Jobbed /\ [Next]_vars => Jobbed'
<1> SUFFICES ASSUME Numbered /\ Counters /\ Jobbed, [Next]_vars PROVE Jobbed'
  OBVIOUS
<1> USE StepsNamed, NoJobIsOne, HolderIsAJob DEF Numbered, Counters, Jobbed, Sessions, network,
     lock, holder, at
<1>1. ASSUME NEW i \in Jobs, Open(i) PROVE Jobbed'
  <2>1. opened' = opened
    BY <1>1 DEF Open
  <2>2. \/ \E w \in Steps : Goto(i, w)
        \/ \E w \in Steps : Return(i, w)
    BY <1>1 DEF Open
  <2> QED  BY <2>1, <2>2, MovesKeepJobs, ReturnsKeepJobs
<1>2. ASSUME NEW i \in Jobs, HandshakeFails(i) PROVE Jobbed'
  <2>1. opened' = opened
    BY <1>2 DEF HandshakeFails
  <2>2. \E w \in Steps : Return(i, w)
    BY <1>2 DEF HandshakeFails
  <2> QED  BY <2>1, <2>2, ReturnsKeepJobs
<1>3. ASSUME NEW i \in Jobs, Publish(i) PROVE Jobbed'
  <2>1. opened' = opened + 1 /\ Goto(i, "published")
    BY <1>3 DEF Publish
  <2>2. job' \in [Jobs -> JobSet(opened)]
    BY <2>1, MovesKeepJobs
  <2>3. JobSet(opened) \subseteq JobSet(opened')
    BY <2>1, JobsGrowByOne
  <2> QED  BY <2>2, <2>3
<1>4. ASSUME NEW i \in Jobs, CheckClosed(i) PROVE Jobbed'
  <2>1. opened' = opened
    BY <1>4 DEF CheckClosed
  <2>2. Goto(i, "ready") \/ CloseThen(i, "no session")
    BY <1>4 DEF CheckClosed
  <2> QED  BY <2>1, <2>2, MovesKeepJobs, ClosesKeepJobs
<1>5. ASSUME NEW i \in Jobs, CloseReads(i) PROVE Jobbed'
  <2>1. opened' = opened
    BY <1>5 DEF CloseReads
  <2>2. job' = [job EXCEPT ![i] = [job[i] EXCEPT !.at = "drop", !.dropping = session]]
    BY <1>5 DEF CloseReads
  <2>3. [job[i] EXCEPT !.at = "drop", !.dropping = session] \in JobSet(opened)
    BY DEF JobSet
  <2> QED  BY <2>1, <2>2, <2>3
<1>6. ASSUME NEW i \in Jobs, CloseDrops(i) PROVE Jobbed'
  <2>1. opened' = opened /\ Return(i, job[i].next)
    BY <1>6 DEF CloseDrops
  <2>2. job[i].next \in Nexts
    BY DEF JobSet
  <2> QED  BY <2>1, <2>2, ReturnsKeepJobs
<1>7. ASSUME NEW i \in Jobs, TakeSession(i) PROVE Jobbed'
  <2>1. opened' = opened
    BY <1>7 DEF TakeSession
  <2>2. CASE Return(i, "gone")
    BY <2>1, <2>2, ReturnsKeepJobs
  <2>3. CASE job' = [job EXCEPT ![i] = [job[i] EXCEPT !.at = "request", !.mine = session]]
    <3>1. [job[i] EXCEPT !.at = "request", !.mine = session] \in JobSet(opened)
      BY DEF JobSet
    <3> QED  BY <2>1, <2>3, <3>1
  <2> QED  BY <1>7, <2>2, <2>3 DEF TakeSession
<1>8. ASSUME NEW i \in Jobs, Answered(i) PROVE Jobbed'
  <2>1. opened' = opened /\ Return(i, "ok")
    BY <1>8 DEF Answered
  <2> QED  BY <2>1, ReturnsKeepJobs
<1>9. ASSUME NEW i \in Jobs, TimesOut(i) PROVE Jobbed'
  <2>1. opened' = opened /\ Return(i, "timeout")
    BY <1>9 DEF TimesOut
  <2> QED  BY <2>1, ReturnsKeepJobs
<1>10. ASSUME NEW i \in Jobs, Undecodable(i) PROVE Jobbed'
  <2>1. opened' = opened /\ Return(i, "error")
    BY <1>10 DEF Undecodable
  <2> QED  BY <2>1, ReturnsKeepJobs
<1>11. ASSUME NEW i \in Jobs, Fails(i) PROVE Jobbed'
  <2>1. opened' = opened
    BY <1>11 DEF Fails
  <2>2. CloseThen(i, "error") \/ Return(i, "error")
    BY <1>11 DEF Fails
  <2> QED  BY <2>1, <2>2, ClosesKeepJobs, ReturnsKeepJobs
<1>12. CASE PollAnswered
  <2>1. opened' = opened /\ Release
    BY <1>12 DEF PollAnswered
  <2> QED  BY <2>1, ReleaseKeepsJobs
<1>13. CASE FirstFailure
  <2>1. opened' = opened
    BY <1>13 DEF FirstFailure
  <2>2. CloseThen(0, "abort") \/ CloseThen(0, "unreachable") \/ CloseThen(0, "again") \/ Release
    BY <1>13 DEF FirstFailure, EndCycle, Unreachable
  <2> QED  BY <2>1, <2>2, ClosesKeepJobs, ReleaseKeepsJobs
<1>14. CASE PollAgain
  <2>1. opened' = opened
    BY <1>14 DEF PollAgain
  <2>2. [job[0] EXCEPT !.at = "open"] \in JobSet(opened)
    BY JobMoves
  <2> QED  BY <1>14, <2>1, <2>2 DEF PollAgain
<1>15. CASE GiveUpCycle
  <2>1. opened' = opened /\ Release
    BY <1>15 DEF GiveUpCycle, EndCycle, Unreachable
  <2> QED  BY <2>1, ReleaseKeepsJobs
<1>16. CASE Subscribed
  <2>1. opened' = opened /\ Release
    BY <1>16 DEF Subscribed
  <2> QED  BY <2>1, ReleaseKeepsJobs
<1>17. CASE NothingSubscribed
  <2>1. opened' = opened /\ Release
    BY <1>17 DEF NothingSubscribed, EndCycle
  <2> QED  BY <2>1, ReleaseKeepsJobs
<1>18. CASE AttemptOverrun
  <2>1. opened' = opened /\ Release
    BY <1>18 DEF AttemptOverrun, EndCycle
  <2> QED  BY <2>1, ReleaseKeepsJobs
<1>19. CASE PutAnswered
  <2>1. opened' = opened /\ Release
    BY <1>19 DEF PutAnswered
  <2> QED  BY <2>1, ReleaseKeepsJobs
<1>20. CASE PutFails
  <2>1. opened' = opened
    BY <1>20 DEF PutFails
  <2>2. CloseThen(0, "lost") \/ Release
    BY <1>20 DEF PutFails
  <2> QED  BY <2>1, <2>2, ClosesKeepJobs, ReleaseKeepsJobs
<1>21. CASE PutLost
  <2>1. opened' = opened
    BY <1>21 DEF PutLost
  <2>2. [job[0] EXCEPT !.at = "open"] \in JobSet(opened)
    BY JobMoves
  <2>3. job' = [job EXCEPT ![0] = [job[0] EXCEPT !.at = "open"]] \/ Release
    BY <1>21 DEF PutLost
  <2> QED  BY <2>1, <2>2, <2>3, ReleaseKeepsJobs
<1>22. CASE RawReadEnds
  <2>1. opened' = opened /\ Release
    BY <1>22 DEF RawReadEnds
  <2> QED  BY <2>1, ReleaseKeepsJobs
<1>23. CASE RawReadFails
  <2>1. opened' = opened /\ CloseThen(0, "done")
    BY <1>23 DEF RawReadFails
  <2> QED  BY <2>1, ClosesKeepJobs
<1>24. CASE StartPoll
  <2>1. opened' = opened /\ Acquire(Poll)
    BY <1>24 DEF StartPoll
  <2>2. Poll \in Users
    BY DEF Users
  <2> QED  BY <2>1, <2>2, AcquireKeepsJobs
<1>25. CASE AttemptIsDue
  BY <1>25 DEF AttemptIsDue
<1>26. CASE RetryObserve
  BY <1>26 DEF RetryObserve
<1>27. CASE Rest
  BY <1>27 DEF Rest
<1>28. CASE StartAttempt
  <2>1. opened' = opened /\ Acquire(Attempt)
    BY <1>28 DEF StartAttempt
  <2>2. Attempt \in Users
    BY DEF Users
  <2> QED  BY <2>1, <2>2, AcquireKeepsJobs
<1>29. CASE GraceEnds
  BY <1>29 DEF GraceEnds, Fault
<1>30. CASE CommitAttempt
  BY <1>30 DEF CommitAttempt
<1>31. CASE StartCommand
  <2>1. opened' = opened /\ Acquire(Command)
    BY <1>31 DEF StartCommand
  <2>2. Command \in Users
    BY DEF Users
  <2> QED  BY <2>1, <2>2, AcquireKeepsJobs
<1>32. CASE StartRawRead
  <2>1. opened' = opened /\ Acquire(RawRead)
    BY <1>32 DEF StartRawRead
  <2>2. RawRead \in Users
    BY DEF Users
  <2> QED  BY <2>1, <2>2, AcquireKeepsJobs
<1>33. CASE CancelHolder
  BY <1>33 DEF CancelHolder, Cancel, Fault
<1>34. CASE CancelCycle
  BY <1>34 DEF CancelCycle, Cancel, Fault
<1>35. CASE AsyncClose
  BY <1>35 DEF AsyncClose, Fault
<1>36. CASE CloserReads
  BY <1>36 DEF CloserReads
<1>37. CASE CloserDrops
  BY <1>37 DEF CloserDrops
<1>38. CASE UNCHANGED vars
  BY <1>38 DEF vars
<1> QED  BY <1>1, <1>2, <1>3, <1>4, <1>5, <1>6, <1>7, <1>8, <1>9, <1>10, <1>11, <1>12, <1>13,
     <1>14, <1>15, <1>16, <1>17, <1>18, <1>19, <1>20, <1>21, <1>22, <1>23, <1>24, <1>25, <1>26,
     <1>27, <1>28, <1>29, <1>30, <1>31, <1>32, <1>33, <1>34, <1>35, <1>36, <1>37, <1>38 DEF
     Next, ThreadStep, HolderStep

\* Moves that keep the lock and the holder in step.
LEMMA MoveKeepsHeld ==
    ASSUME Jobbed, Counters, Held, UNCHANGED <<closed, closer, cancels>>,
           NEW by, NEW where, NEW next, NEW dropping, Moved(0, by, where, next, dropping),
           by = Free <=> where = "-",
           next # "-" <=> where \in {"close", "drop"},
           next \notin {"close", "drop", "handshake"},
           where = "abort" \/ next = "abort" => closed
    PROVE  Held'
<1>1. \A i \in Jobs : i > cancels => job'[i] = NoJob
  <2> TAKE i \in Jobs
  <2> HAVE i > cancels
  <2>1. i # 0
    BY DEF Counters
  <2> QED  BY <2>1 DEF Moved, Held
<1> QED  BY <1>1 DEF Held, Moved, holder, at

LEMMA GotoKeepsHeld ==
    ASSUME Jobbed, Counters, Held, UNCHANGED <<closed, closer, cancels>>,
           NEW w, Goto(0, w), at \notin {"-", "close", "drop"},
           w \notin {"-", "close", "drop", "abort"}
    PROVE  Held'
<1>1. Moved(0, job[0].by, w, job[0].next, job[0].dropping)
  BY GotoMoves, HolderIsAJob
<1>2. holder # Free /\ job[0].next = "-"
  BY DEF Held
<1> QED  BY <1>1, <1>2, MoveKeepsHeld DEF holder

LEMMA CloseKeepsHeld ==
    ASSUME Jobbed, Counters, Held, UNCHANGED <<closed, closer, cancels>>,
           NEW w, CloseThen(0, w), at # "-",
           w \notin {"-", "close", "drop", "handshake"}, w = "abort" => closed
    PROVE  Held'
<1>1. Moved(0, job[0].by, "close", w, job[0].dropping)
  BY CloseMoves, HolderIsAJob
<1>2. holder # Free
  BY DEF Held
<1> QED  BY <1>1, <1>2, MoveKeepsHeld DEF holder

LEMMA ReturnKeepsHeld ==
    ASSUME Jobbed, Counters, Held, UNCHANGED <<closed, closer, cancels>>,
           NEW w, Return(0, w), at # "-",
           w \notin {"-", "close", "drop"}, w = "abort" => closed
    PROVE  Held'
<1>1. Moved(0, job[0].by, w, "-", NoSession)
  BY ReturnMoves
<1>2. holder # Free
  BY DEF Held
<1> QED  BY <1>1, <1>2, MoveKeepsHeld DEF holder

LEMMA ReleaseKeepsHeld ==
    ASSUME Jobbed, Counters, Held, UNCHANGED <<closed, closer, cancels>>, Release
    PROVE  Held'
BY ReleaseMoves, MoveKeepsHeld

LEMMA AcquireKeepsHeld ==
    ASSUME Jobbed, Counters, Held, UNCHANGED <<closed, closer, cancels>>,
           NEW who, who # Free, Acquire(who)
    PROVE  Held'
BY AcquireMoves, MoveKeepsHeld

LEMMA SameJobsKeepHeld ==
    ASSUME Held, UNCHANGED <<closed, closer, cancels, job>>
    PROVE  Held'
BY DEF Held, holder, at

\* Every step keeps the lock and the holder in step.
LEMMA HeldKept == Jobbed /\ Counters /\ Held /\ [Next]_vars => Held'
<1> SUFFICES ASSUME Jobbed, Counters, Held, [Next]_vars PROVE Held'
  OBVIOUS
<1> USE DEF unload, lock, history
<1>1. ASSUME NEW i \in Jobs \ {0}, ThreadStep(i) PROVE Held'
  <2>1. /\ \A k \in Jobs \ {i} : job'[k] = job[k]
        /\ job[i] # NoJob /\ UNCHANGED <<closed, closer, cancels>>
    BY <1>1, OneJobMoves
  <2> QED  BY <2>1, HolderIsAJob DEF Held, holder, at
<1>2. ASSUME ThreadStep(0) PROVE Held'
  <2>1. CASE Open(0)
    <3>1. at = "open" /\ UNCHANGED <<closed, closer, cancels>>
      BY <2>1 DEF Open, at
    <3>2. Return(0, "no session") \/ Goto(0, "ready") \/ Goto(0, "handshake")
      BY <2>1 DEF Open
    <3> QED  BY <3>1, <3>2, ReturnKeepsHeld, GotoKeepsHeld
  <2>2. CASE HandshakeFails(0)
    BY <2>2, ReturnKeepsHeld DEF HandshakeFails, at
  <2>3. CASE Publish(0)
    BY <2>3, GotoKeepsHeld DEF Publish, at
  <2>4. CASE CheckClosed(0)
    BY <2>4, GotoKeepsHeld, CloseKeepsHeld DEF CheckClosed, at
  <2>5. CASE CloseReads(0)
    <3>1. Moved(0, job[0].by, "drop", job[0].next, session)
      BY <2>5, HolderIsAJob DEF CloseReads, Moved, Jobbed, JobSet
    <3>2. job[0].by # Free /\ job[0].next # "-" /\ at = "close"
      BY <2>5 DEF CloseReads, Held, holder, at
    <3>3. UNCHANGED <<closed, closer, cancels>>
      BY <2>5 DEF CloseReads
    <3>4. job[0].next \notin {"close", "drop", "handshake"} /\ (job[0].next = "abort" => closed)
      BY DEF Held
    <3> QED  BY <3>1, <3>2, <3>3, <3>4, MoveKeepsHeld
  <2>6. CASE CloseDrops(0)
    <3>1. at = "drop" /\ UNCHANGED <<closed, closer, cancels>> /\ Return(0, job[0].next)
      BY <2>6 DEF CloseDrops, at
    <3>2. job[0].next \notin {"-", "close", "drop"} /\ (job[0].next = "abort" => closed)
      BY <3>1 DEF Held
    <3> QED  BY <3>1, <3>2, ReturnKeepsHeld
  <2>7. CASE TakeSession(0)
    <3>1. at = "ready" /\ UNCHANGED <<closed, closer, cancels>>
      BY <2>7 DEF TakeSession, at
    <3>2. CASE Return(0, "gone")
      BY <3>1, <3>2, ReturnKeepsHeld
    <3>3. CASE job' = [job EXCEPT ![0].at = "request", ![0].mine = session]
      <4>1. Moved(0, job[0].by, "request", job[0].next, job[0].dropping)
        BY <3>3, HolderIsAJob DEF Moved, Jobbed, JobSet
      <4>2. job[0].by # Free /\ job[0].next = "-"
        BY <3>1 DEF Held, holder
      <4> QED  BY <3>1, <4>1, <4>2, MoveKeepsHeld
    <3> QED  BY <2>7, <3>2, <3>3 DEF TakeSession
  <2>8. CASE Answered(0)
    BY <2>8, ReturnKeepsHeld DEF Answered, at
  <2>9. CASE TimesOut(0)
    BY <2>9, ReturnKeepsHeld DEF TimesOut, at
  <2>10. CASE Undecodable(0)
    BY <2>10, ReturnKeepsHeld DEF Undecodable, at
  <2>11. CASE Fails(0)
    BY <2>11, ReturnKeepsHeld, CloseKeepsHeld DEF Fails, at
  <2> QED  BY <1>2, <2>1, <2>2, <2>3, <2>4, <2>5, <2>6, <2>7, <2>8, <2>9, <2>10, <2>11 DEF ThreadStep
<1>3. CASE HolderStep
  <2>1. CASE PollAnswered \/ Subscribed \/ PutAnswered \/ RawReadEnds
    BY <2>1, ReleaseKeepsHeld DEF PollAnswered, Subscribed, PutAnswered, RawReadEnds
  <2>2. CASE FirstFailure
    <3>1. at # "-" /\ UNCHANGED <<closed, closer, cancels>>
      BY <2>2 DEF FirstFailure, PollFailed, Raised
    <3>2. \/ closed /\ CloseThen(0, "abort")
          \/ Release \/ CloseThen(0, "unreachable") \/ CloseThen(0, "again")
      BY <2>2 DEF FirstFailure, EndCycle, Unreachable
    <3> QED  BY <3>1, <3>2, CloseKeepsHeld, ReleaseKeepsHeld
  <2>3. CASE PollAgain
    <3>1. Moved(0, job[0].by, "open", job[0].next, job[0].dropping)
      BY <2>3, HolderIsAJob DEF PollAgain, Moved, Jobbed, JobSet
    <3>2. job[0].by # Free /\ job[0].next = "-" /\ UNCHANGED <<closed, closer, cancels>>
      BY <2>3 DEF PollAgain, Held, holder, at
    <3> QED  BY <3>1, <3>2, MoveKeepsHeld
  <2>4. CASE GiveUpCycle
    BY <2>4, ReleaseKeepsHeld DEF GiveUpCycle, Unreachable, EndCycle
  <2>5. CASE NothingSubscribed \/ AttemptOverrun
    BY <2>5, ReleaseKeepsHeld DEF NothingSubscribed, AttemptOverrun, EndCycle
  <2>6. CASE PutFails
    BY <2>6, CloseKeepsHeld, ReleaseKeepsHeld DEF PutFails, Raised
  <2>7. CASE PutLost
    <3>1. CASE Release
      BY <2>7, <3>1, ReleaseKeepsHeld DEF PutLost
    <3>2. CASE job' = [job EXCEPT ![0].at = "open"]
      <4>1. Moved(0, job[0].by, "open", job[0].next, job[0].dropping)
        BY <3>2, HolderIsAJob DEF Moved, Jobbed, JobSet
      <4>2. job[0].by # Free /\ job[0].next = "-" /\ UNCHANGED <<closed, closer, cancels>>
        BY <2>7 DEF PutLost, Held, holder, at
      <4> QED  BY <4>1, <4>2, MoveKeepsHeld
    <3> QED  BY <2>7, <3>1, <3>2 DEF PutLost
  <2>8. CASE RawReadFails
    BY <2>8, CloseKeepsHeld DEF RawReadFails
  <2> QED  BY <1>3, <2>1, <2>2, <2>3, <2>4, <2>5, <2>6, <2>7, <2>8 DEF HolderStep
<1>4. CASE StartPoll \/ StartAttempt \/ StartCommand \/ StartRawRead
  BY <1>4, AcquireKeepsHeld DEF StartPoll, StartAttempt, StartCommand, StartRawRead, Poll, Attempt,
     Command, RawRead, Free
<1>5. CASE AttemptIsDue \/ RetryObserve \/ Rest \/ GraceEnds \/ CommitAttempt
  BY <1>5, SameJobsKeepHeld DEF AttemptIsDue, RetryObserve, Rest, GraceEnds, CommitAttempt
<1>6. CASE CancelHolder
  <2>1. cancels \in Nat /\ cancels' = cancels + 1 /\ cancels + 1 \in Jobs
    BY <1>6, LimitOK DEF CancelHolder, Cancel, Counters, LimitOK, Jobs
  <2>2. job'[0] = NoJob
    BY <1>6, <2>1, HolderIsAJob DEF CancelHolder, Jobbed
  <2>3. \A i \in Jobs : i > cancels' => job'[i] = NoJob
    <3> TAKE i \in Jobs
    <3> HAVE i > cancels'
    <3>1. i # 0 /\ i # cancels + 1 /\ i > cancels
      BY <2>1 DEF Jobs
    <3>2. job'[i] = job[i]
      BY <1>6, <3>1 DEF CancelHolder, Jobbed
    <3> QED  BY <3>1, <3>2 DEF Held
  <2>4. UNCHANGED <<closed, closer>>
    BY <1>6 DEF CancelHolder
  <2> QED  BY <2>2, <2>3, <2>4 DEF Held, NoJob, holder, at
<1>7. CASE CancelCycle
  <2>1. cancels \in Nat /\ cancels' = cancels + 1 /\ UNCHANGED <<closed, closer, job>>
    BY <1>7 DEF CancelCycle, Cancel, Counters
  <2>2. \A i \in Jobs : i > cancels' => i > cancels
    BY <2>1 DEF Jobs
  <2> QED  BY <2>1, <2>2 DEF Held, holder, at
<1>8. CASE AsyncClose \/ CloserReads \/ CloserDrops
  BY <1>8 DEF AsyncClose, CloserReads, CloserDrops, Held, holder, at
<1>9. CASE UNCHANGED vars
  BY <1>9, SameJobsKeepHeld DEF vars
<1> QED  BY <1>1, <1>2, <1>3, <1>4, <1>5, <1>6, <1>7, <1>8, <1>9 DEF Next

\* A holder's move that leaves the sessions alone, and opens and drops none.
LEMMA MoveKeepsOwned ==
    ASSUME Owned, UNCHANGED <<closed, session, alive, loose>>,
           NEW by, NEW where, NEW next, NEW dropping, Moved(0, by, where, next, dropping),
           where # "drop", where = "handshake" => session = NoSession
    PROVE  Owned'
<1>1. Strays' \subseteq Strays
  BY DEF Strays, Moved, Jobs
<1>2. at' = where
  BY DEF at, Moved
<1> QED  BY <1>1, <1>2 DEF Owned

LEMMA ReturnKeepsOwned ==
    ASSUME Jobbed, Owned, UNCHANGED <<closed, session, alive, loose>>,
           NEW w, Return(0, w), w \notin {"drop", "handshake"}
    PROVE  Owned'
<1>1. Moved(0, job[0].by, w, "-", NoSession)
  BY ReturnMoves
<1> QED  BY <1>1, MoveKeepsOwned

LEMMA CloseKeepsOwned ==
    ASSUME Jobbed, Owned, UNCHANGED <<closed, session, alive, loose>>,
           NEW w, CloseThen(0, w)
    PROVE  Owned'
<1>1. Moved(0, job[0].by, "close", w, job[0].dropping)
  BY CloseMoves, HolderIsAJob
<1> QED  BY <1>1, MoveKeepsOwned

\* Every step keeps account of the sessions.
LEMMA OwnedKept == Numbered /\ Jobbed /\ Held /\ Owned /\ [Next]_vars => Owned'
<1> SUFFICES ASSUME Numbered /\ Jobbed /\ Held /\ Owned, [Next]_vars PROVE Owned'
  OBVIOUS
<1> USE HolderIsAJob DEF Free, Poll, Attempt, Command, RawRead, NoJob, NoSession, network,
     unload, lock, history, holder, at, Strays, Jobbed, Numbered, Held, Owned
<1>1. ASSUME NEW i \in Jobs, Open(i) PROVE Owned'
  <2>1. CASE i # 0
    <3>1. /\ i \in Strays /\ Strays' \subseteq Strays /\ at' = at /\ job'[0] = job[0]
          /\ UNCHANGED <<closed, session, alive, loose>>
      BY <1>1, <2>1, OneJobMoves DEF ThreadStep, Open
    <3> QED  BY <3>1
  <2>2. CASE i = 0
    <3>1. UNCHANGED <<closed, session, alive, loose>>
      BY <1>1 DEF Open
    <3>2. \/ Return(0, "no session") \/ Goto(0, "ready")
          \/ session = NoSession /\ Goto(0, "handshake")
      BY <1>1, <2>2 DEF Open
    <3>3. CASE Return(0, "no session")
      BY <3>1, <3>3, ReturnKeepsOwned
    <3>4. CASE Goto(0, "ready")
      <4>1. Moved(0, job[0].by, "ready", job[0].next, job[0].dropping)
        BY <3>4, GotoMoves
      <4> QED  BY <3>1, <4>1, MoveKeepsOwned
    <3>5. CASE session = NoSession /\ Goto(0, "handshake")
      <4>1. Moved(0, job[0].by, "handshake", job[0].next, job[0].dropping)
        BY <3>5, GotoMoves
      <4> QED  BY <3>1, <3>5, <4>1, MoveKeepsOwned
    <3> QED  BY <3>2, <3>3, <3>4, <3>5
  <2> QED  BY <2>1, <2>2
<1>2. ASSUME NEW i \in Jobs, HandshakeFails(i) PROVE Owned'
  BY <1>2 DEF HandshakeFails, Fault, Return
<1>3. ASSUME NEW i \in Jobs, Publish(i) PROVE Owned'
  BY <1>3 DEF Publish, Goto, Loosen
<1>4. ASSUME NEW i \in Jobs, CheckClosed(i) PROVE Owned'
  <2>1. CASE i # 0
    <3>1. /\ i \in Strays /\ Strays' \subseteq Strays /\ at' = at /\ job'[0] = job[0]
          /\ UNCHANGED <<closed, session, alive, loose>>
      BY <1>4, <2>1, OneJobMoves DEF ThreadStep, CheckClosed
    <3> QED  BY <3>1
  <2>2. CASE i = 0
    <3>1. UNCHANGED <<closed, session, alive, loose>>
      BY <1>4 DEF CheckClosed
    <3>2. Goto(0, "ready") \/ CloseThen(0, "no session")
      BY <1>4, <2>2 DEF CheckClosed
    <3>3. CASE Goto(0, "ready")
      <4>1. Moved(0, job[0].by, "ready", job[0].next, job[0].dropping)
        BY <3>3, GotoMoves
      <4> QED  BY <3>1, <4>1, MoveKeepsOwned
    <3>4. CASE CloseThen(0, "no session")
      BY <3>1, <3>4, CloseKeepsOwned
    <3> QED  BY <3>2, <3>3, <3>4
  <2> QED  BY <2>1, <2>2
<1>5. ASSUME NEW i \in Jobs, CloseReads(i) PROVE Owned'
  BY <1>5 DEF CloseReads
<1>6. ASSUME NEW i \in Jobs, CloseDrops(i) PROVE Owned'
  BY <1>6 DEF CloseDrops, Return
<1>7. ASSUME NEW i \in Jobs, TakeSession(i) PROVE Owned'
  <2>1. CASE i # 0
    <3>1. /\ i \in Strays /\ Strays' \subseteq Strays /\ at' = at /\ job'[0] = job[0]
          /\ UNCHANGED <<closed, session, alive, loose>>
      BY <1>7, <2>1, OneJobMoves DEF ThreadStep, TakeSession
    <3> QED  BY <3>1
  <2>2. CASE i = 0
    <3>1. UNCHANGED <<closed, session, alive, loose>>
      BY <1>7 DEF TakeSession
    <3>2. CASE Return(0, "gone")
      BY <3>1, <3>2, ReturnMoves, MoveKeepsOwned
    <3>3. CASE job' = [job EXCEPT ![0].at = "request", ![0].mine = session]
      <4>1. Moved(0, job[0].by, "request", job[0].next, job[0].dropping)
        BY <3>3 DEF Moved, JobSet
      <4> QED  BY <3>1, <4>1, MoveKeepsOwned
    <3> QED  BY <1>7, <2>2, <3>2, <3>3 DEF TakeSession
  <2> QED  BY <2>1, <2>2
<1>8. ASSUME NEW i \in Jobs, Answered(i) PROVE Owned'
  BY <1>8 DEF Answered, Return
<1>9. ASSUME NEW i \in Jobs, TimesOut(i) PROVE Owned'
  BY <1>9 DEF TimesOut, Fault, Return
<1>10. ASSUME NEW i \in Jobs, Undecodable(i) PROVE Owned'
  BY <1>10 DEF Undecodable, Fault, Return
<1>11. ASSUME NEW i \in Jobs, Fails(i) PROVE Owned'
  <2>1. CASE i # 0
    <3>1. /\ i \in Strays /\ Strays' \subseteq Strays /\ at' = at /\ job'[0] = job[0]
          /\ UNCHANGED <<closed, session, alive, loose>>
      BY <1>11, <2>1, OneJobMoves DEF ThreadStep, Fails
    <3> QED  BY <3>1
  <2>2. CASE i = 0
    <3>1. UNCHANGED <<closed, session, alive, loose>>
      BY <1>11 DEF Fails, Fault
    <3>2. CloseThen(0, "error") \/ Return(0, "error")
      BY <1>11, <2>2 DEF Fails
    <3> QED  BY <3>1, <3>2, ReturnMoves, CloseMoves, MoveKeepsOwned
  <2> QED  BY <2>1, <2>2
<1>12. CASE PollAnswered
  BY <1>12 DEF PollAnswered, Release
<1>13. CASE FirstFailure
  <2>1. UNCHANGED <<closed, session, alive, loose>>
    BY <1>13 DEF FirstFailure
  <2>2. Release \/ \E w : CloseThen(0, w)
    BY <1>13 DEF FirstFailure, EndCycle, Unreachable
  <2> QED  BY <2>1, <2>2, ReleaseMoves, CloseMoves, MoveKeepsOwned
<1>14. CASE PollAgain
  BY <1>14 DEF PollAgain
<1>15. CASE GiveUpCycle
  <2>1. UNCHANGED <<closed, session, alive, loose>>
    BY <1>15 DEF GiveUpCycle
  <2>2. Release
    BY <1>15 DEF GiveUpCycle, EndCycle, Unreachable
  <2> QED  BY <2>1, <2>2, ReleaseMoves, MoveKeepsOwned
<1>16. CASE Subscribed
  BY <1>16 DEF Subscribed, Release
<1>17. CASE NothingSubscribed
  BY <1>17 DEF NothingSubscribed, EndCycle, Release
<1>18. CASE AttemptOverrun
  BY <1>18 DEF AttemptOverrun, EndCycle, Release
<1>19. CASE PutAnswered
  BY <1>19 DEF PutAnswered, Release
<1>20. CASE PutFails
  <2>1. UNCHANGED <<closed, session, alive, loose>>
    BY <1>20 DEF PutFails
  <2>2. Release \/ \E w : CloseThen(0, w)
    BY <1>20 DEF PutFails
  <2> QED  BY <2>1, <2>2, ReleaseMoves, CloseMoves, MoveKeepsOwned
<1>21. CASE PutLost
  <2>1. UNCHANGED <<closed, session, alive, loose>>
    BY <1>21 DEF PutLost
  <2>2. CASE Release
    BY <2>1, <2>2, ReleaseMoves, MoveKeepsOwned
  <2>3. CASE job' = [job EXCEPT ![0].at = "open"]
    <3>1. Moved(0, job[0].by, "open", job[0].next, job[0].dropping)
      BY <2>3, HolderIsAJob DEF Moved
    <3> QED  BY <2>1, <3>1, MoveKeepsOwned
  <2> QED  BY <1>21, <2>2, <2>3 DEF PutLost
<1>22. CASE RawReadEnds
  BY <1>22 DEF RawReadEnds, Release
<1>23. CASE RawReadFails
  <2>1. loose \subseteq loose' /\ UNCHANGED <<closed, session, alive>>
    BY <1>23 DEF RawReadFails, Loosen
  <2>2. Moved(0, job[0].by, "close", "done", job[0].dropping)
    BY <1>23, CloseMoves DEF RawReadFails
  <2>3. Strays' \subseteq Strays /\ at' = "close"
    BY <2>2 DEF Moved, Jobs
  <2> QED  BY <2>1, <2>3
<1>24. CASE StartPoll
  BY <1>24 DEF StartPoll, Acquire
<1>25. CASE AttemptIsDue
  BY <1>25 DEF AttemptIsDue
<1>26. CASE RetryObserve
  BY <1>26 DEF RetryObserve
<1>27. CASE Rest
  BY <1>27 DEF Rest
<1>28. CASE StartAttempt
  BY <1>28 DEF StartAttempt, Acquire
<1>29. CASE GraceEnds
  BY <1>29 DEF GraceEnds, Fault
<1>30. CASE CommitAttempt
  BY <1>30 DEF CommitAttempt
<1>31. CASE StartCommand
  BY <1>31 DEF StartCommand, Acquire
<1>32. CASE StartRawRead
  BY <1>32 DEF StartRawRead, Acquire
<1>33. CASE CancelHolder
  BY <1>33 DEF CancelHolder, Cancel, Fault, Loosen
<1>34. CASE CancelCycle
  BY <1>34 DEF CancelCycle, Cancel, Fault
<1>35. CASE AsyncClose
  BY <1>35 DEF AsyncClose, Fault
<1>36. CASE CloserReads
  BY <1>36 DEF CloserReads
<1>37. CASE CloserDrops
  BY <1>37 DEF CloserDrops
<1>38. CASE UNCHANGED vars
  BY <1>38 DEF vars
<1> QED  BY <1>1, <1>2, <1>3, <1>4, <1>5, <1>6, <1>7, <1>8, <1>9, <1>10, <1>11, <1>12, <1>13,
     <1>14, <1>15, <1>16, <1>17, <1>18, <1>19, <1>20, <1>21, <1>22, <1>23, <1>24, <1>25, <1>26,
     <1>27, <1>28, <1>29, <1>30, <1>31, <1>32, <1>33, <1>34, <1>35, <1>36, <1>37, <1>38 DEF
     Next, ThreadStep, HolderStep

\* No thread's step takes its relations from a session and leaves it open.
LEMMA ThreadsLeaveRelations ==
    ASSUME Numbered, NEW i \in Jobs, ThreadStep(i), NEW s \in Sessions, HasRelations(s)
    PROVE  HasRelations(s)'
<1>1. CASE Publish(i)
  <2>1. alive' = alive \cup {opened + 1} /\ registered' = registered /\ s # opened + 1
    BY <1>1 DEF Publish, Numbered, Sessions
  <2> QED  BY <2>1 DEF HasRelations
<1>2. CASE CloseDrops(i)
  BY <1>2 DEF CloseDrops, HasRelations
<1>3. CASE Answered(i)
  BY <1>3 DEF Answered, HasRelations
<1>4. CASE Open(i) \/ HandshakeFails(i) \/ CheckClosed(i) \/ CloseReads(i) \/ TakeSession(i)
  BY <1>4 DEF Open, HandshakeFails, CheckClosed, CloseReads, TakeSession, network, HasRelations
<1>5. CASE TimesOut(i) \/ Undecodable(i) \/ Fails(i)
  BY <1>5 DEF TimesOut, Undecodable, Fails, HasRelations
<1> QED  BY <1>1, <1>2, <1>3, <1>4, <1>5 DEF ThreadStep

\* A thread's step leaves the cycle alone, and its attempt's session but
\* where the holder takes it.
LEMMA ThreadsLeaveCycle ==
    ASSUME NEW i \in Jobs, ThreadStep(i)
    PROVE  /\ cycle' = cycle
           /\ attempted' = attempted
              \/ /\ TakeSession(i) /\ i = 0 /\ holder = Attempt
BY DEF ThreadStep, Open, HandshakeFails, Publish, CheckClosed, CloseReads, CloseDrops,
   TakeSession, Answered, TimesOut, Undecodable, Fails, rounds, holder

\* The holder's own step: it stays the holder's, and takes up or ends a
\* request in two of them only.
LEMMA HolderGoesOn ==
    ASSUME Jobbed, ThreadStep(0)
    PROVE  /\ holder' = holder
           /\ \/ at' \notin {"request", "ok"}
              \/ at' = "ok" /\ Answered(0)
              \/ at' = "request" /\ TakeSession(0) /\ session # NoSession
                                 /\ job'[0].mine = session
<1>1. ASSUME NEW w, Goto(0, w) \/ CloseThen(0, w) \/ Return(0, w)
      PROVE  holder' = holder /\ at' \in {w, "close"}
  <2>1. CASE Goto(0, w)
    BY <2>1, HolderIsAJob, GotoMoves DEF Moved, holder, at
  <2>2. CASE CloseThen(0, w)
    BY <2>2, HolderIsAJob, CloseMoves DEF Moved, holder, at
  <2>3. CASE Return(0, w)
    BY <2>3, ReturnMoves DEF Moved, holder, at
  <2> QED  BY <1>1, <2>1, <2>2, <2>3
<1>2. CASE Open(0)
  <2>1. Return(0, "no session") \/ Goto(0, "ready") \/ Goto(0, "handshake")
    BY <1>2 DEF Open
  <2>2. holder' = holder /\ at' \in {"no session", "ready", "handshake", "close"}
    BY <1>1, <2>1
  <2> QED  BY <2>2
<1>3. CASE HandshakeFails(0)
  BY <1>1, <1>3 DEF HandshakeFails
<1>4. CASE Publish(0)
  BY <1>1, <1>4 DEF Publish
<1>5. CASE CheckClosed(0)
  <2>1. CloseThen(0, "no session") \/ Goto(0, "ready")
    BY <1>5 DEF CheckClosed
  <2>2. holder' = holder /\ at' \in {"no session", "ready", "close"}
    BY <1>1, <2>1
  <2> QED  BY <2>2
<1>6. CASE CloseReads(0)
  BY <1>6, HolderIsAJob DEF CloseReads, Jobbed, JobSet, holder, at
<1>7. CASE CloseDrops(0)
  <2>1. job[0].next \in Nexts
    BY HolderIsAJob DEF Jobbed, JobSet
  <2>2. Return(0, job[0].next)
    BY <1>7 DEF CloseDrops
  <2>3. holder' = holder /\ at' \in {job[0].next, "close"}
    BY <1>1, <2>2
  <2> QED  BY <2>1, <2>3 DEF Nexts
<1>8. CASE TakeSession(0)
  <2>1. CASE Return(0, "gone")
    BY <1>1, <2>1
  <2>2. CASE job' = [job EXCEPT ![0].at = "request", ![0].mine = session] /\ session # NoSession
    <3>1. job'[0] = [job[0] EXCEPT !.at = "request", !.mine = session]
      BY <2>2, HolderIsAJob DEF Jobbed
    <3> QED  BY <1>8, <2>2, <3>1, HolderIsAJob DEF Jobbed, JobSet, holder, at
  <2> QED  BY <1>8, <2>1, <2>2 DEF TakeSession
<1>9. CASE Answered(0)
  <2>1. Return(0, "ok")
    BY <1>9 DEF Answered
  <2> QED  BY <1>9, <2>1, ReturnMoves DEF Moved, holder, at
<1>10. CASE TimesOut(0)
  BY <1>1, <1>10 DEF TimesOut
<1>11. CASE Undecodable(0)
  BY <1>1, <1>11 DEF Undecodable
<1>12. CASE Fails(0)
  BY <1>1, <1>12 DEF Fails
<1> QED  BY <1>2, <1>3, <1>4, <1>5, <1>6, <1>7, <1>8, <1>9, <1>10, <1>11, <1>12 DEF ThreadStep

LEMMA TakesNothingYet ==
    ASSUME Jobbed, TakeSession(0)
    PROVE  at' # "ok"
<1>1. CASE Return(0, "gone")
  BY <1>1, ReturnMoves DEF Moved, at
<1>2. CASE job' = [job EXCEPT ![0].at = "request", ![0].mine = session]
  <2>1. job'[0] = [job[0] EXCEPT !.at = "request", !.mine = session]
    BY <1>2, HolderIsAJob DEF Jobbed
  <2> QED  BY <2>1, HolderIsAJob DEF Jobbed, JobSet, at
<1> QED  BY <1>1, <1>2 DEF TakeSession

LEMMA CancelFrees == Jobbed /\ CancelHolder => job'[0] = NoJob
BY HolderIsAJob DEF CancelHolder, Jobbed

\* Every step keeps account of the attempt.
LEMMA BurstKept == Numbered /\ Jobbed /\ Held /\ Burst /\ [Next]_vars => Burst'
<1> SUFFICES ASSUME Numbered, Jobbed, Held, Burst, [Next]_vars PROVE Burst'
  OBVIOUS
<1>1. ASSUME NEW i \in Jobs \ {0}, ThreadStep(i) PROVE Burst'
  <2>1. holder' = holder /\ at' = at /\ job'[0].mine = job[0].mine
    BY <1>1, OneJobMoves, HolderIsAJob DEF holder, at
  <2>2. UNCHANGED <<cycle, attempted>>
    BY <1>1, ThreadsLeaveCycle
  <2>3. HasRelations(attempted) => HasRelations(attempted)'
    BY <1>1, <2>2, ThreadsLeaveRelations DEF Numbered, HasRelations
  <2> QED  BY <2>1, <2>2, <2>3 DEF Burst
<1>2. ASSUME ThreadStep(0) PROVE Burst'
  <2> USE HolderIsAJob
  <2>1. cycle' = cycle
    BY <1>2, ThreadsLeaveCycle
  <2>2. CASE attempted' = attempted /\ at' \notin {"request", "ok"}
    <3>1. holder' = holder
      BY <1>2, HolderGoesOn
    <3>2. HasRelations(attempted) => HasRelations(attempted)'
      BY <1>2, <2>2, ThreadsLeaveRelations DEF Numbered, HasRelations
    <3> QED  BY <2>1, <2>2, <3>1, <3>2 DEF Burst
  <2>3. CASE Answered(0) /\ at' = "ok"
    <3>1. holder' = holder /\ at = "request" /\ attempted' = attempted
      BY <1>2, <2>3, HolderGoesOn DEF Answered, rounds, at
    <3>2. CASE holder = Attempt
      <4>1. job[0].mine = attempted /\ attempted # NoSession
        BY <3>1, <3>2 DEF Burst
      <4>2. attempted' \in registered'
        BY <2>3, <3>1, <3>2, <4>1 DEF Answered, holder
      <4>3. cycle = "subscribing"
        BY <3>2 DEF Burst
      <4> QED  BY <2>1, <2>3, <3>1, <4>1, <4>2, <4>3 DEF Burst, HasRelations
    <3>3. CASE holder # Attempt
      <4>1. HasRelations(attempted) => HasRelations(attempted)'
        BY <1>2, <3>1, ThreadsLeaveRelations DEF Numbered, HasRelations
      <4> QED  BY <2>1, <3>1, <3>3, <4>1 DEF Burst
    <3> QED  BY <3>2, <3>3
  <2>4. CASE TakeSession(0)
    <3>1. holder' = holder /\ at' # "ok" /\ UNCHANGED <<alive, registered>>
      BY <1>2, <2>4, HolderGoesOn, TakesNothingYet DEF TakeSession, network
    <3>2. CASE holder = Attempt
      <4>1. attempted' = session /\ cycle = "subscribing"
        BY <2>4, <3>2 DEF TakeSession, Burst, holder
      <4>2. at' = "request" => session # NoSession /\ job'[0].mine = session
        BY <1>2, HolderGoesOn DEF Answered, at
      <4> QED  BY <2>1, <3>1, <3>2, <4>1, <4>2 DEF Burst
    <3>3. CASE holder # Attempt
      <4>1. attempted' = attempted
        BY <1>2, <3>3, ThreadsLeaveCycle
      <4> QED  BY <2>1, <3>1, <3>3, <4>1 DEF Burst, HasRelations
    <3> QED  BY <3>2, <3>3
  <2> QED  BY <1>2, <2>2, <2>3, <2>4, HolderGoesOn, ThreadsLeaveCycle
<1>3. CASE HolderStep
  <2>1. UNCHANGED <<alive, registered>>
    BY <1>3 DEF HolderStep, PollAnswered, FirstFailure, PollAgain, GiveUpCycle, Subscribed,
       NothingSubscribed, AttemptOverrun, PutAnswered, PutFails, PutLost, RawReadEnds,
       RawReadFails, network
  <2>2. CASE PollAnswered
    BY <2>1, <2>2, ReleaseMoves DEF PollAnswered, Moved, Burst, HasRelations, holder, at, Free,
       Attempt
  <2>3. CASE FirstFailure \/ GiveUpCycle \/ NothingSubscribed \/ AttemptOverrun
    <3>1. CASE EndCycle
      BY <3>1, ReleaseMoves DEF EndCycle, Moved, Burst, holder, at, Free, Attempt
    <3>2. CASE \E w : CloseThen(0, w) /\ UNCHANGED <<cycle, attempted>>
      BY <2>1, <3>2, CloseMoves, HolderIsAJob DEF Moved, Burst, HasRelations, holder, at
    <3> QED  BY <2>3, <3>1, <3>2 DEF FirstFailure, GiveUpCycle, NothingSubscribed, AttemptOverrun,
             Unreachable
  <2>4. CASE PollAgain \/ PutLost
    <3>1. UNCHANGED <<cycle, attempted>>
      BY <2>4 DEF PollAgain, PutLost, rounds
    <3>2. CASE job' = [job EXCEPT ![0].at = "open"]
      <4>1. holder' = holder /\ at' = "open"
        BY <3>2, HolderIsAJob DEF Jobbed, JobSet, holder, at
      <4> QED  BY <2>1, <3>1, <4>1 DEF Burst, HasRelations
    <3>3. CASE Release
      BY <2>1, <3>1, <3>3, ReleaseMoves DEF Moved, Burst, HasRelations, holder, at, Free, Attempt
    <3> QED  BY <2>4, <3>2, <3>3 DEF PollAgain, PutLost
  <2>5. CASE Subscribed
    <3>1. attempted' = attempted /\ holder' # Attempt /\ attempted # NoSession
          /\ HasRelations(attempted)
      BY <2>5, ReleaseMoves DEF Subscribed, Moved, Burst, holder, Free, Attempt
    <3> QED  BY <2>1, <3>1 DEF Burst, HasRelations
  <2>6. CASE PutAnswered \/ PutFails \/ RawReadEnds \/ RawReadFails
    <3>1. UNCHANGED <<cycle, attempted>>
      BY <2>6 DEF PutAnswered, PutFails, RawReadEnds, RawReadFails, rounds
    <3>2. CASE Release
      BY <2>1, <3>1, <3>2, ReleaseMoves DEF Moved, Burst, HasRelations, holder, at, Free, Attempt
    <3>3. CASE \E w : CloseThen(0, w)
      BY <2>1, <3>1, <3>3, CloseMoves, HolderIsAJob DEF Moved, Burst, HasRelations, holder, at
    <3> QED  BY <2>6, <3>2, <3>3 DEF PutAnswered, PutFails, RawReadEnds, RawReadFails
  <2> QED  BY <1>3, <2>2, <2>3, <2>4, <2>5, <2>6 DEF HolderStep
<1>4. CASE StartPoll \/ StartAttempt \/ StartCommand \/ StartRawRead
  <2>1. UNCHANGED <<alive, registered, attempted>> /\ at' = "open"
    BY <1>4, AcquireMoves DEF StartPoll, StartAttempt, StartCommand, StartRawRead, Moved, at,
       network, rounds
  <2>2. holder' = Attempt => StartAttempt
    <3>1. ASSUME NEW who, Acquire(who) PROVE holder' = who
      BY <3>1, AcquireMoves DEF Moved, holder
    <3>2. StartAttempt \/ Acquire(Poll) \/ Acquire(Command) \/ Acquire(RawRead)
      BY <1>4 DEF StartPoll, StartCommand, StartRawRead
    <3>3. StartAttempt \/ holder' = Poll \/ holder' = Command \/ holder' = RawRead
      BY <3>1, <3>2
    <3> QED  BY <3>3 DEF Poll, Attempt, Command, RawRead
  <2>3. cycle' \in {cycle, "poll", "subscribing"} /\ (StartAttempt => cycle' = "subscribing")
    BY <1>4 DEF StartPoll, StartAttempt, StartCommand, StartRawRead, rounds
  <2> QED  BY <2>1, <2>2, <2>3 DEF Burst, HasRelations
<1>5. CASE AttemptIsDue \/ RetryObserve \/ Rest
  BY <1>5 DEF AttemptIsDue, RetryObserve, Rest, Burst, lock, holder, at
<1>6. CASE GraceEnds
  BY <1>6 DEF GraceEnds, Burst, HasRelations, lock, holder, at
<1>7. CASE CommitAttempt
  BY <1>7 DEF CommitAttempt, Burst, lock, holder, at, Free, Attempt
<1>8. CASE CancelHolder
  <2>1. holder' = Free
    BY <1>8, CancelFrees DEF holder, NoJob
  <2>2. UNCHANGED <<alive, registered>> /\ (cycle' = "idle" \/ UNCHANGED <<cycle, attempted>>)
    BY <1>8 DEF CancelHolder
  <2> QED  BY <2>1, <2>2 DEF Burst, HasRelations, Free, Attempt
<1>9. CASE CancelCycle
  BY <1>9 DEF CancelCycle, Burst, lock, holder, at
<1>10. CASE AsyncClose \/ CloserReads
  BY <1>10 DEF AsyncClose, CloserReads, Burst, HasRelations, network, rounds, lock, holder, at
<1>11. CASE CloserDrops
  BY <1>11 DEF CloserDrops, Burst, HasRelations, rounds, lock, holder, at
<1>12. CASE UNCHANGED vars
  BY <1>12 DEF vars, Burst, HasRelations, network, rounds, lock, holder, at
<1> QED  BY <1>1, <1>2, <1>3, <1>4, <1>5, <1>6, <1>7, <1>8, <1>9, <1>10, <1>11, <1>12 DEF Next

\* A thread of the holder's, before unload.  One that closes goes on where
\* that was to lead; of the others a poll's failure alone turns to closing,
\* and the session and its relations stay but where one is opened, which
\* needs that there be none in use or that it be loose.
LEMMA HolderCloses ==
    ASSUME Jobbed, Held, ~closed, ThreadStep(0), at \in {"close", "drop"}
    PROVE  /\ at' \in {"drop", job[0].next}
           /\ at' = "drop" => job'[0].next = job[0].next
<1> USE HolderIsAJob
<1>1. CASE CloseReads(0)
  <2>1. job'[0] = [job[0] EXCEPT !.at = "drop", !.dropping = session]
    BY <1>1 DEF CloseReads, Jobbed
  <2> QED  BY <2>1 DEF Jobbed, JobSet, at
<1>2. CASE CloseDrops(0)
  <2>1. at' = job[0].next
    BY <1>2, ReturnMoves DEF CloseDrops, Moved, at
  <2> QED  BY <2>1 DEF Held
<1> QED  BY <1>1, <1>2 DEF ThreadStep, Open, HandshakeFails, Publish, CheckClosed, TakeSession,
         Answered, TimesOut, Undecodable, Fails, at

LEMMA HolderWorks ==
    ASSUME Jobbed, Held, Owned, ~closed, ThreadStep(0), at \notin {"close", "drop"}
    PROVE  /\ \/ session' = session /\ registered \subseteq registered'
              \/ session \in loose \cup {NoSession}
           /\ at' \in {"close", "drop"} => holder = Poll /\ job'[0].next = "error"
           /\ at \notin {"error", "again", "unreachable", "lost"}
<1> USE HolderIsAJob
<1>1. at \notin {"error", "again", "unreachable", "lost"}
  BY DEF ThreadStep, Open, HandshakeFails, Publish, CheckClosed, CloseReads, CloseDrops,
     TakeSession, Answered, TimesOut, Undecodable, Fails, at
<1>2. \/ session' = session /\ registered \subseteq registered'
      \/ session \in loose \cup {NoSession}
  BY DEF ThreadStep, Open, HandshakeFails, Publish, CheckClosed, CloseReads, CloseDrops,
     TakeSession, Answered, TimesOut, Undecodable, Fails, network, Owned, at
<1>3. at' \in {"close", "drop"} => holder = Poll /\ job'[0].next = "error"
  <2>1. ASSUME NEW w, w \notin {"close", "drop"}, Goto(0, w) \/ Return(0, w)
        PROVE  at' \notin {"close", "drop"}
    <3>1. CASE Goto(0, w)
      BY <2>1, <3>1, GotoMoves DEF Moved, at
    <3>2. CASE Return(0, w)
      BY <2>1, <3>2, ReturnMoves DEF Moved, at
    <3> QED  BY <2>1, <3>1, <3>2
  <2>0. "no session" \notin {"close", "drop"} /\ "no answer" \notin {"close", "drop"}
    OBVIOUS
  <2>2. CASE Open(0)
    <3>1. CASE Return(0, "no session")
      BY <2>0, <2>1, <3>1
    <3>2. CASE Goto(0, "ready")
      BY <2>1, <3>2
    <3>3. CASE Goto(0, "handshake")
      BY <2>1, <3>3
    <3> QED  BY <2>2, <3>1, <3>2, <3>3 DEF Open
  <2>3. CASE HandshakeFails(0)
    <3>1. CASE Return(0, "no answer")
      BY <2>0, <2>1, <3>1
    <3>2. CASE Return(0, "no session")
      BY <2>0, <2>1, <3>2
    <3> QED  BY <2>3, <3>1, <3>2 DEF HandshakeFails
  <2>4. CASE Publish(0) \/ CheckClosed(0)
    <3>1. Goto(0, "published") \/ Goto(0, "ready")
      BY <2>4 DEF Publish, CheckClosed
    <3> QED  BY <2>1, <3>1
  <2>5. CASE TakeSession(0)
    <3>1. CASE Return(0, "gone")
      BY <2>1, <3>1
    <3>2. CASE job' = [job EXCEPT ![0].at = "request", ![0].mine = session]
      <4>1. job'[0] = [job[0] EXCEPT !.at = "request", !.mine = session]
        BY <3>2 DEF Jobbed
      <4> QED  BY <4>1 DEF Jobbed, JobSet, at
    <3> QED  BY <2>5, <3>1, <3>2 DEF TakeSession
  <2>6. CASE Answered(0) \/ TimesOut(0) \/ Undecodable(0)
    <3>1. Return(0, "ok") \/ Return(0, "timeout") \/ Return(0, "error")
      BY <2>6 DEF Answered, TimesOut, Undecodable
    <3> QED  BY <2>1, <3>1
  <2>7. CASE Fails(0)
    <3>1. CASE Return(0, "error")
      BY <2>1, <3>1
    <3>2. CASE holder = Poll /\ CloseThen(0, "error")
      <4>1. job'[0].next = "error"
        BY <3>2, CloseMoves DEF Moved
      <4> QED  BY <3>2, <4>1
    <3> QED  BY <2>7, <3>1, <3>2 DEF Fails, holder
  <2> QED  BY <2>2, <2>3, <2>4, <2>5, <2>6, <2>7 DEF ThreadStep, CloseReads, CloseDrops, at
<1> QED  BY <1>1, <1>2, <1>3

\* No thread's step changes who tries, or makes a loose session none.
LEMMA ThreadsLeaveTry ==
    ASSUME NEW i \in Jobs, ThreadStep(i)
    PROVE  try' = try /\ loose \subseteq loose'
BY DEF ThreadStep, Open, HandshakeFails, Publish, CheckClosed, CloseReads, CloseDrops,
   TakeSession, Answered, TimesOut, Undecodable, Fails, Goto, CloseThen, Return, Loosen, history

\* What a step of the holder's between two threads leaves as it is.
LEMMA HolderStepLeaves ==
    ASSUME HolderStep
    PROVE  UNCHANGED <<session, registered, closed>> /\ loose \subseteq loose'
BY DEF HolderStep, PollAnswered, FirstFailure, PollAgain, GiveUpCycle, Subscribed,
   NothingSubscribed, AttemptOverrun, PutAnswered, PutFails, PutLost, RawReadEnds, RawReadFails,
   network, unload, history, Loosen

\* Released, a claim stands as before if nobody was about to take it down.
LEMMA ReleaseKeepsClaim ==
    ASSUME Jobbed, ~closed, Claimed, Release, ~Downgrading,
           UNCHANGED <<session, registered, mode, refresh>>, loose \subseteq loose'
    PROVE  Claimed'
<1>1. holder' = Free /\ at' = "-"
  BY ReleaseMoves DEF Moved, holder, at
<1> QED  BY <1>1 DEF Claimed, Claim, Closing, Downgrading, Free, Poll, Command

LEMMA PollKeepsClaim ==
    ASSUME mode' = Poll, at' \notin {"close", "drop"}
    PROVE  Claimed'
BY DEF Claimed, Claim, Closing, Poll, Observe

LEMMA UnreachableKeepsClaim ==
    ASSUME Jobbed, Unreachable
    PROVE  Claimed'
<1>1. at' = "-"
  BY ReleaseMoves DEF Unreachable, EndCycle, Moved, at
<1>2. mode' # Observe
  BY DEF Unreachable, DowngradeIfObserving, DowngradeToPoll, push, Poll, Observe
<1> QED  BY <1>1, <1>2 DEF Claimed, Claim, Closing

LEMMA HolderKnown == Jobbed => holder \in Users
BY HolderIsAJob DEF Jobbed, JobSet, holder

\* Every step keeps account of the claim.
LEMMA ClaimedKept ==
    Numbered /\ Jobbed /\ Held /\ Owned /\ Burst /\ Claimed /\ [Next]_vars => Claimed'
<1> SUFFICES ASSUME Numbered, Jobbed, Held, Owned, Burst, Claimed, [Next]_vars, ~closed'
             PROVE  Claimed'
  BY DEF Claimed
<1> USE HolderIsAJob
<1>0. ~closed
  <2>1. closed => closer # "idle"
    BY DEF Held
  <2>2. ASSUME NEW i \in Jobs, ThreadStep(i) PROVE closed' = closed
    BY <2>2, OneJobMoves
  <2>3. CASE HolderStep
    BY <2>3, HolderStepLeaves
  <2> QED  BY <2>2, <2>3 DEF Next, vars, StartPoll, AttemptIsDue, RetryObserve, Rest,
           StartAttempt, GraceEnds, CommitAttempt, StartCommand, StartRawRead, CancelHolder,
           CancelCycle, AsyncClose, CloserReads, CloserDrops, unload
<1>1. ASSUME NEW i \in Jobs \ {0}, ThreadStep(i) PROVE Claimed'
  <2>1. /\ holder' = holder /\ at' = at /\ job'[0] = job[0] /\ try' = try
        /\ UNCHANGED <<mode, refresh>> /\ loose \subseteq loose'
    BY <1>1, OneJobMoves, ThreadsLeaveTry DEF holder, at
  <2>2. i \in Strays
    BY <1>1, OneJobMoves DEF Strays
  <2>3. session \in loose \cup {NoSession}
    BY <2>2 DEF Owned
  <2>4. mode = Observe => refresh \in loose \/ Downgrading
    BY <1>0, <2>3 DEF Claimed, Claim
  <2> QED  BY <1>0, <2>1, <2>4 DEF Claimed, Claim, Closing, Downgrading
<1>2. ASSUME ThreadStep(0) PROVE Claimed'
  <2>1. /\ holder' = holder /\ try' = try /\ UNCHANGED <<mode, refresh>> /\ loose \subseteq loose'
    BY <1>2, HolderGoesOn, OneJobMoves, ThreadsLeaveTry
  <2>2. CASE at \in {"close", "drop"}
    <3>1. at' \in {"drop", job[0].next} /\ (at' = "drop" => job'[0].next = job[0].next)
      BY <1>0, <1>2, <2>2, HolderCloses
    <3>2. Closing /\ Claim /\ job[0].next \notin {"close", "drop"}
      BY <1>0 DEF Claimed, Held
    <3>3. holder \in {Poll, Command} => Downgrading'
      BY <2>1, <2>2, <3>1, <3>2 DEF Closing, Downgrading
    <3>4. holder \notin {Poll, Command} /\ mode = Observe => refresh \in loose
      BY <2>2, <3>2, HolderKnown DEF Closing, Held, Users
    <3>5. Closing'
      BY <2>1, <2>2, <3>1, <3>2 DEF Closing
    <3>6. Claim'
      BY <2>1, <3>2, <3>3, <3>4 DEF Claim
    <3> QED  BY <3>5, <3>6 DEF Claimed
  <2>3. CASE at \notin {"close", "drop"}
    <3>1. /\ \/ session' = session /\ registered \subseteq registered'
             \/ session \in loose \cup {NoSession}
          /\ at' \in {"close", "drop"} => holder = Poll /\ job'[0].next = "error"
          /\ at \notin {"error", "again", "unreachable", "lost"}
      BY <1>0, <1>2, <2>3, HolderWorks
    <3>2. Claim
      BY <1>0 DEF Claimed
    <3>3. Downgrading => Downgrading'
      BY <2>1, <2>3, <3>1 DEF Downgrading
    <3>4. Claim'
      BY <2>1, <3>1, <3>2, <3>3 DEF Claim
    <3>5. Closing'
      BY <2>1, <3>1 DEF Closing, Poll, Command, Attempt, RawRead
    <3> QED  BY <3>4, <3>5 DEF Claimed
  <2> QED  BY <2>2, <2>3
<1>3. CASE HolderStep
  <2>1. UNCHANGED <<session, registered, closed>> /\ loose \subseteq loose'
    BY <1>3, HolderStepLeaves
  <2>2. CASE PollAnswered
    <3>1. Release /\ at' = "-"
      BY <2>2, ReleaseMoves DEF PollAnswered, Moved, at
    <3>2. CASE try = 2 /\ mode = Observe
      <4>1. mode' = Poll
        BY <2>2, <3>2 DEF PollAnswered, DowngradeToPoll
      <4> QED  BY <3>1, <4>1, PollKeepsClaim
    <3>3. CASE try # 2 /\ UNCHANGED push
      <4>1. ~Downgrading
        BY <2>2, <3>3 DEF PollAnswered, Downgrading, Poll, Command
      <4> QED  BY <1>0, <2>1, <3>1, <3>3, <4>1, ReleaseKeepsClaim DEF push
    <3>4. CASE mode # Observe /\ UNCHANGED push
      BY <3>1, <3>4 DEF Claimed, Claim, Closing, push
    <3> QED  BY <2>2, <3>2, <3>3, <3>4 DEF PollAnswered
  <2>3. CASE FirstFailure
    <3>1. CASE Defers /\ EndCycle /\ UNCHANGED push
      <4>0. holder = Poll /\ try = 1
        BY <2>3, <3>1 DEF FirstFailure, PollFailed
      <4>1. holder # Command /\ try # 2
        BY <4>0 DEF Poll, Command
      <4>2. at \in {"timeout", "no answer"}
        BY <2>3, <3>1 DEF FirstFailure, PollFailed, Defers
      <4>3. at \notin {"error", "again", "unreachable", "close", "drop"}
        BY <4>2
      <4>4. ~Downgrading
        BY <4>1, <4>3 DEF Downgrading
      <4> QED  BY <1>0, <2>1, <3>1, <4>4, ReleaseKeepsClaim DEF EndCycle, push
    <3>2. CASE Unreachable
      BY <2>1, <3>2, UnreachableKeepsClaim
    <3>3. CASE \E w \in {"unreachable", "again"} : CloseThen(0, w) /\ UNCHANGED push
      <4>1. holder' = Poll /\ at' = "close" /\ job'[0].next \in {"unreachable", "again"}
        BY <2>3, <3>3, CloseMoves DEF FirstFailure, PollFailed, Moved, holder, at
      <4>2. Claim
        BY <1>0 DEF Claimed
      <4> QED  BY <3>3, <4>1, <4>2 DEF Claimed, Claim, Closing, Downgrading, push, Poll, Command,
               Attempt, RawRead
    <3> QED  BY <1>0, <2>3, <3>1, <3>2, <3>3 DEF FirstFailure
  <2>4. CASE PollAgain
    <3>1. job'[0] = [job[0] EXCEPT !.at = "open"] /\ try' = 2 /\ UNCHANGED push
      BY <2>4 DEF PollAgain, Jobbed
    <3>2. holder' = Poll /\ at' = "open"
      BY <2>4, <3>1 DEF PollAgain, Jobbed, JobSet, holder, at
    <3>3. Claim
      BY <1>0 DEF Claimed
    <3> QED  BY <3>1, <3>2, <3>3 DEF Claimed, Claim, Closing, Downgrading, push, Poll, Command
  <2>5. CASE GiveUpCycle
    <3>1. CASE Unreachable
      BY <2>1, <3>1, UnreachableKeepsClaim
    <3>2. at # "abort"
      BY <1>0 DEF Held
    <3> QED  BY <2>5, <3>1, <3>2 DEF GiveUpCycle
  <2>6. CASE Subscribed \/ AttemptOverrun
    <3>1. Release /\ UNCHANGED push /\ holder = Attempt
      BY <2>6 DEF Subscribed, AttemptOverrun, EndCycle
    <3>2. ~Downgrading
      BY <3>1 DEF Downgrading, Attempt, Poll, Command
    <3> QED  BY <1>0, <2>1, <3>1, <3>2, ReleaseKeepsClaim DEF push
  <2>7. CASE NothingSubscribed
    <3>1. mode' = Poll /\ at' = "-"
      BY <2>7, ReleaseMoves DEF NothingSubscribed, AbandonObserveAttempt, EndCycle, Moved, at
    <3> QED  BY <3>1, PollKeepsClaim
  <2>8. CASE PutAnswered \/ RawReadEnds
    <3>1. Release /\ UNCHANGED push /\ ~Downgrading
      BY <2>8 DEF PutAnswered, RawReadEnds, Downgrading, RawRead, Poll, Command
    <3> QED  BY <1>0, <2>1, <3>1, ReleaseKeepsClaim DEF push
  <2>9. CASE PutFails
    <3>1. holder = Command /\ UNCHANGED push /\ Claim
      BY <1>0, <2>9 DEF PutFails, Claimed
    <3>2. CASE try = 1 /\ CloseThen(0, "lost")
      <4>1. holder' = Command /\ at' = "close" /\ job'[0].next = "lost" /\ try' = try
        BY <3>1, <3>2, CloseMoves DEF Moved, holder, at, CloseThen
      <4> QED  BY <3>1, <3>2, <4>1 DEF Claimed, Claim, Closing, Downgrading, push, Poll, Command,
               Attempt, RawRead
    <3>3. CASE try # 1 /\ Release
      <4>1. mode' # Observe /\ at' = "-"
        BY <3>1, <3>3, ReleaseMoves DEF Claim, push, Moved, at
      <4> QED  BY <4>1 DEF Claimed, Claim, Closing
    <3> QED  BY <2>9, <3>2, <3>3 DEF PutFails
  <2>10. CASE PutLost
    <3>1. mode' # Observe
      BY <2>10 DEF PutLost, DowngradeToPoll, push, Poll, Observe
    <3>2. at' \in {"-", "open"}
      <4>1. CASE Release
        BY <4>1, ReleaseMoves DEF Moved, at
      <4>2. CASE job' = [job EXCEPT ![0].at = "open"]
        <5>1. job'[0] = [job[0] EXCEPT !.at = "open"]
          BY <4>2 DEF Jobbed
        <5> QED  BY <5>1 DEF Jobbed, JobSet, at
      <4> QED  BY <2>10, <4>1, <4>2 DEF PutLost
    <3> QED  BY <3>1, <3>2 DEF Claimed, Claim, Closing
  <2>11. CASE RawReadFails
    <3>1. holder = RawRead /\ CloseThen(0, "done") /\ UNCHANGED push /\ Claim
      BY <1>0, <2>11 DEF RawReadFails, Claimed
    <3>2. holder' = RawRead
      BY <3>1, CloseMoves DEF Moved, holder
    <3>3. refresh # NoSession => refresh \in loose'
      BY <2>11 DEF RawReadFails, Loosen
    <3> QED  BY <3>1, <3>2, <3>3 DEF Claimed, Claim, Closing, push, Poll, Command, Attempt, RawRead
  <2> QED  BY <1>3, <2>2, <2>3, <2>4, <2>5, <2>6, <2>7, <2>8, <2>9, <2>10, <2>11 DEF HolderStep
<1>4. CASE StartPoll \/ StartAttempt \/ StartCommand \/ StartRawRead
  <2>1. UNCHANGED <<session, registered, loose, mode, refresh>> /\ holder = Free /\ try' = 1
    BY <1>4 DEF StartPoll, StartAttempt, StartCommand, StartRawRead, Acquire, network, push,
       history
  <2>2. at' = "open"
    BY <1>4, AcquireMoves DEF StartPoll, StartAttempt, StartCommand, StartRawRead, Moved, at
  <2>3. ~Downgrading
    BY <2>1 DEF Downgrading, Free, Poll, Command
  <2> QED  BY <1>0, <2>1, <2>2, <2>3 DEF Claimed, Claim, Closing
<1>5. CASE AttemptIsDue \/ RetryObserve \/ Rest \/ GraceEnds \/ CancelCycle
  <2>1. UNCHANGED <<session, registered, loose, mode, refresh, job, try>>
    BY <1>5 DEF AttemptIsDue, RetryObserve, Rest, GraceEnds, CancelCycle, network, lock, push,
       history
  <2> QED  BY <1>0, <2>1 DEF Claimed, Claim, Closing, Downgrading, holder, at
<1>6. CASE CommitAttempt
  <2>1. UNCHANGED <<session, registered, alive, loose, job, try>> /\ holder = Free /\ at = "-"
    BY <1>6 DEF CommitAttempt, network, lock, history, Held
  <2>2. CASE AbandonObserveAttempt
    BY <2>1, <2>2, PollKeepsClaim DEF AbandonObserveAttempt, at
  <2>3. CASE EnterObserveMode(attempted) /\ ~Stale
    <3>1. attempted # NoSession /\ HasRelations(attempted) /\ session = attempted
      BY <1>6, <2>3 DEF CommitAttempt, Burst, Stale
    <3>2. session \in registered
      BY <1>0, <3>1 DEF HasRelations, Owned
    <3> QED  BY <2>1, <2>3, <3>1, <3>2 DEF EnterObserveMode, Claimed, Claim, Closing, holder, at,
             Free, Command
  <2> QED  BY <1>6, <2>2, <2>3 DEF CommitAttempt
<1>7. CASE CancelHolder
  <2>1. holder' = Free /\ at' = "-"
    BY <1>7, CancelFrees DEF holder, at, NoJob
  <2>2. UNCHANGED <<mode, refresh>> /\ (refresh # NoSession => refresh \in loose') /\ Claim
    BY <1>0, <1>7 DEF CancelHolder, Loosen, push, Claimed
  <2> QED  BY <2>1, <2>2 DEF Claimed, Claim, Closing, Free, Command
<1>8. CASE AsyncClose \/ CloserReads \/ CloserDrops
  BY <1>0, <1>8 DEF AsyncClose, CloserReads, CloserDrops, Held
<1>9. CASE UNCHANGED vars
  <2>1. UNCHANGED <<session, registered, loose, mode, refresh, closed, job, try>>
    BY <1>9 DEF vars, network, lock, push, history, unload
  <2> QED  BY <1>0, <2>1 DEF Claimed, Claim, Closing, Downgrading, holder, at
<1> QED  BY <1>1, <1>2, <1>3, <1>4, <1>5, <1>6, <1>7, <1>8, <1>9 DEF Next

LEMMA InvHolds == Spec => []Inv
<1>1. Init => Inv
  BY InitEstablishes
<1>2. Inv /\ [Next]_vars => Inv'
  <2> SUFFICES ASSUME Inv, [Next]_vars PROVE Inv'
    OBVIOUS
  <2>1. Counters /\ Numbered /\ Flags /\ Places /\ Jobbed /\ Held /\ Owned /\ Burst /\ Claimed
    BY TypesAreParts DEF Inv
  <2>2. Counters' /\ Numbered' /\ Flags' /\ Places'
    BY <2>1, CountersKept, NumberedKept, FlagsKept, PlacesKept
  <2>3. Jobbed' /\ Held' /\ Owned' /\ Burst' /\ Claimed'
    BY <2>1, JobbedKept, HeldKept, OwnedKept, BurstKept, ClaimedKept
  <2>4. TypeOK'
    BY <2>2, <2>3 DEF TypeOK, Counters, Numbered, Flags, Places, Jobbed, JobSet, Users, Steps,
       Nexts, Cycles, Sessions
  <2> QED  BY <2>3, <2>4 DEF Inv
<1> QED  BY <1>1, <1>2, PTL DEF Spec

\* Type correctness of the session and of the jobs on it.
THEOREM TypeCorrect == Spec => []TypeOK
<1>1. Inv => TypeOK
  BY DEF Inv
<1> QED  BY <1>1, InvHolds, PTL

\* Before unload no session is open but the one in use and those a cancelled
\* job left loose, whatever fails and whichever thread is still running.
THEOREM OneSession == Spec => []NoOrphanSession
<1>1. Inv => NoOrphanSession
  BY DEF Inv, Owned, NoOrphanSession
<1> QED  BY <1>1, InvHolds, PTL

\* A claim of push is a claim on the session in use and on relations it
\* holds, or on a session that a cancelled job or a debug read left loose.
THEOREM PushStaysLive == Spec => []PushIsLive
<1>1. Inv => PushIsLive
  <2> SUFFICES ASSUME Inv, ~closed, holder = Free, mode = Observe, refresh \notin loose
               PROVE  session \in registered \cap alive /\ refresh = session
    BY DEF PushIsLive
  <2>1. ~Downgrading
    BY DEF Downgrading, Free, Poll, Command
  <2>2. session = refresh /\ session \in registered /\ refresh # NoSession
    BY <2>1 DEF Inv, Claimed, Claim
  <2>3. session \in alive
    BY <2>2 DEF Inv, Owned
  <2> QED  BY <2>2, <2>3
<1> QED  BY <1>1, InvHolds, PTL

=============================================================================
