-------------------------- MODULE PublishPushProofs --------------------------
(***************************************************************************)
(* Proofs about PublishPush: no change is forgotten on its way to the      *)
(* listeners, and views do not keep outdated extras, for any number of     *)
(* threads and changes.                                                    *)
(***************************************************************************)
EXTENDS PublishPush, TLAPS

\* Every variable keeps its type.
THEOREM TypeCorrect == Spec => []TypeOK
<1>1. Init => TypeOK
  <2> SUFFICES ASSUME Init PROVE TypeOK
    OBVIOUS
  <2>1. pending \in BOOLEAN /\ due \in BOOLEAN
    BY Zenon DEF Init
  <2>2. live \in Known /\ data \in Known
    BY DEF Init, Known
  <2> QED BY <2>1, <2>2 DEF Init, TypeOK
<1>2. TypeOK /\ [Next]_vars => TypeOK'
  <2> SUFFICES ASSUME TypeOK, [Next]_vars PROVE TypeOK'
    OBVIOUS
  <2> USE DEF TypeOK, Known
  <2>1. ASSUME NEW a \in Appliers, StoreRep(a) \/ StoreSameRep(a) PROVE TypeOK'
    BY <2>1 DEF StoreRep, StoreSameRep, Goto, jobVars, loopVars
  <2>2. ASSUME NEW a \in Appliers, ApplierStep(a) PROVE TypeOK'
    <3>1. CASE ClearMemo(a) \/ RaiseFlag(a)
      BY <3>1 DEF ClearMemo, RaiseFlag, Goto, jobVars, loopVars
    <3>2. CASE QueuePush(a) \/ QueuePersist(a)
      BY <3>2 DEF QueuePush, QueuePersist, Goto, loopVars
    <3>3. CASE LearnNothing(a) \/ LearnProgram(a)
      BY <3>3 DEF LearnNothing, LearnProgram, Goto, jobVars, loopVars
    <3> QED BY <2>2, <3>1, <3>2, <3>3 DEF ApplierStep
  <2>3. CASE BeginApplying \/ EndApplying \/ ReadView \/ EndPoll
    BY <2>3 DEF BeginApplying, EndApplying, ReadView, EndPoll, applierVars, jobVars
  <2>4. CASE StoreView \/ ReadReps \/ Publish
    BY <2>4 DEF StoreView, ReadReps, Publish, applierVars, jobVars
  <2>5. CASE ResetFlag \/ RunPush
    <3>1. pending' \in BOOLEAN
      BY <2>5 DEF ResetFlag, RunPush
    <3> QED BY <2>5, <3>1 DEF ResetFlag, RunPush, applierVars
  <2>6. CASE RunPersist \/ ChangeCourses
    BY <2>6 DEF RunPersist, ChangeCourses, CloudCoursesChanged, applierVars, jobVars
  <2>7. CASE HoldChoice \/ DropChoices
    <3>1. due' \in BOOLEAN
      BY <2>7 DEF HoldChoice, DropChoices
    <3>2. memo' \in Known \cup {NoView}
      BY <2>7 DEF HoldChoice, DropChoices
    <3> QED BY <2>7, <3>1, <3>2 DEF HoldChoice, DropChoices, applierVars, jobVars
  <2>8. CASE UNCHANGED vars
    BY <2>8 DEF vars, applierVars, jobVars, loopVars
  <2> QED BY <2>1, <2>2, <2>3, <2>4, <2>5, <2>6, <2>7, <2>8 DEF Next, LoopStep
<1> QED BY <1>1, <1>2, PTL DEF Spec

-----------------------------------------------------------------------------
(* The way of the reps.                                                    *)

SomebodyNotifying == \E a \in Appliers : Notifying(a)

\* A flag that is up stands for a push that will be queued, is queued, or has
\* been taken off the queue and is about to lower it.
FlagStandsForPush ==
    pending => \/ \E a \in Appliers : step[a] = "flagged"
               \/ pushes > 0
               \/ loop = "reset"

\* A publication from reps no longer current is followed by another.
ReadOrFollowed ==
    loop = "publishing" => seen = live.reps \/ SomebodyNotifying \/ pushes > 0

RepsInv == TypeOK /\ FlagStandsForPush /\ ReadOrFollowed /\ RepsOnTheirWay

\* Where appliers are after one of them has moved.
LEMMA Moved ==
    ASSUME TypeOK, NEW a \in Appliers, NEW s, Goto(a, s)
    PROVE  /\ step'[a] = s
           /\ \A b \in Appliers : b # a => step'[b] = step[b]
BY DEF TypeOK, Goto

\* What an applier does keeps the reps on their way.
LEMMA AppliersKeepReps ==
    ASSUME RepsInv, NEW a \in Appliers,
           StoreRep(a) \/ StoreSameRep(a) \/ ApplierStep(a)
    PROVE  FlagStandsForPush' /\ ReadOrFollowed' /\ RepsOnTheirWay'
<1> USE DEF RepsInv, FlagStandsForPush, ReadOrFollowed, RepsOnTheirWay,
            SomebodyNotifying, Notifying
<1>1. CASE StoreRep(a)
  <2>1. step[a] = "idle" /\ step'[a] = "stored"
    BY <1>1, Moved DEF StoreRep
  <2>2. \A b \in Appliers : b # a => step'[b] = step[b]
    BY <1>1, Moved DEF StoreRep
  <2> QED BY <1>1, <2>1, <2>2 DEF StoreRep, jobVars, loopVars
<1>2. CASE StoreSameRep(a) \/ LearnNothing(a) \/ QueuePersist(a)
  <2>1. step[a] \notin {"stored", "cleared", "flagged"}
    BY <1>2 DEF StoreSameRep, LearnNothing, QueuePersist
  <2>2. \A b \in Appliers : b # a => step'[b] = step[b]
    BY <1>2, Moved DEF StoreSameRep, LearnNothing, QueuePersist
  <2> QED BY <1>2, <2>1, <2>2 DEF StoreSameRep, LearnNothing, QueuePersist, jobVars, loopVars
<1>3. CASE LearnProgram(a)
  <2>1. step[a] = "applied" /\ live'.reps = live.reps
    BY <1>3 DEF LearnProgram, TypeOK, Known
  <2>2. \A b \in Appliers : b # a => step'[b] = step[b]
    BY <1>3, Moved DEF LearnProgram
  <2> QED BY <1>3, <2>1, <2>2 DEF LearnProgram, jobVars, loopVars
<1>4. CASE ClearMemo(a)
  <2>1. step[a] = "stored" /\ step'[a] = "cleared"
    BY <1>4, Moved DEF ClearMemo
  <2>2. \A b \in Appliers : b # a => step'[b] = step[b]
    BY <1>4, Moved DEF ClearMemo
  <2> QED BY <1>4, <2>1, <2>2 DEF ClearMemo, jobVars
<1>5. CASE RaiseFlag(a) /\ pending
  <2>1. step[a] = "cleared"
    BY <1>5 DEF RaiseFlag
  <2>2. \A b \in Appliers : b # a => step'[b] = step[b]
    BY <1>5, Moved DEF RaiseFlag
  <2>3. UNCHANGED <<live, pushes, loop, seen, data>>
    BY <1>5 DEF RaiseFlag, loopVars
  <2>4. (\E b \in Appliers : step'[b] = "flagged") \/ pushes' > 0 \/ loop' = "reset"
    BY <1>5, <2>1, <2>2, <2>3
  <2> QED BY <2>3, <2>4
<1>6. CASE RaiseFlag(a) /\ ~pending
  <2>1. step'[a] = "flagged"
    BY <1>6, Moved DEF RaiseFlag
  <2> QED BY <1>6, <2>1 DEF RaiseFlag, loopVars
<1>7. CASE QueuePush(a)
  <2>1. pushes' > 0
    BY <1>7 DEF QueuePush, TypeOK
  <2> QED BY <1>7, <2>1 DEF QueuePush, loopVars
<1> QED BY <1>1, <1>2, <1>3, <1>4, <1>5, <1>6, <1>7 DEF ApplierStep

\* So does what the event loop does.
LEMMA LoopKeepsReps ==
    ASSUME RepsInv,
           \/ BeginApplying \/ EndApplying \/ LoopStep \/ RunPush \/ RunPersist
           \/ ChangeCourses \/ HoldChoice \/ DropChoices \/ ReadView \/ EndPoll
           \/ UNCHANGED vars
    PROVE  FlagStandsForPush' /\ ReadOrFollowed' /\ RepsOnTheirWay'
<1> USE DEF RepsInv, FlagStandsForPush, ReadOrFollowed, RepsOnTheirWay,
            SomebodyNotifying, Notifying
<1>1. CASE BeginApplying \/ EndApplying \/ ReadView \/ EndPoll \/ StoreView
  BY <1>1 DEF BeginApplying, EndApplying, ReadView, EndPoll, StoreView, applierVars, jobVars
<1>2. CASE ResetFlag
  BY <1>2 DEF ResetFlag, applierVars
<1>3. CASE RunPush
  BY <1>3 DEF RunPush, applierVars
<1>4. CASE ReadReps
  BY <1>4 DEF ReadReps, applierVars, jobVars
<1>5. CASE Publish
  <2>1. data'.reps = seen
    BY <1>5 DEF Publish
  <2> QED BY <1>5, <2>1 DEF Publish, applierVars, jobVars
<1>6. CASE RunPersist
  BY <1>6 DEF RunPersist, CloudCoursesChanged, applierVars
<1>7. CASE ChangeCourses \/ HoldChoice \/ DropChoices
  <2>1. live'.reps = live.reps
    BY <1>7 DEF ChangeCourses, HoldChoice, DropChoices, TypeOK, Known
  <2> QED BY <1>7, <2>1
          DEF ChangeCourses, HoldChoice, DropChoices, CloudCoursesChanged, applierVars, jobVars
<1>8. CASE UNCHANGED vars
  BY <1>8 DEF vars, applierVars, jobVars, loopVars
<1> QED BY <1>1, <1>2, <1>3, <1>4, <1>5, <1>6, <1>7, <1>8 DEF LoopStep

\* A rep that changed is always on its way to the listeners.
LEMMA RepsNotForgotten == Spec => []RepsOnTheirWay
<1>1. Init => FlagStandsForPush /\ ReadOrFollowed /\ RepsOnTheirWay
  BY DEF Init, FlagStandsForPush, ReadOrFollowed, RepsOnTheirWay
<1>2. RepsInv /\ TypeOK' /\ [Next]_vars => FlagStandsForPush' /\ ReadOrFollowed' /\ RepsOnTheirWay'
  BY AppliersKeepReps, LoopKeepsReps DEF Next
<1>3. Spec => []TypeOK
  BY TypeCorrect
<1> QED BY <1>1, <1>2, <1>3, PTL DEF Spec, RepsInv

-----------------------------------------------------------------------------
(* The way of the extras, to the listeners and out of the memo.            *)

ExtrasInv == TypeOK /\ ExtrasOnTheirWay /\ ExtrasReachViews

\* What an applier does leaves the extras on their way.
LEMMA AppliersKeepExtras ==
    ASSUME ExtrasInv, NEW a \in Appliers,
           StoreRep(a) \/ StoreSameRep(a) \/ ApplierStep(a)
    PROVE  ExtrasOnTheirWay' /\ ExtrasReachViews'
<1> USE DEF ExtrasInv, ExtrasOnTheirWay, ExtrasReachViews
<1>1. CASE LearnProgram(a)
  <2>1. step'[a] = "learnt"
    BY <1>1, Moved DEF LearnProgram
  <2> QED BY <2>1
<1>2. CASE QueuePersist(a)
  <2>1. persists' > 0
    BY <1>2 DEF QueuePersist, TypeOK
  <2> QED BY <2>1
<1>3. CASE ~LearnProgram(a) /\ ~QueuePersist(a)
  <2>1. step[a] # "learnt" /\ live'.extras = live.extras
    BY <1>3 DEF StoreRep, StoreSameRep, ApplierStep, ClearMemo, RaiseFlag, QueuePush,
                LearnNothing, TypeOK, Known
  <2>2. \A b \in Appliers : b # a => step'[b] = step[b]
    <3>1. \E s : Goto(a, s)
      BY <1>3 DEF StoreRep, StoreSameRep, ApplierStep, ClearMemo, RaiseFlag, QueuePush,
                  LearnNothing
    <3> QED BY <3>1, Moved
  <2>3. UNCHANGED <<persists, loop, data, due>> /\ memo' \in {memo, NoView}
    BY <1>3 DEF StoreRep, StoreSameRep, ApplierStep, ClearMemo, RaiseFlag, QueuePush,
                LearnNothing, jobVars, loopVars
  <2> QED BY <2>1, <2>2, <2>3
<1> QED BY <1>1, <1>2, <1>3

\* So does what the event loop does.
LEMMA LoopKeepsExtras ==
    ASSUME ExtrasInv,
           \/ BeginApplying \/ EndApplying \/ LoopStep \/ RunPush \/ RunPersist
           \/ ChangeCourses \/ HoldChoice \/ DropChoices \/ ReadView \/ EndPoll
           \/ UNCHANGED vars
    PROVE  ExtrasOnTheirWay' /\ ExtrasReachViews'
<1> USE DEF ExtrasInv, ExtrasOnTheirWay, ExtrasReachViews
<1>1. CASE BeginApplying \/ EndApplying \/ ReadView \/ EndPoll
  BY <1>1 DEF BeginApplying, EndApplying, ReadView, EndPoll, applierVars, jobVars
<1>2. CASE ResetFlag \/ RunPush \/ ReadReps
  BY <1>2 DEF ResetFlag, RunPush, ReadReps, applierVars, jobVars
<1>3. CASE StoreView
  <2>1. memo'.extras = live'.extras
    BY <1>3 DEF StoreView
  <2> QED BY <1>3, <2>1 DEF StoreView, applierVars, jobVars
<1>4. CASE Publish
  <2>1. data'.extras = live'.extras
    BY <1>4 DEF Publish
  <2> QED BY <1>4, <2>1 DEF Publish, applierVars, jobVars
<1>5. CASE RunPersist \/ ChangeCourses
  BY <1>5 DEF RunPersist, ChangeCourses, CloudCoursesChanged
<1>6. CASE HoldChoice \/ DropChoices
  BY <1>6 DEF HoldChoice, DropChoices
<1>7. CASE UNCHANGED vars
  BY <1>7 DEF vars, applierVars, jobVars, loopVars
<1> QED BY <1>1, <1>2, <1>3, <1>4, <1>5, <1>6, <1>7 DEF LoopStep

LEMMA ExtrasInvariant == Spec => [](ExtrasOnTheirWay /\ ExtrasReachViews)
<1>1. Init => ExtrasOnTheirWay /\ ExtrasReachViews
  BY DEF Init, ExtrasOnTheirWay, ExtrasReachViews
<1>2. ExtrasInv /\ TypeOK' /\ [Next]_vars => ExtrasOnTheirWay' /\ ExtrasReachViews'
  BY AppliersKeepExtras, LoopKeepsExtras DEF Next
<1>3. Spec => []TypeOK
  BY TypeCorrect
<1> QED BY <1>1, <1>2, <1>3, PTL DEF Spec, ExtrasInv

\* No change of reps or extras is forgotten before it is published.
THEOREM NothingForgotten == Spec => []NoChangeForgotten
BY RepsNotForgotten, ExtrasInvariant, PTL DEF NoChangeForgotten

\* An outdated held choice or program leaves the memo: a persist is to come.
THEOREM ViewsGetExtras == Spec => []ExtrasReachViews
BY ExtrasInvariant, PTL
=============================================================================
