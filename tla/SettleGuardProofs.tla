-------------------------- MODULE SettleGuardProofs --------------------------
(***************************************************************************)
(* Proofs about the write-settle guard, for any number of commands,        *)
(* fields and values: the merge lock and the atomic cache, then the settle *)
(* windows.                                                                *)
(***************************************************************************)
EXTENDS SettleGuard, TLAPS

\* A merge of a report into a full rep is a full rep.
LEMMA MergeTyping ==
    ASSUME NEW old \in State, NEW new \in Reps
    PROVE  Merge(old, new) \in State
<1>1. PICK S \in SUBSET Fields : new \in [S -> Values]
    BY DEF Reps
<1>2. \A f \in Fields : (IF f \in DOMAIN new THEN new[f] ELSE old[f]) \in Values
    BY <1>1 DEF State
<1>. QED  BY <1>2 DEF Merge, State

\* What an actor may hold: nothing, or any part of a full rep.
LEMMA RepTyping ==
    /\ NoRep \in Reps
    /\ State \subseteq Reps
    /\ \A d \in State, S \in SUBSET Fields : [f \in S |-> d[f]] \in Reps
<1>1. NoRep \in Reps
  <2>1. NoRep \in [{} -> Values]
    BY DEF NoRep
  <2>. QED  BY <2>1 DEF Reps
<1>2. State \subseteq Reps
    BY DEF Reps, State
<1>3. ASSUME NEW d \in State, NEW S \in SUBSET Fields
      PROVE  [f \in S |-> d[f]] \in Reps
  <2>1. [f \in S |-> d[f]] \in [S -> Values]
    BY DEF State
  <2>. QED  BY <2>1 DEF Reps
<1>. QED  BY <1>1, <1>2, <1>3

-----------------------------------------------------------------------------
(* A stretch of the event loop is one coroutine's: a command between its   *)
(* optimistic merge and its window, or with its answer in hand, or the     *)
(* sweep between its gate and its merge.                                   *)
LoopHeld ==
    /\ \A c \in Commands : pc[c] \in {"drafted", "merging", "merged", "answered"} => loop = c
    /\ step[Sweep] \in {"passed", "merging"} => loop = Sweep

\* The types alone are not inductive: a merge yields a full rep because it
\* starts from the cached one.
Ordered == TypeOK /\ MergeSeesLatest /\ LoopHeld

\* A refusal puts back no window or one that was there before.
LEMMA RestoreTyping ==
    ASSUME TypeOK, NEW c \in Commands, RestoreWritePending(c)
    PROVE  settle' \in Nat
<1>1. settle' \in {settle, previous[c], 0}
  BY DEF RestoreWritePending
<1>2. settle \in Nat /\ previous[c] \in Nat
  BY DEF TypeOK
<1>. QED  BY <1>1, <1>2

\* The cache and the loop start free and everybody idle.
LEMMA OrderedInit == Init => Ordered
  BY ConstantsOK, RepTyping
  DEF Init, Ordered, TypeOK, MergeSeesLatest, LoopHeld, Actors, Appliers, Sweep, Subpoll, Notify

\* No step lets a second actor into the cache or onto the loop.
LEMMA OrderedNext == Ordered /\ [Next]_vars => Ordered'
<1>. SUFFICES ASSUME Ordered, [Next]_vars PROVE Ordered'
  OBVIOUS
<1>. USE ConstantsOK, RepTyping DEF Actors, Appliers, Sweep, Subpoll, Notify
<1>1. ASSUME NEW c \in Commands, BeginCommand(c)
      PROVE  Ordered'
  <2>0. (IF c \in ListWrites THEN Merge(cache, Body[c]) ELSE Body[c]) \in Reps
    BY MergeTyping DEF Ordered, TypeOK
  <2>1. TypeOK'
    BY <1>1, <2>0 DEF Ordered, TypeOK, BeginCommand, deviceVars, cacheVars, windowVars, applierVars
  <2>2. MergeSeesLatest'
    BY <1>1 DEF Ordered, TypeOK, MergeSeesLatest, BeginCommand, cacheVars, applierVars
  <2>3. LoopHeld'
    BY <1>1 DEF Ordered, TypeOK, LoopHeld, BeginCommand, applierVars
  <2>. QED  BY <2>1, <2>2, <2>3 DEF Ordered
<1>2. ASSUME NEW c \in Commands, EnterOptimistic(c)
      PROVE  Ordered'
  <2>1. TypeOK'
    BY <1>2 DEF Ordered, TypeOK, EnterOptimistic, TakeCacheLock, deviceVars, windowVars, applierVars
  <2>2. MergeSeesLatest'
    BY <1>2 DEF Ordered, TypeOK, MergeSeesLatest, EnterOptimistic, TakeCacheLock, applierVars
  <2>3. LoopHeld'
    BY <1>2 DEF Ordered, TypeOK, LoopHeld, EnterOptimistic, applierVars
  <2>. QED  BY <2>1, <2>2, <2>3 DEF Ordered
<1>3. ASSUME NEW c \in Commands, MergeOptimistic(c)
      PROVE  Ordered'
  <2>0. Merge(prior[c], draft[c]) \in State
    BY <1>3, MergeTyping DEF Ordered, TypeOK, MergeSeesLatest, MergeOptimistic
  <2>1. TypeOK'
    BY <1>3, <2>0 DEF Ordered, TypeOK, MergeOptimistic, StoreMerged, deviceVars, windowVars, applierVars
  <2>2. MergeSeesLatest'
    BY <1>3 DEF Ordered, TypeOK, MergeSeesLatest, MergeOptimistic, StoreMerged, deviceVars, windowVars, applierVars
  <2>3. LoopHeld'
    BY <1>3 DEF Ordered, TypeOK, LoopHeld, MergeOptimistic, StoreMerged, deviceVars, windowVars, applierVars
  <2>. QED  BY <2>1, <2>2, <2>3 DEF Ordered
<1>4. ASSUME NEW c \in Commands, ArmWindow(c)
      PROVE  Ordered'
  <2>0. arms' \in Nat
    <3>1. arms \in Nat /\ arms' = arms + 1
      BY <1>4 DEF Ordered, TypeOK, ArmWindow, MarkWritePending
    <3>. QED  BY <3>1
  <2>1. TypeOK'
    BY <1>4, <2>0 DEF Ordered, TypeOK, ArmWindow, MarkWritePending, deviceVars, cacheVars, applierVars
  <2>2. MergeSeesLatest'
    BY <1>4 DEF Ordered, TypeOK, MergeSeesLatest, ArmWindow, MarkWritePending, deviceVars, cacheVars, applierVars
  <2>3. LoopHeld'
    BY <1>4 DEF Ordered, TypeOK, LoopHeld, ArmWindow, MarkWritePending, deviceVars, cacheVars, applierVars
  <2>. QED  BY <2>1, <2>2, <2>3 DEF Ordered
<1>5. ASSUME NEW c \in Commands, StartPut(c)
      PROVE  Ordered'
  <2>1. TypeOK'
    BY <1>5 DEF Ordered, TypeOK, StartPut, deviceVars, cacheVars, windowVars, applierVars
  <2>2. MergeSeesLatest'
    BY <1>5 DEF Ordered, TypeOK, MergeSeesLatest, StartPut, deviceVars, cacheVars, windowVars, applierVars
  <2>3. LoopHeld'
    BY <1>5 DEF Ordered, TypeOK, LoopHeld, StartPut, deviceVars, cacheVars, windowVars, applierVars
  <2>. QED  BY <2>1, <2>2, <2>3 DEF Ordered
<1>6. ASSUME NEW c \in Commands, RetryPut(c)
      PROVE  Ordered'
  <2>1. TypeOK'
    BY <1>6 DEF Ordered, TypeOK, RetryPut, MayTake, cacheVars, windowVars, applierVars
  <2>2. MergeSeesLatest'
    BY <1>6 DEF Ordered, TypeOK, MergeSeesLatest, RetryPut, MayTake, cacheVars, windowVars, applierVars
  <2>3. LoopHeld'
    BY <1>6 DEF Ordered, TypeOK, LoopHeld, RetryPut, MayTake, cacheVars, windowVars, applierVars
  <2>. QED  BY <2>1, <2>2, <2>3 DEF Ordered
<1>7. ASSUME NEW c \in Commands, Answer(c)
      PROVE  Ordered'
  <2>0. arms' \in Nat
    <3>1. arms \in Nat /\ arms' \in {arms, arms + 1}
      BY <1>7 DEF Ordered, TypeOK, Answer, MarkWritePending
    <3>. QED  BY <3>1
  <2>4. settle' \in Nat /\ armed' \in [Commands -> Nat]
    <3>1. CASE pc[c] = "put again"
      <4>1. settle' = arms' /\ armed' = [armed EXCEPT ![c] = arms']
        BY <1>7, <3>1 DEF Answer, MarkWritePending
      <4>. QED  BY <2>0, <4>1 DEF Ordered, TypeOK
    <3>2. CASE pc[c] # "put again"
      BY <1>7, <3>2 DEF Ordered, TypeOK, Answer
    <3>. QED  BY <3>1, <3>2
  <2>1. TypeOK'
    BY <1>7, <2>0, <2>4 DEF Ordered, TypeOK, Answer, MayTake, cacheVars, applierVars
  <2>2. MergeSeesLatest'
    BY <1>7 DEF Ordered, TypeOK, MergeSeesLatest, Answer, MarkWritePending, MayTake, cacheVars, applierVars
  <2>3. LoopHeld'
    BY <1>7 DEF Ordered, TypeOK, LoopHeld, Answer, MarkWritePending, MayTake, cacheVars, applierVars
  <2>. QED  BY <2>1, <2>2, <2>3 DEF Ordered
<1>8. ASSUME NEW c \in Commands, Accepted(c)
      PROVE  Ordered'
  <2>1. TypeOK'
    BY <1>8 DEF Ordered, TypeOK, Accepted, deviceVars, cacheVars, windowVars, applierVars
  <2>2. MergeSeesLatest'
    BY <1>8 DEF Ordered, TypeOK, MergeSeesLatest, Accepted, deviceVars, cacheVars, windowVars, applierVars
  <2>3. LoopHeld'
    BY <1>8 DEF Ordered, TypeOK, LoopHeld, Accepted, deviceVars, cacheVars, windowVars, applierVars
  <2>. QED  BY <2>1, <2>2, <2>3 DEF Ordered
<1>9. ASSUME NEW c \in Commands, Unsure(c)
      PROVE  Ordered'
  <2>1. TypeOK'
    BY <1>9 DEF Ordered, TypeOK, Unsure, deviceVars, cacheVars, windowVars, applierVars
  <2>2. MergeSeesLatest'
    BY <1>9 DEF Ordered, TypeOK, MergeSeesLatest, Unsure, deviceVars, cacheVars, windowVars, applierVars
  <2>3. LoopHeld'
    BY <1>9 DEF Ordered, TypeOK, LoopHeld, Unsure, deviceVars, cacheVars, windowVars, applierVars
  <2>. QED  BY <2>1, <2>2, <2>3 DEF Ordered
<1>10. ASSUME NEW c \in Commands, Refused(c)
      PROVE  Ordered'
  <2>1. TypeOK'
    BY <1>10 DEF Ordered, TypeOK, Refused, Fails, RestoreWritePending, deviceVars, cacheVars, applierVars
  <2>2. MergeSeesLatest'
    BY <1>10 DEF Ordered, TypeOK, MergeSeesLatest, Refused, Fails, RestoreWritePending, deviceVars, cacheVars, applierVars
  <2>3. LoopHeld'
    BY <1>10 DEF Ordered, TypeOK, LoopHeld, Refused, Fails, RestoreWritePending, deviceVars, cacheVars, applierVars
  <2>. QED  BY <2>1, <2>2, <2>3 DEF Ordered
<1>11. ASSUME NEW c \in Commands, Confirm(c)
      PROVE  Ordered'
  <2>0. settle' \in Nat
    BY <1>11, RestoreTyping DEF Ordered, TypeOK, Confirm, Fails, windowVars
  <2>1. TypeOK'
    BY <1>11, <2>0 DEF Ordered, TypeOK, Confirm, Fails, deviceVars, cacheVars, windowVars, applierVars
  <2>2. MergeSeesLatest'
    BY <1>11 DEF Ordered, TypeOK, MergeSeesLatest, Confirm, Fails, deviceVars, cacheVars, windowVars, applierVars
  <2>3. LoopHeld'
    BY <1>11 DEF Ordered, TypeOK, LoopHeld, Confirm, Fails, deviceVars, cacheVars, windowVars, applierVars
  <2>. QED  BY <2>1, <2>2, <2>3 DEF Ordered
<1>12. ASSUME NEW c \in Commands, GiveUp(c)
      PROVE  Ordered'
  <2>1. TypeOK'
    BY <1>12 DEF Ordered, TypeOK, GiveUp, Fails, RestoreWritePending, MayTake, cacheVars, applierVars
  <2>2. MergeSeesLatest'
    BY <1>12 DEF Ordered, TypeOK, MergeSeesLatest, GiveUp, Fails, RestoreWritePending, MayTake, cacheVars, applierVars
  <2>3. LoopHeld'
    BY <1>12 DEF Ordered, TypeOK, LoopHeld, GiveUp, Fails, RestoreWritePending, MayTake, cacheVars, applierVars
  <2>. QED  BY <2>1, <2>2, <2>3 DEF Ordered
<1>13. ASSUME NEW c \in Commands, Cancel(c)
      PROVE  Ordered'
  <2>1. TypeOK'
    BY <1>13 DEF Ordered, TypeOK, Cancel, Fails, RestoreWritePending, MayTake, cacheVars, applierVars
  <2>2. MergeSeesLatest'
    BY <1>13 DEF Ordered, TypeOK, MergeSeesLatest, Cancel, Fails, RestoreWritePending, MayTake, cacheVars, applierVars
  <2>3. LoopHeld'
    BY <1>13 DEF Ordered, TypeOK, LoopHeld, Cancel, Fails, RestoreWritePending, MayTake, cacheVars, applierVars
  <2>. QED  BY <2>1, <2>2, <2>3 DEF Ordered
<1>14. ASSUME NEW c \in Commands, DeviceShows(c)
      PROVE  Ordered'
  <2>0. Merge(device, Body[c]) \in State
    BY <1>14, MergeTyping DEF Ordered, TypeOK
  <2>1. TypeOK'
    BY <1>14, <2>0 DEF Ordered, TypeOK, DeviceShows, cacheVars, windowVars, commandVars, applierVars
  <2>2. MergeSeesLatest'
    BY <1>14 DEF Ordered, TypeOK, MergeSeesLatest, DeviceShows, cacheVars, windowVars, commandVars, applierVars
  <2>3. LoopHeld'
    BY <1>14 DEF Ordered, TypeOK, LoopHeld, DeviceShows, cacheVars, windowVars, commandVars, applierVars
  <2>. QED  BY <2>1, <2>2, <2>3 DEF Ordered
<1>15. ASSUME NEW a \in Appliers, Gate(a)
      PROVE  Ordered'
  <2>1. TypeOK'
    BY <1>15 DEF Ordered, TypeOK, Gate, MoveTo, LoopAt, Lapse, Settling, deviceVars, cacheVars, commandVars
  <2>2. MergeSeesLatest'
    BY <1>15 DEF Ordered, TypeOK, MergeSeesLatest, Gate, MoveTo, LoopAt, Lapse, Settling, deviceVars, cacheVars, commandVars
  <2>3. LoopHeld'
    BY <1>15 DEF Ordered, TypeOK, LoopHeld, Gate, MoveTo, LoopAt, Lapse, Settling, deviceVars, cacheVars, commandVars
  <2>. QED  BY <2>1, <2>2, <2>3 DEF Ordered
<1>16. ASSUME NEW a \in Appliers, EnterCache(a)
      PROVE  Ordered'
  <2>1. TypeOK'
    BY <1>16 DEF Ordered, TypeOK, EnterCache, MoveTo, LoopAt, TakeCacheLock, deviceVars, windowVars, commandVars
  <2>2. MergeSeesLatest'
    BY <1>16 DEF Ordered, TypeOK, MergeSeesLatest, EnterCache, MoveTo, LoopAt, TakeCacheLock, deviceVars, windowVars, commandVars
  <2>3. LoopHeld'
    BY <1>16 DEF Ordered, TypeOK, LoopHeld, EnterCache, MoveTo, LoopAt, TakeCacheLock, deviceVars, windowVars, commandVars
  <2>. QED  BY <2>1, <2>2, <2>3 DEF Ordered
<1>17. ASSUME NEW a \in Appliers, MergeReport(a)
      PROVE  Ordered'
  <2>0. Merge(prior[a], rep[a]) \in State
    BY <1>17, MergeTyping DEF Ordered, TypeOK, MergeSeesLatest, MergeReport
  <2>1. TypeOK'
    BY <1>17, <2>0 DEF Ordered, TypeOK, MergeReport, MoveTo, LoopAt, StoreMerged, deviceVars, windowVars, commandVars
  <2>2. MergeSeesLatest'
    BY <1>17 DEF Ordered, TypeOK, MergeSeesLatest, MergeReport, MoveTo, LoopAt, StoreMerged, deviceVars, windowVars, commandVars
  <2>3. LoopHeld'
    BY <1>17 DEF Ordered, TypeOK, LoopHeld, MergeReport, MoveTo, LoopAt, StoreMerged, deviceVars, windowVars, commandVars
  <2>. QED  BY <2>1, <2>2, <2>3 DEF Ordered
<1>18. ASSUME ReadSweep
      PROVE  Ordered'
  <2>1. TypeOK'
    BY <1>18 DEF Ordered, TypeOK, ReadSweep, deviceVars, cacheVars, windowVars, commandVars
  <2>2. MergeSeesLatest'
    BY <1>18 DEF Ordered, TypeOK, MergeSeesLatest, ReadSweep, deviceVars, cacheVars, windowVars, commandVars
  <2>3. LoopHeld'
    BY <1>18 DEF Ordered, TypeOK, LoopHeld, ReadSweep, deviceVars, cacheVars, windowVars, commandVars
  <2>. QED  BY <2>1, <2>2, <2>3 DEF Ordered
<1>19. ASSUME ReadSubpoll
      PROVE  Ordered'
  <2>1. TypeOK'
    BY <1>19 DEF Ordered, TypeOK, ReadSubpoll, deviceVars, cacheVars, windowVars, commandVars
  <2>2. MergeSeesLatest'
    BY <1>19 DEF Ordered, TypeOK, MergeSeesLatest, ReadSubpoll, deviceVars, cacheVars, windowVars, commandVars
  <2>3. LoopHeld'
    BY <1>19 DEF Ordered, TypeOK, LoopHeld, ReadSubpoll, deviceVars, cacheVars, windowVars, commandVars
  <2>. QED  BY <2>1, <2>2, <2>3 DEF Ordered
<1>20. ASSUME Push
      PROVE  Ordered'
  <2>0. PICK S \in SUBSET Fields \ {{}} : rep' = [rep EXCEPT ![Notify] = [f \in S |-> device[f]]]
    BY <1>20 DEF Push
  <2>1. TypeOK'
    BY <1>20, <2>0 DEF Ordered, TypeOK, Push, deviceVars, cacheVars, windowVars, commandVars
  <2>2. MergeSeesLatest'
    BY <1>20 DEF Ordered, TypeOK, MergeSeesLatest, Push, deviceVars, cacheVars, windowVars, commandVars
  <2>3. LoopHeld'
    BY <1>20 DEF Ordered, TypeOK, LoopHeld, Push, deviceVars, cacheVars, windowVars, commandVars
  <2>. QED  BY <2>1, <2>2, <2>3 DEF Ordered
<1>21. ASSUME PanelChange
      PROVE  Ordered'
  <2>0. changes' \in 0..MaxChanges
    <3>1. changes \in 0..MaxChanges /\ changes < MaxChanges /\ changes' = changes + 1
      BY <1>21 DEF Ordered, TypeOK, PanelChange
    <3>. QED  BY <3>1
  <2>4. device' \in State
    <3>1. PICK f \in Fields, v \in Values : device' = [device EXCEPT ![f] = v]
      BY <1>21 DEF PanelChange
    <3>. QED  BY <3>1 DEF Ordered, TypeOK, State
  <2>1. TypeOK'
    BY <1>21, <2>0, <2>4 DEF Ordered, TypeOK, PanelChange, cacheVars, windowVars, commandVars, applierVars
  <2>2. MergeSeesLatest'
    BY <1>21 DEF Ordered, TypeOK, MergeSeesLatest, PanelChange, State, cacheVars, windowVars, commandVars, applierVars
  <2>3. LoopHeld'
    BY <1>21 DEF Ordered, TypeOK, LoopHeld, PanelChange, State, cacheVars, windowVars, commandVars, applierVars
  <2>. QED  BY <2>1, <2>2, <2>3 DEF Ordered
<1>22. ASSUME Expire
      PROVE  Ordered'
  <2>0. expired' \in Nat
    <3>1. expired \in Nat /\ expired' = expired + 1
      BY <1>22 DEF Ordered, TypeOK, Expire
    <3>. QED  BY <3>1
  <2>1. TypeOK'
    BY <1>22, <2>0 DEF Ordered, TypeOK, Expire, deviceVars, cacheVars, commandVars, applierVars
  <2>2. MergeSeesLatest'
    BY <1>22 DEF Ordered, TypeOK, MergeSeesLatest, Expire, deviceVars, cacheVars, commandVars, applierVars
  <2>3. LoopHeld'
    BY <1>22 DEF Ordered, TypeOK, LoopHeld, Expire, deviceVars, cacheVars, commandVars, applierVars
  <2>. QED  BY <2>1, <2>2, <2>3 DEF Ordered
<1>23. ASSUME UNCHANGED vars
      PROVE  Ordered'
  <2>1. TypeOK'
    BY <1>23 DEF Ordered, TypeOK, vars, deviceVars, cacheVars, windowVars, commandVars, applierVars
  <2>2. MergeSeesLatest'
    BY <1>23 DEF Ordered, TypeOK, MergeSeesLatest, vars, deviceVars, cacheVars, windowVars, commandVars, applierVars
  <2>3. LoopHeld'
    BY <1>23 DEF Ordered, TypeOK, LoopHeld, vars, deviceVars, cacheVars, windowVars, commandVars, applierVars
  <2>. QED  BY <2>1, <2>2, <2>3 DEF Ordered
<1>. QED
  BY <1>1, <1>2, <1>3, <1>4, <1>5, <1>6, <1>7, <1>8,
     <1>9, <1>10, <1>11, <1>12, <1>13, <1>14, <1>15, <1>16,
     <1>17, <1>18, <1>19, <1>20, <1>21, <1>22, <1>23
  DEF Next, CommandStep, ReportStep

\* Every variable keeps its type: in particular the cache always holds a
\* full rep, whatever partial reports and bodies are merged into it.
THEOREM TypeCorrect == Spec => []TypeOK
<1>1. Ordered => TypeOK
  BY DEF Ordered
<1>. QED  BY OrderedInit, OrderedNext, <1>1, PTL DEF Spec

\* An actor inside _cache_lock merges onto the rep that is cached now, so
\* no update is lost between ObserveManager.apply's read and its store.
THEOREM MergesSeeLatest == Spec => []MergeSeesLatest
<1>1. Ordered => MergeSeesLatest
  BY DEF Ordered
<1>. QED  BY OrderedInit, OrderedNext, <1>1, PTL DEF Spec

-----------------------------------------------------------------------------
(* The refinement: with its threads and its lock, the cache is the atomic  *)
(* one.                                                                    *)

\* Between reports an applier holds none, before it begins a command no
\* draft.
EmptyHanded ==
    /\ \A a \in Appliers : step[a] = "idle" => rep[a] = NoRep
    /\ \A c \in Commands : pc[c] = "idle" => draft[c] = NoRep

\* Only the read of a report and the begin of a command fill a hand.
LEMMA EmptyHandedNext == Ordered /\ EmptyHanded /\ [Next]_vars => EmptyHanded'
<1>. SUFFICES ASSUME Ordered, EmptyHanded, [Next]_vars PROVE EmptyHanded'
  OBVIOUS
<1>. USE DEF Ordered, TypeOK, EmptyHanded
<1>1. ASSUME NEW a \in Appliers, ReportStep(a)
      PROVE  EmptyHanded'
  BY <1>1 DEF ReportStep, Gate, EnterCache, MergeReport, MoveTo, commandVars
<1>2. CASE ReadSweep \/ ReadSubpoll \/ Push
  BY <1>2 DEF ReadSweep, ReadSubpoll, Push, commandVars
<1>3. ASSUME NEW c \in Commands, CommandStep(c)
      PROVE  EmptyHanded'
  <2>1. UNCHANGED applierVars
    BY <1>3
    DEF CommandStep, BeginCommand, EnterOptimistic, MergeOptimistic, ArmWindow, StartPut,
        RetryPut, Answer, Accepted, Unsure, Refused, Confirm, GiveUp, Cancel
  <2>2. \A o \in Commands : pc'[o] = "idle" => pc[o] = "idle" /\ draft'[o] = draft[o]
    <3>1. CASE BeginCommand(c) \/ EnterOptimistic(c) \/ MergeOptimistic(c)
      BY <3>1 DEF BeginCommand, EnterOptimistic, MergeOptimistic
    <3>2. CASE Confirm(c)
      BY <3>2 DEF Confirm, Fails
    <3>3. CASE ArmWindow(c) \/ StartPut(c) \/ RetryPut(c) \/ Answer(c) \/ Accepted(c) \/ Unsure(c)
      BY <3>3 DEF ArmWindow, StartPut, RetryPut, Answer, Accepted, Unsure
    <3>4. CASE Refused(c) \/ GiveUp(c) \/ Cancel(c)
      BY <3>4 DEF Refused, GiveUp, Cancel, Fails
    <3>. QED  BY <1>3, <3>1, <3>2, <3>3, <3>4 DEF CommandStep
  <2>. QED  BY <2>1, <2>2 DEF applierVars
<1>4. CASE (\E c \in Commands : DeviceShows(c)) \/ PanelChange \/ Expire \/ UNCHANGED vars
  BY <1>4 DEF DeviceShows, PanelChange, Expire, vars, commandVars, applierVars
<1>. QED  BY <1>1, <1>2, <1>3, <1>4 DEF Next

\* Both modules speak of the same reports.
LEMMA SameReports ==
    /\ Atomic!Reps = Reps /\ Atomic!State = State /\ Atomic!NoRep = NoRep
    /\ \A old, new : Atomic!Merge(old, new) = Merge(old, new)
  BY DEF Atomic!Reps, Reps, Atomic!State, State, Atomic!NoRep, NoRep, Atomic!Merge, Merge

\* A command holds its draft, an applier its report from the read on.
LEMMA HandOf ==
    /\ \A a \in Appliers : Hand[a] = rep[a]
    /\ \A c \in Commands : Hand[c] = draft[c]
  BY ConstantsOK DEF Hand, Actors

\* Everybody starts empty-handed.
LEMMA AtomicInit == Init => Atomic!Init
  BY ConstantsOK, SameReports DEF Init, Atomic!Init, Hand, Actors

\* Every step brings, drops or applies one report or draft, or leaves the
\* cache and the hands alone.
LEMMA AtomicNext ==
    Ordered /\ EmptyHanded /\ [Next]_vars => [Atomic!Next]_<<cache, Hand>>
<1>. SUFFICES ASSUME Ordered, EmptyHanded, [Next]_vars
              PROVE  Atomic!Next \/ (cache' = cache /\ Hand' = Hand)
  OBVIOUS
<1>. USE ConstantsOK, SameReports DEF Actors
<1>1. ASSUME NEW c \in Commands, BeginCommand(c)
      PROVE  Atomic!Next
  <2>0. PICK new \in Reps : draft' = [draft EXCEPT ![c] = new]
    BY <1>1, MergeTyping, RepTyping DEF Ordered, TypeOK, BeginCommand
  <2>1. Hand[c] = NoRep /\ cache' = cache
    BY <1>1, HandOf DEF EmptyHanded, BeginCommand, cacheVars
  <2>2. Hand' = [Hand EXCEPT ![c] = new]
    <3>1. rep' = rep
      BY <1>1 DEF BeginCommand, applierVars
    <3>. QED  BY <2>0, <3>1 DEF Ordered, TypeOK, Hand
  <2>. QED  BY <2>1, <2>2 DEF Atomic!Next, Atomic!Bring
<1>2. ASSUME NEW c \in Commands, MergeOptimistic(c)
      PROVE  Atomic!Next
  <2>1. cache' = Merge(cache, Hand[c])
    BY <1>2, HandOf DEF Ordered, MergeSeesLatest, MergeOptimistic, StoreMerged
  <2>2. Hand' = [Hand EXCEPT ![c] = NoRep]
    BY <1>2 DEF Ordered, TypeOK, MergeOptimistic, applierVars, Hand
  <2>. QED  BY <2>1, <2>2 DEF Atomic!Next, Atomic!Apply
<1>3. ASSUME NEW a \in Appliers, Gate(a)
      PROVE  Atomic!Next \/ (cache' = cache /\ Hand' = Hand)
  <2>1. cache' = cache /\ draft' = draft
    BY <1>3 DEF Gate, cacheVars, commandVars
  <2>2. CASE rep' = rep
    BY <2>1, <2>2 DEF Hand
  <2>3. CASE rep' = [rep EXCEPT ![a] = NoRep]
    <3>1. Hand' = [Hand EXCEPT ![a] = NoRep]
      BY <2>1, <2>3 DEF Ordered, TypeOK, Hand
    <3>. QED  BY <2>1, <3>1 DEF Atomic!Next, Atomic!Drop
  <2>. QED  BY <1>3, <2>2, <2>3 DEF Gate, MoveTo
<1>4. ASSUME NEW a \in Appliers, EnterCache(a)
      PROVE  cache' = cache /\ Hand' = Hand
  BY <1>4 DEF EnterCache, MoveTo, TakeCacheLock, commandVars, Hand
<1>5. ASSUME NEW a \in Appliers, MergeReport(a)
      PROVE  Atomic!Next
  <2>1. cache' = Merge(cache, Hand[a])
    BY <1>5, HandOf DEF Ordered, MergeSeesLatest, MergeReport, StoreMerged
  <2>2. Hand' = [Hand EXCEPT ![a] = NoRep]
    BY <1>5 DEF Ordered, TypeOK, MergeReport, MoveTo, commandVars, Hand
  <2>. QED  BY <2>1, <2>2 DEF Atomic!Next, Atomic!Apply
<1>6. ASSUME NEW a \in Appliers, NEW new \in Reps, step[a] = "idle",
             rep' = [rep EXCEPT ![a] = new], UNCHANGED <<cacheVars, commandVars>>
      PROVE  Atomic!Next
  <2>1. Hand[a] = NoRep /\ cache' = cache
    BY <1>6, HandOf DEF EmptyHanded, cacheVars
  <2>2. Hand' = [Hand EXCEPT ![a] = new]
    BY <1>6 DEF Ordered, TypeOK, commandVars, Hand
  <2>. QED  BY <2>1, <2>2 DEF Atomic!Next, Atomic!Bring
<1>7. CASE ReadSweep
  BY <1>6, <1>7, RepTyping DEF Ordered, TypeOK, ReadSweep, Appliers
<1>8. CASE ReadSubpoll
  BY <1>6, <1>8, RepTyping DEF Ordered, TypeOK, ReadSubpoll, Appliers
<1>9. CASE Push
  BY <1>6, <1>9, RepTyping DEF Ordered, TypeOK, Push, Appliers
<1>10. ASSUME NEW c \in Commands, CommandStep(c), ~BeginCommand(c), ~MergeOptimistic(c)
       PROVE  cache' = cache /\ Hand' = Hand
  <2>1. UNCHANGED <<cache, draft, applierVars>>
    BY <1>10
    DEF CommandStep, EnterOptimistic, TakeCacheLock, ArmWindow, StartPut, RetryPut, Answer,
        Accepted, Unsure, Refused, Confirm, GiveUp, Cancel, Fails, cacheVars
  <2>. QED  BY <2>1 DEF applierVars, Hand
<1>11. CASE UNCHANGED <<cacheVars, commandVars, applierVars>>
  BY <1>11 DEF cacheVars, commandVars, applierVars, Hand
<1>12. CASE (\E c \in Commands : DeviceShows(c)) \/ PanelChange \/ Expire \/ UNCHANGED vars
  BY <1>11, <1>12 DEF DeviceShows, PanelChange, Expire, vars
<1>. QED
  BY <1>1, <1>2, <1>3, <1>4, <1>5, <1>7, <1>8, <1>9, <1>10, <1>12
  DEF Next, ReportStep

\* ObserveManager.apply, run by commands, the sweep and two threads at once,
\* implements the atomic cache: whatever enters it is one whole report or
\* body at a time, merged onto the rep of that moment.
THEOREM ImplementsAtomicCache == Spec => AppliesAtomically
<1>1. Init => EmptyHanded
  BY DEF Init, EmptyHanded
<1>. QED
  BY <1>1, OrderedInit, OrderedNext, EmptyHandedNext, AtomicInit, AtomicNext, PTL
  DEF Spec, AppliesAtomically, Atomic!Spec

-----------------------------------------------------------------------------
(* The settle windows, for any number of overlapping commands on one href. *)
(* Of the steps of SettleGuard, few concern the windows: one of the six    *)
(* things named below happens to them, whatever else happens.  What the    *)
(* windows satisfy is proved over these six.                               *)

\* A coroutine on its first stretch, its window not armed yet.
Merging == {"drafted", "merging", "merged"}

\* previous_settle is noted.
Notes(c) ==
    /\ pc[c] = "idle"
    /\ pc' = [pc EXCEPT ![c] = "drafted"]
    /\ previous' = [previous EXCEPT ![c] = settle]
    /\ UNCHANGED <<settle, expired, arms, armed, first>>

\* A first window, or one more after a retry, the newest of all; no other
\* command is between its note and its own window.
Arms(c) ==
    /\ arms' \in Nat /\ arms < arms'
    /\ settle' = arms' /\ armed'[c] = arms'
    /\ UNCHANGED <<expired, previous>>
    /\ \/ pc[c] = "merged" /\ first'[c] = arms'
       \/ pc[c] = "put again" /\ first'[c] = first[c]
    /\ pc'[c] \in {"queued", "answered"}
    /\ \A d \in Commands \ {c} :
          /\ armed'[d] = armed[d] /\ first'[d] = first[d] /\ pc'[d] = pc[d]
          /\ pc[d] \notin Merging

\* A command fails.
GivesUp(c) ==
    /\ pc[c] \notin Merging \cup {"idle", "failed"}
    /\ Fails(c)

Lapses == Lapse /\ UNCHANGED <<expired, arms, commandVars>>

Expires ==
    /\ expired < arms /\ expired' = expired + 1
    /\ UNCHANGED <<settle, arms, commandVars>>

\* Commands move on, the windows stay.
MovesOn ==
    /\ UNCHANGED <<settle, expired, arms, previous, armed, first>>
    /\ \A c \in Commands :
          /\ pc'[c] = "idle" <=> pc[c] = "idle"
          /\ pc'[c] = "failed" <=> pc[c] = "failed"
          /\ pc'[c] \in Merging <=> pc[c] \in Merging

WindowStep ==
    \/ \E c \in Commands : Notes(c) \/ Arms(c) \/ GivesUp(c)
    \/ Lapses \/ Expires \/ MovesOn

\* The next number is the highest.
LEMMA NextNumber ==
    ASSUME TypeOK, arms' = arms + 1
    PROVE  arms' \in Nat /\ arms < arms'
<1>1. arms \in Nat
  BY DEF TypeOK
<1>. QED  BY <1>1

\* Nothing else happens to the windows.
LEMMA WindowSteps == Ordered /\ [Next]_vars => WindowStep
<1>. SUFFICES ASSUME Ordered, [Next]_vars PROVE WindowStep
  OBVIOUS
<1>. USE ConstantsOK DEF Ordered, TypeOK, LoopHeld, Merging
<1>1. ASSUME NEW c \in Commands, BeginCommand(c)
      PROVE  Notes(c)
  BY <1>1 DEF BeginCommand, windowVars, Notes
<1>2. ASSUME NEW c \in Commands, ArmWindow(c)
      PROVE  Arms(c)
  <2>1. arms' \in Nat /\ arms < arms'
    BY <1>2, NextNumber DEF ArmWindow, MarkWritePending
  <2>. QED  BY <1>2, <2>1 DEF ArmWindow, MarkWritePending, Arms
<1>3. ASSUME NEW c \in Commands, Answer(c)
      PROVE  Arms(c) \/ MovesOn
  <2>1. CASE pc[c] = "put again"
    <3>1. arms' \in Nat /\ arms < arms'
      BY <1>3, <2>1, NextNumber DEF Answer, MarkWritePending
    <3>. QED  BY <1>3, <2>1, <3>1 DEF Answer, MarkWritePending, Arms, Actors
  <2>2. CASE pc[c] = "put"
    BY <1>3, <2>2 DEF Answer, MovesOn
  <2>. QED  BY <1>3, <2>1, <2>2 DEF Answer
<1>4. ASSUME NEW c \in Commands, Refused(c) \/ GiveUp(c) \/ Cancel(c)
      PROVE  GivesUp(c)
  BY <1>4 DEF Refused, GiveUp, Cancel, GivesUp
<1>5. ASSUME NEW c \in Commands, Confirm(c)
      PROVE  GivesUp(c) \/ MovesOn
  BY <1>5 DEF Confirm, windowVars, GivesUp, MovesOn
<1>6. ASSUME NEW c \in Commands,
             EnterOptimistic(c) \/ MergeOptimistic(c) \/ StartPut(c) \/ RetryPut(c) \/ Accepted(c) \/ Unsure(c)
      PROVE  MovesOn
  BY <1>6 DEF EnterOptimistic, MergeOptimistic, StartPut, RetryPut, Accepted, Unsure, windowVars, MovesOn
<1>7. ASSUME NEW a \in Appliers, Gate(a)
      PROVE  Lapses
  BY <1>7 DEF Gate, Lapses
<1>8. UNCHANGED <<windowVars, commandVars>> => MovesOn
  BY DEF windowVars, commandVars, MovesOn
<1>9. Expire => Expires
  BY DEF Expire, Expires
<1>10. ASSUME NEW c \in Commands, DeviceShows(c)
       PROVE  MovesOn
  BY <1>8, <1>10 DEF DeviceShows
<1>11. ASSUME NEW a \in Appliers, EnterCache(a) \/ MergeReport(a)
       PROVE  MovesOn
  BY <1>8, <1>11 DEF EnterCache, MergeReport
<1>12. ASSUME ReadSweep \/ ReadSubpoll \/ Push \/ PanelChange \/ UNCHANGED vars
       PROVE  MovesOn
  BY <1>8, <1>12 DEF ReadSweep, ReadSubpoll, Push, PanelChange, vars
<1>. QED
  BY <1>1, <1>2, <1>3, <1>4, <1>5, <1>6, <1>7, <1>9, <1>10, <1>11, <1>12
  DEF Next, CommandStep, ReportStep, WindowStep

-----------------------------------------------------------------------------
(* Windows are numbered as they are armed, and no two commands armed the   *)
(* same one.                                                               *)

WindowTypes ==
    /\ settle \in Nat /\ expired \in Nat /\ arms \in Nat
    /\ previous \in [Commands -> Nat]
    /\ armed \in [Commands -> Nat]
    /\ first \in [Commands -> Nat]
    /\ DOMAIN pc = Commands

NumberedOf(c) ==
    /\ previous[c] <= arms /\ armed[c] <= arms /\ first[c] <= armed[c]
    /\ pc[c] = "idle" => previous[c] = 0
    /\ pc[c] \in Merging \cup {"idle"} => armed[c] = 0
    /\ pc[c] \notin Merging \cup {"idle"} => previous[c] < first[c]

Numbered ==
    /\ settle <= arms /\ expired <= arms
    /\ \A c \in Commands : NumberedOf(c)
    /\ \A c, d \in Commands : c # d /\ armed[c] # 0 => armed[c] # armed[d]

\* No window is armed yet.
LEMMA NumberedInit == Init => Numbered
  BY DEF Init, Numbered, NumberedOf, Merging

\* Only the newest number is ever given out, and only older ones noted.
LEMMA NumberedNext == WindowTypes /\ WindowTypes' /\ Numbered /\ WindowStep => Numbered'
<1>. SUFFICES ASSUME WindowTypes, WindowTypes', Numbered, WindowStep PROVE Numbered'
  OBVIOUS
<1>1. ASSUME NEW c \in Commands, Notes(c)
      PROVE  Numbered'
  BY <1>1 DEF WindowTypes, Numbered, NumberedOf, Notes, Merging
<1>2. ASSUME NEW c \in Commands, Arms(c)
      PROVE  Numbered'
  <2>0. /\ arms' \in Nat /\ arms < arms' /\ settle' = arms' /\ armed'[c] = arms'
        /\ expired' = expired /\ previous' = previous
    BY <1>2 DEF Arms
  <2>1. settle' <= arms' /\ expired' <= arms'
    BY <2>0 DEF WindowTypes, Numbered
  <2>2. ASSUME NEW d \in Commands
        PROVE  NumberedOf(d)'
    <3>1. CASE d = c
      <4>1. pc'[c] \notin Merging \cup {"idle"}
        BY <1>2 DEF Arms, Merging
      <4>2. first'[c] = arms' \/ (first'[c] = first[c] /\ previous[c] < first[c])
        <5>1. CASE first'[c] = arms'
          BY <5>1
        <5>2. CASE first'[c] = first[c] /\ pc[c] = "put again"
          BY <5>2 DEF Numbered, NumberedOf, Merging
        <5>. QED  BY <1>2, <5>1, <5>2 DEF Arms
      <4>3. previous'[c] <= arms' /\ armed'[c] <= arms' /\ first'[c] <= armed'[c] /\ previous'[c] < first'[c]
        BY <2>0, <4>2 DEF WindowTypes, Numbered, NumberedOf
      <4>. QED  BY <3>1, <4>1, <4>3 DEF NumberedOf, Merging
    <3>2. CASE d # c
      <4>1. armed'[d] = armed[d] /\ first'[d] = first[d] /\ pc'[d] = pc[d]
        BY <1>2, <3>2 DEF Arms
      <4>2. previous'[d] <= arms' /\ armed'[d] <= arms'
        BY <2>0, <4>1 DEF WindowTypes, Numbered, NumberedOf
      <4>. QED  BY <2>0, <4>1, <4>2 DEF Numbered, NumberedOf
    <3>. QED  BY <3>1, <3>2
  <2>3. ASSUME NEW d \in Commands, NEW e \in Commands, d # e, armed'[d] # 0
        PROVE  armed'[d] # armed'[e]
    <3>1. \A x \in Commands \ {c} : armed'[x] = armed[x] /\ armed[x] < arms'
      <4>1. \A x \in Commands \ {c} : armed'[x] = armed[x]
        BY <1>2 DEF Arms
      <4>. QED  BY <2>0, <4>1 DEF WindowTypes, Numbered, NumberedOf
    <3>. QED  BY <2>0, <2>3, <3>1 DEF WindowTypes, Numbered
  <2>. QED  BY <2>1, <2>2, <2>3 DEF Numbered
<1>3. ASSUME NEW c \in Commands, GivesUp(c)
      PROVE  Numbered'
  BY <1>3 DEF WindowTypes, Numbered, NumberedOf, GivesUp, Fails, RestoreWritePending, Merging
<1>4. CASE Lapses
  BY <1>4 DEF WindowTypes, Numbered, NumberedOf, Lapses, Lapse, Settling, Merging, commandVars
<1>5. CASE Expires
  BY <1>5 DEF WindowTypes, Numbered, NumberedOf, Expires, Merging, commandVars
<1>6. CASE MovesOn
  BY <1>6 DEF WindowTypes, Numbered, NumberedOf, MovesOn, Merging
<1>. QED  BY <1>1, <1>2, <1>3, <1>4, <1>5, <1>6 DEF WindowStep

-----------------------------------------------------------------------------
(* A command keeps its window.                                             *)

\* What the failure of another command o could put back over the window of
\* c: WindowKept is not inductive without it.  If o noted an older window
\* than that of c, then c armed after o did.
KeptOver(c, o) ==
    armed[c] > expired /\ pc[c] # "failed" /\ pc[o] # "idle" /\ armed[c] > previous[o]
        => OverRearmed(c) \/ (first[o] # 0 /\ armed[c] > first[o])

Kept ==
    /\ WindowKept
    /\ \A c, o \in Commands : c # o => KeptOver(c, o)

\* Nobody has a window to keep.
LEMMA KeptInit == Init => Kept
  BY DEF Init, Kept, WindowKept, KeptOver

\* A window once armed over by a retry that failed stays so.
LEMMA OverRearmedStays ==
    ASSUME WindowTypes, WindowStep, NEW c \in Commands, OverRearmed(c), armed'[c] = armed[c]
    PROVE  OverRearmed(c)'
<1>1. PICK o \in Commands \ {c} :
          /\ pc[o] = "failed"
          /\ previous[o] < armed[c] /\ armed[c] < armed[o]
          /\ first[o] < armed[o]
  BY DEF OverRearmed
<1>2. /\ pc'[o] = "failed"
      /\ previous'[o] = previous[o] /\ armed'[o] = armed[o] /\ first'[o] = first[o]
  BY <1>1 DEF WindowTypes, WindowStep, Notes, Arms, GivesUp, Fails,
              Lapses, Expires, MovesOn, Merging, commandVars
<1>. QED  BY <1>1, <1>2 DEF OverRearmed

\* A window falls only to the failure of a command that armed over it
\* after having noted an older one.
LEMMA KeptNext == WindowTypes /\ WindowTypes' /\ Numbered /\ Kept /\ WindowStep => Kept'
<1>. SUFFICES ASSUME WindowTypes, WindowTypes', Numbered, Kept, WindowStep PROVE Kept'
  OBVIOUS
<1>0. ASSUME NEW c \in Commands, OverRearmed(c), armed'[c] = armed[c]
      PROVE  OverRearmed(c)'
  BY <1>0, OverRearmedStays
<1>1. ASSUME NEW c \in Commands, Notes(c)
      PROVE  Kept'
  BY <1>0, <1>1 DEF WindowTypes, Numbered, NumberedOf, Kept, WindowKept, KeptOver, Notes, Merging
<1>2. ASSUME NEW c \in Commands, Arms(c)
      PROVE  Kept'
  <2>0. /\ arms' \in Nat /\ arms < arms' /\ settle' = arms' /\ armed'[c] = arms'
        /\ expired' = expired /\ previous' = previous
        /\ \A d \in Commands \ {c} : armed'[d] = armed[d] /\ first'[d] = first[d]
    BY <1>2 DEF Arms
  <2>1. ASSUME NEW d \in Commands
        PROVE  settle' >= armed'[d]
    BY <2>0 DEF WindowTypes, Numbered, NumberedOf
  <2>2. ASSUME NEW d \in Commands, NEW o \in Commands, d # o
        PROVE  KeptOver(d, o)'
    <3>1. CASE d = c
      <4>1. pc'[o] = pc[o] /\ pc[o] \notin Merging
        BY <1>2, <2>2, <3>1 DEF Arms
      <4>2. pc[o] # "idle" => 0 < first[o]
        BY <4>1 DEF WindowTypes, Numbered, NumberedOf
      <4>3. armed'[c] > first'[o] /\ first'[o] = first[o]
        BY <2>0, <2>2, <3>1 DEF WindowTypes, Numbered, NumberedOf
      <4>. QED  BY <3>1, <4>1, <4>2, <4>3 DEF KeptOver, WindowTypes
    <3>2. CASE d # c
      <4>1. armed'[d] = armed[d] /\ pc'[d] = pc[d]
        BY <1>2, <3>2 DEF Arms
      <4>2. OverRearmed(d) => OverRearmed(d)'
        BY <1>0, <4>1
      <4>3. CASE o # c
        <5>1. pc'[o] = pc[o] /\ first'[o] = first[o]
          BY <1>2, <4>3 DEF Arms
        <5>. QED  BY <2>0, <2>2, <4>1, <4>2, <5>1 DEF Kept, KeptOver
      <4>4. CASE o = c
        <5>1. pc[c] # "idle"
          BY <1>2 DEF Arms
        <5>2. first[c] # 0 => first'[c] = first[c]
          <6>1. CASE pc[c] = "merged"
            <7>1. armed[c] = 0
              BY <6>1 DEF Numbered, NumberedOf, Merging
            <7>. QED  BY <7>1 DEF WindowTypes, Numbered, NumberedOf
          <6>. QED  BY <1>2, <6>1 DEF Arms
        <5>. QED  BY <2>0, <2>2, <4>1, <4>2, <4>4, <5>1, <5>2 DEF Kept, KeptOver
      <4>. QED  BY <4>3, <4>4
    <3>. QED  BY <3>1, <3>2
  <2>. QED  BY <2>1, <2>2 DEF Kept, WindowKept
<1>3. ASSUME NEW c \in Commands, GivesUp(c)
      PROVE  Kept'
  BY <1>0, <1>3 DEF WindowTypes, Numbered, NumberedOf, Kept, WindowKept, KeptOver, GivesUp, Fails, RestoreWritePending, Merging, OverRearmed
<1>4. CASE Lapses
  BY <1>0, <1>4 DEF WindowTypes, Numbered, NumberedOf, Kept, WindowKept, KeptOver, Lapses, Lapse, Settling, commandVars
<1>5. CASE Expires
  BY <1>0, <1>5 DEF WindowTypes, Numbered, NumberedOf, Kept, WindowKept, KeptOver, Expires, commandVars
<1>6. CASE MovesOn
  BY <1>0, <1>6 DEF WindowTypes, Numbered, NumberedOf, Kept, WindowKept, KeptOver, MovesOn
<1>. QED  BY <1>1, <1>2, <1>3, <1>4, <1>5, <1>6 DEF WindowStep

-----------------------------------------------------------------------------
(* A failed window runs on only where it was put back.                     *)

\* The same of a window the command itself armed over: its note may bring
\* it back.
PutBack ==
    \A c \in Commands :
        /\ Settling
        /\ settle \in {first[c], armed[c]}
        /\ settle # armed[c] \/ pc[c] = "failed"
        => \E o \in Commands \ {c} : previous[o] = settle

\* What a failure puts back, its command had noted.
LEMMA PutBackNext == WindowTypes /\ WindowTypes' /\ Numbered /\ PutBack /\ WindowStep => PutBack'
<1>. SUFFICES ASSUME WindowTypes, WindowTypes', Numbered, PutBack, WindowStep PROVE PutBack'
  OBVIOUS
<1>1. ASSUME NEW c \in Commands, Notes(c)
      PROVE  PutBack'
  BY <1>1 DEF WindowTypes, Numbered, NumberedOf, PutBack, Notes, Settling
<1>2. ASSUME NEW c \in Commands, Arms(c)
      PROVE  PutBack'
  <2>1. ASSUME NEW d \in Commands, d # c
        PROVE  settle' \notin {first'[d], armed'[d]}
    <3>1. /\ arms' \in Nat /\ arms < arms' /\ settle' = arms'
          /\ armed'[d] = armed[d] /\ first'[d] = first[d]
      BY <1>2, <2>1 DEF Arms
    <3>. QED  BY <3>1 DEF WindowTypes, Numbered, NumberedOf
  <2>. QED  BY <1>2, <2>1 DEF Arms, PutBack
<1>3. ASSUME NEW c \in Commands, GivesUp(c)
      PROVE  PutBack'
  BY <1>3 DEF WindowTypes, Numbered, NumberedOf, PutBack, GivesUp, Fails, RestoreWritePending, Settling
<1>4. CASE Lapses
  BY <1>4 DEF WindowTypes, PutBack, Lapses, Lapse, Settling, commandVars
<1>5. CASE Expires
  BY <1>5 DEF WindowTypes, PutBack, Expires, Settling, commandVars
<1>6. CASE MovesOn
  BY <1>6 DEF WindowTypes, PutBack, MovesOn, Settling
<1>. QED  BY <1>1, <1>2, <1>3, <1>4, <1>5, <1>6 DEF WindowStep

-----------------------------------------------------------------------------
(* The sweep and the windows.                                              *)

\* Between its gate and its merge the sweep holds the loop, which every
\* step of a command needs.
LEMMA SweepNext == Ordered /\ SweepHonoursWindow /\ [Next]_vars => SweepHonoursWindow'
<1>. SUFFICES ASSUME Ordered, SweepHonoursWindow, [Next]_vars,
                     step'[Sweep] \in {"passed", "merging"}
              PROVE  ~Settling'
  BY DEF SweepHonoursWindow
<1>0. step[Sweep] \in {"passed", "merging"} => loop = Sweep /\ ~Settling
  BY DEF Ordered, LoopHeld, SweepHonoursWindow
<1>1. ASSUME NEW c \in Commands, CommandStep(c)
      PROVE  FALSE
  <2>1. step' = step
    BY <1>1
    DEF CommandStep, BeginCommand, EnterOptimistic, MergeOptimistic, ArmWindow, StartPut, RetryPut, Answer,
        Accepted, Unsure, Refused, Confirm, GiveUp, Cancel, applierVars
  <2>2. loop \in {c, Nobody}
    BY <1>1
    DEF Ordered, LoopHeld, CommandStep, BeginCommand, EnterOptimistic, MergeOptimistic, ArmWindow, StartPut,
        RetryPut, Answer, Accepted, Unsure, Refused, Confirm, GiveUp, Cancel
  <2>. QED  BY <1>0, <2>1, <2>2, ConstantsOK DEF Actors, Appliers
<1>2. ASSUME step[Sweep] \in {"passed", "merging"}, UNCHANGED windowVars
      PROVE  ~Settling'
  BY <1>0, <1>2 DEF windowVars, Settling
<1>3. CASE (\E c \in Commands : DeviceShows(c)) \/ PanelChange \/ UNCHANGED vars
  BY <1>2, <1>3 DEF DeviceShows, PanelChange, vars, applierVars
<1>4. CASE ReadSweep \/ ReadSubpoll \/ Push
  BY <1>2, <1>4 DEF Ordered, TypeOK, ReadSweep, ReadSubpoll, Push, Appliers, Sweep, Subpoll, Notify
<1>5. CASE Expire
  <2>1. ~Settling /\ settle' = settle /\ expired' = expired + 1
    BY <1>0, <1>5 DEF Expire, applierVars
  <2>2. settle \in Nat /\ expired \in Nat
    BY DEF Ordered, TypeOK
  <2>. QED  BY <2>1, <2>2 DEF Settling
<1>6. ASSUME NEW a \in Appliers, Gate(a)
      PROVE  ~Settling'
  <2>1. ~Settling
    <3>1. CASE a = Sweep
      BY <1>6, <3>1 DEF Ordered, TypeOK, Gate, MoveTo
    <3>2. CASE a # Sweep
      BY <1>0, <1>6, <3>2 DEF Ordered, TypeOK, Gate, MoveTo, Appliers
    <3>. QED  BY <3>1, <3>2
  <2>2. settle' = 0 /\ expired' = expired
    BY <1>6, <2>1 DEF Gate, Lapse
  <2>3. expired \in Nat
    BY DEF Ordered, TypeOK
  <2>. QED  BY <2>2, <2>3 DEF Settling
<1>7. ASSUME NEW a \in Appliers, EnterCache(a) \/ MergeReport(a)
      PROVE  ~Settling'
  <2>1. step[Sweep] \in {"passed", "merging"}
    BY <1>7 DEF Ordered, TypeOK, EnterCache, MergeReport, MoveTo, Appliers
  <2>. QED  BY <1>2, <1>7, <2>1 DEF EnterCache, MergeReport
<1>. QED
  BY <1>1, <1>3, <1>4, <1>5, <1>6, <1>7 DEF Next, ReportStep

-----------------------------------------------------------------------------
\* The part of the type invariant the windows need.
LEMMA TypesOfWindows == Ordered => WindowTypes
  BY DEF Ordered, TypeOK, WindowTypes

\* A sweep past the gate of ObserveManager.apply meets no settle window: no
\* command can arm one between the gate and the merge of a poll.
THEOREM SweepsHonourWindows == Spec => []SweepHonoursWindow
<1>1. Init => SweepHonoursWindow
  BY DEF Init, SweepHonoursWindow, Appliers
<1>. QED  BY <1>1, OrderedInit, OrderedNext, SweepNext, PTL DEF Spec

\* mark_write_pending and restore_write_pending, whatever the overlap: a
\* command that has not failed keeps its window to its deadline or a later
\* one, unless a retry armed over it and then failed.
THEOREM WindowsKept == Spec => []WindowKept
<1>1. Kept => WindowKept
  BY DEF Kept
<1>. QED
  BY <1>1, OrderedInit, OrderedNext, TypesOfWindows, WindowSteps, NumberedInit, NumberedNext,
     KeptInit, KeptNext, PTL
  DEF Spec

\* restore_write_pending: a failed command's window runs on only where
\* another command had noted it and put it back.
THEOREM FailedWindowsOnlyPutBack == Spec => []FailedWindowOnlyPutBack
<1>1. Init => PutBack
  BY DEF Init, PutBack, Settling
<1>2. PutBack => FailedWindowOnlyPutBack
  BY DEF PutBack, FailedWindowOnlyPutBack
<1>. QED
  BY <1>1, <1>2, OrderedInit, OrderedNext, TypesOfWindows, WindowSteps, NumberedInit,
     NumberedNext, PutBackNext, PTL
  DEF Spec
=============================================================================
