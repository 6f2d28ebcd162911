----------------------------- MODULE ControlsProofs -----------------------------
(***************************************************************************)
(* The parts of ControlParts, each proved for every value of its           *)
(* constants. Finish sensors: cycles of any length, any window and         *)
(* threshold, any number of flaps and reloads; the finish time is steady,  *)
(* and finish is held for one window and announced once a cycle. Debug     *)
(* services: any devices, values and write sequences, any number of calls, *)
(* faults and reverts; the services and push mode leave each other alone,  *)
(* and a verification says what the appliance has. The card: any boards,   *)
(* any number of calls at a time; it shows what it offers and what was     *)
(* chosen. Courses: any tables, and any widths they state; what is offered *)
(* and refused is what the course says.                                    *)
(***************************************************************************)
EXTENDS ControlParts, Sequences, FiniteSetTheorems, SequenceTheorems, TLAPS

-----------------------------------------------------------------------------
(* The finish sensors. *)

Reps  == [state : {"idle", "active", "pause"}, progress : {None, "Finish", "drying"}, left : Int]
Times == Int \cup {None}

Typed ==
    /\ unit \in Reps /\ cache \in Reps
    /\ data \in [progress : {"idle", "finish", "drying"}, finish : Times]
    /\ pending \in {"flatten", "write", "none"}
    /\ now \in Nat
    /\ sticky \in [value : {None, "finish"}, until : Times, spent : BOOLEAN]
    /\ shown \in [progress : {None, "idle", "finish", "drying"}, finish : Times]
    /\ seen \in Nat \cup {None}
    /\ told \in BOOLEAN

\* It says so itself: the one report that is flattened to "finish"
Ended(rep) == rep.state = "active" /\ rep.progress = "Finish"

InWindow == seen # None /\ now < seen + Window

\* The hold is what the history says
HoldsSinceSeen ==
    /\ sticky.spent = (seen # None)
    /\ sticky.until = IF seen = None THEN None ELSE seen + Window
    /\ seen # None => sticky.value = "finish"

\* What a change has not reached yet
InStep ==
    /\ pending = "flatten" => cache = unit
    /\ pending # "flatten" => data.progress = Progress(cache)
    /\ pending = "none" /\ Runs(cache) => ~told

\* An end read and not yet met is still to be evaluated
Met == cache.progress = "Finish" /\ seen = None => cache = unit /\ pending # "none"

\* "finish" was flattened from an end, one that was met unless it is new or
\* a new cycle runs already
Flattened ==
    data.progress = "finish" /\ seen = None =>
        Ended(cache) \/ (Runs(cache) /\ pending = "flatten" /\ cache = unit)

\* An end comes from a cycle that was seen to run
EndsACycle == Ended(unit) => Ended(cache) \/ (Runs(cache) /\ ~told)

\* What was told was met; while the appliance stays at its end it is shown;
\* and once it is shown no more, nothing is left that would show it again
Announced ==
    /\ told => seen # None
    /\ told /\ Ended(cache) => data.progress = "finish" \/ InWindow
    /\ told /\ shown.progress # "finish" =>
         ~Ended(unit) /\ ~Ended(cache) /\ data.progress # "finish" /\ ~InWindow

IInv == Typed /\ HoldsSinceSeen /\ InStep /\ Met /\ Flattened /\ EndsACycle /\ Announced

-----------------------------------------------------------------------------
LEMMA FlatTyped ==
    ASSUME NEW rep \in Reps, NEW at \in Nat
    PROVE  Flat(rep, at) \in [progress : {"idle", "finish", "drying"}, finish : Times]
BY FinishOK, NoneIsApart DEF Flat, Progress, FinishTime, StateIsActive, Reps, Times

\* Types are kept by every step.
LEMMA TypedStep == Typed /\ [Next]_vars => Typed'
<1> SUFFICES ASSUME Typed, [Next]_vars PROVE Typed'
  OBVIOUS
<1>1. CASE Evaluate
  <2>1. sticky' \in [value : {None, "finish"}, until : Times, spent : BOOLEAN]
    <3>1. now + Window \in Times
      BY FinishOK DEF Typed, Times
    <3>2. [value |-> "finish", until |-> now + Window, spent |-> TRUE]
            \in [value : {None, "finish"}, until : Times, spent : BOOLEAN]
      BY <3>1
    <3>3. [sticky EXCEPT !.until = None, !.spent = FALSE]
            \in [value : {None, "finish"}, until : Times, spent : BOOLEAN]
      BY DEF Typed, Times
    <3> QED
      BY <1>1, <3>2, <3>3 DEF Evaluate, Armed, Typed
  <2>2. Steady(data.finish) \in Times
    BY DEF Steady, Typed, Times
  <2>3. Held(data.progress, sticky') \in {None, "idle", "finish", "drying"}
    BY <2>1 DEF Held, Typed
  <2> QED
    BY <1>1, <2>1, <2>2, <2>3 DEF Evaluate, Typed
<1>2. CASE Read
  BY <1>2 DEF Read, Typed
<1>3. CASE Publish
  BY <1>3, FlatTyped DEF Publish, Typed
<1>4. CASE Load
  BY <1>4, FlatTyped DEF Load, Unarmed, Typed, Times
<1>5. CASE Start \/ Finish \/ Settle \/ Flap \/ Pause
  <2>1. unit' \in Reps
    BY <1>5, FinishOK DEF Start, Finish, Settle, Flap, Pause, Becomes, Typed, Reps
  <2> QED
    BY <1>5, <2>1 DEF Start, Finish, Settle, Flap, Pause, MayChange, Typed
<1>6. CASE Tick
  BY <1>6, FinishOK DEF Tick, Typed, Reps
<1>7. CASE UNCHANGED vars
  BY <1>7 DEF vars, Typed
<1> QED
  BY <1>1, <1>2, <1>3, <1>4, <1>5, <1>6, <1>7 DEF Next

LEMMA InitIInv == Init => IInv
<1> SUFFICES ASSUME Init PROVE IInv
  OBVIOUS
<1>1. unit \in Reps /\ cache \in Reps
  BY DEF Init, Reps
<1>2. Typed
  BY <1>1, FlatTyped DEF Init, Unarmed, Typed, Times
<1>3. HoldsSinceSeen /\ InStep /\ Met /\ EndsACycle /\ Announced
  BY DEF Init, Unarmed, HoldsSinceSeen, InStep, Met, EndsACycle, Announced, Flat, Ended
<1>4. Flattened
  BY NoneIsApart DEF Init, Flattened, Flat, Progress, StateIsActive, Ended
<1> QED
  BY <1>2, <1>3, <1>4 DEF IInv

-----------------------------------------------------------------------------
(* Each step keeps the rest of the invariant *)

Rest == HoldsSinceSeen /\ InStep /\ Met /\ Flattened /\ EndsACycle /\ Announced

\* What an evaluation does, in the three cases it tells apart
LEMMA Evaluation ==
    ASSUME IInv, Evaluate
    PROVE  /\ Runs(cache) => /\ seen' = None /\ ~told'
                             /\ sticky'.spent = FALSE /\ sticky'.until = None
           /\ cache.progress = "Finish" =>
                /\ seen' = IF seen = None THEN now ELSE seen
                /\ sticky'.spent = TRUE /\ sticky'.until = seen' + Window /\ sticky'.value = "finish"
           /\ ~Runs(cache) /\ cache.progress # "Finish" => seen' = seen /\ sticky' = sticky
           /\ ~Runs(cache) => told' = (told \/ shown'.progress = "finish")
<1>1. NewCycleRunning(cache) = Runs(cache)
  BY NoneIsApart DEF NewCycleRunning, Runs, StateIsActive, IInv, Typed, Reps
<1>2. CASE Runs(cache)
  <2>1. sticky' = [sticky EXCEPT !.until = None, !.spent = FALSE]
    BY <1>1, <1>2 DEF Evaluate, Armed, JustFinished, Runs
  <2> QED
    BY <1>2, <2>1 DEF Evaluate, Runs, IInv, Typed
<1>3. CASE cache.progress = "Finish"
  <2>1. CASE seen = None
    BY <1>3, <2>1 DEF Evaluate, Armed, JustFinished, Runs, IInv, HoldsSinceSeen, Typed
  <2>2. CASE seen # None
    BY <1>3, <2>2 DEF Evaluate, Armed, JustFinished, Runs, IInv, HoldsSinceSeen, Typed
  <2> QED
    BY <2>1, <2>2
<1>4. CASE ~Runs(cache) /\ cache.progress # "Finish"
  BY <1>1, <1>4 DEF Evaluate, Armed, JustFinished
<1> QED
  BY <1>2, <1>3, <1>4

LEMMA HeldThen == ASSUME IInv, Evaluate PROVE HoldsSinceSeen'
<1>1. CASE Runs(cache)
  BY <1>1, Evaluation DEF HoldsSinceSeen
<1>2. CASE cache.progress = "Finish"
  <2>1. now # None
    BY NoneIsApart DEF IInv, Typed
  <2>2. seen' # None
    BY <1>2, <2>1, Evaluation
  <2> QED
    BY <1>2, <2>2, Evaluation DEF HoldsSinceSeen
<1>3. CASE ~Runs(cache) /\ cache.progress # "Finish"
  BY <1>3, Evaluation DEF IInv, HoldsSinceSeen
<1> QED
  BY <1>1, <1>2, <1>3

\* What it shows
LEMMA ShownThen ==
    ASSUME IInv, Evaluate
    PROVE  shown'.progress = IF InWindow' THEN "finish" ELSE data.progress
<1>1. HoldsSinceSeen'
  BY HeldThen
<1>2. seen' \in Nat \cup {None}
  BY Evaluation DEF IInv, Typed
<1>3. shown'.progress = Held(data.progress, sticky') /\ now' = now
  BY DEF Evaluate
<1> QED
  BY <1>1, <1>2, <1>3, FinishOK, NoneIsApart DEF Held, InWindow, HoldsSinceSeen

LEMMA EvaluateStep == ASSUME IInv, Evaluate PROVE Rest'
<1> USE DEF IInv
<1>1. /\ unit' = unit /\ cache' = cache /\ data' = data /\ now' = now
      /\ pending' = IF pending = "write" THEN "none" ELSE pending
  BY DEF Evaluate
<1>2. HoldsSinceSeen'
  BY HeldThen
<1>3. InStep'
  BY <1>1, Evaluation DEF InStep, Typed
<1>4. Met'
  <2>1. now # None
    BY NoneIsApart DEF Typed
  <2> QED
    BY <1>1, <2>1, Evaluation DEF Met
<1>5. Flattened'
  <2> SUFFICES ASSUME data.progress = "finish", seen' = None
               PROVE  Ended(cache) \/ (Runs(cache) /\ pending' = "flatten" /\ cache = unit)
    BY <1>1 DEF Flattened, Ended, Runs
  <2>1. CASE Runs(cache)
    <3>1. Progress(cache) = "drying"
      BY <2>1, NoneIsApart DEF Progress, Runs, StateIsActive
    <3> QED
      BY <1>1, <2>1, <3>1 DEF InStep, Typed
  <2>2. CASE ~Runs(cache)
    <3>1. seen = None
      BY <2>2, Evaluation, NoneIsApart DEF Typed
    <3> QED
      BY <2>2, <3>1 DEF Flattened
  <2> QED
    BY <2>1, <2>2
<1>6. EndsACycle'
  BY <1>1, Evaluation DEF EndsACycle, Ended, Runs
<1>7. Announced'
  <2>1. told' => seen' # None
    <3> SUFFICES ASSUME told', seen' = None PROVE FALSE
      OBVIOUS
    <3>1. ~Runs(cache)
      BY Evaluation
    <3>2. cache.progress # "Finish"
      <4> SUFFICES ASSUME cache.progress = "Finish" PROVE FALSE
        OBVIOUS
      <4>1. seen' = IF seen = None THEN now ELSE seen
        BY Evaluation
      <4> QED
        BY <4>1, NoneIsApart DEF Typed
    <3>3. seen = None
      BY <3>1, <3>2, Evaluation
    <3>4. shown'.progress = "finish"
      BY <3>1, <3>3, Evaluation DEF Announced
    <3>5. data.progress = "finish"
      BY <3>4, ShownThen DEF InWindow
    <3> QED
      BY <3>1, <3>2, <3>3, <3>5 DEF Flattened, Ended
  <2>2. told' /\ Ended(cache) => data.progress = "finish" \/ InWindow'
    <3> SUFFICES ASSUME told', Ended(cache), data.progress # "finish", ~InWindow' PROVE FALSE
      OBVIOUS
    <3>1. told /\ ~Runs(cache)
      BY Evaluation, ShownThen DEF Ended, Runs
    <3>2. InWindow
      BY <3>1 DEF Announced
    <3>3. seen' = seen
      BY <3>1, <3>2, Evaluation DEF Ended, InWindow
    <3> QED
      BY <1>1, <3>2, <3>3 DEF InWindow
  <2>3. ASSUME told', shown'.progress # "finish"
        PROVE  ~Ended(unit) /\ ~Ended(cache) /\ data.progress # "finish" /\ ~InWindow'
    <3>1. data.progress # "finish" /\ ~InWindow'
      BY <2>3, ShownThen
    <3>2. ~Ended(cache) /\ ~Runs(cache)
      BY <2>2, <2>3, <3>1, Evaluation
    <3> QED
      BY <3>1, <3>2 DEF EndsACycle
  <2> QED
    BY <1>1, <2>1, <2>2, <2>3 DEF Announced, Ended
<1> QED
  BY <1>2, <1>3, <1>4, <1>5, <1>6, <1>7 DEF Rest

LEMMA ReadStep == ASSUME IInv, Read PROVE Rest'
<1> USE DEF IInv
<1>1. /\ cache # unit /\ cache' = unit /\ pending' = "flatten"
      /\ unit' = unit /\ data' = data /\ now' = now /\ sticky' = sticky
      /\ shown' = shown /\ seen' = seen /\ told' = told
  BY DEF Read
<1>2. HoldsSinceSeen' /\ InStep' /\ Met' /\ EndsACycle'
  BY <1>1 DEF HoldsSinceSeen, InStep, Met, EndsACycle, Ended, Runs
<1>3. Flattened'
  <2> SUFFICES ASSUME data.progress = "finish", seen = None PROVE FALSE
    BY <1>1 DEF Flattened
  <2>1. Ended(cache)
    BY <1>1 DEF Flattened
  <2> QED
    BY <1>1, <2>1 DEF Met, Ended
<1>4. Announced'
  <2>1. told /\ Ended(unit) => Ended(cache)
    BY DEF EndsACycle
  <2> QED
    BY <1>1, <2>1 DEF Announced, Ended, InWindow
<1> QED
  BY <1>2, <1>3, <1>4 DEF Rest

LEMMA PublishStep == ASSUME IInv, Publish PROVE Rest'
<1> USE DEF IInv
<1>1. /\ data'.progress = Progress(cache) /\ pending' = "write"
      /\ unit' = unit /\ cache' = cache /\ now' = now /\ sticky' = sticky
      /\ shown' = shown /\ seen' = seen /\ told' = told
  BY DEF Publish, Flat
<1>2. (Progress(cache) = "finish") = Ended(cache)
  BY NoneIsApart DEF Progress, Ended, StateIsActive, Typed, Reps
<1>3. HoldsSinceSeen' /\ InStep' /\ EndsACycle'
  BY <1>1 DEF HoldsSinceSeen, InStep, EndsACycle, Progress, StateIsActive, Ended, Runs
<1>4. Met'
  BY <1>1 DEF Met
<1>5. Flattened'
  BY <1>1, <1>2 DEF Flattened, Ended
<1>6. Announced'
  BY <1>1, <1>2 DEF Announced, Ended, InWindow
<1> QED
  BY <1>3, <1>4, <1>5, <1>6 DEF Rest

LEMMA LoadStep == ASSUME IInv, Load PROVE Rest'
<1> USE DEF IInv
<1>1. /\ cache' = unit /\ unit' = unit /\ data'.progress = Progress(unit)
      /\ pending' = "write" /\ seen' = None /\ told' = FALSE
      /\ sticky'.until = None /\ sticky'.spent = FALSE
  BY DEF Load, Flat, Unarmed
<1>2. Progress(unit) = "finish" => Ended(unit)
  BY NoneIsApart DEF Progress, Ended, StateIsActive, Typed, Reps
<1>3. HoldsSinceSeen' /\ InStep' /\ Met' /\ EndsACycle' /\ Announced'
  BY <1>1 DEF HoldsSinceSeen, InStep, Met, EndsACycle, Announced, Progress, StateIsActive, Ended
<1>4. Flattened'
  BY <1>1, <1>2 DEF Flattened, Ended
<1> QED
  BY <1>3, <1>4 DEF Rest

\* The appliance changes when nothing is pending, and ends a cycle only
LEMMA UnitStep ==
    ASSUME IInv, pending = "none", Ended(unit') => Ended(unit) \/ Runs(cache),
           UNCHANGED <<cache, data, pending, sticky, shown, seen, told>>,
           now' \in Nat, now' >= now
    PROVE  Rest'
<1> USE DEF IInv
<1>1. HoldsSinceSeen'
  BY DEF HoldsSinceSeen
<1>2. InStep'
  BY DEF InStep, Progress, StateIsActive, Runs
<1>3. Met'
  BY DEF Met
<1>4. Flattened'
  BY DEF Flattened, Ended
<1>5. EndsACycle'
  BY DEF EndsACycle, Ended, Runs, InStep
<1>6. Announced'
  <2>1. InWindow' => InWindow
    BY FinishOK, NoneIsApart DEF InWindow, Typed
  <2>2. told /\ Ended(cache) => data.progress = "finish"
    BY NoneIsApart DEF InStep, Ended, Progress, StateIsActive
  <2>3. told /\ shown.progress # "finish" => ~Ended(unit')
    BY DEF Announced, InStep
  <2> QED
    BY <2>1, <2>2, <2>3 DEF Announced, Ended
<1> QED
  BY <1>1, <1>2, <1>3, <1>4, <1>5, <1>6 DEF Rest

LEMMA IInvStep == IInv /\ [Next]_vars => IInv'
<1> SUFFICES ASSUME IInv, [Next]_vars PROVE Rest'
  BY TypedStep DEF IInv, Rest
<1>1. CASE Evaluate
  BY <1>1, EvaluateStep
<1>2. CASE Read
  BY <1>2, ReadStep
<1>3. CASE Publish
  BY <1>3, PublishStep
<1>4. CASE Load
  BY <1>4, LoadStep
<1>5. CASE Start \/ Finish \/ Settle \/ Flap \/ Pause
  <2>1. MayChange
    BY <1>5 DEF Start, Finish, Settle, Flap, Pause
  <2>2. Ended(unit') => Runs(cache)
    BY <1>5 DEF Start, Finish, Settle, Flap, Pause, Becomes, Ended
  <2> QED
    BY <2>1, <2>2, UnitStep DEF MayChange, IInv, Typed
<1>6. CASE Tick
  <2>1. Ended(unit') => Ended(unit)
    BY <1>6 DEF Tick, Ended, Runs, IInv, Typed, Reps
  <2> QED
    BY <1>6, <2>1, UnitStep DEF Tick, IInv, Typed
<1>7. CASE UNCHANGED vars
  BY <1>7 DEF vars, IInv, Rest, HoldsSinceSeen, InStep, Met, Flattened, EndsACycle,
              Announced, Ended, Runs, Progress, StateIsActive, InWindow
<1> QED
  BY <1>1, <1>2, <1>3, <1>4, <1>5, <1>6, <1>7 DEF Next

-----------------------------------------------------------------------------
(* The theorems *)

\* The types of the appliance, the cache, the published data and the entities.
THEOREM TypeCorrect == Spec => []Typed
<1>1. IInv => Typed
  BY DEF IInv
<1> QED
  BY <1>1, InitIInv, IInvStep, PTL DEF Spec

\* However the appliance flaps and whenever the entities are evaluated, finish
\* is held for one window from when it was first met, and is not announced
\* again before another cycle runs (_apply_sticky).
THEOREM FinishIsHeldOnce == Spec => FinishHeldOneWindow
<1>1. ASSUME IInv, Evaluate
      PROVE  /\ seen' # None /\ now < seen' + Window => shown'.progress = "finish"
             /\ seen' # None /\ now >= seen' + Window => shown'.progress = data.progress
             /\ told /\ ~Runs(cache) /\ shown.progress # "finish"
                  => shown'.progress # "finish"
  <2>1. now' = now /\ seen' \in Nat \cup {None} /\ now \in Nat
    BY <1>1, Evaluation DEF Evaluate, IInv, Typed
  <2>2. shown'.progress = IF InWindow' THEN "finish" ELSE data.progress
    BY <1>1, ShownThen
  <2>3. ASSUME told, ~Runs(cache), shown.progress # "finish"
        PROVE  shown'.progress # "finish"
    <3>1. ~Ended(cache) /\ data.progress # "finish" /\ ~InWindow /\ seen # None
      BY <1>1, <2>3 DEF IInv, Announced
    <3>2. seen' = seen
      BY <1>1, <2>3, <3>1, Evaluation
    <3> QED
      BY <2>1, <2>2, <3>1, <3>2 DEF InWindow
  <2>4. InWindow' <=> seen' # None /\ now < seen' + Window
    BY <2>1 DEF InWindow
  <2>5. \A n \in Nat : n # None /\ now >= n + Window => ~(now < n + Window)
    BY <2>1, FinishOK
  <2> QED
    BY <2>1, <2>2, <2>3, <2>4, <2>5
<1> QED
  BY <1>1, InitIInv, IInvStep, PTL DEF Spec, FinishHeldOneWindow

\* However the remaining time drifts, the finish time shown is within the
\* threshold of the computed one and moves by no less (_apply_hysteresis).
THEOREM FinishTimesSteady == Spec => FinishTimeSteady
<1>1. ASSUME Typed, Evaluate
      PROVE  /\ (shown'.finish = None) = (data.finish = None)
             /\ data.finish # None => \/ Apart(shown'.finish, data.finish) < Threshold
                                      \/ shown'.finish = data.finish
             /\ shown'.finish # None /\ shown.finish # None /\ shown'.finish # shown.finish
                  => Apart(shown'.finish, shown.finish) >= Threshold
  <2>1. shown'.finish = Steady(data.finish)
    BY <1>1 DEF Evaluate
  <2>2. data.finish \in Times /\ shown.finish \in Times
    BY <1>1 DEF Typed
  <2> QED
    BY <2>1, <2>2, FinishOK, NoneIsApart DEF Steady, Apart, Times
<1>2. IInv => Typed
  BY DEF IInv
<1> QED
  BY <1>1, <1>2, InitIInv, IInvStep, PTL DEF Spec, FinishTimeSteady
-----------------------------------------------------------------------------
(* The debug services. *)

\* A write sequence under way
WriteCalled ==
    /\ seq = [at |-> seq.at, i |-> seq.i, hold |-> seq.hold, results |-> seq.results,
              writes |-> seq.writes, left |-> seq.left, verdicts |-> seq.verdicts]
    /\ seq.at \in {"write", "settle", "verify"}
    /\ seq.i \in Nat \ {0} /\ seq.hold \in BOOLEAN
    /\ Len(seq.writes) \in Nat /\ DOMAIN seq.writes = 1..Len(seq.writes)
    /\ seq.left \subseteq {seq.writes[j].href : j \in DOMAIN seq.writes}
    /\ seq.verdicts \in Seq([href : {seq.writes[j].href : j \in DOMAIN seq.writes},
                             held : BOOLEAN \cup {None}])

\* Who has the lock, and what was sent last meanwhile
Alone ==
    /\ seq.at \in {"write", "settle"} /\ seq.i > 1 /\ seq.hold =>
         lock = "seq" /\ last \in {"seq", "refresh", "left"}
    /\ obs.at = "subscribe" => lock = "obs"

Observing ==
    \/ obs = Debug!NoCall
    \/ obs = [at |-> obs.at, query |-> obs.query, session |-> obs.session]

\* The coordinator's relation is on the session it subscribed, while that lives
\* and no job left behind unsubscribes there
Subscribed ==
    /\ session \in Nat /\ push.session \in Nat
    /\ push = [at |-> push.at, session |-> push.session, refreshed |-> push.refreshed]
    /\ push.at \in {"off", "attempting", "cancelled", "on"}
    /\ push.session <= session
    /\ push.at \in {"attempting", "on"} /\ push.session = session =>
         "coordinator" \in relations \/ session \in stray

DebugInv ==
    (seq = Debug!NoCall \/ WriteCalled) /\ Observing /\ Alone /\ Subscribed

\* A sequence keeps its shape, with or without other calls
LEMMA SequenceKept ==
    ASSUME Debug!DebugOK, DebugInv, [Debug!Next]_Debug!vars
    PROVE  (seq = Debug!NoCall \/ WriteCalled)'
<1>1. CASE Debug!WriteCall
  <2>1. PICK plan \in Plans \cup Debug!PanelPlans :
            /\ Debug!Acceptable(plan)
            /\ seq' = [at |-> "write", i |-> 1, hold |-> plan.hold, results |-> <<>>,
                       writes |-> [i \in DOMAIN plan.writes |->
                                     [plan.writes[i] EXCEPT
                                        !.href = Actual[Debug!Resolved(plan.targets)][plan.writes[i].href]]],
                       left |-> {}, verdicts |-> <<>>]
    BY <1>1 DEF Debug!WriteCall
  <2>2. /\ plan.hold \in BOOLEAN
        /\ plan.writes \in Seq({plan.writes[i] : i \in DOMAIN plan.writes})
    <3>1. CASE plan \in Plans
      BY <3>1 DEF Debug!DebugOK
    <3>2. ASSUME NEW w, plan.hold = TRUE, plan.writes = <<w>>
          PROVE  /\ plan.hold \in BOOLEAN
                 /\ plan.writes \in Seq({plan.writes[i] : i \in DOMAIN plan.writes})
      <4>1. DOMAIN <<w>> = 1..1 /\ <<w>>[1] = w
        OBVIOUS
      <4>2. {plan.writes[i] : i \in DOMAIN plan.writes} = {w}
        BY <3>2, <4>1
      <4>3. <<w>> \in Seq({w})
        OBVIOUS
      <4> QED BY <3>2, <4>2, <4>3
    <3>3. CASE plan \in Debug!PanelPlans
      <4>1. PICK h, v : plan = [caller |-> None, targets |-> {Own}, hold |-> TRUE,
                                writes |-> <<[href |-> h, val |-> v, readback |-> TRUE]>>]
        BY <3>3 DEF Debug!PanelPlans
      <4> QED BY <3>2, <4>1
    <3> QED BY <3>1, <3>3
  <2>3. DOMAIN seq'.writes = 1..Len(plan.writes) /\ Len(plan.writes) \in Nat
    BY <2>1, <2>2
  <2>4. Len(seq'.writes) = Len(plan.writes)
    BY <2>3
  <2> QED BY <2>1, <2>2, <2>3, <2>4 DEF WriteCalled
<1>2. CASE Debug!Write
  <2>1. seq # Debug!NoCall
    BY <1>2 DEF Debug!Write, Debug!NoCall
  <2>2. WriteCalled
    BY <2>1 DEF DebugInv
  <2>3. PICK at, results, rest :
            /\ seq' = [at |-> at, i |-> seq.i + 1, hold |-> seq.hold, results |-> results,
                       writes |-> seq.writes, left |-> rest, verdicts |-> seq.verdicts]
            /\ at \in {"settle", "verify"}
            /\ rest \subseteq {seq.writes[j].href : j \in DOMAIN seq.writes}
    <3> DEFINE Lefts == IF seq.i < Len(seq.writes)
                        THEN {} ELSE {seq.writes[j].href : j \in DOMAIN seq.writes}
               At == IF seq.i < Len(seq.writes) THEN "settle" ELSE "verify"
    <3>1. \E r : seq' = [seq EXCEPT !.results = r, !.i = @ + 1, !.at = At, !.left = Lefts]
      BY <1>2 DEF Debug!Write
    <3>2. At \in {"settle", "verify"} /\ Lefts \subseteq {seq.writes[j].href : j \in DOMAIN seq.writes}
      OBVIOUS
    <3> HIDE DEF Lefts, At
    <3>3. PICK r : seq' = [seq EXCEPT !.results = r, !.i = @ + 1, !.at = At, !.left = Lefts]
      BY <3>1
    <3>4. seq' = [at |-> At, i |-> seq.i + 1, hold |-> seq.hold, results |-> r,
                  writes |-> seq.writes, left |-> Lefts, verdicts |-> seq.verdicts]
      BY <2>2, <3>3 DEF WriteCalled
    <3> QED BY <3>2, <3>4
  <2>4. seq' = [at |-> at, i |-> seq.i + 1, hold |-> seq.hold, results |-> results,
                writes |-> seq.writes, left |-> rest, verdicts |-> seq.verdicts]
    BY <2>3
  <2> HIDE DEF WriteCalled
  <2>5. seq'.at = at /\ seq'.i = seq.i + 1 /\ seq'.hold = seq.hold /\ seq'.writes = seq.writes
        /\ seq'.left = rest /\ seq'.verdicts = seq.verdicts /\ seq'.results = results
    BY <2>4
  <2>6. {seq'.writes[j].href : j \in DOMAIN seq'.writes}
          = {seq.writes[j].href : j \in DOMAIN seq.writes}
    BY <2>5
  <2>7. /\ seq' = [at |-> seq'.at, i |-> seq'.i, hold |-> seq'.hold, results |-> seq'.results,
                   writes |-> seq'.writes, left |-> seq'.left, verdicts |-> seq'.verdicts]
        /\ seq'.at \in {"write", "settle", "verify"}
        /\ seq'.i \in Nat \ {0} /\ seq'.hold \in BOOLEAN
        /\ Len(seq'.writes) \in Nat /\ DOMAIN seq'.writes = 1..Len(seq'.writes)
    <3>1. seq' = [at |-> seq'.at, i |-> seq'.i, hold |-> seq'.hold, results |-> seq'.results,
                  writes |-> seq'.writes, left |-> seq'.left, verdicts |-> seq'.verdicts]
      BY <2>4, <2>5, Zenon
    <3> HIDE <2>4
    <3>2. seq.i \in Nat \ {0} /\ seq.hold \in BOOLEAN
          /\ Len(seq.writes) \in Nat /\ DOMAIN seq.writes = 1..Len(seq.writes)
      BY <2>2 DEF WriteCalled
    <3> QED BY <3>1, <3>2, <2>3, <2>5
  <2>8. /\ seq'.left \subseteq {seq'.writes[j].href : j \in DOMAIN seq'.writes}
        /\ seq'.verdicts \in Seq([href : {seq'.writes[j].href : j \in DOMAIN seq'.writes},
                             held : BOOLEAN \cup {None}])
    <3> HIDE <2>4, <2>7
    <3> QED BY <2>2, <2>3, <2>5, <2>6 DEF WriteCalled
  <2> QED BY <2>7, <2>8 DEF WriteCalled
<1>3. CASE Debug!Settled
  <2>1. seq # Debug!NoCall
    BY <1>3 DEF Debug!Settled, Debug!NoCall
  <2> QED BY <1>3, <2>1 DEF DebugInv, WriteCalled, Debug!Settled
<1>4. CASE Debug!Verify
  <2>1. WriteCalled
    BY <1>4 DEF DebugInv, Debug!Verify, Debug!NoCall
  <2>2. PICK href \in seq.left : \E rep :
            seq' = [seq EXCEPT !.left = @ \ {href},
                               !.verdicts = Append(@, [href |-> href,
                                                       held |-> Debug!Held(seq.writes, href, rep)])]
    BY <1>4 DEF Debug!Verify
  <2>9. PICK rep :
            seq' = [seq EXCEPT !.left = @ \ {href},
                               !.verdicts = Append(@, [href |-> href,
                                                       held |-> Debug!Held(seq.writes, href, rep)])]
    BY <2>2
  <2>3. Debug!Held(seq.writes, href, rep) \in BOOLEAN \cup {None}
    BY DEF Debug!Held
  <2> DEFINE Hs == {seq.writes[j].href : j \in DOMAIN seq.writes}
             v == [href |-> href, held |-> Debug!Held(seq.writes, href, rep)]
  <2>4. Append(seq.verdicts, v) \in Seq([href : Hs, held : BOOLEAN \cup {None}])
    <3>1. v \in [href : Hs, held : BOOLEAN \cup {None}]
      BY <2>1, <2>3 DEF WriteCalled
    <3> HIDE DEF v
    <3> QED BY <2>1, <3>1 DEF WriteCalled
  <2> HIDE DEF v
  <2>5. seq' = [seq EXCEPT !.left = @ \ {href}, !.verdicts = Append(@, v)]
    BY <2>9 DEF v
  <2> QED BY <2>1, <2>4, <2>5 DEF WriteCalled
<1>5. CASE Debug!WriteFails \/ Debug!WriteReturns \/ Debug!CancelWriteCall
  BY <1>5 DEF Debug!WriteFails, Debug!WriteReturns, Debug!CancelWriteCall
<1>6. CASE UNCHANGED seq
  BY <1>6 DEF DebugInv, WriteCalled, Debug!NoCall
<1> QED BY <1>1, <1>2, <1>3, <1>4, <1>5, <1>6 DEF Debug!Next, Debug!WriteService,
     Debug!ObserveService, Debug!ObserveCall, Debug!ObserveGet, Debug!ObserveGetFails,
     Debug!ObserveGetBreaks, Debug!ObserveStart, Debug!ObserveSubscribe, Debug!ObserveSubscribeFails,
     Debug!CancelRequest, Debug!ObserveRelease, Debug!ObserveRetire, Debug!CancelRetire,
     Debug!Coordinator, Debug!Attempt, Debug!Commit, Debug!CancelAttempt, Debug!Refresh,
     Debug!Reconnect, Debug!ClosedUnseen, Debug!Command, Debug!CancelTurn, Debug!LeftJob,
     Debug!Revert, Debug!Push,
     Debug!vars

\* The services observe in their own record
LEMMA ObservingKept ==
    ASSUME Observing, [Debug!Next]_Debug!vars
    PROVE  Observing'
<1>1. CASE Debug!ObserveService
  <2>1. CASE Debug!ObserveCall
    BY <2>1 DEF Debug!ObserveCall, Observing
  <2>2. CASE Debug!ObserveGet \/ Debug!ObserveGetFails \/ Debug!ObserveGetBreaks
    BY <2>2 DEF Debug!ObserveGet, Debug!ObserveGetFails, Debug!ObserveGetBreaks, Observing, Debug!NoCall
  <2>3. CASE Debug!ObserveStart
    BY <2>3 DEF Debug!ObserveStart, Observing, Debug!NoCall
  <2>4. CASE Debug!ObserveSubscribe \/ Debug!ObserveSubscribeFails \/ Debug!CancelRequest
    <3>1. obs = [at |-> obs.at, query |-> obs.query, session |-> obs.session]
      BY <2>4 DEF Debug!ObserveSubscribe, Debug!ObserveSubscribeFails, Debug!CancelRequest,
                  Observing, Debug!NoCall
    <3>2. obs' = [obs EXCEPT !.at = "listen", !.session = session] \/ obs' = [obs EXCEPT !.at = "release"]
      BY <2>4 DEF Debug!ObserveSubscribe, Debug!ObserveSubscribeFails, Debug!CancelRequest
    <3>3. CASE obs' = [obs EXCEPT !.at = "release"]
      BY <3>1, <3>3 DEF Observing
    <3>4. CASE obs' = [obs EXCEPT !.at = "listen", !.session = session]
      <4>1. obs' = [at |-> "listen", query |-> obs.query, session |-> session]
        BY <3>1, <3>4
      <4> QED BY <4>1 DEF Observing
    <3> QED BY <3>2, <3>3, <3>4
  <2>5. CASE Debug!ObserveRelease
    BY <2>5 DEF Debug!ObserveRelease, Observing, Debug!NoCall
  <2>6. CASE Debug!ObserveRetire \/ Debug!CancelRetire
    BY <2>6 DEF Debug!ObserveRetire, Debug!CancelRetire, Observing
  <2> QED BY <1>1, <2>1, <2>2, <2>3, <2>4, <2>5, <2>6 DEF Debug!ObserveService
<1>2. CASE UNCHANGED obs
  BY <1>2 DEF Observing
<1> QED BY <1>1, <1>2 DEF Debug!Next, Debug!WriteService, Debug!WriteCall, Debug!Write,
     Debug!WriteFails, Debug!Settled, Debug!Verify, Debug!WriteReturns, Debug!CancelWriteCall,
     Debug!Coordinator, Debug!Attempt, Debug!Commit, Debug!CancelAttempt, Debug!Refresh,
     Debug!Reconnect, Debug!ClosedUnseen, Debug!Command, Debug!CancelTurn, Debug!LeftJob,
     Debug!Revert, Debug!Push, Debug!vars

\* Nobody else sends a request under the lock, and only its holder lets go of it
LEMMA AloneKept ==
    ASSUME Debug!DebugOK, DebugInv, [Debug!Next]_Debug!vars
    PROVE  Alone'
<1> USE DEF Alone
<1>1. CASE Debug!WriteCall
  BY <1>1 DEF Debug!WriteCall, DebugInv
<1>2. CASE Debug!Write
  <2>1. WriteCalled /\ seq.at = "write"
    BY <1>2 DEF Debug!Write, DebugInv, Debug!NoCall
  <2>2. seq'.i = seq.i + 1 /\ seq'.hold = seq.hold
    BY <1>2, <2>1 DEF Debug!Write, WriteCalled
  <2>3. seq'.at \in {"write", "settle"} => seq.i < Len(seq.writes)
    BY <1>2, <2>1 DEF Debug!Write, WriteCalled
  <2>4. /\ last' = "seq" /\ obs' = obs /\ lock \in {"free", "seq"}
        /\ lock' = IF seq.hold /\ seq.i < Len(seq.writes) THEN "seq" ELSE "free"
    BY <1>2 DEF Debug!Write, Debug!MayWrite, Debug!Holds, Debug!Sends
  <2> QED BY <2>2, <2>3, <2>4 DEF DebugInv
<1>3. CASE Debug!WriteFails
  BY <1>3 DEF Debug!WriteFails, Debug!MayWrite, DebugInv, Debug!NoCall
<1>4. CASE Debug!Settled
  <2>1. WriteCalled /\ seq.at = "settle" /\ seq' = [seq EXCEPT !.at = "write"]
    BY <1>4 DEF Debug!Settled, DebugInv, Debug!NoCall
  <2>2. seq'.i = seq.i /\ seq'.hold = seq.hold
    BY <2>1 DEF WriteCalled
  <2> QED BY <1>4, <2>1, <2>2 DEF Debug!Settled, DebugInv, Debug!Wire
<1>5. CASE Debug!Verify
  <2>1. WriteCalled /\ seq.at = "verify"
    BY <1>5 DEF Debug!Verify, DebugInv, Debug!NoCall
  <2>2. seq'.at = "verify"
    BY <1>5, <2>1 DEF Debug!Verify, WriteCalled
  <2> QED BY <1>5, <2>2 DEF Debug!Verify, DebugInv
<1>6. CASE Debug!WriteReturns \/ Debug!CancelWriteCall
  BY <1>6 DEF Debug!WriteReturns, Debug!CancelWriteCall, DebugInv, Debug!NoCall, Debug!Wire
<1>7. CASE \/ Debug!ObserveCall \/ Debug!ObserveGet \/ Debug!ObserveGetFails
           \/ Debug!ObserveGetBreaks
  BY <1>7 DEF Debug!ObserveCall, Debug!ObserveGet, Debug!ObserveGetFails, Debug!ObserveGetBreaks,
     DebugInv, Observing, Debug!NoCall, Debug!Wire
<1>8. CASE Debug!ObserveStart
  BY <1>8 DEF Debug!ObserveStart, DebugInv, Observing, Debug!NoCall, Debug!Wire
<1>9. CASE Debug!ObserveSubscribe \/ Debug!ObserveSubscribeFails \/ Debug!CancelRequest
  BY <1>9 DEF Debug!ObserveSubscribe, Debug!ObserveSubscribeFails, Debug!CancelRequest,
     DebugInv, Observing, Debug!NoCall, Debug!Wire
<1>10. CASE Debug!ObserveRelease \/ Debug!ObserveRetire \/ Debug!CancelRetire
  BY <1>10 DEF Debug!ObserveRelease, Debug!ObserveRetire, Debug!CancelRetire, DebugInv,
     Observing, Debug!NoCall, Debug!Wire
<1>11. CASE Debug!Coordinator
  BY <1>11 DEF Debug!Coordinator, Debug!Attempt, Debug!Commit, Debug!CancelAttempt, Debug!Refresh,
     Debug!Reconnect, Debug!ClosedUnseen, Debug!Command, Debug!CancelTurn, DebugInv, Debug!Wire
<1>12. CASE Debug!LeftJob \/ Debug!Revert \/ Debug!Push
  BY <1>12 DEF Debug!LeftJob, Debug!Revert, Debug!Push, DebugInv, Debug!Wire
<1>13. CASE UNCHANGED Debug!vars
  BY <1>13 DEF DebugInv, Debug!vars, Debug!Wire
<1> QED BY <1>1, <1>2, <1>3, <1>4, <1>5, <1>6, <1>7, <1>8, <1>9, <1>10, <1>11, <1>12, <1>13
     DEF Debug!Next, Debug!WriteService, Debug!ObserveService

\* Relations go with their session, or on a path push mode does not hold
LEMMA SubscribedKept ==
    ASSUME DebugInv, [Debug!Next]_Debug!vars
    PROVE  Subscribed'
<1> USE DEF Subscribed
<1>1. CASE Debug!Attempt
  <2>1. /\ push' = [at |-> "attempting", session |-> session, refreshed |-> push.refreshed]
        /\ relations' = relations \union {"coordinator"} /\ UNCHANGED session
    BY <1>1 DEF Debug!Attempt, DebugInv
  <2> QED BY <2>1 DEF DebugInv
<1>8. CASE Debug!Commit
  <2>1. UNCHANGED <<session, relations, stray>> /\ push.at = "attempting"
    BY <1>8 DEF Debug!Commit, Debug!Wire, Debug!Jobs
  <2>2. \/ push' = [at |-> "off", session |-> push.session, refreshed |-> push.refreshed]
        \/ /\ push.session = session
           /\ push' = [at |-> "on", session |-> push.session, refreshed |-> session]
    BY <1>8 DEF Debug!Commit, DebugInv
  <2> QED BY <2>1, <2>2 DEF DebugInv
<1>2. CASE Debug!CancelAttempt \/ Debug!Refresh
  BY <1>2 DEF Debug!CancelAttempt, Debug!Refresh, Debug!Leaves, DebugInv, Debug!Wire, Debug!Jobs
<1>3. CASE Debug!Reconnect \/ Debug!ClosedUnseen \/ Debug!ObserveGetBreaks
  BY <1>3 DEF Debug!Reconnect, Debug!ClosedUnseen, Debug!ObserveGetBreaks, Debug!SessionGoes,
     DebugInv, Debug!Jobs
<1>4. CASE Debug!ObserveRetire
  BY <1>4 DEF Debug!ObserveRetire, Debug!Retires, Debug!CoordinatorObserves, DebugInv, Debug!Wire,
     Debug!Jobs
<1>5. CASE Debug!ObserveSubscribe
  BY <1>5 DEF Debug!ObserveSubscribe, DebugInv, Debug!Jobs
<1>6. CASE Debug!LeftJob
  <2>1. UNCHANGED push /\ stray \subseteq stray'
    BY <1>6 DEF Debug!LeftJob
  <2>2. \/ session' = session + 1
        \/ session' = session /\ relations \subseteq relations'
        \/ session' = session /\ relations' \in {{}, relations} /\ session \in stray'
        \/ session' = session /\ relations' = relations
    BY <1>6 DEF Debug!LeftJob, Debug!LeftOn
  <2> QED BY <2>1, <2>2 DEF DebugInv
<1>7. CASE UNCHANGED <<session, push, relations, stray>>
  BY <1>7 DEF DebugInv
<1> QED BY <1>1, <1>2, <1>3, <1>4, <1>5, <1>6, <1>7, <1>8 DEF Debug!Next, Debug!WriteService,
     Debug!ObserveService, Debug!Coordinator, Debug!WriteCall, Debug!Write, Debug!WriteFails,
     Debug!Settled, Debug!Verify, Debug!WriteReturns, Debug!CancelWriteCall, Debug!ObserveCall,
     Debug!ObserveGet, Debug!ObserveGetFails, Debug!ObserveStart, Debug!ObserveSubscribeFails,
     Debug!CancelRequest, Debug!ObserveRelease, Debug!CancelRetire, Debug!Command,
     Debug!CancelTurn, Debug!Revert, Debug!Push, Debug!Leaves, Debug!vars, Debug!Wire, Debug!Jobs

LEMMA DebugInvHolds ==
    ASSUME Debug!DebugOK
    PROVE  Debug!Spec => []DebugInv
<1>1. Debug!Init => DebugInv
  BY DEF Debug!Init, DebugInv, Observing, Alone, Subscribed, Debug!NoCall
<1>2. DebugInv /\ [Debug!Next]_Debug!vars => DebugInv'
  BY SequenceKept, ObservingKept, AloneKept, SubscribedKept DEF DebugInv
<1> QED BY <1>1, <1>2, PTL DEF Debug!Spec

LEMMA DebugRuns == PartsSpec => Debug!Spec
<1>1. PartsInit => Debug!Init
  BY DEF PartsInit
<1>2. [PartsNext]_<<part, vars, cardVars, drumVars, debugVars>> => [Debug!Next]_Debug!vars
  BY DEF PartsNext, debugVars, Debug!vars, Debug!Wire, Debug!Jobs
<1> QED BY <1>1, <1>2, PTL DEF PartsSpec, Debug!Spec

\* The debug services and the coordinator leave each other alone
\* (coordinator.py, async_raw_write_sequence, async_observe_resource): between
\* the writes of a sequence that holds the lock nothing is sent but by a thread
\* that takes no turn - the refresh, or one whose caller was cancelled - and the
\* relation push mode stands on lives as long as the session it was made on,
\* but for an unsubscribe cancelled in its thread.
THEOREM ServicesAside == PartsSpec => []DebugAside
<1>1. DebugInv => Debug!DebugAside
  BY DEF DebugInv, Alone, Subscribed, Debug!DebugAside, Debug!SequenceAlone, Debug!CoordinatorKept
<1>2. Debug!DebugAside => DebugAside
  BY DEF DebugAside
<1> QED BY <1>1, <1>2, PartsOK, DebugRuns, DebugInvHolds, PTL

\* A set of positions has a last one
LEMMA Greatest ==
    ASSUME NEW n \in Nat, NEW S \in SUBSET (1..n), S # {}
    PROVE  \E x \in S : \A y \in S : y <= x
<1> DEFINE T == {x..n : x \in S}
<1>1. IsWellFoundedOn(StrictSubsetOrdering(1..n), SUBSET (1..n))
  <2>1. IsFiniteSet(1..n)
    BY FS_Interval
  <2>2. FiniteSubsetsOf(1..n) = SUBSET (1..n)
    BY <2>1, FS_FiniteSubsetsOfFinite
  <2> QED BY <2>2, FS_StrictSubsetOrderingWellFounded
<1>2. T # {} /\ T \subseteq SUBSET (1..n)
  <2>1. \A x \in S : x..n \in SUBSET (1..n)
    OBVIOUS
  <2> QED BY <2>1
<1> HIDE DEF T
<1>3. PICK t \in T : \A u \in T : <<u, t>> \notin StrictSubsetOrdering(1..n)
  BY <1>1, <1>2, WFMin
<1>4. PICK x \in S : t = x..n
  BY DEF T
<1>5. ASSUME NEW y \in S, y > x
      PROVE  FALSE
  <2>1. y..n \in T /\ y..n \subseteq x..n /\ y..n # x..n
    BY <1>5 DEF T
  <2>2. <<y..n, x..n>> \in StrictSubsetOrdering(1..n)
    BY <2>1 DEF StrictSubsetOrdering
  <2> QED BY <1>3, <1>4, <2>1, <2>2
<1> QED BY <1>5

\* The value compared is the one written to the href last
LEMMA LastIsWritten ==
    ASSUME NEW writes, Len(writes) \in Nat, DOMAIN writes = 1..Len(writes),
           NEW href \in {writes[j].href : j \in DOMAIN writes}
    PROVE  \E i \in DOMAIN writes :
              /\ writes[i].href = href /\ writes[i].val = Debug!LastWritten(writes, href)
              /\ \A j \in DOMAIN writes : writes[j].href = href => j <= i
<1> DEFINE S == {j \in DOMAIN writes : writes[j].href = href}
<1>1. S # {} /\ S \in SUBSET (1..Len(writes))
  OBVIOUS
<1>2. \E i \in S : \A j \in S : j <= i
  BY <1>1, Greatest
<1>3. \E i \in DOMAIN writes : /\ writes[i].href = href
                               /\ \A j \in DOMAIN writes : writes[j].href = href => j <= i
  BY <1>2
<1> QED BY <1>3 DEF Debug!LastWritten

\* What a verification says of a write is what the appliance has
\* (async_raw_write_sequence, verify_after): "held" of the value written last
\* there if it is there still, "not held" if it is not, whatever was written
\* before, failed or put back.
THEOREM VerdictsAreTrue == PartsSpec => WriteVerdictsTrue
<1> DEFINE Verdict ==
        seq.at = "verify" /\ seq'.at = "verify" /\ Len(seq'.verdicts) > Len(seq.verdicts) =>
        \E v \in {seq'.verdicts[Len(seq'.verdicts)]} :
            v.held # None =>
                v.held = \E i \in DOMAIN seq.writes :
                           /\ seq.writes[i].href = v.href /\ seq.writes[i].val = val[v.href]
                           /\ \A j \in DOMAIN seq.writes : j > i => seq.writes[j].href # v.href
<1>1. DebugInv /\ [Debug!Next]_Debug!vars => [Verdict]_Debug!vars
  <2> SUFFICES ASSUME DebugInv, Debug!Next, seq.at = "verify", seq'.at = "verify",
                      Len(seq'.verdicts) > Len(seq.verdicts)
               PROVE  \E v \in {seq'.verdicts[Len(seq'.verdicts)]} :
            v.held # None =>
                v.held = \E i \in DOMAIN seq.writes :
                           /\ seq.writes[i].href = v.href /\ seq.writes[i].val = val[v.href]
                           /\ \A j \in DOMAIN seq.writes : j > i => seq.writes[j].href # v.href
    OBVIOUS
  <2>1. WriteCalled
    BY DEF DebugInv, Debug!NoCall
  <2>2. Debug!Verify
    <3>1. Len(seq.verdicts) \in Nat
      BY <2>1 DEF WriteCalled
    <3>2. seq' # seq
      BY <3>1
    <3>3. ~(seq' = Debug!NoCall)
      BY DEF Debug!NoCall
    <3>4. Debug!WriteService
      BY <3>2 DEF Debug!Next,
         Debug!ObserveService, Debug!ObserveCall, Debug!ObserveGet, Debug!ObserveGetFails,
         Debug!ObserveGetBreaks, Debug!ObserveStart, Debug!ObserveSubscribe,
         Debug!ObserveSubscribeFails, Debug!CancelRequest, Debug!ObserveRelease,
         Debug!ObserveRetire, Debug!CancelRetire, Debug!Coordinator, Debug!Attempt, Debug!Commit,
         Debug!CancelAttempt, Debug!Refresh, Debug!Reconnect, Debug!ClosedUnseen, Debug!Command,
         Debug!CancelTurn, Debug!LeftJob, Debug!Revert, Debug!Push
    <3> QED BY <3>3, <3>4 DEF Debug!WriteService, Debug!WriteCall, Debug!Write, Debug!WriteFails,
         Debug!Settled, Debug!WriteReturns, Debug!CancelWriteCall, Debug!NoCall
  <2>3. PICK href \in seq.left : \E rep \in {val[href], None} :
            seq' = [seq EXCEPT !.left = @ \ {href},
                               !.verdicts = Append(@, [href |-> href,
                                                       held |-> Debug!Held(seq.writes, href, rep)])]
    BY <2>2 DEF Debug!Verify
  <2>8. PICK rep \in {val[href], None} :
            seq' = [seq EXCEPT !.left = @ \ {href},
                               !.verdicts = Append(@, [href |-> href,
                                                       held |-> Debug!Held(seq.writes, href, rep)])]
    BY <2>3
  <2> DEFINE Hs == {seq.writes[j].href : j \in DOMAIN seq.writes}
             v == [href |-> href, held |-> Debug!Held(seq.writes, href, rep)]
  <2>4. seq'.verdicts = Append(seq.verdicts, v)
    BY <2>1, <2>8 DEF WriteCalled
  <2>5. v \in [href : Hs, held : BOOLEAN \cup {None}]
    BY <2>1 DEF WriteCalled, Debug!Held
  <2>6. seq'.verdicts[Len(seq'.verdicts)] = v
    <3> HIDE DEF v
    <3> QED BY <2>1, <2>4, <2>5 DEF WriteCalled
  <2>7. ASSUME v.held # None
        PROVE  v.held = \E i \in DOMAIN seq.writes :
                           /\ seq.writes[i].href = href /\ seq.writes[i].val = val[href]
                           /\ \A j \in DOMAIN seq.writes : j > i => seq.writes[j].href # href
    <3>1. rep # None /\ rep = val[href]
      BY <2>7 DEF Debug!Held
    <3>2. v.held = (Debug!LastWritten(seq.writes, href) = val[href])
      BY <3>1 DEF Debug!Held
    <3>3. PICK i \in DOMAIN seq.writes :
              /\ seq.writes[i].href = href
              /\ seq.writes[i].val = Debug!LastWritten(seq.writes, href)
              /\ \A j \in DOMAIN seq.writes : seq.writes[j].href = href => j <= i
      BY <2>1, LastIsWritten DEF WriteCalled
    <3>4. (\E k \in DOMAIN seq.writes :
              /\ seq.writes[k].href = href /\ seq.writes[k].val = val[href]
              /\ \A j \in DOMAIN seq.writes : j > k => seq.writes[j].href # href)
            <=> Debug!LastWritten(seq.writes, href) = val[href]
      <4>1. DOMAIN seq.writes \in SUBSET Nat
        BY <2>1 DEF WriteCalled
      <4>2. ASSUME NEW k \in DOMAIN seq.writes, seq.writes[k].href = href,
                   \A j \in DOMAIN seq.writes : j > k => seq.writes[j].href # href
            PROVE  k = i
        <5>1. k <= i /\ ~(i > k)
          BY <3>3, <4>2
        <5> QED BY <4>1, <5>1
      <4>3. \A j \in DOMAIN seq.writes : j > i => seq.writes[j].href # href
        BY <3>3, <4>1
      <4> QED BY <3>3, <4>2, <4>3
    <3> QED BY <3>2, <3>4
  <2>9. v.href = href
    OBVIOUS
  <2> HIDE DEF v
  <2> QED BY <2>6, <2>7, <2>9
<1>2. Debug!Spec => [][Verdict]_Debug!vars
  BY <1>1, PartsOK, DebugInvHolds, PTL DEF Debug!Spec
<1> QED BY <1>2, DebugRuns DEF Debug!WriteVerdictsTrue, WriteVerdictsTrue


-----------------------------------------------------------------------------
(* The card of an air conditioner. *)

\* What each field of a reading may be
Kind ==
    [on |-> BOOLEAN, mode |-> Card!Elems(Card!Modes),
     fan |-> IF card.legacy THEN DOMAIN Card!DeviceToFan ELSE {f.code : f \in Card!Elems(card.fans)},
     direction |-> IF ~card.legacy /\ card.swings = "direction"
                   THEN card.directions ELSE DOMAIN Card!DeviceToSwing,
     vertical |-> BOOLEAN, horizontal |-> BOOLEAN,
     preset |-> card.presets \cup Card!LegacyCodes, sleep |-> Nat, night |-> BOOLEAN,
     volume |-> {"33", "100", "Mute"}, ocf |-> Nat \cup {None}, vs |-> Nat \cup {None}]

IsReading(s) ==
    s = [f \in DOMAIN Kind |-> s[f]] /\ \A f \in DOMAIN Kind : s[f] \in Kind[f]

Listed == card.advertised \cup learned

Readings ==
    /\ card \in AirConditioners
    /\ IsReading(room) /\ IsReading(cardSeen)
    /\ ~card.legacy => Listed \subseteq Kind.preset /\ cardSeen.preset \in Listed
    /\ Card!Existing(room) = room

\* A call asks for what the card offers, and is at a step of its own
Asked(k) ==
    /\ k.at \in {"hvac", "mode"} => k.what \in {"hvac", "temp"} /\ k.hvac \in Card!HvacModes
    /\ k.at = "mode" => k.hvac # "off" /\ k.code \in Card!Elems(Card!Modes)
    /\ k.at = "temp" => k.what = "temp"
    /\ k.what = "temp" => k.val \in Temps
    /\ k.what # "temp" /\ k.what # "hvac" => k.hvac = None
    /\ k.at = "choose" => k.what = "preset"
       /\ (k.val = "ai_comfort" => Card!AIComfort \in Card!Elems(Card!Modes))
    /\ k.at \in {"pause", "preset"} =>
         k.what = "preset" /\ k.code \in IF card.legacy THEN Kind.preset ELSE Listed
    /\ k.at = "send" =>
         /\ k.what \in {"fan", "swing", "sleep", "power", "beep", "light"}
         /\ k.what = "fan" => k.val \in Card!FanModes
         /\ k.what = "swing" => k.val \in Card!SwingModes
         /\ k.what = "sleep" => card.legacy /\ k.val \in Hours
         /\ k.what \in {"power", "beep", "light"} => k.val \in BOOLEAN

CallFields == {"what", "hvac", "val", "at", "code", "clean", "running", "ai"}

IsCall(k) ==
    /\ DOMAIN k = CallFields /\ k.clean \in BOOLEAN
    /\ k.at \in {"hvac", "mode", "temp", "choose", "pause", "preset", "send"}
    /\ Asked(k)

Calls ==
    /\ calls = [c \in Slots |-> calls[c]]
    /\ \A c \in Slots : calls[c].at # "idle" => IsCall(calls[c])

\* Before it has sent what it was asked for, a call with nothing in between
\* knows the appliance as it is
Knows(k) ==
    /\ k.at # "temp" => cardSeen = room
    /\ k.at = "mode" => room.on /\ k.code = Card!DeviceCode(room, k.hvac)
    /\ k.at = "temp" /\ k.hvac # None => Card!Hvac(room) = k.hvac
    /\ k.what = "preset" =>
         /\ k.running = (room.sleep # 0)
         /\ ~k.ai => room.mode # Card!AIComfort
    /\ k.at = "choose" => k.val \in Card!PresetModes(room)
    /\ k.at \in {"pause", "preset"} =>
         /\ k.val = Card!ToHa(k.code)
         /\ card.legacy /\ k.code \in {"Nano", "NanoSleep"} => room.mode # "Auto"

Undisturbed == \A c \in Slots : calls[c].at # "idle" /\ calls[c].clean => Knows(calls[c])

CardInv == Readings /\ Calls /\ Undisturbed /\ Card!ChosenIsShown


\* A set of positions has a first one
LEMMA Least ==
    ASSUME NEW n \in Nat, NEW S \in SUBSET (1..n), S # {}
    PROVE  \E x \in S : \A y \in S : x <= y
<1> DEFINE T == {1..x : x \in S}
<1>1. IsWellFoundedOn(StrictSubsetOrdering(1..n), SUBSET (1..n))
  <2>1. IsFiniteSet(1..n)
    BY FS_Interval
  <2>2. FiniteSubsetsOf(1..n) = SUBSET (1..n)
    BY <2>1, FS_FiniteSubsetsOfFinite
  <2> QED BY <2>2, FS_StrictSubsetOrderingWellFounded
<1>2. T # {} /\ T \subseteq SUBSET (1..n)
  <2>1. \A x \in S : 1..x \in SUBSET (1..n)
    OBVIOUS
  <2> QED BY <2>1
<1> HIDE DEF T
<1>3. PICK t \in T : \A u \in T : <<u, t>> \notin StrictSubsetOrdering(1..n)
  BY <1>1, <1>2, WFMin
<1>4. PICK x \in S : t = 1..x
  BY DEF T
<1>5. ASSUME NEW y \in S, y < x
      PROVE  FALSE
  <2>1. 1..y \in T /\ 1..y \subseteq 1..x /\ 1..y # 1..x
    BY <1>5 DEF T
  <2>2. <<1..y, 1..x>> \in StrictSubsetOrdering(1..n)
    BY <2>1 DEF StrictSubsetOrdering
  <2> QED BY <1>3, <1>4, <2>1, <2>2
<1> QED BY <1>5

\* The first entry at some positions is at one of them
LEMMA FirstIsThere ==
    ASSUME NEW A, NEW s \in Seq(A), NEW P \in SUBSET DOMAIN s, P # {}
    PROVE  \E i \in P : Card!FirstIn(s, P) = s[i]
<1>1. Len(s) \in Nat /\ P \in SUBSET (1..Len(s))
  OBVIOUS
<1>2. \E x \in P : \A y \in P : x <= y
  BY <1>1, Least
<1> QED BY <1>2 DEF Card!FirstIn

LEMMA HvacTable ==
    DOMAIN Card!DeviceToHvac =
        {"Cool", "IndoorDehumidification", "Dry", "Purification", "Ventilation",
         "SmartVentilation", "AutoVentilation", "FreshAirIntake", "IndoorPurification",
         "Fan", "Wind", "Auto", "Heat"}
  BY DEF Card!DeviceToHvac

LEMMA HvacCodes ==
    /\ \A m : Card!HvacOf(m) # "off"
    /\ \A m : Card!HvacOf(m) = "cool" => m = "Cool"
    /\ Card!HvacOf("Cool") = "cool" /\ Card!HvacOf("Auto") = "auto"
       /\ Card!HvacOf(Card!AIComfort) = "auto"
<1>1. /\ Card!DeviceToHvac["Cool"] = "cool" /\ Card!DeviceToHvac["Auto"] = "auto"
      /\ \A c \in DOMAIN Card!DeviceToHvac \ {"Cool"} :
           Card!DeviceToHvac[c] \in {"dry", "fan_only", "auto", "heat"}
  BY HvacTable DEF Card!DeviceToHvac
<1>2. "Cool" \in DOMAIN Card!DeviceToHvac /\ "Auto" \in DOMAIN Card!DeviceToHvac
      /\ Card!AIComfort \notin DOMAIN Card!DeviceToHvac
  BY HvacTable DEF Card!AIComfort
<1> QED BY <1>1, <1>2 DEF Card!HvacOf

LEMMA ModesListed ==
    ASSUME Card!BoardOK(card)
    PROVE  /\ Card!Modes \in Seq(DOMAIN Card!DeviceToHvac \cup {Card!AIComfort})
           /\ Card!Elems(card.modes) \subseteq Card!Elems(Card!Modes)
           /\ card.legacy => "Cool" \in Card!Elems(Card!Modes)
<1> DEFINE M == DOMAIN Card!DeviceToHvac \cup {Card!AIComfort}
<1>2. card.modes \in Seq(M)
  BY DEF Card!BoardOK
<1>1. "Heat" \in M
  BY HvacTable
<1> HIDE DEF M
<1>3. Card!Modes \in Seq(M)
  BY <1>1, <1>2 DEF Card!Modes
<1>4. Card!Elems(card.modes) \subseteq Card!Elems(Card!Modes)
  <2>1. ASSUME NEW i \in DOMAIN card.modes
        PROVE  i \in DOMAIN Card!Modes /\ Card!Modes[i] = card.modes[i]
    BY <1>2 DEF Card!Modes
  <2> QED BY <2>1 DEF Card!Elems
<1> QED BY <1>3, <1>4 DEF Card!BoardOK, M

\* The device mode written for a mode of the card is one the board lists, and
\* it is shown as that mode
LEMMA CodeOfMode ==
    ASSUME Card!BoardOK(card), NEW s, s.mode \in Card!Elems(Card!Modes),
           NEW h \in Card!HvacModes \ {"off"}
    PROVE  Card!DeviceCode(s, h) \in Card!Elems(Card!Modes)
           /\ Card!HvacOf(Card!DeviceCode(s, h)) = h
<1> DEFINE P == {i \in DOMAIN Card!Modes : Card!Modes[i] # Card!AIComfort
    /\ Card!HvacOf(Card!Modes[i]) = h}
<1>1. CASE s.mode # Card!AIComfort /\ Card!HvacOf(s.mode) = h
  BY <1>1 DEF Card!DeviceCode
<1>2. CASE /\ ~(s.mode # Card!AIComfort /\ Card!HvacOf(s.mode) = h)
           /\ \E m \in Card!Elems(Card!Modes) \ {Card!AIComfort} : Card!HvacOf(m) = h
  <2>1. P # {}
    BY <1>2 DEF Card!Elems
  <2>2. PICK i \in P : Card!FirstIn(Card!Modes, P) = Card!Modes[i]
    BY <2>1, ModesListed, FirstIsThere
  <2> QED BY <1>2, <2>2 DEF Card!DeviceCode, Card!Elems
<1>3. CASE /\ ~(s.mode # Card!AIComfort /\ Card!HvacOf(s.mode) = h)
           /\ ~\E m \in Card!Elems(Card!Modes) \ {Card!AIComfort} : Card!HvacOf(m) = h
  <2>1. h = "auto" /\ Card!AIComfort \in Card!Elems(Card!Modes)
    BY <1>3 DEF Card!HvacModes
  <2> QED BY <1>3, <2>1, HvacCodes DEF Card!DeviceCode
<1> QED BY <1>1, <1>2, <1>3


-----------------------------------------------------------------------------
(* Readings, and what a write makes of one. *)

LEMMA KindFields ==
    /\ DOMAIN Kind = {"on", "mode", "fan", "direction", "vertical", "horizontal", "preset",
                      "sleep", "night", "volume", "ocf", "vs"}
    /\ Kind.on = BOOLEAN /\ Kind.mode = Card!Elems(Card!Modes)
    /\ Kind.fan = IF card.legacy THEN DOMAIN Card!DeviceToFan ELSE {f.code :
        f \in Card!Elems(card.fans)}
    /\ Kind.direction = IF ~card.legacy /\ card.swings = "direction"
                        THEN card.directions ELSE DOMAIN Card!DeviceToSwing
    /\ Kind.vertical = BOOLEAN /\ Kind.horizontal = BOOLEAN
    /\ Kind.preset = card.presets \cup Card!LegacyCodes /\ Kind.sleep = Nat
    /\ Kind.night = BOOLEAN /\ Kind.volume = {"33", "100", "Mute"}
    /\ Kind.ocf = Nat \cup {None} /\ Kind.vs = Nat \cup {None}
  BY DEF Kind

\* No code is None, so that a field that is written is one that changes
LEMMA CodesKnown ==
    ASSUME Card!ClimateOK, Card!BoardOK(card), NEW f \in DOMAIN Kind \ {"ocf", "vs"}
    PROVE  None \notin Kind[f]
<1>1. None \notin Card!Codes /\ None \notin BOOLEAN /\ None \notin Nat
  BY DEF Card!ClimateOK
<1>2. Card!Elems(Card!Modes) \subseteq DOMAIN Card!DeviceToHvac \cup {Card!AIComfort}
  BY ModesListed DEF Card!Elems
<1>3. f = "mode" => None \notin Kind[f]
  BY <1>1, <1>2, KindFields DEF Card!Codes
<1>4. f = "fan" => None \notin Kind[f]
  BY <1>1, KindFields DEF Card!Codes, Card!BoardOK
<1>5. f = "direction" => None \notin Kind[f]
  BY <1>1, KindFields DEF Card!Codes, Card!BoardOK
<1>6. f = "preset" => None \notin Kind[f]
  BY <1>1, KindFields DEF Card!Codes, Card!BoardOK
<1>7. f = "volume" => None \notin Kind[f]
  BY <1>1, KindFields DEF Card!Codes
<1> QED BY <1>1, <1>3, <1>4, <1>5, <1>6, <1>7, KindFields

\* Fields a write may have: each of the kind it is of, or left as it is
Fits(fields) ==
    \A f \in DOMAIN fields : f \in DOMAIN Kind /\ fields[f] \in Kind[f] \cup {None}

LEMMA ReadingFields ==
    ASSUME NEW s, IsReading(s)
    PROVE  /\ DOMAIN s = DOMAIN Kind
           /\ \A f \in DOMAIN Kind : s[f] \in Kind[f]
  BY DEF IsReading

LEMMA WrittenReads ==
    ASSUME NEW s, IsReading(s), NEW fields, Fits(fields)
    PROVE  /\ IsReading(Card!Written(s, fields))
           /\ \A f \in DOMAIN Kind :
                Card!Written(s, fields)[f] = IF f \in DOMAIN fields /\ fields[f] # None
                                        THEN fields[f] ELSE s[f]
<1>1. DOMAIN s = DOMAIN Kind
  BY ReadingFields
<1>2. Card!Written(s, fields) = [f \in DOMAIN Kind |->
         IF f \in DOMAIN fields /\ fields[f] # None THEN fields[f] ELSE s[f]]
  BY <1>1 DEF Card!Written
<1>3. ASSUME NEW f \in DOMAIN Kind
      PROVE  Card!Written(s, fields)[f] \in Kind[f]
  BY <1>2, ReadingFields DEF Fits
<1> QED BY <1>2, <1>3 DEF IsReading

LEMMA ChangedReads ==
    ASSUME NEW s, IsReading(s), NEW f \in DOMAIN Kind, NEW v \in Kind[f]
    PROVE  IsReading([s EXCEPT ![f] = v])
<1>1. DOMAIN s = DOMAIN Kind
  BY ReadingFields
<1>2. [s EXCEPT ![f] = v] = [g \in DOMAIN Kind |-> IF g = f THEN v ELSE s[g]]
  BY <1>1
<1>3. \A g \in DOMAIN Kind : [s EXCEPT ![f] = v][g] \in Kind[g]
  BY <1>2, ReadingFields
<1> QED BY <1>2, <1>3 DEF IsReading

InPreset(s, p, n) == [s EXCEPT !.preset = p, !.sleep = n]

LEMMA PresetChanged ==
    ASSUME NEW s, IsReading(s), NEW p \in Kind.preset, NEW n \in Nat
    PROVE  /\ IsReading(InPreset(s, p, n))
           /\ InPreset(s, p, n).preset = p /\ InPreset(s, p, n).sleep = n
           /\ \A f \in DOMAIN Kind \ {"preset", "sleep"} : InPreset(s, p, n)[f] = s[f]
<1> DEFINE t == [s EXCEPT !.preset = p]
<1>1. n \in Kind.sleep /\ "preset" \in DOMAIN Kind /\ "sleep" \in DOMAIN Kind
  BY KindFields
<1>2. IsReading(t)
  BY <1>1, ChangedReads
<1>3. IsReading([t EXCEPT !.sleep = n])
  <2> HIDE DEF t
  <2> QED BY <1>1, <1>2, ChangedReads
<1>4. IsReading(InPreset(s, p, n))
  BY <1>3 DEF InPreset
<1>5. DOMAIN s = DOMAIN Kind
  BY ReadingFields
<1> QED BY <1>1, <1>4, <1>5 DEF InPreset

\* What exists of a reading is one, and leaves all but the preset and its timer
LEMMA ExistingReads ==
    ASSUME NEW s, IsReading(s)
    PROVE  /\ IsReading(Card!Existing(s)) /\ Card!Existing(Card!Existing(s)) = Card!Existing(s)
           /\ \A f \in DOMAIN Kind \ {"preset", "sleep"} : Card!Existing(s)[f] = s[f]
           /\ ~(card.legacy /\ s.mode = "Auto" /\ s.preset \in {"Nano", "NanoSleep"})
                => Card!Existing(s) = s
<1>1. "Off" \in Kind.preset
  BY KindFields DEF Card!LegacyCodes
<1> DEFINE u == InPreset(s, "Off", 0)
<1>2. /\ IsReading(u) /\ u.preset = "Off"
      /\ \A f \in DOMAIN Kind \ {"preset", "sleep"} : u[f] = s[f]
  BY <1>1, PresetChanged
<1>3. Card!Existing(s) = IF card.legacy /\ s.mode = "Auto" /\ s.preset \in {"Nano", "NanoSleep"}
                    THEN u ELSE s
  BY DEF Card!Existing, InPreset
<1> HIDE DEF u
<1>4. Card!Existing(u) = u
  BY <1>2 DEF Card!Existing
<1> QED BY <1>2, <1>3, <1>4


\* A write of a preset on a legacy board is one of the options token, timer along
TokenWrite(fields) ==
    card.legacy /\ "preset" \in DOMAIN fields =>
        DOMAIN fields = {"preset", "sleep"} /\ fields.preset # None

WrongChannel(fields) ==
    \/ "ocf" \in DOMAIN fields /\ ~card.pair
    \/ "vs" \in DOMAIN fields /\ card.pair

\* Other writes are taken as they are
LEMMA TakenPlainly ==
    ASSUME IsReading(room), NEW fields, Fits(fields),
           ~(card.legacy /\ "preset" \in DOMAIN fields), ~WrongChannel(fields),
           NEW u \in Card!Taken(room, fields)
    PROVE  /\ u = Card!Existing(Card!Written(room, fields))
           /\ \A f \in DOMAIN Kind \ {"preset", "sleep"} : u[f] = Card!Written(room, fields)[f]
<1>1. u = Card!Existing(Card!Written(room, fields))
  BY DEF Card!Taken, WrongChannel
<1> QED BY <1>1, WrittenReads, ExistingReads

\* A token is taken unless it asks for WindFree in Auto, and with the timer it
\* names or one of the board's own
LEMMA TokenTaken ==
    ASSUME IsReading(room), NEW fields, Fits(fields), TokenWrite(fields),
           card.legacy, "preset" \in DOMAIN fields,
           NEW u \in Card!Taken(room, fields)
    PROVE  IF room.mode = "Auto" /\ fields.preset \in {"Nano", "NanoSleep"} THEN u = room
           ELSE /\ IsReading(u) /\ u.mode = room.mode
                /\ u.preset = IF fields.sleep = None /\ fields.preset = "Nano" /\ room.sleep > 0
                              THEN "NanoSleep" ELSE fields.preset
                /\ fields.sleep # None => u.sleep = fields.sleep
<1>1. DOMAIN fields = {"preset", "sleep"} /\ fields.preset # None
      /\ fields.preset \in Kind.preset
  BY DEF TokenWrite, Fits
<1>2. "mode" \in DOMAIN Kind \ {"preset", "sleep"} /\ "preset" \in DOMAIN Kind
      /\ "sleep" \in DOMAIN Kind /\ "NanoSleep" \in Kind.preset
  BY KindFields DEF Card!LegacyCodes
<1>3. CASE room.mode = "Auto" /\ fields.preset \in {"Nano", "NanoSleep"}
  BY <1>1, <1>3 DEF Card!Taken
<1>4. CASE /\ ~(room.mode = "Auto" /\ fields.preset \in {"Nano", "NanoSleep"})
           /\ fields.sleep # None
  <2>1. u = Card!Written(room, fields)
    BY <1>1, <1>4 DEF Card!Taken
  <2> QED BY <1>1, <1>2, <1>4, <2>1, WrittenReads
<1>5. CASE /\ ~(room.mode = "Auto" /\ fields.preset \in {"Nano", "NanoSleep"})
           /\ fields.sleep = None
  <2> DEFINE p == IF fields.preset = "Nano" /\ room.sleep > 0 THEN "NanoSleep" ELSE fields.preset
  <2>1. p \in Kind.preset
    BY <1>1, <1>2
  <2>2. PICK n \in Nat : u = InPreset(room, p, n)
    BY <1>1, <1>5 DEF Card!Taken, InPreset
  <2> HIDE DEF p
  <2>3. /\ IsReading(u) /\ u.preset = p
        /\ \A f \in DOMAIN Kind \ {"preset", "sleep"} : u[f] = room[f]
    BY <2>1, <2>2, PresetChanged
  <2> QED BY <1>2, <1>5, <2>3 DEF p
<1> QED BY <1>3, <1>4, <1>5

LEMMA TakenReads ==
    ASSUME IsReading(room), Card!Existing(room) = room, NEW fields, Fits(fields), TokenWrite(fields),
           NEW u \in Card!Taken(room, fields)
    PROVE  IsReading(u) /\ Card!Existing(u) = u
<1>1. CASE WrongChannel(fields)
  <2>1. u = room
    BY <1>1 DEF Card!Taken, WrongChannel, TokenWrite
  <2> QED BY <2>1
<1>2. CASE ~WrongChannel(fields) /\ ~(card.legacy /\ "preset" \in DOMAIN fields)
  BY <1>2, TakenPlainly, WrittenReads, ExistingReads
<1>3. CASE ~WrongChannel(fields) /\ card.legacy /\ "preset" \in DOMAIN fields
  BY <1>3, TokenTaken, ExistingReads
<1> QED BY <1>1, <1>2, <1>3


-----------------------------------------------------------------------------
(* What a step leaves as it was. *)

LEMMA BoardStays ==
    ASSUME UNCHANGED card
    PROVE  Kind' = Kind /\ Card!HvacModes' = Card!HvacModes
           /\ Card!FanModes' = Card!FanModes /\ Card!SwingModes' = Card!SwingModes
           /\ Card!Modes' = Card!Modes
<1>1. Card!Modes' = Card!Modes
  BY DEF Card!Modes, Card!Elems
<1>2. Kind' = Kind
  BY <1>1 DEF Kind, Card!Elems
<1>3. Card!HvacModes' = Card!HvacModes
  BY <1>1 DEF Card!HvacModes, Card!Elems, Card!HvacOf
<1>4. Card!FanModes' = Card!FanModes
  BY DEF Card!FanModes, Card!FanLabel, Card!Elems
<1>5. Card!SwingModes' = Card!SwingModes
  BY DEF Card!SwingModes, Card!AllSwings
<1> QED BY <1>1, <1>2, <1>3, <1>4, <1>5

LEMMA AskedStays ==
    ASSUME UNCHANGED card, Listed \subseteq Listed'
    PROVE  \A k : IsCall(k) => IsCall(k)'
  BY BoardStays DEF IsCall, Asked, Card!Elems

LEMMA KnownStays ==
    ASSUME UNCHANGED <<card, learned, room, cardSeen>>
    PROVE  \A k : Knows(k) => Knows(k)'
<1>1. \A s, h : Card!DeviceCode(s, h)' = Card!DeviceCode(s, h)
  BY BoardStays DEF Card!DeviceCode, Card!Elems, Card!FirstIn, Card!HvacOf
<1>2. \A s : Card!PresetModes(s)' = Card!PresetModes(s)
  <2>1. \A mode : Card!LegacyPresetCodes(mode)' = Card!LegacyPresetCodes(mode)
    BY DEF Card!LegacyPresetCodes, Card!OptionBit
  <2> QED BY <2>1, BoardStays DEF Card!PresetModes, Card!Convenient, Card!ToHa, Card!Elems
<1>3. \A s : Card!Hvac(s)' = Card!Hvac(s)
  BY DEF Card!Hvac, Card!HvacOf
<1> QED BY <1>1, <1>2, <1>3 DEF Knows, Card!ToHa

LEMMA ShownStays ==
    ASSUME UNCHANGED <<card, room>>
    PROVE  \A r : Card!Shown(r) => Card!Shown(r)'
<1>1. Card!Hvac(room)' = Card!Hvac(room) /\ Card!Target(room)' = Card!Target(room)
      /\ Card!Step' = Card!Step
      /\ Card!Preset(room)' = Card!Preset(room) /\ Card!Swing(room)' = Card!Swing(room)
  BY DEF Card!Hvac, Card!HvacOf, Card!Target, Card!Step, Card!Preset, Card!ToHa, Card!Swing,
       Card!OscillationSwing
<1>2. Card!Fan(room)' = Card!Fan(room)
  BY DEF Card!Fan, Card!FanLabel, Card!FirstIn
<1> QED BY <1>1, <1>2 DEF Card!Shown

LEMMA ReadingsStep ==
    ASSUME UNCHANGED card, card \in AirConditioners,
           NEW u, NEW s, room' = u, cardSeen' = s, IsReading(u), IsReading(s), Card!Existing(u) = u,
           ~card.legacy => Listed' \subseteq Kind.preset /\ s.preset \in Listed'
    PROVE  Readings'
<1>1. IsReading(room)' /\ IsReading(cardSeen)'
  BY BoardStays DEF IsReading
<1>2. Card!Existing(room)' = room'
  BY DEF Card!Existing
<1> QED BY <1>1, <1>2, BoardStays DEF Readings

\* A call that something else happened beside
Disturbed(k) == [k EXCEPT !.clean = FALSE]

LEMMA DisturbedCall ==
    ASSUME NEW k, IsCall(k)
    PROVE  IsCall(Disturbed(k)) /\ Disturbed(k).at = k.at /\ Disturbed(k).clean = FALSE
<1>1. DOMAIN Disturbed(k) = CallFields /\ Disturbed(k).clean = FALSE
      /\ \A f \in CallFields \ {"clean"} : Disturbed(k)[f] = k[f]
  BY DEF IsCall, CallFields, Disturbed
<1>2. Disturbed(k).at = k.at /\ Disturbed(k).what = k.what /\ Disturbed(k).hvac = k.hvac
      /\ Disturbed(k).val = k.val /\ Disturbed(k).code = k.code
  BY <1>1 DEF CallFields
<1> QED BY <1>1, <1>2 DEF IsCall, Asked


-----------------------------------------------------------------------------
(* A command of a call, taken or refused, and a step of one without. *)

\* Where a call leaves off: it ends, or is at its next step, no less and no
\* more disturbed than before
Follows(then, k) == then.at # "idle" => IsCall(then) /\ then.clean = k.clean

LEMMA Sent ==
    ASSUME Card!ClimateOK, CardInv, UNCHANGED <<card, learned>>, NEW c \in Slots,
           NEW k, k = calls[c], k.at # "idle",
           NEW fields, Fits(fields), TokenWrite(fields),
           ~card.legacy /\ "preset" \in DOMAIN fields => fields.preset \in Listed,
           NEW then, Follows(then, k), Card!Send(c, fields, then),
           k.clean /\ room' \in Card!Taken(room, fields)
           /\ cardSeen' = Card!Written(cardSeen, fields) =>
               IF then.at = "idle" THEN Card!Shown(k)' ELSE Knows(then)'
    PROVE  CardInv'
<1>1. Readings /\ Calls /\ card \in AirConditioners /\ IsReading(room) /\ IsReading(cardSeen)
      /\ Card!Existing(room) = room /\ Card!Idle.at = "idle" /\ Card!BoardOK(card)
  BY DEF CardInv, Readings, Card!Idle, Card!ClimateOK
<1>2. \A q : IsCall(q) => IsCall(q)'
  BY AskedStays DEF Listed
<1>3. CASE /\ room' \in Card!Taken(room, fields)
           /\ cardSeen' = Card!Written(cardSeen, fields)
           /\ calls' = [d \in Slots |->
                IF d = c THEN then ELSE IF calls[d].at = "idle" THEN Card!Idle
                                        ELSE [calls[d] EXCEPT !.clean = FALSE]]
           /\ result' = IF then.at = "idle" /\ calls[c].clean THEN calls[c] ELSE None
           /\ UNCHANGED cardBudget
  <2>1. PICK u \in Card!Taken(room, fields) : u = room'
    BY <1>3
  <2>2. PICK s : s = Card!Written(cardSeen, fields)
    OBVIOUS
  <2>3. IsReading(u) /\ Card!Existing(u) = u /\ IsReading(s)
    BY <1>1, <2>2, TakenReads, WrittenReads
  <2>4. ~card.legacy => s.preset \in Listed
    <3>1. "preset" \in DOMAIN Kind
      BY KindFields
    <3> QED BY <1>1, <2>2, <3>1, WrittenReads DEF Readings
  <2>5. Readings'
    BY <1>1, <1>3, <2>1, <2>2, <2>3, <2>4, ReadingsStep DEF Readings, Listed
  <2>6. \A d \in Slots : calls'[d] = IF d = c THEN then ELSE IF calls[d].at = "idle" THEN Card!Idle
                                     ELSE Disturbed(calls[d])
    BY <1>3 DEF Disturbed
  <2>7. ASSUME NEW d \in Slots, calls'[d].at # "idle"
        PROVE  IsCall(calls'[d]) /\ (d # c => calls'[d].clean = FALSE)
    <3>1. CASE d = c
      BY <2>6, <2>7, <3>1 DEF Follows
    <3>2. CASE d # c
      <4>1. calls[d].at # "idle" /\ calls'[d] = Disturbed(calls[d])
        BY <1>1, <2>6, <2>7, <3>2
      <4> QED BY <1>1, <4>1, DisturbedCall DEF Calls
    <3> QED BY <3>1, <3>2
  <2>8. Calls'
    <3>1. calls' = [d \in Slots |-> calls'[d]]
      BY <1>3
    <3>2. ASSUME NEW d \in Slots, calls'[d].at # "idle"
          PROVE  IsCall(calls[d])'
      <4>1. PICK q : q = calls'[d]
        OBVIOUS
      <4>2. IsCall(q)'
        BY <1>2, <2>7, <3>2, <4>1
      <4> QED BY <4>1, <4>2 DEF IsCall, Asked
    <3> QED BY <3>1, <3>2 DEF Calls
  <2>9. Undisturbed'
    <3>1. ASSUME NEW d \in Slots, calls'[d].at # "idle", calls'[d].clean
          PROVE  Knows(calls[d])'
      <4>1. d = c /\ calls'[d] = then /\ then.at # "idle" /\ k.clean
        BY <2>6, <2>7, <3>1 DEF Follows
      <4>2. Knows(then)'
        BY <1>3, <4>1
      <4> QED BY <4>1, <4>2 DEF Knows
    <3> QED BY <3>1 DEF Undisturbed
  <2>10. Card!ChosenIsShown'
    <3>1. ASSUME result' # None
          PROVE  Card!Shown(result)'
      <4>1. result' = k /\ Card!Shown(k)'
        BY <1>3, <3>1
      <4> QED BY <4>1 DEF Card!Shown
    <3> QED BY <3>1 DEF Card!ChosenIsShown
  <2> QED BY <2>5, <2>8, <2>9, <2>10 DEF CardInv
<1>4. CASE /\ calls' = [calls EXCEPT ![c] = Card!Idle]
           /\ result' = None
           /\ UNCHANGED <<room, cardSeen>>
  <2>1. \A d \in Slots : calls'[d] = IF d = c THEN Card!Idle ELSE calls[d]
    BY <1>1, <1>4 DEF Calls
  <2>2. Readings'
    BY <1>1, <1>4, BoardStays DEF Readings, IsReading, Card!Existing, Listed
  <2>3. Calls'
    <3>1. calls' = [d \in Slots |-> calls'[d]]
      BY <1>1, <1>4 DEF Calls
    <3>2. ASSUME NEW d \in Slots, calls'[d].at # "idle"
          PROVE  IsCall(calls[d])'
      <4>1. PICK q : q = calls[d]
        OBVIOUS
      <4>2. q = calls'[d] /\ IsCall(q)'
        BY <1>1, <1>2, <2>1, <3>2, <4>1 DEF Calls
      <4> QED BY <4>2 DEF IsCall, Asked
    <3> QED BY <3>1, <3>2 DEF Calls
  <2>4. Undisturbed'
    <3>1. ASSUME NEW d \in Slots, calls'[d].at # "idle", calls'[d].clean
          PROVE  Knows(calls[d])'
      <4>1. PICK q : q = calls[d]
        OBVIOUS
      <4>2. q = calls'[d] /\ Knows(q)
        BY <1>1, <2>1, <3>1, <4>1 DEF CardInv, Undisturbed
      <4>3. Knows(q)'
        BY <1>4, <4>2, KnownStays
      <4> QED BY <4>2, <4>3 DEF Knows
    <3> QED BY <3>1 DEF Undisturbed
  <2> QED BY <1>4, <2>2, <2>3, <2>4 DEF CardInv, Card!ChosenIsShown
<1> QED BY <1>3, <1>4 DEF Card!Send

LEMMA Skipped ==
    ASSUME Card!ClimateOK, CardInv, UNCHANGED <<card, learned>>, NEW c \in Slots,
           NEW k, k = calls[c], k.at # "idle",
           NEW then, Follows(then, k), Card!Skip(c, then),
           k.clean => IF then.at = "idle" THEN Card!Shown(k) ELSE Knows(then)
    PROVE  CardInv'
<1>1. Readings /\ Calls /\ UNCHANGED <<room, cardSeen>>
  BY DEF CardInv, Card!Skip
<1>2. \A d \in Slots : calls'[d] = IF d = c THEN then ELSE calls[d]
  BY <1>1 DEF Calls, Card!Skip
<1>3. Readings'
  BY <1>1, BoardStays DEF Readings, IsReading, Card!Existing, Listed
<1>4. Calls'
  <2>1. calls' = [d \in Slots |-> calls'[d]]
    BY <1>1 DEF Calls, Card!Skip
  <2>2. ASSUME NEW d \in Slots, calls'[d].at # "idle"
        PROVE  IsCall(calls[d])'
    <3>1. PICK q : q = calls'[d]
      OBVIOUS
    <3>2. IsCall(q)
      BY <1>1, <1>2, <2>2, <3>1 DEF Calls, Follows
    <3>3. IsCall(q)'
      BY <3>2, AskedStays DEF Listed
    <3> QED BY <3>1, <3>3 DEF IsCall, Asked
  <2> QED BY <2>1, <2>2 DEF Calls
<1>5. Undisturbed'
  <2>1. ASSUME NEW d \in Slots, calls'[d].at # "idle", calls'[d].clean
        PROVE  Knows(calls[d])'
    <3>1. PICK q : q = calls'[d]
      OBVIOUS
    <3>2. Knows(q)
      BY <1>1, <1>2, <2>1, <3>1 DEF CardInv, Undisturbed, Follows
    <3>3. Knows(q)'
      BY <1>1, <3>2, KnownStays
    <3> QED BY <3>1, <3>3 DEF Knows
  <2> QED BY <2>1 DEF Undisturbed
<1>6. Card!ChosenIsShown'
  <2>1. ASSUME result' # None
        PROVE  Card!Shown(result)'
    <3>1. result' = k /\ Card!Shown(k)
      BY <2>1 DEF Card!Skip
    <3>2. Card!Shown(k)'
      BY <1>1, <3>1, ShownStays
    <3> QED BY <3>1, <3>2 DEF Card!Shown
  <2> QED BY <2>1 DEF Card!ChosenIsShown
<1> QED BY <1>3, <1>4, <1>5, <1>6 DEF CardInv


-----------------------------------------------------------------------------
(* The steps of a call. *)

At(k, at) == [k EXCEPT !.at = at]
AtWith(k, at, code) == [k EXCEPT !.at = at, !.code = code]

LEMMA NextOfCall ==
    ASSUME NEW k, IsCall(k), NEW at, NEW code
    PROVE  /\ DOMAIN At(k, at) = CallFields /\ DOMAIN AtWith(k, at, code) = CallFields
           /\ At(k, at).at = at /\ AtWith(k, at, code).at = at
           /\ At(k, at).code = k.code /\ AtWith(k, at, code).code = code
           /\ At(k, at).what = k.what /\ AtWith(k, at, code).what = k.what
           /\ At(k, at).hvac = k.hvac /\ AtWith(k, at, code).hvac = k.hvac
           /\ At(k, at).val = k.val /\ AtWith(k, at, code).val = k.val
           /\ At(k, at).clean = k.clean /\ AtWith(k, at, code).clean = k.clean
           /\ At(k, at).running = k.running /\ AtWith(k, at, code).running = k.running
           /\ At(k, at).ai = k.ai /\ AtWith(k, at, code).ai = k.ai
  BY DEF IsCall, CallFields, At, AtWith

LEMMA CallFacts ==
    ASSUME Card!ClimateOK, CardInv, NEW c \in Slots, NEW k, k = calls[c], k.at # "idle"
    PROVE  /\ Card!BoardOK(card) /\ IsCall(k) /\ Asked(k) /\ (k.clean => Knows(k))
           /\ IsReading(room) /\ IsReading(cardSeen) /\ Card!Existing(room) = room
           /\ room.mode \in Card!Elems(Card!Modes) /\ cardSeen.mode \in Card!Elems(Card!Modes)
           /\ room.preset \in Kind.preset /\ cardSeen.preset \in Kind.preset
           /\ room.sleep \in Nat /\ cardSeen.sleep \in Nat
           /\ Card!Elems(Card!Modes) \cap {None} = {} /\ None \notin Nat /\ None \notin BOOLEAN
<1>1. Card!BoardOK(card)
  BY DEF Card!ClimateOK, CardInv, Readings
<1>2. IsCall(k) /\ (k.clean => Knows(k)) /\ IsReading(room) /\ IsReading(cardSeen)
      /\ Card!Existing(room) = room
  BY DEF CardInv, Calls, Readings, Undisturbed
<1>3. None \notin Kind.mode
  BY <1>1, KindFields, CodesKnown
<1> QED BY <1>1, <1>2, <1>3, KindFields, ReadingFields DEF IsCall, Card!ClimateOK

\* WindFree is nowhere in Auto
LEMMA NoWindFreeInAuto ==
    ASSUME NEW u, IsReading(u), Card!Existing(u) = u, card.legacy, u.mode = "Auto"
    PROVE  u.preset \notin {"Nano", "NanoSleep"}
<1>1. SUFFICES ASSUME u.preset \in {"Nano", "NanoSleep"}
               PROVE  FALSE
  OBVIOUS
<1>2. Card!Existing(u) = InPreset(u, "Off", 0)
  BY <1>1 DEF Card!Existing, InPreset
<1>3. "Off" \in Kind.preset
  BY KindFields DEF Card!LegacyCodes
<1> QED BY <1>1, <1>2, <1>3, PresetChanged

\* A write of neither a preset nor a setpoint arrives, and nothing else changes
\* but what does not exist in the new mode
LEMMA PlainWrite ==
    ASSUME Card!ClimateOK, Card!BoardOK(card), IsReading(room), Card!Existing(room) = room,
           NEW fields, Fits(fields), DOMAIN fields \cap {"preset", "sleep"} = {},
           ~WrongChannel(fields), NEW u \in Card!Taken(room, fields)
    PROVE  /\ \A f \in DOMAIN Kind \ {"preset", "sleep"} :
                u[f] = IF f \in DOMAIN fields /\ fields[f] # None THEN fields[f] ELSE room[f]
           /\ u.mode # "Auto" \/ u.mode = room.mode =>
                /\ u = Card!Written(room, fields) /\ u.preset = room.preset /\ u.sleep = room.sleep
<1>1. u = Card!Existing(Card!Written(room, fields))
      /\ \A f \in DOMAIN Kind \ {"preset", "sleep"} : u[f] = Card!Written(room, fields)[f]
  BY TakenPlainly
<1>2. IsReading(Card!Written(room, fields))
      /\ \A f \in DOMAIN Kind : Card!Written(room, fields)[f] =
            IF f \in DOMAIN fields /\ fields[f] # None THEN fields[f] ELSE room[f]
  BY WrittenReads
<1>3. {"mode", "preset", "sleep"} \subseteq DOMAIN Kind
  BY KindFields
<1>4. Card!Written(room, fields).preset = room.preset
      /\ Card!Written(room, fields).sleep = room.sleep
  BY <1>2, <1>3
<1>5. ASSUME u.mode # "Auto" \/ u.mode = room.mode
      PROVE  u = Card!Written(room, fields)
  <2>1. Card!Written(room, fields).mode = u.mode
    BY <1>1, <1>3
  <2>2. room.mode = "Auto" /\ card.legacy => room.preset \notin {"Nano", "NanoSleep"}
    BY NoWindFreeInAuto
  <2> QED BY <1>1, <1>2, <1>4, <1>5, <2>1, <2>2, ExistingReads
<1> QED BY <1>1, <1>2, <1>4, <1>5


\* A write of one field that is no setpoint, nor a preset of a legacy board
One(f, v) == [g \in {f} |-> v]

LEMMA OneFits ==
    ASSUME NEW f \in DOMAIN Kind \ {"preset", "sleep", "ocf", "vs"}, NEW v \in Kind[f]
    PROVE  /\ Fits(One(f, v)) /\ TokenWrite(One(f, v)) /\ DOMAIN One(f, v) = {f}
           /\ ~WrongChannel(One(f, v)) /\ One(f, v)[f] = v
  BY DEF One, Fits, TokenWrite, WrongChannel

\* It arrives
LEMMA OneTaken ==
    ASSUME Card!ClimateOK, Card!BoardOK(card), IsReading(room), Card!Existing(room) = room,
           NEW f \in DOMAIN Kind \ {"preset", "sleep", "ocf", "vs"}, NEW v \in Kind[f],
           NEW u \in Card!Taken(room, One(f, v))
    PROVE  /\ u[f] = v /\ \A g \in DOMAIN Kind \ {f, "preset", "sleep"} : u[g] = room[g]
           /\ u.mode # "Auto" \/ u.mode = room.mode =>
                u = Card!Written(room, One(f, v)) /\ u.preset = room.preset /\ u.sleep = room.sleep
<1>1. v # None
  BY CodesKnown
<1>2. PICK w : w = One(f, v)
  OBVIOUS
<1>3. Fits(w) /\ DOMAIN w = {f} /\ ~WrongChannel(w) /\ w[f] = v /\ u \in Card!Taken(room, w)
  BY <1>2, OneFits
<1>4. DOMAIN w \cap {"preset", "sleep"} = {}
  BY <1>3
<1>5. \A g \in DOMAIN Kind \ {"preset", "sleep"} : u[g] = IF g = f THEN v ELSE room[g]
  BY <1>1, <1>3, <1>4, PlainWrite
<1>6. u.mode # "Auto" \/ u.mode = room.mode =>
        u = Card!Written(room, w) /\ u.preset = room.preset /\ u.sleep = room.sleep
  BY <1>3, <1>4, PlainWrite
<1> QED BY <1>2, <1>5, <1>6

LEMMA OneRecord ==
    /\ \A v \in BOOLEAN : [on |-> v] = One("on", v) /\ [night |-> v] = One("night", v)
    /\ \A v : [mode |-> v] = One("mode", v) /\ [fan |-> v] = One("fan", v)
    /\ \A v : [direction |-> v] = One("direction", v) /\ [volume |-> v] = One("volume", v)
<1>1. \A v \in BOOLEAN : [on |-> v] = One("on", v) /\ [night |-> v] = One("night", v)
  BY DEF One
<1>2. \A v : [mode |-> v] = One("mode", v) /\ [fan |-> v] = One("fan", v)
  BY DEF One
<1>3. \A v : [direction |-> v] = One("direction", v) /\ [volume |-> v] = One("volume", v)
  BY DEF One
<1> QED BY <1>1, <1>2, <1>3


LEMMA SetModeStep ==
    ASSUME Card!ClimateOK, CardInv, UNCHANGED <<card, learned>>, NEW c \in Slots,
           NEW k, k = calls[c], k.at \in {"hvac", "mode"}, k.hvac # "off",
           NEW code \in Card!Elems(Card!Modes), k.clean => room.on /\ Card!HvacOf(code) = k.hvac,
           Card!SetMode(c, code)
    PROVE  CardInv'
<1>1. k.at # "idle" /\ IsCall(k) /\ Asked(k) /\ Card!BoardOK(card) /\ code # None
      /\ IsReading(room) /\ Card!Existing(room) = room /\ (k.clean => cardSeen = room)
  BY CallFacts DEF Knows
<1>2. PICK then : then = Card!AfterMode(c)
  OBVIOUS
<1>3. then = IF k.what = "temp" THEN At(k, "temp") ELSE Card!Idle
  BY <1>2 DEF Card!AfterMode, At
<1>4. k.what \in {"hvac", "temp"} /\ k.hvac \in Card!HvacModes
      /\ (k.what = "temp" => k.val \in Temps)
  BY <1>1 DEF Asked
<1>5. IF then.at = "idle" THEN k.what = "hvac"
      ELSE /\ then.at = "temp" /\ k.what = "temp" /\ then.what = "temp" /\ then.val = k.val
      /\ then.hvac = k.hvac
           /\ DOMAIN then = CallFields /\ then.clean = k.clean
  BY <1>1, <1>3, <1>4, NextOfCall DEF Card!Idle
<1>6. Follows(then, k)
  <2>1. ASSUME then.at # "idle"
        PROVE  Asked(then)
    <3>1. then.at = "temp" /\ then.what = "temp" /\ then.val \in Temps
      BY <1>4, <1>5, <2>1
    <3> QED BY <3>1 DEF Asked
  <2>2. k.clean \in BOOLEAN
    BY <1>1 DEF IsCall
  <2> QED BY <1>5, <2>1, <2>2 DEF Follows, IsCall
<1>7. CASE code = cardSeen.mode
  <2>1. k.clean => Card!Hvac(room) = k.hvac
    BY <1>1, <1>7 DEF Card!Hvac
  <2>2. k.clean => IF then.at = "idle" THEN Card!Shown(k) ELSE Knows(then)
    BY <1>4, <1>5, <2>1 DEF Card!Shown, Knows
  <2> QED BY <1>1, <1>2, <1>6, <1>7, <2>2, Skipped DEF Card!SetMode
<1>8. CASE code # cardSeen.mode
  <2>1. PICK fields : fields = One("mode", code)
    OBVIOUS
  <2>5. "mode" \in DOMAIN Kind \ {"preset", "sleep", "ocf", "vs"} /\ code \in Kind.mode
        /\ "on" \in DOMAIN Kind \ {"mode", "preset", "sleep"}
    BY KindFields
  <2>2. Fits(fields) /\ TokenWrite(fields) /\ DOMAIN fields = {"mode"}
    BY <2>1, <2>5, OneFits
  <2>3. Card!Send(c, fields, then)
    BY <1>2, <1>8, <2>1, OneRecord DEF Card!SetMode
  <2>4. ASSUME k.clean, room' \in Card!Taken(room, fields), cardSeen' = Card!Written(cardSeen, fields)
        PROVE  IF then.at = "idle" THEN Card!Shown(k)' ELSE Knows(then)'
    <3>1. PICK u \in Card!Taken(room, fields) : u = room'
      BY <2>4
    <3>2. u.mode = code /\ u.on = room.on
      BY <1>1, <2>1, <2>5, <3>1, OneTaken
    <3>3. Card!Hvac(room)' = k.hvac
      BY <2>4, <3>1, <3>2 DEF Card!Hvac, Card!HvacOf
    <3> QED BY <1>4, <1>5, <3>3 DEF Card!Shown, Knows
  <2> QED BY <1>1, <1>6, <2>2, <2>3, <2>4, Sent
<1> QED BY <1>7, <1>8

LEMMA SetHvacModeStep ==
    ASSUME Card!ClimateOK, CardInv, NEW c \in Slots, Card!SetHvacMode(c)
    PROVE  CardInv'
<1>1. PICK k : k = calls[c]
  OBVIOUS
<1>2. k.at = "hvac" /\ UNCHANGED <<card, learned>>
  BY <1>1 DEF Card!SetHvacMode
<1>3. k.at # "idle" /\ IsCall(k) /\ Asked(k) /\ Card!BoardOK(card) /\ None \notin BOOLEAN
      /\ IsReading(room) /\ IsReading(cardSeen) /\ Card!Existing(room) = room
      /\ (k.clean => cardSeen = room) /\ cardSeen.mode \in Card!Elems(Card!Modes)
  BY <1>1, <1>2, CallFacts DEF Knows
<1>4. k.what \in {"hvac", "temp"} /\ k.hvac \in Card!HvacModes
      /\ (k.what = "temp" => k.val \in Temps)
      /\ k.clean \in BOOLEAN
  BY <1>2, <1>3 DEF Asked, IsCall
<1>5. CASE k.hvac = "off"
  <2>0. PICK off, fields : off \in BOOLEAN /\ off = FALSE /\ fields = One("on", off)
    OBVIOUS
  <2>1. /\ "on" \in DOMAIN Kind \ {"preset", "sleep", "ocf", "vs"} /\ off \in Kind.on
        /\ Fits(fields) /\ TokenWrite(fields) /\ DOMAIN fields = {"on"}
    BY <2>0, KindFields, OneFits
  <2>2. Card!Send(c, fields, Card!Idle)
    BY <1>1, <1>2, <1>5, <2>0, OneRecord DEF Card!SetHvacMode
  <2>3. ASSUME k.clean, room' \in Card!Taken(room, fields), cardSeen' = Card!Written(cardSeen, fields)
        PROVE  Card!Shown(k)'
    <3>1. PICK u \in Card!Taken(room, fields) : u = room'
      BY <2>3
    <3>2. u.on = off
      BY <1>3, <2>0, <2>1, <3>1, OneTaken
    <3>3. Card!Hvac(room)' = "off"
      BY <2>0, <3>1, <3>2 DEF Card!Hvac
    <3> QED BY <1>4, <1>5, <3>3 DEF Card!Shown
  <2>4. Card!Idle.at = "idle" /\ Follows(Card!Idle, k)
    BY DEF Card!Idle, Follows
  <2> QED BY <1>1, <1>2, <1>3, <2>1, <2>2, <2>3, <2>4, Sent
<1>6. CASE k.hvac # "off"
  <2>1. PICK code : code = Card!DeviceCode(cardSeen, k.hvac)
    OBVIOUS
  <2>2. code \in Card!Elems(Card!Modes) /\ Card!HvacOf(code) = k.hvac
    BY <1>3, <1>4, <1>6, <2>1, CodeOfMode
  <2>3. CASE cardSeen.on
    <3>1. Card!SetMode(c, code)
      BY <1>1, <1>2, <1>6, <2>1, <2>3 DEF Card!SetHvacMode
    <3> QED BY <1>1, <1>2, <1>3, <1>6, <2>2, <2>3, <3>1, SetModeStep
  <2>4. CASE ~cardSeen.on
    <3>0. PICK on, fields : on \in BOOLEAN /\ on = TRUE /\ fields = One("on", on)
      OBVIOUS
    <3>1. /\ "on" \in DOMAIN Kind \ {"preset", "sleep", "ocf", "vs"} /\ on \in Kind.on
          /\ Fits(fields) /\ TokenWrite(fields) /\ DOMAIN fields = {"on"}
      BY <3>0, KindFields, OneFits
    <3>2. PICK then : then = AtWith(k, "mode", code)
      OBVIOUS
    <3>3. Card!Send(c, fields, then)
      BY <1>1, <1>2, <1>6, <2>1, <2>4, <3>0, <3>2, OneRecord DEF Card!SetHvacMode, AtWith
    <3>4. /\ then.at = "mode" /\ then.what = k.what /\ then.val = k.val /\ then.hvac = k.hvac
          /\ DOMAIN then = CallFields /\ then.clean = k.clean /\ then.code = code
      BY <1>3, <3>2, NextOfCall
    <3>5. Follows(then, k)
      <4>1. Asked(then)
        BY <1>4, <1>6, <2>2, <3>4 DEF Asked
      <4> QED BY <1>4, <3>4, <4>1 DEF Follows, IsCall
    <3>6. ASSUME k.clean, room' \in Card!Taken(room, fields), cardSeen' = Card!Written(cardSeen,
                     fields)
          PROVE  Knows(then)'
      <4>1. PICK u \in Card!Taken(room, One("on", on)) : u = room'
        BY <3>0, <3>6
      <4>5. /\ u.on = on /\ \A g \in DOMAIN Kind \ {"on", "preset", "sleep"} : u[g] = room[g]
            /\ u.mode # "Auto" \/ u.mode = room.mode => u = Card!Written(room, One("on", on))
        BY <1>3, <3>1, <4>1, OneTaken
      <4>2. u.on = on /\ u.mode = room.mode
        BY <4>5, KindFields
      <4>3. u = Card!Written(room, fields) /\ cardSeen' = room'
        BY <1>3, <3>0, <3>6, <4>1, <4>2, <4>5
      <4>4. Card!DeviceCode(room, k.hvac)' = code
        <5>1. \A s, h : Card!DeviceCode(s, h)' = Card!DeviceCode(s, h)
          BY <1>2, BoardStays DEF Card!DeviceCode, Card!Elems, Card!FirstIn, Card!HvacOf
        <5>2. Card!DeviceCode(u, k.hvac) = Card!DeviceCode(room, k.hvac)
          BY <4>2 DEF Card!DeviceCode
        <5>3. Card!DeviceCode(u, k.hvac)' = code
          BY <1>3, <2>1, <3>6, <5>1, <5>2
        <5> QED BY <4>1, <5>3 DEF Card!DeviceCode
      <4> QED BY <1>4, <3>0, <3>4, <4>1, <4>2, <4>3, <4>4 DEF Knows
    <3> QED BY <1>1, <1>2, <1>3, <3>1, <3>3, <3>4, <3>5, <3>6, Sent
  <2> QED BY <2>3, <2>4
<1> QED BY <1>5, <1>6

LEMMA SetModeAfterPowerStep ==
    ASSUME Card!ClimateOK, CardInv, NEW c \in Slots, Card!SetModeAfterPower(c)
    PROVE  CardInv'
<1>1. PICK k : k = calls[c]
  OBVIOUS
<1>2. k.at = "mode" /\ Card!SetMode(c, k.code) /\ UNCHANGED <<card, learned>>
  BY <1>1 DEF Card!SetModeAfterPower
<1>3. Card!BoardOK(card) /\ Asked(k) /\ (k.clean => Knows(k))
      /\ room.mode \in Card!Elems(Card!Modes)
  BY <1>1, <1>2, CallFacts
<1>4. k.code \in Card!Elems(Card!Modes) /\ k.hvac \in Card!HvacModes /\ k.hvac # "off"
  BY <1>2, <1>3 DEF Asked
<1>5. k.clean => room.on /\ Card!HvacOf(k.code) = k.hvac
  BY <1>2, <1>3, <1>4, CodeOfMode DEF Knows
<1> QED BY <1>1, <1>2, <1>4, <1>5, SetModeStep

\* The nearest step is half a step away at most
LEMMA Nearest ==
    ASSUME NEW t \in Nat, Card!Step \in Nat \ {0}
    PROVE  /\ Card!Quantized(t) \in Nat /\ Card!Quantized(t) % Card!Step = 0
           /\ 2 * (IF Card!Quantized(t) >= t THEN Card!Quantized(t) - t ELSE t - Card!Quantized(t)) <= Card!Step
<1> DEFINE low == t \div Card!Step
           past == t % Card!Step
<1>1. low \in Nat /\ past \in Nat /\ past < Card!Step /\ t = Card!Step * low + past
  OBVIOUS
<1>2. Card!Quantized(t) = Card!Step * (IF 2 * past > Card!Step \/ (2 * past = Card!Step
      /\ low % 2 = 1)
                             THEN low + 1 ELSE low)
  BY DEF Card!Quantized
<1> HIDE DEF low, past
<1>3. PICK n \in {low, low + 1} : Card!Quantized(t) = Card!Step * n
      /\ (n = low + 1 => 2 * past >= Card!Step) /\ (n = low => 2 * past <= Card!Step)
  BY <1>1, <1>2
<1>4. \A a, b \in Nat : a * b \in Nat /\ a * (b + 1) = a * b + a
  OBVIOUS
<1>5. Card!Quantized(t) \in Nat
  BY <1>1, <1>3, <1>4
<1>6. \A a \in Nat \ {0}, b \in Nat : (a * b) % a = 0
  OBVIOUS
<1>7. Card!Quantized(t) % Card!Step = 0
  BY <1>1, <1>3, <1>6
<1>8. Card!Quantized(t) = IF n = low THEN t - past ELSE t - past + Card!Step
  BY <1>1, <1>3, <1>4
<1> QED BY <1>1, <1>3, <1>5, <1>7, <1>8


LEMMA SetTemperatureStep ==
    ASSUME Card!ClimateOK, CardInv, NEW c \in Slots, Card!SetTemperature(c)
    PROVE  CardInv'
<1>1. PICK k : k = calls[c]
  OBVIOUS
<1>2. k.at = "temp" /\ UNCHANGED <<card, learned>>
  BY <1>1 DEF Card!SetTemperature
<1>3. /\ Card!BoardOK(card) /\ Asked(k) /\ (k.clean => Knows(k))
      /\ IsReading(room) /\ Card!Existing(room) = room /\ None \notin Nat
  BY <1>1, <1>2, CallFacts
<1>4. k.what = "temp" /\ k.val \in Temps /\ k.val \in Nat
  BY <1>2, <1>3 DEF Asked, Card!ClimateOK
<1>5. Card!Step \in Nat \ {0}
  BY <1>3 DEF Card!Step, Card!BoardOK
<1>6. PICK q \in Nat : q = Card!Quantized(k.val)
  BY <1>4, <1>5, Nearest
<1>7. PICK fields : fields = One(Card!Channel, q)
  OBVIOUS
<1>8. Card!Send(c, fields, Card!Idle)
  BY <1>1, <1>6, <1>7 DEF Card!SetTemperature, One
<1>9. Card!Channel = IF card.pair THEN "ocf" ELSE "vs"
  BY DEF Card!Channel
<1>10. DOMAIN fields = {Card!Channel} /\ fields[Card!Channel] = q /\ Card!Channel \in {"ocf", "vs"}
  BY <1>7, <1>9 DEF One
<1>11. Fits(fields) /\ TokenWrite(fields) /\ ~WrongChannel(fields)
       /\ DOMAIN fields \cap {"preset", "sleep"} = {}
  <2>1. q \in Kind[Card!Channel] /\ Card!Channel \in DOMAIN Kind
    BY <1>10, KindFields
  <2> QED BY <1>9, <1>10, <2>1 DEF Fits, TokenWrite, WrongChannel
<1>12. ASSUME k.clean, room' \in Card!Taken(room, fields), cardSeen' = Card!Written(cardSeen, fields)
       PROVE  Card!Shown(k)'
  <2>1. PICK u \in Card!Taken(room, fields) : u = room'
    BY <1>12
  <2>2. \A f \in DOMAIN Kind \ {"preset", "sleep"} :
          u[f] = IF f \in DOMAIN fields /\ fields[f] # None THEN fields[f] ELSE room[f]
    BY <1>3, <1>11, <2>1, PlainWrite
  <2>3. u[Card!Channel] = q /\ u.on = room.on /\ u.mode = room.mode
    BY <1>3, <1>10, <2>2, KindFields
  <2>4. Card!Target(room)' = q
    BY <1>2, <1>3, <1>9, <2>1, <2>3 DEF Card!Target
  <2>5. k.hvac # None => Card!Hvac(room)' = k.hvac
    BY <1>2, <1>3, <1>12, <2>1, <2>3 DEF Card!Hvac, Card!HvacOf, Knows
  <2>6. Card!Step' = Card!Step
    BY <1>2 DEF Card!Step
  <2>7. q % Card!Step = 0 /\ 2 * (IF q >= k.val THEN q - k.val ELSE k.val - q) <= Card!Step
    BY <1>4, <1>5, <1>6, Nearest
  <2> QED BY <1>4, <2>4, <2>5, <2>6, <2>7 DEF Card!Shown
<1>13. Card!Idle.at = "idle" /\ Follows(Card!Idle, k)
  BY DEF Card!Idle, Follows
<1> QED BY <1>1, <1>2, <1>8, <1>10, <1>11, <1>12, <1>13, Sent

LEMMA PauseStep ==
    ASSUME Card!ClimateOK, CardInv, NEW c \in Slots, Card!Pause(c)
    PROVE  CardInv'
<1>1. PICK k : k = calls[c]
  OBVIOUS
<1>2. k.at = "pause" /\ UNCHANGED <<card, learned>>
  BY <1>1 DEF Card!Pause
<1>3. IsCall(k) /\ Asked(k) /\ (k.clean => Knows(k))
  BY <1>1, <1>2, CallFacts
<1>4. PICK then : then = At(k, "preset")
  OBVIOUS
<1>5. /\ then.at = "preset" /\ then.what = k.what /\ then.val = k.val /\ then.hvac = k.hvac
      /\ DOMAIN then = CallFields /\ then.clean = k.clean /\ then.code = k.code
      /\ then.running = k.running /\ then.ai = k.ai
  BY <1>3, <1>4, NextOfCall
<1>6. Asked(then)
  BY <1>2, <1>3, <1>5 DEF Asked
<1>7. Follows(then, k)
  BY <1>3, <1>5, <1>6 DEF Follows, IsCall
<1>8. k.clean => Knows(then)
  BY <1>2, <1>3, <1>5 DEF Knows
<1>9. Card!Skip(c, then)
  BY <1>1, <1>4 DEF Card!Pause, At
<1> QED BY <1>1, <1>2, <1>5, <1>7, <1>8, <1>9, Skipped

\* The presets a card offers are codes of the board, by the names they are shown
LEMMA OfferedCodes ==
    ASSUME Card!BoardOK(card), NEW s, s.preset \in Kind.preset,
           ~card.legacy => Listed \subseteq Kind.preset
    PROVE  /\ Card!Convenient(s) \subseteq IF card.legacy THEN Kind.preset ELSE Listed
           /\ Card!Convenient(s) \subseteq Kind.preset
           /\ \A code \in Card!Convenient(s) : Card!ToHa(code) # "ai_comfort" /\ code # "none"
<1>1. "ai_comfort" \notin Kind.preset /\ "none" \notin Kind.preset
  BY KindFields DEF Card!BoardOK, Card!LegacyCodes
<1>2. \A mode : Card!LegacyPresetCodes(mode) \subseteq Card!LegacyCodes
  BY DEF Card!LegacyPresetCodes, Card!LegacyPresets, Card!LegacyCodes
<1>3. Card!LegacyCodes \subseteq Kind.preset
  BY KindFields
<1>4. Card!Convenient(s) \subseteq IF card.legacy THEN Kind.preset ELSE Listed
  BY <1>2, <1>3 DEF Card!Convenient, Listed
<1> QED BY <1>1, <1>4 DEF Card!ToHa

\* In Auto a legacy board lists no WindFree with its timer
LEMMA AutoWithoutTimer ==
    ASSUME card.legacy, NEW s, s.mode = "Auto", s.preset # "NanoSleep"
    PROVE  "NanoSleep" \notin Card!Convenient(s)
  BY DEF Card!Convenient, Card!LegacyPresetCodes, Card!LegacyPresets, Card!LegacyKnownHvac,
       Card!AIComfort


LEMMA ChoosePresetStep ==
    ASSUME Card!ClimateOK, CardInv, NEW c \in Slots, Card!ChoosePreset(c)
    PROVE  CardInv'
<1>1. PICK k : k = calls[c]
  OBVIOUS
<1>2. k.at = "choose" /\ UNCHANGED <<card, learned>>
  BY <1>1 DEF Card!ChoosePreset
<1>3. /\ Card!BoardOK(card) /\ IsCall(k) /\ Asked(k) /\ (k.clean => Knows(k))
      /\ IsReading(room) /\ Card!Existing(room) = room
      /\ cardSeen.mode \in Card!Elems(Card!Modes) /\ cardSeen.preset \in Kind.preset
      /\ (~card.legacy => Listed \subseteq Kind.preset)
  BY <1>1, <1>2, CallFacts DEF CardInv, Readings
<1>4. /\ k.what = "preset" /\ k.hvac = None /\ k.clean \in BOOLEAN
      /\ (k.val = "ai_comfort" => Card!AIComfort \in Card!Elems(Card!Modes))
  BY <1>2, <1>3 DEF Asked, IsCall
<1>5. /\ Card!Convenient(cardSeen) \subseteq IF card.legacy THEN Kind.preset ELSE Listed
      /\ \A code \in Card!Convenient(cardSeen) : Card!ToHa(code) # "ai_comfort" /\ code # "none"
  BY <1>3, OfferedCodes
<1>6. Card!Idle.at = "idle" /\ Follows(Card!Idle, k)
  BY DEF Card!Idle, Follows
<1>7. "mode" \in DOMAIN Kind \ {"preset", "sleep", "ocf", "vs"}
      /\ Kind.mode = Card!Elems(Card!Modes)
  BY KindFields
<1>8. CASE k.val = "ai_comfort"
  <2>1. PICK fields : fields = One("mode", Card!AIComfort)
    OBVIOUS
  <2>2. Fits(fields) /\ TokenWrite(fields) /\ DOMAIN fields = {"mode"}
        /\ Card!AIComfort \in Kind.mode
    BY <1>4, <1>7, <1>8, <2>1, OneFits
  <2>3. Card!Send(c, fields, Card!Idle)
    BY <1>1, <1>8, <2>1, OneRecord DEF Card!ChoosePreset
  <2>4. ASSUME k.clean, room' \in Card!Taken(room, fields), cardSeen' = Card!Written(cardSeen, fields)
        PROVE  Card!Shown(k)'
    <3>1. PICK u \in Card!Taken(room, fields) : u = room'
      BY <2>4
    <3>2. u.mode = Card!AIComfort
      BY <1>3, <1>7, <2>1, <2>2, <3>1, OneTaken
    <3>3. Card!Preset(room)' = "ai_comfort"
      BY <3>1, <3>2 DEF Card!Preset
    <3> QED BY <1>4, <1>8, <3>3 DEF Card!Shown
  <2> QED BY <1>1, <1>2, <1>6, <2>2, <2>3, <2>4, Sent
<1>9. CASE k.val # "ai_comfort" /\ ~\E code \in Card!Convenient(cardSeen) : Card!ToHa(code) = k.val
  <2>1. Card!Skip(c, Card!Idle)
    BY <1>1, <1>9 DEF Card!ChoosePreset
  <2>2. ~k.clean
    BY <1>2, <1>3, <1>9 DEF Knows, Card!PresetModes
  <2> QED BY <1>1, <1>2, <1>6, <2>1, <2>2, Skipped
<1>10. CASE k.val # "ai_comfort" /\ \E code \in Card!Convenient(cardSeen) : Card!ToHa(code) = k.val
  <2>1. PICK code : code = CHOOSE p \in Card!Convenient(cardSeen) : Card!ToHa(p) = k.val
    OBVIOUS
  <2>2. code \in Card!Convenient(cardSeen) /\ Card!ToHa(code) = k.val
    BY <1>10, <2>1
  <2>3. code \in IF card.legacy THEN Kind.preset ELSE Listed
    BY <1>5, <2>2
  <2>4. CASE Card!NeedsCool(code, cardSeen)
    <3>1. PICK cool : cool = Card!DeviceCode(cardSeen, "cool")
      OBVIOUS
    <3>2. card.legacy /\ cardSeen.mode = "Auto" /\ code = "Nano"
      BY <2>4 DEF Card!NeedsCool
    <3>3. "cool" \in Card!HvacModes \ {"off"}
      <4>1. "Cool" \in Card!Elems(Card!Modes) /\ "Cool" # Card!AIComfort
        BY <1>3, <3>2, ModesListed DEF Card!AIComfort
      <4> QED BY <4>1, HvacCodes DEF Card!HvacModes
    <3>4. cool \in Card!Elems(Card!Modes) /\ cool = "Cool"
      BY <1>3, <3>1, <3>3, CodeOfMode, HvacCodes
    <3>5. PICK then : then = AtWith(k, "pause", code)
      OBVIOUS
    <3>6. /\ then.at = "pause" /\ then.what = k.what /\ then.val = k.val /\ then.hvac = k.hvac
          /\ DOMAIN then = CallFields /\ then.clean = k.clean /\ then.code = code
          /\ then.running = k.running /\ then.ai = k.ai
      BY <1>3, <3>5, NextOfCall
    <3>7. Follows(then, k)
      <4>1. Asked(then)
        BY <1>4, <2>3, <3>6 DEF Asked
      <4> QED BY <1>4, <3>6, <4>1 DEF Follows, IsCall
    <3>8. PICK fields : fields = One("mode", cool)
      OBVIOUS
    <3>9. Fits(fields) /\ TokenWrite(fields) /\ DOMAIN fields = {"mode"}
      BY <1>7, <3>4, <3>8, OneFits
    <3>10. Card!Send(c, fields, then)
      BY <1>1, <1>10, <2>1, <2>4, <3>1, <3>5, <3>8, OneRecord DEF Card!ChoosePreset, AtWith
    <3>11. ASSUME k.clean, room' \in Card!Taken(room, fields), cardSeen' = Card!Written(cardSeen,
                      fields)
           PROVE  Knows(then)'
      <4>1. PICK u \in Card!Taken(room, One("mode", cool)) : u = room'
        BY <3>8, <3>11
      <4>2. u.mode = cool /\ u = Card!Written(room, fields) /\ u.sleep = room.sleep
        BY <1>3, <1>7, <3>4, <3>8, <4>1, OneTaken
      <4>3. cardSeen' = room'
        BY <1>2, <1>3, <3>11, <4>1, <4>2 DEF Knows
      <4>4. k.running = (u.sleep # 0)
        BY <1>2, <1>3, <1>4, <3>11, <4>2 DEF Knows
      <4>5. cool # "Auto" /\ cool # Card!AIComfort
        BY <3>4 DEF Card!AIComfort
      <4> QED BY <1>4, <2>2, <3>6, <4>1, <4>2, <4>3, <4>4, <4>5 DEF Knows, Card!ToHa
    <3> QED BY <1>1, <1>2, <3>6, <3>7, <3>9, <3>10, <3>11, Sent
  <2>5. CASE ~Card!NeedsCool(code, cardSeen)
    <3>1. PICK then : then = AtWith(k, "preset", code)
      OBVIOUS
    <3>2. /\ then.at = "preset" /\ then.what = k.what /\ then.val = k.val /\ then.hvac = k.hvac
          /\ DOMAIN then = CallFields /\ then.clean = k.clean /\ then.code = code
          /\ then.running = k.running /\ then.ai = k.ai
      BY <1>3, <3>1, NextOfCall
    <3>3. Follows(then, k)
      <4>1. Asked(then)
        BY <1>4, <2>3, <3>2 DEF Asked
      <4> QED BY <1>4, <3>2, <4>1 DEF Follows, IsCall
    <3>4. Card!Skip(c, then)
      BY <1>1, <1>10, <2>1, <2>5, <3>1 DEF Card!ChoosePreset, AtWith
    <3>5. ASSUME k.clean
          PROVE  Knows(then)
      <4>1. cardSeen = room
        BY <1>2, <1>3, <3>5 DEF Knows
      <4>2. ASSUME card.legacy, code \in {"Nano", "NanoSleep"}, room.mode = "Auto"
            PROVE  FALSE
        <5>1. room.preset # "NanoSleep"
          BY <1>3, <4>2, NoWindFreeInAuto
        <5>2. code = "Nano"
          BY <2>2, <4>1, <4>2, <5>1, AutoWithoutTimer
        <5> QED BY <2>5, <4>1, <4>2, <5>2 DEF Card!NeedsCool
      <4> QED BY <1>2, <1>3, <1>4, <2>2, <3>2, <3>5, <4>1, <4>2 DEF Knows
    <3> QED BY <1>1, <1>2, <3>2, <3>3, <3>4, <3>5, Skipped
  <2> QED BY <2>4, <2>5
<1> QED BY <1>8, <1>9, <1>10


\* The options token of a choice: WindFree over a running timer is both, and
\* the timer is written along
LEMMA OptionsOfPreset ==
    ASSUME Card!BoardOK(card), Card!ClimateOK, card.legacy, NEW code \in Kind.preset,
           NEW s, s.sleep \in Nat, NEW fields, fields = Card!PresetOptions(code, s)
    PROVE  /\ Fits(fields) /\ TokenWrite(fields) /\ "preset" \in DOMAIN fields
           /\ fields.preset = IF code = "Nano" /\ s.sleep # 0 THEN "NanoSleep" ELSE code
           /\ fields.preset \in {"Sleep", "NanoSleep"} =>
                fields.sleep # None /\ (s.sleep # 0 => fields.sleep = s.sleep)
<1>1. None \notin Kind.preset /\ "NanoSleep" \in Kind.preset /\ None \notin Nat
  BY CodesKnown, KindFields DEF Card!LegacyCodes, Card!ClimateOK
<1>2. DOMAIN fields = {"preset", "sleep"}
      /\ fields.preset = IF code = "Nano" /\ s.sleep # 0 THEN "NanoSleep" ELSE code
  BY DEF Card!PresetOptions
<1>3. fields.sleep = IF fields.preset \notin {"Sleep", "NanoSleep"} THEN None
                     ELSE IF s.sleep # 0 THEN s.sleep ELSE 16
  BY DEF Card!PresetOptions
<1>4. fields.preset \in Kind.preset /\ fields.sleep \in Nat \cup {None}
  BY <1>1, <1>2, <1>3
<1> QED BY <1>1, <1>2, <1>3, <1>4, KindFields DEF Fits, TokenWrite

LEMMA SetPresetStep ==
    ASSUME Card!ClimateOK, CardInv, NEW c \in Slots, Card!SetPreset(c)
    PROVE  CardInv'
<1>1. PICK k : k = calls[c]
  OBVIOUS
<1>2. k.at = "preset" /\ UNCHANGED <<card, learned>>
  BY <1>1 DEF Card!SetPreset
<1>3. /\ Card!BoardOK(card) /\ IsCall(k) /\ Asked(k) /\ (k.clean => Knows(k))
      /\ IsReading(room) /\ Card!Existing(room) = room /\ cardSeen.sleep \in Nat
         /\ room.sleep \in Nat
      /\ (~card.legacy => Listed \subseteq Kind.preset)
  BY <1>1, <1>2, CallFacts DEF CardInv, Readings
<1>4. /\ k.what = "preset" /\ k.hvac = None /\ k.code \in Kind.preset
      /\ (~card.legacy => k.code \in Listed)
  BY <1>2, <1>3 DEF Asked
<1>5. /\ None \notin Kind.preset
      /\ "ai_comfort" \notin Kind.preset /\ "none" \notin Kind.preset
      /\ {"mode", "preset"} \subseteq DOMAIN Kind /\ "mode" \in DOMAIN Kind \ {"preset", "sleep"}
  BY <1>3, KindFields, CodesKnown DEF Card!BoardOK, Card!LegacyCodes
<1>6. Card!Idle.at = "idle" /\ Follows(Card!Idle, k)
  BY DEF Card!Idle, Follows
<1>7. ASSUME k.clean
      PROVE  /\ cardSeen = room /\ k.val = Card!ToHa(k.code) /\ k.val # "ai_comfort"
             /\ k.running = (room.sleep # 0) /\ (~k.ai => room.mode # Card!AIComfort)
             /\ (card.legacy /\ k.code \in {"Nano", "NanoSleep"} => room.mode # "Auto")
  BY <1>2, <1>3, <1>4, <1>5, <1>7 DEF Knows, Card!ToHa
<1>8. CASE card.legacy
  <2>1. PICK fields : fields = Card!PresetOptions(k.code, cardSeen)
    OBVIOUS
  <2>2. /\ Fits(fields) /\ TokenWrite(fields) /\ "preset" \in DOMAIN fields
        /\ fields.preset = IF k.code = "Nano" /\ cardSeen.sleep # 0 THEN "NanoSleep" ELSE k.code
        /\ fields.preset \in {"Sleep", "NanoSleep"} => fields.sleep # None
    BY <1>3, <1>4, <1>8, <2>1, OptionsOfPreset
  <2>3. Card!Send(c, fields, Card!Idle)
    BY <1>1, <1>8, <2>1 DEF Card!SetPreset
  <2>4. ASSUME k.clean, room' \in Card!Taken(room, fields), cardSeen' = Card!Written(cardSeen, fields)
        PROVE  Card!Shown(k)'
    <3>1. PICK u \in Card!Taken(room, fields) : u = room'
      BY <2>4
    <3>2. ~(room.mode = "Auto" /\ fields.preset \in {"Nano", "NanoSleep"})
      BY <1>7, <1>8, <2>2, <2>4
    <3>3. u.mode = room.mode
          /\ u.preset = IF fields.sleep = None /\ fields.preset = "Nano" /\ room.sleep > 0
                        THEN "NanoSleep" ELSE fields.preset
      BY <1>3, <1>8, <2>2, <3>1, <3>2, TokenTaken
    <3>4. u.preset = IF k.code = "Nano" /\ room.sleep # 0 THEN "NanoSleep" ELSE k.code
      BY <1>3, <1>7, <2>2, <2>4, <3>3
    <3>5. ~k.ai => Card!Preset(room)' = Card!ToHa(u.preset)
      BY <1>7, <2>4, <3>1, <3>3 DEF Card!Preset, Card!ToHa
    <3>6. Card!ToHa(u.preset) = IF k.val = "Nano" /\ room.sleep # 0 THEN "NanoSleep" ELSE k.val
      BY <1>7, <2>4, <3>4 DEF Card!ToHa
    <3> QED BY <1>2, <1>4, <1>7, <1>8, <2>4, <3>5, <3>6 DEF Card!Shown
  <2> QED BY <1>1, <1>2, <1>6, <1>8, <2>2, <2>3, <2>4, Sent
<1>9. CASE ~card.legacy
  <2>1. PICK fields : fields = [preset |-> k.code]
    OBVIOUS
  <2>2. /\ DOMAIN fields = {"preset"} /\ fields.preset = k.code
        /\ Fits(fields) /\ TokenWrite(fields) /\ ~WrongChannel(fields)
    BY <1>4, <1>5, <1>9, <2>1 DEF Fits, TokenWrite, WrongChannel
  <2>3. Card!Send(c, fields, Card!Idle)
    BY <1>1, <1>9, <2>1 DEF Card!SetPreset
  <2>4. ASSUME k.clean, room' \in Card!Taken(room, fields), cardSeen' = Card!Written(cardSeen, fields)
        PROVE  Card!Shown(k)'
    <3>1. PICK u \in Card!Taken(room, fields) : u = room'
      BY <2>4
    <3>2. u = Card!Written(room, fields)
      BY <1>3, <1>9, <2>2, <3>1, TakenPlainly, WrittenReads, ExistingReads
    <3>3. u.mode = room.mode /\ u.preset = k.code
      BY <1>3, <1>4, <1>5, <2>2, <3>2, WrittenReads
    <3>4. ~k.ai => Card!Preset(room)' = k.val
      BY <1>7, <2>4, <3>1, <3>3 DEF Card!Preset, Card!ToHa
    <3> QED BY <1>2, <1>4, <1>7, <1>9, <2>4, <3>4 DEF Card!Shown
  <2> QED BY <1>1, <1>2, <1>4, <1>6, <1>9, <2>2, <2>3, <2>4, Sent
<1> QED BY <1>8, <1>9


-----------------------------------------------------------------------------
(* Fans and vanes. *)

LEMMA FanScale ==
    /\ DOMAIN Card!DeviceToFan = {"0", "1", "2", "3", "4"}
    /\ Card!DeviceToFan["0"] = "auto" /\ Card!DeviceToFan["1"] = "low"
       /\ Card!DeviceToFan["2"] = "medium"
    /\ Card!DeviceToFan["3"] = "high" /\ Card!DeviceToFan["4"] = "turbo"
  BY DEF Card!DeviceToFan

LEMMA SwingTable ==
    /\ DOMAIN Card!DeviceToSwing = {"Fix", "All", "Up_And_Low", "Left_And_Right"}
    /\ Card!DeviceToSwing["Fix"] = "off" /\ Card!DeviceToSwing["All"] = "both"
    /\ Card!DeviceToSwing["Up_And_Low"] = "vertical"
       /\ Card!DeviceToSwing["Left_And_Right"] = "horizontal"
  BY DEF Card!DeviceToSwing

\* The one fan of a code is the one that is shown for it
LEMMA FanOfCode ==
    ASSUME Card!BoardOK(card), ~card.legacy, NEW f \in Card!Elems(card.fans), NEW s, s.fan = f.code
    PROVE  Card!Fan(s) = Card!FanLabel(f)
<1> DEFINE P == {i \in DOMAIN card.fans : card.fans[i].code = s.fan}
<1>1. card.fans \in Seq([code : STRING, label : STRING])
      /\ \A g, h \in Card!Elems(card.fans) : g.code = h.code \/ g.label = h.label => g = h
  BY DEF Card!BoardOK
<1>2. P # {} /\ P \in SUBSET DOMAIN card.fans
  BY DEF Card!Elems
<1>3. PICK i \in P : Card!FirstIn(card.fans, P) = card.fans[i]
  BY <1>1, <1>2, FirstIsThere
<1>4. card.fans[i] = f
  BY <1>1 DEF Card!Elems
<1> QED BY <1>3, <1>4 DEF Card!Fan

LEMMA FanOfLabel ==
    ASSUME Card!BoardOK(card), NEW label \in Card!FanModes
    PROVE  /\ Card!FanCode(label) \in Kind.fan
           /\ \A s : s.fan = Card!FanCode(label) => Card!Fan(s) = label
<1> DEFINE Static(c) == c \in DOMAIN Card!DeviceToFan /\ Card!DeviceToFan[c] = label
           Offers(c) == card.legacy \/ \E f \in Card!Elems(card.fans) : f.code = c
<1>1. \A c, d : Static(c) /\ Static(d) => c = d
  BY FanScale
<1>2. \A c : Static(c) => Card!Inverted(Card!DeviceToFan, label) = c
  BY <1>1 DEF Card!Inverted
<1>3. CASE \E c : Static(c) /\ Offers(c)
  <2>1. PICK c : Static(c) /\ Offers(c)
    BY <1>3
  <2>2. Card!FanCode(label) = c
    BY <1>2, <2>1 DEF Card!FanCode
  <2>3. CASE card.legacy
    BY <2>1, <2>2, <2>3, KindFields DEF Card!Fan
  <2>4. CASE ~card.legacy
    <3>1. PICK f \in Card!Elems(card.fans) : f.code = c
      BY <2>1, <2>4
    <3>2. Card!FanLabel(f) = label
      BY <2>1, <3>1 DEF Card!FanLabel
    <3> QED BY <2>2, <2>4, <3>1, <3>2, FanOfCode, KindFields
  <2> QED BY <2>3, <2>4
<1>4. CASE ~\E c : Static(c) /\ Offers(c)
  <2>1. ~card.legacy
    BY <1>4 DEF Card!FanModes
  <2>2. PICK f \in Card!Elems(card.fans) : Card!FanLabel(f) = label
    BY <2>1 DEF Card!FanModes
  <2>3. f.label = label
    BY <1>4, <2>2 DEF Card!FanLabel
  <2> DEFINE P == {i \in DOMAIN card.fans : card.fans[i].label = label}
  <2>4. card.fans \in Seq([code : STRING, label : STRING])
        /\ \A g, h \in Card!Elems(card.fans) : g.code = h.code \/ g.label = h.label => g = h
    BY <2>1 DEF Card!BoardOK
  <2>5. P # {} /\ P \in SUBSET DOMAIN card.fans
    BY <2>3 DEF Card!Elems
  <2>6. PICK i \in P : Card!FirstIn(card.fans, P) = card.fans[i]
    BY <2>4, <2>5, FirstIsThere
  <2>7. card.fans[i] = f
    BY <2>3, <2>4 DEF Card!Elems
  <2>8. Card!FanCode(label) = f.code
    BY <1>4, <2>6, <2>7 DEF Card!FanCode
  <2> QED BY <2>1, <2>2, <2>8, FanOfCode, KindFields
<1> QED BY <1>3, <1>4

\* A vane position written for a word of the card is shown as that word
LEMMA DirectionOfWord ==
    ASSUME Card!BoardOK(card), NEW word \in Card!SwingModes,
               card.legacy \/ card.swings # "oscillation"
    PROVE  /\ Card!Inverted(Card!DeviceToSwing, word) \in Kind.direction
           /\ \A s : s.direction = Card!Inverted(Card!DeviceToSwing, word) => Card!Swing(s) = word
<1>1. PICK c \in DOMAIN Card!DeviceToSwing : Card!DeviceToSwing[c] = word
      /\ (~card.legacy => card.swings = "direction" /\ c \in card.directions)
  <2>1. ~card.legacy => card.swings \in {"none", "oscillation", "direction"}
                         /\ card.directions \subseteq DOMAIN Card!DeviceToSwing
    BY DEF Card!BoardOK
  <2> QED BY <2>1 DEF Card!SwingModes, Card!AllSwings
<1>2. Card!Inverted(Card!DeviceToSwing, word) = c
  <2>1. \A d \in DOMAIN Card!DeviceToSwing : Card!DeviceToSwing[d] = word => d = c
    BY <1>1, SwingTable
  <2> QED BY <1>1, <2>1 DEF Card!Inverted
<1>3. c \in Kind.direction
  BY <1>1, KindFields
<1>4. \A s : s.direction = c => Card!Swing(s) = word
  BY <1>1 DEF Card!Swing
<1> QED BY <1>2, <1>3, <1>4


\* A call of one command that ends with it: what is left to show of each kind
LEMMA OneCommand ==
    ASSUME Card!ClimateOK, CardInv, UNCHANGED <<card, learned>>, NEW c \in Slots,
           NEW k, k = calls[c], k.at = "send",
           NEW fields, Fits(fields), TokenWrite(fields),
           ~card.legacy /\ "preset" \in DOMAIN fields => fields.preset \in Listed,
           Card!Send(c, fields, Card!Idle),
           ASSUME NEW u \in Card!Taken(room, fields), u = room', cardSeen = room
           PROVE  Card!Shown(k)'
    PROVE  CardInv'
<1>1. k.at # "idle" /\ (k.clean => cardSeen = room)
  BY CallFacts DEF Knows
<1>2. Card!Idle.at = "idle" /\ Follows(Card!Idle, k)
  BY DEF Card!Idle, Follows
<1>3. k.clean /\ room' \in Card!Taken(room, fields)
      /\ cardSeen' = Card!Written(cardSeen, fields) => Card!Shown(k)'
  BY <1>1
<1> QED BY <1>1, <1>2, <1>3, Sent

LEMMA SendOneStep ==
    ASSUME Card!ClimateOK, CardInv, NEW c \in Slots, Card!SendOne(c)
    PROVE  CardInv'
<1>1. PICK k : k = calls[c]
  OBVIOUS
<1>2. k.at = "send" /\ UNCHANGED <<card, learned>>
  BY <1>1 DEF Card!SendOne
<1>3. /\ Card!BoardOK(card) /\ IsReading(room) /\ Card!Existing(room) = room /\ Asked(k)
      /\ IsReading(cardSeen) /\ cardSeen.preset \in Kind.preset
  BY <1>1, <1>2, CallFacts
<1>4. /\ k.what \in {"fan", "swing", "sleep", "power", "beep", "light"} /\ k.hvac = None
      /\ k.what = "fan" => k.val \in Card!FanModes
      /\ k.what = "swing" => k.val \in Card!SwingModes
      /\ k.what = "sleep" => card.legacy /\ k.val \in Nat
      /\ k.what \in {"power", "beep", "light"} => k.val \in BOOLEAN
  BY <1>2, <1>3 DEF Asked, Card!ClimateOK
<1>5. {"on", "fan", "direction", "vertical", "horizontal", "night", "volume"}
        \subseteq DOMAIN Kind \ {"preset", "sleep", "ocf", "vs"}
  BY KindFields
<1>6. CASE k.what = "fan"
  <2>1. PICK code : code = Card!FanCode(k.val)
    OBVIOUS
  <2>2. code \in Kind.fan /\ \A s : s.fan = code => Card!Fan(s) = k.val
    BY <1>3, <1>4, <1>6, <2>1, FanOfLabel
  <2>3. PICK fields : fields = One("fan", code)
    OBVIOUS
  <2>4. Fits(fields) /\ TokenWrite(fields) /\ DOMAIN fields = {"fan"}
    BY <1>5, <2>2, <2>3, OneFits
  <2>5. Card!Send(c, fields, Card!Idle)
    BY <1>1, <1>6, <2>1, <2>3, OneRecord DEF Card!SendOne
  <2>6. ASSUME NEW u \in Card!Taken(room, fields), u = room', cardSeen = room
        PROVE  Card!Shown(k)'
    <3>1. u.fan = code
      BY <1>3, <1>5, <2>2, <2>3, OneTaken
    <3>2. Card!Fan(u) = k.val
      BY <2>2, <3>1
    <3>3. Card!Fan(room)' = k.val
      <4>1. \A s : Card!Fan(s)' = Card!Fan(s)
        BY <1>2 DEF Card!Fan, Card!FanLabel, Card!FirstIn
      <4>2. Card!Fan(u)' = k.val
        BY <3>2, <4>1
      <4> QED BY <2>6, <4>2 DEF Card!Fan, Card!FanLabel, Card!FirstIn
    <3> QED BY <1>4, <1>6, <3>3 DEF Card!Shown
  <2> QED BY <1>1, <1>2, <2>4, <2>5, <2>6, OneCommand
<1>7. CASE k.what = "swing" /\ card.swings = "oscillation" /\ ~card.legacy
  <2>1. PICK up \in BOOLEAN, side \in BOOLEAN :
          up = (k.val \in {"vertical", "both"}) /\ side = (k.val \in {"horizontal", "both"})
    <3> DEFINE Up == k.val \in {"vertical", "both"}
               Side == k.val \in {"horizontal", "both"}
    <3>1. Up \in BOOLEAN /\ Side \in BOOLEAN
      OBVIOUS
    <3> HIDE DEF Up, Side
    <3>2. \E up \in BOOLEAN, side \in BOOLEAN : up = Up /\ side = Side
      BY <3>1
    <3> QED BY <3>2 DEF Up, Side
  <2>7. (up <=> k.val \in {"vertical", "both"}) /\ (side <=> k.val \in {"horizontal", "both"})
    BY <2>1
  <2>2. PICK fields : fields = [vertical |-> up, horizontal |-> side]
    OBVIOUS
  <2>3. /\ DOMAIN fields = {"vertical", "horizontal"}
        /\ fields.vertical = up /\ fields.horizontal = side
    BY <2>2
  <2>4. Fits(fields) /\ TokenWrite(fields) /\ ~WrongChannel(fields)
        /\ DOMAIN fields \cap {"preset", "sleep"} = {} /\ None \notin BOOLEAN
    BY <2>3, KindFields DEF Fits, TokenWrite, WrongChannel, Card!ClimateOK
  <2>5. Card!Send(c, fields, Card!Idle)
    BY <1>1, <1>7, <2>1, <2>2 DEF Card!SendOne
  <2>6. ASSUME NEW u \in Card!Taken(room, fields), u = room', cardSeen = room
        PROVE  Card!Shown(k)'
    <3>1. u.vertical = up /\ u.horizontal = side
      BY <1>3, <1>5, <2>3, <2>4, PlainWrite
    <3>2. k.val \in {"off", "both", "vertical", "horizontal"}
      BY <1>4, <1>7, SwingTable DEF Card!SwingModes, Card!AllSwings
    <3>4. Card!OscillationSwing(u) = k.val
      BY <2>7, <3>1, <3>2 DEF Card!OscillationSwing
    <3>3. Card!Swing(room)' = k.val
      BY <1>2, <1>7, <2>6, <3>4 DEF Card!Swing, Card!OscillationSwing
    <3> QED BY <1>4, <1>7, <3>3 DEF Card!Shown
  <2> QED BY <1>1, <1>2, <2>3, <2>4, <2>5, <2>6, OneCommand
<1>8. CASE k.what = "swing" /\ ~(card.swings = "oscillation" /\ ~card.legacy)
  <2>1. PICK code : code = Card!Inverted(Card!DeviceToSwing, k.val)
    OBVIOUS
  <2>2. code \in Kind.direction /\ \A s : s.direction = code => Card!Swing(s) = k.val
    BY <1>3, <1>4, <1>8, <2>1, DirectionOfWord
  <2>3. PICK fields : fields = One("direction", code)
    OBVIOUS
  <2>4. Fits(fields) /\ TokenWrite(fields) /\ DOMAIN fields = {"direction"}
    BY <1>5, <2>2, <2>3, OneFits
  <2>5. Card!Send(c, fields, Card!Idle)
    BY <1>1, <1>8, <2>1, <2>3, OneRecord DEF Card!SendOne
  <2>6. ASSUME NEW u \in Card!Taken(room, fields), u = room', cardSeen = room
        PROVE  Card!Shown(k)'
    <3>1. u.direction = code
      BY <1>3, <1>5, <2>2, <2>3, OneTaken
    <3>2. Card!Swing(u) = k.val
      BY <2>2, <3>1
    <3>3. Card!Swing(room)' = k.val
      BY <1>2, <2>6, <3>2 DEF Card!Swing, Card!OscillationSwing
    <3> QED BY <1>4, <1>8, <3>3 DEF Card!Shown
  <2> QED BY <1>1, <1>2, <2>4, <2>5, <2>6, OneCommand
<1>9. CASE k.what = "sleep"
  <2>1. PICK fields : fields = Card!SleepOptions(k.val, cardSeen)
    OBVIOUS
  <2>2. /\ DOMAIN fields = {"preset", "sleep"} /\ fields.sleep = k.val
        /\ fields.preset = IF cardSeen.preset \in {"Nano", "NanoSleep"}
                           THEN IF k.val > 0 THEN "NanoSleep" ELSE "Nano"
                           ELSE IF k.val > 0 THEN "Sleep" ELSE "Off"
    BY <2>1 DEF Card!SleepOptions
  <2>3. fields.preset \in {"NanoSleep", "Nano", "Sleep", "Off"}
    BY <2>2
  <2>4. fields.preset \in Kind.preset /\ None \notin Kind.preset /\ None \notin Nat
    BY <1>3, <2>3, KindFields, CodesKnown DEF Card!LegacyCodes, Card!ClimateOK
  <2>5. Fits(fields) /\ TokenWrite(fields)
    BY <1>4, <1>9, <2>2, <2>4, KindFields DEF Fits, TokenWrite
  <2>6. Card!Send(c, fields, Card!Idle)
    BY <1>1, <1>9, <2>1 DEF Card!SendOne
  <2>7. ASSUME NEW u \in Card!Taken(room, fields), u = room', cardSeen = room
        PROVE  Card!Shown(k)'
    <3>1. ~(room.mode = "Auto" /\ fields.preset \in {"Nano", "NanoSleep"})
      BY <1>3, <1>4, <1>9, <2>2, <2>7, NoWindFreeInAuto
    <3>2. u.sleep = k.val
      BY <1>3, <1>4, <1>9, <2>2, <2>4, <2>5, <3>1, TokenTaken
    <3> QED BY <1>4, <1>9, <2>7, <3>2 DEF Card!Shown
  <2> QED BY <1>1, <1>2, <1>4, <1>9, <2>5, <2>6, <2>7, OneCommand
<1>10. CASE k.what = "power"
  <2>1. PICK fields : fields = One("on", k.val)
    OBVIOUS
  <2>2. k.val \in Kind.on /\ Fits(fields) /\ TokenWrite(fields) /\ DOMAIN fields = {"on"}
    BY <1>4, <1>5, <1>10, <2>1, OneFits, KindFields
  <2>3. Card!Send(c, fields, Card!Idle)
    BY <1>1, <1>4, <1>10, <2>1, OneRecord DEF Card!SendOne
  <2>4. ASSUME NEW u \in Card!Taken(room, fields), u = room', cardSeen = room
        PROVE  Card!Shown(k)'
    <3>1. u.on = k.val
      BY <1>3, <1>5, <2>1, <2>2, OneTaken
    <3> QED BY <1>4, <1>10, <2>4, <3>1 DEF Card!Shown
  <2> QED BY <1>1, <1>2, <2>2, <2>3, <2>4, OneCommand
<1>11. CASE k.what = "beep"
  <2>1. PICK token : token = Card!BeepToken(k.val, cardSeen)
    OBVIOUS
  <2>2. token \in Kind.volume /\ (token # "Mute") = k.val
    <3>1. cardSeen.volume \in {"33", "100", "Mute"}
      BY <1>3, KindFields, ReadingFields
    <3> QED BY <1>4, <1>11, <2>1, <3>1, KindFields DEF Card!BeepToken
  <2>3. PICK fields : fields = One("volume", token)
    OBVIOUS
  <2>4. Fits(fields) /\ TokenWrite(fields) /\ DOMAIN fields = {"volume"}
    BY <1>5, <2>2, <2>3, OneFits
  <2>5. Card!Send(c, fields, Card!Idle)
    BY <1>1, <1>11, <2>1, <2>3, OneRecord DEF Card!SendOne
  <2>6. ASSUME NEW u \in Card!Taken(room, fields), u = room', cardSeen = room
        PROVE  Card!Shown(k)'
    <3>1. u.volume = token
      BY <1>3, <1>5, <2>2, <2>3, OneTaken
    <3> QED BY <1>4, <1>11, <2>2, <2>6, <3>1 DEF Card!Shown
  <2> QED BY <1>1, <1>2, <2>4, <2>5, <2>6, OneCommand
<1>12. CASE k.what = "light"
  <2>1. PICK token \in BOOLEAN : token = Card!LightToken(k.val) /\ token = ~k.val
    BY DEF Card!LightToken
  <2>2. PICK fields : fields = One("night", token)
    OBVIOUS
  <2>3. token \in Kind.night /\ Fits(fields) /\ TokenWrite(fields) /\ DOMAIN fields = {"night"}
    BY <1>5, <2>2, OneFits, KindFields
  <2>4. Card!Send(c, fields, Card!Idle)
    BY <1>1, <1>12, <2>1, <2>2, OneRecord DEF Card!SendOne
  <2>5. ASSUME NEW u \in Card!Taken(room, fields), u = room', cardSeen = room
        PROVE  Card!Shown(k)'
    <3>1. u.night = token
      BY <1>3, <1>5, <2>2, <2>3, OneTaken
    <3> QED BY <1>4, <1>12, <2>1, <2>5, <3>1 DEF Card!Shown
  <2> QED BY <1>1, <1>2, <2>3, <2>4, <2>5, OneCommand
<1> QED BY <1>4, <1>6, <1>7, <1>8, <1>9, <1>10, <1>11, <1>12


-----------------------------------------------------------------------------
(* The steps that are no command. *)

LEMMA AskForCall ==
    ASSUME Calls, NEW c \in Slots, NEW what, NEW hvac, NEW v, NEW at,
           Card!AskFor(c, what, hvac, v, at), NEW k, k = calls'[c]
    PROVE  /\ DOMAIN k = CallFields /\ k.what = what /\ k.hvac = hvac /\ k.val = v /\ k.at = at
           /\ k.clean \in BOOLEAN /\ (k.clean => cardSeen = room)
           /\ k.running = (room.sleep # 0) /\ (~k.ai => cardSeen.mode # Card!AIComfort)
<1> DEFINE clean == cardSeen = room
           running == room.sleep # 0
           ai == cardSeen.mode = Card!AIComfort
<1>1. clean \in BOOLEAN
  OBVIOUS
<1>2. k = [what |-> what, hvac |-> hvac, val |-> v, at |-> at,
           code |-> None, clean |-> clean, running |-> running, ai |-> ai]
  BY DEF Card!AskFor, Calls
<1> HIDE DEF clean, running, ai
<1>3. DOMAIN k = CallFields /\ k.what = what /\ k.hvac = hvac /\ k.val = v /\ k.at = at
      /\ k.clean = clean /\ k.running = running /\ k.ai = ai
  BY <1>2 DEF CallFields
<1> QED BY <1>1, <1>3 DEF clean, running, ai

LEMMA Asks ==
    ASSUME Card!ClimateOK, CardInv, UNCHANGED <<card, room, cardSeen, learned>>, result' = None,
           NEW c \in Slots, NEW k, k = calls'[c], IsCall(k), k.clean => Knows(k),
           calls' = [calls EXCEPT ![c] = k]
    PROVE  CardInv'
<1>1. Readings /\ Calls
  BY DEF CardInv
<1>2. \A d \in Slots : calls'[d] = IF d = c THEN k ELSE calls[d]
  BY <1>1 DEF Calls
<1>3. Readings'
  BY <1>1, BoardStays DEF Readings, IsReading, Card!Existing, Listed
<1>4. Calls'
  <2>1. calls' = [d \in Slots |-> calls'[d]]
    BY <1>1 DEF Calls
  <2>2. ASSUME NEW d \in Slots, calls'[d].at # "idle"
        PROVE  IsCall(calls[d])'
    <3>1. PICK q : q = calls'[d]
      OBVIOUS
    <3>2. IsCall(q)
      BY <1>1, <1>2, <2>2, <3>1 DEF Calls
    <3>3. IsCall(q)'
      BY <3>2, AskedStays DEF Listed
    <3> QED BY <3>1, <3>3 DEF IsCall, Asked
  <2> QED BY <2>1, <2>2 DEF Calls
<1>5. Undisturbed'
  <2>1. ASSUME NEW d \in Slots, calls'[d].at # "idle", calls'[d].clean
        PROVE  Knows(calls[d])'
    <3>1. PICK q : q = calls'[d]
      OBVIOUS
    <3>2. Knows(q)
      BY <1>2, <2>1, <3>1 DEF CardInv, Undisturbed
    <3>3. Knows(q)'
      BY <3>2, KnownStays
    <3> QED BY <3>1, <3>3 DEF Knows
  <2> QED BY <2>1 DEF Undisturbed
<1> QED BY <1>3, <1>4, <1>5 DEF CardInv, Card!ChosenIsShown

LEMMA AskStep ==
    ASSUME Card!ClimateOK, CardInv, NEW c \in Slots, Card!Ask(c)
    PROVE  CardInv'
<1>1. /\ UNCHANGED <<card, room, cardSeen, learned>> /\ result' = None
      /\ calls = [d \in Slots |-> calls[d]] /\ Calls
      /\ Card!BoardOK(card) /\ cardSeen.preset \in Kind.preset
      /\ (~card.legacy => Listed \subseteq Kind.preset)
  BY KindFields, ReadingFields DEF Card!Ask, CardInv, Calls, Readings, Card!ClimateOK
<1>2. PICK k : k = calls'[c]
  OBVIOUS
<1>3. \A m \in Card!Elems(Card!Modes) : Card!HvacOf(m) \in Card!HvacModes
  BY HvacCodes DEF Card!HvacModes
<1>4. Card!Elems(card.modes) \subseteq Card!Elems(Card!Modes)
  BY <1>1, ModesListed
<1>5. PICK what, hvac, v, at :
        /\ Card!AskFor(c, what, hvac, v, at)
        /\ \/ what = "hvac" /\ hvac \in Card!HvacModes /\ at = "hvac"
           \/ what = "temp" /\ hvac = None /\ v \in Temps /\ at = "temp"
           \/ what = "temp" /\ hvac \in Card!HvacModes /\ v \in Temps /\ at = "hvac"
           \/ what = "fan" /\ hvac = None /\ v \in Card!FanModes /\ at = "send"
           \/ what = "swing" /\ hvac = None /\ v \in Card!SwingModes /\ at = "send"
           \/ what = "preset" /\ hvac = None /\ v \in Card!PresetModes(cardSeen) /\ at = "choose"
           \/ what = "sleep" /\ hvac = None /\ card.legacy /\ v \in Hours /\ at = "send"
           \/ what \in {"power", "beep", "light"} /\ hvac = None /\ v \in BOOLEAN /\ at = "send"
  <2>1. ASSUME NEW h \in {"off"} \cup {Card!HvacOf(m) : m \in Card!Elems(card.modes)}
        PROVE  h \in Card!HvacModes
    BY <1>3, <1>4 DEF Card!HvacModes
  <2> QED BY <2>1 DEF Card!Ask
<1>6. /\ DOMAIN k = CallFields /\ k.what = what /\ k.hvac = hvac /\ k.val = v /\ k.at = at
      /\ k.clean \in BOOLEAN /\ (k.clean => cardSeen = room)
      /\ k.running = (room.sleep # 0) /\ (~k.ai => cardSeen.mode # Card!AIComfort)
  BY <1>1, <1>2, <1>5, AskForCall
<1>7. k.at = "choose" => k.what = "preset"
      /\ (k.val = "ai_comfort" => Card!AIComfort \in Card!Elems(Card!Modes))
  <2>1. \A code \in Card!Convenient(cardSeen) : Card!ToHa(code) # "ai_comfort"
    BY <1>1, OfferedCodes
  <2> QED BY <1>5, <1>6, <2>1 DEF Card!PresetModes
<1>8. Asked(k)
  BY <1>5, <1>6, <1>7 DEF Asked
<1>9. IsCall(k)
  BY <1>5, <1>6, <1>8 DEF IsCall
<1>10. k.clean => Knows(k)
  BY <1>5, <1>6 DEF Knows
<1>11. calls' = [calls EXCEPT ![c] = k]
  BY <1>1, <1>2, <1>5 DEF Card!AskFor
<1> QED BY <1>1, <1>2, <1>9, <1>10, <1>11, Asks

LEMMA SweepStep ==
    ASSUME Card!ClimateOK, CardInv, Card!Sweep
    PROVE  CardInv'
<1>1. Readings /\ Calls /\ Undisturbed /\ Card!ChosenIsShown /\ Card!BoardOK(card)
      /\ UNCHANGED <<card, room, calls, result>> /\ cardSeen' = room
  BY DEF CardInv, Card!Sweep, Readings, Card!ClimateOK
<1>2. IsReading(room) /\ Card!Existing(room) = room /\ room.preset \in Kind.preset
  BY <1>1, KindFields, ReadingFields DEF Readings
<1>3. Listed \subseteq Listed' /\ (~card.legacy => Listed' \subseteq Kind.preset
      /\ room.preset \in Listed')
  BY <1>1, <1>2 DEF Readings, Listed, Card!Sweep, Card!BoardOK
<1>4. Readings'
  BY <1>1, <1>2, <1>3, ReadingsStep DEF Readings
<1>5. Calls'
  <2>1. \A q : IsCall(q) => IsCall(q)'
    BY <1>1, <1>3, AskedStays
  <2>2. ASSUME NEW d \in Slots, calls[d].at # "idle"
        PROVE  IsCall(calls[d])'
    <3>1. PICK q : q = calls[d]
      OBVIOUS
    <3>2. IsCall(q)'
      BY <1>1, <2>1, <2>2, <3>1 DEF Calls
    <3> QED BY <1>1, <3>1, <3>2 DEF IsCall, Asked
  <2> QED BY <1>1, <2>2 DEF Calls
<1>6. Undisturbed'
  <2>1. ASSUME NEW d \in Slots, calls[d].at # "idle", calls[d].clean
        PROVE  Knows(calls[d])'
    <3>1. PICK q : q = calls[d]
      OBVIOUS
    <3>2. Knows(q)
      BY <1>1, <2>1, <3>1 DEF Undisturbed
    <3>3. q.at = "temp"
      BY <1>1, <3>2 DEF Knows, Card!Sweep
    <3>4. q.what = "temp"
      BY <1>1, <2>1, <3>1, <3>3 DEF Calls, IsCall, Asked
    <3>5. Card!Hvac(room)' = Card!Hvac(room)
      BY <1>1 DEF Card!Hvac, Card!HvacOf
    <3> QED BY <1>1, <3>1, <3>2, <3>3, <3>4, <3>5 DEF Knows
  <2> QED BY <1>1, <2>1 DEF Undisturbed
<1>7. Card!ChosenIsShown'
  <2>1. ASSUME result # None
        PROVE  Card!Shown(result)'
    <3>1. PICK r : r = result
      OBVIOUS
    <3>2. Card!Shown(r)'
      BY <1>1, <2>1, <3>1, ShownStays DEF Card!ChosenIsShown
    <3> QED BY <1>1, <3>1, <3>2 DEF Card!Shown
  <2> QED BY <1>1, <2>1 DEF Card!ChosenIsShown
<1> QED BY <1>4, <1>5, <1>6, <1>7 DEF CardInv

LEMMA RemoteStep ==
    ASSUME Card!ClimateOK, CardInv, Card!Remote
    PROVE  CardInv'
<1>1. Readings /\ Calls /\ Card!BoardOK(card) /\ UNCHANGED <<card, cardSeen, learned>>
      /\ result' = None
      /\ IsReading(room) /\ IsReading(cardSeen) /\ Card!Existing(room) = room
         /\ DOMAIN room = DOMAIN Kind
  BY ReadingFields DEF CardInv, Card!Remote, Readings, Card!ClimateOK
<1>2. PICK u : u = room'
  OBVIOUS
<1>3. IsReading(u) /\ Card!Existing(u) = u
  <2>1. CASE \E m \in Card!Elems(Card!Modes) : room' = Card!Existing([room EXCEPT !.mode = m,
            !.on = TRUE])
    <3>1. PICK m \in Card!Elems(Card!Modes), on \in BOOLEAN :
            on = TRUE /\ u = Card!Existing([room EXCEPT !.mode = m, !.on = TRUE])
      BY <1>2, <2>1
    <3>2. PICK t : t = [room EXCEPT !.mode = m]
      OBVIOUS
    <3>3. IsReading(t)
      BY <1>1, <3>2, ChangedReads, KindFields
    <3>4. IsReading([t EXCEPT !.on = on])
      BY <3>3, ChangedReads, KindFields
    <3>5. u = Card!Existing([t EXCEPT !.on = on])
      BY <3>1, <3>2
    <3> QED BY <3>4, <3>5, ExistingReads
  <2>2. CASE room' = [room EXCEPT !.on = ~@]
    <3>1. PICK on \in BOOLEAN : on = ~room.on
      OBVIOUS
    <3>2. u = [room EXCEPT !.on = on]
      BY <1>2, <2>2, <3>1
    <3>3. IsReading(u)
      BY <1>1, <3>2, ChangedReads, KindFields
    <3>4. u.mode = room.mode /\ u.preset = room.preset
      BY <1>1, <3>2, KindFields
    <3> QED BY <1>1, <3>3, <3>4, NoWindFreeInAuto, ExistingReads
  <2>3. CASE \E p \in card.presets, n \in Hours :
               room' = Card!Existing([room EXCEPT !.preset = p,
                   !.sleep = IF card.legacy THEN n ELSE 0])
    <3>1. PICK p \in card.presets, n \in Nat : u = Card!Existing(InPreset(room, p, n))
      BY <1>2, <2>3 DEF InPreset, Card!ClimateOK
    <3>2. IsReading(InPreset(room, p, n))
      BY <1>1, PresetChanged, KindFields
    <3> QED BY <3>1, <3>2, ExistingReads
  <2> QED BY <2>1, <2>2, <2>3 DEF Card!Remote
<1>4. PICK s : s = cardSeen
  OBVIOUS
<1>5. Readings'
  BY <1>1, <1>2, <1>3, <1>4, ReadingsStep DEF Readings, Listed
<1>6. \A d \in Slots : calls'[d] = IF calls[d].at = "idle" THEN Card!Idle ELSE Disturbed(calls[d])
  BY DEF Card!Remote, Disturbed
<1>7. ASSUME NEW d \in Slots, calls'[d].at # "idle"
      PROVE  IsCall(calls'[d]) /\ calls'[d].clean = FALSE
  <2>1. calls[d].at # "idle" /\ calls'[d] = Disturbed(calls[d])
    BY <1>6, <1>7 DEF Card!Idle
  <2>2. IsCall(calls[d])
    BY <1>1, <2>1 DEF Calls
  <2> QED BY <2>1, <2>2, DisturbedCall
<1>8. Calls'
  <2>1. calls' = [d \in Slots |-> calls'[d]]
    BY DEF Card!Remote
  <2>2. ASSUME NEW d \in Slots, calls'[d].at # "idle"
        PROVE  IsCall(calls[d])'
    <3>1. PICK q : q = calls'[d]
      OBVIOUS
    <3>2. IsCall(q)'
      BY <1>1, <1>7, <2>2, <3>1, AskedStays DEF Listed
    <3> QED BY <3>1, <3>2 DEF IsCall, Asked
  <2> QED BY <2>1, <2>2 DEF Calls
<1>9. Undisturbed'
  BY <1>7 DEF Undisturbed
<1> QED BY <1>1, <1>5, <1>8, <1>9 DEF CardInv, Card!ChosenIsShown


LEMMA CardInit == Card!ClimateOK /\ Card!Init => CardInv
<1> SUFFICES ASSUME Card!ClimateOK, Card!Init
             PROVE  CardInv
  OBVIOUS
<1>1. Card!BoardOK(card) /\ card \in AirConditioners
  BY DEF Card!Init, Card!ClimateOK
<1>2. PICK m \in Card!Elems(card.modes), on \in BOOLEAN :
        room = [on |-> on, mode |-> m,
                fan |-> IF card.legacy THEN "0" ELSE card.fans[1].code,
                direction |-> "Fix", vertical |-> FALSE, horizontal |-> FALSE,
                preset |-> "Off", sleep |-> 0, night |-> FALSE, volume |-> "33",
                ocf |-> card.ocf, vs |-> card.vs]
  BY DEF Card!Init
<1>3. PICK no, fan : no \in BOOLEAN /\ no = FALSE
      /\ fan = IF card.legacy THEN "0" ELSE card.fans[1].code
  OBVIOUS
<1>4. room = [on |-> on, mode |-> m, fan |-> fan, direction |-> "Fix", vertical |-> no,
              horizontal |-> no, preset |-> "Off", sleep |-> 0, night |-> no, volume |-> "33",
              ocf |-> card.ocf, vs |-> card.vs]
  BY <1>2, <1>3
<1>5. DOMAIN room = DOMAIN Kind
  BY <1>4, KindFields
<1>6. /\ room.on = on /\ room.mode = m /\ room.fan = fan /\ room.direction = "Fix"
      /\ room.vertical = no /\ room.horizontal = no /\ room.preset = "Off" /\ room.sleep = 0
      /\ room.night = no /\ room.volume = "33" /\ room.ocf = card.ocf /\ room.vs = card.vs
  BY <1>4
<1>7. room = [f \in DOMAIN Kind |-> room[f]]
  BY <1>4, <1>5
<1>8. fan \in Kind.fan
  <2>1. CASE card.legacy
    BY <1>3, <2>1, KindFields, FanScale
  <2>2. CASE ~card.legacy
    <3>1. card.fans \in Seq([code : STRING, label : STRING]) /\ card.fans # <<>>
      BY <1>1, <2>2 DEF Card!BoardOK
    <3>2. 1 \in DOMAIN card.fans
      BY <3>1
    <3> QED BY <1>3, <2>2, <3>2, KindFields DEF Card!Elems
  <2> QED BY <2>1, <2>2
<1>9. "Fix" \in Kind.direction
  BY <1>1, KindFields, SwingTable DEF Card!BoardOK
<1>10. m \in Kind.mode /\ "Off" \in Kind.preset /\ "33" \in Kind.volume
       /\ card.ocf \in Kind.ocf /\ card.vs \in Kind.vs
  BY <1>1, ModesListed, KindFields DEF Card!LegacyCodes, Card!BoardOK
<1>11. IsReading(room)
  <2>1. ASSUME NEW f \in DOMAIN Kind
        PROVE  room[f] \in Kind[f]
    BY <1>3, <1>6, <1>8, <1>9, <1>10, KindFields
  <2> QED BY <1>7, <2>1 DEF IsReading
<1>12. Card!Existing(room) = room
  BY <1>6 DEF Card!Existing
<1>13. Readings
  <2>1. Listed = card.advertised /\ card.presets \subseteq Kind.preset
    BY KindFields DEF Listed, Card!Init
  <2> QED BY <1>1, <1>6, <1>11, <1>12, <2>1 DEF Readings, Card!Init, Card!BoardOK
<1>14. Calls /\ Undisturbed /\ Card!ChosenIsShown
  BY DEF Calls, Undisturbed, Card!ChosenIsShown, Card!Init, Card!Idle
<1> QED BY <1>13, <1>14 DEF CardInv

LEMMA CardStep == Card!ClimateOK /\ CardInv /\ [Card!Next]_Card!vars => CardInv'
<1> SUFFICES ASSUME Card!ClimateOK, CardInv, [Card!Next]_Card!vars
             PROVE  CardInv'
  OBVIOUS
<1>1. ASSUME NEW c \in Slots, Card!Call(c)
      PROVE  CardInv'
  <2>1. CASE Card!Ask(c)
    BY <2>1, AskStep
  <2>2. CASE Card!SetHvacMode(c)
    BY <2>2, SetHvacModeStep
  <2>3. CASE Card!SetModeAfterPower(c)
    BY <2>3, SetModeAfterPowerStep
  <2>4. CASE Card!SetTemperature(c)
    BY <2>4, SetTemperatureStep
  <2>5. CASE Card!ChoosePreset(c)
    BY <2>5, ChoosePresetStep
  <2>6. CASE Card!Pause(c)
    BY <2>6, PauseStep
  <2>7. CASE Card!SetPreset(c)
    BY <2>7, SetPresetStep
  <2>8. CASE Card!SendOne(c)
    BY <2>8, SendOneStep
  <2> QED BY <1>1, <2>1, <2>2, <2>3, <2>4, <2>5, <2>6, <2>7, <2>8 DEF Card!Call
<1>2. CASE Card!Sweep
  BY <1>2, SweepStep
<1>3. CASE Card!Remote
  BY <1>3, RemoteStep
<1>4. CASE UNCHANGED Card!vars
  <2>1. UNCHANGED <<card, room, cardSeen, learned, calls, result>>
    BY <1>4 DEF Card!vars
  <2>2. Readings'
    BY <2>1, BoardStays DEF CardInv, Readings, IsReading, Card!Existing, Listed
  <2>3. Calls'
    <3>1. ASSUME NEW d \in Slots, calls[d].at # "idle"
          PROVE  IsCall(calls[d])'
      <4>1. PICK q : q = calls[d]
        OBVIOUS
      <4>2. IsCall(q)'
        BY <2>1, <3>1, <4>1, AskedStays DEF CardInv, Calls, Listed
      <4> QED BY <2>1, <4>1, <4>2 DEF IsCall, Asked
    <3> QED BY <2>1, <3>1 DEF CardInv, Calls
  <2>4. Undisturbed'
    <3>1. ASSUME NEW d \in Slots, calls[d].at # "idle", calls[d].clean
          PROVE  Knows(calls[d])'
      <4>1. PICK q : q = calls[d]
        OBVIOUS
      <4>2. Knows(q)'
        BY <2>1, <3>1, <4>1, KnownStays DEF CardInv, Undisturbed
      <4> QED BY <2>1, <4>1, <4>2 DEF Knows
    <3> QED BY <2>1, <3>1 DEF Undisturbed
  <2>5. Card!ChosenIsShown'
    <3>1. ASSUME result # None
          PROVE  Card!Shown(result)'
      <4>1. PICK r : r = result
        OBVIOUS
      <4>2. Card!Shown(r)'
        BY <2>1, <3>1, <4>1, ShownStays DEF CardInv, Card!ChosenIsShown
      <4> QED BY <2>1, <4>1, <4>2 DEF Card!Shown
    <3> QED BY <2>1, <3>1 DEF Card!ChosenIsShown
  <2> QED BY <2>2, <2>3, <2>4, <2>5 DEF CardInv
<1> QED BY <1>1, <1>2, <1>3, <1>4 DEF Card!Next

LEMMA CardInvHolds == ASSUME Card!ClimateOK PROVE Card!Spec => []CardInv
<1>1. CardInv /\ [Card!Next]_Card!vars => CardInv'
  BY CardStep
<1>2. Card!Init => CardInv
  BY CardInit
<1> QED BY <1>1, <1>2, PTL DEF Card!Spec

\* What the card shows of a reading is among what it offers
LEMMA OffersWhatItShows == Card!ClimateOK /\ CardInv => Card!ShownIsOffered
<1> SUFFICES ASSUME Card!ClimateOK, CardInv
             PROVE  Card!ShownIsOffered
  OBVIOUS
<1>1. /\ Card!BoardOK(card) /\ cardSeen.mode \in Card!Elems(Card!Modes) /\ cardSeen.fan \in Kind.fan
      /\ cardSeen.direction \in Kind.direction
      /\ (~card.legacy => cardSeen.preset \in Listed)
  BY KindFields, ReadingFields DEF CardInv, Readings, Card!ClimateOK
<1>2. Card!Hvac(cardSeen) \in Card!HvacModes
  BY <1>1, HvacCodes DEF Card!Hvac, Card!HvacModes
<1>3. Card!Fan(cardSeen) \in Card!FanModes
  <2>1. CASE card.legacy
    BY <1>1, <2>1, KindFields DEF Card!Fan, Card!FanModes
  <2>2. CASE ~card.legacy
    <3>1. PICK f \in Card!Elems(card.fans) : f.code = cardSeen.fan
      BY <1>1, <2>2, KindFields
    <3>2. Card!Fan(cardSeen) = Card!FanLabel(f)
      BY <1>1, <2>2, <3>1, FanOfCode
    <3> QED BY <2>2, <3>2 DEF Card!FanModes
  <2> QED BY <2>1, <2>2
<1>4. Card!Swing(cardSeen) \in Card!SwingModes \cup {None}
  <2>1. \A s : Card!OscillationSwing(s) \in Card!AllSwings
    BY SwingTable DEF Card!OscillationSwing, Card!AllSwings
  <2>2. CASE card.legacy
    <3>1. Card!Swing(cardSeen) = Card!DeviceToSwing[cardSeen.direction]
          /\ cardSeen.direction \in DOMAIN Card!DeviceToSwing
      BY <1>1, <2>2, KindFields DEF Card!Swing
    <3> QED BY <2>2, <3>1 DEF Card!SwingModes, Card!AllSwings
  <2>3. CASE ~card.legacy /\ card.swings = "none"
    BY <2>3 DEF Card!Swing
  <2>4. CASE ~card.legacy /\ card.swings = "oscillation"
    BY <2>1, <2>4 DEF Card!Swing, Card!SwingModes
  <2>5. CASE ~card.legacy /\ card.swings = "direction"
    <3>1. Card!Swing(cardSeen) = Card!DeviceToSwing[cardSeen.direction]
          /\ cardSeen.direction \in card.directions
      BY <1>1, <2>5, KindFields DEF Card!Swing
    <3> QED BY <2>5, <3>1 DEF Card!SwingModes
  <2> QED BY <1>1, <2>2, <2>3, <2>4, <2>5 DEF Card!BoardOK
<1>5. Card!Preset(cardSeen) \in Card!PresetModes(cardSeen)
  BY <1>1 DEF Card!Preset, Card!PresetModes, Card!Convenient, Listed
<1> QED BY <1>2, <1>3, <1>4, <1>5 DEF Card!ShownIsOffered


\* A step of one call leaves the others at theirs
LEMMA OthersStay ==
    ASSUME Card!ClimateOK, CardInv, NEW c \in Slots, calls[c].at # "idle",
           NEW d \in Slots, d # c, Card!Call(d)
    PROVE  calls'[c].at = calls[c].at
<1>1. calls = [e \in Slots |-> calls[e]] /\ IsCall(calls[c])
  BY DEF CardInv, Calls
<1>2. ASSUME NEW then, NEW fields, Card!Send(d, fields, then)
      PROVE  calls'[c].at = calls[c].at
  <2>1. calls'[c] \in {calls[c], Disturbed(calls[c])}
    BY <1>1, <1>2 DEF Card!Send, Disturbed
  <2> QED BY <1>1, <2>1, DisturbedCall
<1>3. ASSUME NEW then, Card!Skip(d, then)
      PROVE  calls'[c].at = calls[c].at
  BY <1>1, <1>3 DEF Card!Skip
<1>4. CASE Card!Ask(d)
  BY <1>1, <1>4 DEF Card!Ask, Card!AskFor
<1>5. ASSUME NEW code, Card!SetMode(d, code)
      PROVE  calls'[c].at = calls[c].at
  BY <1>2, <1>3, <1>5 DEF Card!SetMode
<1>6. CASE Card!SetHvacMode(d)
  BY <1>2, <1>5, <1>6 DEF Card!SetHvacMode
<1>7. CASE Card!SetModeAfterPower(d)
  BY <1>5, <1>7 DEF Card!SetModeAfterPower
<1>8. CASE Card!SetTemperature(d)
  BY <1>2, <1>8 DEF Card!SetTemperature
<1>9. CASE Card!ChoosePreset(d)
  BY <1>2, <1>3, <1>9 DEF Card!ChoosePreset
<1>10. CASE Card!Pause(d)
  BY <1>3, <1>10 DEF Card!Pause
<1>11. CASE Card!SetPreset(d)
  BY <1>2, <1>11 DEF Card!SetPreset
<1>12. CASE Card!SendOne(d)
  <2>1. PICK k : k = calls[d]
    OBVIOUS
  <2>2. k.at = "send"
    BY <1>12, <2>1 DEF Card!SendOne
  <2>3. k.what \in {"fan", "swing", "sleep", "power", "beep", "light"}
    BY <2>1, <2>2, CallFacts DEF Asked
  <2> QED BY <1>2, <1>12, <2>1, <2>3 DEF Card!SendOne
<1> QED BY <1>4, <1>6, <1>7, <1>8, <1>9, <1>10, <1>11, <1>12 DEF Card!Call

\* A choice of WindFree or a sleep mode is written with the timer that runs
LEMMA TimerStays ==
    ASSUME Card!ClimateOK, CardInv, Card!Next, NEW c \in Slots,
           calls[c].at = "preset", calls[c].code \in {"Nano", "Sleep", "NanoSleep"},
           calls'[c].at = "idle", card.legacy, room.sleep > 0, cardSeen.sleep = room.sleep
    PROVE  room'.sleep = room.sleep
<1>1. PICK k : k = calls[c]
  OBVIOUS
<1>2. /\ Card!BoardOK(card) /\ IsReading(room) /\ Card!Existing(room) = room
      /\ room.sleep \in Nat /\ cardSeen.sleep \in Nat /\ Asked(k) /\ k.code \in Kind.preset
      /\ calls = [d \in Slots |-> calls[d]]
  BY <1>1, CallFacts DEF Asked, CardInv, Calls
<1>3. CASE UNCHANGED room
  BY <1>3
<1>4. CASE Card!SetPreset(c)
  <2>1. PICK fields : fields = Card!PresetOptions(k.code, cardSeen)
    OBVIOUS
  <2>2. /\ Fits(fields) /\ TokenWrite(fields) /\ "preset" \in DOMAIN fields
        /\ fields.preset \in {"Sleep", "NanoSleep"}
        /\ fields.sleep # None /\ fields.sleep = room.sleep
    BY <1>1, <1>2, <2>1, OptionsOfPreset
  <2>3. Card!Send(c, fields, Card!Idle)
    BY <1>1, <1>4, <2>1 DEF Card!SetPreset
  <2>4. ASSUME NEW u \in Card!Taken(room, fields)
        PROVE  u.sleep = room.sleep
    BY <1>2, <2>2, <2>4, TokenTaken
  <2> QED BY <2>3, <2>4 DEF Card!Send
<1>5. ASSUME NEW d \in Slots, d # c, Card!Call(d)
      PROVE  FALSE
  BY <1>5, OthersStay
<1>6. ASSUME Card!Call(c), ~Card!SetPreset(c)
      PROVE  FALSE
  BY <1>6 DEF Card!Call, Card!Ask, Card!SetHvacMode, Card!SetModeAfterPower,
       Card!SetTemperature, Card!ChoosePreset, Card!Pause, Card!SendOne
<1>7. CASE Card!Remote
  <2>1. calls'[c].at = calls[c].at
    <3>1. calls'[c] = Disturbed(calls[c]) /\ IsCall(calls[c])
      BY <1>7 DEF Card!Remote, Disturbed, CardInv, Calls
    <3> QED BY <3>1, DisturbedCall
  <2> QED BY <2>1
<1> QED BY <1>3, <1>4, <1>5, <1>6, <1>7 DEF Card!Next, Card!Sweep

\* Turned on again, it is in the mode it was in
LEMMA ModeStays ==
    ASSUME Card!ClimateOK, CardInv, Card!Next, NEW c \in Slots,
           calls[c].at \in {"hvac", "mode"}, calls[c].clean,
           room.mode # Card!AIComfort, Card!HvacOf(room.mode) = calls[c].hvac,
           calls'[c].at # calls[c].at
    PROVE  room'.mode = room.mode
<1>1. PICK k : k = calls[c]
  OBVIOUS
<1>2. /\ Card!BoardOK(card) /\ IsReading(room) /\ Card!Existing(room) = room /\ IsCall(k)
         /\ Asked(k)
      /\ Knows(k) /\ cardSeen = room /\ room.mode \in Card!Elems(Card!Modes)
      /\ calls = [d \in Slots |-> calls[d]]
  BY <1>1, CallFacts DEF CardInv, Calls, Knows
<1>3. k.hvac # "off"
  BY <1>1, HvacCodes
<1>4. Card!DeviceCode(cardSeen, k.hvac) = room.mode
  BY <1>1, <1>2 DEF Card!DeviceCode
<1>5. \A then : Card!SetMode(c, room.mode) => UNCHANGED room
  BY <1>2 DEF Card!SetMode, Card!Skip
<1>6. CASE Card!SetHvacMode(c)
  <2>1. CASE cardSeen.on
    BY <1>1, <1>3, <1>4, <1>5, <1>6, <2>1 DEF Card!SetHvacMode
  <2>2. CASE ~cardSeen.on
    <3>1. PICK on, then, fields :
            on \in BOOLEAN /\ on = TRUE /\ fields = One("on", on) /\ Card!Send(c, fields, then)
      BY <1>1, <1>3, <1>6, <2>2, OneRecord DEF Card!SetHvacMode
    <3>2. "on" \in DOMAIN Kind \ {"preset", "sleep", "ocf", "vs"} /\ on \in Kind.on
          /\ "mode" \in DOMAIN Kind \ {"on", "preset", "sleep"}
      BY <3>1, KindFields
    <3>3. ASSUME NEW u \in Card!Taken(room, One("on", on))
          PROVE  u.mode = room.mode
      BY <1>2, <3>2, <3>3, OneTaken
    <3> QED BY <3>1, <3>3 DEF Card!Send
  <2> QED BY <2>1, <2>2
<1>7. CASE Card!SetModeAfterPower(c)
  <2>1. k.code = room.mode
    BY <1>1, <1>2, <1>4, <1>7 DEF Card!SetModeAfterPower, Knows
  <2> QED BY <1>1, <1>5, <1>7, <2>1 DEF Card!SetModeAfterPower
<1>8. ASSUME Card!Call(c), ~Card!SetHvacMode(c), ~Card!SetModeAfterPower(c)
      PROVE  FALSE
  BY <1>8 DEF Card!Call, Card!Ask, Card!SetTemperature, Card!ChoosePreset, Card!Pause,
       Card!SetPreset, Card!SendOne
<1>9. ASSUME NEW d \in Slots, d # c
      PROVE  ~Card!Call(d)
  BY <1>1, <1>2, <1>9, OthersStay
<1>10. CASE Card!Sweep
  BY <1>10 DEF Card!Sweep
<1>11. CASE Card!Remote
  <2>1. calls'[c] = Disturbed(calls[c])
    BY <1>11 DEF Card!Remote, Disturbed
  <2> QED BY <1>1, <1>2, <2>1, DisturbedCall
<1> QED BY <1>6, <1>7, <1>8, <1>9, <1>10, <1>11 DEF Card!Next

LEMMA CardRuns == PartsSpec => Card!Spec
<1>1. PartsInit => Card!Init
  BY DEF PartsInit
<1>2. [PartsNext]_<<part, vars, cardVars, drumVars, debugVars>> => [Card!Next]_Card!vars
  BY DEF PartsNext, cardVars, Card!vars
<1> QED BY <1>1, <1>2, PTL DEF PartsSpec, Card!Spec

\* What the card shows is among what it offers (climate.py, _legacy_convenient,
\* learned.py): mode, fan, swing and preset, on a board of any modes, fans,
\* vanes and presets, with what it was never told to be in among them.
THEOREM CardOffersWhatItShows == PartsSpec => []CardShownIsOffered
<1>1. CardInv => Card!ShownIsOffered
  BY PartsOK, OffersWhatItShows
<1>2. Card!ShownIsOffered => CardShownIsOffered
  BY DEF CardShownIsOffered
<1> QED BY <1>1, <1>2, PartsOK, CardRuns, CardInvHolds, PTL

\* A call that was answered with nothing in between shows what was chosen
\* (climate.py): through the codes of the board, its two temperature channels,
\* the steps it is set in, and the Cool that WindFree needs.
THEOREM CardShowsWhatWasChosen == PartsSpec => []CardChosenIsShown
<1>1. CardInv => CardChosenIsShown
  BY DEF CardInv, CardChosenIsShown
<1> QED BY <1>1, PartsOK, CardRuns, CardInvHolds, PTL

\* A choice changes nothing on its way that it does not name
\* (airconditioner.py, _preset_options, _device_code_for_hvac): a sleep timer
\* that runs keeps its duration, and a mode that is shown as the one asked for
\* is not swapped for another.
THEOREM CardChangesNoMore == PartsSpec => CardKeepsTheRest
<1> DEFINE Timer ==
        \A c \in Slots :
            /\ calls[c].at = "preset" /\ calls[c].code \in {"Nano", "Sleep", "NanoSleep"}
            /\ calls'[c].at = "idle" /\ card.legacy
            /\ room.sleep > 0 /\ cardSeen.sleep = room.sleep
            => room'.sleep = room.sleep
           Mode ==
        \A c \in Slots :
            /\ calls[c].at \in {"hvac", "mode"} /\ calls[c].clean
            /\ room.mode # Card!AIComfort /\ Card!HvacOf(room.mode) = calls[c].hvac
            /\ calls'[c].at # calls[c].at
            => room'.mode = room.mode
<1>1. CardInv /\ [Card!Next]_Card!vars => [Timer]_Card!vars
  BY PartsOK, TimerStays
<1>2. CardInv /\ [Card!Next]_Card!vars => [Mode]_Card!vars
  BY PartsOK, ModeStays
<1>3. Card!Spec => [][Timer]_Card!vars /\ [][Mode]_Card!vars
  BY <1>1, <1>2, PartsOK, CardInvHolds, PTL DEF Card!Spec
<1> QED BY <1>3, CardRuns DEF CardKeepsTheRest, Card!TimerKept, Card!ModeNotSwapped

-----------------------------------------------------------------------------
(* The courses of a laundry appliance. *)

\* The instance counts as this module does
LEMMA SameCount == \A S : Drum!Cardinality(S) = Cardinality(S)
<1>1. ASSUME NEW S PROVE Drum!Cardinality(S) = Cardinality(S)
  BY DEF Drum!Cardinality, Cardinality
<1> QED BY <1>1

\* A reading is of a course and a level of the appliance
IsDial(s) ==
    /\ s = [course |-> s.course, level |-> s.level]
    /\ s.course \in DOMAIN drum.courses \union drum.others
    /\ s.level \in 0..drum.levels

DrumInv == drum \in Laundries /\ IsDial(load) /\ IsDial(loadSeen) /\ Drum!PickedIsTaken

\* Its bytes are bytes
LEMMA TableOfBytes ==
    ASSUME NEW b, Drum!TableOK(b)
    PROVE  \A j \in 1..Len(b.body) : b.body[j] \in 0..255
<1>1. PICK body : body = b.body
  OBVIOUS
<1>2. body \in Seq(0..255)
  BY <1>1 DEF Drum!TableOK
<1>3. \A j \in 1..Len(body) : body[j] \in 0..255
  BY <1>2, LenProperties
<1> QED BY <1>1, <1>3

\* Where the bytes of the table are
LEMMA BytesOfTable ==
    ASSUME NEW b, Drum!TableOK(b)
    PROVE  /\ Drum!Width(b) \in Nat /\ Drum!Width(b) >= 1 /\ Drum!Count(b) \in Nat
              /\ Drum!Count(b) >= 2
           /\ Len(b.body) = Drum!Count(b) * Drum!Width(b) /\ Len(b.body) \in Nat
           /\ \A i \in 0..Drum!Count(b) - 1 :
                /\ i * Drum!Width(b) \in Nat
                   /\ (i + 1) * Drum!Width(b) = i * Drum!Width(b) + Drum!Width(b)
                /\ i * Drum!Width(b) + Drum!Width(b) <= Len(b.body)
           /\ \A i \in 0..Drum!Count(b) - 1, j \in 1..Drum!Width(b) : Drum!Byte(b, i, j) \in 0..255
<1>1. Drum!Width(b) \in Nat /\ Drum!Width(b) >= 1
  BY DEF Drum!TableOK, Drum!Width
<1>2. Len(b.body) \in Nat
  BY DEF Drum!TableOK
<1>3. Drum!Count(b) \in Nat /\ Drum!Count(b) >= 2 /\ Len(b.body) = Drum!Count(b) * Drum!Width(b)
  BY <1>1, <1>2 DEF Drum!TableOK, Drum!Count
<1>4. ASSUME NEW i \in 0..Drum!Count(b) - 1
      PROVE  /\ i * Drum!Width(b) \in Nat
                /\ (i + 1) * Drum!Width(b) = i * Drum!Width(b) + Drum!Width(b)
             /\ i * Drum!Width(b) + Drum!Width(b) <= Len(b.body)
  <2> DEFINE w == Drum!Width(b)
             n == Drum!Count(b)
  <2>1. w \in Nat /\ n \in Nat /\ i \in Nat /\ i + 1 <= n /\ Len(b.body) = n * w
    BY <1>1, <1>3
  <2> HIDE DEF w, n
  <2>2. i * w \in Nat /\ (i + 1) * w = i * w + w
    BY <2>1
  <2>3. (i + 1) * w + (n - (i + 1)) * w = n * w /\ (n - (i + 1)) * w >= 0
    <3>1. \A d \in Nat : d * w \in Nat /\ ((i + 1) + d) * w = (i + 1) * w + d * w
      BY <2>1
    <3>2. n - (i + 1) \in Nat
      BY <2>1
    <3>3. (n - (i + 1)) * w \in Nat
      BY <3>1, <3>2
    <3>4. ((i + 1) + (n - (i + 1))) * w = (i + 1) * w + (n - (i + 1)) * w
      BY <3>1, <3>2
    <3>5. (i + 1) + (n - (i + 1)) = n
      BY <2>1
    <3> QED BY <3>3, <3>4, <3>5
  <2>4. i * w + w <= Len(b.body)
    BY <2>1, <2>2, <2>3
  <2> QED BY <2>2, <2>4 DEF w
<1>5. ASSUME NEW i \in 0..Drum!Count(b) - 1, NEW j \in 1..Drum!Width(b)
      PROVE  Drum!Byte(b, i, j) \in 0..255
  <2>1. i * Drum!Width(b) + j \in 1..Len(b.body)
    BY <1>1, <1>2, <1>4
  <2> QED BY <2>1, TableOfBytes DEF Drum!Byte
<1> QED BY <1>1, <1>2, <1>3, <1>4, <1>5

\* A course of the table has one record there
LEMMA OneRecordEach ==
    ASSUME NEW b, Drum!TableOK(b)
    PROVE  /\ IsFiniteSet(DOMAIN b.courses) /\ Cardinality(DOMAIN b.courses) = Drum!Count(b)
           /\ \A c \in DOMAIN b.courses : \E i \in 0..Drum!Count(b) - 1 : c = Drum!Code(b, i)
           /\ \A i \in 0..Drum!Count(b) - 1 : Drum!Code(b, i) \in DOMAIN b.courses
<1> DEFINE n == Drum!Count(b)
           f == [i \in 0..n - 1 |-> Drum!Code(b, i)]
<1>1. n \in Nat /\ n >= 2
  BY BytesOfTable
<1>2. IsFiniteSet(0..n - 1) /\ Cardinality(0..n - 1) = n
  BY <1>1, FS_Interval
<1>3. f \in Bijection(0..n - 1, DOMAIN b.courses)
  <2>1. \A i, j \in 0..n - 1 : Drum!Code(b, i) = Drum!Code(b, j) => i = j
    BY DEF Drum!TableOK
  <2>2. DOMAIN b.courses = {Drum!Code(b, i) : i \in 0..n - 1}
    BY DEF Drum!TableOK
  <2> QED BY <2>1, <2>2 DEF Bijection, Injection, Surjection, IsInjective
<1>4. ExistsBijection(0..n - 1, DOMAIN b.courses)
  BY <1>3 DEF ExistsBijection
<1>5. IsFiniteSet(DOMAIN b.courses) /\ Cardinality(DOMAIN b.courses) = n
  BY <1>2, <1>4, FS_Bijection
<1> QED BY <1>5 DEF Drum!TableOK

\* Split by its width, the table yields for each course its record
LEMMA SplitOfTable ==
    ASSUME NEW b, Drum!TableOK(b), NEW c \in DOMAIN b.courses
    PROVE  /\ Drum!Split(b, Drum!Width(b), c) \in [DOMAIN b.courses -> Seq(0..255)]
           /\ \A i \in 0..Drum!Count(b) - 1 :
                /\ Len(Drum!Split(b, Drum!Width(b), c)[Drum!Code(b, i)]) = Drum!Width(b)
                /\ \A j \in 1..Drum!Width(b) : Drum!Split(b, Drum!Width(b), c)[Drum!Code(b,
                    i)][j] = Drum!Byte(b, i, j)
<1> DEFINE w == Drum!Width(b)
           n == Drum!Count(b)
           record(i) == Drum!Record(b, w, i)
           courses == DOMAIN b.courses
<1>1. w \in Nat /\ w >= 1 /\ n \in Nat /\ n >= 2 /\ Len(b.body) = n * w /\ Len(b.body) \in Nat
  BY BytesOfTable
<1>2. Len(b.body) % w = 0 /\ Len(b.body) \div w = n
  <2>1. \A x \in Nat, y \in Nat : y >= 1 => (x * y) % y = 0
    OBVIOUS
  <2>2. Len(b.body) % w = 0
    BY <1>1, <2>1
  <2> QED BY <2>2 DEF Drum!Count
<1>3. ASSUME NEW i \in 0..n - 1
      PROVE  /\ record(i) \in Seq(0..255) /\ Len(record(i)) = w
             /\ \A j \in 1..w : record(i)[j] = Drum!Byte(b, i, j)
  <2>1. /\ i * w \in Nat /\ (i + 1) * w = i * w + w /\ i * w + w <= Len(b.body)
    BY BytesOfTable
  <2> DEFINE m == i * w + 1
             l == (i + 1) * w
  <2>3. m \in Int /\ l \in Int /\ l - m + 1 = w /\ m <= l
    <3> HIDE DEF w
    <3> QED BY <1>1, <2>1
  <2>4. /\ record(i) \in Seq(0..255)
        /\ Len(record(i)) = IF m <= l THEN l - m + 1 ELSE 0
        /\ \A j \in 1 .. l - m + 1 : record(i)[j] = b.body[m + j - 1]
    <3> HIDE DEF m, l
    <3>0. 1 <= m /\ l <= Len(b.body)
      BY <2>1 DEF m, l
    <3>1. \A j \in m .. l : b.body[j] \in 0..255
      <4>1. \A j \in 1..Len(b.body) : b.body[j] \in 0..255
        BY TableOfBytes
      <4>2. \A j \in m .. l : j \in 1..Len(b.body)
        BY <1>1, <2>3, <3>0
      <4> QED BY <4>1, <4>2
    <3>2. /\ SubSeq(b.body, m, l) \in Seq(0..255)
          /\ Len(SubSeq(b.body, m, l)) = IF m <= l THEN l - m + 1 ELSE 0
          /\ \A j \in 1 .. l - m + 1 : SubSeq(b.body, m, l)[j] = b.body[m + j - 1]
      BY <2>3, <3>1, SubSeqProperties
    <3> QED BY <3>2 DEF m, l, Drum!Record
  <2>5. \A j \in 1..w : m + j - 1 = i * w + j
    BY <1>1, <2>1
  <2>6. \A j \in 1..w : record(i)[j] = b.body[i * w + j]
    BY <2>3, <2>4, <2>5
  <2>7. Len(record(i)) = w
    BY <2>3, <2>4
  <2> QED BY <2>4, <2>6, <2>7 DEF Drum!Byte
<1>4. \A i \in 0..n - 1 : record(i)[1] = Drum!Code(b, i)
  <2>1. 1 \in 1..w
    BY <1>1
  <2> HIDE DEF record, w
  <2> QED BY <1>3, <2>1 DEF Drum!Code
<1>5. {record(i)[1] : i \in 0..n - 1} = courses
  <2>1. courses = {Drum!Code(b, i) : i \in 0..n - 1}
    BY DEF Drum!TableOK
  <2> QED BY <1>4, <2>1
<1>6. Drum!Split(b, w, c) = [f \in courses |-> record(CHOOSE i \in 0..n - 1 : record(i)[1] = f)]
  <2>1. Cardinality(courses) = n
    BY OneRecordEach
  <2> HIDE DEF record, w, n, courses
  <2>2. ~(w < 1 \/ Len(b.body) % w # 0)
    BY <1>1, <1>2
  <2>3. ~(n < 2 \/ Cardinality(courses) # n \/ (c # None /\ c \notin courses))
    <3>1. c \in courses
      BY DEF courses
    <3> QED BY <1>1, <2>1, <3>1
  <2>4. PICK q : q = Len(b.body) \div w
    OBVIOUS
  <2>5. Drum!Split(b, w, c) =
          LET firsts == {Drum!Record(b, w, i)[1] : i \in 0..q - 1}
          IN IF q < 2 \/ Cardinality(firsts) # q \/ (c # None /\ c \notin firsts) THEN None
             ELSE [f \in firsts |->
                     Drum!Record(b, w, CHOOSE i \in 0..q - 1 : Drum!Record(b, w, i)[1] = f)]
    BY <2>2, <2>4, SameCount DEF Drum!Split
  <2>7. q = n
    BY <1>2, <2>4
  <2>6. {Drum!Record(b, w, i)[1] : i \in 0..n - 1} = courses
    BY <1>5 DEF record
  <2>8. {Drum!Record(b, w, i)[1] : i \in 0..q - 1} = courses
    BY <2>6, <2>7
  <2>9. ~(q < 2 \/ Cardinality(courses) # q \/ (c # None /\ c \notin courses))
    BY <2>3, <2>7
  <2>10. Drum!Split(b, w, c) =
           [f \in courses |-> Drum!Record(b, w, CHOOSE i \in 0..q - 1 : Drum!Record(b, w, i)[1] = f)]
    BY <2>5, <2>8, <2>9
  <2> QED BY <2>7, <2>10 DEF record
<1>7. ASSUME NEW i \in 0..n - 1
      PROVE  (CHOOSE k \in 0..n - 1 : record(k)[1] = Drum!Code(b, i)) = i
  <2>1. \A k, j \in 0..n - 1 : Drum!Code(b, k) = Drum!Code(b, j) => k = j
    BY DEF Drum!TableOK
  <2> HIDE DEF record
  <2> QED BY <1>4, <2>1
<1>8. ASSUME NEW i \in 0..n - 1
      PROVE  Drum!Split(b, w, c)[Drum!Code(b, i)] = record(i)
  <2>1. Drum!Code(b, i) \in courses
    BY OneRecordEach
  <2> HIDE DEF record, courses, w
  <2> QED BY <1>6, <1>7, <2>1
<1>9. \A f \in courses : \E i \in 0..n - 1 : f = Drum!Code(b, i)
  BY OneRecordEach
<1>10. \A f \in courses : Drum!Split(b, w, c)[f] \in Seq(0..255)
  <2> HIDE DEF record, courses, w, n
  <2> QED BY <1>3, <1>8, <1>9
<1>11. Drum!Split(b, w, c) \in [courses -> Seq(0..255)]
  <2> HIDE DEF record, courses, w, n
  <2> QED BY <1>6, <1>10
<1> QED BY <1>3, <1>8, <1>11

\* The width that is stated is the table's own, of a course that is in it
LEMMA StatedWidth ==
    ASSUME Drum!LaundryOK, NEW b \in Laundries, NEW c \in DOMAIN b.courses, b.hdr = b.groups,
           NEW cover, cover \subseteq DOMAIN b.courses
    PROVE  Drum!CourseRecords(b, c, cover) = Drum!Split(b, Drum!Width(b), c)
<1>1. Drum!TableOK(b) /\ None \notin Nat /\ None \notin [DOMAIN b.courses -> Seq(0..255)]
  BY DEF Drum!LaundryOK
<1>2. PICK split : split = Drum!Split(b, Drum!Width(b), c)
  OBVIOUS
<1>3. split # None /\ DOMAIN split = DOMAIN b.courses
  BY <1>1, <1>2, SplitOfTable
<1>4. b.hdr # None /\ 1 + 2 * b.hdr = Drum!Width(b)
  BY <1>1 DEF Drum!TableOK, Drum!Width
<1>5. (IF b.hdr = None THEN None ELSE Drum!Split(b, 1 + 2 * b.hdr, c)) = split
  BY <1>2, <1>4
<1> QED BY <1>2, <1>3, <1>5 DEF Drum!CourseRecords

\* So where it is stated, and the list of courses holds no others, the record
\* of a course is read by its width
LEMMA StatedIsFound ==
    ASSUME Drum!LaundryOK, drum \in Laundries, NEW c \in DOMAIN drum.courses,
           drum.hdr = drum.groups, Drum!Elems(drum.edit) \subseteq DOMAIN drum.courses
    PROVE  Drum!WidthFound(c)
BY StatedWidth DEF Drum!WidthFound

\* The record of a course, as the mask reads it
LEMMA RecordOfCourse ==
    ASSUME Drum!LaundryOK, drum \in Laundries, NEW i \in 0..Drum!Count(drum) - 1,
           Drum!WidthFound(Drum!Code(drum, i)),
           NEW records, records = Drum!CourseRecords(drum, Drum!Code(drum, i), Drum!Elems(drum.edit))
    PROVE  /\ DOMAIN records = DOMAIN drum.courses
           /\ Drum!Code(drum, i) \in DOMAIN drum.courses
           /\ Len(records[Drum!Code(drum, i)]) = Drum!Width(drum)
           /\ \A j \in 1..Drum!Width(drum) :
                records[Drum!Code(drum, i)][j] = Drum!Byte(drum, i, j)
<1>1. Drum!TableOK(drum)
  BY DEF Drum!LaundryOK
<1>2. Drum!Code(drum, i) \in DOMAIN drum.courses
  BY <1>1, OneRecordEach
<1>3. PICK c \in DOMAIN drum.courses : c = Drum!Code(drum, i)
  BY <1>2
<1>4. records = Drum!Split(drum, Drum!Width(drum), c)
  BY <1>3 DEF Drum!WidthFound
<1>5. /\ DOMAIN Drum!Split(drum, Drum!Width(drum), c) = DOMAIN drum.courses
      /\ Len(Drum!Split(drum, Drum!Width(drum), c)[Drum!Code(drum, i)]) = Drum!Width(drum)
      /\ \A j \in 1..Drum!Width(drum) : Drum!Split(drum, Drum!Width(drum), c)[Drum!Code(drum,
          i)][j] = Drum!Byte(drum, i, j)
  BY <1>1, SplitOfTable
<1> QED BY <1>3, <1>4, <1>5

\* What the table says of a course is what its groups say: of the kind there
\* is one, and its mask is the one that is found, or there is none
LEMMA MaskOfCourse ==
    ASSUME Drum!LaundryOK, drum \in Laundries, NEW c \in DOMAIN drum.courses, Drum!WidthFound(c)
    PROVE  /\ (\A g \in 1..drum.groups : drum.courses[c][g][1] # drum.kind) =>
               Drum!OptionMask(c) = None
           /\ \A g \in 1..drum.groups :
                drum.courses[c][g][1] = drum.kind => Drum!OptionMask(c) = drum.courses[c][g][3]
<1>1. Drum!TableOK(drum) /\ drum.groups \in Nat /\ Drum!Width(drum) = 1 + 2 * drum.groups
  BY DEF Drum!LaundryOK, Drum!TableOK, Drum!Width
<1>2. PICK i \in 0..Drum!Count(drum) - 1 : c = Drum!Code(drum, i)
  BY <1>1, OneRecordEach
<1>3. PICK records : records = Drum!CourseRecords(drum, c, Drum!Elems(drum.edit))
  OBVIOUS
<1>4. PICK record : record = records[c]
  OBVIOUS
<1>5. /\ c \in DOMAIN records /\ Len(record) = 1 + 2 * drum.groups
      /\ \A j \in 1..Len(record) : record[j] = Drum!Byte(drum, i, j)
  BY <1>1, <1>2, <1>3, <1>4, RecordOfCourse
<1>6. \A g \in 1..drum.groups :
        /\ drum.courses[c][g][1] = Drum!Byte(drum, i, 2 * g) \div 16
        /\ drum.courses[c][g][3] = Drum!Bits(Drum!Byte(drum, i, 2 * g + 1))
  <2>1. drum.courses[c] = [g \in 1..drum.groups |->
          <<Drum!Byte(drum, i, 2 * g) \div 16, Drum!Byte(drum, i, 2 * g) % 16,
              Drum!Bits(Drum!Byte(drum, i, 2 * g + 1))>>]
    BY <1>1, <1>2 DEF Drum!TableOK
  <2> QED BY <2>1
<1>7. PICK places : places = Drum!Heads(record)
  OBVIOUS
<1>8. Drum!OptionMask(c) = IF places = {} THEN None
                      ELSE Drum!Bits(record[(CHOOSE j \in places : \A l \in places : j <= l) + 1])
  BY <1>3, <1>4, <1>5, <1>7 DEF Drum!OptionMask
<1>9. ASSUME NEW j \in places
      PROVE  \E g \in 1..drum.groups :
                j = 2 * g /\ drum.courses[c][g][1] = drum.kind
                /\ Drum!Bits(record[j + 1]) = drum.courses[c][g][3]
  <2>1. j \in 1..Len(record) /\ j % 2 = 0 /\ j < Len(record) /\ record[j] \div 16 = drum.kind
    BY <1>7 DEF Drum!Heads
  <2>2. PICK g \in 1..drum.groups : j = 2 * g
    <3>1. j \div 2 \in 1..drum.groups /\ j = 2 * (j \div 2)
      BY <1>1, <1>5, <2>1
    <3> QED BY <3>1
  <2>3. j \in 1..Len(record) /\ j + 1 \in 1..Len(record)
    BY <1>1, <1>5, <2>1
  <2>4. record[j] = Drum!Byte(drum, i, 2 * g) /\ record[j + 1] = Drum!Byte(drum, i, 2 * g + 1)
    BY <1>5, <2>2, <2>3
  <2> QED BY <1>6, <2>1, <2>2, <2>4
<1>10. ASSUME NEW g \in 1..drum.groups, drum.courses[c][g][1] = drum.kind
       PROVE  2 * g \in places
  <2>1. 2 * g \in 1..Len(record) /\ (2 * g) % 2 = 0 /\ 2 * g < Len(record)
    BY <1>1, <1>5
  <2>2. record[2 * g] \div 16 = drum.kind
    BY <1>5, <1>6, <1>10, <2>1
  <2> QED BY <1>7, <2>1, <2>2 DEF Drum!Heads
<1>11. ASSUME places # {}
       PROVE  (CHOOSE j \in places : \A l \in places : j <= l) \in places
  <2>1. Len(record) \in Nat /\ places \in SUBSET (1..Len(record))
    BY <1>1, <1>5, <1>7 DEF Drum!Heads
  <2>2. \E j \in places : \A l \in places : j <= l
    BY <1>11, <2>1, Least
  <2> QED BY <2>2
<1>12. \A g, h \in 1..drum.groups :
         drum.courses[c][g][1] = drum.kind /\ drum.courses[c][h][1] = drum.kind => g = h
  BY <1>1, ZenonT(60) DEF Drum!TableOK
<1> QED BY <1>8, <1>9, <1>10, <1>11, <1>12

\* Of a course outside the table nothing is read
LEMMA NothingOutside ==
    ASSUME Drum!LaundryOK, drum \in Laundries, NEW c, c \notin DOMAIN drum.courses,
           Drum!WidthFound(c)
    PROVE  Drum!OptionMask(c) = None
<1>1. Drum!CourseRecords(drum, c, Drum!Elems(drum.edit)) = <<>>
  BY DEF Drum!WidthFound
<1>2. c \notin DOMAIN <<>>
  OBVIOUS
<1> QED BY <1>1, <1>2 DEF Drum!OptionMask

\* A mask is no None, and speaks of eight levels
LEMMA Masks ==
    ASSUME Drum!LaundryOK
    PROVE  \A byte : Drum!Bits(byte) # None /\ Drum!Bits(byte) \subseteq 0..7
<1>1. \A byte : Drum!Bits(byte) \in SUBSET (0..7)
  BY DEF Drum!Bits
<1> QED BY <1>1 DEF Drum!LaundryOK

\* The groups of a course
LEMMA GroupsOfCourse ==
    ASSUME Drum!LaundryOK, drum \in Laundries, NEW c \in DOMAIN drum.courses
    PROVE  /\ DOMAIN drum.courses[c] = 1..drum.groups
           /\ \A g \in 1..drum.groups : \E byte : drum.courses[c][g][3] = Drum!Bits(byte)
           /\ \A g, h \in 1..drum.groups :
                drum.courses[c][g][1] = drum.kind /\ drum.courses[c][h][1] = drum.kind =>
                  g = h /\ (c = drum.download => drum.courses[c][g][3] = {})
<1>1. Drum!TableOK(drum)
  BY DEF Drum!LaundryOK
<1>2. PICK i \in 0..Drum!Count(drum) - 1 : c = Drum!Code(drum, i)
  BY <1>1, OneRecordEach
<1>3. drum.courses[c] = [g \in 1..drum.groups |->
        <<Drum!Byte(drum, i, 2 * g) \div 16, Drum!Byte(drum, i, 2 * g) % 16,
            Drum!Bits(Drum!Byte(drum, i, 2 * g + 1))>>]
  BY <1>1, <1>2 DEF Drum!TableOK
<1>4. DOMAIN drum.courses[c] = 1..drum.groups
      /\ \A g \in 1..drum.groups : drum.courses[c][g][3] = Drum!Bits(Drum!Byte(drum, i, 2 * g + 1))
  BY <1>3
<1>5. \A g, h \in 1..drum.groups :
        drum.courses[c][g][1] = drum.kind /\ drum.courses[c][h][1] = drum.kind =>
          g = h /\ (c = drum.download => drum.courses[c][g][3] = {})
  BY <1>1 DEF Drum!TableOK
<1> QED BY <1>4, <1>5

\* The mask is what the course has of the first eight levels
LEMMA AdvertisedByMask ==
    ASSUME Drum!LaundryOK, drum \in Laundries, NEW c, Drum!WidthFound(c)
    PROVE  IF Drum!Silent(c)
           THEN Drum!Advertised(c) = 1..drum.levels
           ELSE /\ c \in DOMAIN drum.courses /\ Drum!OptionMask(c) \subseteq 0..7
                /\ Drum!Advertised(c) =
                     {i \in 1..drum.levels : i > 8 \/ i - 1 \in Drum!OptionMask(c)}
<1> USE DEF Drum!Silent
<1>1. ASSUME Drum!Groups(c) = {}
      PROVE  Drum!Advertised(c) = 1..drum.levels
  BY <1>1 DEF Drum!Advertised
<1>2. CASE c \notin DOMAIN drum.courses
  <2>1. Drum!OptionMask(c) = None /\ Drum!Groups(c) = {}
    BY <1>2, NothingOutside DEF Drum!Groups
  <2> QED BY <1>1, <2>1
<1>3. CASE c \in DOMAIN drum.courses
  <2>1. CASE \A g \in 1..drum.groups : drum.courses[c][g][1] # drum.kind
    <3>1. Drum!OptionMask(c) = None
      BY <1>3, <2>1, MaskOfCourse
    <3>2. Drum!Groups(c) = {}
      <4>1. Drum!Elems(drum.courses[c]) = {drum.courses[c][h] : h \in 1..drum.groups}
        BY <1>3, GroupsOfCourse DEF Drum!Elems
      <4>2. \A p \in Drum!Elems(drum.courses[c]) : p[1] # drum.kind
        BY <2>1, <4>1
      <4> QED BY <4>2 DEF Drum!Groups
    <3> QED BY <1>1, <3>1, <3>2
  <2>2. ASSUME NEW g \in 1..drum.groups, drum.courses[c][g][1] = drum.kind
        PROVE  IF Drum!OptionMask(c) = None \/ (Drum!OptionMask(c) = {} /\ c = drum.download)
               THEN Drum!Advertised(c) = 1..drum.levels
               ELSE /\ c \in DOMAIN drum.courses /\ Drum!OptionMask(c) \subseteq 0..7
                    /\ Drum!Advertised(c) = {i \in 1..drum.levels : i > 8 \/ i - 1 \in Drum!OptionMask(c)}
    <3>1. Drum!OptionMask(c) = drum.courses[c][g][3]
      BY <1>3, <2>2, MaskOfCourse
    <3>2. Drum!OptionMask(c) # None /\ Drum!OptionMask(c) \subseteq 0..7
      BY <1>3, <3>1, GroupsOfCourse, Masks
    <3>3. CASE c = drum.download
      <4>1. Drum!OptionMask(c) = {}
        BY <1>3, <2>2, <3>1, <3>3, GroupsOfCourse
      <4>2. Drum!Groups(c) = {}
        BY <3>3 DEF Drum!Groups
      <4> QED BY <1>1, <3>3, <4>1, <4>2
    <3>4. CASE c # drum.download
      <4>1. \A h \in 1..drum.groups : drum.courses[c][h][1] = drum.kind => h = g
        BY <1>3, <2>2, GroupsOfCourse
      <4>2. Drum!Groups(c) = {drum.courses[c][g]}
        <5>1. Drum!Groups(c) = {p \in Drum!Elems(drum.courses[c]) : p[1] = drum.kind}
          BY <1>3, <3>4 DEF Drum!Groups
        <5>2. Drum!Elems(drum.courses[c]) = {drum.courses[c][h] : h \in 1..drum.groups}
          BY <1>3, GroupsOfCourse DEF Drum!Elems
        <5> QED BY <2>2, <4>1, <5>1, <5>2
      <4>3. Drum!Advertised(c) = {i \in 1..drum.levels : i > 8 \/ i - 1 \in Drum!OptionMask(c)}
        BY <3>1, <4>2 DEF Drum!Advertised
      <4> QED BY <1>3, <3>2, <3>4, <4>3
    <3> QED BY <3>3, <3>4
  <2> QED BY <2>1, <2>2
<1> QED BY <1>2, <1>3

\* A select offers the live level, and no other that its list omits
LEMMA OffersTheLive ==
    ASSUME Drum!LaundryOK, drum \in Laundries, NEW s, IsDial(s)
    PROVE  /\ s.level # Drum!Unlisted \/ ~Drum!Silent(s.course) => s.level \in Drum!Offered(s)
           /\ Drum!Offered(s) \subseteq 1..drum.levels \union {s.level}
<1>1. drum.levels \in Nat /\ s.level \in 0..drum.levels
  BY DEF Drum!LaundryOK, IsDial
<1>2. CASE Drum!Silent(s.course)
  BY <1>1, <1>2 DEF Drum!Offered, Drum!Unlisted
<1>3. CASE ~Drum!Silent(s.course)
  <2>1. PICK mask : mask = Drum!OptionMask(s.course)
    OBVIOUS
  <2>2. mask \subseteq 0..7
    BY <1>3, <2>1, Masks DEF Drum!Silent, Drum!OptionMask
  <2>3. Drum!Offered(s) = {i + 1 : i \in {j \in mask : j < drum.levels}}
                     \union {i \in 1..drum.levels : i > 8} \union {s.level}
    BY <1>3, <2>1 DEF Drum!Offered, Drum!Narrowed
  <2>4. {p + 1 : p \in {j \in mask : j < drum.levels}} \subseteq 1..drum.levels
    BY <1>1, <2>2, SMTT(60)
  <2> QED BY <2>3, <2>4
<1> QED BY <1>2, <1>3

\* It offers what the table advertises of the course
LEMMA OffersWhatIsAdvertised ==
    ASSUME Drum!LaundryOK, drum \in Laundries, NEW s, IsDial(s), Drum!WidthFound(s.course)
    PROVE  /\ Drum!Advertised(s.course) \subseteq Drum!Offered(s)
           /\ Drum!Offered(s) \subseteq Drum!Advertised(s.course) \union {s.level}
<1>1. PICK mask : mask = Drum!OptionMask(s.course)
  OBVIOUS
<1>2. drum.levels \in Nat /\ s.level \in 0..drum.levels
  BY DEF Drum!LaundryOK, IsDial
<1>3. CASE Drum!Silent(s.course)
  BY <1>3, AdvertisedByMask DEF Drum!Offered
<1>4. CASE ~Drum!Silent(s.course)
  <2>1. /\ mask \subseteq 0..7
        /\ Drum!Advertised(s.course) = {i \in 1..drum.levels : i > 8 \/ i - 1 \in mask}
    BY <1>1, <1>4, AdvertisedByMask
  <2>2. Drum!Offered(s) = {i + 1 : i \in {j \in mask : j < drum.levels}}
                     \union {i \in 1..drum.levels : i > 8} \union {s.level}
    BY <1>1, <1>4 DEF Drum!Offered, Drum!Narrowed
  <2>3. \A i \in 1..drum.levels : i \in {p + 1 : p \in {j \in mask :
            j < drum.levels}} <=> i - 1 \in mask
    BY <1>2, <2>1
  <2>4. {p + 1 : p \in {j \in mask : j < drum.levels}} \subseteq 1..drum.levels
    BY <1>2, <2>1
  <2> QED BY <1>2, <2>1, <2>2, <2>3, <2>4
<1> QED BY <1>3, <1>4

\* Whatever width a split is of, it has as many records as go into the table
LEMMA SplitCounts ==
    ASSUME NEW b, Drum!TableOK(b), NEW k \in Nat, NEW c, NEW split,
           split = Drum!Split(b, k, c), split # None
    PROVE  Cardinality(DOMAIN split) \in Nat /\ Cardinality(DOMAIN split) >= 2
<1>1. PICK q : q = Len(b.body) \div k
  OBVIOUS
<1>2. PICK firsts : firsts = {Drum!Record(b, k, i)[1] : i \in 0..q - 1}
  OBVIOUS
<1>3. ~(k < 1 \/ Len(b.body) % k # 0)
  BY DEF Drum!Split
<1>4. split = IF q < 2 \/ Cardinality(firsts) # q \/ (c # None /\ c \notin firsts) THEN None
              ELSE [f \in firsts |->
                      Drum!Record(b, k, CHOOSE i \in 0..q - 1 : Drum!Record(b, k, i)[1] = f)]
  BY <1>1, <1>2, <1>3, SameCount DEF Drum!Split
<1>5. DOMAIN split = firsts /\ ~(q < 2) /\ Cardinality(firsts) = q
  BY <1>4
<1>6. q \in Int
  <2>1. Len(b.body) \in Nat
    BY BytesOfTable
  <2>2. ~(k < 1)
    BY <1>3, Zenon
  <2>3. k \in Nat /\ k > 0
    BY <2>2
  <2> QED BY <1>1, <2>1, <2>3
<1> QED BY <1>5, <1>6

\* The table read without a list to cover: of a course that is in it, always
\* somehow; by its own width where that is stated
LEMMA TableRead ==
    ASSUME Drum!LaundryOK, drum \in Laundries, NEW c,
           NEW records, records = Drum!CourseRecords(drum, c, {})
    PROVE  /\ \/ records = <<>>
              \/ Cardinality(DOMAIN records) \in Nat /\ Cardinality(DOMAIN records) >= 2
           /\ c \in DOMAIN drum.courses => records # <<>>
           /\ c \in DOMAIN drum.courses /\ drum.hdr = drum.groups =>
                Cardinality(DOMAIN records) = Drum!Count(drum)
<1> DEFINE stated == IF drum.hdr = None THEN None ELSE Drum!Split(drum, 1 + 2 * drum.hdr, c)
           passing == {k \in 1..Len(drum.body) : Drum!Split(drum, k, c) # None}
           least == CHOOSE k \in passing : \A j \in passing : k <= j
<1>1. Drum!TableOK(drum) /\ drum.hdr \in 0..15 \union {None} /\ Len(drum.body) \in Nat
      /\ None \notin [DOMAIN drum.courses -> Seq(0..255)]
  BY DEF Drum!LaundryOK, Drum!TableOK
<1>2. records = IF stated # None THEN stated
                ELSE IF passing # {} THEN Drum!Split(drum, least, c) ELSE <<>>
  <2>1. {k \in passing : {} \subseteq DOMAIN Drum!Split(drum, k, c)} = passing
    OBVIOUS
  <2>2. records = IF stated # None THEN stated
                  ELSE IF {k \in passing : {} \subseteq DOMAIN Drum!Split(drum, k, c)} # {}
                  THEN Drum!Split(drum, CHOOSE k \in {l \in passing :
                            {} \subseteq DOMAIN Drum!Split(drum, l, c)} :
                              \A j \in {l \in passing :
                                  {} \subseteq DOMAIN Drum!Split(drum, l, c)} : k <= j, c)
                  ELSE IF passing # {} THEN Drum!Split(drum, least, c) ELSE <<>>
    BY DEF Drum!CourseRecords
  <2> QED BY <2>1, <2>2
<1>3. ASSUME NEW k \in Nat, NEW split, split = Drum!Split(drum, k, c), split # None
      PROVE  Cardinality(DOMAIN split) \in Nat /\ Cardinality(DOMAIN split) >= 2 /\ split # <<>>
  <2>1. Cardinality(DOMAIN split) \in Nat /\ Cardinality(DOMAIN split) >= 2
    BY <1>1, <1>3, SplitCounts
  <2>2. DOMAIN <<>> = {} /\ Cardinality({}) = 0
    BY FS_EmptySet
  <2> QED BY <2>1, <2>2
<1>4. ASSUME stated # None
      PROVE  /\ Cardinality(DOMAIN records) \in Nat /\ Cardinality(DOMAIN records) >= 2
             /\ records # <<>>
  <2>1. drum.hdr # None /\ drum.hdr \in 0..15 /\ records = Drum!Split(drum, 1 + 2 * drum.hdr, c)
    BY <1>1, <1>2, <1>4
  <2>2. PICK k \in Nat : k = 1 + 2 * drum.hdr
    BY <2>1
  <2>3. PICK split : split = Drum!Split(drum, k, c)
    OBVIOUS
  <2>4. split # None /\ records = split
    BY <1>2, <1>4, <2>1, <2>2, <2>3
  <2>5. Cardinality(DOMAIN split) \in Nat /\ Cardinality(DOMAIN split) >= 2 /\ split # <<>>
    BY <1>3, <2>3, <2>4
  <2> QED BY <2>4, <2>5
<1>5. ASSUME stated = None, passing # {}
      PROVE  /\ Cardinality(DOMAIN records) \in Nat /\ Cardinality(DOMAIN records) >= 2
             /\ records # <<>>
  <2>1. \E k \in passing : \A j \in passing : k <= j
    <3>1. passing \in SUBSET (1..Len(drum.body))
      OBVIOUS
    <3> QED BY <1>1, <1>5, <3>1, Least
  <2>2. least \in passing
    BY <2>1
  <2>3. least \in Nat /\ Drum!Split(drum, least, c) # None
    BY <1>1, <2>2
  <2>4. PICK split : split = Drum!Split(drum, least, c)
    OBVIOUS
  <2>5. split # None /\ records = split
    BY <1>2, <1>5, <2>3, <2>4
  <2>6. Cardinality(DOMAIN split) \in Nat /\ Cardinality(DOMAIN split) >= 2 /\ split # <<>>
    BY <1>3, <2>3, <2>4, <2>5
  <2> QED BY <2>5, <2>6
<1>6. ASSUME c \in DOMAIN drum.courses PROVE passing # {}
  <2>1. PICK split : split = Drum!Split(drum, Drum!Width(drum), c)
    OBVIOUS
  <2>2. split # None
    BY <1>1, <1>6, <2>1, SplitOfTable
  <2>3. Drum!Width(drum) \in 1..Len(drum.body)
    <3>1. /\ Drum!Width(drum) \in Nat /\ Drum!Width(drum) >= 1 /\ 0 \in 0..Drum!Count(drum) - 1
          /\ 0 * Drum!Width(drum) + Drum!Width(drum) <= Len(drum.body)
      BY <1>1, BytesOfTable
    <3> QED BY <1>1, <3>1
  <2> QED BY <2>1, <2>2, <2>3
<1>7. ASSUME c \in DOMAIN drum.courses, drum.hdr = drum.groups
      PROVE  Cardinality(DOMAIN records) = Drum!Count(drum)
  <2>1. records = Drum!Split(drum, Drum!Width(drum), c)
    BY <1>7, StatedWidth
  <2>2. DOMAIN records = DOMAIN drum.courses
    BY <1>1, <1>7, <2>1, SplitOfTable
  <2> QED BY <1>1, <2>2, OneRecordEach
<1>8. ASSUME stated = None, passing = {}
      PROVE  records = <<>> /\ c \notin DOMAIN drum.courses
  BY <1>2, <1>6, <1>8
<1> QED BY <1>4, <1>5, <1>6, <1>7, <1>8

LEMMA WholeQuotient ==
    ASSUME NEW x \in Nat, NEW y \in Nat, x >= 1
    PROVE  (x * y) \div x = y
<1> DEFINE d == (x * y) \div x
<1>1. d \in Nat /\ x * d <= x * y /\ x * y < x * (d + 1)
  OBVIOUS
<1>2. \A p, q \in Nat : p < q => x * p < x * q
  <2>1. ASSUME NEW p \in Nat, NEW q \in Nat, p < q
        PROVE  x * p < x * q
    <3>1. PICK e \in Nat : e = q - p /\ e >= 1
      BY <2>1
    <3>2. x * q = x * p + x * e /\ x * e >= x
      <4>1. x * (p + e) = x * p + x * e
        OBVIOUS
      <4>2. q = p + e
        BY <3>1
      <4>3. x * e >= x
        BY <3>1
      <4> QED BY <4>1, <4>2, <4>3
    <3> QED BY <3>2
  <2> QED BY <2>1
<1> HIDE DEF d
<1>3. ~(d > y) /\ ~(y > d)
  <2>1. y > d => x * (d + 1) <= x * y
    BY <1>1, <1>2
  <2> QED BY <1>1, <1>2, <2>1
<1> QED BY <1>1, <1>3 DEF d

\* A table read by whatever width, if it has as many courses as the
\* appliance's, has them in that order
LEMMA OrderOfTable ==
    ASSUME Drum!LaundryOK, drum \in Laundries, NEW c,
           NEW order, order = Drum!TableOrder(c)
    PROVE  /\ c \in DOMAIN drum.courses => order # <<>>
           /\ c \in DOMAIN drum.courses /\ drum.hdr = drum.groups => Len(order) = Drum!Count(drum)
           /\ order # <<>> /\ Len(order) = Drum!Count(drum) =>
                order = [i \in 1..Drum!Count(drum) |-> Drum!Code(drum, i - 1)]
<1>1. PICK records : records = Drum!CourseRecords(drum, c, {})
  OBVIOUS
<1>2. PICK n : n = Cardinality(DOMAIN records)
  OBVIOUS
<1>3. order = IF records = <<>> THEN <<>>
              ELSE [i \in 1..n |-> drum.body[(i - 1) * (Len(drum.body) \div n) + 1]]
  BY <1>1, <1>2, SameCount DEF Drum!TableOrder
<1>4. Drum!TableOK(drum)
  BY DEF Drum!LaundryOK
<1>5. CASE records = <<>>
  <2>1. order = <<>> /\ c \notin DOMAIN drum.courses
    BY <1>1, <1>3, <1>5, TableRead
  <2> QED BY <2>1
<1>6. CASE records # <<>>
  <2>1. n \in Nat /\ n >= 2 /\ (c \in DOMAIN drum.courses /\ drum.hdr = drum.groups =>
            n = Drum!Count(drum))
    BY <1>1, <1>2, <1>6, TableRead
  <2>2. DOMAIN order = 1..n /\ 1 \in DOMAIN order /\ DOMAIN <<>> = {}
    BY <1>3, <1>6, <2>1
  <2>3. order # <<>>
    BY <2>2
  <2>4. Len(order) = n
    <3>1. PICK T : T = {order[i] : i \in 1..n}
      OBVIOUS
    <3>2. order \in [1..n -> T]
      BY <1>3, <1>6, <3>1
    <3>3. order \in Seq(T)
      BY <2>1, <3>2, SeqDef
    <3> QED BY <2>1, <2>2, <3>3, LenProperties
  <2>5. ASSUME n = Drum!Count(drum) PROVE Len(drum.body) \div n = Drum!Width(drum)
    <3>1. Drum!Width(drum) \in Nat /\ Len(drum.body) = n * Drum!Width(drum)
      BY <1>4, <2>5, BytesOfTable
    <3> QED BY <2>1, <3>1, WholeQuotient
  <2> QED BY <1>3, <1>6, <2>1, <2>3, <2>4, <2>5 DEF Drum!Code, Drum!Byte
<1> QED BY <1>5, <1>6

\* The byte of a course of the table is its own, if it can be told; of
\* another course there is none, but by the list of courses
LEMMA SupportedAsTold ==
    ASSUME Drum!LaundryOK, drum \in Laundries, NEW s
    PROVE  IF s.course \in DOMAIN drum.courses
           THEN \/ Drum!CourseSupported(s) = drum.switch[s.course]
                \/ Drum!CourseSupported(s) = None /\ drum.hdr # drum.groups
           ELSE \/ Drum!CourseSupported(s) = None
                \/ ~drum.tableOnly /\ Len(drum.edit) = Len(drum.avail)
<1> DEFINE n == Drum!Count(drum)
           codes == [i \in 1..n |-> Drum!Code(drum, i - 1)]
<1>1. Drum!TableOK(drum) /\ n \in Nat /\ n >= 2 /\ Len(drum.avail) = n
      /\ drum.tableOnly \in BOOLEAN
  BY BytesOfTable DEF Drum!LaundryOK, Drum!TableOK
<1>2. PICK table : table = Drum!TableOrder(s.course)
  OBVIOUS
<1>3. PICK courses : courses = IF table # <<>> \/ drum.tableOnly THEN table
                               ELSE Drum!CycleOptions(s.course)
  OBVIOUS
<1>4. Drum!CourseSupported(s) =
        IF s.course \notin Drum!Elems(courses) \/ Len(drum.avail) # Len(courses) THEN None
        ELSE drum.avail[CHOOSE i \in DOMAIN courses : courses[i] = s.course]
  BY <1>2, <1>3 DEF Drum!CourseSupported
<1>5. /\ s.course \in DOMAIN drum.courses => table # <<>>
      /\ s.course \in DOMAIN drum.courses /\ drum.hdr = drum.groups => Len(table) = n
      /\ table # <<>> /\ Len(table) = n => table = codes
  BY <1>2, OrderOfTable
<1>6. /\ \A c \in DOMAIN drum.courses : \E i \in 1..n : c = codes[i]
      /\ \A i \in 1..n : codes[i] \in DOMAIN drum.courses
  <2>1. /\ \A c \in DOMAIN drum.courses : \E i \in 0..n - 1 : c = Drum!Code(drum, i)
        /\ \A i \in 0..n - 1 : Drum!Code(drum, i) \in DOMAIN drum.courses
    BY <1>1, OneRecordEach
  <2>2. \A i \in 0..n - 1 : i + 1 \in 1..n /\ (i + 1) - 1 = i
    BY <1>1
  <2>3. \A i \in 1..n : i - 1 \in 0..n - 1
    BY <1>1
  <2> HIDE DEF n
  <2> QED BY <2>1, <2>2, <2>3
<1>7. CASE s.course \in DOMAIN drum.courses
  <2>1. courses = table
    BY <1>3, <1>5, <1>7
  <2>2. CASE Len(table) # n
    BY <1>1, <1>4, <1>5, <1>7, <2>1, <2>2
  <2>3. CASE Len(table) = n
    <3>1. courses = codes /\ Len(courses) = n
      BY <1>5, <1>7, <2>1, <2>3
    <3>2. PICK i \in 1..n : s.course = codes[i]
      BY <1>6, <1>7
    <3>3. DOMAIN courses = 1..n /\ courses[i] = s.course
      BY <3>1, <3>2
    <3>4. ASSUME NEW j \in 1..n, courses[j] = s.course PROVE j = i
      <4>1. i - 1 \in 0..n - 1 /\ j - 1 \in 0..n - 1
        BY <1>1
      <4>2. Drum!Code(drum, j - 1) = Drum!Code(drum, i - 1)
        BY <3>1, <3>2, <3>4
      <4>3. j - 1 = i - 1
        BY <1>1, <4>1, <4>2 DEF Drum!TableOK
      <4> QED BY <1>1, <4>3
    <3>5. (CHOOSE j \in DOMAIN courses : courses[j] = s.course) = i
      BY <3>3, <3>4
    <3>6. s.course \in Drum!Elems(courses)
      BY <3>3 DEF Drum!Elems
    <3>7. drum.avail[i] = drum.switch[Drum!Code(drum, i - 1)]
      <4>1. drum.avail = [j \in 1..n |-> drum.switch[Drum!Code(drum, j - 1)]]
        BY <1>1 DEF Drum!TableOK
      <4> QED BY <4>1
    <3>8. drum.avail[i] = drum.switch[s.course]
      BY <3>2, <3>7
    <3> QED BY <1>1, <1>4, <1>7, <3>1, <3>5, <3>6, <3>8
  <2> QED BY <2>2, <2>3
<1>8. CASE s.course \notin DOMAIN drum.courses
  <2>1. CASE table # <<>> /\ Len(table) = n
    <3>1. courses = codes
      BY <1>3, <1>5, <2>1
    <3>2. s.course \notin Drum!Elems(courses)
      <4>1. DOMAIN courses = 1..n
        BY <3>1
      <4> QED BY <1>6, <1>8, <3>1, <4>1 DEF Drum!Elems
    <3> QED BY <1>4, <1>8, <3>2
  <2>2. CASE table # <<>> /\ Len(table) # n
    <3>1. courses = table
      BY <1>3, <2>2
    <3> QED BY <1>1, <1>4, <1>8, <2>2, <3>1
  <2>3. CASE table = <<>> /\ drum.tableOnly
    <3>1. courses = <<>>
      BY <1>3, <2>3
    <3>2. Drum!Elems(courses) = {}
      BY <3>1 DEF Drum!Elems
    <3> QED BY <1>4, <1>8, <3>2
  <2>4. CASE table = <<>> /\ ~drum.tableOnly
    <3>1. courses = Drum!CycleOptions(s.course)
      BY <1>3, <2>4
    <3>2. courses \in {drum.edit, <<>>}
      BY <1>2, <2>4, <3>1 DEF Drum!CycleOptions
    <3>3. CASE courses = <<>>
      <4>1. Drum!Elems(courses) = {}
        BY <3>3 DEF Drum!Elems
      <4> QED BY <1>4, <1>8, <4>1
    <3> QED BY <1>4, <1>8, <2>4, <3>2, <3>3
  <2> QED BY <1>1, <2>1, <2>2, <2>3, <2>4
<1> QED BY <1>7, <1>8

LEMMA DrumInit == Drum!LaundryOK /\ Drum!Init => DrumInv
<1> SUFFICES ASSUME Drum!LaundryOK, Drum!Init
             PROVE  DrumInv
  OBVIOUS
<1>1. PICK c \in DOMAIN drum.courses :
        \E i \in Drum!Takes(c) \union {Drum!Unlisted} : load = [course |-> c, level |-> i]
  BY DEF Drum!Init
<1>2. IsDial(load)
  <2>1. PICK i \in Drum!Takes(c) \union {Drum!Unlisted} : load = [course |-> c, level |-> i]
    BY <1>1
  <2>2. drum.levels \in Nat
    BY DEF Drum!LaundryOK, Drum!Init
  <2>3. i \in 0..drum.levels
    BY <2>2 DEF Drum!Takes, Drum!Advertised, Drum!Unlisted
  <2> QED BY <2>1, <2>3 DEF IsDial
<1> QED BY <1>2 DEF Drum!Init, DrumInv, Drum!PickedIsTaken

\* What was last picked stays taken while the appliance stands as it did
LEMMA PickedStays ==
    ASSUME Drum!PickedIsTaken, drum' = drum, load' = load, picked' = picked
    PROVE  Drum!PickedIsTaken'
<1>1. \A c : Drum!WidthFound(c)' = Drum!WidthFound(c)
  BY DEF Drum!WidthFound
<1> QED BY <1>1 DEF Drum!PickedIsTaken

LEMMA DrumStep == Drum!LaundryOK /\ DrumInv /\ [Drum!Next]_Drum!vars => DrumInv'
<1> SUFFICES ASSUME Drum!LaundryOK, DrumInv, [Drum!Next]_Drum!vars
             PROVE  DrumInv'
  OBVIOUS
<1> USE DEF DrumInv
<1>2. CASE Drum!Turn
  <2>1. PICK c \in DOMAIN drum.courses \union drum.others, i \in 0..drum.levels :
          load' = [load EXCEPT !.course = c, !.level = i]
    BY <1>2 DEF Drum!Turn
  <2>2. load' = [course |-> c, level |-> i]
    BY <2>1 DEF IsDial
  <2>3. drum' = drum /\ loadSeen' = loadSeen /\ picked' = None
    BY <1>2 DEF Drum!Turn
  <2>4. IsDial(load)' /\ IsDial(loadSeen)'
    BY <2>2, <2>3 DEF IsDial
  <2> QED BY <2>3, <2>4 DEF Drum!PickedIsTaken
<1>3. CASE Drum!Follow
  <2>1. PICK i \in Drum!Takes(load.course) : load' = [load EXCEPT !.level = i]
    BY <1>3 DEF Drum!Follow
  <2>2. load' = [course |-> load.course, level |-> i] /\ i \in 0..drum.levels
    BY <2>1 DEF IsDial, Drum!Takes, Drum!Advertised, Drum!LaundryOK
  <2>3. drum' = drum /\ loadSeen' = loadSeen /\ picked' = None
    BY <1>3 DEF Drum!Follow
  <2>4. IsDial(load)' /\ IsDial(loadSeen)'
    BY <2>2, <2>3 DEF IsDial
  <2> QED BY <2>3, <2>4 DEF Drum!PickedIsTaken
<1>4. CASE Drum!ReadCourse
  <2>1. loadSeen' = [course |-> load.course, level |-> loadSeen.level]
        /\ UNCHANGED <<drum, load, picked>>
    BY <1>4 DEF Drum!ReadCourse, IsDial
  <2>2. IsDial(load)' /\ IsDial(loadSeen)'
    BY <2>1 DEF IsDial
  <2>3. Drum!PickedIsTaken'
    BY <2>1, PickedStays
  <2> QED BY <2>1, <2>2, <2>3
<1>5. CASE Drum!ReadLevel
  <2>1. loadSeen' = [course |-> loadSeen.course, level |-> load.level]
        /\ UNCHANGED <<drum, load, picked>>
    BY <1>5 DEF Drum!ReadLevel, IsDial
  <2>2. IsDial(load)' /\ IsDial(loadSeen)'
    BY <2>1 DEF IsDial
  <2>3. Drum!PickedIsTaken'
    BY <2>1, PickedStays
  <2> QED BY <2>1, <2>2, <2>3
<1>6. CASE Drum!Pick
  <2>1. PICK i \in Drum!Offered(loadSeen) \ {loadSeen.level} :
          /\ load' = IF i \in Drum!Takes(load.course) THEN [load EXCEPT !.level = i] ELSE load
          /\ loadSeen' = [loadSeen EXCEPT !.level = i]
          /\ picked' = IF loadSeen.course = load.course THEN i ELSE None
    BY <1>6 DEF Drum!Pick
  <2>2. drum' = drum
    BY <1>6 DEF Drum!Pick
  <2>3. Drum!Offered(loadSeen) \subseteq 1..drum.levels \union {loadSeen.level}
    BY OffersTheLive
  <2>4. i \in 0..drum.levels /\ load'.course = load.course
        /\ (i \in Drum!Takes(load.course) => load'.level = i)
    BY <2>1, <2>3 DEF IsDial, Drum!LaundryOK
  <2>5. IsDial(load)' /\ IsDial(loadSeen)'
    <3>1. loadSeen' = [course |-> loadSeen.course, level |-> i]
      BY <2>1 DEF IsDial
    <3>2. load' = load \/ load' = [course |-> load.course, level |-> i]
      BY <2>1 DEF IsDial
    <3>3. IsDial(load)'
      BY <2>2, <2>4, <3>2 DEF IsDial
    <3> QED BY <2>2, <2>4, <3>1, <3>3 DEF IsDial
  <2>6. Drum!PickedIsTaken'
    <3>1. ASSUME loadSeen.course = load.course, Drum!WidthFound(load.course)
          PROVE  i \in Drum!Takes(load.course) \/ <<load.course, i>> \in drum.refused
      <4>1. i \in Drum!Advertised(load.course)
        BY <2>1, <3>1, OffersWhatIsAdvertised
      <4> QED BY <4>1 DEF Drum!Takes
    <3>2. \A c : Drum!WidthFound(c)' = Drum!WidthFound(c)
      BY <2>2 DEF Drum!WidthFound
    <3> QED BY <2>1, <2>2, <2>4, <3>1, <3>2 DEF Drum!PickedIsTaken
  <2> QED BY <2>2, <2>5, <2>6
<1>7. CASE UNCHANGED Drum!vars
  <2>1. drum' = drum /\ load' = load /\ loadSeen' = loadSeen /\ picked' = picked
    BY <1>7 DEF Drum!vars
  <2>2. IsDial(load)' /\ IsDial(loadSeen)'
    BY <2>1 DEF IsDial
  <2>3. Drum!PickedIsTaken'
    BY <2>1, PickedStays
  <2> QED BY <2>1, <2>2, <2>3
<1> QED BY <1>2, <1>3, <1>4, <1>5, <1>6, <1>7 DEF Drum!Next

LEMMA DrumInvHolds == ASSUME Drum!LaundryOK PROVE Drum!Spec => []DrumInv
<1>1. DrumInv /\ [Drum!Next]_Drum!vars => DrumInv'
  BY DrumStep
<1>2. Drum!Init => DrumInv
  BY DrumInit
<1> QED BY <1>1, <1>2, PTL DEF Drum!Spec

LEMMA DrumFits ==
    ASSUME Drum!LaundryOK, DrumInv
    PROVE  Drum!LiveIsOffered /\ Drum!NothingWithheld /\ Drum!PickedIsTaken
           /\ Drum!SwitchAsTheCourse
<1>1. Drum!LiveIsOffered /\ Drum!NothingWithheld
  <2>1. Drum!LiveIsOffered
    BY OffersTheLive DEF DrumInv, Drum!LiveIsOffered
  <2>2. Drum!NothingWithheld
    BY OffersWhatIsAdvertised DEF DrumInv, Drum!NothingWithheld, Drum!Takes
  <2> QED BY <2>1, <2>2
<1>2. Drum!SwitchAsTheCourse
  BY SupportedAsTold DEF DrumInv, Drum!SwitchAsTheCourse
<1> QED BY <1>1, <1>2 DEF DrumInv

LEMMA DrumRuns == PartsSpec => Drum!Spec
<1>1. PartsInit => Drum!Init
  BY DEF PartsInit
<1>2. [PartsNext]_<<part, vars, cardVars, drumVars, debugVars>> => [Drum!Next]_Drum!vars
  BY DEF PartsNext, drumVars, Drum!vars
<1> QED BY <1>1, <1>2, PTL DEF PartsSpec, Drum!Spec

\* Whichever of the two resources is read first, a select offers the level
\* that is set and every level its course takes, and a level that is picked
\* is taken unless the appliance refuses one it advertises (laundry.py,
\* course_narrowed_options): of any table, where its records are read by
\* their width.
THEOREM OffersWhatTheCourseTakes == PartsSpec => []LevelsAsTheCourse
<1>1. DrumInv => LevelsAsTheCourse
  BY PartsOK, DrumFits DEF LevelsAsTheCourse
<1> QED BY <1>1, PartsOK, DrumRuns, DrumInvHolds, PTL

\* A switch is refused on the courses whose byte says so, by the order of the
\* table, and on no other of the table, whether its width is stated or not; of
\* a course outside the table nothing is said, but where the list of courses is
\* as long as the table (washer.py, course_supported).
THEOREM RefusesAsTheCourse == PartsSpec => []SwitchAsTheCourse
<1>1. DrumInv => SwitchAsTheCourse
  BY PartsOK, DrumFits DEF SwitchAsTheCourse
<1> QED BY <1>1, PartsOK, DrumRuns, DrumInvHolds, PTL
=============================================================================
