----------------------------- MODULE LegacyBridge -----------------------------
(***************************************************************************)
(* The 8888 transport (legacy_http_transport.py) and the appliance behind  *)
(* it.  A washer takes a course and its settings only in the body of a     *)
(* start: choosing one is held, shown on reads, and carried by the start,  *)
(* which may need a second request to run.  An oven's start is two         *)
(* requests, of which only the second may start it.  A divided oven has a  *)
(* lower cavity at /devices/1, which /devices lists while the divider is   *)
(* in.                                                                     *)
(*                                                                         *)
(* One call runs at a time (the coordinator's session lock); each of its   *)
(* requests is a step, and may be lost, answered after its effect was had  *)
(* and the answer lost, or refused.  The panel acts between any two.       *)
(***************************************************************************)
EXTENDS Envelope

CONSTANTS
    Kinds,         \* the appliances: their record's type
    Commands,      \* [name -> [index, seed, href, steps]]: what is written
    CommandsOf,    \* [kind -> the commands given to it]
    Settings,      \* [kind -> set of wire bodies it may report when idle]
    CourseDefault, \* [course token -> the temperature its record states]
    StillListed,   \* listed without a divider, as not connected
    MaxPanel,      \* bounds: the panel used, answers lost,
    MaxFaults,
    MaxCommands,   \* [kind -> commands given]
    MaxTogether    \* and [kind -> answers lost and commands given]

Devices == {0, 1}

CourseKey == <<"Mode", "options", "Course">>
TempKey   == <<"Washer", "waterTemperature", None>>

(* A command's wire body, of it what only a start carries, and what is     *)
(* sent without it.                                                        *)
Wire(c, type)    == ToWrite(Commands[c].steps, TableFor(type))
HeldOf(c, type)  == {k \in DOMAIN Wire(c, type) : StartOnly(k, TableFor(type))}
Sent(c, type)    == Restrict(Wire(c, type), DOMAIN Wire(c, type) \ HeldOf(c, type))

(* Whether a command says Run.                                             *)
Starts(c) == \E k \in DOMAIN Commands[c].steps :
                 Field(k) = "state" /\ Commands[c].steps[k] = "Run"

(* What the entities write: a laundry start or a stop says only that       *)
(* (operational.py), an oven's start names a mode (cook.py).               *)
CommandsOK ==
    \A type \in Kinds : \A c \in CommandsOf[type] :
        /\ Starts(c) => IsStart(Sent(c, type))
        /\ StateKey \in DOMAIN Sent(c, type) /\ Sent(c, type)[StateKey] = "Ready" =>
             Sent(c, type) = StopBody
        /\ IsStart(Sent(c, type)) =>
             /\ type = "Washer" => DOMAIN Wire(c, type) = {StateKey}
             /\ type = "Oven" => \E k \in DOMAIN Sent(c, type) : Wrapper(k) = "Mode"

(* A washer reports the temperature and whatever else is chosen before a   *)
(* start: an entity is made of what the record has.                        *)
SettingsOK ==
    \A set \in UNION {Settings[type] : type \in Kinds \cap {"Washer"}} :
        /\ set = [k \in DOMAIN set |-> set[k]]
        /\ TempKey \in DOMAIN set /\ StateKey \notin DOMAIN set
        /\ \A c \in CommandsOf["Washer"] : HeldOf(c, "Washer") \subseteq DOMAIN set

BridgeConstantsOK ==
    /\ Kinds = DOMAIN CommandsOf /\ Kinds = DOMAIN Settings
    /\ \A kind \in Kinds : CommandsOf[kind] \subseteq DOMAIN Commands
    /\ \A c \in DOMAIN Commands : Commands[c].index \in Devices
    /\ MaxPanel \in Nat /\ MaxFaults \in Nat /\ MaxCommands \in [Kinds -> Nat]
    /\ MaxTogether \in [Kinds -> Nat]
    /\ None \notin {"write", "sweep", "Run", "Ready", "Pause", "unread"} /\ None \notin BOOLEAN
    /\ CommandsOK /\ SettingsOK

VARIABLES
    kind,      \* the appliance's type
    world,     \* [device -> its Operation state and its settings]
    divider,   \* whether the oven's divider is in
    last,      \* [device -> last_bodies: the world of its last sweep, or None]
    staged,    \* the held values, [key -> [value, base]] (device 0, a washer)
    listed,    \* [device -> whether /devices listed it, or None]
    divided,   \* whether the last listing showed a lower cavity, or None
    typed,     \* the devices whose record was read for their type
    clock,     \* whether the clock's endpoint is served, None until known
    shown,     \* [device -> the modes last offered, or None]
    op,        \* the call in progress, or None
    result,    \* history: how the last command, a start, ended
    fresh,     \* history: devices swept since the divider moved, last listing answered
    panel, faults, commands  \* counters of the bounds

State == <<last, staged, listed, divided, typed, clock, shown>>
World == <<kind, world, divider>>
History == <<result, fresh>>
vars == <<World, State, History, op, panel, faults, commands>>

Table == TableFor(kind)

NoOp == [call |-> None]

-----------------------------------------------------------------------------
(* Requests.  A request ends in an answer, or in an exception with or      *)
(* without the effect it was to have.                                      *)

Outcomes == {"answered", "refused", "lost", "silent"}
Happens(o)  == o \in {"answered", "silent"}
Raises(o)   == o \in {"lost", "silent"}
Request(o) ==
    /\ o # "answered" => faults < MaxFaults /\ faults + commands < MaxTogether[kind]
    /\ faults' = IF o = "answered" THEN faults ELSE faults + 1

(* The call goes on at pc.                                                 *)
At(pc)   == op.call # None /\ op.pc = pc
Goto(pc) == op' = [op EXCEPT !.pc = pc]

(* The end of command m, and what its user is told.                        *)
End(m, outcome) ==
    /\ op' = NoOp
    /\ result' = IF Starts(m.cmd) THEN [outcome |-> outcome, ran |-> m.ran,
                                         dropped |-> m.dropped, runs |-> m.runs]
                                   ELSE None

(* Slip: an oven's unanswered Run is replayed like any request.            *)
RaiseAlways(m, unconfirmed) ==
    IF m.attempt = 1 THEN op' = [m EXCEPT !.pc = "admit", !.attempt = 2] /\ UNCHANGED result
    ELSE End(m, "failed")

(* _async_put: an exception closes the session, and the command is tried   *)
(* once more on a new one, which finds this module's state as it was left. *)
Raise(m, unconfirmed) ==
    IF unconfirmed THEN End(m, "unconfirmed")
    ELSE IF m.attempt = 1 THEN op' = [m EXCEPT !.pc = "admit", !.attempt = 2] /\ UNCHANGED result
    ELSE End(m, "failed")

-----------------------------------------------------------------------------
(* The appliance. *)

(* The settings a body would leave: a course brings its default.           *)
Loaded(set, body) ==
    LET course == IF CourseKey \in DOMAIN body THEN Only(TempKey, CourseDefault[body[CourseKey]])
                                               ELSE <<>>
    IN Restrict(Over(body, Over(course, set)), DOMAIN set)

(* What a PUT of `body` to an appliance in state w makes of it.  A Run is  *)
(* accepted and need not be applied: a washer may only load what came with *)
(* it, an oven may wait for its own Start.  A Ready moves an idle washer   *)
(* to Pause and resets it to its course's defaults.                        *)
Taken(w, body) ==
    LET state == IF StateKey \in DOMAIN body THEN body[StateKey] ELSE None
        set   == IF IsStart(body) \/ kind # "Washer" THEN Loaded(w.set, body) ELSE w.set
    IN IF w.state = "Run" THEN {[w EXCEPT !.state = IF state = "Ready" THEN "Ready" ELSE @]}
       ELSE IF state = "Run"
       THEN {[state |-> s, set |-> set] : s \in {"Run", w.state}}
       ELSE IF state = "Ready" /\ w.state = "Ready" /\ kind = "Washer"
       THEN {[state |-> "Pause", set |-> Loaded(set, Restrict(set, {CourseKey}))]}
       ELSE {[w EXCEPT !.set = set]}

(* /devices: the ids listed as connected.                                  *)
Listing == {0} \cup (IF divider THEN {1} ELSE {})
OffersRecord(i) == i = 0 \/ kind = "Oven"

Put(i, o, body) ==
    IF Happens(o) THEN \E w \in Taken(world[i], body) : world' = [world EXCEPT ![i] = w]
                  ELSE UNCHANGED world

(* Turning the dial, starting, stopping and finishing at the panel, and    *)
(* the divider.                                                            *)
Panel ==
    /\ panel < MaxPanel
    /\ panel' = panel + 1
    /\ \/ \E i \in {j \in Devices : OffersRecord(j)}, s \in {"Ready", "Run"}, set \in Settings[kind] :
             /\ s = "Run" => set = world[i].set
             /\ [state |-> s, set |-> set] # world[i]
             /\ world' = [world EXCEPT ![i] = [state |-> s, set |-> set]]
             /\ op' = IF op.call = "write" THEN [op EXCEPT !.expected = None] ELSE op
             /\ UNCHANGED <<divider, fresh>>
       \/ /\ kind = "Oven"
          /\ divider' = ~divider
          /\ fresh' = {}
          /\ op' = IF op.call = "sweep" THEN [op EXCEPT !.steady = FALSE] ELSE op
          /\ UNCHANGED world
    /\ UNCHANGED <<kind, State, result, faults, commands>>

-----------------------------------------------------------------------------
(* Reads. *)

Value(i, k) == IF i = 0 /\ k \in DOMAIN staged THEN staged[k].value ELSE None
HeldValues(held) == [k \in DOMAIN held |-> held[k].value]

(* Slip: only leaving Ready drops a held value.                            *)
RevisedByState(held, keys, w, stateRead) ==
    IF stateRead /\ w.state # "Ready" THEN <<>> ELSE held

(* The held values after a read of w that showed `keys`, and the state too *)
(* if stateRead: the appliance's own choice wins.                          *)
Revised(held, keys, w, stateRead) ==
    IF stateRead /\ w.state # "Ready" THEN <<>>
    ELSE [k \in {k \in DOMAIN held : k \in keys => held[k].base \in {None, w.set[k]}} |->
             IF held[k].base = None /\ k \in keys THEN [held[k] EXCEPT !.base = w.set[k]]
             ELSE held[k]]

(* _with_course_defaults: a held course reads with its own default.        *)
CourseDefaults(held) ==
    IF CourseKey \in DOMAIN held /\ TempKey \notin DOMAIN held
    THEN Only(TempKey, CourseDefault[held[CourseKey].value]) ELSE <<>>

(* What a read shows of the settings.                                      *)
View(held, set) == WithStaged(WithStaged(set, HeldValues(held)), CourseDefaults(held))

(* with_cavity_modes: the upper cavity's by the divider, the lower's by    *)
(* its own listing; as reported while unknown.                             *)
CavityModes(i, isDivided, isListed) ==
    IF i = 1 THEN IF isListed = FALSE THEN "none" ELSE "lower"
    ELSE CASE isDivided = None -> "reported" [] isDivided -> "upper" [] OTHER -> "whole"

(* A washer's endpoint read on its own: it revises the held values it      *)
(* shows, and nothing else.                                                *)
ReadEndpoint(wrapper) == \E o \in Outcomes :
    /\ op = NoOp
    /\ kind = "Washer" /\ staged # <<>>
    /\ Request(o)
    /\ staged' = IF o # "answered" THEN staged
                 ELSE Revised(staged, {k \in DOMAIN world[0].set : Wrapper(k) = wrapper},
                              world[0], wrapper = "Operation")
    /\ UNCHANGED <<World, last, listed, divided, typed, clock, shown, History, op, panel, commands>>

(* A lone read of whether the lower cavity is listed asks /devices anew,   *)
(* and says of the divider what a sweep's listing does.                    *)
ReadListed == op = NoOp /\ kind = "Oven" /\ \E o \in Outcomes :
    /\ Request(o)
    /\ divided' = IF o = "answered" THEN 1 \in Listing ELSE divided
    /\ listed' = CASE o = "answered" -> [listed EXCEPT ![1] = 1 \in Listing]
                   [] o = "refused"  -> [listed EXCEPT ![1] = None]
                   [] OTHER          -> listed
    /\ fresh' = IF o = "refused" THEN fresh \ {1} ELSE fresh
    /\ UNCHANGED <<World, last, staged, typed, clock, shown, result, op, panel, commands>>

(* A lone read of a swept cavity's modes offers them by the listings so    *)
(* far.                                                                    *)
ReadMode(i) == op = NoOp /\ kind = "Oven" /\ last[i] # None /\ \E o \in Outcomes :
    /\ Request(o)
    /\ shown' = IF o # "answered" THEN shown
                ELSE [shown EXCEPT ![i] = CavityModes(i, divided, listed[i])]
    /\ UNCHANGED <<World, last, staged, listed, divided, typed, clock, History, op, panel, commands>>

SweepBegins(i) ==
    /\ op = NoOp
    /\ op' = [call |-> "sweep", index |-> i, steady |-> TRUE, seen |-> None,
              pc |-> IF i = 0 THEN "record" ELSE "listing"]
    /\ UNCHANGED <<World, State, History, panel, faults, commands>>

(* The end of a sweep that read w, with the sibling's own listing `known`. *)
Swept(i, w, isDivided, isListed, isKnown) ==
    /\ last' = [last EXCEPT ![i] = w]
    /\ typed' = typed \cup {i}
    /\ staged' = IF i = 0 THEN Revised(staged, DOMAIN w.set, w, TRUE) ELSE staged
    /\ shown' = [shown EXCEPT ![i] = IF kind = "Oven"
                                     THEN CavityModes(i, isDivided, isListed) ELSE @]
    /\ fresh' = IF isKnown /\ op.steady THEN fresh \cup {i} ELSE fresh \ {i}
    /\ op' = NoOp

(* _read_seed of device 0: its record, and a listing for an upper cavity.  *)
(* An unanswered listing leaves the divider unknown.                       *)
SweepRecord == At("record") /\ op.call = "sweep" /\ op.index = 0 /\ \E o \in Outcomes :
    /\ Request(o)
    /\ IF o # "answered" THEN
           op' = NoOp /\ UNCHANGED <<last, typed, staged, shown, fresh>>
       ELSE IF kind = "Oven" THEN
           /\ op' = [op EXCEPT !.pc = "listing", !.seen = world[0]]
           /\ UNCHANGED <<last, typed, staged, shown, fresh>>
       ELSE Swept(0, world[0], None, None, TRUE)
    /\ UNCHANGED <<World, listed, divided, clock, result, panel, commands>>

SweepListing == At("listing") /\ op.index = 0 /\ \E o \in Outcomes :
    /\ Request(o)
    /\ divided' = IF o = "answered" THEN 1 \in Listing ELSE None
    /\ Swept(0, op.seen, divided', None, o = "answered")
    /\ UNCHANGED <<World, listed, clock, result, panel, commands>>

SiblingSwept(isListed, isKnown) ==
    /\ listed' = [listed EXCEPT ![1] = isListed]
    /\ Swept(1, world[1], divided, isListed, isKnown)

(* _sibling_record: from /devices while it lists it, else from its own     *)
(* path; a bridge that echoes device 0 at every index is refused.  A       *)
(* listing that is not answered with a list leaves `listed` unknown.       *)
SiblingListing == At("listing") /\ op.index = 1 /\ \E o \in Outcomes :
    /\ Request(o)
    /\ divided' = IF o = "answered" THEN 1 \in Listing ELSE divided
    /\ IF o = "answered" /\ OffersRecord(1) /\ (1 \in Listing \/ StillListed)
       THEN SiblingSwept(1 \in Listing, TRUE)
       ELSE /\ op' = IF Raises(o) THEN NoOp
                     ELSE [op EXCEPT !.pc = "sibling", !.seen = IF o = "answered" THEN Listing ELSE None]
            /\ listed' = IF o = "refused" THEN [listed EXCEPT ![1] = None] ELSE listed
            /\ fresh' = IF o = "refused" THEN fresh \ {1} ELSE fresh
            /\ UNCHANGED <<last, typed, staged, shown>>
    /\ UNCHANGED <<World, clock, result, panel, commands>>

SiblingRecord == At("sibling") /\ \E o \in Outcomes :
    /\ Request(o)
    /\ IF o = "answered" /\ OffersRecord(1)
       THEN IF op.seen = None THEN Swept(1, world[1], divided, listed[1], FALSE) /\ UNCHANGED listed
                              ELSE SiblingSwept(1 \in op.seen, TRUE)
       ELSE op' = NoOp /\ UNCHANGED <<listed, last, typed, staged, shown, fresh>>
    /\ UNCHANGED <<World, divided, clock, result, panel, commands>>

-----------------------------------------------------------------------------
(* Writes. *)

Cmd     == Commands[op.cmd]
Index   == Cmd.index
Aggregate == Wire(op.cmd, kind)

Idle(i) == last[i] # None /\ last[i].state = "Ready"

Command(c) ==
    /\ op = NoOp
    /\ commands < MaxCommands[kind] /\ faults + commands < MaxTogether[kind]
    /\ commands' = commands + 1
    /\ op' = [call |-> "write", cmd |-> c, pc |-> "admit", attempt |-> 1, runs |-> 0,
              ran |-> FALSE, dropped |-> FALSE, saw |-> None,
              expected |-> IF kind = "Washer" /\ last[0] = world[0] /\ Idle(0)
                           THEN View(staged, last[0].set) ELSE None]
    /\ result' = None
    /\ UNCHANGED <<World, State, fresh, panel, faults>>

(* clock_write: a clock sync, and nothing else.                            *)
ClockWrite == Cmd.href = "/configuration" /\ {Field(k) : k \in DOMAIN Cmd.steps} = {"currentTime"}

(* A write to a device /devices did not list is refused; a clock sync has  *)
(* an endpoint of its own, if it is served.                                *)
Admit ==
    /\ At("admit")
    /\ IF Index # 0 /\ listed[Index] = FALSE THEN End(op, "forbidden")
       ELSE IF ClockWrite /\ Index = 0 THEN Goto("clock") /\ UNCHANGED result
       ELSE Goto("type") /\ UNCHANGED result
    /\ UNCHANGED <<World, State, fresh, panel, faults, commands>>

(* _has_clock: probed once; no answer is asked again.                      *)
ProbeClock(serves) == At("clock") /\ \E o \in IF clock = None THEN Outcomes ELSE {"answered"} :
    /\ clock # None => serves = clock
    /\ Request(o)
    /\ clock' = IF clock # None \/ Raises(o) THEN clock ELSE serves /\ o = "answered"
    /\ IF clock' = TRUE THEN Goto("sync") ELSE Goto("type")
    /\ UNCHANGED <<World, last, staged, listed, divided, typed, shown, History, panel, commands>>

SyncClock == At("sync") /\ \E o \in Outcomes :
    /\ Request(o)
    /\ IF Raises(o) THEN Raise(op, FALSE)
       ELSE End(op, IF o = "answered" THEN "ok" ELSE "refused")
    /\ UNCHANGED <<World, State, fresh, panel, commands>>

(* _learn_type: a write routed by the wrong type would reach the wrong     *)
(* endpoint.                                                               *)
LearnType == At("type") /\ \E o \in IF Index \in typed THEN {"answered"} ELSE Outcomes :
    /\ Request(o)
    /\ typed' = IF o = "answered" /\ OffersRecord(Index) THEN typed \cup {Index} ELSE typed
    /\ IF Index \in typed' THEN Goto("compose") /\ UNCHANGED result
       ELSE IF Raises(o) THEN Raise(op, FALSE) ELSE End(op, "refused")
    /\ UNCHANGED <<World, last, staged, listed, divided, clock, shown, fresh, panel, commands>>

SameDevice == \A i \in Cmd.elements : i = Index

(* The values of the write that only a start carries are held, each with   *)
(* what the last sweep read for it; a course drops the settings held for   *)
(* the one before.                                                         *)
Held(held, new) ==
    LET course == CourseKey \in DOMAIN new
        stay   == {k \in DOMAIN held : course => Prefix(k) # None}
    IN Over([k \in DOMAIN new |-> [value |-> new[k],
                                   base  |-> IF last[0] # None /\ k \in DOMAIN last[0].set
                                             THEN last[0].set[k] ELSE None]],
            Restrict(held, stay))

(* Where the write goes on: refused, held, an ordinary PUT, a stop or one  *)
(* of the two starts.                                                      *)
Refusal ==
    IF Cmd.batch /\ (Cmd.href # "/device" \/ kind = "Air_Conditioner") THEN "not_allowed"
    ELSE IF Cmd.batch /\ ~SameDevice THEN "not_found"
    ELSE IF Aggregate = <<>> \/ (Cmd.batch /\ ~Translatable(Cmd.each, Table)) THEN "not_found"
    ELSE "none"

(* The body a PUT sends: what is not held.                                 *)
Sendable == Sent(op.cmd, kind)

Compose ==
    /\ At("compose")
    /\ IF Refusal # "none" THEN End(op, Refusal) /\ UNCHANGED staged
       ELSE \E new \in {Restrict(Aggregate, HeldOf(op.cmd, kind))}, sendable \in {Sendable} :
              /\ staged' = IF Index = 0 THEN Held(staged, new) ELSE staged
              /\ LET modal == \E k \in DOMAIN sendable : Wrapper(k) = "Mode"
                 IN IF IsStart(sendable) /\ kind = "Oven" /\ modal THEN Goto("oven") /\ UNCHANGED result
                    ELSE IF IsStart(sendable) /\ Index = 0 /\ staged' # <<>> /\ Idle(0)
                    THEN Goto("composed") /\ UNCHANGED result
                    ELSE IF sendable = <<>> THEN End(op, "ok")
                    ELSE IF sendable = StopBody THEN Goto("stop") /\ UNCHANGED result
                    ELSE IF WriteTarget(Cmd.href, sendable, kind) = {} THEN End(op, "bad_request")
                    ELSE Goto("put") /\ UNCHANGED result
    /\ UNCHANGED <<World, last, listed, divided, typed, clock, shown, fresh, panel, faults, commands>>

(* _already_ready: a stop is not sent to an appliance a fresh read says is *)
(* idle.                                                                   *)
Stop == \E o \in Outcomes :
    /\ Request(o)
    /\ IF Raises(o) THEN Raise(op, FALSE)
       ELSE IF o = "answered" /\ world[Index].state = "Ready" THEN End(op, "ok")
       ELSE /\ op' = [op EXCEPT !.pc = "put", !.saw = IF o = "answered" THEN world[Index].state
                                                                      ELSE "unread"]
            /\ UNCHANGED result

FreshRead ==
    /\ At("stop")
    /\ Stop
    /\ UNCHANGED <<World, State, fresh, panel, commands>>

(* A step that sends `body` to the device.                                 *)
Sends(o, body) ==
    /\ Request(o)
    /\ Put(Index, o, body)
    /\ UNCHANGED <<kind, divider, last, listed, divided, typed, clock, shown, fresh, panel, commands>>

(* The call after it: a Run sent is counted, whether the appliance ran,    *)
(* and whether it did not upon a Run that no read is to follow.            *)
Marked(body) == [op EXCEPT !.runs = IF IsStart(body) THEN @ + 1 ELSE @,
                           !.ran  = @ \/ world'[Index].state = "Run",
                           !.dropped = IsStart(body) /\ op.pc # "composed"
                                       /\ world'[Index].state # "Run"]

PutOnce == At("put") /\ \E o \in Outcomes, body \in {Sendable} :
    /\ Sends(o, body)
    /\ UNCHANGED staged
    /\ IF Raises(o) THEN Raise(Marked(body), FALSE)
       ELSE End(Marked(body), IF o = "answered" THEN "ok" ELSE "refused")

(* Slip: the held values are let go of before the start is answered.       *)
LetGo(o) == staged' = IF Index = 0 THEN <<>> ELSE staged

(* Once the start's settings are accepted nothing is held any more.        *)
Clear(o) == staged' = IF o = "answered" /\ Index = 0 THEN <<>> ELSE staged

(* _start: every held value in the body of the start.                      *)
StartComposed == At("composed") /\ \E o \in Outcomes, body \in {AddStaged(Sendable, HeldValues(staged))} :
    /\ Sends(o, body)
    /\ Clear(o)
    /\ IF Raises(o) THEN Raise(Marked(body), FALSE)
       ELSE IF o = "refused" THEN End(Marked(body), "refused")
       ELSE op' = [Marked(body) EXCEPT !.pc = "check"] /\ UNCHANGED result

(* Whether it runs, read afresh: done if it does.                          *)
CheckRuns(after) == \E o \in Outcomes :
    /\ Request(o)
    /\ IF Raises(o) THEN Raise(op, FALSE)
       ELSE IF o = "answered" /\ world[Index].state = "Run"
       THEN End([op EXCEPT !.ran = TRUE], "ok")
       ELSE IF after = None THEN End(op, "refused")
       ELSE Goto(after) /\ UNCHANGED result

StartChecked ==
    /\ At("check") /\ CheckRuns("run")
    /\ UNCHANGED <<World, State, fresh, panel, commands>>

StartRun == At("run") /\ \E o \in Outcomes :
    /\ Sends(o, Only(StateKey, "Run"))
    /\ UNCHANGED staged
    /\ LET m == Marked(Only(StateKey, "Run"))
       IN IF Raises(o) THEN Raise(m, FALSE)
          ELSE IF o = "answered" THEN End(m, "ok")
          ELSE op' = [m EXCEPT !.pc = "recheck"] /\ UNCHANGED result

(* It may have got there by itself between the read and the refused Run.   *)
StartRechecked ==
    /\ At("recheck") /\ CheckRuns(None)
    /\ UNCHANGED <<World, State, fresh, panel, commands>>

(* An oven's settings go first, without the Run.                           *)
OvenSettings == At("oven") /\ \E o \in Outcomes, body \in {Restrict(Sendable, DOMAIN Sendable \ {StateKey})} :
    /\ Sends(o, body)
    /\ Clear(o)
    /\ IF Raises(o) THEN Raise(Marked(body), FALSE)
       ELSE IF o = "refused" THEN End(Marked(body), "refused")
       ELSE op' = [Marked(body) EXCEPT !.pc = "ovenrun"] /\ UNCHANGED result

(* The request budget is spent before the Run is sent.                     *)
OvenBudgetSpent ==
    /\ At("ovenrun")
    /\ Request("lost")
    /\ Raise(op, FALSE)
    /\ UNCHANGED <<World, State, fresh, panel, commands>>

(* Only this request can have started the oven: unanswered, it is reported *)
(* as unconfirmed.                                                         *)
OvenRun == At("ovenrun") /\ \E o \in Outcomes :
    /\ Sends(o, Only(StateKey, "Run"))
    /\ UNCHANGED staged
    /\ LET m == Marked(Only(StateKey, "Run"))
       IN IF Raises(o) THEN Raise(m, TRUE)
          ELSE End(m, IF o = "answered" THEN "ok" ELSE "refused")

-----------------------------------------------------------------------------

Init ==
    /\ kind \in Kinds
    /\ \E set \in Settings[kind] : world = [i \in Devices |-> [state |-> "Ready", set |-> set]]
    /\ divider \in IF kind = "Oven" THEN BOOLEAN ELSE {FALSE}
    /\ last = [i \in Devices |-> None]
    /\ staged = <<>>
    /\ listed = [i \in Devices |-> None]
    /\ divided = None /\ typed = {} /\ clock = None
    /\ shown = [i \in Devices |-> None]
    /\ op = NoOp /\ result = None /\ fresh = {}
    /\ panel = 0 /\ faults = 0 /\ commands = 0

Next ==
    \/ Panel
    \/ \E wrapper \in {"Operation", "Mode", "Washer"} : ReadEndpoint(wrapper)
    \/ ReadListed
    \/ \E i \in Devices : ReadMode(i)
    \/ SweepBegins(0)
    \/ kind = "Oven" /\ SweepBegins(1)
    \/ SweepRecord \/ SweepListing \/ SiblingListing \/ SiblingRecord
    \/ \E c \in CommandsOf[kind] : Command(c)
    \/ Admit \/ SyncClock \/ LearnType \/ Compose \/ FreshRead \/ PutOnce
    \/ \E serves \in BOOLEAN : ProbeClock(serves)
    \/ StartComposed \/ StartChecked \/ StartRun \/ StartRechecked
    \/ OvenSettings \/ OvenBudgetSpent \/ OvenRun

Spec == Init /\ [][Next]_vars

-----------------------------------------------------------------------------
(* Properties. *)

(* A value held is held over what the last sweep reported: a dial turned   *)
(* since the choice was made, once a sweep has seen it, wins               *)
(* (_with_staged).  A value the sweep did not find (None) says nothing.    *)
HeldOverReported ==
    last[0] # None =>
        \A k \in DOMAIN staged \cap DOMAIN last[0].set :
            last[0].set[k] # None => staged[k].base = last[0].set[k]

(* A start of an idle washer runs what Home Assistant showed when it was   *)
(* pressed, the held values and their course's defaults among it, however  *)
(* many requests and attempts it takes, unless the panel was used          *)
(* meanwhile (_start, _with_course_defaults).                              *)
StartRunsShown ==
    [][ (/\ kind = "Washer" /\ op.call = "write" /\ op.expected # None
         /\ panel' = panel
         /\ world[0].state # "Run" /\ world'[0].state = "Run")
        => world'[0].set = op.expected ]_vars

(* A start reported as accepted has had the appliance running, or has sent *)
(* it a Run of its own, answered, that the appliance did not act upon: one *)
(* that loads the programme only is sent the Run as well (_start).  What   *)
(* an answered Run did is not read back, and an appliance may leave it.    *)
AcceptedStartRan ==
    result # None /\ result.outcome = "ok" => result.ran \/ result.dropped

(* An oven is sent at most one Run for one start, whatever answer is lost  *)
(* and retried (_start and _async_put).                                    *)
OvenRunOnce ==
    kind = "Oven" /\ result # None => result.runs <= 1

(* A stop resets an idle washer only if the read before it failed or found *)
(* it busy (_already_ready).                                               *)
StopKeepsIdle ==
    [][ \A i \in Devices :
          world[i].state = "Ready" /\ world'[i].state = "Pause" => op.saw \notin {None, "Ready"} ]_vars

(* A cavity swept since the divider last moved, and whose last listing was *)
(* answered, offers the modes of the oven as it is divided, read alone     *)
(* too, and no write goes to a lower cavity that is not there              *)
(* (with_cavity_modes, read, write).                                       *)
CavitiesAsDivided ==
    /\ kind = "Oven" /\ 0 \in fresh => shown[0] = IF divider THEN "upper" ELSE "whole"
    /\ kind = "Oven" /\ 1 \in fresh => shown[1] = IF divider THEN "lower" ELSE "none"
    /\ op.call = "write" /\ Index = 1 /\ op.pc # "admit" /\ 1 \in fresh => divider

(* What is shown is over the last sweep: a held value over what it         *)
(* reported, a cavity's modes over the divider it found.                   *)
BridgeShowsSwept == HeldOverReported /\ CavitiesAsDivided

(* A start reported as accepted ran, but for an answered Run that the      *)
(* appliance left, and an oven is sent at most one Run for it, whatever    *)
(* answer is lost and retried.                                             *)
StartRanOnce == AcceptedStartRan /\ OvenRunOnce

(* A start of an idle washer runs what was shown as it was pressed, and a  *)
(* stop does not reset one that is idle.                                   *)
StartsAndStopsAsShown == StartRunsShown /\ StopKeepsIdle

=============================================================================
