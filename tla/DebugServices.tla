----------------------------- MODULE DebugServices -----------------------------
(***************************************************************************)
(* The raw services of an administrator (services.py, and the debug panel  *)
(* of the options dialog): write_resource, an ordered sequence of writes   *)
(* with settle waits and a later verification; observe_resource, a window  *)
(* of notifications of one href; read_resource.  They share the session    *)
(* and its lock with the entities' commands and with the coordinator's own *)
(* push mode, which may come and go, and the session with it, while they   *)
(* wait.  A caller may be cancelled: it lets go of the lock, and what it   *)
(* had started in a thread is sent without it.  The thread that refreshes  *)
(* push mode's relations sends without it as well.                         *)
(*                                                                         *)
(* The appliance takes a write or refuses it, answers or not, and on its   *)
(* own may put a value back.  An href may be of the master or a sibling;   *)
(* the services name it as the sibling itself would.                       *)
(***************************************************************************)
EXTENDS Naturals, Sequences, FiniteSets

CONSTANTS
    None,
    Devices,    \* the device registry's: each with the subdevice it is, or None
    Actual,     \* to_actual: for each subdevice, its hrefs as they are on the wire
    Vals,       \* what a resource may hold
    Plans,      \* the write sequences asked for: [caller, targets, writes, hold]
    Own,        \* the entry's own device
    Watched,    \* the href observed
    Budgets     \* bounds: [calls, faults, moves, attempts]

Hrefs == UNION {{Actual[s][h] : h \in DOMAIN Actual[s]} : s \in DOMAIN Actual}

DebugOK ==
    /\ Watched \in Hrefs
    /\ Budgets \subseteq [calls : Nat, faults : Nat, moves : Nat, attempts : Nat]
    /\ \A plan \in Plans :
        /\ plan.hold \in BOOLEAN
        /\ plan.writes \in Seq({plan.writes[i] : i \in DOMAIN plan.writes})

VARIABLES
    val,        \* what the appliance holds
    last,       \* who sent it its last request
    lock,       \* _session_lock: "free" or its holder
    session,    \* the live session's number; while none is open, the next one's
    open,       \* whether one is open
    relations,  \* OBSERVE relations on the watched href: of the live session
    push,       \* the coordinator's own: "off", "attempting", "cancelled" in an
                \* attempt, "on"; its session, and the session being refreshed
    tap,        \* the recording of the watched href, or None
    cached,     \* the shape of the href's rep in the cache
    seq,        \* the write_resource call
    obs,        \* the observe_resource call
    left,       \* for each kind of job, those in a thread whose callers are cancelled
    stray,      \* sessions on which such a job has unsubscribed
    budget

Wire == <<val, last, session, open, relations>>
Jobs == <<left, stray>>
vars == <<Wire, lock, push, tap, cached, seq, obs, Jobs, budget>>

May(what) == budget[what] > 0
Spend(what) == budget' = [budget EXCEPT ![what] = @ - 1]

NoCall == [at |-> "idle"]

\* A request, on the session it opens where none is
Sends(who) == last' = who /\ open' = TRUE

\* _close_session, the relations going with it
SessionGoes == session' = session + 1 /\ open' = FALSE /\ relations' = {}

\* A job whose caller is cancelled, and who may be at the handshake of a session
Leaves(what, job) ==
    /\ left' = [left EXCEPT ![what] = @ \union {[job |-> job, connects |-> ~open]}]
    /\ UNCHANGED stray

\* _resolve_target: one device, and one a loaded entry provides
Resolved(targets) ==
    IF Cardinality(targets) # 1 THEN None ELSE Devices[CHOOSE d \in targets : TRUE]

\* coordinator_observes
CoordinatorObserves == push.at # "off"

-----------------------------------------------------------------------------
(* async_raw_write_sequence *)

\* _admin_only: an administrator, or a call of no user, such as the panel's
Admitted(caller) == caller \in {None, "admin"}

\* The panel of the options dialog: one write to the entry's own device,
\* an empty one not sent
PanelPlans ==
    {[caller |-> None, targets |-> {Own}, hold |-> TRUE,
      writes |-> <<[href |-> h, val |-> v, readback |-> TRUE]>>] :
        h \in DOMAIN Actual[Devices[Own]], v \in Vals}

\* The whole call is checked before anything is sent
Acceptable(plan) ==
    /\ Admitted(plan.caller)
    /\ Resolved(plan.targets) # None
    /\ plan.writes # <<>>
    /\ \A i \in DOMAIN plan.writes : plan.writes[i].val \in Vals

\* Slip: the lock is taken for each write, whatever the call asked
HoldsEach(call) == FALSE

\* hold_session_lock: from the first write to the last
Holds(call) == call.hold

WriteCall ==
    /\ seq.at = "idle" /\ May("calls") /\ Spend("calls")
    /\ \E plan \in Plans \union PanelPlans :
        /\ Acceptable(plan)
        /\ seq' = [at |-> "write", i |-> 1, hold |-> plan.hold, results |-> <<>>,
                   writes |-> [i \in DOMAIN plan.writes |->
                                 [plan.writes[i] EXCEPT
                                    !.href = Actual[Resolved(plan.targets)][plan.writes[i].href]]],
                   left |-> {}, verdicts |-> <<>>]
    /\ UNCHANGED <<Wire, lock, push, tap, cached, obs, Jobs>>

MayWrite == IF Holds(seq) /\ seq.i > 1 THEN lock = "seq" ELSE lock = "free"

\* _raw_write_blocking: what the board holds after a POST, and the cache after
\* the read that follows it, where one was asked for and answered
Posted(w, taken) == IF taken THEN [val EXCEPT ![w.href] = w.val] ELSE val
ReadBack(w, readable) == IF w.readback /\ readable /\ w.href = Watched THEN "plain" ELSE cached

\* A write answered, and read back as the call asked; the lock released or kept
Write ==
    /\ seq.at = "write" /\ MayWrite
    /\ \E w \in {seq.writes[seq.i]}, taken \in BOOLEAN, readable \in BOOLEAN :
        /\ IF taken /\ readable THEN UNCHANGED budget ELSE May("faults") /\ Spend("faults")
        /\ val' = Posted(w, taken)
        /\ seq' = [seq EXCEPT
             !.results = Append(@, [accepted |-> taken,
                                    changed |-> IF ~w.readback \/ ~readable
                                                THEN None ELSE val'[w.href] = w.val]),
             !.i = @ + 1,
             !.at = IF seq.i < Len(seq.writes) THEN "settle" ELSE "verify",
             !.left = IF seq.i < Len(seq.writes)
                      THEN {} ELSE {seq.writes[j].href : j \in DOMAIN seq.writes}]
        /\ cached' = ReadBack(w, readable)
    /\ Sends("seq")
    /\ lock' = IF Holds(seq) /\ seq.i < Len(seq.writes) THEN "seq" ELSE "free"
    /\ UNCHANGED <<session, relations, push, tap, obs, Jobs>>

\* The answer is lost, the write taken or not: the sequence ends, saying
\* which of its writes were answered
WriteFails ==
    /\ seq.at = "write" /\ MayWrite
    /\ May("faults") /\ Spend("faults")
    /\ \E w \in {seq.writes[seq.i]} :
        \E taken \in BOOLEAN : val' = Posted(w, taken)
    /\ Sends("seq")
    /\ lock' = "free"
    /\ seq' = NoCall
    /\ UNCHANGED <<session, relations, push, tap, cached, obs, Jobs>>

\* The settle wait, the lock held or not
Settled ==
    /\ seq.at = "settle"
    /\ seq' = [seq EXCEPT !.at = "write"]
    /\ UNCHANGED <<Wire, lock, push, tap, cached, obs, Jobs, budget>>

\* Slip: the verdict is on what the call wrote there first
FirstWritten(writes, href) ==
    writes[CHOOSE i \in DOMAIN writes :
             /\ writes[i].href = href
             /\ \A j \in DOMAIN writes : writes[j].href = href => i <= j].val

\* last_payload_by_href
LastWritten(writes, href) ==
    writes[CHOOSE i \in DOMAIN writes :
             /\ writes[i].href = href
             /\ \A j \in DOMAIN writes : writes[j].href = href => j <= i].val

\* _payload_present_in, and nothing compared where nothing was read
Held(writes, href, rep) ==
    IF rep = None THEN None ELSE LastWritten(writes, href) = rep

\* One read of each href written, after the wait, under the lock
Verify ==
    /\ seq.at = "verify" /\ seq.left # {}
    /\ lock \in {"free", "seq"}
    /\ \E href \in seq.left, readable \in BOOLEAN :
        /\ IF readable THEN UNCHANGED budget ELSE May("faults") /\ Spend("faults")
        /\ \E rep \in {IF readable THEN val[href] ELSE None} :
            seq' = [seq EXCEPT !.left = @ \ {href},
                               !.verdicts = Append(@, [href |-> href, held |-> Held(seq.writes, href, rep)])]
        /\ cached' = IF readable /\ href = Watched THEN "plain" ELSE cached
        /\ lock' = IF seq.left = {href} THEN "free" ELSE "seq"
    /\ Sends("seq")
    /\ UNCHANGED <<val, session, relations, push, tap, obs, Jobs>>

WriteReturns ==
    /\ seq.at = "verify" /\ seq.left = {}
    /\ seq' = NoCall
    /\ UNCHANGED <<Wire, lock, push, tap, cached, obs, Jobs, budget>>

\* Cancelled in a wait, or with a write or a read in its thread
CancelWriteCall ==
    /\ seq.at \in {"write", "settle", "verify"}
    /\ May("faults") /\ Spend("faults")
    /\ \/ UNCHANGED Jobs
       \/ seq.at = "write" /\ MayWrite /\ Leaves("write", seq.writes[seq.i])
       \/ /\ seq.at = "verify" /\ lock \in {"free", "seq"}
          /\ \E href \in seq.left : Leaves("get", [href |-> href, query |-> FALSE])
    /\ seq' = NoCall
    /\ lock' = IF lock = "seq" THEN "free" ELSE lock
    /\ UNCHANGED <<Wire, push, tap, cached, obs>>

-----------------------------------------------------------------------------
(* async_observe_resource *)

\* A call with a query is refused where the coordinator observes; one
\* recording is kept for an href
ObserveCall ==
    /\ obs.at = "idle" /\ tap = None /\ May("calls") /\ Spend("calls")
    /\ \E query \in BOOLEAN :
        /\ ~(query /\ CoordinatorObserves)
        /\ tap' = [isolate |-> query, started |-> FALSE]
        /\ obs' = [at |-> "get", query |-> query, session |-> None]
    /\ UNCHANGED <<Wire, lock, push, cached, seq, Jobs>>

\* The cache after a GET answered: a rep read under a query is kept out of it
Got(href, query) == IF query \/ href # Watched THEN cached ELSE "plain"

ObserveGet ==
    /\ obs.at = "get" /\ lock = "free"
    /\ Sends("obs")
    /\ cached' \in {cached, Got(Watched, obs.query)}
    /\ obs' = [obs EXCEPT !.at = "locked"]
    /\ UNCHANGED <<val, session, relations, lock, push, tap, seq, Jobs, budget>>

\* One that times out, or was refused before it was sent, leaves the session
ObserveGetFails ==
    /\ obs.at = "get" /\ lock = "free"
    /\ May("faults") /\ Spend("faults")
    /\ Sends("obs")
    /\ obs' = [obs EXCEPT !.at = "release"]
    /\ UNCHANGED <<val, session, relations, lock, push, tap, cached, seq, Jobs>>

\* Any other failure closes the session, push mode or not
ObserveGetBreaks ==
    /\ obs.at = "get" /\ lock = "free"
    /\ May("faults") /\ Spend("faults")
    /\ last' = "obs" /\ SessionGoes
    /\ obs' = [obs EXCEPT !.at = "release"]
    /\ UNCHANGED <<val, lock, push, tap, cached, seq, Jobs>>

\* What the GET and the wait for the lock left time for is decided anew
ObserveStart ==
    /\ obs.at = "locked" /\ lock = "free"
    /\ IF obs.query /\ CoordinatorObserves
       THEN /\ obs' = [obs EXCEPT !.at = "release"]
            /\ UNCHANGED <<lock, tap>>
       ELSE /\ tap' = [tap EXCEPT !.started = TRUE]
            /\ obs' = [obs EXCEPT !.at = IF CoordinatorObserves THEN "listen" ELSE "subscribe"]
            /\ lock' = IF CoordinatorObserves THEN "free" ELSE "obs"
    /\ UNCHANGED <<Wire, push, cached, seq, Jobs, budget>>

Mine(query) == IF query THEN "query" ELSE "debug"

ObserveSubscribe ==
    /\ obs.at = "subscribe"
    /\ relations' = relations \union {Mine(obs.query)}
    /\ Sends("obs")
    /\ lock' = "free"
    /\ obs' = [obs EXCEPT !.at = "listen", !.session = session]
    /\ UNCHANGED <<val, session, push, tap, cached, seq, Jobs, budget>>

ObserveSubscribeFails ==
    /\ obs.at = "subscribe" /\ May("faults") /\ Spend("faults")
    /\ lock' = "free"
    /\ obs' = [obs EXCEPT !.at = "release"]
    /\ UNCHANGED <<Wire, push, tap, cached, seq, Jobs>>

\* Cancelled while a request is in its thread: the call goes on to its end
\* without knowing whether that is sent
CancelRequest ==
    /\ May("faults") /\ Spend("faults")
    /\ \/ /\ obs.at = "get" /\ lock = "free"
          /\ Leaves("get", [href |-> Watched, query |-> obs.query])
          /\ UNCHANGED lock
       \/ /\ obs.at = "subscribe"
          /\ Leaves("subscribe", Mine(obs.query))
          /\ lock' = "free"
    /\ obs' = [obs EXCEPT !.at = "release"]
    /\ UNCHANGED <<Wire, push, tap, cached, seq>>

\* The window is over, or the call failed or was cancelled in a wait: first
\* the recording goes
ObserveRelease ==
    /\ obs.at \in {"get", "locked", "listen", "release"}
    /\ IF obs.at \in {"get", "locked"} THEN May("faults") /\ Spend("faults") ELSE UNCHANGED budget
    /\ tap' = None
    /\ obs' = IF obs.session = None THEN NoCall ELSE [obs EXCEPT !.at = "retire"]
    /\ UNCHANGED <<Wire, lock, push, cached, seq, Jobs>>

\* An unsubscribe retires every relation on the path
Retires(of) == of = session /\ ~CoordinatorObserves

\* ... then, under the lock, the relation
ObserveRetire ==
    /\ obs.at = "retire" /\ lock = "free"
    /\ IF Retires(obs.session)
       THEN relations' \in {{}, relations} /\ Sends("obs")
       ELSE UNCHANGED Wire
    /\ obs' = NoCall
    /\ UNCHANGED <<val, session, lock, push, tap, cached, seq, Jobs, budget>>

CancelRetire ==
    /\ obs.at = "retire" /\ May("faults") /\ Spend("faults")
    /\ \/ UNCHANGED Jobs
       \/ lock = "free" /\ Retires(obs.session) /\ Leaves("unsubscribe", obs.session)
    /\ obs' = NoCall
    /\ UNCHANGED <<Wire, lock, push, tap, cached, seq>>

-----------------------------------------------------------------------------
(* The coordinator beside them, and the appliance *)

\* The subscribe burst of an observe attempt
Attempt ==
    /\ push.at \in {"off", "cancelled"} /\ lock = "free"
    /\ May("attempts") /\ Spend("attempts")
    /\ push' = [push EXCEPT !.at = "attempting", !.session = session]
    /\ relations' = relations \union {"coordinator"}
    /\ Sends("coordinator")
    /\ UNCHANGED <<val, session, lock, tap, cached, seq, obs, Jobs>>

\* After the grace wait: committed on the session it subscribed, which the
\* refresh thread is given, or abandoned
Commit ==
    /\ push.at = "attempting" /\ lock = "free"
    /\ push' \in {[push EXCEPT !.at = "off"]}
         \union IF push.session = session
                THEN {[push EXCEPT !.at = "on", !.refreshed = session]} ELSE {}
    /\ UNCHANGED <<Wire, lock, tap, cached, seq, obs, Jobs, budget>>

\* A cancelled cycle leaves its attempt as it is, in its burst or its wait
CancelAttempt ==
    /\ May("faults") /\ Spend("faults")
    /\ \/ /\ push.at \in {"off", "cancelled"} /\ lock = "free" /\ open
          /\ Leaves("subscribe", "coordinator")
       \/ push.at = "attempting" /\ UNCHANGED Jobs
    /\ push' = [push EXCEPT !.at = "cancelled"]
    /\ UNCHANGED <<Wire, lock, tap, cached, seq, obs>>

\* start_refresh_task: the relations renewed without the lock, perhaps once
\* more as the thread is told to stop
Refresh ==
    /\ push.refreshed # None /\ May("moves") /\ Spend("moves")
    /\ last' = "refresh"
    /\ relations' = IF push.refreshed = session THEN relations \union {"coordinator"} ELSE relations
    /\ push' = IF push.at = "on" THEN push ELSE [push EXCEPT !.refreshed = None]
    /\ UNCHANGED <<val, session, open, lock, tap, cached, seq, obs, Jobs>>

\* A poll or a command reconnects; push mode goes with its session
Reconnect ==
    /\ lock = "free" /\ May("faults") /\ Spend("faults")
    /\ session' = session + 1 /\ relations' = {}
    /\ Sends("coordinator")
    /\ push' = IF push.at = "on" THEN [push EXCEPT !.at = "off"] ELSE push
    /\ UNCHANGED <<val, lock, tap, cached, seq, obs, Jobs>>

\* A debug read breaks, or a command whose PUT failed is cancelled as it
\* closes the session: nothing leaves push mode
ClosedUnseen ==
    /\ lock = "free" /\ May("faults") /\ Spend("faults")
    /\ last' = "command" /\ SessionGoes
    /\ UNCHANGED <<val, lock, push, tap, cached, seq, obs, Jobs>>

\* An entity's command: another write, under the lock
Command ==
    /\ lock = "free" /\ May("moves") /\ Spend("moves")
    /\ \E href \in Hrefs, v \in Vals : val' = [val EXCEPT ![href] = v]
    /\ Sends("command")
    /\ UNCHANGED <<session, relations, lock, push, tap, cached, seq, obs, Jobs>>

\* A command, or a poll, cancelled with its request in its thread
CancelTurn ==
    /\ lock = "free" /\ May("faults") /\ Spend("faults")
    /\ \/ \E href \in Hrefs, v \in Vals :
            Leaves("write", [href |-> href, val |-> v, readback |-> FALSE])
       \/ Leaves("get", [href |-> Watched, query |-> FALSE])
    /\ UNCHANGED <<Wire, lock, push, tap, cached, seq, obs>>

\* The session a job left behind sends on: its own replaces one opened since
LeftOn(job) ==
    IF job.connects /\ open
    THEN session' = session + 1 /\ relations' = {}
    ELSE UNCHANGED <<session, relations>>

\* What such a job does, whoever has the lock
LeftJob ==
    /\ last' = "left"
    /\ \/ \E job \in left["write"] :
          /\ left' = [left EXCEPT !["write"] = @ \ {job}]
          /\ LeftOn(job) /\ open' = TRUE
          /\ val' \in {val, Posted(job.job, TRUE)}
          /\ cached' \in {cached, ReadBack(job.job, TRUE)}
          /\ UNCHANGED stray
       \/ \E job \in left["get"] :
          /\ left' = [left EXCEPT !["get"] = @ \ {job}]
          /\ LeftOn(job) /\ open' = TRUE
          /\ cached' \in {cached, Got(job.job.href, job.job.query)}
          /\ UNCHANGED <<val, stray>>
       \/ \E job \in left["subscribe"] :
          /\ left' = [left EXCEPT !["subscribe"] = @ \ {job}]
          /\ open' = TRUE
          /\ IF job.connects /\ open
             THEN session' = session + 1 /\ relations' \in SUBSET {job.job}
             ELSE relations' \in {relations, relations \union {job.job}} /\ UNCHANGED session
          /\ UNCHANGED <<val, cached, stray>>
       \/ \E job \in left["unsubscribe"] :
          /\ left' = [left EXCEPT !["unsubscribe"] = @ \ {job}]
          /\ stray' = stray \union {job.job}
          /\ relations' \in IF job.job = session THEN {{}, relations} ELSE {relations}
          /\ UNCHANGED <<val, session, open, cached>>
    /\ UNCHANGED <<lock, push, tap, seq, obs, budget>>

\* The board puts a value back, or the panel changes it
Revert ==
    /\ May("moves") /\ Spend("moves")
    /\ \E href \in Hrefs, v \in Vals : v # val[href] /\ val' = [val EXCEPT ![href] = v]
    /\ UNCHANGED <<last, session, open, relations, lock, push, tap, cached, seq, obs, Jobs>>

\* on_notification
Isolated == tap # None /\ tap.started /\ tap.isolate /\ ~CoordinatorObserves

Push ==
    /\ \E r \in relations : cached' = IF Isolated THEN cached ELSE IF r = "query" THEN "query" ELSE "plain"
    /\ cached' # cached
    /\ UNCHANGED <<Wire, lock, push, tap, seq, obs, Jobs, budget>>

-----------------------------------------------------------------------------
Init ==
    /\ val \in {[h \in Hrefs |-> v] : v \in Vals}
    /\ last = "coordinator" /\ lock = "free" /\ session = 1 /\ open = TRUE
    /\ relations = {} /\ push = [at |-> "off", session |-> 1, refreshed |-> None]
    /\ tap = None /\ cached = "plain"
    /\ seq = NoCall /\ obs = NoCall
    /\ left = [job \in {"write", "get", "subscribe", "unsubscribe"} |-> {}] /\ stray = {}
    /\ budget \in Budgets

WriteService ==
    \/ WriteCall \/ Write \/ WriteFails \/ Settled \/ Verify \/ WriteReturns
    \/ CancelWriteCall
ObserveService ==
    \/ ObserveCall \/ ObserveGet \/ ObserveGetFails \/ ObserveGetBreaks \/ ObserveStart
    \/ ObserveSubscribe \/ ObserveSubscribeFails \/ CancelRequest
    \/ ObserveRelease \/ ObserveRetire \/ CancelRetire
Coordinator ==
    \/ Attempt \/ Commit \/ CancelAttempt \/ Refresh \/ Reconnect \/ ClosedUnseen
    \/ Command \/ CancelTurn

Next ==
    \/ WriteService \/ ObserveService \/ Coordinator
    \/ LeftJob \/ Revert \/ Push

Spec == Init /\ [][Next]_vars

-----------------------------------------------------------------------------
(* Properties *)

\* Nothing takes its turn between the writes of a sequence that asked to hold
\* the lock, its settle waits included: what is sent in between comes from a
\* thread that needs no turn, the refresh or a job its caller has left.
SequenceAlone ==
    seq.at \in {"write", "settle"} /\ seq.i > 1 /\ seq.hold =>
        last \in {"seq", "refresh", "left"}

\* The verification says "held" of a value the appliance has as the call left
\* it, "not held" of one that it has not, and neither of one it could not
\* read -- over repeated writes to one href, failures and reverts.
WriteVerdictsTrue ==
    [][seq.at = "verify" /\ seq'.at = "verify" /\ Len(seq'.verdicts) > Len(seq.verdicts) =>
        \E v \in {seq'.verdicts[Len(seq'.verdicts)]} :
            v.held # None =>
                v.held = \E i \in DOMAIN seq.writes :
                           /\ seq.writes[i].href = v.href /\ seq.writes[i].val = val[v.href]
                           /\ \A j \in DOMAIN seq.writes : j > i => seq.writes[j].href # v.href]_vars

\* The service that observes the same href does not retire push mode's
\* relation, whenever the coordinator subscribed: it lives as long as its
\* session, but for an unsubscribe cancelled in its thread.
CoordinatorKept ==
    push.at = "on" /\ push.session = session /\ session \notin stray =>
        "coordinator" \in relations

\* The services and the coordinator leave each other alone.
DebugAside == SequenceAlone /\ CoordinatorKept

\* What a relation under a query pushes stays out of the cache (Tap).
QueryKeptOut == cached = "plain"

=============================================================================
