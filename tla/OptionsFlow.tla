------------------------------ MODULE OptionsFlow ------------------------------
(***************************************************************************)
(* What the integration learns from an appliance's reports and keeps on    *)
(* its config entry -- a washer's downloaded programs (cloudcourse.py),    *)
(* an air conditioner's unlisted modes (learned.py) -- and the options     *)
(* dialog that names, confirms, switches off and forgets it.               *)
(*                                                                         *)
(* Reports are applied on the reader's or an executor's thread; what they  *)
(* teach is written to the entry by a job queued on the event loop, where  *)
(* the dialog's steps, the entry's update listener and the entities'       *)
(* refresh run too.  The panel acts, the entry is reloaded and Home        *)
(* Assistant restarts between any two steps.                               *)
(***************************************************************************)
EXTENDS CloudCourse

CONSTANTS
    Kinds,          \* the appliances checked: "washer", "aircon"
    Modes,          \* the modes an air conditioner may report
    SupportedModes, \* the ones it lists as supported
    MaxWait,        \* rounds of a guided wait
    Confirmed,      \* the course codes an owner confirms
    Leftover,       \* the payload an earlier run may have left
    Budgets         \* bounds: how often each may act, [turns, dialogs, settings, reloads]

\* The tokens of a washer; a mode, and the list that names the supported ones
Tokens  == [course : Courses, default : Payloads \union {None},
            oneshot : Payloads \union {Sentinel}, extra : SUBSET Slots]
ModeReports == [mode : Modes, supported : SUBSET Modes]

\* The form does not refuse a course's translated name (config_flow.py:2389),
\* by which a course is shown: owners are taken not to give one
ASSUME FlowConstantsOK ==
    /\ Kinds \subseteq {"washer", "aircon"}
    /\ {"c1", "dl"} \subseteq Courses
    /\ SupportedModes \subseteq Modes
    /\ None \notin Tokens /\ None \notin ModeReports
    /\ Names \intersect Courses = {}
    /\ MaxWait \in Nat \ {0}
    /\ Leftover \in Payloads /\ Confirmed \subseteq Courses
    /\ Budgets \subseteq [turns : Nat, dialogs : Nat, settings : Nat, reloads : Nat]

VARIABLES
    kind,     \* the appliance
    app,      \* its own state: the tokens, or the mode
    cached,   \* its last report in the state cache, or None
    swept,    \* whether a sweep was applied since the start: the names the
              \* appliance gives its courses are in a resource of their own
    store,    \* CloudCourses
    learned,  \* LearnedModes: the codes of its one href
    saved,    \* the entry's data: [cloud, modes]
    options,  \* the entry's options: [cloud, learn]
    jobs,     \* queued on the event loop
    memo,     \* the canonical view's options, memoized, or None
    shown,    \* what the select last handed Home Assistant, or None
    issue,    \* whether the "not set up yet" Repair is raised
    dlg,      \* the options dialog
    budget,   \* what is left of the bounds
    blind     \* history: the names given with those names unread

Memory  == <<store, learned, saved>>
Display == <<memo, shown, issue>>
vars == <<kind, app, cached, swept, Memory, options, jobs, Display, dlg, budget, blind>>

May(what) == budget[what] > 0
Spend(what) == budget' = [budget EXCEPT ![what] = @ - 1]

Closed == [step |-> "closed"]

-----------------------------------------------------------------------------
(* What the entities and the Repair are computed from *)

CloudView == IF options.cloud THEN View(store) ELSE <<>>

\* personal_course_labels: those the appliance is known to give
Own == IF swept THEN PersonalLabels ELSE <<>>

Labels(view, own) == {OptionLabel(o, view, own) : o \in CourseOptions \union CloudOptions(view)}

\* canonical_resources: memoized until a report or a change clears it
Canonical == IF memo = None THEN CloudView ELSE memo

CurrentLabel(rep, view, course, own) ==
    IF rep = None \/ kind # "washer"
    THEN None
    ELSE OptionLabel(CurrentOption(rep, view, course), view, own)

\* The entities' state written: their options, and the current one
Publish(view, rep, course, own) ==
    /\ memo' = view
    /\ shown' = IF CurrentLabel(rep, view, course, own) # None
                THEN [labels |-> Labels(view, own),
                      current |-> CurrentLabel(rep, view, course, own)]
                ELSE shown

\* Whether programs wait to be set up (_refresh_cloud_course_issue)
Due(rep, record) ==
    /\ DOMAIN record.slots # {}
    /\ \/ Undiscovered(rep, record) # {}
       \/ CloudSlots(rep) # {} /\ record.course = None

\* Nothing read yet says nothing: the Repair stays
IssueFor(rep, record, enabled, before) ==
    CASE ~enabled \/ kind # "washer" -> FALSE
      [] enabled /\ kind = "washer" /\ rep = None -> before
      [] OTHER -> Due(rep, record)

\* Slip: the memoized view survives
RefreshKeepingMemo(record, opts) ==
    LET view == Canonical
    IN  /\ issue' = IssueFor(cached, record, opts.cloud, issue)
        /\ Publish(view, cached, record.course, Own)

\* _on_cloud_courses_changed
Refresh(record, opts) ==
    LET view == IF opts.cloud THEN View(record) ELSE <<>>
    IN  /\ issue' = IssueFor(cached, record, opts.cloud, issue)
        /\ Publish(view, cached, record.course, Own)

-----------------------------------------------------------------------------
(* A report applied: by the sweep, a notification, or the guided probe *)

\* LearnedModes.observe: only against a list of supported modes
WithLearned(codes, rep) ==
    IF rep.supported = {} \/ rep.mode \in rep.supported
    THEN codes
    ELSE codes \union {rep.mode}

\* A rep as the cache merges it: a notification may carry the mode alone,
\* and finds the list of the last sweep
Report == IF kind = "washer" THEN app ELSE [mode |-> app.mode, supported |-> SupportedModes]

Applied(rep, push) ==
    /\ cached' = rep
    /\ store' = IF kind = "washer" THEN Observed(store, rep) ELSE store
    /\ learned' = IF kind = "aircon" /\ options.learn THEN WithLearned(learned, rep) ELSE learned
    /\ jobs' = jobs \union (IF kind = "washer" /\ Changed(store, rep) THEN {"cloud"} ELSE {})
                    \union (IF learned' # learned THEN {"modes"} ELSE {})
                    \union (IF push /\ rep # cached THEN {"push"} ELSE {})

\* The sweep re-computes the Repair though it may have taught nothing
SweptIssue(rep, record) == IssueFor(rep, record, options.cloud, issue)

\* The summary poll ends with the Repair and the entities brought up to date
Poll ==
    \E rep \in {Report} :
        /\ Applied(rep, FALSE)
        /\ \E view \in {IF options.cloud THEN View(store') ELSE <<>>} :
            Publish(view, rep, store.course, PersonalLabels)
        /\ issue' = SweptIssue(rep, Snapshot(store'))
        /\ swept' = TRUE
        /\ UNCHANGED <<kind, app, saved, options, dlg, budget, blind>>

\* A notification, or a sub-poll, which a sweep comes before: published by a
\* job of its own
Notify ==
    \E rep \in {Report} :
        /\ swept
        /\ rep # cached
        /\ Applied(rep, TRUE)
        /\ memo' = None
        /\ UNCHANGED <<kind, app, swept, saved, options, shown, issue, dlg, budget, blind>>

-----------------------------------------------------------------------------
(* The event loop's jobs *)

Heard(before, after) == IF before = after THEN {} ELSE {"listen"}

\* _persist_cloud_courses, from the queue or from apply_cloud_courses
PersistCloud(record, queue) ==
    /\ saved' = [saved EXCEPT !.cloud = record]
    /\ jobs' = queue \union Heard(saved.cloud, record)
    /\ Refresh(record, options)

PersistCloudJob ==
    /\ "cloud" \in jobs
    /\ PersistCloud(Snapshot(store), jobs \ {"cloud"})
    /\ UNCHANGED <<kind, app, cached, swept, store, learned, options, dlg, budget, blind>>

PersistModesJob ==
    /\ "modes" \in jobs
    /\ saved' = [saved EXCEPT !.modes = learned]
    /\ jobs' = (jobs \ {"modes"}) \union Heard(saved.modes, learned)
    /\ UNCHANGED <<kind, app, cached, swept, store, learned, options, Display, dlg, budget, blind>>

\* _push_cache_snapshot: the reports' changes, once
PushJob ==
    /\ "push" \in jobs
    /\ jobs' = jobs \ {"push"}
    /\ Publish(Canonical, cached, store.course, Own)
    /\ UNCHANGED <<kind, app, cached, swept, Memory, options, issue, dlg, budget, blind>>

\* _async_options_updated: the entry was written
ListenJob ==
    /\ "listen" \in jobs
    /\ jobs' = jobs \ {"listen"}
    /\ Refresh(Snapshot(store), options)
    /\ UNCHANGED <<kind, app, cached, swept, Memory, options, dlg, budget, blind>>

-----------------------------------------------------------------------------
(* The options dialog *)

CanOpen == dlg.step = "closed" /\ May("dialogs") /\ kind = "washer"
OffersPrograms == CanOpen /\ cached # None /\ CloudSlots(cached) # {}

Waiting(slot) == [step |-> "wait", base |-> slot, task |-> "probing", left |-> MaxWait]

\* async_step_cloud_guided: the round ends when the appliance moves off
\* what is loaded now
StartGuided ==
    /\ \/ OffersPrograms
       \/ dlg.step = "timeout" /\ May("dialogs")
    /\ dlg' = Waiting(IF cached = None THEN None ELSE LoadedSlot(cached))
    /\ Spend("dialogs")
    /\ UNCHANGED <<kind, app, cached, swept, Memory, options, jobs, Display, blind>>

\* Only a slot the store recorded: a name needs a record to hang on
Selected(slot, base, slots) == slot # None /\ slot # base /\ slot \in DOMAIN slots

Later == IF dlg.left = 1 THEN [dlg EXCEPT !.task = "timeout"] ELSE [dlg EXCEPT !.left = @ - 1]

\* One round of _await_cloud_selection: a live read, applied; or a missed
\* one.  The task of a dialog that outlives a reload reads nothing more.
ProbeRound ==
    /\ dlg.step = "wait"
    /\ \/ /\ dlg.task = "probing"
          /\ Applied(app, TRUE)
          /\ memo' = IF app = cached THEN memo ELSE None
          /\ dlg' = IF Selected(LoadedSlot(app), dlg.base, store'.slots)
                    THEN [dlg EXCEPT !.task = LoadedSlot(app)]
                    ELSE Later
       \/ /\ dlg.task \in {"probing", "orphan"}
          /\ dlg' = Later
          /\ UNCHANGED <<cached, store, learned, jobs, memo>>
    /\ UNCHANGED <<kind, app, swept, saved, options, shown, issue, budget, blind>>

\* Slip: every entry of the step starts the wait over
CloudWaitAfresh(task) ==
    IF task \in {"probing", "orphan"}
    THEN Waiting(dlg.base)
    ELSE IF task = "timeout" THEN [step |-> "timeout"] ELSE [step |-> "name", slot |-> task]

\* The task is made once; a step entered while it runs shows the spinner
AfterWait(task) ==
    IF task \in {"probing", "orphan"}
    THEN dlg
    ELSE IF task = "timeout" THEN [step |-> "timeout"] ELSE [step |-> "name", slot |-> task]

\* async_step_cloud_wait, entered again
CloudWait ==
    /\ dlg.step = "wait"
    /\ dlg' = AfterWait(dlg.task)
    /\ UNCHANGED <<kind, app, cached, swept, Memory, options, jobs, Display, budget, blind>>

Absent == "absent"  \* a form that did not ask for the course

\* A name already borne by a personal course that is known of, by another
\* program of the form, or by one the form is not editing
Duplicate(names) ==
    LET given == {s \in DOMAIN names : names[s] # NoName}
        others == {s \in DOMAIN store.slots : IsUsable(store.slots[s])} \ DOMAIN names
        taken == Range(Own) \union {store.slots[s].name : s \in others}
    IN  \E s \in given : names[s] \in taken \/ \E t \in given \ {s} : names[t] = names[s]

CourseGiven(course) == IF course = Absent THEN store.course ELSE course

\* A course is checked against the appliance's list, of which nothing is
\* known until it is read
Listed(course) == course = Absent \/ cached # None

Given(names) == {names[s] : s \in DOMAIN names} \ {NoName}

\* _apply_cloud_course_names, then apply_cloud_courses: one write of the
\* entry for the whole submission
ApplyCloudCourses(names, course) ==
    /\ ~Duplicate(names) /\ Listed(course)
    /\ blind' = IF swept THEN blind ELSE blind \union Given(names)
    /\ \E slots \in {SetNames(store.slots, names)}, code \in {CourseGiven(course)} :
            /\ store' = [store EXCEPT !.slots = slots, !.course = code]
            /\ PersistCloud([slots |-> slots, course |-> code], jobs)

\* The guided form: one name, and the course until it is confirmed.  A
\* refused name leaves the form as it is.
NameSubmit(name, course) ==
    /\ dlg.step = "name"
    /\ course # Absent => store.course = None
    /\ \E names \in {[s \in {dlg.slot} |-> name]} : ApplyCloudCourses(names, course)
    /\ dlg' = Waiting(dlg.slot)
    /\ UNCHANGED <<kind, app, cached, swept, learned, options, budget>>

OpenManual ==
    /\ OffersPrograms
    /\ dlg' = [step |-> "manual", known |-> DOMAIN store.slots]
    /\ Spend("dialogs")
    /\ UNCHANGED <<kind, app, cached, swept, Memory, options, jobs, Display, blind>>

\* The bulk form: every program known at the submission, the ones learned
\* since it was drawn among them, unnamed; one name edited at a time
ManualSubmit(names, course) ==
    /\ dlg.step = "manual"
    /\ DOMAIN names = DOMAIN store.slots
    /\ \A s \in DOMAIN names \ dlg.known : names[s] = NoName
    /\ Cardinality({s \in DOMAIN names : names[s] # store.slots[s].name}) < 2
    /\ ApplyCloudCourses(names, course)
    /\ dlg' = Closed
    /\ UNCHANGED <<kind, app, cached, swept, learned, options, budget>>

\* Closing the dialog cancels its probe (async_remove); so does finishing
Close ==
    /\ dlg.step # "closed"
    /\ dlg' = Closed
    /\ UNCHANGED <<kind, app, cached, swept, Memory, options, jobs, Display, budget, blind>>

\* async_step_settings: a switch saved among the other options
Settings(option) ==
    /\ May("settings")
    /\ option = IF kind = "washer" THEN "cloud" ELSE "learn"
    /\ options' = [options EXCEPT ![option] = ~@]
    /\ jobs' = jobs \union {"listen"}
    /\ Spend("settings")
    /\ UNCHANGED <<kind, app, cached, swept, Memory, Display, dlg, blind>>

\* What forget_learned_modes leaves on the entry
Forgotten(record) == {}

Forget ==
    /\ kind = "aircon" /\ May("settings")
    /\ learned' = {}
    /\ saved' = [saved EXCEPT !.modes = Forgotten(@)]
    /\ jobs' = jobs \union Heard(saved, saved')
    /\ Spend("settings")
    /\ UNCHANGED <<kind, app, cached, swept, store, options, Display, dlg, blind>>

-----------------------------------------------------------------------------
(* A cycle picked in Home Assistant *)

\* The appliance replaces tokens by prefix, and ignores a program whose
\* write does not switch the course
Taken(tokens) ==
    [app EXCEPT !.course = IF "Course" \in DOMAIN tokens THEN tokens.Course ELSE @,
                !.oneshot = IF {"Course", "OneTimeCloudCourse"} \subseteq DOMAIN tokens
                            THEN tokens.OneTimeCloudCourse ELSE @]

\* The optimistic rep is no report: nothing is learned from it
Pick(label) ==
    /\ kind = "washer" /\ cached # None /\ May("turns")
    /\ label \in Labels(Canonical, Own)
    /\ app' = Taken(CycleWrite(OptionNamed(label, Canonical, Own), store))
    /\ cached' = app'
    /\ memo' = IF cached' = cached THEN memo ELSE None
    /\ jobs' = jobs \union (IF cached' = cached THEN {} ELSE {"push"})
    /\ Spend("turns")
    /\ UNCHANGED <<kind, swept, Memory, options, shown, issue, dlg, blind>>

-----------------------------------------------------------------------------
(* The appliance and Home Assistant *)

\* The panel: a course, a program, a saved default, a program downloaded
PanelTurn ==
    /\ May("turns")
    /\ Spend("turns")
    /\ IF kind = "washer"
       THEN \/ \E c \in Courses : app' = [app EXCEPT !.course = c]
            \/ \E p \in Payloads : app' = [app EXCEPT !.course = "dl", !.oneshot = p]
            \/ SlotOf(app.oneshot) # None /\ app' = [app EXCEPT !.default = app.oneshot]
            \/ app' = [app EXCEPT !.oneshot = Sentinel]
            \/ \E s \in Slots : app' = [app EXCEPT !.extra = @ \union {s}]
       ELSE \E m \in Modes : app' = [mode |-> m]
    /\ app' # app
    /\ UNCHANGED <<kind, cached, swept, Memory, options, jobs, Display, dlg, blind>>

\* The coordinator starts from the entry
Begun ==
    /\ store' = Restored(saved.cloud)
    /\ learned' = saved.modes
    /\ cached' = None /\ swept' = FALSE
    /\ memo' = None
    /\ shown' = None
    /\ Spend("reloads")
    /\ UNCHANGED <<kind, app, saved, options, blind>>

\* What a report queued runs before the unload has ended; a dialog stays
\* open, its probe on the closed coordinator
Reload ==
    /\ May("reloads")
    /\ {"cloud", "modes"} \intersect jobs = {}
    /\ Begun
    /\ jobs' = {}
    /\ dlg' = IF dlg.step = "wait" /\ dlg.task = "probing" THEN [dlg EXCEPT !.task = "orphan"] ELSE dlg
    /\ UNCHANGED issue

\* Home Assistant stops at any point and starts again: its Repairs with it
Restart ==
    /\ May("reloads")
    /\ Begun
    /\ jobs' = {}
    /\ dlg' = Closed
    /\ issue' = FALSE

-----------------------------------------------------------------------------

\* A washer on an ordinary course, a program of an earlier run maybe still
\* in its tokens; an air conditioner in a listed mode
Init ==
    /\ kind \in Kinds
    /\ app \in IF kind = "washer"
               THEN [course : {"c1"}, default : {None, Leftover},
                     oneshot : {Sentinel, Leftover},
                     extra : {{}, Slots}]
               ELSE [mode : SupportedModes]
    /\ cached = None /\ swept = FALSE
    /\ store = EmptyStore
    /\ learned = {}
    /\ saved = [cloud |-> Snapshot(EmptyStore), modes |-> {}]
    /\ options = [cloud |-> TRUE, learn |-> TRUE]
    /\ jobs = {}
    /\ memo = None /\ shown = None /\ issue = FALSE
    /\ dlg = Closed
    /\ budget \in Budgets /\ blind = {}

Labelled == Names \union Courses \union Range(PersonalLabels)

Jobs == PersistCloudJob \/ PersistModesJob \/ PushJob \/ ListenJob

Dialog ==
    \/ StartGuided \/ OpenManual \/ Close
    \/ ProbeRound \/ CloudWait
    \/ \E n \in Names \union {NoName}, c \in Confirmed \union {Absent} : NameSubmit(n, c)
    \/ \E c \in Confirmed \union {Absent}, names \in [DOMAIN store.slots -> Names \union {NoName}] :
        ManualSubmit(names, c)
    \/ \E option \in {"cloud", "learn"} : Settings(option)
    \/ Forget

Next ==
    \/ Poll \/ Notify
    \/ Jobs
    \/ Dialog
    \/ \E label \in Labelled : Pick(label)
    \/ PanelTurn
    \/ Reload \/ Restart

\* Polls and queued jobs come; a wait's task runs to its deadline, and Home
\* Assistant enters its step again when it has ended
Fairness ==
    /\ WF_vars(Poll)
    /\ WF_vars(PersistCloudJob) /\ WF_vars(PersistModesJob)
    /\ WF_vars(PushJob) /\ WF_vars(ListenJob)
    /\ WF_vars(ProbeRound) /\ WF_vars(CloudWait)

Spec == Init /\ [][Next]_vars /\ Fairness

-----------------------------------------------------------------------------

\* With nothing queued the three copies agree: the entry holds what is in
\* memory, so that a restart loses nothing, and the select shows the options
\* and the cycle that the cache, the store and the switch stand for now
\* (coordinator.py _persist_cloud_courses, _persist_learned,
\* _on_cloud_courses_changed).
SavedAndShown ==
    jobs = {} =>
        /\ saved = [cloud |-> Snapshot(store), modes |-> learned]
        /\ shown # None =>
             shown = [labels |-> Labels(CloudView, Own),
                      current |-> CurrentLabel(cached, CloudView, store.course, Own)]

\* Picking a program's name puts the appliance on the confirmed course with
\* that program's latest payload, both in one write; so no two names the
\* select shows stand for different cycles (laundry.py cycle_write, select.py
\* async_select_option).  Excepted is a name the dialog took while the
\* appliance's own were unread (after a reload, until the first sweep) and
\* that proves to be one of them: picked then, it runs the course.
OfACourse(name) == swept /\ name \in blind \intersect Range(PersonalLabels)

PickRunsProgram ==
    [][\A s \in DOMAIN store.slots :
        (/\ IsUsable(store.slots[s]) /\ store.slots[s].name \in Names
         /\ ~OfACourse(store.slots[s].name)
         /\ Pick(store.slots[s].name)) =>
            app'.course = store.course /\ app'.oneshot = store.slots[s].payload]_vars

\* A guided wait ends, however often its step is entered: with a program to
\* name, the timeout's choice, or the dialog closed (config_flow.py
\* async_step_cloud_wait).
WaitEnds == dlg.step = "wait" ~> dlg.step # "wait"

\* The waits end, and the Repair is in the end raised exactly while something
\* is left to set up, however the gap opened or closed (coordinator.py
\* _refresh_cloud_course_issue).
DialogSettles ==
    /\ WaitEnds
    /\ []<>(kind = "washer" =>
              issue = (options.cloud /\ cached # None /\ Due(cached, Snapshot(store))))

=============================================================================
