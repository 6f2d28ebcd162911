--------------------------- MODULE OptionsFlowProofs ---------------------------
(***************************************************************************)
(* Proofs about OptionsFlow, for any slots, payloads, courses, names and   *)
(* modes: with nothing queued the entry holds what is in memory and the    *)
(* select shows it, and a name picked runs the program that bears it.      *)
(***************************************************************************)
EXTENDS OptionsFlow, TLAPS

Programs == [payload : Payloads, name : Names \union {NoName}]
SlotMaps == UNION {[S -> Programs] : S \in SUBSET Slots}
Records  == [slots : SlotMaps, course : Courses \union {None}]
Stores   == [slots : SlotMaps, course : Courses \union {None}, candidates : SUBSET Courses,
             last : Payloads \union {Sentinel, Unobserved}]

TypedMemory ==
    /\ kind \in {"washer", "aircon"} /\ swept \in BOOLEAN
    /\ kind = "washer" => app \in Tokens /\ cached \in Tokens \union {None}
    /\ kind = "aircon" => app \in [mode : Modes] /\ cached \in ModeReports \union {None}
    /\ store \in Stores
    /\ learned \in SUBSET Modes
    /\ saved \in [cloud : Records, modes : SUBSET Modes]
    /\ options \in [cloud : BOOLEAN, learn : BOOLEAN]

\* Only a washer has a dialog of programs, and a select of them once it is read
WashersOnly ==
    /\ kind # "washer" => dlg.step = "closed"
    /\ kind # "washer" \/ cached = None => shown = None

\* No two programs an owner named bear one name; nor a course's, but for the
\* names given with those unread
Distinct(slots, unread) ==
    \A s \in DOMAIN slots : IsUsable(slots[s]) =>
        /\ slots[s].name \in Range(PersonalLabels) => slots[s].name \in unread
        /\ \A t \in DOMAIN slots \ {s} : slots[t].name # slots[s].name

\* The programs of a view: a memoized one may lag behind the store in their
\* payloads, never in their names
Fits(view, st) ==
    \A s \in DOMAIN view :
        /\ s \in DOMAIN st.slots /\ st.course # None
        /\ view[s] \in Programs /\ IsUsable(view[s])
        /\ view[s].name = st.slots[s].name

NamesDistinct == Distinct(store.slots, blind) /\ Distinct(saved.cloud.slots, blind)
MemoFits == memo # None => Fits(memo, store)

\* What the entry does not hold yet is queued to be written
QueuedToSave ==
    /\ "cloud" \notin jobs => saved.cloud = Snapshot(store)
    /\ "modes" \notin jobs => saved.modes = learned

\* What is shown of the past is queued to be shown anew
Refreshing == {"cloud", "listen"} \intersect jobs # {}
QueuedToShow ==
    /\ ~Refreshing => memo \in {None, CloudView}
    /\ ~Refreshing /\ "push" \notin jobs /\ shown # None =>
         shown = [labels |-> Labels(CloudView, Own),
                  current |-> CurrentLabel(cached, CloudView, store.course, Own)]

IInv == TypedMemory /\ WashersOnly /\ NamesDistinct /\ MemoFits /\ QueuedToSave /\ QueuedToShow

-----------------------------------------------------------------------------
(* The store and its views. *)

LEMMA SlotMapShape ==
    ASSUME NEW f \in SlotMaps
    PROVE  /\ DOMAIN f \subseteq Slots
           /\ f \in [DOMAIN f -> Programs]
           /\ \A s \in DOMAIN f : f[s] \in Programs
BY DEF SlotMaps

LEMMA SlotMapMade ==
    ASSUME NEW S \in SUBSET Slots, NEW f \in [S -> Programs]
    PROVE  f \in SlotMaps
BY DEF SlotMaps

\* What a report makes of the programs: more of them, under the names they have
Grown(old, new) ==
    /\ new \in SlotMaps
    /\ DOMAIN old \subseteq DOMAIN new
    /\ \A s \in DOMAIN old : new[s].name = old[s].name
    /\ \A s \in DOMAIN new \ DOMAIN old : new[s].name = NoName

LEMMA LearnGrows ==
    ASSUME NEW slots \in SlotMaps, NEW rep \in Tokens,
           NEW payload \in Payloads \union {None, Sentinel}
    PROVE  Grown(slots, Learn(slots, rep, payload))
<1> DEFINE name == IF payload.slot \in DOMAIN slots THEN slots[payload.slot].name ELSE NoName
           learnt == [s \in DOMAIN slots \union {payload.slot} |->
                        IF s = payload.slot THEN [payload |-> payload, name |-> name] ELSE slots[s]]
<1>1. CASE Learn(slots, rep, payload) = slots
  BY <1>1 DEF Grown
<1>2. CASE Learn(slots, rep, payload) # slots
  <2>1. SlotOf(payload) # None /\ Learn(slots, rep, payload) = learnt
    BY <1>2 DEF Learn
  <2>2. payload \in Payloads /\ payload.slot \in Slots
    BY <2>1, CourseConstantsOK DEF SlotOf, Sentinel
  <2>3. name \in Names \union {NoName}
    BY SlotMapShape DEF Programs
  <2>4. [payload |-> payload, name |-> name] \in Programs
    BY <2>2, <2>3 DEF Programs
  <2>5. learnt \in [DOMAIN slots \union {payload.slot} -> Programs]
    BY <2>4, SlotMapShape
  <2>6. learnt \in SlotMaps
    BY <2>2, <2>5, SlotMapShape, SlotMapMade
  <2>7. DOMAIN learnt = DOMAIN slots \union {payload.slot}
    OBVIOUS
  <2>8. ASSUME NEW s \in DOMAIN slots PROVE learnt[s].name = slots[s].name
    OBVIOUS
  <2>9. ASSUME NEW s \in DOMAIN learnt \ DOMAIN slots PROVE learnt[s].name = NoName
    OBVIOUS
  <2> QED BY <2>1, <2>6, <2>7, <2>8, <2>9 DEF Grown
<1> QED BY <1>1, <1>2

LEMMA LearnBothGrows ==
    ASSUME NEW slots \in SlotMaps, NEW rep \in Tokens
    PROVE  Grown(slots, LearnBoth(slots, rep))
<1> DEFINE once == Learn(slots, rep, rep.default)
<1>1. Grown(slots, once)
  BY LearnGrows DEF Tokens
<1> HIDE DEF once
<1>2. once \in SlotMaps
  BY <1>1 DEF Grown
<1>3. Grown(once, Learn(once, rep, rep.oneshot))
  BY <1>2, LearnGrows DEF Tokens
<1> QED BY <1>1, <1>3 DEF LearnBoth, Grown, once

LEMMA GrownDistinct ==
    ASSUME NEW old, NEW new, NEW unread, Grown(old, new), Distinct(old, unread)
    PROVE  Distinct(new, unread)
BY DEF Grown, Distinct, IsUsable

LEMMA GrownFits ==
    ASSUME NEW view, NEW st, NEW next, Fits(view, st),
           next.course = st.course, Grown(st.slots, next.slots)
    PROVE  Fits(view, next)
BY DEF Grown, Fits

LEMMA ObservedStores ==
    ASSUME NEW st \in Stores, NEW rep \in Tokens
    PROVE  /\ Observed(st, rep) \in Stores
           /\ Observed(st, rep).course = st.course
           /\ Grown(st.slots, Observed(st, rep).slots)
           /\ ~Changed(st, rep) => Observed(st, rep).slots = st.slots
<1>1. Grown(st.slots, LearnBoth(st.slots, rep))
  BY LearnBothGrows DEF Stores
<1>2. LearnBoth(st.slots, rep) \in SlotMaps
  BY <1>1 DEF Grown
<1>3. rep.course \in Courses /\ rep.oneshot \in Payloads \union {Sentinel}
  BY DEF Tokens
<1> QED BY <1>1, <1>2, <1>3 DEF Observed, Stores, Changed

LEMMA ViewOfSlots ==
    ASSUME NEW st, NEW next, next.course = st.course, next.slots = st.slots
    PROVE  View(next) = View(st)
BY DEF View

LEMMA ViewFits ==
    ASSUME NEW st, st.slots \in SlotMaps
    PROVE  Fits(View(st), st)
<1>1. CASE st.course = None
  BY <1>1 DEF View, Fits
<1>2. CASE st.course # None
  BY <1>2, SlotMapShape DEF View, Fits, Restrict
<1> QED BY <1>1, <1>2

LEMMA RestoredStores ==
    ASSUME NEW record \in Records
    PROVE  /\ Restored(record) \in Stores
           /\ Restored(record).slots = record.slots
           /\ Snapshot(Restored(record)) = record
BY DEF Restored, EmptyStore, Records, Stores, Snapshot

LEMMA SnapshotRecords ==
    ASSUME NEW st \in Stores
    PROVE  /\ Snapshot(st) \in Records
           /\ Snapshot(st).slots = st.slots
           /\ Snapshot(st).course = st.course
BY DEF Snapshot, Records, Stores

\* The names a form may give
NamesGiven(names) == \A s \in DOMAIN names : names[s] \in Names \union {NoName}

LEMMA NamedSlots ==
    ASSUME NEW slots \in SlotMaps, NEW names, NamesGiven(names)
    PROVE  /\ SetNames(slots, names) \in SlotMaps
           /\ DOMAIN SetNames(slots, names) = DOMAIN slots
<1> DEFINE named == [s \in DOMAIN slots |->
                        IF s \in DOMAIN names THEN [slots[s] EXCEPT !.name = names[s]] ELSE slots[s]]
<1>1. ASSUME NEW s \in DOMAIN slots, s \in DOMAIN names
      PROVE  [slots[s] EXCEPT !.name = names[s]] \in Programs
  BY <1>1, SlotMapShape DEF Programs, NamesGiven
<1>2. ASSUME NEW s \in DOMAIN slots PROVE named[s] \in Programs
  BY <1>1, SlotMapShape
<1>3. named \in [DOMAIN slots -> Programs]
  BY <1>2
<1> QED BY <1>3, SlotMapShape, SlotMapMade DEF SetNames

\* What _cloud_name_errors lets through leaves the names apart
LEMMA NamedDistinct ==
    ASSUME NEW names, NamesGiven(names), store \in Stores, Distinct(store.slots, blind),
           ~Duplicate(names)
    PROVE  Distinct(SetNames(store.slots, names),
                    IF swept THEN blind ELSE blind \union Given(names))
<1> DEFINE slots == store.slots
           new == SetNames(slots, names)
           unread == IF swept THEN blind ELSE blind \union Given(names)
<1>1. slots \in SlotMaps
  BY DEF Stores
<1>2. ASSUME NEW s \in DOMAIN slots, s \in DOMAIN names PROVE new[s].name = names[s]
  BY <1>1, <1>2, SlotMapShape DEF SetNames, Programs
<1>3. ASSUME NEW s \in DOMAIN slots, s \notin DOMAIN names PROVE new[s].name = slots[s].name
  BY <1>1, <1>3 DEF SetNames
<1>4. DOMAIN new = DOMAIN slots
  BY DEF SetNames
<1> HIDE DEF new
<1>5. ASSUME NEW s \in DOMAIN slots, s \in DOMAIN names, names[s] # NoName
      PROVE  /\ names[s] \in Range(PersonalLabels) => names[s] \in unread
             /\ \A t \in DOMAIN slots \ DOMAIN names :
                    slots[t].name # NoName => names[s] # slots[t].name
             /\ \A t \in DOMAIN names \ {s} : names[t] # NoName => names[t] # names[s]
  BY <1>5 DEF Duplicate, IsUsable, Own, Given
<1>6. ASSUME NEW s \in DOMAIN slots, new[s].name # NoName
      PROVE  new[s].name \in Range(PersonalLabels) => new[s].name \in unread
  BY <1>2, <1>3, <1>5, <1>6 DEF Distinct, IsUsable
<1>7. ASSUME NEW s \in DOMAIN slots, NEW t \in DOMAIN slots \ {s}, new[s].name # NoName
      PROVE  new[t].name # new[s].name
  <2>1. CASE new[t].name = NoName
    BY <2>1, <1>7
  <2>2. CASE s \in DOMAIN names
    BY <2>2, <1>2, <1>3, <1>5, <1>7
  <2>3. CASE s \notin DOMAIN names /\ t \in DOMAIN names
    BY <2>1, <2>3, <1>2, <1>3, <1>5, <1>7
  <2>4. CASE s \notin DOMAIN names /\ t \notin DOMAIN names
    BY <2>4, <1>3, <1>7 DEF Distinct, IsUsable
  <2> QED BY <2>2, <2>3, <2>4
<1> QED BY <1>4, <1>6, <1>7 DEF Distinct, IsUsable, new

-----------------------------------------------------------------------------
(* The select's options. *)

LEMMA OptionsApart == \A s, c : <<s>> # <<"course", c>>
OBVIOUS

LEMMA ProgramLabel ==
    ASSUME NEW s, NEW view
    PROVE  <<s>> \notin CourseOptions /\ \A own : OptionLabel(<<s>>, view, own) = view[s].name
<1>1. <<s>> \notin CourseOptions
  BY OptionsApart DEF CourseOptions
<1> QED BY <1>1 DEF OptionLabel

LEMMA CourseLabel ==
    ASSUME NEW c \in Courses, NEW view, NEW own \in {PersonalLabels, <<>>}
    PROVE  /\ OptionLabel(<<"course", c>>, view, own) = IF c \in DOMAIN own THEN own[c] ELSE c
           /\ OptionLabel(<<"course", c>>, view, own) # None
<1>1. <<"course", c>> \in CourseOptions
  BY DEF CourseOptions
<1>2. OptionLabel(<<"course", c>>, view, own) = IF c \in DOMAIN own THEN own[c] ELSE c
  BY <1>1 DEF OptionLabel
<1>3. c \in DOMAIN own => own[c] \in Range(PersonalLabels)
  BY DEF Range
<1> QED BY <1>2, <1>3, CourseConstantsOK

LEMMA LabelShown ==
    ASSUME NEW rep \in Tokens, NEW view, NEW st, NEW course, Fits(view, st), kind = "washer",
           NEW own \in {PersonalLabels, <<>>}
    PROVE  CurrentLabel(rep, view, course, own) # None
<1> DEFINE slot == LoadedSlot(rep)
<1>1. rep # None
  BY FlowConstantsOK
<1>2. CASE CurrentOption(rep, view, course) = <<slot>> /\ slot \in DOMAIN view
  <2>1. view[slot].name \in Names
    BY <1>2 DEF Fits, Programs, IsUsable
  <2> QED BY <1>1, <1>2, <2>1, ProgramLabel, CourseConstantsOK DEF CurrentLabel
<1>3. CASE CurrentOption(rep, view, course) = <<"course", rep.course>>
  BY <1>1, <1>3, CourseLabel DEF CurrentLabel, Tokens
<1> QED BY <1>2, <1>3 DEF CurrentOption

\* A name stands for one program
LEMMA OneProgramNamed ==
    ASSUME NEW view, NEW st \in Stores, NEW unread, Fits(view, st), Distinct(st.slots, unread),
           NEW s \in DOMAIN st.slots, NEW name, name = st.slots[s].name, name \in Names,
           NEW own \in {PersonalLabels, <<>>}, name \notin Range(own),
           name # NoName, name \in Labels(view, own)
    PROVE  OptionNamed(name, view, own) = <<s>> /\ s \in DOMAIN view
<1>1. name \notin Courses
  BY FlowConstantsOK
<1>2. ASSUME NEW o \in CourseOptions PROVE OptionLabel(o, view, own) # name
  <2>1. PICK c \in Courses : o = <<"course", c>>
    BY DEF CourseOptions
  <2>2. c \in DOMAIN own => own[c] \in Range(own)
    BY DEF Range
  <2> QED BY <2>1, <2>2, <1>1, CourseLabel
<1>3. ASSUME NEW t \in DOMAIN view, OptionLabel(<<t>>, view, own) = name PROVE t = s
  <2>1. view[t].name = name
    BY <1>3, ProgramLabel
  <2>2. t \in DOMAIN st.slots /\ st.slots[t].name = name
    BY <2>1 DEF Fits
  <2> QED BY <2>2 DEF Distinct, IsUsable
<1>4. \E o \in CourseOptions \union CloudOptions(view) : name = OptionLabel(o, view, own)
  BY DEF Labels
<1>5. PICK t \in DOMAIN view : OptionLabel(<<t>>, view, own) = name
  BY <1>2, <1>4 DEF CloudOptions
<1>6. t = s
  BY <1>3, <1>5
<1>7. {o \in CourseOptions : OptionLabel(o, view, own) = name} = {}
  BY <1>2
<1>8. {o \in CloudOptions(view) : OptionLabel(o, view, own) = name} = {<<s>>}
  BY <1>3, <1>5, <1>6 DEF CloudOptions
<1> QED BY <1>5, <1>6, <1>7, <1>8 DEF OptionNamed

-----------------------------------------------------------------------------
(* What the parts of a step do. *)

ReportTyped(rep) == rep \in IF kind = "washer" THEN Tokens ELSE ModeReports

\* A report applied teaches the store, and queues what it taught
LEMMA AppliedTeaches ==
    ASSUME TypedMemory, NamesDistinct, QueuedToSave, NEW rep, NEW push \in BOOLEAN,
           ReportTyped(rep), Applied(rep, push)
    PROVE  /\ cached' = rep
           /\ store' \in Stores /\ store'.course = store.course
           /\ Distinct(store'.slots, blind)
           /\ learned' \in SUBSET Modes
           /\ \A view : Fits(view, store) => Fits(view, store')
           /\ jobs \subseteq jobs'
           /\ "cloud" \notin jobs' => store'.slots = store.slots
           /\ "modes" \notin jobs' => learned' = learned
           /\ push /\ rep # cached => "push" \in jobs'
<1>1. CASE kind = "washer"
  <2>1. rep \in Tokens
    BY <1>1 DEF ReportTyped
  <2>2. store' = Observed(store, rep) /\ learned' = learned
    BY <1>1 DEF Applied
  <2>3. /\ store' \in Stores /\ store'.course = store.course
        /\ Grown(store.slots, store'.slots)
        /\ ~Changed(store, rep) => store'.slots = store.slots
    BY <2>1, <2>2, ObservedStores DEF TypedMemory
  <2>4. Distinct(store'.slots, blind)
    BY <2>3, GrownDistinct DEF NamesDistinct
  <2>5. \A view : Fits(view, store) => Fits(view, store')
    BY <2>3, GrownFits
  <2>6. /\ jobs \subseteq jobs'
        /\ "cloud" \notin jobs' => ~Changed(store, rep)
        /\ push /\ rep # cached => "push" \in jobs'
    BY <1>1 DEF Applied
  <2> QED BY <2>2, <2>3, <2>4, <2>5, <2>6 DEF Applied, TypedMemory
<1>2. CASE kind = "aircon"
  <2>1. store' = store /\ learned' \in {learned, WithLearned(learned, rep)}
    BY <1>2 DEF Applied
  <2>2. rep \in ModeReports
    BY <1>2 DEF ReportTyped
  <2>3. learned' \in SUBSET Modes
    BY <2>1, <2>2 DEF WithLearned, ModeReports, TypedMemory
  <2>4. /\ jobs \subseteq jobs'
        /\ "modes" \notin jobs' => learned' = learned
        /\ push /\ rep # cached => "push" \in jobs'
    BY DEF Applied
  <2> QED BY <2>1, <2>3, <2>4 DEF Applied, TypedMemory, NamesDistinct
<1> QED BY <1>1, <1>2 DEF TypedMemory

\* The view computed anew and published is the one of now
LEMMA PublishedAsNow ==
    ASSUME TypedMemory, WashersOnly, NEW view, NEW course,
           Publish(view, cached', course, Own'), kind' = kind, swept' \in BOOLEAN,
           kind = "washer" => cached' \in Tokens \union {None},
           cached' = None => cached = None,
           view = CloudView', course = store'.course, Fits(view, store')
    PROVE  /\ MemoFits' /\ QueuedToShow'
           /\ kind' # "washer" \/ cached' = None => shown' = None
<1>1. memo' = CloudView'
  BY DEF Publish
<1>2. MemoFits'
  BY <1>1 DEF MemoFits
<1>3. CASE kind = "washer" /\ cached' # None
  <2>1. CurrentLabel(cached', view, course, Own') # None
    BY <1>3, LabelShown DEF Own
  <2>2. shown' = [labels |-> Labels(view, Own'), current |-> CurrentLabel(cached', view, course, Own')]
    BY <1>3, <2>1 DEF Publish
  <2>3. CurrentLabel(cached', view, course, Own') = CurrentLabel(cached, view, course, Own)'
    BY DEF CurrentLabel
  <2> QED BY <1>1, <1>2, <1>3, <2>2 DEF QueuedToShow, CurrentLabel
<1>4. CASE kind # "washer" \/ cached' = None
  <2>1. CurrentLabel(cached', view, course, Own') = None
    BY <1>4 DEF CurrentLabel
  <2>2. shown' = None
    BY <1>4, <2>1 DEF Publish, WashersOnly
  <2> QED BY <1>1, <1>2, <2>2 DEF QueuedToShow
<1> QED BY <1>3, <1>4

LEMMA SwitchedViewFits ==
    ASSUME NEW st \in Stores, NEW on
    PROVE  Fits(IF on THEN View(st) ELSE <<>>, st)
<1>1. Fits(View(st), st)
  BY ViewFits DEF Stores
<1>2. Fits(<<>>, st)
  BY DEF Fits
<1> QED BY <1>1, <1>2

LEMMA RefreshedAsNow ==
    ASSUME TypedMemory, TypedMemory', WashersOnly, NEW record,
           record.slots = store'.slots, record.course = store'.course,
           Refresh(record, options), UNCHANGED <<options, kind, cached, swept>>
    PROVE  /\ MemoFits' /\ QueuedToShow'
           /\ kind' # "washer" \/ cached' = None => shown' = None
<1> DEFINE view == IF options.cloud THEN View(record) ELSE <<>>
<1>1. View(record) = View(store')
  BY ViewOfSlots
<1>2. view = CloudView'
  BY <1>1 DEF CloudView
<1>3. Fits(view, store')
  BY <1>1, SwitchedViewFits DEF TypedMemory
<1>4. Publish(view, cached', record.course, Own')
  BY DEF Refresh, Own
<1> HIDE DEF view
<1>5. swept' \in BOOLEAN /\ (kind = "washer" => cached' \in Tokens \union {None})
  BY DEF TypedMemory
<1> QED BY <1>2, <1>3, <1>4, <1>5, PublishedAsNow

-----------------------------------------------------------------------------
(* One step of each action. *)

LEMMA Polled ==
    ASSUME IInv, Poll
    PROVE  IInv'
<1> USE DEF IInv
<1>1. PICK rep \in {Report} :
        /\ Applied(rep, FALSE)
        /\ \E view \in {IF options.cloud THEN View(store') ELSE <<>>} :
            Publish(view, rep, store.course, PersonalLabels)
  BY DEF Poll
<1>2. swept' = TRUE /\ UNCHANGED <<kind, app, saved, options, dlg, blind>>
  BY DEF Poll
<1>3. ReportTyped(rep) /\ rep # None
  BY FlowConstantsOK DEF Report, ReportTyped, TypedMemory, ModeReports
<1>4. /\ cached' = rep
      /\ store' \in Stores /\ store'.course = store.course
      /\ Distinct(store'.slots, blind)
      /\ learned' \in SUBSET Modes
      /\ jobs \subseteq jobs'
      /\ "cloud" \notin jobs' => store'.slots = store.slots
      /\ "modes" \notin jobs' => learned' = learned
  BY <1>1, <1>3, AppliedTeaches
<1>5. TypedMemory'
  BY <1>2, <1>3, <1>4 DEF TypedMemory, ReportTyped
<1>6. NamesDistinct'
  BY <1>2, <1>4 DEF NamesDistinct
<1>7. QueuedToSave'
  BY <1>2, <1>4 DEF QueuedToSave, Snapshot
<1>8. Publish(CloudView', cached', store'.course, Own')
  BY <1>1, <1>2, <1>4 DEF CloudView, Own
<1>9. Fits(CloudView, store)'
  BY <1>5, SwitchedViewFits DEF TypedMemory, CloudView
<1>10. kind = "washer" => cached' \in Tokens \union {None}
  BY <1>2, <1>5 DEF TypedMemory
<1>11. MemoFits' /\ QueuedToShow' /\ (kind' # "washer" \/ cached' = None => shown' = None)
  BY <1>2, <1>3, <1>4, <1>8, <1>9, <1>10, PublishedAsNow
<1> QED BY <1>2, <1>5, <1>6, <1>7, <1>11 DEF WashersOnly

LEMMA Notified ==
    ASSUME IInv, Notify
    PROVE  IInv'
<1> USE DEF IInv
<1>1. PICK rep \in {Report} : rep # cached /\ Applied(rep, TRUE)
  BY DEF Notify
<1>2. UNCHANGED <<kind, app, swept, saved, options, shown, dlg, blind>> /\ memo' = None
  BY DEF Notify
<1>3. ReportTyped(rep) /\ rep # None
  BY FlowConstantsOK DEF Report, ReportTyped, TypedMemory, ModeReports
<1>4. /\ cached' = rep
      /\ store' \in Stores /\ store'.course = store.course
      /\ Distinct(store'.slots, blind)
      /\ learned' \in SUBSET Modes
      /\ jobs \subseteq jobs'
      /\ "cloud" \notin jobs' => store'.slots = store.slots
      /\ "modes" \notin jobs' => learned' = learned
      /\ "push" \in jobs'
  BY <1>1, <1>3, AppliedTeaches
<1>5. TypedMemory'
  BY <1>2, <1>3, <1>4 DEF TypedMemory, ReportTyped
<1>6. NamesDistinct'
  BY <1>2, <1>4 DEF NamesDistinct
<1>7. QueuedToSave'
  BY <1>2, <1>4 DEF QueuedToSave, Snapshot
<1>8. MemoFits' /\ QueuedToShow'
  BY <1>2, <1>4 DEF MemoFits, QueuedToShow
<1> QED BY <1>2, <1>3, <1>4, <1>5, <1>6, <1>7, <1>8 DEF WashersOnly

\* The entry written, and everything refreshed
LEMMA CloudPersisted ==
    ASSUME IInv, NEW queue, NEW slots \in SlotMaps, NEW code \in Courses \union {None},
           Distinct(slots, blind'), blind \subseteq blind',
           PersistCloud([slots |-> slots, course |-> code], queue),
           store' \in Stores, store'.slots = slots, store'.course = code,
           "modes" \in queue \/ "modes" \notin jobs,
           UNCHANGED <<kind, app, cached, swept, learned, options>>,
           kind # "washer" => dlg'.step = "closed"
    PROVE  IInv'
<1> USE DEF IInv
<1> DEFINE record == [slots |-> slots, course |-> code]
<1>1. saved' = [saved EXCEPT !.cloud = record] /\ queue \subseteq jobs' /\ Refresh(record, options)
  BY DEF PersistCloud
<1>2. record \in Records
  BY DEF Records
<1>3. TypedMemory'
  BY <1>1, <1>2 DEF TypedMemory
<1>4. NamesDistinct'
  BY <1>1 DEF NamesDistinct, TypedMemory
<1>5. QueuedToSave'
  BY <1>1 DEF QueuedToSave, Snapshot, TypedMemory
<1>6. MemoFits' /\ QueuedToShow' /\ (kind' # "washer" \/ cached' = None => shown' = None)
  BY <1>1, <1>3, RefreshedAsNow
<1> QED BY <1>3, <1>4, <1>5, <1>6 DEF WashersOnly

LEMMA CloudJobRun ==
    ASSUME IInv, PersistCloudJob
    PROVE  IInv'
<1>1. PersistCloud([slots |-> store.slots, course |-> store.course], jobs \ {"cloud"})
  BY DEF PersistCloudJob, Snapshot
<1>2. /\ UNCHANGED <<kind, app, cached, swept, store, learned, options, dlg, blind>>
      /\ "modes" \in jobs \ {"cloud"} \/ "modes" \notin jobs
  BY DEF PersistCloudJob
<1>3. store \in Stores /\ Distinct(store.slots, blind)
  BY DEF IInv, TypedMemory, NamesDistinct
<1>4. store.slots \in SlotMaps /\ store.course \in Courses \union {None}
  BY <1>3 DEF Stores
<1>5. kind # "washer" => dlg'.step = "closed"
  BY <1>2 DEF IInv, WashersOnly
<1> QED BY <1>1, <1>2, <1>3, <1>4, <1>5, CloudPersisted

LEMMA CoursesApplied ==
    ASSUME IInv, NEW names, NEW course \in Courses \union {Absent, None}, NamesGiven(names),
           ApplyCloudCourses(names, course), kind = "washer",
           UNCHANGED <<kind, app, cached, swept, learned, options>>
    PROVE  IInv'
<1> USE DEF IInv
<1>1. PICK slots \in {SetNames(store.slots, names)}, code \in {CourseGiven(course)} :
        /\ store' = [store EXCEPT !.slots = slots, !.course = code]
        /\ PersistCloud([slots |-> slots, course |-> code], jobs)
  BY DEF ApplyCloudCourses
<1>2. store \in Stores /\ Distinct(store.slots, blind)
  BY DEF TypedMemory, NamesDistinct
<1>3. slots \in SlotMaps
  BY <1>1, <1>2, NamedSlots DEF Stores
<1>4. Distinct(slots, blind') /\ blind \subseteq blind'
  BY <1>1, <1>2, NamedDistinct DEF ApplyCloudCourses
<1>5. code \in Courses \union {None}
  BY <1>1, <1>2 DEF CourseGiven, Stores
<1>6. store' \in Stores /\ store'.slots = slots /\ store'.course = code
  BY <1>1, <1>2, <1>3, <1>5 DEF Stores
<1> QED BY <1>1, <1>3, <1>4, <1>5, <1>6, CloudPersisted

LEMMA ModesJobRun ==
    ASSUME IInv, PersistModesJob
    PROVE  IInv'
<1> USE DEF IInv
<1>1. /\ saved' = [saved EXCEPT !.modes = learned]
      /\ jobs' = (jobs \ {"modes"}) \union Heard(saved.modes, learned)
      /\ UNCHANGED <<kind, app, cached, swept, store, learned, options, memo, shown, dlg, blind>>
  BY DEF PersistModesJob, Display
<1>2. TypedMemory'
  BY <1>1 DEF TypedMemory
<1>3. NamesDistinct'
  BY <1>1 DEF NamesDistinct, TypedMemory
<1>4. QueuedToSave'
  BY <1>1 DEF QueuedToSave, TypedMemory, Heard
<1>5. Refreshing => Refreshing'
  BY <1>1 DEF Heard, Refreshing
<1>6. "push" \in jobs => "push" \in jobs'
  BY <1>1
<1>7. CloudView' = CloudView /\ CurrentLabel(cached, CloudView, store.course, Own)' = CurrentLabel(cached, CloudView, store.course, Own)
  BY <1>1 DEF CloudView, CurrentLabel, Own
<1>8. MemoFits' /\ QueuedToShow' /\ WashersOnly'
  BY <1>1, <1>5, <1>6, <1>7 DEF Own, MemoFits, QueuedToShow, WashersOnly
<1> QED BY <1>2, <1>3, <1>4, <1>8

LEMMA ListenJobRun ==
    ASSUME IInv, ListenJob
    PROVE  IInv'
<1> USE DEF IInv
<1>1. /\ jobs' = jobs \ {"listen"}
      /\ Refresh(Snapshot(store), options)
      /\ UNCHANGED <<kind, app, cached, swept, store, learned, saved, options, dlg, blind>>
  BY DEF ListenJob, Memory
<1>2. TypedMemory' /\ NamesDistinct'
  BY <1>1 DEF TypedMemory, NamesDistinct
<1>3. QueuedToSave'
  BY <1>1 DEF QueuedToSave
<1>4. Snapshot(store).slots = store'.slots /\ Snapshot(store).course = store'.course
  BY <1>1 DEF Snapshot
<1>5. MemoFits' /\ QueuedToShow' /\ (kind' # "washer" \/ cached' = None => shown' = None)
  BY <1>1, <1>2, <1>4, RefreshedAsNow
<1> QED BY <1>1, <1>2, <1>3, <1>5 DEF WashersOnly

LEMMA PushJobRun ==
    ASSUME IInv, PushJob
    PROVE  IInv'
<1> USE DEF IInv
<1>1. /\ jobs' = jobs \ {"push"}
      /\ Publish(Canonical, cached', store.course, Own')
      /\ UNCHANGED <<kind, app, cached, swept, store, learned, saved, options, dlg, blind>>
  BY DEF PushJob, Memory, Own
<1>2. TypedMemory' /\ NamesDistinct'
  BY <1>1 DEF TypedMemory, NamesDistinct
<1>3. QueuedToSave'
  BY <1>1 DEF QueuedToSave
<1>4. Fits(Canonical, store')
  BY <1>1, SwitchedViewFits DEF Canonical, CloudView, MemoFits, TypedMemory
<1>5. swept' \in BOOLEAN /\ (kind = "washer" => cached' \in Tokens \union {None})
  BY <1>1 DEF TypedMemory
<1>6. CloudView' = CloudView /\ Refreshing' = Refreshing
  BY <1>1 DEF CloudView, Refreshing
<1>7. CASE Canonical = CloudView
  <2>1. MemoFits' /\ QueuedToShow' /\ (kind' # "washer" \/ cached' = None => shown' = None)
    BY <1>1, <1>4, <1>5, <1>6, <1>7, PublishedAsNow
  <2> QED BY <1>1, <1>2, <1>3, <2>1 DEF WashersOnly
<1>8. CASE Canonical # CloudView
  <2>1. Refreshing
    BY <1>8 DEF Canonical, QueuedToShow
  <2>2. memo' = Canonical /\ MemoFits'
    BY <1>1, <1>4 DEF Publish, MemoFits
  <2>3. QueuedToShow'
    BY <1>6, <2>1 DEF QueuedToShow
  <2>4. kind # "washer" \/ cached = None => shown' = None
    BY <1>1 DEF Publish, CurrentLabel, WashersOnly
  <2> QED BY <1>1, <1>2, <1>3, <2>2, <2>3, <2>4 DEF WashersOnly
<1> QED BY <1>7, <1>8

\* A step that leaves memory, the report and what is queued and shown as they
\* were, the entry's switches apart
LEMMA NothingTaught ==
    ASSUME IInv, UNCHANGED <<kind, cached, swept, store, learned, saved, options, jobs, memo, shown, blind>>,
           kind = "washer" => app' \in Tokens,
           kind = "aircon" => app' \in [mode : Modes],
           kind # "washer" => dlg'.step = "closed"
    PROVE  IInv'
<1> USE DEF IInv
<1>1. TypedMemory' /\ NamesDistinct' /\ MemoFits' /\ QueuedToSave' /\ WashersOnly'
  BY DEF TypedMemory, NamesDistinct, MemoFits, QueuedToSave, WashersOnly
<1>2. CloudView' = CloudView /\ Refreshing' = Refreshing
  BY DEF CloudView, Refreshing
<1>3. CurrentLabel(cached, CloudView, store.course, Own)' = CurrentLabel(cached, CloudView, store.course, Own)
  BY <1>2 DEF CurrentLabel, Own
<1>4. QueuedToShow'
  BY <1>2, <1>3 DEF QueuedToShow, Own
<1> QED BY <1>1, <1>4

LEMMA DialogMoved ==
    ASSUME IInv, StartGuided \/ OpenManual \/ Close \/ CloudWait
    PROVE  IInv'
<1>1. UNCHANGED <<kind, app, cached, swept, store, learned, saved, options, jobs, memo, shown, blind>>
  BY DEF StartGuided, OpenManual, Close, CloudWait, Memory, Display
<1>2. kind # "washer" => dlg.step = "closed"
  BY DEF IInv, WashersOnly
<1>3. dlg'.step = "closed" \/ kind = "washer"
  BY <1>2 DEF StartGuided, OpenManual, Close, CloudWait, Closed, OffersPrograms, CanOpen
<1> QED BY <1>1, <1>3, NothingTaught DEF IInv, TypedMemory

LEMMA PanelTurned ==
    ASSUME IInv, PanelTurn
    PROVE  IInv'
<1>1. UNCHANGED <<kind, cached, swept, store, learned, saved, options, jobs, memo, shown, dlg, blind>>
  BY DEF PanelTurn, Memory, Display
<1>2. CASE kind = "washer"
  <2>1. app \in Tokens
    BY <1>2 DEF IInv, TypedMemory
  <2>2. \/ \E c \in Courses : app' = [app EXCEPT !.course = c]
        \/ \E p \in Payloads : app' = [app EXCEPT !.course = "dl", !.oneshot = p]
        \/ SlotOf(app.oneshot) # None /\ app' = [app EXCEPT !.default = app.oneshot]
        \/ app' = [app EXCEPT !.oneshot = Sentinel]
        \/ \E s \in Slots : app' = [app EXCEPT !.extra = @ \union {s}]
    BY <1>2 DEF PanelTurn
  <2>3. SlotOf(app.oneshot) # None => app.oneshot \in Payloads
    BY <2>1 DEF SlotOf, Tokens, Sentinel
  <2>4. "dl" \in Courses
    BY FlowConstantsOK
  <2>5. app' \in Tokens
    BY <2>1, <2>2, <2>3, <2>4 DEF Tokens
  <2> QED BY <1>1, <1>2, <2>5, NothingTaught DEF IInv, WashersOnly
<1>3. CASE kind = "aircon"
  <2>1. app' \in [mode : Modes]
    BY <1>3 DEF PanelTurn
  <2> QED BY <1>1, <1>3, <2>1, NothingTaught DEF IInv, WashersOnly
<1> QED BY <1>2, <1>3 DEF IInv, TypedMemory

LEMMA GuidedRound ==
    ASSUME IInv, ProbeRound
    PROVE  IInv'
<1> USE DEF IInv
<1>1. kind = "washer"
  BY DEF ProbeRound, WashersOnly
<1>2. app \in Tokens /\ ReportTyped(app) /\ app # None
  BY <1>1, FlowConstantsOK DEF TypedMemory, ReportTyped
<1>3. UNCHANGED <<kind, app, swept, saved, options, shown, blind>>
  BY DEF ProbeRound
<1>4. CASE UNCHANGED <<cached, store, learned, jobs, memo>>
  BY <1>1, <1>2, <1>3, <1>4, NothingTaught
<1>5. CASE Applied(app, TRUE) /\ memo' = IF app = cached THEN memo ELSE None
  <2>1. /\ cached' = app
        /\ store' \in Stores /\ store'.course = store.course
        /\ Distinct(store'.slots, blind)
        /\ learned' \in SUBSET Modes
        /\ \A view : Fits(view, store) => Fits(view, store')
        /\ jobs \subseteq jobs'
        /\ "cloud" \notin jobs' => store'.slots = store.slots
        /\ "modes" \notin jobs' => learned' = learned
        /\ app # cached => "push" \in jobs'
    BY <1>2, <1>5, AppliedTeaches
  <2>2. TypedMemory'
    BY <1>1, <1>2, <1>3, <2>1 DEF TypedMemory
  <2>3. NamesDistinct'
    BY <1>3, <2>1 DEF NamesDistinct
  <2>4. QueuedToSave'
    BY <1>3, <2>1 DEF QueuedToSave, Snapshot
  <2>5. MemoFits'
    BY <1>5, <2>1 DEF MemoFits
  <2>6. "cloud" \notin jobs' => CloudView' = CloudView
    BY <1>3, <2>1, ViewOfSlots DEF CloudView
  <2>7. Refreshing => Refreshing'
    BY <2>1 DEF Refreshing
  <2>8. ~Refreshing' => memo' \in {None, CloudView'}
    BY <1>5, <2>6, <2>7 DEF QueuedToShow, Refreshing
  <2>9. ~Refreshing' /\ "push" \notin jobs' /\ shown' # None =>
            shown' = [labels |-> Labels(CloudView, Own),
                      current |-> CurrentLabel(cached, CloudView, store.course, Own)]'
    <3> SUFFICES ASSUME ~Refreshing', "push" \notin jobs', shown' # None
                 PROVE  shown' = [labels |-> Labels(CloudView, Own),
                                  current |-> CurrentLabel(cached, CloudView, store.course, Own)]'
      OBVIOUS
    <3>1. cached' = cached /\ CloudView' = CloudView
      BY <2>1, <2>6 DEF Refreshing
    <3>2. CurrentLabel(cached, CloudView, store.course, Own)' = CurrentLabel(cached, CloudView, store.course, Own)
      BY <1>3, <2>1, <3>1 DEF CurrentLabel, Own
    <3>3. ~Refreshing /\ "push" \notin jobs /\ shown # None
      BY <1>3, <2>1, <2>7
    <3> QED BY <1>3, <3>1, <3>2, <3>3 DEF QueuedToShow, Own
  <2>10. WashersOnly'
    BY <1>1, <1>2, <1>3, <2>1 DEF WashersOnly
  <2> QED BY <2>2, <2>3, <2>4, <2>5, <2>8, <2>9, <2>10 DEF QueuedToShow
<1> QED BY <1>4, <1>5 DEF ProbeRound

LEMMA NameSubmitted ==
    ASSUME IInv, NEW name \in Names \union {NoName}, NEW course \in Confirmed \union {Absent},
           NameSubmit(name, course)
    PROVE  IInv'
<1> DEFINE names == [s \in {dlg.slot} |-> name]
<1>1. ApplyCloudCourses(names, course)
  BY DEF NameSubmit
<1>2. NamesGiven(names)
  BY DEF NamesGiven
<1>3. kind = "washer"
  BY DEF NameSubmit, IInv, WashersOnly
<1>4. course \in Courses \union {Absent, None} /\ UNCHANGED <<kind, app, cached, swept, learned, options>>
  BY FlowConstantsOK DEF NameSubmit
<1> HIDE DEF names
<1> QED BY <1>1, <1>2, <1>3, <1>4, CoursesApplied

LEMMA ManualSubmitted ==
    ASSUME IInv, NEW names \in [DOMAIN store.slots -> Names \union {NoName}],
           NEW course \in Confirmed \union {Absent}, ManualSubmit(names, course)
    PROVE  IInv'
<1>1. ApplyCloudCourses(names, course)
  BY DEF ManualSubmit
<1>2. NamesGiven(names)
  BY DEF NamesGiven
<1>3. kind = "washer"
  BY DEF ManualSubmit, IInv, WashersOnly
<1>4. course \in Courses \union {Absent, None} /\ UNCHANGED <<kind, app, cached, swept, learned, options>>
  BY FlowConstantsOK DEF ManualSubmit
<1> QED BY <1>1, <1>2, <1>3, <1>4, CoursesApplied

LEMMA Switched ==
    ASSUME IInv, NEW option \in {"cloud", "learn"}, Settings(option)
    PROVE  IInv'
<1> USE DEF IInv
<1>1. /\ options' = [options EXCEPT ![option] = ~@]
      /\ jobs' = jobs \union {"listen"}
      /\ UNCHANGED <<kind, app, cached, swept, store, learned, saved, memo, shown, dlg, blind>>
  BY DEF Settings, Memory, Display
<1>2. TypedMemory' /\ NamesDistinct' /\ MemoFits' /\ WashersOnly'
  BY <1>1 DEF TypedMemory, NamesDistinct, MemoFits, WashersOnly
<1>3. QueuedToSave' /\ QueuedToShow'
  BY <1>1 DEF QueuedToSave, QueuedToShow, Refreshing
<1> QED BY <1>2, <1>3

LEMMA Forgot ==
    ASSUME IInv, Forget
    PROVE  IInv'
<1> USE DEF IInv
<1>1. /\ learned' = {} /\ saved' = [saved EXCEPT !.modes = {}]
      /\ jobs \subseteq jobs' /\ jobs' \subseteq jobs \union {"listen"}
      /\ kind = "aircon"
      /\ UNCHANGED <<kind, app, cached, swept, store, options, memo, shown, dlg, blind>>
  BY DEF Forget, Forgotten, Heard, Display
<1>2. TypedMemory' /\ NamesDistinct' /\ MemoFits' /\ WashersOnly'
  BY <1>1 DEF TypedMemory, NamesDistinct, MemoFits, WashersOnly
<1>3. QueuedToSave'
  BY <1>1 DEF QueuedToSave, TypedMemory
<1>4. shown = None
  BY <1>1 DEF WashersOnly
<1>5. CloudView' = CloudView /\ (Refreshing => Refreshing')
  BY <1>1 DEF CloudView, Refreshing
<1>6. QueuedToShow'
  BY <1>1, <1>4, <1>5 DEF QueuedToShow
<1> QED BY <1>2, <1>3, <1>6

LEMMA BegunAgain ==
    ASSUME IInv, Begun, jobs' = {}, UNCHANGED kind, kind # "washer" => dlg'.step = "closed"
    PROVE  IInv'
<1> USE DEF IInv
<1>1. /\ store' = Restored(saved.cloud) /\ learned' = saved.modes
      /\ cached' = None /\ memo' = None /\ shown' = None /\ swept' = FALSE
      /\ UNCHANGED <<app, saved, options, blind>>
  BY DEF Begun
<1>2. saved.cloud \in Records /\ saved.modes \in SUBSET Modes
  BY DEF TypedMemory
<1>3. /\ store' \in Stores /\ store'.slots = saved.cloud.slots
      /\ Snapshot(store') = saved.cloud
  BY <1>1, <1>2, RestoredStores
<1>4. TypedMemory' /\ NamesDistinct' /\ MemoFits' /\ WashersOnly'
  BY <1>1, <1>2, <1>3 DEF TypedMemory, NamesDistinct, MemoFits, WashersOnly
<1>5. QueuedToSave'
  BY <1>1, <1>3 DEF QueuedToSave, Snapshot
<1>6. QueuedToShow'
  BY <1>1 DEF QueuedToShow
<1> QED BY <1>4, <1>5, <1>6

\* A name picked loads the program that bears it
LEMMA PickLoads ==
    ASSUME IInv, NEW s \in DOMAIN store.slots, IsUsable(store.slots[s]),
           store.slots[s].name \in Names, ~OfACourse(store.slots[s].name),
           Pick(store.slots[s].name)
    PROVE  app'.course = store.course /\ app'.oneshot = store.slots[s].payload
<1> DEFINE name == store.slots[s].name
<1>1. Fits(Canonical, store) /\ store \in Stores /\ Distinct(store.slots, blind)
  BY SwitchedViewFits DEF IInv, TypedMemory, NamesDistinct, MemoFits, Canonical, CloudView
<1>2. name # NoName /\ name \in Labels(Canonical, Own)
  BY DEF Pick, IsUsable
<1>3. Own \in {PersonalLabels, <<>>} /\ name \notin Range(Own)
  BY <1>1 DEF Own, OfACourse, Distinct, Range
<1>7. OptionNamed(name, Canonical, Own) = <<s>>
  BY <1>1, <1>2, <1>3, OneProgramNamed
<1>4. CycleWrite(<<s>>, store) = CloudCycleWrite(s, store)
  BY ProgramLabel DEF CycleWrite
<1>5. app' = Taken(CloudCycleWrite(s, store))
  BY <1>4, <1>7 DEF Pick
<1>6. app \in Tokens
  BY DEF IInv, TypedMemory, Pick
<1> QED BY <1>5, <1>6 DEF Taken, CloudCycleWrite, Tokens

LEMMA OptionFound ==
    ASSUME NEW label, NEW view, NEW own, label \in Labels(view, own)
    PROVE  OptionNamed(label, view, own) \in CourseOptions \union CloudOptions(view)
<1> DEFINE named(options_) == {o \in options_ : OptionLabel(o, view, own) = label}
<1>1. named(CourseOptions) # {} \/ named(CloudOptions(view)) # {}
  BY DEF Labels
<1>2. CASE named(CourseOptions) # {}
  BY <1>2 DEF OptionNamed
<1>3. CASE named(CourseOptions) = {}
  BY <1>1, <1>3 DEF OptionNamed
<1> QED BY <1>2, <1>3

LEMMA Picked ==
    ASSUME IInv, NEW label, Pick(label)
    PROVE  IInv'
<1> USE DEF IInv
<1> DEFINE option == OptionNamed(label, Canonical, Own)
<1>1. /\ kind = "washer" /\ label \in Labels(Canonical, Own)
      /\ app' = Taken(CycleWrite(option, store))
      /\ cached' = app' /\ memo' = IF cached' = cached THEN memo ELSE None
      /\ jobs' = jobs \union (IF cached' = cached THEN {} ELSE {"push"})
      /\ UNCHANGED <<kind, swept, store, learned, saved, options, shown, dlg, blind>>
  BY DEF Pick, Memory
<1>2. app \in Tokens /\ store \in Stores
  BY <1>1 DEF TypedMemory
<1>3. Fits(Canonical, store)
  BY <1>2, SwitchedViewFits DEF MemoFits, Canonical, CloudView
<1>4. option \in CourseOptions \union CloudOptions(Canonical)
  BY <1>1, OptionFound
<1>5. ASSUME option \in CourseOptions PROVE app' \in Tokens
  <2>1. PICK c \in Courses : option = <<"course", c>>
    BY <1>5 DEF CourseOptions
  <2>2. option[2] = c
    BY <2>1
  <2> HIDE DEF option
  <2>3. CycleWrite(option, store) = [Course |-> c]
    BY <1>5, <2>2 DEF CycleWrite
  <2>4. app' = [app EXCEPT !.course = c, !.oneshot = app.oneshot]
    BY <1>1, <2>3 DEF Taken
  <2> QED BY <1>2, <2>4 DEF Tokens
<1>6. ASSUME option \notin CourseOptions PROVE app' \in Tokens
  <2>1. PICK t \in DOMAIN Canonical : option = <<t>>
    BY <1>4, <1>6 DEF CloudOptions
  <2>2. option[1] = t
    BY <2>1
  <2> HIDE DEF option
  <2>3. CycleWrite(option, store) = CloudCycleWrite(t, store)
    BY <1>6, <2>2 DEF CycleWrite
  <2>4. t \in DOMAIN store.slots /\ store.course # None
    BY <1>3 DEF Fits
  <2>5. store.slots[t].payload \in Payloads /\ store.course \in Courses
    BY <1>2, <2>4, SlotMapShape DEF Stores, Programs
  <2>6. app' = [app EXCEPT !.course = store.course, !.oneshot = store.slots[t].payload]
    BY <1>1, <2>3 DEF Taken, CloudCycleWrite
  <2> QED BY <1>2, <2>5, <2>6 DEF Tokens
<1>7. app' \in Tokens
  BY <1>5, <1>6
<1> HIDE DEF option
<1>8. cached' # None
  BY <1>1, <1>7, FlowConstantsOK
<1>9. TypedMemory' /\ NamesDistinct' /\ MemoFits' /\ WashersOnly'
  BY <1>1, <1>7, <1>8 DEF TypedMemory, NamesDistinct, MemoFits, WashersOnly
<1>10. QueuedToSave'
  BY <1>1 DEF QueuedToSave
<1>11. CloudView' = CloudView /\ Refreshing' = Refreshing
  BY <1>1 DEF CloudView, Refreshing
<1>12. cached' = cached =>
         CurrentLabel(cached, CloudView, store.course, Own)' = CurrentLabel(cached, CloudView, store.course, Own)
  BY <1>1, <1>11 DEF CurrentLabel, Own
<1>13. QueuedToShow'
  BY <1>1, <1>11, <1>12 DEF QueuedToShow, Own
<1> QED BY <1>9, <1>10, <1>13

-----------------------------------------------------------------------------

LEMMA Start == Init => IInv
<1> SUFFICES ASSUME Init PROVE IInv
  OBVIOUS
<1>1. EmptyStore \in Stores /\ EmptyStore.slots = <<>> /\ Snapshot(EmptyStore) \in Records
  <2>1. <<>> \in SlotMaps
    <3>1. <<>> \in [{} -> Programs]
      OBVIOUS
    <3> QED BY <3>1, SlotMapMade
  <2> QED BY <2>1 DEF EmptyStore, Stores, Snapshot, Records
<1>2. kind \in {"washer", "aircon"}
  BY FlowConstantsOK DEF Init
<1>3. kind = "washer" => app \in Tokens
  BY FlowConstantsOK DEF Init, Tokens
<1>4. kind = "aircon" => app \in [mode : Modes]
  BY FlowConstantsOK DEF Init
<1>5. TypedMemory
  BY <1>1, <1>2, <1>3, <1>4 DEF Init, TypedMemory
<1>6. WashersOnly /\ MemoFits /\ QueuedToShow
  BY DEF Init, WashersOnly, MemoFits, QueuedToShow, Closed
<1>7. NamesDistinct /\ QueuedToSave
  BY <1>1 DEF Init, NamesDistinct, QueuedToSave, Distinct, Snapshot
<1> QED BY <1>5, <1>6, <1>7 DEF IInv

LEMMA Step ==
    ASSUME IInv, [Next]_vars
    PROVE  IInv'
<1>1. CASE Poll
  BY <1>1, Polled
<1>2. CASE Notify
  BY <1>2, Notified
<1>3. CASE Jobs
  BY <1>3, CloudJobRun, ModesJobRun, PushJobRun, ListenJobRun DEF Jobs
<1>4. CASE Dialog
  <2>1. CASE StartGuided \/ OpenManual \/ Close \/ CloudWait
    BY <2>1, DialogMoved
  <2>2. CASE ProbeRound
    BY <2>2, GuidedRound
  <2>3. ASSUME NEW n \in Names \union {NoName}, NEW c \in Confirmed \union {Absent}, NameSubmit(n, c)
        PROVE  IInv'
    BY <2>3, NameSubmitted
  <2>4. ASSUME NEW c \in Confirmed \union {Absent},
               NEW names \in [DOMAIN store.slots -> Names \union {NoName}], ManualSubmit(names, c)
        PROVE  IInv'
    BY <2>4, ManualSubmitted
  <2>5. ASSUME NEW option \in {"cloud", "learn"}, Settings(option)
        PROVE  IInv'
    BY <2>5, Switched
  <2>6. CASE Forget
    BY <2>6, Forgot
  <2> QED BY <1>4, <2>1, <2>2, <2>3, <2>4, <2>5, <2>6 DEF Dialog
<1>5. ASSUME NEW label \in Labelled, Pick(label)
      PROVE  IInv'
  BY <1>5, Picked
<1>6. CASE PanelTurn
  BY <1>6, PanelTurned
<1>7. CASE Reload
  <2>1. dlg'.step = dlg.step
    BY <1>7 DEF Reload
  <2> QED BY <1>7, <2>1, BegunAgain DEF Reload, Begun, IInv, WashersOnly
<1>8. CASE Restart
  BY <1>8, BegunAgain DEF Restart, Begun, Closed
<1>9. CASE UNCHANGED vars
  BY <1>9, NothingTaught DEF vars, Memory, Display, IInv, TypedMemory, WashersOnly
<1> QED BY <1>1, <1>2, <1>3, <1>4, <1>5, <1>6, <1>7, <1>8, <1>9 DEF Next

LEMMA Invariant == Spec => []IInv
BY Start, Step, PTL DEF Spec

\* What the entry, the store and the cache hold is of its type: programs the
\* appliance named, and a course out of its own list.
THEOREM TypeCorrect == Spec => []TypedMemory
BY Invariant, PTL DEF IInv

\* With nothing queued a restart loses nothing, and the select shows what the
\* cache, the store and the switch stand for now (coordinator.py
\* _persist_cloud_courses, _persist_learned, _on_cloud_courses_changed).
THEOREM KeepsAndShows == Spec => []SavedAndShown
<1>1. IInv => SavedAndShown
  BY DEF IInv, TypedMemory, QueuedToSave, QueuedToShow, Refreshing, SavedAndShown
<1> QED BY <1>1, Invariant, PTL

\* A name picked in the select loads the program that bears it, and the
\* confirmed course with it, whatever was named, learned or forgotten since
\* the options were drawn (laundry.py cycle_write, select.py
\* async_select_option); but for a name the dialog took unread and that
\* proves to be a course's own.
THEOREM PickedProgramsRun == Spec => PickRunsProgram
<1>1. IInv =>
        \A s \in DOMAIN store.slots :
            (/\ IsUsable(store.slots[s]) /\ store.slots[s].name \in Names
             /\ ~OfACourse(store.slots[s].name)
             /\ Pick(store.slots[s].name)) =>
                app'.course = store.course /\ app'.oneshot = store.slots[s].payload
  BY PickLoads
<1> QED BY <1>1, Invariant, PTL DEF PickRunsProgram

=============================================================================
