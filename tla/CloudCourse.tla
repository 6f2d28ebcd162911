------------------------------ MODULE CloudCourse ------------------------------
(***************************************************************************)
(* The downloaded programs of a laundry appliance (cloudcourse.py) and the *)
(* cycle select they are offered in (registry/capabilities/laundry.py).    *)
(* The appliance lists its program slots and shows the payload of the one  *)
(* that is loaded; a program is replayed from that payload, under the name *)
(* its owner gave it.                                                      *)
(*                                                                         *)
(* A payload is [slot, tweak]: the slot its third byte names, and the rest *)
(* of it.  A report is [course, default, oneshot, extra], the tokens of    *)
(* /course/vs/0's options.                                                 *)
(***************************************************************************)
EXTENDS Naturals, FiniteSets, Functions, TLC

CONSTANTS
    None,
    Slots,          \* the program slots an appliance may list
    Payloads,       \* what it may load: the slot, and what tells two apart
    Courses,        \* cycle_options: the codes of its own course list
    PersonalLabels, \* [code -> the name the appliance gives it itself]
    Names           \* what an owner may call a program

ASSUME CourseConstantsOK ==
    /\ DOMAIN PersonalLabels \subseteq Courses
    /\ \A p \in Payloads : p.slot \in Slots
    /\ None \notin Payloads
    /\ None \notin Slots \union Courses \union Names \union Range(PersonalLabels)
    /\ "unnamed" \notin Names

NoName == "unnamed"
Sentinel == [slot |-> None, tweak |-> None]  \* FFFF...: no program loaded
Unobserved == [slot |-> "unobserved", tweak |-> None]

SlotOf(payload) == IF payload = None THEN None ELSE payload.slot

\* advertised_slots: what the CloudExtraCourse_ token lists
Advertised(rep) == rep.extra

\* The slots that no ordinary course code selects already
CloudSlots(rep) == Advertised(rep) \ Courses

LoadedSlot(rep) ==
    IF SlotOf(rep.oneshot) # None THEN SlotOf(rep.oneshot) ELSE SlotOf(rep.default)

-----------------------------------------------------------------------------
(* The store *)

EmptyStore == [slots |-> <<>>, course |-> None, candidates |-> {}, last |-> Unobserved]

\* One token's payload recorded under the slot it names
Learn(slots, rep, payload) ==
    IF \/ SlotOf(payload) = None
       \/ Advertised(rep) # {} /\ payload.slot \notin Advertised(rep)
    THEN slots
    ELSE LET name == IF payload.slot \in DOMAIN slots THEN slots[payload.slot].name ELSE NoName
         IN  [s \in DOMAIN slots \union {payload.slot} |->
                IF s = payload.slot THEN [payload |-> payload, name |-> name] ELSE slots[s]]

LearnBoth(slots, rep) == Learn(Learn(slots, rep, rep.default), rep, rep.oneshot)

\* The one-time payload changed to a loaded one since the last report
WasLoaded(store, rep) ==
    /\ SlotOf(rep.oneshot) # None
    /\ store.last # Unobserved
    /\ rep.oneshot # store.last

\* The candidates' counts only rank them: they are kept as a set
Observed(store, rep) ==
    [store EXCEPT !.slots = LearnBoth(@, rep),
                  !.candidates = @ \union (IF WasLoaded(store, rep) THEN {rep.course} ELSE {}),
                  !.last = rep.oneshot]

\* Whether a report taught anything: the end compared with the start
Changed(store, rep) == LearnBoth(store.slots, rep) # store.slots

Snapshot(store) == [slots |-> store.slots, course |-> store.course]

\* _coerce: what is read back is what was written, and nothing else is
Restored(record) == [EmptyStore EXCEPT !.slots = record.slots, !.course = record.course]

SetNames(slots, names) ==
    [s \in DOMAIN slots |->
        IF s \in DOMAIN names THEN [slots[s] EXCEPT !.name = names[s]] ELSE slots[s]]

IsUsable(record) == record.name # NoName

\* view: the programs a write or a label can be built from
View(store) ==
    IF store.course = None
    THEN <<>>
    ELSE Restrict(store.slots, {s \in DOMAIN store.slots : IsUsable(store.slots[s])})

\* The listed programs that cannot be offered yet
Undiscovered(rep, record) ==
    {s \in CloudSlots(rep) : s \notin DOMAIN record.slots \/ ~IsUsable(record.slots[s])}

-----------------------------------------------------------------------------
(* The cycle select: options are course codes, and programs as <<slot>> *)

CloudOptions(view) == {<<s>> : s \in DOMAIN view}
CourseOptions == {<<"course", c>> : c \in Courses}

\* A course is shown by the name the appliance is known to give it, else by
\* its code
OptionLabel(option, view, own) ==
    IF option \in CourseOptions
    THEN IF option[2] \in DOMAIN own THEN own[option[2]] ELSE option[2]
    ELSE view[option[1]].name

\* The option a label stands for: the courses come first in the list
OptionNamed(label, view, own) ==
    LET named(options) == {o \in options : OptionLabel(o, view, own) = label}
    IN  IF named(CourseOptions) # {}
        THEN CHOOSE o \in named(CourseOptions) : TRUE
        ELSE CHOOSE o \in named(CloudOptions(view)) : TRUE

\* Slip: the program's token alone
CloudCycleWriteAlone(slot, store) == [OneTimeCloudCourse |-> store.slots[slot].payload]

\* Both tokens in one write: the program alone is ignored on another course
CloudCycleWrite(slot, store) ==
    [Course |-> store.course, OneTimeCloudCourse |-> store.slots[slot].payload]

CycleWrite(option, store) ==
    IF option \in CourseOptions THEN [Course |-> option[2]] ELSE CloudCycleWrite(option[1], store)

\* cloud_current, else the course: what the select shows as selected
CurrentOption(rep, view, course) ==
    IF /\ course # None /\ rep.course = course
       /\ LoadedSlot(rep) \in DOMAIN view
    THEN <<LoadedSlot(rep)>>
    ELSE <<"course", rep.course>>

=============================================================================
