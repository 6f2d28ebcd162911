----------------------------- MODULE LaundryCourses -----------------------------
(***************************************************************************)
(* The courses of a washer, a dryer or a dishwasher and what each of them  *)
(* permits (capabilities/laundry.py, washer.py): the table an appliance    *)
(* reports in supportedOptions is split into records of a width that is    *)
(* stated, or guessed; a record's groups say which of a setting's levels a *)
(* course takes; a select offers those, and a switch is refused where the  *)
(* course's byte says so.  The course and the level are in two resources,  *)
(* so either may be read before the other.  What a course permits is what  *)
(* the table advertises; the appliance may refuse some of it.              *)
(*                                                                         *)
(* A hex pair is a number below 256.  One setting and one switch of a      *)
(* board are modelled, the setting with the kind of its groups.            *)
(***************************************************************************)
EXTENDS Integers, Sequences, FiniteSets

CONSTANTS
    None,
    Boards,    \* appliances: see LaundryOK
    Moves      \* bound: turns of the course knob

VARIABLES
    board,
    unit,     \* the appliance: course, level, switch
    seen,     \* what the cache has of it
    picked,   \* the level that was picked last, while nothing else has happened
    moves

vars == <<board, unit, seen, picked, moves>>

Elems(s) == {s[i] : i \in DOMAIN s}

-----------------------------------------------------------------------------
(* The appliance *)

\* Its table gives each course its groups: a kind, a default, and the levels
\* allowed among the first eight.  A course without the group, a downloaded
\* one or one outside the table, has any level
Groups(c) ==
    IF c \in DOMAIN board.courses \ {board.download}
    THEN {g \in Elems(board.courses[c]) : g[1] = board.kind} ELSE {}

Advertised(c) == {i \in 1..board.levels : i > 8 \/ \A g \in Groups(c) : i - 1 \in g[3]}

\* The mask is what the appliance advertises, not what it enforces: it takes
\* no more, and may refuse some
Takes(c) == {i \in Advertised(c) : <<c, i>> \notin board.refused}

\* A level it may be at though its list of levels omits it
Unlisted == 0

-----------------------------------------------------------------------------
(* The table read *)

\* split: the records of a width, by their first bytes, or None if it cannot
\* be the width
Record(b, k, i) == SubSeq(b.body, i * k + 1, (i + 1) * k)

Split(b, k, current) ==
    IF k < 1 \/ Len(b.body) % k # 0 THEN None
    ELSE LET n == Len(b.body) \div k
             firsts == {Record(b, k, i)[1] : i \in 0..n - 1}
         IN IF n < 2 \/ Cardinality(firsts) # n \/ (current # None /\ current \notin firsts)
            THEN None
            ELSE [f \in firsts |-> Record(b, k, CHOOSE i \in 0..n - 1 : Record(b, k, i)[1] = f)]

\* _course_records: the width that is stated where it holds up, else the
\* smallest that has the courses it must cover, else the smallest
CourseRecords(b, current, cover) ==
    LET stated == IF b.hdr = None THEN None ELSE Split(b, 1 + 2 * b.hdr, current)
        covers(records) == cover \subseteq DOMAIN records
        passing == {k \in 1..Len(b.body) : Split(b, k, current) # None}
        covering == {k \in passing : covers(Split(b, k, current))}
        least(s) == Split(b, CHOOSE k \in s : \A j \in s : k <= j, current)
    IN IF stated # None /\ covers(stated) THEN stated
       ELSE IF covering # {} THEN least(covering)
       ELSE IF passing # {} THEN least(passing) ELSE <<>>

Bits(byte) == {i \in 0..7 : (byte \div 2^i) % 2 = 1}

\* What is known of the recorded appliances.  The table is a record for each
\* course: its code, and a head and a mask for each group, of a kind one at
\* most; the slot of the downloaded program has empty masks.  The switch's
\* bytes are in the order of the table.
Width(b) == 1 + 2 * b.groups
Count(b) == Len(b.body) \div Width(b)
Byte(b, i, j) == b.body[i * Width(b) + j]
Code(b, i) == Byte(b, i, 1)

TableOK(b) ==
    /\ b.body \in Seq(0..255) /\ b.groups \in Nat
    /\ Len(b.body) = Count(b) * Width(b) /\ Count(b) >= 2
    /\ \A i, j \in 0..Count(b) - 1 : Code(b, i) = Code(b, j) => i = j
    /\ DOMAIN b.courses = {Code(b, i) : i \in 0..Count(b) - 1}
    /\ \A i \in 0..Count(b) - 1 :
         b.courses[Code(b, i)] = [g \in 1..b.groups |->
             <<Byte(b, i, 2 * g) \div 16, Byte(b, i, 2 * g) % 16, Bits(Byte(b, i, 2 * g + 1))>>]
    /\ \A c \in DOMAIN b.courses : \A g, h \in 1..b.groups :
         b.courses[c][g][1] = b.kind /\ b.courses[c][h][1] = b.kind =>
           g = h /\ (c = b.download => b.courses[c][g][3] = {})
    /\ Len(b.avail) = Count(b)
    /\ b.avail = [i \in 1..Count(b) |-> b.switch[Code(b, i - 1)]]

LaundryOK ==
    /\ Moves \in Nat
    /\ None \notin Nat /\ \A mask \in SUBSET (0..7) : mask # None
    /\ \A b \in Boards :
        /\ b.kind \in 0..15 /\ b.levels \in Nat \ {0} /\ b.hdr \in 0..15 \union {None}
        /\ b.tableOnly \in BOOLEAN
        /\ TableOK(b)
        /\ None \notin [DOMAIN b.courses -> Seq(0..255)]

\* course_option_mask: the levels the record allows, by its first group of
\* the kind, or None for no opinion
Heads(record) ==
    {i \in 1..Len(record) : i % 2 = 0 /\ i < Len(record) /\ record[i] \div 16 = board.kind}

OptionMask(current) ==
    LET records == CourseRecords(board, current, Elems(board.edit))
        record == records[current]
        heads == Heads(record)
    IN IF current \notin DOMAIN records \/ heads = {} THEN None
       ELSE Bits(record[(CHOOSE i \in heads : \A j \in heads : i <= j) + 1])

\* No opinion: an empty mask on the slot of the downloaded program is none
Silent(current) ==
    OptionMask(current) = None \/ (OptionMask(current) = {} /\ current = board.download)

\* What the course allows, what a mask cannot speak of, and the live level
Narrowed(s) ==
    {i + 1 : i \in {j \in OptionMask(s.course) : j < board.levels}}
        \union {i \in 1..board.levels : i > 8} \union {s.level}

\* Slip: an empty mask permits nothing
NarrowedOnDownload(s) == IF OptionMask(s.course) = None THEN 1..board.levels ELSE Narrowed(s)

\* course_narrowed_options, of an appliance that lists levels
Offered(s) == IF Silent(s.course) THEN 1..board.levels ELSE Narrowed(s)

\* _course_codes_from_supported_options, in the order of the table
TableOrder(current) ==
    LET records == CourseRecords(board, current, {})
        k == Len(board.body) \div Cardinality(DOMAIN records)
    IN IF records = <<>> THEN <<>>
       ELSE [i \in 1..Cardinality(DOMAIN records) |-> board.body[(i - 1) * k + 1]]

\* cycle_options: the courses of the cycle select
CycleOptions(current) == IF board.edit # <<>> THEN board.edit ELSE TableOrder(current)

\* Slip: the bytes follow the list of courses
SupportedByEditList(s) ==
    LET courses == CycleOptions(s.course)
    IN IF s.course \notin Elems(courses) \/ Len(board.avail) # Len(courses) THEN None
       ELSE board.avail[CHOOSE i \in DOMAIN courses : courses[i] = s.course]

\* course_supported: the byte of the course, by the order of the table; None
\* where it cannot be told.  Extra Rinse does without the list of courses.
CourseSupported(s) ==
    LET table == TableOrder(s.course)
        courses == IF table # <<>> \/ board.tableOnly THEN table ELSE CycleOptions(s.course)
    IN IF s.course \notin Elems(courses) \/ Len(board.avail) # Len(courses) THEN None
       ELSE board.avail[CHOOSE i \in DOMAIN courses : courses[i] = s.course]

-----------------------------------------------------------------------------
(* The steps *)

\* The knob, or a start from elsewhere; the level follows at once or later
Turn ==
    /\ moves > 0
    /\ moves' = moves - 1
    /\ \E c \in DOMAIN board.courses \union board.others, i \in 0..board.levels :
        /\ c # unit.course
        /\ i \in Takes(c) \union {unit.level, Unlisted}
        /\ unit' = [unit EXCEPT !.course = c, !.level = i]
    /\ picked' = None
    /\ UNCHANGED <<board, seen>>

Follow ==
    /\ unit.level \notin Takes(unit.course)
    /\ \E i \in Takes(unit.course) : unit' = [unit EXCEPT !.level = i]
    /\ picked' = None
    /\ UNCHANGED <<board, seen, moves>>

\* A sweep or a notification brings one resource, or the other
ReadCourse ==
    /\ seen.course # unit.course
    /\ seen' = [seen EXCEPT !.course = unit.course]
    /\ UNCHANGED <<board, unit, picked, moves>>

ReadLevel ==
    /\ seen.level # unit.level
    /\ seen' = [seen EXCEPT !.level = unit.level]
    /\ UNCHANGED <<board, unit, picked, moves>>

\* Home Assistant lets an offered level be picked; the appliance ignores what
\* the course does not take, and the cache shows it at first
Pick ==
    \E i \in Offered(seen) \ {seen.level} :
        /\ unit' = IF i \in Takes(unit.course) THEN [unit EXCEPT !.level = i] ELSE unit
        /\ seen' = [seen EXCEPT !.level = i]
        /\ picked' = IF seen.course = unit.course THEN i ELSE None
        /\ UNCHANGED <<board, moves>>

-----------------------------------------------------------------------------
Init ==
    /\ board \in Boards
    /\ \E c \in DOMAIN board.courses : \E i \in Takes(c) \union {Unlisted} : unit = [course |-> c, level |-> i]
    /\ seen = unit
    /\ picked = None
    /\ moves = Moves

Next == Turn \/ Follow \/ ReadCourse \/ ReadLevel \/ Pick

Spec == Init /\ [][Next]_vars

-----------------------------------------------------------------------------
(* Properties *)

\* The live level is among the ones offered, whichever of the two resources
\* was read first: Home Assistant would show the select as unknown otherwise
\* ("Never blank the entity").  Where nothing is known of the course, the
\* list is what is offered, and a level it omits is not.
LiveIsOffered == seen.level # Unlisted \/ ~Silent(seen.course) => seen.level \in Offered(seen)

\* The record of a course is read by its width, and nothing is of a course
\* outside the table: so it is where the width is stated and the list of
\* courses holds no others, and on every recorded table without that.
WidthFound(c) ==
    CourseRecords(board, c, Elems(board.edit)) =
        IF c \in DOMAIN board.courses THEN Split(board, Width(board), c) ELSE <<>>

\* No level that the course takes is withheld, downloaded programs, levels
\* past the eighth and courses outside the table included ("under-offering
\* makes a level the user really can select unreachable through Home
\* Assistant").
NothingWithheld == WidthFound(seen.course) => Takes(seen.course) \subseteq Offered(seen)

\* A level that was picked on a course of the table is taken, unless it is
\* one the appliance refuses though its mask has it: no other write is the
\* silent no-op (course_narrowed_options).
PickedIsTaken ==
    picked # None /\ unit.course \in DOMAIN board.courses /\ WidthFound(unit.course)
        => unit.level = picked \/ <<unit.course, picked>> \in board.refused

\* A switch is refused on a course without it, for certain where the table
\* states its width, and on no course of the table that has it, however its
\* width was guessed (_bool_option_switch, #511).  Of a course outside the
\* table nothing can be told; but if the list of courses is as long as the
\* table, its order is taken for the table's, except by Extra Rinse.
SwitchAsTheCourse ==
    CASE seen.course \in DOMAIN board.courses ->
            \/ CourseSupported(seen) = board.switch[seen.course]
            \/ CourseSupported(seen) = None /\ board.hdr # board.groups
      [] seen.course \notin DOMAIN board.courses ->
            \/ CourseSupported(seen) = None
            \/ ~board.tableOnly /\ Len(board.edit) = Len(board.avail)

=============================================================================
