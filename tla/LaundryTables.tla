----------------------------- MODULE LaundryTables -----------------------------
(* The washers, dryers and dishwashers of the runs: tables cut from the    *)
(* recorded appliances' (tests/fixtures), with the header that states      *)
(* their width, without one, and with a wrong one; with and without a list *)
(* of courses beside the table, in its order or another, and one that      *)
(* lists a course the table does not carry.  Where the header does not     *)
(* state it, the smallest width that passes is the true one, as it is on   *)
(* every whole table recorded; but for one cut that a smaller width fits.  *)
EXTENDS Integers, Sequences

CONSTANT None

DryerDV6800N ==
    <<\h9A, \hD2, \h0E, \hE0, \h00,
      \hCA, \hD1, \h0E, \hE0, \h00,
      \hDB, \hD2, \h04, \hE0, \h00,
      \h93, \hD1, \h02, \hE0, \h00,
      \hD7, \hD2, \h04, \hE0, \h00,
      \h96, \hD0, \h00, \hE1, \h0E,
      \h98, \hD0, \h00, \hE0, \h00>>

WasherWW5000C ==
    <<\h1C, \h84, \h10, \h92, \h3F, \hA6, \h7F,
      \h1B, \h84, \h7E, \h92, \h3F, \hA6, \h7F,
      \h25, \h84, \h3E, \h93, \h3F, \hA5, \h7F,
      \h20, \h85, \h7E, \h94, \h3F, \hA6, \h7F,
      \h08, \h80, \h00, \h91, \h3F, \hA6, \h7F,
      \h74, \h85, \h20, \h92, \h04, \hA5, \h20,
      \h87, \h80, \h00, \h90, \h00, \hA0, \h00>>

WasherWW6500 ==
    <<\h5B, \h84, \h7E, \h93, \h3F, \hA5, \h3F,
      \h5C, \h84, \h1E, \h92, \h3F, \hA5, \h3F,
      \h5F, \h86, \h7E, \h94, \h3F, \hA5, \h3F>>

DishwasherDW5000C ==
    <<\h82, \h83, \h0C, \hB0, \h02, \hC0, \h02, \hD0, \h02,
      \h83, \h83, \h0C, \hB0, \h02, \hC0, \h02, \hD0, \h02,
      \h84, \h83, \h0C, \hB0, \h02, \hC0, \h02, \hD0, \h02,
      \h85, \h83, \h0C, \hB0, \h00, \hC0, \h00, \hD0, \h00>>

DryerDV ==
    <<\h16, \hD2, \h0E,
      \h23, \hD0, \h00,
      \h1F, \hD2, \h0E,
      \h18, \hD2, \h0E>>

AirDresser ==
    <<\h01,
      \h02,
      \h04,
      \h03>>

\* The bits set in a byte
BitsOf(byte) == {i \in 0..7 : (byte \div 2^i) % 2 = 1}

\* The table of n groups to a record: the groups of each course
Table(body, n) ==
    LET w == 1 + 2 * n
        at == [c \in {body[i * w + 1] : i \in 0..(Len(body) \div w) - 1} |->
                 CHOOSE i \in 0..(Len(body) \div w) - 1 : body[i * w + 1] = c]
    IN [c \in DOMAIN at |->
         [g \in 1..n |->
            LET head == body[at[c] * w + 2 * g]
            IN <<head \div 16, head % 16, BitsOf(body[at[c] * w + 2 * g + 1])>>]]

\* A board of that table: its switch is there for the courses `with`
Board(kind, body, n, hdr, edit, levels, download, others, with) ==
    [kind |-> kind, groups |-> n, courses |-> Table(body, n), body |-> body, hdr |-> hdr, edit |-> edit,
     levels |-> levels, download |-> download, others |-> others, refused |-> {}, tableOnly |-> FALSE,
     switch |-> [c \in DOMAIN Table(body, n) |-> c \in with],
     avail |-> [i \in 1..Len(body) \div (1 + 2 * n) |-> body[(i - 1) * (1 + 2 * n) + 1] \in with]]

LaundryBoards ==
    UNION {
      \* dry level; Quick Dry does not take it
      {Board(\hD, DryerDV6800N, 2, hdr, edit, 4, None, {\hF0}, {\h9A, \h96}) :
          hdr \in {2, None, 5}, edit \in {<<>>, <<\h96, \h9A, \hCA>>, <<\h9A, \hF0>>}},
      \* dry time, as if the board had eleven, past what a mask can speak of
      {Board(\hE, DryerDV6800N, 2, hdr, <<\h96, \h9A, \hCA>>, 11, None, {\hF0}, {\h9A, \h96}) :
          hdr \in {2, None}},
      \* a list of courses as long as the table, with one of others in it
      {[Board(\hD, DryerDV6800N, 2, 2, <<\hF0, \hCA, \hDB, \h93, \hD7, \h96, \h98>>, 4, None,
              {\hF0}, {\hCA}) EXCEPT !.tableOnly = extra] : extra \in BOOLEAN},
      \* spin, with the slot of the downloaded program
      {Board(\hA, WasherWW5000C, 3, hdr, edit, 7, \h87, {}, {\h1C, \h20}) :
          hdr \in {3, 0}, edit \in {<<>>, <<\h87, \h25, \h1C, \h20, \h08, \h74, \h1B>>}},
      \* a table the smallest width misreads
      {Board(\hA, SubSeq(WasherWW5000C, 1, 28), 3, hdr, <<>>, 7, None, {}, {\h1C, \h20}) :
          hdr \in {3, None}},
      \* rinses, of which Baby Care takes those from the second on, its mask all
      {[Board(\h9, WasherWW6500, 3, hdr, <<\h5F, \h5B, \h5C>>, 6, None, {}, {\h5B})
              EXCEPT !.refused = {<<\h5F, 1>>, <<\h5F, 2>>}] : hdr \in {3, None}},
      {Board(\hD, DishwasherDW5000C, 4, hdr, <<>>, 2, None, {\h33}, {\h83}) : hdr \in {4, None}},
      {Board(\hD, DryerDV, 1, hdr, <<>>, 4, None, {}, {}) : hdr \in {1, 2}},
      {Board(\hD, AirDresser, 0, hdr, <<>>, 3, None, {}, {\h01, \h03}) : hdr \in {0, None}}}

=============================================================================
