------------------------------- MODULE Envelope -------------------------------
(***************************************************************************)
(* The translation between the 8888 bridge's bodies and the reps of the    *)
(* OCF boards (legacy_http.py).                                            *)
(*                                                                         *)
(* A body is a function from wire keys to values, and a set of reps one    *)
(* from canonical keys to values.  A key is <<wrapper, field, prefix>>, or *)
(* <<href, field, prefix>>: `prefix` names the token of an options list    *)
(* that carries the value ("Course" for Course_1B) and is None for a plain *)
(* field.  A resource served as a bare list is the one field "items".      *)
(* Field prefixes, numbers sent as strings and joined lists are spelling   *)
(* and left out.                                                           *)
(***************************************************************************)
EXTENDS Integers, FiniteSets, Functions

CONSTANT None

(* One value, and the values of f over those of g.                         *)
Only(key, value) == [k \in {key} |-> value]
Over(f, g) == [k \in DOMAIN f \cup DOMAIN g |-> IF k \in DOMAIN f THEN f[k] ELSE g[k]]

Row(wrapper, endpoint, href) ==
    [wrapper |-> wrapper, endpoint |-> endpoint, href |-> href,
     fanOut |-> <<>>, rename |-> <<>>, asItems |-> FALSE, startOnly |-> {}]

Listed(row) == [row EXCEPT !.asItems = TRUE]

(* Where each resource lands; a field not named is mechanical.             *)
Resources ==
  { [Row("Operation", "operation", "/operational/state") EXCEPT
        !.fanOut = [power |-> "/power", kidsLock |-> "/kidslock"]],
    Row("Mode", "mode", "/mode"),
    [Row("Washer", "washer", "/washer") EXCEPT
        !.startOnly = {"waterTemperature", "rinseCycles", "spinLevel"}],
    Row("Oven", "oven", "/oven"),
    Row("Fridge", "fridge", "/refrigeration"),
    Listed(Row("Temperatures", "temperatures", "/temperatures")),
    Listed(Row("Doors", "doors", "/doors")),
    Row("Wind", "wind", "/airflow"),
    Row("Configuration", "configuration", "/remotectrl"),
    [Row("Information", "information", "/information") EXCEPT
        !.rename = [modelID |-> "modelNum", serialNumber |-> "serialNum"]],
    Row("Diagnosis", "diagnosis", "/diagnosis"),
    Listed(Row("Alarms", "alarms", "/alarms")),
    [Listed(Row("Sensors", "sensors", "/sensors")) EXCEPT !.rename = [values |-> "value"]],
    Listed(Row("Consumables", "consumables", "/consumable")) }

LaundryMode == [Row("Mode", "mode", "/course") EXCEPT !.startOnly = {"Course"}]
RegionConfiguration == Row("Configuration", "configuration", "/configuration")

(* table_for: a type's own rows in place of the shared ones.               *)
TableFor(type) ==
    LET overrides == CASE type \in {"Washer", "Dryer"} -> {LaundryMode}
                       [] type \in {"Air_Conditioner", "Air_Purifier", "Refrigerator"}
                          -> {RegionConfiguration}
                       [] OTHER -> {}
    IN overrides \cup
       {row \in Resources : \A o \in overrides : o.wrapper # row.wrapper}

Canonical(row, field) == IF field \in DOMAIN row.rename THEN row.rename[field] ELSE field
HrefOf(row, field)    == IF field \in DOMAIN row.fanOut THEN row.fanOut[field] ELSE row.href

Field(key)   == key[2]
Prefix(key)  == key[3]
Wrapper(key) == key[1]

(* to_resources: a wrapper no row names is not read.                       *)
ToResources(body, table) ==
    LET rows   == [w \in {row.wrapper : row \in table} |->
                      CHOOSE row \in table : row.wrapper = w]
        read   == {k \in DOMAIN body : Wrapper(k) \in DOMAIN rows}
        Lands(k) == LET row == rows[Wrapper(k)]
                    IN <<HrefOf(row, Field(k)), Canonical(row, Field(k)), Prefix(k)>>
    IN [c \in {Lands(k) : k \in read} |-> body[CHOOSE k \in read : Lands(k) = c]]

UnmappedWrappers(body, table) ==
    {Wrapper(k) : k \in DOMAIN body} \ {row.wrapper : row \in table}

(* _wire_field: {<<wrapper, field>>}, or {} when the table has nowhere to  *)
(* put it.  A fanned-out href carries its own field only; of a list's, the *)
(* items only.                                                             *)
WireField(href, field, table) ==
    {<<row.wrapper, field>> :
        row \in {r \in table : field \in DOMAIN r.fanOut /\ r.fanOut[field] = href}}
    \cup
    {<<row.wrapper, IF \E w \in DOMAIN row.rename : row.rename[w] = field
                    THEN CHOOSE w \in DOMAIN row.rename : row.rename[w] = field
                    ELSE field>> :
        row \in {r \in table : r.href = href /\ (r.asItems => field = "items")}}

(* to_write: one aggregate body of canonical patches.                      *)
ToWrite(patch, table) ==
    LET target(k) == WireField(k[1], Field(k), table)
        written   == {k \in DOMAIN patch : target(k) # {}}
        wire(k)   == LET t == CHOOSE t \in target(k) : TRUE IN <<t[1], t[2], Prefix(k)>>
    IN [w \in {wire(k) : k \in written} |-> patch[CHOOSE k \in written : wire(k) = w]]

(* batch_steps: every element has to be translated.                        *)
Translatable(steps, table) == \A step \in steps : ToWrite(step, table) # <<>>

(* split_start_only: the keys only a start carries.                        *)
StartOnly(key, table) ==
    \E row \in table : row.wrapper = Wrapper(key)
                    /\ ~row.asItems
                    /\ {Field(key), Prefix(key)} \cap row.startOnly # {}

StateKey == <<"Operation", "state", None>>
IsStart(body) == StateKey \in DOMAIN body /\ body[StateKey] = "Run"
StopBody      == Only(StateKey, "Ready")

(* with_staged: the held values in place of the reported ones, in the      *)
(* wrappers reported.                                                      *)
WithStaged(body, held) ==
    Over(Restrict(held, {k \in DOMAIN held : \E b \in DOMAIN body : Wrapper(b) = Wrapper(k)}),
         body)

(* add_staged: a start body that carries every held value.                 *)
AddStaged(body, held) == Over(held, body)

(* Which resource serves an href (_index_by_href).                         *)
ResourceAt(href, table) ==
    {row \in table : href = row.href \/ href \in {row.fanOut[f] : f \in DOMAIN row.fanOut}}

(* _write_target: the endpoint a body goes to, {} if it has not the shape  *)
(* its endpoint takes.  Only an air conditioner's differ: one Temperatures *)
(* item, with its id, on the item's own endpoint; Mode and Wind on theirs. *)
WriteTarget(href, body, type) ==
    IF type # "Air_Conditioner" THEN {"aggregate"}
    ELSE UNION {
        LET has == {k \in DOMAIN body : Wrapper(k) = row.wrapper}
        IN CASE row.endpoint = "operation"      -> IF has = {} THEN {} ELSE {"operation"}
             [] row.endpoint = "temperatures"   ->
                    IF \E k \in has : Cardinality(body[k]) = 1
                                   /\ \A item \in body[k] : item.id # None
                    THEN {"item"} ELSE {}
             [] row.endpoint \in {"mode", "wind"} -> IF has = {} THEN {} ELSE {row.endpoint}
             [] OTHER                           -> {"aggregate"}
      : row \in ResourceAt(href, TableFor(type))}

=============================================================================
