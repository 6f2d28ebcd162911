------------------------------- MODULE Reports -------------------------------
(***************************************************************************)
(* What a resource's rep, a report about it and a command's body are:      *)
(* fields with values, and the field-level merge of ObserveManager.apply.  *)
(* The fields are either the properties of the resource or the tokens of   *)
(* its x.com.samsung.da.options list: a notification carries the tokens    *)
(* that changed and apply merges them by their prefix (issue #579), as it  *)
(* merges properties by name.  The alarms resource, replaced whole, is no  *)
(* such resource.                                                          *)
(***************************************************************************)
CONSTANTS
    Fields,   \* the properties (or option tokens) of the resource
    Values    \* what one may hold

\* What a report or a body may carry: some of the fields.
Reps == UNION {[S -> Values] : S \in SUBSET Fields}
State == [Fields -> Values]

NoRep == [f \in {} |-> f]

\* {**prior, **rep}
Merge(old, new) ==
    [f \in Fields |-> IF f \in DOMAIN new THEN new[f] ELSE old[f]]
=============================================================================
