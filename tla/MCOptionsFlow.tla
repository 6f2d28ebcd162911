----------------------------- MODULE MCOptionsFlow -----------------------------
(* Model-checking instance of OptionsFlow. *)
EXTENDS OptionsFlow

P(s, t) == [slot |-> s, tweak |-> t]
MCPayloads == {P("s1", 1), P("s1", 2), P("s2", 1)}
MCLeftover == P("s1", 1)

Budget(t, d, s, r) == [turns |-> t, dialogs |-> d, settings |-> s, reloads |-> r]
MCBudgets == {Budget(2, 1, 0, 0), Budget(1, 1, 1, 0), Budget(1, 1, 0, 1), Budget(1, 0, 1, 1)}

MCPersonal == "c1" :> "Mine"

=============================================================================
