---------------------------- MODULE MCSettleGuard ----------------------------
(* Small instances of SettleGuard: two commands over one field, and one    *)
(* command and the panel over two.                                         *)
EXTENDS SettleGuard

CONSTANTS c1, c2, power, mode, on, off

\* Two commands on one field of the href, switching it on and off.
Opposed == [c \in {c1, c2} |-> [f \in {power} |-> IF c = c1 THEN on ELSE off]]

\* One command, beside a field it does not write.
Single == [c \in {c1} |-> [f \in {power} |-> on]]

\* The appliance as first polled.
AllOff == device = [f \in Fields |-> off]

MCInit == Init /\ AllOff
MCSpec == MCInit /\ [][Next]_vars
MCFairSpec == MCSpec /\ Fairness
=============================================================================
