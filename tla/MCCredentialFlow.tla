--------------------------- MODULE MCCredentialFlow ---------------------------
(* Two flows over two appliances, of which the second is a bridge.         *)
EXTENDS CredentialFlow

MCAppliances == {"a", "b"}

Dtls(leaves, psk) == [bridge |-> FALSE, leaves |-> leaves, callback |-> {}, psk |-> psk]
Bridge(leaves, callback) == [bridge |-> TRUE, leaves |-> leaves, callback |-> callback, psk |-> FALSE]

MCTyped == <<{"a"}, {"b"}>>
AnyLeaf == {"self", "signed", "identity"}
Washer == Bridge(AnyLeaf, AnyLeaf)

(* A bridge entry whose token the appliance does not know any more.        *)
Old(unit, host) ==
    [unit |-> unit, host |-> host, psk |-> None, token |-> <<"b", 9>>, carrier |-> "certificate",
     leaf |-> "self", ca |-> None]

(* Nothing stored, beside an appliance that takes the CA's certificates or *)
(* a key; a stored bridge that takes only the CA's certificates by now;    *)
(* one at whose address another bridge answers, while something else has   *)
(* an answer for the listener.                                             *)
MCStarts ==
    LET start(a, b, e, p) ==
            [kind |-> [x \in MCAppliances |-> IF x = "a" THEN a ELSE b], data |-> <<e, None>>, pending |-> p]
    IN {start(Dtls({"signed"}, TRUE), Washer, None, {}),
        start(Dtls({"self"}, FALSE), Bridge({"signed", "identity"}, AnyLeaf), Old("b", "b"), {}),
        start(Washer, [Dtls({"self"}, FALSE) EXCEPT !.callback = AnyLeaf], Old("b", "a"), {"b"})}
=============================================================================
