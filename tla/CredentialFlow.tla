---------------------------- MODULE CredentialFlow ----------------------------
(***************************************************************************)
(* How the config flow comes by a credential (config_flow.py) and what of  *)
(* it an entry stores (credentials.py): the automatic certificate, the     *)
(* AC14K_M CA, a pre-shared key, and on the 8888 bridge a device token     *)
(* from TokenExchange or pasted; adding an appliance and reauthenticating  *)
(* an entry, several flows at a time.                                      *)
(*                                                                         *)
(* A leaf certificate is "self" (self-signed), "signed" (by the CA) or     *)
(* "identity" (the CA's certificate itself); a CA is "good" or "bad".      *)
(* Hosts are named by the appliance that answers there.  How an answer is  *)
(* found is SetupProbe's; here it is what the appliance takes, or none.    *)
(***************************************************************************)
EXTENDS TokenExchange

CONSTANTS
    Flows,
    Entries,
    Typed,    \* the hosts each flow's user may type
    Starts    \* [kind, data, pending] to start from

Leaves  == {"self", "signed", "identity"}
Tokens  == Appliances \X Nat
OrNone(S) == S \cup {None}
Accepts == [bridge : BOOLEAN, leaves : SUBSET Leaves, callback : SUBSET Leaves, psk : BOOLEAN]
Stored  == [unit : Appliances, host : Appliances, psk : OrNone({"right"}),
            token : OrNone(Tokens), carrier : {"psk", "certificate"}, leaf : OrNone(Leaves),
            ca : OrNone({"good", "bad"})]

(* A device token goes with a certificate, never with a pre-shared key.    *)
TokenOnCertificate(entry) ==
    entry.token # None => entry.carrier = "certificate" /\ entry.psk = None

ASSUME CredentialsOK ==
    /\ None \notin Stored /\ None # "right"
    /\ \A f \in Flows : Typed[f] \subseteq Appliances
    /\ \A start \in Starts :
        /\ start.kind \in [Appliances -> Accepts] /\ start.pending \subseteq Appliances
        /\ start.data \in [Entries -> OrNone(Stored)]
        /\ \A e \in Entries : start.data[e] # None => TokenOnCertificate(start.data[e])

VARIABLES
    data,  \* what is stored of each entry, or None
    flows  \* the flows in progress

vars == <<exchange, kind, pending, issued, data, flows>>

NoFlow == [step |-> "none"]
NewFlow(source, step) ==
    [step |-> step, source |-> source, entry |-> None, host |-> None, ca |-> None, leaf |-> None,
     certRejected |-> FALSE, psk |-> None, token |-> None, result |-> None]

Init ==
    /\ \E start \in Starts :
        /\ kind = start.kind /\ data = start.data /\ pending = start.pending
        /\ issued = [a \in Appliances |-> 0]
    /\ exchange = None
    /\ flows = [f \in Flows |-> NoFlow]

Present == {e \in Entries : data[e] # None}
Fresh   == Entries \ Present

(* Every form shows its error and is there to be sent again.               *)
Goto(f, step) == flows' = [flows EXCEPT ![f].step = step, ![f].result = None]

-----------------------------------------------------------------------------
(* The end of a flow. *)

(* _create_entry: a PSK entry has no certificate fields, not empty ones.   *)
CreatedEntry(flow) ==
    [unit |-> flow.host, host |-> flow.host, psk |-> flow.psk, token |-> flow.token,
     carrier |-> IF flow.psk # None THEN "psk" ELSE "certificate",
     leaf |-> IF flow.psk # None THEN None ELSE flow.leaf,
     ca |-> IF flow.psk # None THEN None ELSE flow.ca]

(* _finish_probe, for a probe under the credential in `flow`: an appliance *)
(* that has an entry is not added again, and an unknown one is confirmed.  *)
FinishProbe(f, flow) ==
    IF \E e \in Present : data[e].unit = flow.host
    THEN flows' = [flows EXCEPT ![f] = NoFlow] /\ UNCHANGED data
    ELSE \/ /\ Fresh # {}
            /\ data' = [data EXCEPT ![CHOOSE e \in Fresh : TRUE] = CreatedEntry(flow)]
            /\ flows' = [flows EXCEPT ![f] = NoFlow]
         \/ flows' = [flows EXCEPT ![f] = [flow EXCEPT !.step = "confirm"]] /\ UNCHANGED data

ConfirmUnknownType(f) ==
    /\ flows[f].step = "confirm"
    /\ Fresh # {}
    /\ data' = [data EXCEPT ![CHOOSE e \in Fresh : TRUE] = CreatedEntry(flows[f])]
    /\ flows' = [flows EXCEPT ![f] = NoFlow]
    /\ UNCHANGED exchangeVars

(* The user closes it; a job that waits for a token goes on.               *)
Abandon(f) ==
    /\ flows[f].step # "none"
    /\ flows' = [flows EXCEPT ![f] = NoFlow]
    /\ exchange' = IF exchange # None /\ exchange.flow = f THEN [exchange EXCEPT !.flow = None]
                   ELSE exchange
    /\ UNCHANGED <<kind, pending, issued, data>>

-----------------------------------------------------------------------------
(* Certificates and pre-shared keys. *)

StartUser(f) ==
    /\ flows[f].step = "none"
    /\ flows' = [flows EXCEPT ![f] = NewFlow("user", "user")]
    /\ UNCHANGED <<exchangeVars, data>>

(* What a new flow reuses: a certificate entry's leaf and CA, one with a   *)
(* CA first.                                                               *)
Reused ==
    LET certified == {e \in Present : data[e].carrier = "certificate"}
        withCa    == {e \in certified : data[e].ca # None}
        source    == CHOOSE e \in (IF withCa # {} THEN withCa ELSE certified) : TRUE
    IN IF certified = {} THEN [leaf |-> None, ca |-> None]
       ELSE [leaf |-> data[source].leaf, ca |-> data[source].ca]

(* _mint_preferred.                                                        *)
MintPreferred(ca) == IF ca = None THEN "self" ELSE "signed"

(* async_step_user: the appliance takes the reused leaf, else a fresh one. *)
SubmitHost(f, h) ==
    /\ flows[f].step = "user"
    /\ \E reused \in {Reused} :
        LET flow  == [flows[f] EXCEPT !.host = h, !.ca = reused.ca]
            fresh == MintPreferred(reused.ca)
            leaf  == IF reused.leaf \in kind[h].leaves THEN reused.leaf ELSE fresh
        IN \/ UNCHANGED <<flows, data>>
           \/ /\ kind[h].bridge
              /\ flows' = [flows EXCEPT ![f] = [flow EXCEPT !.step = "token",
                              !.leaf = IF reused.leaf # None THEN reused.leaf ELSE fresh]]
              /\ UNCHANGED data
           \/ ~kind[h].bridge /\ leaf \in kind[h].leaves /\ FinishProbe(f, [flow EXCEPT !.leaf = leaf])
           \/ /\ ~kind[h].bridge /\ leaf \notin kind[h].leaves
              /\ flows' = [flows EXCEPT ![f] = [flow EXCEPT !.step = "menu"]]
              /\ UNCHANGED data
    /\ UNCHANGED exchangeVars

(* async_step_credential, credential_psk and ca_rejected: doxm changes the *)
(* words of the menu, never what it offers.                                *)
Pick(f) ==
    /\ flows[f].step = "menu"
    /\ Goto(f, "psk") \/ Goto(f, "fallback_ca")
    /\ UNCHANGED <<exchangeVars, data>>

(* _psk_step, with an identity and key that may be malformed or wrong.     *)
SubmitPsk(f, key) ==
    /\ flows[f].step = "psk"
    /\ IF key = "right" /\ kind[flows[f].host].psk
       THEN \/ FinishProbe(f, [flows[f] EXCEPT !.psk = key])
            \/ UNCHANGED <<flows, data>>
       ELSE UNCHANGED <<flows, data>>
    /\ UNCHANGED exchangeVars

(* async_step_fallback_ca and _legacy_retry_with_ca.                       *)
SubmitCa(f, ca) ==
    /\ flows[f].step = "fallback_ca"
    /\ LET flow == [flows[f] EXCEPT !.ca = ca]
           mint == [flow EXCEPT !.leaf = "signed"]
       IN \/ flows' = [flows EXCEPT ![f] = flow] /\ UNCHANGED data
          \/ /\ ca = "good" /\ flow.certRejected
             /\ flows' = [flows EXCEPT ![f] = [mint EXCEPT !.certRejected = FALSE, !.step = "exchange"]]
             /\ UNCHANGED data
          \/ /\ ca = "good" /\ ~flow.certRejected
             /\ IF "signed" \in kind[flow.host].leaves THEN FinishProbe(f, mint)
                ELSE flows' = [flows EXCEPT ![f] = [flow EXCEPT !.step = "menu"]] /\ UNCHANGED data
    /\ UNCHANGED exchangeVars

-----------------------------------------------------------------------------
(* Device tokens. *)

(* async_step_reauth, when the bridge answers 401.                         *)
StartReauth(f, e) ==
    /\ flows[f].step = "none" /\ e \in Present
    /\ kind[data[e].host].bridge /\ data[e].token # None /\ ~Valid(data[e].token, data[e].host)
    /\ \A g \in Flows : flows[g].step # "none" => flows[g].entry # e
    /\ flows' = [flows EXCEPT ![f] = [NewFlow("reauth", "token") EXCEPT !.entry = e,
                    !.host = data[e].host, !.leaf = data[e].leaf, !.ca = data[e].ca]]
    /\ UNCHANGED <<exchangeVars, data>>

(* Slip: the leaf of a reauthentication is left as it was.                 *)
TokenOnly(entry, flow, token) == [entry EXCEPT !.token = token, !.unit = flow.host]

(* What a reauthentication stores: the leaf too, since fallback_ca may     *)
(* have replaced it.                                                       *)
Reauthenticated(entry, flow, token) ==
    [entry EXCEPT !.token = token, !.leaf = flow.leaf, !.ca = flow.ca, !.unit = flow.host]

(* _identity_matches, of appliances that report a serial each.             *)
IdentityMatches(entry, host) == entry.unit = host

(* _finish_legacy: the appliance is read with the leaf and the token       *)
(* before either is stored.                                                *)
FinishLegacy(f, token) ==
    LET flow == flows[f]
        read == Valid(token, flow.host) /\ flow.leaf \in kind[flow.host].leaves
    IN \/ Goto(f, "token") /\ UNCHANGED data
       \/ /\ read /\ flow.source = "user"
          /\ FinishProbe(f, [flow EXCEPT !.token = token])
       \/ /\ read /\ flow.source = "reauth" /\ IdentityMatches(data[flow.entry], flow.host)
          /\ data' = [data EXCEPT ![flow.entry] = Reauthenticated(@, flow, token)]
          /\ flows' = [flows EXCEPT ![f] = NoFlow]

(* _legacy_submit: an empty field asks the appliance for a token.          *)
SubmitToken(f) ==
    /\ flows[f].step = "token"
    /\ \/ Goto(f, "exchange") /\ UNCHANGED data
       \/ \E a \in Appliances : FinishLegacy(f, Token(a, 1))
    /\ UNCHANGED exchangeVars

(* async_step_legacy_token_exchange: its job starts; 8889 may be taken.    *)
StartExchange(f) ==
    /\ flows[f].step = "exchange"
    /\ IF exchange # None
       THEN flows' = [flows EXCEPT ![f].step = "received", ![f].result = PortInUse] /\ UNCHANGED exchange
       ELSE /\ StartListener(f, flows[f].host, flows[f].leaf)
            /\ Goto(f, "waiting")
    /\ UNCHANGED <<kind, pending, issued, data>>

(* The listener is stopped and the port free, whatever the exchange ended  *)
(* with.  _request_token: where the certificate was refused, once more     *)
(* with the CA's own certificate; an abandoned job ends here.              *)
EndExchange ==
    /\ exchange # None /\ exchange.pc = "stop"
    /\ exchange' = None
    /\ IF exchange.flow = None THEN UNCHANGED flows
       ELSE LET f == exchange.flow
                again == exchange.result = CertRejected /\ flows[f].ca # None /\ exchange.leaf # "identity"
            IN flows' = [flows EXCEPT ![f].step = IF again THEN "exchange" ELSE "received",
                                      ![f].leaf = IF again THEN "identity" ELSE @,
                                      ![f].result = IF again THEN None ELSE exchange.result]
    /\ UNCHANGED <<kind, pending, issued, data>>

(* async_step_legacy_token_received.                                       *)
TokenReceived(f) ==
    /\ flows[f].step = "received"
    /\ LET result == flows[f].result IN
       \/ /\ result \in {PortInUse, NoToken} \/ (result = CertRejected /\ flows[f].ca # None)
          /\ Goto(f, "token") /\ UNCHANGED data
       \/ /\ result = CertRejected /\ flows[f].ca = None
          /\ flows' = [flows EXCEPT ![f].step = "fallback_ca", ![f].certRejected = TRUE]
          /\ UNCHANGED data
       \/ \E a \in Appliances : Valid(result, a) /\ FinishLegacy(f, result)
    /\ UNCHANGED exchangeVars

-----------------------------------------------------------------------------
(* What a running exchange does by itself, and HA when its task is done.   *)
Job ==
    \/ AskForToken /\ UNCHANGED <<data, flows>>
    \/ WaitForCallback /\ UNCHANGED <<data, flows>>
    \/ LeaveLoop /\ UNCHANGED <<data, flows>>
    \/ EndExchange

Next ==
    \/ Job
    \/ \E a \in Appliances : Callback(a) /\ UNCHANGED <<data, flows>>
    \/ \E f \in Flows :
        \/ StartUser(f) \/ Abandon(f) \/ ConfirmUnknownType(f) \/ Pick(f)
        \/ SubmitToken(f) \/ StartExchange(f) \/ TokenReceived(f)
        \/ \E h \in Typed[f] : SubmitHost(f, h)
        \/ \E key \in {"right", "wrong"} : SubmitPsk(f, key)
        \/ \E ca \in {"good", "bad"} : SubmitCa(f, ca)
        \/ \E e \in Entries : StartReauth(f, e)

Spec ==
    /\ Init /\ [][Next]_vars
    /\ WF_vars(Job)
    /\ \A f \in Flows : WF_vars(StartExchange(f)) /\ WF_vars(TokenReceived(f))

-----------------------------------------------------------------------------
(* What holds. *)

(* The credential an entry holds, and whether its appliance takes it.      *)
Usable(entry) ==
    LET k == kind[entry.host] IN
    IF entry.carrier = "psk" THEN entry.leaf = None /\ entry.ca = None /\ k.psk
    ELSE /\ entry.psk = None /\ entry.leaf \in k.leaves
         /\ k.bridge => Valid(entry.token, entry.host)

\* What a flow stores of an entry is one credential, accepted as a whole and
\* by the entry's own appliance: by whichever way the flow came to it, the
\* leaf, the key and the token go together, and another appliance that
\* answers at the address is not taken for it (_create_entry, _finish_legacy,
\* _identity_matches, credentials.py).
StoredAsAccepted ==
    [][\A e \in Entries : data'[e] # data[e] =>
        /\ Usable(data'[e])
        /\ data[e] # None => data'[e].unit = data[e].unit]_vars

\* A flow that waits for a token gets an answer, and the port is free again,
\* whatever the appliance does and whoever abandons a flow.
ExchangeEnds ==
    /\ exchange # None ~> exchange = None
    /\ \A f \in Flows : flows[f].step \in {"exchange", "waiting", "received"}
                        ~> flows[f].step \notin {"exchange", "waiting", "received"}
=============================================================================
