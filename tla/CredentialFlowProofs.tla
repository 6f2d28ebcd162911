-------------------------- MODULE CredentialFlowProofs --------------------------
(***************************************************************************)
(* Proofs about CredentialFlow and TokenExchange, for any number of flows, *)
(* appliances and entries, any rounds of asking and any tokens: what an    *)
(* entry stores was accepted whole by the appliance it is for.             *)
(***************************************************************************)
EXTENDS CredentialFlow, TLAPS

Results == OrNone(Tokens \cup {PortInUse, CertRejected, NoToken})

Exchanges ==
    [flow : OrNone(Flows), peer : Appliances, leaf : OrNone(Leaves),
     pc : {"ask", "wait", "stop"}, round : Nat, token : OrNone(Tokens), failed : BOOLEAN,
     result : Results]

FlowSteps ==
    {"none", "user", "menu", "psk", "fallback_ca", "token", "exchange", "waiting", "received",
     "confirm"}

FlowRecs ==
    [step : FlowSteps, source : {"user", "reauth"}, entry : OrNone(Entries),
     host : OrNone(Appliances), ca : OrNone({"good", "bad"}), leaf : OrNone(Leaves),
     certRejected : BOOLEAN, psk : OrNone({"right"}), token : OrNone(Tokens), result : Results]

TypedExchange ==
    /\ kind \in [Appliances -> Accepts]
    /\ issued \in [Appliances -> Nat]
    /\ pending \subseteq Appliances
    /\ exchange \in OrNone(Exchanges)

TypedFlows ==
    /\ data \in [Entries -> OrNone(Stored)]
    /\ flows \in [Flows -> FlowRecs \cup {NoFlow}]

\* An entry that a reauthentication at host `h` may touch.
Certified(e, h) ==
    /\ e \in Entries /\ data[e] \in Stored
    /\ data[e].host = h /\ data[e].carrier = "certificate" /\ data[e].psk = None

\* What a flow has in hand: a credential is complete only when it is about
\* to be confirmed, the forms for DTLS are shown for no bridge, and a
\* reauthentication is of an entry at its host.
InHand(g) ==
    g.step # "none" =>
        /\ g \in FlowRecs
        /\ IF g.step = "user" THEN g.source = "user" ELSE g.host \in Appliances
        /\ g.step # "confirm" => g.psk = None /\ g.token = None
        /\ g.step = "confirm" => Usable(CreatedEntry(g)) /\ TokenOnCertificate(CreatedEntry(g))
        /\ g.step \in {"menu", "psk"} \/ (g.step = "fallback_ca" /\ ~g.certRejected) =>
            ~kind[g.host].bridge
        /\ g.source = "reauth" => Certified(g.entry, g.host)

\* The exchange's flow waits for it.
Awaited == exchange # None /\ exchange.flow # None => flows[exchange.flow].step = "waiting"

\* The exchange's token is of the appliance it asked.
TokenOfItsPeer ==
    exchange # None /\ exchange.token # None => exchange.token[1] = exchange.peer

IInv ==
    /\ TypedExchange /\ TypedFlows
    /\ TokenOfItsPeer
    /\ \A e \in Entries : data[e] # None => TokenOnCertificate(data[e])
    /\ \A f \in Flows : InHand(flows[f])
    /\ Awaited

\* What StoredAsAccepted says of a step.
AcceptedStep ==
    \A e \in Entries : data'[e] # data[e] =>
        /\ Usable(data'[e])
        /\ data[e] # None => data'[e].unit = data[e].unit

-----------------------------------------------------------------------------
(* Initially. *)

LEMMA InitEstablishes == Init => IInv
<1> SUFFICES ASSUME Init PROVE IInv
  OBVIOUS
<1>1. PICK start \in Starts :
        /\ kind = start.kind /\ data = start.data /\ pending = start.pending
        /\ issued = [a \in Appliances |-> 0]
  BY DEF Init
<1>2. exchange = None /\ flows = [f \in Flows |-> NoFlow]
  BY DEF Init
<1>3. TypedExchange
  BY <1>1, <1>2, CredentialsOK DEF TypedExchange, OrNone
<1>4. TypedFlows
  BY <1>1, <1>2, CredentialsOK DEF TypedFlows
<1>5. \A e \in Entries : data[e] # None => TokenOnCertificate(data[e])
  BY <1>1, CredentialsOK
<1>6. \A f \in Flows : InHand(flows[f])
  BY <1>2 DEF InHand, NoFlow
<1> QED  BY <1>2, <1>3, <1>4, <1>5, <1>6 DEF IInv, TokenOfItsPeer, Awaited

-----------------------------------------------------------------------------
(* Steps of the exchange. *)

\* The exchange may change as it likes as long as it keeps its flow, and a
\* token it gets is its peer's.
LEMMA ExchangeMoves ==
    ASSUME IInv, UNCHANGED <<kind, data, flows>>,
           issued' \in [Appliances -> Nat], \A a \in Appliances : issued'[a] >= issued[a],
           pending' \subseteq Appliances,
           exchange' \in OrNone(Exchanges), TokenOfItsPeer',
           exchange' # None => exchange # None /\ exchange'.flow \in {exchange.flow, None}
    PROVE  IInv' /\ AcceptedStep
<1>1. TypedExchange' /\ TypedFlows'
  BY DEF IInv, TypedExchange, TypedFlows
<1>2. \A e \in Entries : data'[e] # None => TokenOnCertificate(data'[e])
  BY DEF IInv
<1>3. ASSUME NEW f \in Flows PROVE InHand(flows[f])'
  <2>1. ASSUME NEW t, NEW h \in Appliances, Valid(t, h) PROVE Valid(t, h)'
    BY <2>1 DEF Valid, IInv, TypedExchange
  <2>2. InHand(flows[f])
    BY DEF IInv
  <2>3. flows'[f].step = "confirm" => flows[f].host \in Appliances /\ flows[f] \in FlowRecs
    BY <2>2 DEF InHand
  <2>4. flows[f].step = "confirm" => Usable(CreatedEntry(flows[f]))'
    BY <2>1, <2>2, <2>3 DEF InHand, Usable, CreatedEntry
  <2> QED  BY <2>2, <2>4 DEF InHand, CreatedEntry, TokenOnCertificate, Certified
<1>4. Awaited'
  BY DEF IInv, Awaited
<1> QED  BY <1>1, <1>2, <1>3, <1>4 DEF IInv, AcceptedStep

\* What an exchange record becomes.
LEMMA ExchangeAt ==
    ASSUME NEW x \in Exchanges, NEW pc \in {"ask", "wait", "stop"}
    PROVE  [x EXCEPT !.pc = pc] \in Exchanges
BY DEF Exchanges

LEMMA ExchangeStopped ==
    ASSUME NEW x \in Exchanges, NEW result \in Results
    PROVE  [x EXCEPT !.pc = "stop", !.result = result] \in Exchanges
BY DEF Exchanges

LEMMA ExchangeInRound ==
    ASSUME NEW x \in Exchanges, NEW round \in Nat
    PROVE  [x EXCEPT !.pc = "ask", !.round = round] \in Exchanges
BY DEF Exchanges

LEMMA ExchangeWith ==
    ASSUME NEW x \in Exchanges, NEW token \in OrNone(Tokens)
    PROVE  [x EXCEPT !.token = token] \in Exchanges
BY DEF Exchanges

LEMMA ExchangeLoose ==
    ASSUME NEW x \in Exchanges
    PROVE  [x EXCEPT !.failed = TRUE] \in Exchanges /\ [x EXCEPT !.flow = None] \in Exchanges
BY DEF Exchanges, OrNone

\* The peer, the token and the flow of the exchange stay.
LEMMA SameExchange ==
    ASSUME IInv, exchange # None, exchange' \in Exchanges,
           exchange'.peer = exchange.peer, exchange'.token = exchange.token,
           exchange'.flow = exchange.flow
    PROVE  /\ exchange' \in OrNone(Exchanges) /\ TokenOfItsPeer'
           /\ exchange' # None => exchange # None /\ exchange'.flow \in {exchange.flow, None}
BY DEF IInv, TokenOfItsPeer, OrNone

LEMMA NotNone == IInv /\ exchange # None => exchange \in Exchanges
BY DEF IInv, TypedExchange, OrNone

LEMMA IssuedStays ==
    IInv /\ UNCHANGED issued => issued' \in [Appliances -> Nat] /\ \A a \in Appliances : issued'[a] >= issued[a]
BY DEF IInv, TypedExchange

LEMMA AskStep ==
    ASSUME IInv, AskForToken, UNCHANGED <<data, flows>>
    PROVE  IInv' /\ AcceptedStep
<1>1. exchange \in Exchanges
  BY NotNone DEF AskForToken
<1>2. PICK y \in {[exchange EXCEPT !.pc = "wait"],
                  [exchange EXCEPT !.pc = "stop", !.result = CertRejected]} : exchange' = y
  BY DEF AskForToken
<1>3. CertRejected \in Results
  BY DEF Results, OrNone
<1>4. y \in Exchanges
  BY <1>1, <1>2, <1>3, ExchangeAt, ExchangeStopped
<1>5. y.peer = exchange.peer /\ y.token = exchange.token /\ y.flow = exchange.flow
  BY <1>1, <1>2 DEF Exchanges
<1>6. pending' \subseteq Appliances
  BY <1>1 DEF AskForToken, IInv, TypedExchange, Exchanges
<1> QED
  BY <1>1, <1>2, <1>4, <1>5, <1>6, SameExchange, IssuedStays, ExchangeMoves DEF AskForToken

LEMMA WaitStep ==
    ASSUME IInv, WaitForCallback, UNCHANGED <<data, flows>>
    PROVE  IInv' /\ AcceptedStep
<1>1. exchange \in Exchanges /\ exchange.round \in Nat
  BY NotNone DEF WaitForCallback, Exchanges
<1> DEFINE round == IF Over THEN exchange.round ELSE exchange.round + 1
<1>2. round \in Nat /\ exchange' = [exchange EXCEPT !.pc = "ask", !.round = round]
  BY <1>1 DEF WaitForCallback
<1>3. exchange' \in Exchanges
  BY <1>1, <1>2, ExchangeInRound
<1>4. exchange'.peer = exchange.peer /\ exchange'.token = exchange.token /\ exchange'.flow = exchange.flow
  BY <1>1, <1>2 DEF Exchanges
<1>5. pending' \subseteq Appliances
  BY DEF WaitForCallback, IInv, TypedExchange
<1> QED
  BY <1>1, <1>3, <1>4, <1>5, SameExchange, IssuedStays, ExchangeMoves DEF WaitForCallback

LEMMA LeaveStep ==
    ASSUME IInv, LeaveLoop, UNCHANGED <<data, flows>>
    PROVE  IInv' /\ AcceptedStep
<1>1. exchange \in Exchanges /\ exchange.result \in Results /\ exchange.token \in OrNone(Tokens)
  BY NotNone DEF LeaveLoop, Exchanges
<1>2. PICK result \in Results : exchange' = [exchange EXCEPT !.pc = "stop", !.result = result]
  BY <1>1 DEF LeaveLoop, Results, OrNone
<1>3. exchange' \in Exchanges
  BY <1>1, <1>2, ExchangeStopped
<1>4. exchange'.peer = exchange.peer /\ exchange'.token = exchange.token /\ exchange'.flow = exchange.flow
  BY <1>1, <1>2 DEF Exchanges
<1>5. pending' \subseteq Appliances
  BY DEF LeaveLoop, IInv, TypedExchange
<1> QED
  BY <1>1, <1>3, <1>4, <1>5, SameExchange, IssuedStays, ExchangeMoves DEF LeaveLoop

LEMMA CallbackStep ==
    ASSUME IInv, NEW a \in Appliances, Callback(a), UNCHANGED <<data, flows>>
    PROVE  IInv' /\ AcceptedStep
<1>1. pending' \subseteq Appliances /\ issued \in [Appliances -> Nat] /\ UNCHANGED kind
  BY DEF Callback, IInv, TypedExchange
<1>2. CASE UNCHANGED <<exchange, issued>>
  <2>1. exchange' \in OrNone(Exchanges) /\ TokenOfItsPeer'
    BY <1>2 DEF IInv, TypedExchange, TokenOfItsPeer
  <2> QED  BY <1>1, <1>2, <2>1, IssuedStays, ExchangeMoves
<1>3. CASE /\ exchange # None /\ Listens(a)
           /\ issued' = [issued EXCEPT ![a] = @ + 1]
           /\ exchange' = [exchange EXCEPT !.token = Token(a, issued[a] + 1)]
  <2>1. exchange \in Exchanges /\ exchange.peer = a
    BY <1>3, NotNone DEF Listens
  <2>2. Token(a, issued[a] + 1) \in OrNone(Tokens) /\ Token(a, issued[a] + 1)[1] = a
    BY <1>1 DEF Token, Tokens, OrNone
  <2>3. exchange' \in Exchanges
    BY <1>3, <2>1, <2>2, ExchangeWith
  <2>4. exchange'.peer = a /\ exchange'.token[1] = a /\ exchange'.flow = exchange.flow
    BY <1>3, <2>1, <2>2 DEF Exchanges
  <2>5. issued' \in [Appliances -> Nat] /\ \A b \in Appliances : issued'[b] >= issued[b]
    BY <1>1, <1>3
  <2> QED  BY <1>1, <1>3, <2>3, <2>4, <2>5, ExchangeMoves DEF TokenOfItsPeer, OrNone
<1>4. CASE exchange # None /\ exchange' = [exchange EXCEPT !.failed = TRUE] /\ UNCHANGED issued
  <2>1. exchange \in Exchanges /\ exchange' \in Exchanges
    BY <1>4, NotNone, ExchangeLoose
  <2>2. exchange'.peer = exchange.peer /\ exchange'.token = exchange.token /\ exchange'.flow = exchange.flow
    BY <1>4, <2>1 DEF Exchanges
  <2> QED  BY <1>1, <1>4, <2>1, <2>2, SameExchange, IssuedStays, ExchangeMoves
<1> QED  BY <1>2, <1>3, <1>4 DEF Callback

-----------------------------------------------------------------------------
(* Steps of a flow. *)

\* One flow moves to another place; the exchange stays, or is begun by it,
\* ended for it, or let go of by it.
LEMMA FlowMoves ==
    ASSUME IInv, NEW f \in Flows, NEW g \in FlowRecs \cup {NoFlow},
           flows' = [flows EXCEPT ![f] = g], InHand(g),
           UNCHANGED <<kind, pending, issued, data>>,
           exchange' \in OrNone(Exchanges), TokenOfItsPeer', Awaited'
    PROVE  IInv' /\ AcceptedStep
<1>1. TypedExchange' /\ TypedFlows'
  BY DEF IInv, TypedExchange, TypedFlows
<1>2. \A e \in Entries : data'[e] # None => TokenOnCertificate(data'[e])
  BY DEF IInv
<1>3. ASSUME NEW k \in Flows PROVE InHand(flows[k])'
  <2>1. InHand(flows'[k])
    BY DEF IInv, TypedFlows
  <2> QED  BY <2>1 DEF InHand, Usable, CreatedEntry, Valid, Certified, TokenOnCertificate
<1> QED  BY <1>1, <1>2, <1>3 DEF IInv, AcceptedStep

\* ... and the exchange stays as it is, for a flow that does not wait for it.
LEMMA FlowGoes ==
    ASSUME IInv, NEW f \in Flows, NEW g \in FlowRecs \cup {NoFlow},
           flows' = [flows EXCEPT ![f] = g], InHand(g),
           UNCHANGED <<exchangeVars, data>>, flows[f].step # "waiting"
    PROVE  IInv' /\ AcceptedStep
<1>1. exchange' \in OrNone(Exchanges) /\ TokenOfItsPeer'
  BY DEF exchangeVars, IInv, TypedExchange, TokenOfItsPeer
<1>2. Awaited'
  BY DEF exchangeVars, IInv, TypedFlows, Awaited
<1> QED  BY <1>1, <1>2, FlowMoves DEF exchangeVars

\* Nothing happens, but for an error in the form.
LEMMA NothingMoves ==
    ASSUME IInv, UNCHANGED <<exchangeVars, data, flows>>
    PROVE  IInv' /\ AcceptedStep
BY DEF exchangeVars, IInv, TypedExchange, TypedFlows, TokenOfItsPeer, Awaited, AcceptedStep,
       InHand, Usable, CreatedEntry, Valid, Certified, TokenOnCertificate

\* A flow ends with an entry stored: a new one, or one that keeps its unit.
LEMMA EntryStored ==
    ASSUME IInv, NEW f \in Flows, flows[f].step # "waiting", NEW e \in Entries,
           NEW d \in Stored, Usable(d), TokenOnCertificate(d),
           data' = [data EXCEPT ![e] = d], flows' = [flows EXCEPT ![f] = NoFlow],
           data[e] # None => /\ d.unit = data[e].unit /\ d.host = data[e].host
                             /\ d.carrier = data[e].carrier /\ d.psk = data[e].psk,
           UNCHANGED exchangeVars
    PROVE  IInv' /\ AcceptedStep
<1>1. TypedExchange' /\ TypedFlows' /\ TokenOfItsPeer'
  BY DEF exchangeVars, IInv, TypedExchange, TypedFlows, TokenOfItsPeer, OrNone
<1>2. \A k \in Entries : data'[k] # None => TokenOnCertificate(data'[k])
  BY DEF IInv, TypedFlows
<1>3. ASSUME NEW k \in Entries, NEW h, Certified(k, h) PROVE Certified(k, h)'
  BY <1>3, CredentialsOK DEF Certified, IInv, TypedFlows
<1>4. ASSUME NEW k \in Flows PROVE InHand(flows[k])'
  <2>1. InHand(flows'[k])
    BY DEF IInv, TypedFlows, InHand, NoFlow
  <2>2. flows'[k].step # "none" /\ flows'[k].source = "reauth" => flows'[k].entry \in Entries
    BY <2>1 DEF InHand, Certified
  <2> QED  BY <1>3, <2>1, <2>2 DEF exchangeVars, InHand, Usable, CreatedEntry, Valid, TokenOnCertificate
<1>5. Awaited'
  BY DEF exchangeVars, IInv, TypedFlows, Awaited
<1>6. AcceptedStep
  BY DEF AcceptedStep, IInv, TypedFlows
<1> QED  BY <1>1, <1>2, <1>4, <1>5, <1>6 DEF IInv

LEMMA CreatedStored ==
    ASSUME NEW g \in FlowRecs, g.host \in Appliances PROVE CreatedEntry(g) \in Stored
BY DEF FlowRecs, CreatedEntry, Stored, OrNone

\* A new entry takes the place of none.
LEMMA EntryCreated ==
    ASSUME IInv, NEW f \in Flows, flows[f].step # "waiting", NEW g \in FlowRecs,
           g.host \in Appliances, Usable(CreatedEntry(g)), TokenOnCertificate(CreatedEntry(g)),
           Fresh # {}, data' = [data EXCEPT ![CHOOSE e \in Fresh : TRUE] = CreatedEntry(g)],
           flows' = [flows EXCEPT ![f] = NoFlow], UNCHANGED exchangeVars
    PROVE  IInv' /\ AcceptedStep
<1>1. PICK e \in Fresh : e = CHOOSE k \in Fresh : TRUE
  OBVIOUS
<1>2. e \in Entries /\ data[e] = None
  BY <1>1 DEF Fresh, Present
<1> QED  BY <1>1, <1>2, CreatedStored, EntryStored

LEMMA FinishProbeStep ==
    ASSUME IInv, NEW f \in Flows, flows[f].step # "waiting", NEW g \in FlowRecs,
           g.host \in Appliances, Usable(CreatedEntry(g)), TokenOnCertificate(CreatedEntry(g)),
           g.source = "reauth" => Certified(g.entry, g.host),
           FinishProbe(f, g), UNCHANGED exchangeVars
    PROVE  IInv' /\ AcceptedStep
<1>1. CASE flows' = [flows EXCEPT ![f] = NoFlow] /\ UNCHANGED data
  BY <1>1, FlowGoes DEF InHand, NoFlow
<1>2. CASE /\ Fresh # {}
           /\ data' = [data EXCEPT ![CHOOSE e \in Fresh : TRUE] = CreatedEntry(g)]
           /\ flows' = [flows EXCEPT ![f] = NoFlow]
  BY <1>2, EntryCreated
<1>3. CASE flows' = [flows EXCEPT ![f] = [g EXCEPT !.step = "confirm"]] /\ UNCHANGED data
  <2> DEFINE c == [g EXCEPT !.step = "confirm"]
  <2>1. c \in FlowRecs /\ c.step = "confirm"
    BY DEF FlowRecs, FlowSteps
  <2>2. CreatedEntry(c) = CreatedEntry(g) /\ c.source = g.source /\ c.host = g.host /\ c.entry = g.entry
    BY DEF FlowRecs, CreatedEntry
  <2>3. InHand(c)
    BY <2>1, <2>2 DEF InHand
  <2> HIDE DEF c
  <2> QED  BY <1>3, <2>1, <2>3, FlowGoes DEF c
<1> QED  BY <1>1, <1>2, <1>3 DEF FinishProbe

-----------------------------------------------------------------------------
(* The actions of the flows. *)

LEMMA InStep ==
    ASSUME IInv, NEW f \in Flows, flows[f].step # "none"
    PROVE  /\ flows[f] \in FlowRecs /\ InHand(flows[f])
           /\ flows[f].step # "user" => flows[f].host \in Appliances
           /\ flows[f].step # "confirm" => flows[f].psk = None /\ flows[f].token = None
           /\ flows[f].source = "reauth" => Certified(flows[f].entry, flows[f].host)
BY DEF IInv, InHand

\* A form is left for another one of the same flow.
LEMMA GotoStep ==
    ASSUME IInv, NEW f \in Flows, flows[f].step \notin {"none", "user", "confirm", "waiting"},
           NEW step \in {"psk", "fallback_ca", "token", "exchange"},
           step \in {"psk", "fallback_ca"} => ~kind[flows[f].host].bridge,
           Goto(f, step), UNCHANGED <<exchangeVars, data>>
    PROVE  IInv' /\ AcceptedStep
<1> DEFINE g == [flows[f] EXCEPT !.step = step, !.result = None]
<1>1. flows[f] \in FlowRecs
  BY InStep
<1>2. g \in FlowRecs
  BY <1>1 DEF FlowRecs, FlowSteps, Results, OrNone
<1>3. /\ g.step = step /\ g.host = flows[f].host /\ g.psk = flows[f].psk
      /\ g.token = flows[f].token /\ g.source = flows[f].source /\ g.entry = flows[f].entry
  BY <1>1 DEF FlowRecs
<1> HIDE DEF g
<1>4. InHand(g)
  BY <1>2, <1>3, InStep DEF InHand
<1>5. flows' = [flows EXCEPT ![f] = g]
  BY <1>1 DEF Goto, g, IInv, TypedFlows
<1> QED  BY <1>2, <1>4, <1>5, FlowGoes

LEMMA StartUserStep ==
    ASSUME IInv, NEW f \in Flows, StartUser(f) PROVE IInv' /\ AcceptedStep
<1> DEFINE g == NewFlow("user", "user")
<1>1. g \in FlowRecs /\ g.step = "user" /\ g.psk = None /\ g.token = None /\ g.source = "user"
  BY DEF NewFlow, FlowRecs, FlowSteps, Results, OrNone
<1> HIDE DEF g
<1>2. InHand(g)
  BY <1>1 DEF InHand
<1> QED  BY <1>1, <1>2, FlowGoes DEF StartUser, g

LEMMA AbandonStep ==
    ASSUME IInv, NEW f \in Flows, Abandon(f) PROVE IInv' /\ AcceptedStep
<1>1. CASE exchange # None /\ exchange.flow = f
  <2>1. exchange \in Exchanges /\ exchange' = [exchange EXCEPT !.flow = None]
    BY <1>1, NotNone DEF Abandon
  <2>2. exchange' \in Exchanges
    BY <2>1, ExchangeLoose
  <2>3. exchange'.token = exchange.token /\ exchange'.peer = exchange.peer /\ exchange'.flow = None
    BY <2>1 DEF Exchanges
  <2>4. TokenOfItsPeer' /\ Awaited'
    BY <1>1, <2>3 DEF IInv, TokenOfItsPeer, Awaited
  <2> QED  BY <2>2, <2>4, FlowMoves DEF Abandon, InHand, NoFlow, OrNone
<1>2. CASE ~(exchange # None /\ exchange.flow = f)
  <2>1. exchange' = exchange
    BY <1>2 DEF Abandon
  <2>2. exchange' \in OrNone(Exchanges) /\ TokenOfItsPeer'
    BY <2>1 DEF IInv, TypedExchange, TokenOfItsPeer
  <2>3. Awaited'
    BY <1>2, <2>1 DEF Abandon, IInv, TypedFlows, Awaited
  <2> QED  BY <2>2, <2>3, FlowMoves DEF Abandon, InHand, NoFlow
<1> QED  BY <1>1, <1>2

LEMMA ConfirmStep ==
    ASSUME IInv, NEW f \in Flows, ConfirmUnknownType(f) PROVE IInv' /\ AcceptedStep
<1>1. flows[f].step = "confirm"
  BY DEF ConfirmUnknownType
<1>2. Usable(CreatedEntry(flows[f])) /\ TokenOnCertificate(CreatedEntry(flows[f]))
  BY <1>1, InStep DEF InHand
<1> QED  BY <1>1, <1>2, InStep, EntryCreated DEF ConfirmUnknownType

LEMMA PickStep ==
    ASSUME IInv, NEW f \in Flows, Pick(f) PROVE IInv' /\ AcceptedStep
<1>1. flows[f].step = "menu" /\ ~kind[flows[f].host].bridge
  BY InStep DEF Pick, InHand
<1> QED  BY <1>1, GotoStep DEF Pick

\* What a new flow reuses is a leaf and a CA, or neither.
LEMMA ReusedTyped ==
    IInv => Reused.leaf \in OrNone(Leaves) /\ Reused.ca \in OrNone({"good", "bad"})
<1> SUFFICES ASSUME IInv
             PROVE  Reused.leaf \in OrNone(Leaves) /\ Reused.ca \in OrNone({"good", "bad"})
  OBVIOUS
<1> DEFINE certified == {e \in Present : data[e].carrier = "certificate"}
           withCa    == {e \in certified : data[e].ca # None}
           source    == CHOOSE e \in (IF withCa # {} THEN withCa ELSE certified) : TRUE
<1>1. CASE certified = {}
  BY <1>1 DEF Reused, OrNone
<1>2. CASE certified # {}
  <2>1. source \in Present
    BY <1>2
  <2>2. data[source] \in Stored
    BY <2>1 DEF Present, IInv, TypedFlows, OrNone
  <2>3. Reused = [leaf |-> data[source].leaf, ca |-> data[source].ca]
    BY <1>2 DEF Reused
  <2> QED  BY <2>2, <2>3 DEF Stored
<1> QED  BY <1>1, <1>2

LEMMA SubmitHostStep ==
    ASSUME IInv, NEW f \in Flows, NEW h \in Typed[f], SubmitHost(f, h)
    PROVE  IInv' /\ AcceptedStep
<1> DEFINE flow  == [flows[f] EXCEPT !.host = h, !.ca = Reused.ca]
           fresh == MintPreferred(Reused.ca)
           leaf  == IF Reused.leaf \in kind[h].leaves THEN Reused.leaf ELSE fresh
           token == [flow EXCEPT !.step = "token",
                                 !.leaf = IF Reused.leaf # None THEN Reused.leaf ELSE fresh]
           found == [flow EXCEPT !.leaf = leaf]
           menu  == [flow EXCEPT !.step = "menu"]
<1>1. /\ flows[f].step = "user" /\ flows[f] \in FlowRecs /\ h \in Appliances
      /\ flows[f].psk = None /\ flows[f].token = None /\ flows[f].source = "user"
  BY InStep, CredentialsOK DEF SubmitHost, InHand
<1>2. kind[h] \in Accepts
  BY <1>1 DEF IInv, TypedExchange
<1>3. fresh \in OrNone(Leaves) /\ leaf \in OrNone(Leaves)
  BY <1>2, ReusedTyped DEF MintPreferred, Leaves, OrNone, Accepts
<1>4. /\ flow \in FlowRecs /\ flow.host = h /\ flow.source = "user"
      /\ flow.psk = None /\ flow.token = None
  BY <1>1, ReusedTyped DEF FlowRecs, OrNone
<1> HIDE DEF flow, fresh, leaf
<1>5. /\ token \in FlowRecs /\ token.step = "token" /\ token.host = h /\ token.source = "user"
      /\ token.psk = None /\ token.token = None
  BY <1>3, <1>4, ReusedTyped DEF FlowRecs, FlowSteps
<1>6. /\ menu \in FlowRecs /\ menu.step = "menu" /\ menu.host = h /\ menu.source = "user"
      /\ menu.psk = None /\ menu.token = None
  BY <1>4 DEF FlowRecs, FlowSteps
<1>7. /\ found \in FlowRecs /\ found.host = h /\ found.source = "user" /\ found.leaf = leaf
      /\ found.psk = None /\ found.token = None
  BY <1>3, <1>4 DEF FlowRecs
<1> HIDE DEF token, menu, found
<1>8. CASE UNCHANGED <<flows, data>>
  BY <1>8, NothingMoves DEF SubmitHost
<1>9. CASE flows' = [flows EXCEPT ![f] = token] /\ UNCHANGED data
  <2>1. InHand(token)
    BY <1>1, <1>5 DEF InHand
  <2> QED  BY <1>1, <1>5, <1>9, <2>1, FlowGoes DEF SubmitHost
<1>10. CASE ~kind[h].bridge /\ leaf \in kind[h].leaves /\ FinishProbe(f, found)
  <2>1. Usable(CreatedEntry(found)) /\ TokenOnCertificate(CreatedEntry(found))
    BY <1>7, <1>10 DEF Usable, CreatedEntry, TokenOnCertificate
  <2> QED  BY <1>1, <1>7, <1>10, <2>1, FinishProbeStep DEF SubmitHost
<1>11. CASE ~kind[h].bridge /\ flows' = [flows EXCEPT ![f] = menu] /\ UNCHANGED data
  <2>1. InHand(menu)
    BY <1>1, <1>6, <1>11 DEF InHand
  <2> QED  BY <1>1, <1>6, <1>11, <2>1, FlowGoes DEF SubmitHost
<1> QED  BY <1>8, <1>9, <1>10, <1>11 DEF SubmitHost, flow, fresh, leaf, token, menu, found

LEMMA SubmitPskStep ==
    ASSUME IInv, NEW f \in Flows, NEW key \in {"right", "wrong"}, SubmitPsk(f, key)
    PROVE  IInv' /\ AcceptedStep
<1>1. CASE UNCHANGED <<flows, data>>
  BY <1>1, NothingMoves DEF SubmitPsk
<1>2. CASE /\ key = "right" /\ kind[flows[f].host].psk
           /\ FinishProbe(f, [flows[f] EXCEPT !.psk = key])
  <2> DEFINE g == [flows[f] EXCEPT !.psk = key]
  <2>1. /\ flows[f].step = "psk" /\ flows[f] \in FlowRecs /\ flows[f].host \in Appliances
        /\ flows[f].token = None
        /\ flows[f].source = "reauth" => Certified(flows[f].entry, flows[f].host)
    BY InStep DEF SubmitPsk
  <2>2. /\ g \in FlowRecs /\ g.host = flows[f].host /\ g.psk = "right" /\ g.token = None
        /\ g.source = flows[f].source /\ g.entry = flows[f].entry
    BY <1>2, <2>1 DEF FlowRecs, OrNone
  <2> HIDE DEF g
  <2>3. Usable(CreatedEntry(g)) /\ TokenOnCertificate(CreatedEntry(g))
    BY <1>2, <2>2, CredentialsOK DEF Usable, CreatedEntry, TokenOnCertificate
  <2>4. FinishProbe(f, g)
    BY <1>2 DEF g
  <2> QED  BY <2>1, <2>2, <2>3, <2>4, FinishProbeStep DEF SubmitPsk
<1> QED  BY <1>1, <1>2 DEF SubmitPsk

LEMMA SubmitCaStep ==
    ASSUME IInv, NEW f \in Flows, NEW ca \in {"good", "bad"}, SubmitCa(f, ca)
    PROVE  IInv' /\ AcceptedStep
<1> DEFINE flow == [flows[f] EXCEPT !.ca = ca]
           mint == [flow EXCEPT !.leaf = "signed"]
           asks == [mint EXCEPT !.certRejected = FALSE, !.step = "exchange"]
           menu == [flow EXCEPT !.step = "menu"]
<1>1. /\ flows[f].step = "fallback_ca" /\ flows[f] \in FlowRecs /\ flows[f].host \in Appliances
      /\ flows[f].token = None /\ flows[f].psk = None
      /\ flows[f].source = "reauth" => Certified(flows[f].entry, flows[f].host)
      /\ ~flows[f].certRejected => ~kind[flows[f].host].bridge
  BY InStep DEF SubmitCa, InHand
<1>2. /\ flow \in FlowRecs /\ flow.step = "fallback_ca" /\ flow.host = flows[f].host
      /\ flow.token = None /\ flow.psk = None /\ flow.source = flows[f].source
      /\ flow.entry = flows[f].entry /\ flow.certRejected = flows[f].certRejected
  BY <1>1 DEF FlowRecs, OrNone
<1> HIDE DEF flow
<1>3. /\ mint \in FlowRecs /\ mint.host = flow.host /\ mint.leaf = "signed"
      /\ mint.token = None /\ mint.psk = None /\ mint.source = flow.source
      /\ mint.entry = flow.entry
  BY <1>2 DEF FlowRecs, OrNone, Leaves
<1>4. /\ menu \in FlowRecs /\ menu.step = "menu" /\ menu.host = flow.host
      /\ menu.token = None /\ menu.psk = None /\ menu.source = flow.source
      /\ menu.entry = flow.entry
  BY <1>2 DEF FlowRecs, FlowSteps
<1> HIDE DEF mint
<1>5. /\ asks \in FlowRecs /\ asks.step = "exchange" /\ asks.host = flow.host
      /\ asks.token = None /\ asks.psk = None /\ asks.source = flow.source
      /\ asks.entry = flow.entry
  BY <1>3 DEF FlowRecs, FlowSteps
<1> HIDE DEF menu, asks
<1>6. CASE flows' = [flows EXCEPT ![f] = flow] /\ UNCHANGED data
  <2>1. InHand(flow)
    BY <1>1, <1>2 DEF InHand
  <2> QED  BY <1>1, <1>2, <1>6, <2>1, FlowGoes DEF SubmitCa
<1>7. CASE flows' = [flows EXCEPT ![f] = asks] /\ UNCHANGED data
  <2>1. InHand(asks)
    BY <1>1, <1>2, <1>5 DEF InHand
  <2> QED  BY <1>1, <1>5, <1>7, <2>1, FlowGoes DEF SubmitCa
<1>8. CASE ~flow.certRejected /\ "signed" \in kind[flow.host].leaves /\ FinishProbe(f, mint)
  <2>1. Usable(CreatedEntry(mint)) /\ TokenOnCertificate(CreatedEntry(mint))
    BY <1>1, <1>2, <1>3, <1>8 DEF Usable, CreatedEntry, TokenOnCertificate
  <2> QED  BY <1>1, <1>2, <1>3, <1>8, <2>1, FinishProbeStep DEF SubmitCa
<1>9. CASE ~flow.certRejected /\ flows' = [flows EXCEPT ![f] = menu] /\ UNCHANGED data
  <2>1. InHand(menu)
    BY <1>1, <1>2, <1>4, <1>9 DEF InHand
  <2> QED  BY <1>1, <1>4, <1>9, <2>1, FlowGoes DEF SubmitCa
<1> QED  BY <1>6, <1>7, <1>8, <1>9 DEF SubmitCa, flow, mint, asks, menu

-----------------------------------------------------------------------------
(* Device tokens. *)

LEMMA StartReauthStep ==
    ASSUME IInv, NEW f \in Flows, NEW e \in Entries, StartReauth(f, e)
    PROVE  IInv' /\ AcceptedStep
<1> DEFINE n == NewFlow("reauth", "token")
<1> DEFINE g == [n EXCEPT !.entry = e, !.host = data[e].host,
                             !.leaf = data[e].leaf, !.ca = data[e].ca]
<1>1. data[e] \in Stored /\ data[e].carrier = "certificate" /\ data[e].psk = None
  BY DEF StartReauth, Present, IInv, TypedFlows, OrNone, TokenOnCertificate
<1>2. n \in FlowRecs /\ n.step = "token" /\ n.psk = None /\ n.token = None
  BY DEF NewFlow, FlowRecs, FlowSteps, Results, OrNone
<1> HIDE DEF n
<1>3. /\ data[e].host \in Appliances /\ data[e].leaf \in OrNone(Leaves)
      /\ data[e].ca \in OrNone({"good", "bad"})
  BY <1>1 DEF Stored
<1>4. /\ g \in FlowRecs /\ g.step = "token" /\ g.psk = None /\ g.token = None
      /\ g.entry = e /\ g.host = data[e].host /\ g.host \in Appliances
  BY <1>2, <1>3 DEF FlowRecs, OrNone
<1> HIDE DEF g
<1>5. InHand(g)
  BY <1>1, <1>4 DEF InHand, Certified
<1> QED  BY <1>4, <1>5, FlowGoes DEF StartReauth, g, n

\* A token, from wherever, is tried out before it is stored.
LEMMA FinishLegacyStep ==
    ASSUME IInv, NEW f \in Flows, flows[f].step \in {"token", "received"}, NEW t \in Tokens,
           FinishLegacy(f, t), UNCHANGED exchangeVars
    PROVE  IInv' /\ AcceptedStep
<1> DEFINE flow == flows[f]
<1>1. /\ flow \in FlowRecs /\ flow.host \in Appliances /\ flow.psk = None
      /\ flow.source = "reauth" => Certified(flow.entry, flow.host)
  BY InStep
<1>2. CASE Goto(f, "token") /\ UNCHANGED data
  BY <1>2, GotoStep
<1>3. CASE /\ Valid(t, flow.host) /\ flow.leaf \in kind[flow.host].leaves
           /\ flow.source = "user" /\ FinishProbe(f, [flow EXCEPT !.token = t])
  <2> DEFINE g == [flow EXCEPT !.token = t]
  <2>1. /\ g \in FlowRecs /\ g.host = flow.host /\ g.psk = None /\ g.token = t
        /\ g.leaf = flow.leaf /\ g.source = "user"
    BY <1>1, <1>3 DEF FlowRecs, OrNone
  <2> HIDE DEF g
  <2>2. Usable(CreatedEntry(g)) /\ TokenOnCertificate(CreatedEntry(g))
    BY <1>3, <2>1 DEF Usable, CreatedEntry, TokenOnCertificate
  <2>3. FinishProbe(f, g)
    BY <1>3 DEF g
  <2> QED  BY <1>1, <2>1, <2>2, <2>3, FinishProbeStep
<1>4. CASE /\ Valid(t, flow.host) /\ flow.leaf \in kind[flow.host].leaves
           /\ flow.source = "reauth" /\ IdentityMatches(data[flow.entry], flow.host)
           /\ data' = [data EXCEPT ![flow.entry] = Reauthenticated(@, flow, t)]
           /\ flows' = [flows EXCEPT ![f] = NoFlow]
  <2> DEFINE d == Reauthenticated(data[flow.entry], flow, t)
  <2>1. /\ flow.entry \in Entries /\ data[flow.entry] \in Stored
        /\ data[flow.entry].host = flow.host /\ data[flow.entry].carrier = "certificate"
        /\ data[flow.entry].psk = None /\ data[flow.entry].unit = flow.host
    BY <1>1, <1>4 DEF Certified, IdentityMatches
  <2>2. flow.leaf \in OrNone(Leaves) /\ flow.ca \in OrNone({"good", "bad"})
    BY <1>1 DEF FlowRecs
  <2>3. /\ d \in Stored /\ d.unit = flow.host /\ d.host = flow.host /\ d.carrier = "certificate"
        /\ d.psk = None /\ d.leaf = flow.leaf /\ d.token = t
    BY <1>1, <2>1, <2>2 DEF Reauthenticated, Stored, OrNone
  <2>4. data' = [data EXCEPT ![flow.entry] = d]
    BY <1>4, <2>1
  <2> HIDE DEF d
  <2>5. Usable(d) /\ TokenOnCertificate(d)
    BY <1>4, <2>3 DEF Usable, TokenOnCertificate
  <2> QED  BY <1>4, <2>1, <2>3, <2>4, <2>5, EntryStored
<1> QED  BY <1>2, <1>3, <1>4 DEF FinishLegacy

LEMMA SubmitTokenStep ==
    ASSUME IInv, NEW f \in Flows, SubmitToken(f) PROVE IInv' /\ AcceptedStep
<1>1. CASE Goto(f, "exchange") /\ UNCHANGED data
  BY <1>1, GotoStep DEF SubmitToken
<1>2. CASE \E a \in Appliances : FinishLegacy(f, Token(a, 1))
  <2>1. PICK a \in Appliances : FinishLegacy(f, Token(a, 1))
    BY <1>2
  <2>2. Token(a, 1) \in Tokens
    BY DEF Token, Tokens
  <2> QED  BY <2>1, <2>2, FinishLegacyStep DEF SubmitToken
<1> QED  BY <1>1, <1>2 DEF SubmitToken

LEMMA StartExchangeStep ==
    ASSUME IInv, NEW f \in Flows, StartExchange(f) PROVE IInv' /\ AcceptedStep
<1>1. /\ flows[f].step = "exchange" /\ flows[f] \in FlowRecs /\ flows[f].host \in Appliances
      /\ flows[f].psk = None /\ flows[f].token = None /\ flows[f].leaf \in OrNone(Leaves)
      /\ flows[f].source = "reauth" => Certified(flows[f].entry, flows[f].host)
  BY InStep DEF StartExchange, FlowRecs
<1>2. CASE exchange # None
  <2> DEFINE g == [flows[f] EXCEPT !.step = "received", !.result = PortInUse]
  <2>1. /\ g \in FlowRecs /\ g.step = "received" /\ g.host = flows[f].host /\ g.psk = None
        /\ g.token = None /\ g.source = flows[f].source /\ g.entry = flows[f].entry
    BY <1>1 DEF FlowRecs, FlowSteps, Results, OrNone
  <2>2. flows' = [flows EXCEPT ![f] = g]
    BY <1>1, <1>2 DEF StartExchange, IInv, TypedFlows
  <2> HIDE DEF g
  <2>3. InHand(g)
    BY <1>1, <2>1 DEF InHand
  <2> QED  BY <1>1, <1>2, <2>1, <2>2, <2>3, FlowGoes DEF StartExchange, exchangeVars
<1>3. CASE exchange = None
  <2> DEFINE g == [flows[f] EXCEPT !.step = "waiting", !.result = None]
  <2>1. /\ g \in FlowRecs /\ g.step = "waiting" /\ g.host = flows[f].host /\ g.psk = None
        /\ g.token = None /\ g.source = flows[f].source /\ g.entry = flows[f].entry
    BY <1>1 DEF FlowRecs, FlowSteps, Results, OrNone
  <2>2. flows' = [flows EXCEPT ![f] = g]
    BY <1>1, <1>3 DEF StartExchange, Goto, IInv, TypedFlows
  <2> HIDE DEF g
  <2>3. InHand(g)
    BY <1>1, <2>1 DEF InHand
  <2>4. exchange' \in Exchanges /\ exchange'.flow = f /\ exchange'.token = None
    <3>1. exchange' = [flow |-> f, peer |-> flows[f].host, leaf |-> flows[f].leaf, pc |-> "ask",
                       round |-> 0, token |-> None, failed |-> FALSE, result |-> None]
      BY <1>3 DEF StartExchange, StartListener
    <3>2. None \in Results /\ None \in OrNone(Tokens) /\ f \in OrNone(Flows)
      BY DEF Results, OrNone
    <3> QED  BY <1>1, <3>1, <3>2 DEF Exchanges
  <2>5. TokenOfItsPeer' /\ Awaited'
    BY <2>1, <2>2, <2>4 DEF TokenOfItsPeer, Awaited, IInv, TypedFlows
  <2> QED  BY <1>3, <2>1, <2>2, <2>3, <2>4, <2>5, FlowMoves DEF StartExchange, OrNone
<1> QED  BY <1>2, <1>3

LEMMA EndExchangeStep ==
    ASSUME IInv, EndExchange PROVE IInv' /\ AcceptedStep
<1>1. exchange \in Exchanges /\ exchange # None /\ exchange' = None
  BY NotNone DEF EndExchange
<1>2. TokenOfItsPeer' /\ Awaited' /\ exchange' \in OrNone(Exchanges)
  BY <1>1 DEF TokenOfItsPeer, Awaited, OrNone
<1>3. CASE exchange.flow = None
  <2>1. pending' \subseteq Appliances
    BY DEF EndExchange, IInv, TypedExchange
  <2> QED  BY <1>1, <1>2, <1>3, <2>1, IssuedStays, ExchangeMoves DEF EndExchange
<1>4. CASE exchange.flow # None
  <2> DEFINE f == exchange.flow
             again == exchange.result = CertRejected /\ flows[f].ca # None /\ exchange.leaf # "identity"
             step == IF again THEN "exchange" ELSE "received"
             leaf == IF again THEN "identity" ELSE flows[f].leaf
             result == IF again THEN None ELSE exchange.result
             g == [flows[f] EXCEPT !.step = step, !.leaf = leaf, !.result = result]
  <2>1. f \in Flows /\ flows[f].step = "waiting" /\ exchange.result \in Results
    BY <1>1, <1>4 DEF Exchanges, OrNone, IInv, Awaited
  <2>2. /\ flows[f] \in FlowRecs /\ flows[f].host \in Appliances
        /\ flows[f].psk = None /\ flows[f].token = None
        /\ flows[f].source = "reauth" => Certified(flows[f].entry, flows[f].host)
    BY <2>1, InStep
  <2>3. flows' = [flows EXCEPT ![f] = g]
    BY <1>4, <2>1, <2>2 DEF EndExchange, IInv, TypedFlows
  <2>4. /\ step \in {"exchange", "received"} /\ leaf \in OrNone(Leaves) /\ result \in Results
    BY <2>1, <2>2 DEF FlowRecs, Results, OrNone, Leaves
  <2> HIDE DEF step, leaf, result
  <2>5. /\ g \in FlowRecs /\ g.step \in {"exchange", "received"} /\ g.host = flows[f].host
        /\ g.psk = None /\ g.token = None /\ g.source = flows[f].source
        /\ g.entry = flows[f].entry
    BY <2>2, <2>4 DEF FlowRecs, FlowSteps
  <2> HIDE DEF g
  <2>6. InHand(g)
    BY <2>2, <2>5 DEF InHand
  <2> QED  BY <1>2, <2>1, <2>3, <2>5, <2>6, FlowMoves DEF EndExchange
<1> QED  BY <1>3, <1>4

LEMMA TokenReceivedStep ==
    ASSUME IInv, NEW f \in Flows, TokenReceived(f) PROVE IInv' /\ AcceptedStep
<1>1. /\ flows[f].step = "received" /\ flows[f] \in FlowRecs /\ flows[f].host \in Appliances
      /\ flows[f].psk = None /\ flows[f].token = None
      /\ flows[f].source = "reauth" => Certified(flows[f].entry, flows[f].host)
  BY InStep DEF TokenReceived
<1>2. CASE Goto(f, "token") /\ UNCHANGED data
  BY <1>1, <1>2, GotoStep DEF TokenReceived
<1>3. CASE /\ flows' = [flows EXCEPT ![f].step = "fallback_ca", ![f].certRejected = TRUE]
           /\ UNCHANGED data
  <2> DEFINE g == [flows[f] EXCEPT !.step = "fallback_ca", !.certRejected = TRUE]
  <2>1. /\ g \in FlowRecs /\ g.step = "fallback_ca" /\ g.host = flows[f].host /\ g.certRejected
        /\ g.psk = None /\ g.token = None /\ g.source = flows[f].source
        /\ g.entry = flows[f].entry
    BY <1>1 DEF FlowRecs, FlowSteps
  <2>2. flows' = [flows EXCEPT ![f] = g]
    BY <1>1, <1>3 DEF IInv, TypedFlows
  <2> HIDE DEF g
  <2>3. InHand(g)
    BY <1>1, <2>1 DEF InHand
  <2> QED  BY <1>1, <1>3, <2>1, <2>2, <2>3, FlowGoes DEF TokenReceived
<1>4. CASE \E a \in Appliances : Valid(flows[f].result, a) /\ FinishLegacy(f, flows[f].result)
  <2>1. PICK a \in Appliances : Valid(flows[f].result, a) /\ FinishLegacy(f, flows[f].result)
    BY <1>4
  <2>2. flows[f].result \in Tokens
    BY <2>1 DEF Valid, Token, Tokens, IInv, TypedExchange
  <2> QED  BY <1>1, <2>1, <2>2, FinishLegacyStep DEF TokenReceived
<1> QED  BY <1>2, <1>3, <1>4 DEF TokenReceived

-----------------------------------------------------------------------------
(* The theorems. *)

LEMMA StepKeeps == IInv /\ [Next]_vars => IInv' /\ AcceptedStep
<1> SUFFICES ASSUME IInv, [Next]_vars PROVE IInv' /\ AcceptedStep
  OBVIOUS
<1>1. CASE UNCHANGED vars
  BY <1>1, NothingMoves DEF vars, exchangeVars
<1>2. CASE Job
  BY <1>2, AskStep, WaitStep, LeaveStep, EndExchangeStep DEF Job
<1>3. CASE \E a \in Appliances : Callback(a) /\ UNCHANGED <<data, flows>>
  BY <1>3, CallbackStep
<1>4. ASSUME NEW f \in Flows,
             \/ StartUser(f) \/ Abandon(f) \/ ConfirmUnknownType(f) \/ Pick(f)
             \/ SubmitToken(f) \/ StartExchange(f) \/ TokenReceived(f)
             \/ \E h \in Typed[f] : SubmitHost(f, h)
             \/ \E key \in {"right", "wrong"} : SubmitPsk(f, key)
             \/ \E ca \in {"good", "bad"} : SubmitCa(f, ca)
             \/ \E e \in Entries : StartReauth(f, e)
      PROVE  IInv' /\ AcceptedStep
  BY <1>4, StartUserStep, AbandonStep, ConfirmStep, PickStep, SubmitTokenStep, StartExchangeStep,
     TokenReceivedStep, SubmitHostStep, SubmitPskStep, SubmitCaStep, StartReauthStep
<1> QED  BY <1>1, <1>2, <1>3, <1>4 DEF Next

LEMMA InvHolds == Spec => []IInv
BY InitEstablishes, StepKeeps, PTL DEF Spec

\* The types of the flows, the entries and the exchange, whatever is typed in.
THEOREM TypeCorrect == Spec => [](TypedExchange /\ TypedFlows)
<1>1. IInv => TypedExchange /\ TypedFlows
  BY DEF IInv
<1> QED  BY <1>1, InvHolds, PTL

\* By whichever way a flow came to it, what it stores of an entry is one
\* credential, accepted as a whole by the entry's own appliance.
THEOREM StoresWhatWasAccepted == Spec => StoredAsAccepted
<1>1. IInv /\ [Next]_vars => [AcceptedStep]_vars
  BY StepKeeps
<1>2. Spec => [][AcceptedStep]_vars
  BY <1>1, InvHolds, PTL DEF Spec
<1> QED  BY <1>2 DEF StoredAsAccepted, AcceptedStep
=============================================================================
