---------------------------- MODULE TokenExchange ----------------------------
(***************************************************************************)
(* The exchange that gets a device token from an appliance of the 8888     *)
(* bridge (legacy_http_token.py): a job of the executor asks the appliance *)
(* on 8888, and the appliance posts the token to a listener here on 8889,  *)
(* which has a thread of its own.  The port is one for all exchanges, and  *)
(* a job goes on when the flow that started it is gone.                    *)
(***************************************************************************)
EXTENDS Naturals

CONSTANTS
    Appliances,
    None,
    MaxRounds,  \* rounds of one request and its wait before the deadline
    MaxTokens   \* bound: tokens an appliance issues

VARIABLES
    exchange, \* the exchange that holds the port, or None
    kind,     \* what each appliance accepts; does not change
    pending,  \* the appliances with a token request pending
    issued    \* how many tokens each appliance has issued

exchangeVars == <<exchange, kind, pending, issued>>

(* Tokens 1 to issued[a] are valid.                                        *)
Token(a, n) == <<a, n>>
Valid(token, a) == \E n \in 1..issued[a] : token = Token(a, n)

(* What an exchange ends with, other than a token.                         *)
PortInUse    == <<"port_in_use">>
CertRejected == <<"cert_rejected">>
NoToken      == <<"no_token">>

(* TokenListener.start, with the port free.                                *)
StartListener(flow, peer, leaf) ==
    exchange' = [flow |-> flow, peer |-> peer, leaf |-> leaf, pc |-> "ask", round |-> 0,
                 token |-> None, failed |-> FALSE, result |-> None]

Over == exchange.token # None \/ exchange.failed \/ exchange.round = MaxRounds

(* request_token: the answer does not say whether a token will come.  A    *)
(* request is refused while an earlier one is pending, and one under a     *)
(* certificate the appliance does not take ends the exchange.              *)
AskForToken ==
    /\ exchange # None /\ exchange.pc = "ask" /\ ~Over
    /\ \/ /\ exchange.leaf \in kind[exchange.peer].leaves
          /\ exchange' = [exchange EXCEPT !.pc = "wait"]
          /\ pending' = pending \cup {exchange.peer}
       \/ /\ exchange.leaf \notin kind[exchange.peer].leaves
          /\ exchange' = [exchange EXCEPT !.pc = "stop", !.result = CertRejected]
          /\ UNCHANGED pending
       \/ exchange' = [exchange EXCEPT !.pc = "wait"] /\ UNCHANGED pending
    /\ UNCHANGED <<kind, issued>>

(* Slip: only a token ends the waiting.                                    *)
WaitForever ==
    /\ exchange # None /\ exchange.pc = "wait"
    /\ exchange' = [exchange EXCEPT !.pc = "ask"]
    /\ UNCHANGED <<kind, pending, issued>>

(* Fifteen seconds, or until the listener has something.                   *)
WaitForCallback ==
    /\ exchange # None /\ exchange.pc = "wait"
    /\ exchange' = [exchange EXCEPT !.pc = "ask", !.round = IF Over THEN @ ELSE @ + 1]
    /\ UNCHANGED <<kind, pending, issued>>

(* The end of obtain_device_token: a refused handshake is an error, no     *)
(* token is not.                                                           *)
LeaveLoop ==
    /\ exchange # None /\ exchange.pc = "ask" /\ Over
    /\ exchange' = [exchange EXCEPT !.pc = "stop",
                        !.result = IF @ # None THEN @
                                   ELSE IF exchange.token # None THEN exchange.token
                                   ELSE IF exchange.failed THEN CertRejected ELSE NoToken]
    /\ UNCHANGED <<kind, pending, issued>>

(* _serve: a callback from the appliance's own address, while no token is  *)
(* in.                                                                     *)
Listens(a) == exchange.peer = a /\ exchange.token = None

(* The appliance calls back, or gives up.  The listener takes the token,   *)
(* unless the handshake fails: over the certificate, or otherwise.         *)
Callback(a) ==
    /\ a \in pending
    /\ pending' = pending \ {a}
    /\ \/ UNCHANGED <<exchange, issued>>
       \/ /\ exchange # None /\ Listens(a)
          /\ \/ /\ exchange.leaf \in kind[a].callback /\ issued[a] < MaxTokens
                /\ issued' = [issued EXCEPT ![a] = @ + 1]
                /\ exchange' = [exchange EXCEPT !.token = Token(a, issued[a] + 1)]
             \/ exchange' = [exchange EXCEPT !.failed = TRUE] /\ UNCHANGED issued
    /\ UNCHANGED kind
=============================================================================
