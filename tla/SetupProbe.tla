------------------------------ MODULE SetupProbe ------------------------------
(***************************************************************************)
(* The probe a setup form runs (config_flow.py): look at the host, mint or *)
(* reuse a credential, handshake each candidate port in turn, and turn     *)
(* "no port worked" into what can honestly be said of it.                  *)
(*                                                                         *)
(* Appliances of this family never prune their peer table, so how many     *)
(* handshakes are left half open matters; and a diagnosis of our own       *)
(* making (a refusal of every new peer) must not read as a refusal of the  *)
(* credential, as the user is then sent to find another one.               *)
(*                                                                         *)
(* Beside what HostProbe names, a host has the credentials it `accepts`,   *)
(* the `refusal` it alerts another with, `full` when its peer table takes  *)
(* no new peer, `usable` when it serves resources we understand, and       *)
(* `proves` when an authenticated /oic/d gives a di.                       *)
(***************************************************************************)
EXTENDS HostProbe

CONSTANTS
    Hosts,   \* the hosts an address may lead to
    Jobs     \* what a form may ask: [psk, ca, leaf, fixed, bindable]

ProbeOK ==
    /\ PortsOK
    /\ \A h \in Hosts : h.responders \in Seq({h.responders[i] : i \in DOMAIN h.responders})
    /\ None \notin {"cert", "psk", "reused", "device", "cert_rejected", "psk_rejected"}

VARIABLES
    host,       \* what is at the address
    job,        \* what the form asked
    pc,         \* where the job is
    scan,       \* what look() returned
    credential, \* the credential offered: "reused", "self", "ca" or "psk"
    reminted,   \* a refused reused leaf has been replaced
    todo,       \* the candidate ports still to try, this pass
    retried,    \* the first of them has been retried
    failures,   \* [port, exc] of the ports given up on, this pass
    alert,      \* what the diagnostic handshake of this pass drew
    orphans,    \* half-open peers left on the appliance, by source port
    result      \* the error key or outcome the form gets

facts == <<host, job>>
vars  == <<host, job, pc, scan, credential, reminted, todo, retried, failures, alert, orphans, result>>

Init ==
    /\ host \in Hosts /\ job \in Jobs
    /\ pc = "look" /\ scan = Scan0
    /\ credential = None /\ reminted = FALSE
    /\ todo = <<>> /\ retried = FALSE /\ failures = <<>> /\ alert = None
    /\ orphans = [fixed |-> 0, ephemeral |-> 0]
    /\ result = None

Done(r) == pc' = "done" /\ result' = r

(* _stack_failure: a stack that is no appliance says nothing about us.     *)
StackFailure(key) == IF scan.typeless THEN "non_appliance_stack" ELSE key

(* _mint_preferred.                                                        *)
Minted == IF job.ca THEN "ca" ELSE "self"

(* A leaf of another entry is reused, unless it is the 8888 identity.      *)
LookAtHost ==
    /\ pc = "look"
    /\ scan' = Look(host)
    /\ IF ~job.psk /\ scan'.legacy /\ scan'.candidates = <<>>
       THEN Done("legacy_http") /\ UNCHANGED credential
       ELSE /\ UNCHANGED result
            /\ IF job.psk THEN credential' = "psk" /\ pc' = "dial"
               ELSE IF job.leaf = "minted" THEN credential' = "reused" /\ pc' = "dial"
               ELSE pc' = "mint" /\ UNCHANGED credential
    /\ UNCHANGED <<facts, reminted, todo, retried, failures, alert, orphans>>

(* _mint_for_current_uuid: the fetch, the CA or the signing may fail.      *)
Mint ==
    /\ pc = "mint"
    /\ \/ /\ credential' = Minted /\ pc' = "dial" /\ UNCHANGED result
       \/ /\ \E key \in {"cloud_unreachable", "cannot_connect"}
                        \cup (IF job.ca THEN {"invalid_ca"} ELSE {}) : Done(key)
          /\ UNCHANGED credential
    /\ UNCHANGED <<facts, scan, reminted, todo, retried, failures, alert, orphans>>

(* _handshake_and_read, before its loop.                                   *)
Dial ==
    /\ pc = "dial"
    /\ IF scan.appliances > 1
       THEN Done("multiple_appliances") /\ UNCHANGED <<todo, retried, failures, alert>>
       ELSE /\ todo' = scan.candidates
            /\ retried' = FALSE /\ failures' = <<>> /\ alert' = None
            /\ pc' = "try" /\ UNCHANGED result
    /\ UNCHANGED <<facts, scan, credential, reminted, orphans>>

Source == IF job.fixed /\ job.bindable THEN "fixed" ELSE "ephemeral"

(* How a handshake can end: a full appliance stays silent, one that does   *)
(* not accept the credential alerts or goes silent, any may be slow, or    *)
(* start a handshake of its own.                                           *)
Outcomes(port) ==
    IF host.full THEN {"timeout"}
    ELSE IF port \notin host.hello THEN {"timeout", "error"}
    ELSE IF credential \in host.accepts
    THEN {"read", "timeout", "peer"}
    ELSE {"alerted", "timeout"}

(* A peer left half open: a ClientHello from the fixed port replaces the   *)
(* one it left before.                                                     *)
LeavesPeer(source) ==
    orphans' = [orphans EXCEPT ![source] = IF source = "fixed" THEN 1 ELSE @ + 1]

WorthRetrying(exc, port) ==
    \/ exc = "peer"
    \/ exc = "timeout" /\ port \in ToSet(scan.confirmed) /\ Source = "fixed"

ReadDevice(port) ==
    IF ~host.usable THEN StackFailure("unexpected_response")
    ELSE IF job.psk /\ ~host.proves THEN "identity_unproven"
    ELSE "device"

(* One retry of a port, if its failure is worth it.                        *)
RetryOnce(exc, port) == ~retried /\ WorthRetrying(exc, port)

TryPort ==
    /\ pc = "try" /\ todo # <<>>
    /\ \E outcome \in Outcomes(Head(todo)) :
        \/ /\ outcome = "read"
           /\ Done(ReadDevice(Head(todo)))
           /\ orphans' = orphans
           /\ UNCHANGED <<todo, retried, failures>>
        \/ /\ outcome # "read"
           /\ LeavesPeer(Source)
           /\ IF RetryOnce(outcome, Head(todo))
              THEN retried' = TRUE /\ UNCHANGED <<todo, failures>>
              ELSE /\ failures' = Append(failures, [port |-> Head(todo), exc |-> outcome])
                   /\ todo' = Tail(todo) /\ retried' = FALSE
           /\ UNCHANGED <<pc, result>>
    /\ UNCHANGED <<facts, scan, credential, reminted, alert>>

(* _diagnostic_alert: what one more handshake draws from the appliance.  A *)
(* full one refuses the bare ClientHello, before it saw a credential; an   *)
(* ordinary close is a warning.                                            *)
Drawn(port) ==
    IF port \notin host.hello THEN {[name |-> None]}
    ELSE IF host.full THEN {[name |-> "cert", level |-> 2, sent |-> FALSE]}
    ELSE IF credential \in host.accepts
    THEN {[name |-> None], [name |-> "close_notify", level |-> 1, sent |-> TRUE]}
    ELSE {[name |-> None], [name |-> host.refusal, level |-> 2, sent |-> TRUE]}

(* Slip: a bare alert is believed whatever the failure was.                *)
BelieveAnyAlert(exc, drawn) ==
    IF drawn.name = None THEN None ELSE IF drawn.level = 2 THEN drawn.name ELSE None

(* _resolve_alert: fatal, and not a bare one after a timeout.              *)
ResolveAlert(exc, drawn) ==
    IF drawn.name = None THEN None
    ELSE IF exc = "timeout" /\ ~drawn.sent THEN None
    ELSE IF drawn.level = 2 THEN drawn.name ELSE None

(* _diagnose_failures: one diagnostic handshake, on a confirmed port that  *)
(* failed if there is one; by_port keeps the last failure of a port.       *)
DiagnosedPort ==
    LET failed(p) == \E i \in DOMAIN failures : failures[i].port = p
        confirmed == First(scan.confirmed, failed)
    IN IF confirmed # None THEN confirmed ELSE failures[1].port

ExcOf(port) == failures[CHOOSE i \in DOMAIN failures : failures[i].port = port].exc

Diagnose ==
    /\ pc = "try" /\ todo = <<>>
    /\ pc' = "classify"
    /\ IF failures = <<>> THEN UNCHANGED <<alert, orphans>>
       ELSE /\ \E drawn \in Drawn(DiagnosedPort) :
                   alert' = ResolveAlert(ExcOf(DiagnosedPort), drawn)
            /\ LeavesPeer("ephemeral")
    /\ UNCHANGED <<facts, scan, credential, reminted, todo, retried, failures, result>>

(* _classify_handshake_failure: the most specific thing the evidence says. *)
SweepFailure ==
    LET live        == SweepLive(host)
        unreachable == \E p \in ToSet(PortRange) : host.sweep[p] = "unreachable"
        refused     == \E p \in ToSet(PortRange) : host.sweep[p] = "refused"
    IN IF ~scan.swept THEN "cannot_connect"
       ELSE IF unreachable /\ ~refused THEN "no_response"
       ELSE IF live = {} THEN "ports_closed"
       ELSE IF live = ToSet(PortRange) THEN "no_response"
       ELSE "no_dtls_server"

ClassifyHandshakeFailure ==
    IF job.psk /\ alert = "psk" THEN "psk_rejected"
    ELSE IF alert = "cert" THEN "cert_rejected"
    ELSE IF alert # None THEN "handshake_failed"
    ELSE IF scan.confirmed # <<>> THEN "handshake_timeout"
    ELSE IF scan.plaintext # None \/ scan.advertised # <<>> THEN "appliance_no_dtls"
    ELSE SweepFailure

(* The failure, or a second pass with a fresh leaf where a reused one was  *)
(* refused.                                                                *)
Classify ==
    /\ pc = "classify"
    /\ LET failure == StackFailure(ClassifyHandshakeFailure)
       IN IF failure = "cert_rejected" /\ credential = "reused"
          THEN pc' = "mint" /\ reminted' = TRUE /\ UNCHANGED result
          ELSE Done(failure) /\ UNCHANGED reminted
    /\ UNCHANGED <<facts, scan, credential, todo, retried, failures, alert, orphans>>

Next == LookAtHost \/ Mint \/ Dial \/ TryPort \/ Diagnose \/ Classify

Spec == Init /\ [][Next]_vars

-----------------------------------------------------------------------------
(* What holds. *)

\* The user is sent to find another credential only by an appliance that
\* refused the very one it was last offered, and never a reused one: not by
\* one whose peer table is full, not by a slow handshake, not by another
\* stack at the address (issue #504, #540).
RejectionIsReal ==
    result \in {"cert_rejected", "psk_rejected"} =>
        /\ credential \notin host.accepts \cup {"reused"}
        /\ ~host.full /\ ~scan.typeless

\* From the fixed source port a setup attempt leaves one half-open peer for
\* its own handshakes, however many ports and retries, and one per pass for
\* the diagnosis: attempts do not pile up on an appliance that never prunes
\* its peers (issue #504).
PeersDoNotPileUp ==
    job.fixed /\ job.bindable => orphans.ephemeral <= (IF reminted THEN 2 ELSE 1)

\* Two appliances answer behind another stack.
Ambiguous ==
    /\ host.types = "other"
    /\ \E i, j \in DOMAIN host.responders :
        /\ i # j
        /\ \A k \in {i, j} : host.responders[k].types = "appliance" /\ host.responders[k].ports # <<>>

\* No peer is left then, and no device returned: it cannot be told which is
\* meant, and the other would keep the half-open peer for good.
AmbiguousNotDialled ==
    Ambiguous => result # "device" /\ orphans = [fixed |-> 0, ephemeral |-> 0]

\* A probe sends the user for other credentials only if the appliance refused
\* the one it was offered, leaves no more half-open peers than one of each
\* pass, and dials nothing where it cannot tell which appliance is meant.
ProbeHarmsNothing == RejectionIsReal /\ PeersDoNotPileUp /\ AmbiguousNotDialled

=============================================================================
