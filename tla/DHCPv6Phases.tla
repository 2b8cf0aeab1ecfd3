---------------------------- MODULE DHCPv6Phases ----------------------------
(***************************************************************************)
(* What the DHCPv6 client promises about the order of its states and the  *)
(* lease it acts on: the transition table of the client's design (states *)
(* of section 4.1, the wake rules of 4.6 and the public operations of     *)
(* section 6), with no timers, messages or addresses.                     *)
(*                                                                         *)
(*   phase   the client's state                                            *)
(*   mode    Idle, Stateful or Stateless                                   *)
(*   leased  the client holds a lease that is valid now (4.4)              *)
(*                                                                         *)
(* Each action is one rule of the design.  A step of the implementation   *)
(* that runs several handlers on the run loop (Request reply -> Bound ->  *)
(* Decline, Renew reply -> Bound -> Unbound -> Solicit) is one step here. *)
(* Time may end a lease (or, with the clock set back and then forward,   *)
(* make it valid again) in any phase; a step that changes the phase says *)
(* what becomes of the lease.                                              *)
(***************************************************************************)

VARIABLES phase, mode, leased

vars == <<phase, mode, leased>>

Stateful == {"Solicit", "Request", "Bound", "Renew", "Rebind", "Confirm",
             "Decline"}
Leased == {"Bound", "Renew", "Rebind"}
Phases == Stateful \cup {"Inactive", "Inform", "InformComplete", "Released"}

Init == phase = "Inactive" /\ mode = "Idle" /\ ~leased

\* A change of phase within the current mode.  Entering Solicit (and
\* Request, chosen from a fresh Solicit), Inform or InformComplete starts
\* from no lease; entering Confirm or Bound requires a lease valid then.
Move(from, to) ==
    /\ phase \in from /\ phase' \in to /\ UNCHANGED mode
    /\ phase' \in {"Solicit", "Request", "Inform", "InformComplete"} => ~leased'
    /\ phase' \in {"Confirm", "Bound"} => leased'

\* start(allocate): Solicit, or Confirm when the lease survives; start
\* without allocate: Inform.
Start ==
    /\ phase # "Released"
    /\ \/ phase' = "Solicit" /\ mode' = "Stateful" /\ ~leased'
       \/ phase' = "Confirm" /\ mode' = "Stateful" /\ leased'
       \/ phase' = "Inform" /\ mode' = "Stateless" /\ ~leased'

\* stop() leaves Inactive and Idle from anywhere, keeping the lease only
\* when the information is not discarded; release() destroys the client.
Stop ==
    /\ phase # "Released" /\ phase' = "Inactive" /\ mode' = "Idle"
    /\ leased' \in {leased, FALSE}
Release ==
    /\ phase # "Released" /\ phase' = "Released"
    /\ UNCHANGED mode /\ ~leased'

\* A retransmission finds the interface down: the client goes Inactive
\* but keeps its mode (the design states it for Solicit; Confirm and
\* Inform retransmit on the same rule).
LinkDown == Move({"Solicit", "Confirm", "Inform"}, {"Inactive"}) /\ ~leased'

\* Solicit: an ADVERTISE is chosen.  Request: retries exhausted or
\* NotOnLink restart Solicit.
SolicitStep == Move({"Solicit"}, {"Request"})
RequestFailed == Move({"Request"}, {"Solicit"})

\* A REPLY (or Confirm giving up with a valid lease) commits the lease in
\* Bound; committing may find the address already duplicated (Decline) or
\* the lease already over (Unbound, which re-Solicits).
Commit == Move({"Request", "Renew", "Rebind", "Confirm"},
               {"Bound", "Decline", "Solicit"})

\* Bound: T1 starts Renew, which may already be past T2 (Rebind); a
\* DUPLICATED address starts Decline; an address that became usable with
\* the lease over is dropped (Unbound).
BoundStep ==
    /\ Move({"Bound"}, {"Renew", "Rebind", "Decline", "Solicit"})
    /\ phase' \in {"Renew", "Rebind"} => UNCHANGED leased

\* Renew reaches T2; a failed Renew, Rebind or Confirm drops the lease.
RenewToRebind == Move({"Renew"}, {"Rebind"}) /\ UNCHANGED leased
LeaseLost == Move({"Renew", "Rebind", "Confirm"}, {"Solicit"})

\* Decline ends in Solicit; Inform ends in InformComplete.
DeclineDone == Move({"Decline"}, {"Solicit"})
InformDone == Move({"Inform"}, {"InformComplete"})

\* Link events, renew requests and BSSID changes confirm a held lease.
Reconfirm == Move(Leased, {"Confirm"})

\* Wake (4.6): a changed network re-Solicits, an invalid lease goes
\* Unbound, a state outside Bound/Renew/Rebind confirms a valid lease, and
\* a due renewal of a valid lease starts Renew (or Rebind past T2).
Wake ==
    \/ Move(Stateful, {"Solicit", "Confirm"})
    \/ Move(Leased, {"Renew", "Rebind"}) /\ leased'

\* Time passes: the lease may run out, or come back when the clock that
\* was set back catches up again.
LeaseTime == UNCHANGED <<phase, mode>> /\ leased' # leased

Next ==
    \/ Start \/ Stop \/ Release \/ LinkDown
    \/ SolicitStep \/ RequestFailed \/ Commit \/ BoundStep
    \/ RenewToRebind \/ LeaseLost \/ DeclineDone \/ InformDone
    \/ Reconfirm \/ Wake \/ LeaseTime

Spec == Init /\ [][Next]_vars
=============================================================================
