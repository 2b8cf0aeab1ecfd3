------------------------- MODULE MC_DHCPv6Client -------------------------
(***************************************************************************)
(* Model values and message sets for checking DHCPv6Client with TLC.       *)
(* Two servers, each offering one address.  s1 offers a finite lease       *)
(* whose T1/T2 come from the preferred lifetime; s2 sends preference 255,  *)
(* on which the client requests at once, and hands out an infinite lease;  *)
(* a third REPLY carries an IA_NA that failed with NotOnLink and no        *)
(* address.                                                                *)
(***************************************************************************)
EXTENDS DHCPv6Client

CONSTANTS s1, s2, a1, a2

FiniteIA(a) == [code |-> "Success", addr |-> a, t1 |-> 0, t2 |-> 0,
                pl |-> 3, vl |-> 4]
InfiniteIA(a) == [code |-> "Success", addr |-> a, t1 |-> 0, t2 |-> 0,
                  pl |-> INFINITE, vl |-> INFINITE]
NotOnLinkIA == [code |-> "NotOnLink", addr |-> NoAddr, t1 |-> 0, t2 |-> 0,
                pl |-> 0, vl |-> 0]

Msg(type, srv, pref, ia) ==
    [type |-> type, server |-> srv, pref |-> pref, status |-> "Success", ia |-> ia]

MCAdvertises == {Msg("ADVERTISE", s1, 0, FiniteIA(a1)),
                 Msg("ADVERTISE", s2, 255, InfiniteIA(a2))}
MCReplies == {Msg("REPLY", s1, 0, FiniteIA(a1)),
              Msg("REPLY", s2, 0, InfiniteIA(a2)),
              Msg("REPLY", s1, 0, NotOnLinkIA)}

\* One server with a finite lease, for the liveness runs.
OneAdvertise == {Msg("ADVERTISE", s1, 0, FiniteIA(a1))}
OneServerReplies == {Msg("REPLY", s1, 0, FiniteIA(a1)),
                     Msg("REPLY", s1, 0, NotOnLinkIA)}

\* Both leases without the NotOnLink REPLY, for the sleep and clock run.
TwoLeaseReplies == {Msg("REPLY", s1, 0, FiniteIA(a1)),
                    Msg("REPLY", s2, 0, InfiniteIA(a2))}

\* Refinement mapping to the design's transition table: the abstract
\* phase is the client's state and its mode the client's mode; a client
\* freed by DHCPv6ClientRelease is Released.  The lease is held when
\* DHCPv6ClientLeaseStillValid would answer true now.
PhaseOf == IF s.proc = "Released" THEN "Released" ELSE s.cstate

Phases == INSTANCE DHCPv6Phases
            WITH phase <- PhaseOf, mode <- s.mode, leased <- LeaseIsValid(s)

\* Every step of the client (each handler, with the handlers it calls on
\* the run loop) is a transition the design allows, or leaves the state.
PhasesRefined == Phases!Spec
==========================================================================
