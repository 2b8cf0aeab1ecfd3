------------------------- MODULE MC_DHCPv6Transmit -------------------------
(***************************************************************************)
(* The transmit path of a client together with the process-wide options:  *)
(* every timeout handler of an exchange calls DHCPv6ClientNextRetransmit  *)
(* for its timer and then DHCPv6ClientSendPacket, whose MakePacket writes *)
(* the current ORO; the service may install a new requested-options list  *)
(* between any two steps, and each exchange start clears the counter.     *)
(***************************************************************************)
EXTENDS DHCPv6RequestedOptions, DHCPv6Retransmit

\* Every code up to RECONF_ACCEPT's neighbours and the captive-portal code,
\* so codes in neither list (0, 10, 21, 22, 25) are asked about as well.
MCOptions == (0..25) \cup {CAPTIVE_PORTAL_URL}

\* The service's arrays: every list of at most two codes from a SIP code
\* (21) and a static DNS code (23), and longer ones of three and four
\* codes (the last one longer than the ORO holds).
MCLists == UNION {[1..n -> {21, 23}] : n \in 0..2}
             \cup {<<22, 23, 24>>, <<21, 22, 23, 24>>}

allvars == <<vars, rvars>>

TInit == Init /\ RInit

\* A timeout of the current exchange: the next timer, then the packet.
Transmit == NextRetransmit /\ MakePacket

TNext ==
    \/ \E arg \in Calls : SetRequestedOptions(arg) /\ UNCHANGED rvars
    \/ \E x \in DOMAIN Timing : ClearRetransmit(x) /\ UNCHANGED vars
    \/ Transmit

TSpec == TInit /\ [][TNext]_allvars
=============================================================================
