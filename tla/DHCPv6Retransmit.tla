--------------------------- MODULE DHCPv6Retransmit ---------------------------
(***************************************************************************)
(* The retransmission timer of one DHCPv6 client: client->try and          *)
(* client->retransmit_time, reset by DHCPv6ClientClearRetransmit when an   *)
(* exchange starts and advanced by DHCPv6ClientNextRetransmit on every     *)
(* transmission, with DHCPv6InitialTimeout and DHCPv6SubsequentTimeout     *)
(* computing the randomised exponential backoff.                           *)
(*                                                                         *)
(* Times are integers in microseconds.  DHCPv6_RAND() is uniform over      *)
(* [-0.1, 0.1]; it is drawn from its two ends and its middle, in tenths.   *)
(* Every bound checked here is linear in each draw, so these three cover   *)
(* the interval.  A value after k transmissions is a multiple of           *)
(* 10^(6-k) microseconds, so with at most 6 tries the arithmetic is exact. *)
(***************************************************************************)
EXTENDS Integers

CONSTANTS
    MaxTry      \* transmissions explored per exchange (at most 6)

Unit == 1000000

\* DHCPv6_RAND() (random_double_in_range(-0.1, 0.1)), in tenths.
RAND == {-1, 0, 1}

\* x + DHCPv6_RAND() * x.
Jitter(x, u) == x + (u * x) \div 10

\* The IRT and MRT, in seconds, each exchange passes to NextRetransmit
\* (RFC 3315 section 5.5 values; Decline passes MRT 0, no maximum).
Timing == [Solicit |-> [irt |-> 1, mrt |-> 120],
           Request |-> [irt |-> 1, mrt |-> 30],
           Renew   |-> [irt |-> 10, mrt |-> 600],
           Rebind  |-> [irt |-> 10, mrt |-> 600],
           Confirm |-> [irt |-> 1, mrt |-> 4],
           Decline |-> [irt |-> 1, mrt |-> 0],
           Inform  |-> [irt |-> 1, mrt |-> 120]]

VARIABLES
    exchange,         \* the state whose start last cleared the counter
    try,              \* client->try
    retransmit_time   \* client->retransmit_time

rvars == <<exchange, try, retransmit_time>>

\* DHCPv6ClientCreate zeroes the client.
RInit == exchange = "None" /\ try = 0 /\ retransmit_time = 0

\* DHCPv6InitialTimeout.
InitialTimeout(irt, u) == Jitter(irt, u)

\* DHCPv6SubsequentTimeout: double the previous timeout, with jitter; past
\* a non-zero MRT, MRT with jitter instead.  u and v are its two draws.
\* Mutant: the MRT != 0 test is dropped, so MRT 0 caps every timeout at 0.
SubsequentTimeout_NoZeroTest(prev, mrt, u, v) ==
    LET rt == 2 * prev + (u * prev) \div 10
    IN  IF rt > mrt THEN Jitter(mrt, v) ELSE rt

\* Mutant: the previous timeout is not doubled.
SubsequentTimeout_NoDouble(prev, mrt, u, v) ==
    LET rt == prev + (u * prev) \div 10
    IN  IF mrt # 0 /\ rt > mrt THEN Jitter(mrt, v) ELSE rt

SubsequentTimeout(prev, mrt, u, v) ==
    LET rt == 2 * prev + (u * prev) \div 10
    IN  IF mrt # 0 /\ rt > mrt THEN Jitter(mrt, v) ELSE rt

\* DHCPv6ClientClearRetransmit, as the start of exchange x calls it.
ClearRetransmit(x) ==
    /\ exchange' = x /\ try' = 0
    /\ UNCHANGED retransmit_time

\* DHCPv6ClientNextRetransmit(client, IRT, MRT) of the current exchange.
NextRetransmit ==
    /\ exchange # "None" /\ try < MaxTry
    /\ \E u, v \in RAND :
         LET t == Timing[exchange]
         IN  /\ try' = try + 1
             /\ retransmit_time' =
                  IF try + 1 = 1 THEN InitialTimeout(t.irt * Unit, u)
                  ELSE SubsequentTimeout(retransmit_time, t.mrt * Unit, u, v)
    /\ UNCHANGED exchange

RNext == (\E x \in DOMAIN Timing : ClearRetransmit(x)) \/ NextRetransmit

RSpec == RInit /\ [][RNext]_rvars

-----------------------------------------------------------------------------
\* Every timeout of an exchange lies between 0.9 IRT and, when the exchange
\* has a maximum, 1.1 MRT: never zero (a retransmission storm), however
\* many tries, and whatever the previous exchange left in retransmit_time.
RetransmitWithinLimits ==
    try >= 1 =>
        LET t == Timing[exchange]
        IN  /\ retransmit_time >= Jitter(t.irt * Unit, -1)
            /\ t.mrt # 0 => retransmit_time <= Jitter(t.mrt * Unit, 1)

\* Backoff: within one exchange each retransmission waits at least 1.9
\* times as long as the one before, until the wait has reached the
\* exchange's maximum, after which it stays at 0.9 MRT or more.
BackoffGrows ==
    [][try' = try + 1 /\ try >= 1 /\ exchange' = exchange =>
         LET mrt == Timing[exchange].mrt * Unit
         IN  \/ retransmit_time' >= 2 * retransmit_time - retransmit_time \div 10
             \/ mrt # 0 /\ retransmit_time' >= Jitter(mrt, -1)]_rvars
=============================================================================
