---------------------------- MODULE DHCPv6Client ----------------------------
(***************************************************************************)
(* The per-interface DHCPv6 client of IPConfiguration.bproj/DHCPv6Client.c *)
(* together with the parts of its world it touches: the kernel IPv6       *)
(* address table of the interface, the servers answering its messages and *)
(* the service that starts, stops, wakes and notifies it.                 *)
(*                                                                         *)
(* Everything runs on one run loop, so each handler of the C code (timer  *)
(* callout, socket receive callback, HandleEvent, Start/Stop/Release) is  *)
(* ONE atomic step here.  A handler is written as an operator from the    *)
(* state record `s' to the record it leaves behind, so that the C code's  *)
(* sequential calls (Unbound -> Solicit start, Request -> Bound -> ...)    *)
(* compose as in the source.  Fields of `s' carry the names of the fields *)
(* of struct DHCPv6Client.                                                 *)
(*                                                                         *)
(* Time.  All wall-clock quantities are kept relative to "now":           *)
(*   s.start      = now - client->start_time                               *)
(*   s.lease_age  = now - client->lease.start                              *)
(*   s.rr         = client->renew_rebind_time - now (floored at 0)        *)
(* Tick advances the clock by one unit; ClockBack steps the wall clock    *)
(* back (timers, which count monotonic time, are unaffected); SleepWake   *)
(* advances the wall clock while timers stand still.  Ages are capped at  *)
(* values beyond every threshold they are compared with.                  *)
(***************************************************************************)
EXTENDS Integers, FiniteSets

CONSTANTS
    Servers,        \* DHCPv6 servers on the link (model values)
    Addrs,          \* IPv6 addresses servers may hand out (model values)
    NoAddr,         \* the unspecified address ::
    SSIDs,          \* Wi-Fi network names, NoSSID included
    NoSSID,         \* no SSID (wired, or not associated)
    IfType,         \* "wired", "wireless" or "cellular"
    INFINITE,       \* DHCP_INFINITE_LEASE (0xffffffff), larger than every age
    Advertises,     \* ADVERTISE messages servers may send
    Replies,        \* REPLY messages servers may send
    ReqMaxRC,       \* DHCPv6_REQ_MAX_RC
    DecMaxRC,       \* DHCPv6_DEC_MAX_RC
    CnfMaxRD,       \* DHCPv6_CNF_MAX_RD, in ticks
    MaxDelay,       \* bound of the initial random delays (SOL/CNF/INF_MAX_DELAY)
    MaxRT,          \* bound of a retransmission wait, in ticks
    BoundRetry,     \* the "wakeup in 10 seconds" of Bound, in ticks
    WakeSkew,       \* G_wake_skew_secs, in ticks
    MaxSleep,       \* longest sleep between two wakes, in ticks
    ElapsedCap,     \* ticks after which ELAPSED_TIME saturates at 0xffff
    AgeCap,         \* cap of the age fields: beyond every lifetime compared
    MaxLife,        \* largest finite lifetime a server hands out
    NetCap,         \* most server messages in flight at once
    MaxEnv,         \* bound on environment events (start, stop, sleep, ...)
    EnvEvents,      \* the kinds of environment event a run explores
    StartModes,     \* allocate_address values the service starts with
    KernelOutcomes  \* outcomes of a step's kernel address calls: "ok", or
                    \* the call that failed ("socket", "difaddr", "aifaddr")

States == {"Inactive", "Solicit", "Request", "Bound", "Renew", "Rebind",
           "Confirm", "Release", "Unbound", "Decline", "Inform",
           "InformComplete"}
Modes == {"Idle", "Stateless", "Stateful"}
\* The handler functions a timer or the socket receive can call back.
Handlers == {"Solicit", "Request", "RenewRebind", "Confirm", "Decline",
             "Inform"}
Flags == {"none", "tentative", "ok", "duplicated"}
StatusCodes == {"Success", "NoAddrsAvail", "NotOnLink"}
ClientMsgs == {"SOLICIT", "REQUEST", "CONFIRM", "RENEW", "REBIND",
               "RELEASE", "DECLINE", "INFORMATION_REQUEST"}
Lifetime == 0..MaxLife \cup {INFINITE}

\* An IA_NA as a server sends it: IA-level status, the address of its
\* IAADDR (NoAddr when it carries none) and the raw T1, T2, preferred and
\* valid lifetimes.
IA == [code : StatusCodes, addr : Addrs \cup {NoAddr},
       t1 : Lifetime, t2 : Lifetime, pl : Lifetime, vl : Lifetime]
Message == [type : {"ADVERTISE", "REPLY"}, server : Servers, pref : 0..255,
            status : StatusCodes, ia : IA]

NoTimer == [fn |-> "None", ev |-> "None", left |-> 0]
NoPacket == [kind |-> "None", server |-> "None", pref |-> 0, addr |-> NoAddr]
NoLease == [valid |-> FALSE, t1 |-> 0, t2 |-> 0, preferred |-> 0,
            valid_lifetime |-> 0, ssid |-> NoSSID]
NoSent == [type |-> "None", elapsed |-> 0, first |-> FALSE]
NoKernelAddr == [flag |-> "none", left |-> 0]

MinOf(a, b) == IF a < b THEN a ELSE b
MaxOf(a, b) == IF a < b THEN b ELSE a
CapAge(n) == MinOf(n, AgeCap)

\* The wall clock moves back by at most Slack over a run, so a time that
\* is Slack beyond every threshold it is compared with behaves like any
\* larger one, and a renew/rebind time Slack in the past like any older.
Slack == IF "clock" \in EnvEvents THEN MaxEnv * MaxSleep ELSE 0
StartCap == MaxOf(ElapsedCap, CnfMaxRD) + Slack
CapStart(n) == MinOf(n, StartCap)

ASSUME /\ AgeCap >= MaxLife + Slack /\ AgeCap >= StartCap
       /\ INFINITE > AgeCap + MaxLife

VARIABLES
    s,        \* the client and the kernel/network state its handlers touch
    link,     \* link status of the interface: TRUE = active
    ssid,     \* SSID the interface is currently associated with
    budget,   \* environment events still allowed
    info      \* what the notification callback last read with GetInfo

vars == <<s, link, ssid, budget, info>>

-----------------------------------------------------------------------------
(* Primitive operations on the client (one C helper each).               *)

\* The ghost adv is only of interest in Solicit and Request.
SetState(c, st) ==
    [c EXCEPT !.cstate = st,
              !.adv = IF st \in {"Solicit", "Request"} THEN @ ELSE {}]

ClearRetransmit(c) == [c EXCEPT !.try = 0]

\* DHCPv6ClientNextRetransmit: count the try; the interval itself is the
\* caller's nondeterministic `wait' (the backoff is RetransmitEngine's).
NextRetransmit(c) == [c EXCEPT !.try = MinOf(@ + 1, MaxOf(ReqMaxRC, DecMaxRC) + 1)]

PostNotification(c) == [c EXCEPT !.notify = TRUE]

CancelPendingEvents(c) == [c EXCEPT !.rx = "None", !.timer = NoTimer]

TimerSet(c, fn, ev, d) == [c EXCEPT !.timer = [fn |-> fn, ev |-> ev, left |-> d]]

EnableReceive(c, fn) == [c EXCEPT !.rx = fn]

\* get_new_transaction_id: replies still in flight carry the old id and
\* will never match again, so they are dropped from the network here.
NewTransactionID(c) == [c EXCEPT !.net = {}, !.sent = NoSent]

\* Capture client->start_time = now.
StartNow(c) == [c EXCEPT !.start = 0]

ClearLease(c) == [c EXCEPT !.lease = NoLease, !.lease_age = AgeCap]

ClearPacket(c) ==
    [ClearLease(c) EXCEPT !.saved = NoPacket, !.saved_verified = FALSE]

\* The kernel calls of one step succeed unless kcall names the one that
\* fails; a failed socket() means no call is made at all.
Removed(kcall) == kcall \notin {"socket", "difaddr"}
Added(kcall) == kcall \notin {"socket", "aifaddr"}

\* DHCPv6ClientRemoveAddress: our_ip is forgotten whether or not the
\* kernel call succeeds (failures are only logged).
\* Mutant: forgets the inet6_difaddr call.
RemoveAddress_KeepKernel(c, r) ==
    IF c.our_ip = NoAddr THEN c ELSE [c EXCEPT !.our_ip = NoAddr]

RemoveAddress(c, r) ==
    IF c.our_ip = NoAddr THEN c
    ELSE IF ~Removed(r.kcall) THEN [c EXCEPT !.our_ip = NoAddr]
    ELSE [c EXCEPT !.kernel[c.our_ip] = NoKernelAddr, !.our_ip = NoAddr,
                   !.kevent = TRUE]

Inactive(c, r) ==
    PostNotification(RemoveAddress(ClearPacket(CancelPendingEvents(c)), r))

IsBoundRenewOrRebind(st) == st \in {"Bound", "Renew", "Rebind"}

LeaseOnSameNetwork(c, cur) ==
    \/ IfType # "wireless"
    \/ cur # NoSSID /\ c.lease.ssid # NoSSID /\ cur = c.lease.ssid

\* The test of DHCPv6ClientLeaseStillValid, without its side effect.
LeaseIsValid(c) ==
    /\ c.lease.valid
    /\ \/ c.lease.valid_lifetime = INFINITE
       \/ c.lease_age >= 0 /\ c.lease_age < c.lease.valid_lifetime

\* DHCPv6ClientLeaseStillValid: the state it leaves (a lease that went
\* stale, by expiry or by the clock going backwards, clears the saved
\* packet); the caller reads the answer from .lease.valid of the result.
LeaseStillValid(c) ==
    IF c.lease.valid /\ ~LeaseIsValid(c) THEN ClearPacket(c) ELSE c

-----------------------------------------------------------------------------
(* Reading and writing packets.                                          *)

\* get_ia_na_addr_code: the IA_NA is usable when it carries an IAADDR with
\* a non-zero valid lifetime no smaller than its preferred lifetime, and
\* T1 <= T2 whenever both are non-zero.
IaUsable(ia) ==
    /\ ~(ia.t1 # 0 /\ ia.t2 # 0 /\ ia.t1 > ia.t2)
    /\ ia.addr # NoAddr
    /\ ia.vl # 0
    /\ ia.pl <= ia.vl

\* The status code get_ia_na_addr_code reports: a confused T1 > T2 leaves
\* before the IA's own STATUS_CODE is read.
IaCode(ia) ==
    IF ia.t1 # 0 /\ ia.t2 # 0 /\ ia.t1 > ia.t2 THEN "Success" ELSE ia.code

\* The lease times DHCPv6ClientSavePacket derives from a usable IA_NA.
\* preferred * 0.5 and preferred * 0.8 are truncated to uint32_t.
LeaseTimes(ia) ==
    LET pl0 == IF ia.pl = 0 THEN ia.vl ELSE ia.pl
        a == IF ia.t1 = 0 \/ ia.t2 = 0
               THEN IF pl0 = INFINITE
                      THEN [t1 |-> 0, t2 |-> 0, pl |-> pl0, vl |-> ia.vl]
                      ELSE [t1 |-> pl0 \div 2, t2 |-> (pl0 * 4) \div 5,
                            pl |-> pl0, vl |-> ia.vl]
             ELSE IF ia.t1 = INFINITE \/ ia.t2 = INFINITE
               THEN [t1 |-> 0, t2 |-> 0, pl |-> INFINITE, vl |-> INFINITE]
             ELSE [t1 |-> ia.t1, t2 |-> ia.t2, pl |-> pl0, vl |-> ia.vl]
    IN  IF a.vl = INFINITE
          THEN [a EXCEPT !.t1 = 0, !.t2 = 0, !.pl = INFINITE]
          ELSE a

\* DHCPv6ClientSavePacket: replace the saved packet by m, remember the
\* current SSID, and start a lease (not yet marked valid) from its IA_NA.
SavePacket(c, m, cur) ==
    LET c1 == ClearPacket(c)
        ok == IaUsable(m.ia)
        lt == LeaseTimes(m.ia)
    IN  [c1 EXCEPT
           !.saved = [kind |-> m.type, server |-> m.server, pref |-> m.pref,
                      addr |-> IF ok THEN m.ia.addr ELSE NoAddr],
           !.lease = IF ok
                       THEN [@ EXCEPT !.ssid = cur, !.t1 = lt.t1, !.t2 = lt.t2,
                                      !.preferred = lt.pl,
                                      !.valid_lifetime = lt.vl]
                       ELSE [@ EXCEPT !.ssid = cur],
           !.lease_age = IF ok THEN 0 ELSE @,
           !.saved_verified = TRUE]

\* Mutant: ELAPSED_TIME without the saturation at 0xffff.
ElapsedTime_NoSaturation(c, ub) ==
    IF c.try = 1 THEN 0 ELSE IF c.start < 0 THEN ub ELSE c.start

\* get_elapsed_time, in ticks saturating at ElapsedCap.  A start time in
\* the future (the clock went back) makes the double -> uint32_t
\* conversion undefined; ub is the value the build produces.
ElapsedTime(c, ub) ==
    IF c.try = 1 THEN 0
    ELSE IF c.start < 0 THEN ub
    ELSE MinOf(c.start, ElapsedCap)

\* A transmission: the last datagram put on the wire, with the ELAPSED_TIME
\* it carries and whether it is the first one under this transaction id.
Transmit(c, type, ub) ==
    [c EXCEPT !.sent = [type |-> type, elapsed |-> ElapsedTime(c, ub),
                        first |-> c.sent = NoSent]]

SendMsgType == [Request |-> "REQUEST", Renew |-> "RENEW", Rebind |-> "REBIND",
                Release |-> "RELEASE", Confirm |-> "CONFIRM",
                Decline |-> "DECLINE"]

\* DHCPv6ClientSendInform and DHCPv6ClientSendSolicit: the packet carries
\* no server state; transmit errors are logged and swallowed.
SendInform(c, ub) == Transmit(c, "INFORMATION_REQUEST", ub)

SendSolicit(c, ub) == Transmit(c, "SOLICIT", ub)

\* DHCPv6ClientSendPacket: needs the saved IA_NA and SERVERID.
SendPacket(c, ub) ==
    IF c.saved.kind = "None" \/ c.saved.addr = NoAddr
       \/ c.cstate \notin DOMAIN SendMsgType
      THEN c
      ELSE Transmit(c, SendMsgType[c.cstate], ub)

-----------------------------------------------------------------------------
(* State handlers.  r is the record of random draws the step makes:      *)
(* r.delay an initial random delay, r.wait a retransmission interval and *)
(* r.ub the outcome of an undefined conversion.                          *)

Solicit_Start(c, r) ==
    LET c1 == NewTransactionID(ClearPacket(ClearRetransmit(SetState(c, "Solicit"))))
    IN  [TimerSet(EnableReceive(c1, "Solicit"), "Solicit", "timeout", r.delay)
           EXCEPT !.adv = {}]

\* Mutant: no REQ_MAX_RC limit.
Request_Timeout_NoLimit(c, r) ==
    SendPacket(TimerSet(NextRetransmit(c), "Request", "timeout", r.wait), r.ub)

Request_Timeout(c, r) ==
    IF c.try >= ReqMaxRC
      THEN Solicit_Start(c, r)
      ELSE SendPacket(TimerSet(NextRetransmit(c), "Request", "timeout", r.wait), r.ub)

Request_Start(c, r) ==
    LET c1 == StartNow(NewTransactionID(ClearRetransmit(SetState(c, "Request"))))
    IN  Request_Timeout(EnableReceive(c1, "Request"), r)

Solicit_Timeout(c, r, active) ==
    IF c.try # 0 /\ ~active THEN Inactive(c, r)
    ELSE LET c1 == IF c.try = 0 THEN StartNow(c) ELSE c
         IN  IF c1.saved.kind # "None"
               THEN Request_Start(c1, r)
               ELSE SendSolicit(TimerSet(NextRetransmit(c1), "Solicit",
                                         "timeout", r.wait), r.ub)

Decline_Timeout(c, r) ==
    IF c.try >= DecMaxRC
      THEN Solicit_Start(c, r)
      ELSE SendPacket(TimerSet(NextRetransmit(c), "Decline", "timeout", r.wait), r.ub)

Decline_Start(c, r) ==
    LET c1 == CancelPendingEvents(RemoveAddress(SetState(c, "Decline"), r))
        c2 == PostNotification([ClearLease(c1) EXCEPT !.saved_verified = FALSE])
    IN  Decline_Timeout(EnableReceive(NewTransactionID(ClearRetransmit(c2)),
                                      "Decline"), r)

Unbound_Start(c, r) ==
    Solicit_Start(PostNotification(ClearPacket(RemoveAddress(
                    CancelPendingEvents(SetState(c, "Unbound")), r))), r)

\* The renewal timer Bound and the address-change handler arm: at T1, or
\* BoundRetry ticks from now when T1 has passed.
RenewTimer(c) ==
    LET wait == IF c.lease_age < c.lease.t1 THEN c.lease.t1 - c.lease_age
                ELSE BoundRetry
    IN  [TimerSet(c, "RenewRebind", "start", wait) EXCEPT !.rr = wait]

\* Mutant: the renewal timer is armed for an INFINITE lease too.
HandleAddressChanged_NoInfiniteTest(c, r) ==
    IF c.cstate # "Bound" \/ c.our_ip = NoAddr
       \/ c.kernel[c.our_ip].flag = "none"
      THEN c
    ELSE IF c.kernel[c.our_ip].flag = "duplicated" THEN Decline_Start(c, r)
    ELSE IF c.kernel[c.our_ip].flag = "tentative" THEN c
    ELSE LET c1 == CancelPendingEvents(PostNotification(c))
         IN  IF c1.lease_age < 0 THEN Unbound_Start(c1, r)
             ELSE RenewTimer(c1)

\* DHCPv6ClientHandleAddressChanged, reading the kernel's address list.
HandleAddressChanged(c, r) ==
    IF c.cstate # "Bound" \/ c.our_ip = NoAddr
       \/ c.kernel[c.our_ip].flag = "none"
      THEN c
    ELSE IF c.kernel[c.our_ip].flag = "duplicated" THEN Decline_Start(c, r)
    ELSE IF c.kernel[c.our_ip].flag = "tentative" THEN c
    ELSE LET c1 == CancelPendingEvents(PostNotification(c))
         IN  IF c1.lease.valid_lifetime = INFINITE THEN c1
             ELSE IF c1.lease_age < 0 THEN Unbound_Start(c1, r)
             ELSE RenewTimer(c1)

\* Entering Bound commits the lease: valid, verified, nothing pending.
\* Mutant: the pending callbacks of the previous state stay installed.
BoundEnter_NoCancel(c) ==
    [SetState(c, "Bound") EXCEPT !.lease.valid = TRUE, !.saved_verified = TRUE]

BoundEnter(c) ==
    CancelPendingEvents([SetState(c, "Bound") EXCEPT !.lease.valid = TRUE,
                                                     !.saved_verified = TRUE])

\* The lease lifetime left, which Bound gives the kernel.
\* Mutant: the full valid lifetime, the time already elapsed not deducted.
ValidLeft_Full(c) == c.lease.valid_lifetime

ValidLeft(c) ==
    IF c.lease.valid_lifetime = INFINITE THEN INFINITE
    ELSE c.lease.valid_lifetime - c.lease_age

\* Bound's kernel calls on one socket: remove the old address if it is
\* changing (inet6_difaddr), then add ip or refresh its lifetimes
\* (inet6_aifaddr).  A failed call is logged and the next one is made.
\* Mutant: the old address is not removed when the address changes.
BoundSetAddress_KeepOld(c, ip, kcall) ==
    [c EXCEPT !.kernel[ip] = IF @.flag = "none"
                               THEN [flag |-> "tentative", left |-> ValidLeft(c)]
                               ELSE [@ EXCEPT !.left = ValidLeft(c)],
              !.kevent = TRUE]

BoundSetAddress(c, ip, kcall) ==
    LET k1 == IF c.our_ip # NoAddr /\ c.our_ip # ip /\ Removed(kcall)
                THEN [c.kernel EXCEPT ![c.our_ip] = NoKernelAddr]
                ELSE c.kernel
        k2 == IF ~Added(kcall) THEN k1
              ELSE [k1 EXCEPT ![ip] = IF @.flag = "none"
                                        THEN [flag |-> "tentative", left |-> ValidLeft(c)]
                                        ELSE [@ EXCEPT !.left = ValidLeft(c)]]
    IN  [c EXCEPT !.kernel = k2, !.kevent = @ \/ k2 # c.kernel \/ Added(kcall)]

\* DHCPv6Client_Bound start.  Without a saved IAADDR (client->ia_addr is
\* NULL) the first statement dereferences NULL and the process dies.  When
\* socket() or inet6_aifaddr fails the handler ends there: Bound, with
\* nothing pending and our_ip as it was.
Bound_Start(c, r) ==
    IF c.saved.addr = NoAddr
      THEN [c EXCEPT !.proc = "Crashed"]
    ELSE
    LET ip == c.saved.addr
        c1 == BoundEnter(c)
        vl == c1.lease.valid_lifetime
    IN  IF vl # INFINITE /\ (c1.lease_age < 0 \/ c1.lease_age >= vl)
          THEN Unbound_Start(c1, r)
        ELSE
        LET c2 == BoundSetAddress(c1, ip, r.kcall)
        IN  IF ~Added(r.kcall) THEN c2
            ELSE IF c1.our_ip = ip
              THEN LET c3 == CancelPendingEvents(PostNotification(c2))
                   IN  IF vl = INFINITE THEN c3 ELSE RenewTimer(c3)
              ELSE HandleAddressChanged([c2 EXCEPT !.our_ip = ip], r)

\* The checks every handler applies first: message type, transaction id
\* and CLIENTID, SERVERID.  Only messages that pass them are modelled (a
\* message failing them is ignored, which is a stuttering step).
Request_Data(c, m, r, cur) ==
    IF m.type # "REPLY" \/ m.status = "NoAddrsAvail" THEN c
    ELSE IF IaCode(m.ia) = "NotOnLink" THEN Solicit_Start(c, r)
    ELSE IF ~IaUsable(m.ia) THEN c
    ELSE Bound_Start(SavePacket(c, m, cur), r)

\* Mutant: the first ADVERTISE saved is always kept.
KeepSaved_First(c, m) == c.saved.kind # "None"

\* The saved ADVERTISE is "still better": its preference is no lower.
KeepSaved(c, m) == c.saved.kind # "None" /\ c.saved.pref >= m.pref

\* DHCPv6Client_Solicit data: keep the ADVERTISE with the highest
\* preference; move on to Request once the first retransmission has been
\* waited for, or at once on preference 255.  adv (not in the C code)
\* records the preferences of all usable ADVERTISEs of this Solicit.
Solicit_Data(c, m, r, cur) ==
    IF m.type # "ADVERTISE" \/ m.status = "NoAddrsAvail" \/ ~IaUsable(m.ia)
      THEN c
    ELSE LET c0 == [c EXCEPT !.adv = @ \cup {m.pref}]
         IN  IF KeepSaved(c0, m)
               THEN c0
             ELSE LET c1 == SavePacket(c0, m, cur)
                  IN  IF c1.try > 1 \/ m.pref = 255
                        THEN Request_Start(c1, r)
                        ELSE c1

\* (uint32_t)time_since_start.  Only an INFINITE lease survives
\* LeaseStillValid with the clock set back before its start; the negative
\* time then makes the conversion undefined, and the build either
\* saturates it to 0 (ub = 0) or wraps it modulo 2^32 (INFINITE is
\* 2^32 - 1).
SinceStart(c, ub) ==
    IF c.lease_age >= 0 THEN c.lease_age
    ELSE IF ub = 0 THEN 0
    ELSE INFINITE + 1 + c.lease_age

\* Mutant: the Rebind wait is not clamped to the end of the lease.
RenewRebind_Timeout_NoClamp(c, r) ==
    LET c1 == LeaseStillValid(c)
        since == SinceStart(c1, r.ub)
    IN  IF ~c1.lease.valid THEN Unbound_Start(c1, r)
        ELSE IF since < c1.lease.t2
          THEN LET w == MinOf(r.wait, c1.lease.t2 - since)
               IN  SendPacket([TimerSet(NextRetransmit(c1), "RenewRebind",
                                        "timeout", w) EXCEPT !.rr = w], r.ub)
          ELSE LET c2 == IF c1.cstate # "Rebind"
                           THEN ClearRetransmit(SetState(StartNow(
                                  NewTransactionID(c1)), "Rebind"))
                           ELSE c1
               IN  SendPacket([TimerSet(NextRetransmit(c2), "RenewRebind",
                                        "timeout", r.wait) EXCEPT !.rr = r.wait], r.ub)

RenewRebind_Timeout(c, r) ==
    LET c1 == LeaseStillValid(c)
        since == SinceStart(c1, r.ub)
    IN  IF ~c1.lease.valid THEN Unbound_Start(c1, r)
        ELSE IF since < c1.lease.t2
          THEN \* Renew (before T2): do not wait past T2
               LET w == MinOf(r.wait, c1.lease.t2 - since)
               IN  SendPacket([TimerSet(NextRetransmit(c1), "RenewRebind",
                                        "timeout", w) EXCEPT !.rr = w], r.ub)
          ELSE \* Rebind (T2 or later): do not wait past expiry
               LET c2 == IF c1.cstate # "Rebind"
                           THEN ClearRetransmit(SetState(StartNow(
                                  NewTransactionID(c1)), "Rebind"))
                           ELSE c1
                   w == MinOf(r.wait, c2.lease.valid_lifetime - since)
               IN  SendPacket([TimerSet(NextRetransmit(c2), "RenewRebind",
                                        "timeout", w) EXCEPT !.rr = w], r.ub)

RenewRebind_Start(c, r) ==
    LET c1 == StartNow(NewTransactionID(ClearRetransmit(
                CancelPendingEvents(SetState(c, "Renew")))))
    IN  RenewRebind_Timeout(EnableReceive(c1, "RenewRebind"), r)

RenewRebind_Data(c, m, r, cur) ==
    IF m.type # "REPLY" THEN c
    ELSE IF m.status # "Success" \/ ~IaUsable(m.ia) THEN Unbound_Start(c, r)
    ELSE Bound_Start(SavePacket(c, m, cur), r)

Confirm_Start(c, r) ==
    LET c1 == NewTransactionID([ClearRetransmit(CancelPendingEvents(
                SetState(c, "Confirm"))) EXCEPT !.saved_verified = FALSE])
    IN  TimerSet(EnableReceive(c1, "Confirm"), "Confirm", "timeout", r.delay)

Confirm_Timeout(c, r, active) ==
    IF c.try # 0 /\ ~active THEN Inactive(c, r)
    ELSE IF c.try # 0 /\ (c.start <= 0 \/ c.start >= CnfMaxRD)
      THEN \* done: fall back on the lease we have, or start over
           LET c1 == LeaseStillValid(c)
           IN  IF c1.lease.valid THEN Bound_Start(c1, r) ELSE Solicit_Start(c1, r)
    ELSE LET c1 == IF c.try = 0 THEN StartNow(c) ELSE c
         IN  SendPacket(TimerSet(NextRetransmit(c1), "Confirm", "timeout",
                                 r.wait), r.ub)

Confirm_Data(c, m, r) ==
    IF m.type # "REPLY" THEN c
    ELSE IF m.status # "Success" THEN Unbound_Start(c, r)
    ELSE Bound_Start(c, r)

Inform_Timeout(c, r, active) ==
    IF c.try # 0 /\ ~active THEN Inactive(c, r)
    ELSE LET c1 == IF c.try = 0 THEN StartNow(c) ELSE c
         IN  SendInform(TimerSet(NextRetransmit(c1), "Inform", "timeout",
                                 r.wait), r.ub)

\* Cellular interfaces transmit at once; others after a random delay.
Inform_Start(c, r, active) ==
    LET c1 == EnableReceive(NewTransactionID(ClearRetransmit(ClearPacket(
                SetState(c, "Inform")))), "Inform")
    IN  IF IfType # "cellular"
          THEN TimerSet(c1, "Inform", "timeout", r.delay)
          ELSE Inform_Timeout(c1, r, active)

\* Mutant: the Inform callbacks stay installed.
InformComplete_Start_NoCancel(c) == SetState(c, "InformComplete")

InformComplete_Start(c) == CancelPendingEvents(SetState(c, "InformComplete"))

Inform_Data(c, m, cur) ==
    IF m.type # "REPLY" THEN c
    ELSE InformComplete_Start(PostNotification(SavePacket(c, m, cur)))

\* One best-effort RELEASE; the reply is never waited for.
Release_Start(c, r) ==
    SendPacket(NewTransactionID(ClearRetransmit(CancelPendingEvents(
                 RemoveAddress(SetState(c, "Release"), r)))), r.ub)

\* Mutant: a wake re-arms renewal for an INFINITE lease too.
HandleWake_NoInfiniteTest(c, r, active, wi, wosn) ==
    IF \/ ~active
       \/ IfType = "wireless" /\ wi = "NetworkChanged"
       \/ IfType # "wireless" /\ ~wosn
      THEN LET c1 == RemoveAddress(c, r)
           IN  IF ~active \/ c.cstate = "Solicit" THEN c1 ELSE Solicit_Start(c1, r)
    ELSE
    LET c1 == LeaseStillValid(c)
    IN  IF ~c1.lease.valid
          THEN IF c1.cstate # "Solicit" THEN Unbound_Start(c1, r) ELSE c1
        ELSE IF ~IsBoundRenewOrRebind(c1.cstate) \/ wi = "BSSIDChanged"
          THEN Confirm_Start(c1, r)
        ELSE IF c1.rr > 0 /\ c1.rr >= WakeSkew
          THEN TimerSet(c1, "RenewRebind", "start", c1.rr)
        ELSE RenewRebind_Start(c1, r)

\* DHCPv6ClientHandleWake.  active is the link status delivered with the
\* wake, wi the link info (NetworkChanged, BSSIDChanged or None), wosn
\* link_status.wake_on_same_network.
HandleWake(c, r, active, wi, wosn) ==
    IF \/ ~active
       \/ IfType = "wireless" /\ wi = "NetworkChanged"
       \/ IfType # "wireless" /\ ~wosn
      THEN LET c1 == RemoveAddress(c, r)
           IN  IF ~active \/ c.cstate = "Solicit" THEN c1 ELSE Solicit_Start(c1, r)
    ELSE
    LET c1 == LeaseStillValid(c)
    IN  IF ~c1.lease.valid
          THEN IF c1.cstate # "Solicit" THEN Unbound_Start(c1, r) ELSE c1
        ELSE IF ~IsBoundRenewOrRebind(c1.cstate) \/ wi = "BSSIDChanged"
          THEN Confirm_Start(c1, r)
        ELSE IF c1.lease.valid_lifetime = INFINITE THEN c1
        \* S_time_in_future: re-arm the timer for the same wall-clock time
        ELSE IF c1.rr > 0 /\ c1.rr >= WakeSkew
          THEN TimerSet(c1, "RenewRebind", "start", c1.rr)
        ELSE RenewRebind_Start(c1, r)

\* Mutant: confirms without asking whether the lease is still valid.
ConfirmIfBound_NoLeaseCheck(c, r) ==
    IF IsBoundRenewOrRebind(c.cstate) THEN Confirm_Start(c, r) ELSE c

\* The renew and link-status-changed events of DHCPv6ClientHandleEvent
\* (with an active link), and the bssid-changed event.
ConfirmIfBound(c, r) ==
    LET c1 == LeaseStillValid(c)
    IN  IF c1.lease.valid /\ IsBoundRenewOrRebind(c1.cstate)
          THEN Confirm_Start(c1, r) ELSE c1

\* Mutant: stateless start keeps the address a stateful run assigned.
Start_StatelessKeepsAddress(c, allocate, r, active, cur) ==
    IF allocate
      THEN LET c1 == LeaseStillValid([c EXCEPT !.mode = "Stateful"])
           IN  IF c1.lease.valid /\ LeaseOnSameNetwork(c1, cur)
                 THEN Confirm_Start(c1, r)
                 ELSE Solicit_Start(ClearPacket(RemoveAddress(c1, r)), r)
      ELSE Inform_Start(ClearPacket([c EXCEPT !.mode = "Stateless"]), r, active)

\* DHCPv6ClientStart.  The private-address flag only selects the DUID and
\* IAID the messages carry, which are not modelled.
Start(c, allocate, r, active, cur) ==
    IF allocate
      THEN LET c1 == LeaseStillValid([c EXCEPT !.mode = "Stateful"])
           IN  IF c1.lease.valid /\ LeaseOnSameNetwork(c1, cur)
                 THEN Confirm_Start(c1, r)
                 ELSE Solicit_Start(ClearPacket(RemoveAddress(c1, r)), r)
      ELSE Inform_Start(ClearPacket(RemoveAddress([c EXCEPT !.mode = "Stateless"], r)),
                        r, active)

Stop(c, discard, r) ==
    LET c1 == CancelPendingEvents(RemoveAddress(c, r))
        c2 == IF discard THEN ClearPacket(c1)
              ELSE [c1 EXCEPT !.saved_verified = FALSE]
    IN  PostNotification([SetState(c2, "Inactive") EXCEPT !.mode = "Idle"])

\* DHCPv6ClientCreate: a zeroed client (lease.start = 0 is long past).
Create(kernel) ==
    [cstate |-> "Inactive", mode |-> "Idle", try |-> 0, start |-> StartCap,
     saved |-> NoPacket, saved_verified |-> FALSE, lease |-> NoLease,
     lease_age |-> AgeCap, our_ip |-> NoAddr, timer |-> NoTimer,
     rx |-> "None", rr |-> 0, notify |-> FALSE, proc |-> "Running",
     kernel |-> kernel, kevent |-> FALSE, net |-> {}, sent |-> NoSent,
     adv |-> {}]

\* DHCPv6ClientRelease: a RELEASE if the lease still looks valid, then
\* the client is freed (its pending notification with it).
ReleaseClient(c, r) ==
    LET c1 == LeaseStillValid(c)
        c2 == IF c1.lease.valid THEN Release_Start(c1, r) ELSE c1
    IN  [ClearPacket(CancelPendingEvents(c2)) EXCEPT !.proc = "Released",
                                                     !.notify = FALSE]

\* DHCPv6Client_Decline data: any matching REPLY ends the Decline.
Decline_Data(c, m, r) == IF m.type # "REPLY" THEN c ELSE Solicit_Start(c, r)

-----------------------------------------------------------------------------
(* The world: clock, kernel, network, link and the calling service.     *)

\* The random draws one step may make.
Draws == [delay : 0..MaxDelay, wait : 1..MaxRT, ub : 0..ElapsedCap,
          kcall : KernelOutcomes]


\* GetInfo as the notification callback reads it.
GetInfo(c) == IF c.saved_verified /\ c.saved.kind # "None" THEN c.saved.kind
              ELSE "none"

Running == s.proc = "Running"

\* DHCPv6ClientHandleEvent ignores every event unless the client is
\* stateful.
OnEvent(c, handled) == IF c.mode = "Stateful" THEN handled ELSE c

Init ==
    /\ s = Create([a \in Addrs |-> NoKernelAddr])
    /\ link \in BOOLEAN
    /\ ssid \in SSIDs
    /\ budget = MaxEnv
    /\ info = "none"

\* One tick of time: the pending timer, the wall clock and the kernel's
\* address lifetimes all advance.  A timer that is due fires first.  The
\* kernel deleting an address whose valid lifetime ran out is the
\* kernel's behaviour (the lifetimes inet6_aifaddr passes), not this file's.
Tick ==
    /\ Running
    /\ s.timer.fn = "None" \/ s.timer.left > 0
    /\ LET k == [a \in Addrs |->
                   IF s.kernel[a].flag = "none" \/ s.kernel[a].left = INFINITE
                     THEN s.kernel[a]
                   ELSE IF s.kernel[a].left <= 1 THEN NoKernelAddr
                   ELSE [s.kernel[a] EXCEPT !.left = @ - 1]]
       IN  s' = [s EXCEPT !.timer.left = IF s.timer.fn = "None" THEN 0 ELSE @ - 1,
                          !.start = CapStart(@ + 1),
                          !.lease_age = CapAge(@ + 1),
                          !.rr = MaxOf(@ - 1, -Slack),
                          !.kernel = k,
                          !.kevent = @ \/ k # s.kernel]
    /\ UNCHANGED <<link, ssid, budget, info>>

TimerFire ==
    /\ Running
    /\ s.timer.fn # "None" /\ s.timer.left = 0
    /\ \E r \in Draws :
         LET c == [s EXCEPT !.timer = NoTimer]
             key == <<s.timer.fn, s.timer.ev>>
         IN  s' = CASE key = <<"Solicit", "timeout">> -> Solicit_Timeout(c, r, link)
                    [] key = <<"Request", "timeout">> -> Request_Timeout(c, r)
                    [] key = <<"RenewRebind", "start">> -> RenewRebind_Start(c, r)
                    [] key = <<"RenewRebind", "timeout">> -> RenewRebind_Timeout(c, r)
                    [] key = <<"Confirm", "timeout">> -> Confirm_Timeout(c, r, link)
                    [] key = <<"Decline", "timeout">> -> Decline_Timeout(c, r)
                    [] key = <<"Inform", "timeout">> -> Inform_Timeout(c, r, link)
    /\ UNCHANGED <<link, ssid, budget, info>>

\* The socket hands a matching message to the receive callback; dup keeps
\* a copy in the network (a duplicated datagram).
Deliver(m, dup) ==
    /\ Running
    /\ m \in s.net /\ s.rx # "None"
    /\ \E r \in Draws :
         LET c == [s EXCEPT !.net = IF dup THEN @ ELSE @ \ {m}]
         IN  s' = CASE s.rx = "Solicit" -> Solicit_Data(c, m, r, ssid)
                    [] s.rx = "Request" -> Request_Data(c, m, r, ssid)
                    [] s.rx = "RenewRebind" -> RenewRebind_Data(c, m, r, ssid)
                    [] s.rx = "Confirm" -> Confirm_Data(c, m, r)
                    [] s.rx = "Decline" -> Decline_Data(c, m, r)
                    [] s.rx = "Inform" -> Inform_Data(c, m, ssid)
    /\ UNCHANGED <<link, ssid, budget, info>>

\* A server answers the current transaction: ADVERTISEs to a SOLICIT,
\* REPLYs to everything else.
ServerSend(m) ==
    /\ Running /\ link
    /\ s.sent # NoSent /\ s.sent.type # "RELEASE"
    /\ Cardinality(s.net) < NetCap
    /\ m \in IF s.sent.type = "SOLICIT" THEN Advertises ELSE Replies
    /\ m \notin s.net
    /\ s' = [s EXCEPT !.net = @ \cup {m}]
    /\ UNCHANGED <<link, ssid, budget, info>>

Lose(m) ==
    /\ Running
    /\ m \in s.net
    /\ s' = [s EXCEPT !.net = @ \ {m}]
    /\ UNCHANGED <<link, ssid, budget, info>>

\* Duplicate address detection ends on a tentative address.
DadComplete(a) ==
    /\ Running
    /\ s.kernel[a].flag = "tentative"
    /\ \E f \in {"ok", "duplicated"} :
         s' = [s EXCEPT !.kernel[a].flag = f, !.kevent = TRUE]
    /\ UNCHANGED <<link, ssid, budget, info>>

\* The interface's address-change event reaches HandleEvent.
KernelAddressEvent ==
    /\ Running
    /\ s.kevent
    /\ \E r \in Draws :
         LET c == [s EXCEPT !.kevent = FALSE]
         IN  s' = OnEvent(c, HandleAddressChanged(c, r))
    /\ UNCHANGED <<link, ssid, budget, info>>

\* The run-loop source signalled by PostNotification fires: the callback
\* reads GetInfo.
DeliverNotification ==
    /\ Running
    /\ s.notify
    /\ s' = [s EXCEPT !.notify = FALSE]
    /\ info' = GetInfo(s)
    /\ UNCHANGED <<link, ssid, budget>>

\* Environment events of kind e: each one spends one unit of budget.
EnvStep(e) == Running /\ e \in EnvEvents /\ budget > 0 /\ budget' = budget - 1

\* The wall clock and the kernel's lifetimes advanced by d while timers
\* stood still.
Slept(c, d) ==
    LET k == [a \in Addrs |->
                IF c.kernel[a].flag = "none" \/ c.kernel[a].left = INFINITE
                  THEN c.kernel[a]
                ELSE IF c.kernel[a].left <= d THEN NoKernelAddr
                ELSE [c.kernel[a] EXCEPT !.left = @ - d]]
    IN  [c EXCEPT !.start = CapStart(@ + d), !.lease_age = CapAge(@ + d),
                  !.rr = MaxOf(@ - d, -Slack), !.kernel = k,
                  !.kevent = @ \/ k # c.kernel]

\* The system sleeps for d ticks and wakes; the wake event carries the
\* link status then, and for Wi-Fi whether the SSID or only the BSSID
\* changed.
SleepWake ==
    /\ EnvStep("sleep")
    /\ \E d \in 1..MaxSleep, up \in BOOLEAN, cur \in SSIDs,
          wosn \in BOOLEAN, r \in Draws :
         \E wi \in IF IfType # "wireless" THEN {"None"}
                   ELSE IF cur # ssid THEN {"NetworkChanged"}
                   ELSE {"None", "BSSIDChanged"} :
           /\ link' = up
           /\ ssid' = cur
           /\ LET c == Slept(s, d)
              IN  s' = OnEvent(c, HandleWake(c, r, up, wi, wosn))
    /\ UNCHANGED info

\* The link goes down, or comes up (on a Wi-Fi network that may differ).
LinkChange ==
    /\ EnvStep("link")
    /\ link' = ~link
    /\ \E cur \in IF link \/ IfType # "wireless" THEN {ssid} ELSE SSIDs,
          r \in Draws :
         /\ ssid' = cur
         /\ s' = IF link' THEN OnEvent(s, ConfirmIfBound(s, r)) ELSE s
    /\ UNCHANGED info

\* IFEventID_bssid_changed_e: the interface roams to another access point
\* of the same network.  The service raises it only for a wireless
\* interface; the handler itself tests nothing else.
BSSIDChange ==
    /\ EnvStep("bssid")
    /\ IfType = "wireless"
    /\ \E r \in Draws : s' = OnEvent(s, ConfirmIfBound(s, r))
    /\ UNCHANGED <<link, ssid, info>>

\* The service asks for a renewal (IFEventID_renew_e).
RenewEvent ==
    /\ EnvStep("renew")
    /\ \E r \in Draws :
         s' = IF link THEN OnEvent(s, ConfirmIfBound(s, r)) ELSE s
    /\ UNCHANGED <<link, ssid, info>>

\* The wall clock is set back by d.
ClockBack ==
    /\ EnvStep("clock")
    /\ \E d \in 1..MaxSleep :
         s' = [s EXCEPT !.start = MaxOf(@ - d, -AgeCap),
                        !.lease_age = MaxOf(@ - d, -AgeCap),
                        !.rr = CapAge(@ + d)]
    /\ UNCHANGED <<link, ssid, info>>

\* The service starts an idle client (its first start is not counted
\* against the budget), or restarts a running one.
StartClient ==
    /\ IF s.mode = "Idle"
         THEN Running /\ UNCHANGED budget
         ELSE EnvStep("restart")
    /\ \E allocate \in StartModes, r \in Draws :
         s' = Start(s, allocate, r, link, ssid)
    /\ UNCHANGED <<link, ssid, info>>

StopClient ==
    /\ EnvStep("stop")
    /\ \E discard \in BOOLEAN, r \in Draws : s' = Stop(s, discard, r)
    /\ UNCHANGED <<link, ssid, info>>

Destroy ==
    /\ EnvStep("destroy")
    /\ \E r \in Draws : s' = ReleaseClient(s, r)
    /\ UNCHANGED <<link, ssid, info>>

\* After a crash or DHCPv6ClientRelease nothing of the client runs again.
Terminated == s.proc # "Running" /\ UNCHANGED vars

Next ==
    \/ Tick \/ TimerFire \/ KernelAddressEvent \/ DeliverNotification
    \/ \E m \in Advertises \cup Replies :
         ServerSend(m) \/ Lose(m) \/ \E dup \in BOOLEAN : Deliver(m, dup)
    \/ \E a \in Addrs : DadComplete(a)
    \/ SleepWake \/ LinkChange \/ BSSIDChange \/ RenewEvent \/ ClockBack
    \/ StartClient \/ StopClient \/ Destroy
    \/ Terminated

\* The run loop keeps running: time passes, due timers fire, pending
\* kernel and notification events are delivered and DAD completes.  The
\* network and the environment are not fair.
Fairness ==
    /\ WF_vars(Tick) /\ WF_vars(TimerFire) /\ WF_vars(KernelAddressEvent)
    /\ WF_vars(DeliverNotification)
    /\ \A a \in Addrs : WF_vars(DadComplete(a))

Spec == Init /\ [][Next]_vars
FairSpec == Spec /\ Fairness

-----------------------------------------------------------------------------
(* Properties.                                                           *)

Ages == -AgeCap..AgeCap
Packets == {NoPacket} \cup
           [kind : {"ADVERTISE", "REPLY"}, server : Servers, pref : 0..255,
            addr : Addrs \cup {NoAddr}]
Leases == [valid : BOOLEAN, t1 : Lifetime, t2 : Lifetime, preferred : Lifetime,
           valid_lifetime : Lifetime, ssid : SSIDs]
Timers == {NoTimer} \cup
          [fn : Handlers, ev : {"start", "timeout"}, left : 0..AgeCap]

TypeOK ==
    /\ s.cstate \in States /\ s.mode \in Modes
    /\ s.try \in 0..MaxOf(ReqMaxRC, DecMaxRC) + 1
    /\ s.start \in Ages /\ s.lease_age \in Ages /\ s.rr \in Ages
    /\ s.saved \in Packets /\ s.saved_verified \in BOOLEAN
    /\ s.lease \in Leases
    /\ s.our_ip \in Addrs \cup {NoAddr}
    /\ s.timer \in Timers
    /\ s.rx \in Handlers \cup {"None"}
    /\ s.notify \in BOOLEAN /\ s.kevent \in BOOLEAN
    /\ s.proc \in {"Running", "Crashed", "Released"}
    /\ s.kernel \in [Addrs -> {NoKernelAddr} \cup
                              [flag : Flags \ {"none"}, left : Lifetime]]
    /\ s.net \subseteq Advertises \cup Replies
    /\ s.sent \in {NoSent} \cup [type : ClientMsgs, elapsed : 0..ElapsedCap,
                                 first : BOOLEAN]
    /\ s.adv \subseteq 0..255
    /\ link \in BOOLEAN /\ ssid \in SSIDs /\ budget \in 0..MaxEnv
    /\ info \in {"none", "ADVERTISE", "REPLY"}

\* The client never dereferences a missing IAADDR: DHCPv6Client_Bound is
\* only started with a saved packet carrying one.
NoCrash == s.proc # "Crashed"

\* Spec, get_info: what the notification callback reads is a REPLY (the
\* most recently saved one) or nothing.
InfoIsReply == info \in {"none", "REPLY"}

\* The ADVERTISE the client requests from is one of the most preferred it
\* received during that Solicit (DHCPv6Client_Solicit keeps the saved
\* packet only against strictly better ones, across retransmissions and
\* duplicates).
RequestChoiceIsBest ==
    s.cstate = "Request" /\ s.saved.kind = "ADVERTISE" =>
        \A p \in s.adv : s.saved.pref >= p

\* While the client runs, the kernel holds no DHCPv6 address but the one
\* the client believes it has assigned: every path that drops or swaps
\* our_ip (Bound's swap, Decline, Unbound, Stop, Start, wake) removes it.
KernelHoldsOnlyOurAddress ==
    Running => \A a \in Addrs : s.kernel[a].flag # "none" => a = s.our_ip

\* Exchanges end: a client in Request, Renew, Rebind, Confirm or Decline
\* eventually leaves them all (REQ_MAX_RC, DEC_MAX_RC, CNF_MAX_RD and the
\* lease running out end every retransmission loop), however many messages
\* the network loses and however the link flaps.  The one way to stay is
\* DHCPv6ClientInactive, which Confirm's timeout calls when the link is
\* down: it cancels the timer and the receive handler and leaves the
\* client parked in Confirm, and a link that comes back only confirms from
\* Bound, Renew or Rebind.  (The process dying on the crash path of
\* DHCPv6Client_Bound is the crash run's finding, not a stuck exchange.)
Exchanges == {"Request", "Renew", "Rebind", "Confirm", "Decline"}
Parked == ~link /\ s.timer = NoTimer /\ s.rx = "None"
ExchangesEnd ==
    s.cstate \in Exchanges ~> (s.cstate \notin Exchanges \/ Parked \/ ~Running)

\* Spec, Bound: a client bound to a finite lease waits for T1 (or a link
\* event): it eventually arms the renew timer or leaves Bound.
BoundLeaseMaintained ==
    (Running /\ s.cstate = "Bound" /\ s.lease.valid_lifetime # INFINITE)
        ~> (~Running \/ s.cstate # "Bound" \/ s.timer.fn = "RenewRebind")

\* The handler whose timer and receive callbacks each state installs.
Owner == [Solicit |-> "Solicit", Request |-> "Request", Bound |-> "RenewRebind",
          Renew |-> "RenewRebind", Rebind |-> "RenewRebind",
          Confirm |-> "Confirm", Decline |-> "Decline", Inform |-> "Inform"]

\* No stale callback: every state change cancels or replaces the pending
\* timer callout and socket receive handler, so whatever is armed belongs
\* to the current state (Bound arms only the timer that starts Renew).
CallbacksMatchState ==
    Running =>
      /\ s.timer.fn # "None" => s.cstate \in DOMAIN Owner
                                /\ s.timer.fn = Owner[s.cstate]
      /\ s.rx # "None" => s.cstate \in DOMAIN Owner \ {"Bound"}
                          /\ s.rx = Owner[s.cstate]

\* Renew never waits past T2, and Rebind never past the end of the valid
\* lifetime: RenewRebind's timeout clamps each retransmission wait, so
\* the timeout that moves Renew to Rebind, or finds the lease gone, comes
\* when it is due and not up to MRT seconds later, across retries, REPLYs
\* and lost messages.
RenewRebindWaitWithinLease ==
    Running /\ s.cstate \in {"Renew", "Rebind"} /\ s.lease.valid
      /\ s.timer.fn = "RenewRebind"
      => s.lease_age + s.timer.left
           <= IF s.cstate = "Renew" THEN s.lease.t2 ELSE s.lease.valid_lifetime

\* An INFINITE lease never reaches Renew or Rebind: Bound arms no renewal
\* timer for it, and neither the address-changed event nor a wake re-arms
\* one.  RenewRebind's timeout converts the time since the lease start to
\* uint32_t unguarded; only a finite lease, which LeaseStillValid has
\* checked is not in the future, keeps that conversion defined.
InfiniteLeaseNeverRenews ==
    s.cstate \in {"Renew", "Rebind"} => s.lease.valid_lifetime # INFINITE

\* The kernel never keeps the address past the lease: the valid lifetime
\* Bound hands to the kernel is what is left of the lease, across
\* refreshes, sleep and the clock being set back.
KernelLifetimeWithinLease ==
    Running /\ s.our_ip # NoAddr /\ s.lease.valid
      /\ s.lease.valid_lifetime # INFINITE /\ s.kernel[s.our_ip].flag # "none"
        => s.kernel[s.our_ip].left <= s.lease.valid_lifetime - s.lease_age

\* A stateless client (DHCPv6ClientStart without allocate_address, also
\* when it restarts a stateful one) holds no DHCPv6 address, in its
\* bookkeeping or in the kernel.
StatelessHoldsNoAddress ==
    Running /\ s.mode = "Stateless" =>
        s.our_ip = NoAddr /\ \A a \in Addrs : s.kernel[a].flag = "none"

\* Spec, lifecycle and shared resources: the client's address lives only
\* as long as the client; DHCPv6ClientRelease of a client holding an
\* address (through Release start) takes it out of the kernel.
ReleasedHoldsNoAddress ==
    s.proc = "Released" => \A a \in Addrs : s.kernel[a].flag = "none"

\* Spec, states: a client exchanging messages (Solicit, Request, Renew,
\* Rebind, Confirm, Decline, Inform) always has its retransmission timer
\* armed; a client with nothing pending is Inactive, Bound or done
\* (InformComplete).  The Solicit, Confirm and Inform timeouts that find
\* the link down call DHCPv6ClientInactive.
ExchangeHasTimer ==
    Running /\ s.cstate \in Exchanges \cup {"Solicit", "Inform"} => s.timer.fn # "None"
=============================================================================
