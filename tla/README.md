# TLA+ model of the DHCPv6 client (IPConfiguration.bproj/DHCPv6Client.c)

This directory holds TLA+ specifications of the per-interface DHCPv6 client
in `src/IPConfiguration.bproj/DHCPv6Client.c`, with the TLC configurations
that check them. `PROJECT.json` lists the components, runs, mutants,
findings and hazards, and maps each definition to the source lines it
translates.

## The system

One `DHCPv6Client` object exists per interface. It runs entirely on one run
loop and is driven by four kinds of callback:

| Callback | Source | Model action |
|---|---|---|
| timer callout of the current state (`timer_callout_set`) | each `DHCPv6Client_<State>` with `IFEventID_timeout_e` / `start_e` | `TimerFire` |
| socket receive of the current state (`DHCPv6SocketEnableReceive`) | `DHCPv6Client_<State>` with `IFEventID_data_e` | `Deliver(m, dup)` |
| service calls | `DHCPv6ClientStart`, `Stop`, `Release`, `HandleEvent` | `StartClient`, `StopClient`, `Destroy`, `KernelAddressEvent`, `SleepWake`, `LinkChange`, `BSSIDChange`, `RenewEvent` |
| run-loop source of `PostNotification` | `DHCPv6ClientDeliverNotification` reading `GetInfo` | `DeliverNotification` |

The client talks to two things outside the file, and the model includes both:

- **Servers**, which answer SOLICIT with ADVERTISE and everything else with
  REPLY. The network may lose, duplicate and reorder their messages.
- **The kernel's IPv6 address table** of the interface:
  - an added address is *tentative*, and DAD then makes it *ok* or
    *duplicated*;
  - the kernel deletes an address when its valid lifetime ends;
  - every change raises an address-changed event.

## Modules

- `DHCPv6Client.tla` models the client and its world:
  - **State.** One record `s` carries the fields of `struct DHCPv6Client`
    (`cstate`, `mode`, `try`, `saved`, `saved_verified`, `lease`, `our_ip`,
    the pending `timer` and receive handler `rx`, the signalled
    notification `notify`). It also carries the kernel table, the messages
    in flight, the last datagram sent, and a ghost `adv` (the preferences
    of the ADVERTISEs seen during a Solicit).
  - **Handlers.** Each C handler case is an operator from client record to
    client record, named after the C function and case: `Solicit_Start`,
    `Request_Timeout`, `Bound_Start`, `RenewRebind_Data`, `HandleWake`,
    `Start`, `Stop`, `ReleaseClient`, and so on. Nested calls compose as
    they do in C, so Request data → `Bound_Start` → `HandleAddressChanged`
    → `Decline_Start` is one step, as on the run loop.
  - **Helpers.** The helpers with state effects (`LeaseStillValid`,
    `SavePacket`, `RemoveAddress`, `ClearPacket`) are part of every
    handler that calls them. `SendSolicit`, `SendInform` and `SendPacket`
    record the datagram put on the wire (type and ELAPSED_TIME).
  - **Queries.** `GetInfo` is a read-only operator over the record, used
    by the property about what the notification callback sees.
- `MC_DHCPv6Client.tla` supplies the servers, addresses and message sets
  for TLC. It also holds the refinement mapping onto `DHCPv6Phases`.
- `DHCPv6Phases.tla` is the abstract specification: the design's
  transition table (spec sections 4.1, 4.6 and 6) over three variables:
  - `phase`, the client's state (or `Released`);
  - `mode`, Idle, Stateful or Stateless;
  - `leased`, whether a lease valid now is held.

  Each action is one rule of the design (Start, Stop, Release, LinkDown,
  SolicitStep, Commit, BoundStep, LeaseLost, Wake, ...). `LeaseTime` lets
  time end a lease in any phase. The mapping is
  `phase <- PhaseOf, mode <- s.mode, leased <- LeaseIsValid(s)`, and
  `PhasesRefined == Phases!Spec` is checked as a temporal property.
- `DHCPv6RequestedOptions.tla` models the requested-options globals:
  - `default` and `requested` are the two array/count pairs; a C array is
    `[ptr, count]` with `ptr` NULL or a sequence;
  - `SetRequestedOptions(arg)` is `DHCPv6ClientSetRequestedOptions`;
  - `OptionIsOK` is the switch plus the loop, with the loop as the
    RECURSIVE operator `InList`;
  - `MakePacket` is the ORO part of `DHCPv6ClientMakePacket`, including
    its failure when the list does not fit (`OROCap`).

- `DHCPv6Retransmit.tla` models the retransmission timer exactly:
  - `try` and `retransmit_time` are `client->try` and
    `client->retransmit_time`, and `exchange` is the state whose start last
    cleared the counter;
  - `ClearRetransmit(x)` is `DHCPv6ClientClearRetransmit` (it resets
    `try` only; `retransmit_time` keeps the previous exchange's value);
  - `NextRetransmit` is `DHCPv6ClientNextRetransmit`, with
    `InitialTimeout` and `SubsequentTimeout` the two timeout functions and
    `Jitter(x, u)` the expression `x + DHCPv6_RAND() * x`;
  - `Timing` holds each exchange's IRT and MRT in seconds, the RFC 3315
    values of the `DHCPv6_*_TIMEOUT`/`_MAX_RT` macros, whose definitions
    are not in `src/`. Decline passes MRT 0 (no maximum), as the code does.

  Times are integers in microseconds. `DHCPv6_RAND()` is drawn from
  {−0.1, 0, 0.1}, the two ends and the middle of its interval: every
  bound checked is linear in each draw, so the ends are the extreme cases.
  After k tries every value is a multiple of 10^(6−k) µs, so with
  `MaxTry` ≤ 6 the integer arithmetic is exact.
- `MC_DHCPv6Transmit.tla` composes the two: `Transmit` is a timeout
  handler's `NextRetransmit` followed by its `SendPacket`/`MakePacket`,
  interleaved with `SetRequestedOptions` calls and exchange starts. It
  also gives the option codes and the service's arrays.

### Time

Time is discrete (ticks) and kept relative to now:

- `start` = now − `start_time`;
- `lease_age` = now − `lease.start`;
- `rr` = `renew_rebind_time` − now.

The clock-related actions are:

- **`Tick`** advances the pending timer, the wall clock and the kernel
  lifetimes together. It cannot pass a due timer. The kernel deleting an
  address when its valid lifetime runs out is assumed of the kernel; the
  file only passes it the lifetimes.
- **`ClockBack`** sets the wall clock back. Timers are unaffected.
- **`SleepWake`** advances the wall clock and the kernel lifetimes while
  timers stand still, then delivers the wake event, which is what
  `HandleWake`'s rescheduling comment describes.

Ages saturate at bounds chosen so that every comparison the code makes
still comes out the same. The wall clock moves back by at most
`Slack` = `MaxEnv` × `MaxSleep` (and only when clock events are in the
run), so:

- `lease_age` saturates at `AgeCap` ≥ `MaxLife` + `Slack`;
- `start` saturates at `StartCap` = max(`ElapsedCap`, `CnfMaxRD`) + `Slack`;
- `rr` is floored at −`Slack`.

### Abstractions

- **Retransmission intervals and random delays** are nondeterministic:
  `r.wait` ∈ 1..`MaxRT` and `r.delay` ∈ 0..`MaxDelay`. The `try` counter
  is exact, so REQ_MAX_RC and DEC_MAX_RC are modelled exactly. `try` is
  capped at the largest limit + 1, since the code only compares it with
  0, 1 and those limits.
- **A message** is `[type, server, pref, status, ia]`.
  - The IA_NA's status, address and raw T1/T2/preferred/valid are kept.
    `IaUsable`, `IaCode` and `LeaseTimes` translate `get_ia_na_addr_code`
    and the normalisation in `SavePacket`.
  - A message that fails the transaction-id, CLIENTID or SERVERID checks
    is ignored by the code, so it is not generated.
  - A new transaction id drops the replies still in flight.
- **Undefined behaviour:** `get_elapsed_time` converts a negative double
  to `uint32_t` after the clock is set back. The result is a
  nondeterministic `r.ub`. The same conversion in `RenewRebind`'s timeout
  (`SinceStart`) either saturates to 0 or wraps modulo 2^32, chosen by
  `r.ub`. Only an INFINITE lease survives `LeaseStillValid` with a
  negative time since its start. `InfiniteLeaseNeverRenews`, checked in
  the `wake` run (sleep, the clock set back, and an INFINITE lease on
  offer), shows that such a lease never reaches Renew or Rebind, so the
  conversion is never made with a negative time there.
- **Crashes and release:** `Bound_Start` without a saved IAADDR
  dereferences NULL and sets `proc = "Crashed"`. `DHCPv6ClientRelease`
  frees the client and sets `proc = "Released"`. In both cases
  `Terminated` stutters.
- **Kernel call failures.** Each step draws `r.kcall` from
  `KernelOutcomes`: "ok", or the call that fails ("socket", "difaddr",
  "aifaddr"). `Removed` and `Added` say whether the remove and add took
  effect. All calls of one step share the outcome. This is enough for
  every failure path in the code, since the only step that makes both
  calls (Bound start) stops at its first failure in the same way.
  `RemoveAddress` clears `our_ip` in every case, as the code does; Bound
  start ends in Bound with nothing pending on a socket or add failure.
  `kernel_leak` runs with a failing `inet6_difaddr`. With a failing
  `inet6_aifaddr`, the client reaches the same stuck Bound state as in
  `stuck_bound`.
- **Environment events** (sleep, clock, link, roam, renew, restart, stop,
  destroy) each cost one unit of `budget` (`MaxEnv`). `EnvEvents` chooses
  the kinds a run explores, and the first `Start` of an idle client is
  free.

## Runs

All runs use `MC_DHCPv6Client.tla`, except `options` and `oro_union`,
which use `MC_DHCPv6Transmit.tla`. The client's runs set
`KernelOutcomes = {"ok"}` unless the table says otherwise.

| Run | cfg | Expect | What it shows |
|---|---|---|---|
| core | `MC_core.cfg` | pass | Two servers (s2 with preference 255 and an infinite lease), a NotOnLink REPLY, loss and duplication, DAD outcomes, link flaps and Stop. It checks `TypeOK`, `RequestChoiceIsBest`, `KernelHoldsOnlyOurAddress`, `CallbacksMatchState`, `KernelLifetimeWithinLease` and `RenewRebindWaitWithinLease`. The last says Renew never waits past T2 and Rebind never past the end of the valid lifetime: `RenewRebind`'s timeout clamps each retransmission wait, across retries, REPLYs and lost messages. |
| live | `MC_live.cfg` | pass | `ExchangesEnd`, under `FairSpec`, one server, renew events and link flaps: Request, Renew, Rebind, Confirm and Decline are always left, with one exception the property names (`Parked`), and unless the process died on the path the `crash` run reports. A Confirm timeout with the link down calls `DHCPv6ClientInactive`, which cancels the timer and receive handler but leaves the state at Confirm, and a link that comes back only confirms from Bound, Renew or Rebind. Without that exception the property fails. |
| wake | `MC_wake.cfg` | pass | Sleep/wake with SSID and BSSID changes and the clock set back, with the finite and the INFINITE lease on offer. It checks `KernelHoldsOnlyOurAddress` and `InfiniteLeaseNeverRenews`: neither Bound, the address-changed event nor a wake (line 1750) arms a renewal for an INFINITE lease, which `RenewRebind`'s timeout relies on, since it converts the time since the lease start to `uint32_t` unguarded. |
| crash | `MC_crash.cfg` | violation | `NoCrash`: two renew events, the second after the lease ran out during Confirm, then a success REPLY. Bound's start reads the address of a NULL IAADDR. |
| info | `MC_info.cfg` | violation | `InfoIsReply`: a pending notification delivered in Solicit makes `GetInfo` return the saved ADVERTISE. |
| stuck_bound | `MC_stuck_bound.cfg` | violation | `BoundLeaseMaintained`: a tentative address whose remaining lifetime ends before DAD completes. The kernel deletes it, the address-changed handler finds nothing, and the client sits in Bound with no timer. |
| phases | `MC_phases.cfg` | pass | Restarts between stateful and stateless, sleep/wake, roaming, renew events and Release. It checks `CallbacksMatchState`, `KernelHoldsOnlyOurAddress`, `StatelessHoldsNoAddress` and `PhasesRefined` (every step is a transition of `DHCPv6Phases`). |
| kernel_leak | `MC_kernel_leak.cfg` | violation | `KernelHoldsOnlyOurAddress`: a failed `inet6_difaddr` in `RemoveAddress` (from Stop) clears `our_ip` and leaves the address in the kernel. |
| release_leak | `MC_release_leak.cfg` | violation | `ReleasedHoldsNoAddress`: the clock is set back in Bound, then `DHCPv6ClientRelease` finds the lease invalid. It frees the client without removing the address. |
| link_down | `MC_link_down.cfg` | violation | `ExchangeHasTimer`: a Solicit timeout with the link down calls `DHCPv6ClientInactive`. The state stays Solicit with no timer and no receive handler; the spec says it goes to Inactive. A link-up event is ignored in Solicit and the wake handler skips Solicit (lines 1726 and 1734), so only a restart by the service gets the client going again. |
| options | `MC_options.cfg` | pass | `OptionIsOKMatchesList`: after any sequence of `SetRequestedOptions` calls (NULL, empty and real arrays), `OptionIsOK` accepts exactly the always-allowed codes and the listed ones. `RetransmitWithinLimits`: every timeout of every exchange lies between 0.9 IRT and 1.1 MRT (never 0, even for Decline's MRT 0, and whatever the previous exchange left in `retransmit_time`). `BackoffGrows`: each retransmission waits at least 1.9 times the previous one, until it reaches 0.9 MRT. |
| oro_union | `MC_oro_union.cfg` | violation | `OROHasStaticDefault`: once the service installs its own list, the ORO drops DNS servers, domain list and captive portal. The spec says the requested set is their union with the override. |

Some disagreements found while modelling have no run of their own, because
the project keeps one run per question. They are listed as hazards in
`PROJECT.json`:

- the ELAPSED_TIME of RELEASE;
- Bound's start ending after a failed `inet6_aifaddr` (line 1869) with
  the old address already removed, so `our_ip` names an address the
  kernel no longer holds while the saved packet names the new one;
- Bound left with a stale lease after a renew event;
- Confirm's timeout going to Solicit with `our_ip` still set.

Each property of a passing run has a mutant in `PROJECT.json`. A mutant is
a plausible bug in one mapped definition, defined just before it in
`DHCPv6Client.tla` (for example `BoundSetAddress_KeepOld`,
`Request_Timeout_NoLimit`), and TLC finds that run's property violated when
the mutant replaces the original.

### Bounds

- **Servers and addresses.** Two servers and two addresses make address
  swaps in Bound (a1 → a2) and preference comparisons possible.
- **Lifetimes.** The finite lease has preferred 3 and valid 4 ticks, so
  T1 = 1 and T2 = 2. Every phase (Bound → Renew → Rebind → expiry) is
  reached within a few ticks.
- **Limits.** `ReqMaxRC` = `DecMaxRC` = 2, so the retry limits are
  exercised, and `CnfMaxRD` = 2 ticks (1 each in the `wake` run, which
  also has both servers and needs the room for sleep and clock events).
- **Network.** `NetCap` = 1 message in flight is enough for loss,
  duplication (`Deliver` with `dup`) and stale replies.
- **Environment budget.** `MaxEnv` = 2 environment events per run.
- **Requested options.** The service installs every list of at most two
  codes from {21, 23} (a SIP code and a static DNS code), the list
  <<22, 23, 24>>, the list <<21, 22, 23, 24>>, and NULL with counts 0..2.
  `OptionIsOK` is checked on every code 0..25 and 103, which includes
  codes in neither list. `OROCap` = 3 stands for the 1500-byte buffer:
  the static list fits, and the four-code list does not.
- **Retransmission.** `MaxTry` = 5 tries per exchange, with every
  exchange's IRT/MRT. Confirm (MRT 4 s) can reach its maximum at the third
  try, Decline (MRT 0) doubles through all five, and the others show the
  doubling with the extreme draws. Five tries keep the arithmetic exact.

Each run finishes within a few minutes with two workers.

## Fairness

`FairSpec` assumes weak fairness of:

- `Tick` (time passes);
- `TimerFire` (a due callout runs);
- `KernelAddressEvent` (the kernel's address-changed event is delivered);
- `DeliverNotification` (the run-loop source fires);
- `DadComplete` (DAD eventually ends).

All of these are run-loop or kernel duties. Nothing is assumed of the
servers or the network, which may lose every message, or of the service
(budgeted).

## Not modelled

- The private-address flag (DUID/IAID choice). It only selects
  identifiers, which the model abstracts.
- Message encoding (byte layout, DUID comparison). A message that fails
  the checks is ignored, which the model expresses by never generating
  it.
- Summaries and logging (`ProvideSummary`, `AddPacketDescription`), which
  only read state.
- The test harness (`TEST_DHCPV6_CLIENT`).
- The exact backoff values inside `DHCPv6Client.tla`: there a wait is
  any 1..`MaxRT` ticks, which over-approximates every backoff that
  `DHCPv6Retransmit.tla` computes exactly.
- `DHCPv6ClientSetNotificationCallBack`. The model assumes the service
  sets the callback once, before `Start`. A notification posted while no
  run-loop source exists is dropped by the code; the order of the
  service's calls is outside this file.
- What the service does with the array it passes to
  `SetRequestedOptions`. The code keeps the pointer, and the model
  assumes the array stays as it was.

## Plan for later work

1. The Renew/Rebind clamps of the wait to T2 and to the end of the valid
   lifetime, applied to `DHCPv6Retransmit`'s exact values.
2. `LeaseNormalization`: `LeaseTimes` against the spec's normalisation
   steps. In the INFINITE valid-lifetime case the code also forces
   preferred = INFINITE, which the spec does not say.
3. A liveness check that every address the client adds eventually leaves
   the kernel once the client stops holding it.
