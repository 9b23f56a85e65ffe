# Verification of the MOAL/MLAN WLAN driver and its in-driver L2 bridge

TLA+ models, TLC runs and TLAPS proofs for the parts of the driver whose
correctness depends on interleavings, failures and event order.

## 1. Inventory

The repository is NXP's WLAN driver (`mlan/`: the OS independent core,
`mlinux/`: the Linux glue, `mapp/`: user space tools) with an L2 bridge built
into the glue (`mlinux/moal_bridge.c`).  The bridge is this repository's own
code, is the most concurrent part of it and is where its design documents
(`docs/*.md`, `docs/superpowers/specs/`) state contracts, so it comes first.

| Component | State | Operations | What makes it correct |
|---|---|---|---|
| Bridge keepalive timer | `ka_armed`, `ka_last_fwd`, the hrtimer, `active` | `ka_kick`, the callback, notifier, deinit | one party re-arms; never stranded; never stopped under live traffic; off when idle; silent before `kfree` |
| Bridge runtime switch | `bridge_owner`, `bridge_suspended_owner`, `bridge_pending` and its work, `bridge_instance_active`, the peer's reference count | `bridge_iface` writes, the pending worker, switch / rollback, suspend / resume / discard, forget, unload, notifiers | references balance; a failed switch keeps its owner; a request is neither lost, inherited nor orphaned; it is applied when it can be |
| Bridge data path | `w2p_queue`, `p2w_queue`, `w2p_qlen`, `p2w_qlen`, two kthreads, `active`, `peer_released` | `rx_fast`, `peer_rx_handler`, `peer_pt_func`, `tx_hairpin`, the kthread loops, notifier purges, `peer_release_work`, deinit | every accepted frame is sent or freed once; the counters follow the queues; bounded by the cap; nothing reaches a released peer; no wake-up is lost, a queue drains, a teardown ends |
| Bridge filters | cached MACs and IPv4 addresses | ARP / link-local / self-address decisions | a frame is not sent back to the side it came from |
| mlan command engine and main process | command nodes, `cmd_free_q`, `cmd_pending_q`, `curr_cmd`, `cmd_sent`, the command timer, `mlan_processing`, `more_task_flag` | `woal_request_ioctl`, prepare, download, response, timeout, cancel, firmware dump, hang work | a node is in one place; a request is completed once and returns; a pending command has somebody coming for it |
| mlan 802.11n receive reorder | `start_win`, slots, bitmap, flush timer | data, AMSDU, BAR, drop report, flush, setup, teardown, host sleep | frames are refused exactly when old, leave in order, once, across the 12-bit wrap; a held frame is timed |
| mlan receive process | `rx_data_queue`, `mlan_rx_processing`, `more_rx_task_flag`, `rx_lock_flag`, `flush_data` | `mlan_rx_process`, `mlan_block_rx_process`, `wlan_flush_data`, table deletion | a table is worked on from one side; none is freed under its timer; nothing stays queued or held |
| mlan WMM, power save, scan, MLME | RA lists, PS state, scan queue | transmit, pause, sleep handshake, scan | packets are not lost on a pause; a sleep confirm is sent once |
| moal netdev, bus, cfg80211, ioctl | handles, netdevs | probe, remove, reset, marshalling | |
| user tools | none | ioctl formatting | |

The bridge's environment: forwarding runs in softirq or NAPI context inside RCU
read-side sections; netdevice notifiers run under RTNL; lifecycle operations
run in process context under `AddRemoveCardSem` and `bridge_lifecycle_lock`;
resets, card removal and module exit reach it through `moal_main.c`,
`moal_pcie.c` and `moal_sdio_mmc.c`.

The core's environment: interrupts queue packets and work; the main, receive,
response and hang works, or the NAPI poll, run the core; its two timers run in
softirq; requests come from process context and sleep until somebody completes
them.  The command lock, `pmain_proc_lock` and `prx_proc_lock` protect short
sections, and much is read outside them, which is what the models are about.

PROJECT.json lists the hazards found, each
at its line.

## 2. Modules

### BridgeKeepalive (`MCBridgeKeepalive`)

One bridge instance and its adaptive timer.  A forwarding context `p` walks
`out -> found -> in -> stamp -> test -> cas -> start`: it finds the instance in
an RCU section, passes the `active` check and, for a queued frame, runs
`moal_bridge_ka_kick` one memory access at a time.  The callback walks
`entry, check, clear, reread, reclaim, forward`; deinit its numbered steps, with
`synchronize_net` and `synchronize_rcu` as grace periods that wait for the
contexts in flight when they start.  `RxFast` contexts reach the instance through
`handle->bridge`, `PeerCapture` contexts through the peer's handler; deinit cuts
the two off at different steps.

Time is the age of `ka_last_fwd`, saturating at `Cutoff`: the code compares
nothing else.  `StoreBuffer` says whether `WRITE_ONCE(ka_last_fwd)` may linger in
the CPU's store buffer (as on x86 and arm64); a successful `cmpxchg` drains it.

### BridgeSwitch (`MCBridgeSwitch`)

Owner, single instance, suspended snapshot, retained request and peer reference
count.  The semaphore and the lifecycle mutex are always held together on these
paths and are one `lock`; a step of its holder is one RTNL section or one
stretch between two, so link changes, renames, unregistration and the release
work fall between any two steps of a transaction.  Every section of
`bridge_pending_lock` is one `Pending...` operator from request record to
request record.  `Scenarios` are the sets of disturbances that may meet in one
behaviour, which keeps the questions of a run apart.

| Code | Action |
|---|---|
| `bridge_iface_set`, `switch_iface_request` | `Write`, `Interrupted`, `Acquire`, `Resolve`, `Defer`, `Put` |
| `pending_work_fn` | `WorkStart`, the request actions, `Post` |
| teardown, `__init_locked`, `validate_binding_locked`, rollback | `Teardown`, `HoldPeer`, `Register`, `Publish`, `Commit`, `RolledBack`, `Invalid` |
| `suspend_owner*`, `pre_reset`, `post_reset`, FLR prepare and done, `resume_owner`, `discard_suspended_owner` | `ResetSuspend`, `ResetRefused`, `ResetDestroy`, `ResetRebuild`, `ResetKeep`, `ResetResume`, `ResetFail` |
| `forget_handle`, `moal_bridge_init` at load | `CardRemove`, `CardAdd` |
| `woal_cleanup_module`, `pending_cleanup` | `UnloadDisable`, `UnloadDrain`, `UnloadTeardown` |
| notifiers, `peer_release_work` | `LinkEvent`, `PeerEvent`, `PeerUnregister`, `PeerReleaseWork`, `Rename` |

Abstractions: a card has one STA interface; running, associated and carrier are
one `ready` flag; one reset is in progress at a time; DBDC companions
(`pref_mac`) and `netif_device_detach` are left out;
`bridge_runtime_switch` and `bridge_runtime_deferred` are 1 (both are fixed at
load time).

### BridgeDataPath (`MCBridgeDataPath`)

The frames of one instance.  An *agent* is a forwarding context, one of the two
kthreads, the notifier (one thread at a time, RTNL) or the peer release work;
`pc` is where it stands, `hand` the frame it holds, `dir` the queue it works on.
`live` counts the `sk_buff`s the bridge owns and is changed only where the code
takes, copies, frees or gives one away.

A context walks `out -> found -> in -> want -> won | over`: found by the stack's
or the driver's hook, past the `active` test, past its filter, and on either side
of `atomic_inc_return`; a winner queues its frame and is at `wake` until its
`wake_up`.  A kthread in `wait_event_freezable` tests its condition (`wait`) and goes
to sleep (`asleep`) if it is false; from there only a `wake_up` or `kthread_stop` takes
it back to the test.  `prepare_to_wait` precedes the test, so test and sleep are one
step: a `wake_up` in between would let `schedule` return at once.  `Air` contexts run `moal_bridge_rx_fast`, `Wire` contexts
the peer's `rx_handler` or its `packet_type`, `Local` contexts
`moal_bridge_tx_hairpin` for the box's own transmissions.  `Fwd` and `Tap` are the
two ways a kthread's own `dev_queue_xmit` enters the bridge again: the hairpin in
`woal_hard_start_xmit`, and the `packet_type` tap that sees what the peer sends;
the kthread stays in `sending` until that context is `out`.

| Code | Action |
|---|---|
| `moal_recv_packet`, `moal_recv_amsdu_packet`, `woal_hard_start_xmit`, the peer's receive path | `Capture` |
| `rx_fast`, `peer_rx_handler`, `peer_pt_func`, `tx_hairpin` | `CheckActive`, `Leave`, `Accept`, `Reserve`, `Undo`, `NoHeadroom`, `Enqueue`, `WakeUp` |
| `w2p_thread_fn`, `p2w_thread_fn` | `WaitEvent`, `Dequeue`, `Count`, `ThreadCheck`, `ThreadDrop`, `Xmit`, `XmitReturns`, `Drained` |
| `netdev_event` | `NetdevDown` and the purge (`Dequeue`, `Count`, `Drained`), `NetdevNotReady`, `NetdevUpCheck`, `NetdevUpSet`, `PeerUnregister` |
| `peer_release_work` | `ReleaseStart`, `ReleaseStopW2p`, `ReleaseStopP2w`, `ReleasePurge`, the purge, `ReleasePut` |
| `__moal_bridge_deinit_locked` | `DeinitDeactivate`, `DeinitReplayDown`, `DeinitReplayUnregister`, `DeinitFlush`, `DeinitUnpublish`, `DeinitFree` |

Abstractions, and in which direction they err:

- A frame is where it came from and its kind: whom it is addressed to as the
  filters tell it apart.  Each path's filter is the set of kinds it may queue.
  VLAN tags, link state, the cached IPv4 addresses and allocation results are
  free choices where they are read, so every mixture of stale and fresh values
  is covered.
- `rx_fast` re-reads `active` for each A-MSDU subframe: subframes are visits of
  their own.
- `dev_remove_pack` and `netdev_rx_handler_unregister` wait for readers
  themselves; the model leaves that out and lets contexts run longer than the
  kernel would.
- `unregister_netdevice_notifier` replays DOWN and UNREGISTER for every device,
  so deinit always finds `peer_released` set: its `!peer_released` branches are
  unreachable and have no action.
- `dev_queue_xmit` runs the device's transmit function before it returns; a frame
  left in a qdisc is one the driver takes at once.

### RxWindow, RxReorder, ReorderBuffer (`MCRxReorder`)

`RxWindow` is the reorder table of `mlan_11n_rxreorder.c` as operators from table
to table: the two branches of the old test, the slide, the slot index, the
rotation, the bitmap, the timer's fields.  The modulus (`SeqSpace`), half of it
(`HalfSpace`), the window and the width of the bitmap are constants, so a wrap
fits into a small instance.  `RxReorder` adds the peer and the agreement.  The peer
obeys its window (it sends and repeats numbers in `base .. base + WinSize - 1` in
any order, any of them may be lost) and numbers frames without wrap; `astart` is
the number `start_win` stands for: after a call the one close to the old window, or to
the frame where the call set the window anew.  One action is one call.

| Code | Action |
|---|---|
| `mlan_11n_rxreorder_pkt` for data and AMSDUs, for a BAR | `ReceiveFrame`, `ReceiveBar` |
| `wlan_11n_rxba_sync_event` | `RxBaSync` |
| `wlan_flush_data`, `wlan_flush_rxreorder_tbl` | `TimerFires`, `FlushWork` |
| `wlan_11n_create_rxreorder_tbl`, the ADDBA response, `wlan_11n_delete_rxreorder_tbl_entry` | `AddBa`, `AddBaResponse`, `DelBa` |
| host sleep | `HostSleep` |
| the peer (external) | `PeerAdvance` |

`ReorderBuffer` is the abstract specification: a set of numbers held, the next one
expected, and what a step hands up; no modulus, slots, bitmap or timer.
`ImplementsBuffer` is the refinement, mapping slot `i` to `astart + i`.  The buffer
allows a slide to release everything, because the code does so at the wrap (see
known deviations), and promises order and exactness for the rest.

### RxProcess (`MCRxProcess`)

The contexts that meet at one table, one visible memory access per step: the
interrupt, `mlan_rx_process` (as a work and as a NAPI poll), the flush timer's
callback, and the thread that deletes or creates the table or switches the BSS role
behind `mlan_block_rx_process`.  What a packet does to the window is reduced to
whether frames stay held.  Three history variables mark the places where the code
has a gap, so that a property can say exactly where it stops holding: `raced` (the
receive process looked between two stores of `wlan_flush_data`), `cut` (it gave way
to a block) and `zeroed` (`woal_timer_handler` cleared `time_period` of a timer
re-armed under it).  No guard reads them.

### CommandEngine (`MCCommandEngine`)

Request threads, the main process, the response work, the command timer's callback
and the hang work.  A request walks `new, lock, prepare, kick, wait, sleep,
returned`; code under the command lock is one step, and `curr_cmd`,
`num_cmd_timeout`, `cmd_timer_is_set` and the local `pioctl_buf`, which are read
without it, have steps of their own.  `Scenarios` are the sets of faults that may
meet in one behaviour.

| Code | Action |
|---|---|
| `woal_request_ioctl`, `wlan_prepare_cmd`, `woal_wait_ioctl_complete` | `Request`, `GetCmdNode`, `PrepareFails`, `QueueCmd`, `KickMain`, `Wait`, `GiveUp` |
| `mlan_main_process` | `MainWork`, `LoopTop`, `Exit` |
| `wlan_exec_next_cmd`, `wlan_dnld_cmd_to_fw`, `wlan_pcie_send_cmd` | `ExecNext`, `DnldSet`, `DnldSend`, `DnldFails`, `DnldTimer` |
| `wlan_pcie_process_cmd_resp`, `wlan_process_cmdresp` | `RespTake`, `RespSignal`, `RespEnter`, `LoopResp`, `RespRead` to `RespDone`, `RespAsleep` |
| `wlan_cmd_timeout_func` | `Expire`, `CbStart` to `CbEvent` |
| `wlan_cancel_bss_pending_cmd`, the hang work's `wlan_cancel_all_pending_cmd` | `RemoveBss`, `HangWork` |
| `MLAN_EVENT_ID_DRV_DBG_DUMP`, `woal_process_hang`, `woal_fw_dump_timer_func` | `CbEvent`, `DumpEnds` (both by `ProcessHang`) |
| `woal_hang_work_queue`'s early returns, `woal_cancel_hang_work`, `woal_clear_hang_handle` | `HangReturns`, `HangClear` |
| another card's hang (external to this card) | `OtherHangs`, `OtherClears` |
| the card (external) | `CardAnswers`, `CardDies` |

The recovery is the record `hang`: the hang work of this card (`idle`, `queued`, or
`clear` between its cancel and `woal_clear_hang_handle`), a firmware dump that will ask
for it, and whose card is in `reset_handle`, of which there is one for all cards.  A
timeout asks `woal_process_hang` for the work at once, or a dump in progress does so at
its end (its own timer ends it at the latest).  `woal_process_hang` queues the work only
if `reset_handle` is free; a card that is being reset or removed (`"reset"`) may be
refused, and its work may return before it cancels.

`raced`, `broke` and `hang.lost` are history again: an overlap no lock prevents, a failed
download that ended the loop, and a hang that was dropped.  Left out: power save, scan queues, events and data.

## 3. Runs

The runs of PROJECT.json, by question.  `CHECK_DEADLOCK FALSE` is set throughout:
an instance that is freed, or a switch nobody writes to, has nothing left to do.

| Run | Result | Bounds | Why they are enough |
|---|---|---|---|
| `keepalive` | `SingleArmer`, `NotStranded`, `FreedIsQuiet`, `KeptUnlessStoreLate` hold with store buffers; `IdleStopsTimer`, `DeinitCompletes` under fairness | one context of each kind, `Cutoff` 1 | two contexts and the callback are the three parties that can arm; age 0 and 1 are live and idle |
| `keepalive_tso` | `LiveTrafficKeepsTimer` fails with store buffers (finding 1) | `Cutoff` 2 | |
| `switch_link` | `RefsBalanced`, `FailedSwitchKeepsOwner`, `LostOnlyForCause` hold under link changes, a vanished peer, renames and failed allocations, and under reloads that are refused or fail because the peer is gone | 2 cards, 3 names, 2 writes, 1 reload | a request, one that replaces or cancels it, and a worker that retries the first; the third name is the one to rename to |
| `switch_reset` | `OwnerHasInstance`, `NoOrphanRequest`, `UnloadQuiet`, `NoInheritance` hold through reloads, PCI resets, hangs, hotplug and unload | 2 rebuilds, both cards bridged at load | a reset and a second one, or a removal and an addition, while a request is retained |
| `switch_live` | `AppliedWhenReady`, `RequestsEnd`, `PeerLetGo` under fairness | 2 writers, 2 writes | two waiters for the semaphore and the worker |
| `datapath` | `QlenExact`, `HardCap`, `SkbsAccounted`, `ReleasedIsQuiet`, `WakeUpPending` hold | one WLAN and one wire context, both capture methods, `Cap` 1, broadcast ARP | `Cap` 1 makes two producers race for the last slot; a broadcast ARP is accepted by all four filters, hence takes every path |
| `datapath_live` | `QueuedFramesLeave`, `DeinitCompletes` under fairness | a wire context, `Cap` 2, hairpin on | unbounded traffic, notifications and teardown; with two slots a frame is queued while the kthread drains, goes to sleep or sleeps |
| `datapath_tee` | `NoReflection` fails (finding 2) | | |
| `reorder` | `SlotsPlaced`, `RefusesExactly`, `HeldIsTimed`, `InOrderUnlessEarly`, `BarStopsAtItsNumber` hold and the table implements `ReorderBuffer` | modulus 16, window 4, the peer's base from 14 to 17, one agreement, one sleep request at a time | the window wraps from 15 to 0 with frames on both sides; modulus, half and window keep the code's proportions (`WinSize < HalfSpace`) |
| `rxproc` | `BlockedIsQuiet`, `FreedIsQuiet`, `HeldIsCovered` hold; `QueueDrainsUnlessCut`, `HeldLeavesUnlessMissed` under fairness | 2 packets, budget 1, 2 operations, NAPI on and off | a packet to hold and one to release or to arrive too late; a budget of 1 ends a poll with work left; a deletion and the creation after it |
| `command` | `EachNodeOnce`, `CompletedOnce`, `TouchesLiveUnlessRaced`, `PendingIsCovered`, `TimeoutStopsCommands` hold in three scenarios: failed sends and mappings, failed results, signals, commands that cannot be built and the removal of a BSS; pre-asleep refusals with failed results; responses to another command and a reset of this card | 2 requests, 2 nodes, 1 resend | one command current and one pending, or both of a cancelled BSS and not |
| `command_live` | `RequestsReturn` under fairness with a firmware that falls silent, together with commands that cannot be built and failed DMA mappings; with responses to another command and a firmware dump; with a dump and another card's recovery; with a reset of this card | as above | the second request is the one behind the silent command |

`command` takes the nodes as symmetric: they differ only in the order in which they start in
`cmd_free_q`, and no definition or property tells them apart.  `command_live` has the constraint `Calm`: no overlap, failed download or dropped hang so
far.  Each of the three is for ever once it happened and is an alternative of
`RequestsReturn`'s conclusion, so every behaviour that leaves the constraint satisfies the
property and none that violates it is cut.

`TypeOK` of each module states the ranges of the variables.  It holds in the same instances
and can be added to their `INVARIANTS`; for BridgeKeepalive, BridgeDataPath, BridgeSwitch
and CommandEngine it is proved (section 4).

Every property of a passing run has a mutant in PROJECT.json: a dropped guard, a
lost decrement, a missing grace period or the like in one definition, under which
the run fails.

### Findings

1. **A live link can lose its keepalive timer** (`moal_bridge.c:439`).  Nothing
   orders the store of `ka_last_fwd` before the plain read of `ka_armed`, so the
   callback's re-read can miss the stamp while the context sees `ka_armed == 1`.
   The comment at 414-416 says this cannot happen.  The next frame re-arms it.
   `KeptUnlessStoreLate`, checked by `keepalive` and proved, says that this is the only
   way: a stamp that leaves its store buffer after its kick has read `ka_armed` and ended.
2. **Broadcast ARP from the wire returns to the wire** (`moal_main.c:8997`).  The
   hairpin hook sees the p2w kthread's transmissions too, although its comment and
   design speak of locally generated frames.

### Known deviations

Places where the models show the code doing less than a reader would expect.  Each
is either excluded by name from a property (a history variable) or comes back when
the constants are changed as said.

Bridge:

- A request without an owner (`moal_pcie.c:1219`): a PCI reset of the owner after
  the peer is gone tears the bridge down and keeps the retained request, against the
  design document's "other terminal no-owner teardown clears all pending state".
  `NoOrphanRequest` fails when `"peer_gone"` is added to the scenario of
  `switch_reset.cfg`.
- A lost kick (`moal_bridge.c:2504`): the kick of a resumed owner is dropped when the
  worker is still returning from an attempt refused during the suspension; the
  request then waits although everything is ready, while the comment at 289-290 says
  that resume re-kicks.  `AppliedWhenReady` fails in `switch_live.cfg` with
  the scenario `{"flr"}`, or `{"reload"}`, and one rebuild.
- The `packet_type` fallback has no link-local check and holds back only untagged
  EAPOL, while `moal_bridge.c:746-747` says such frames are never forwarded; and being
  an `ETH_P_ALL` tap it also sees the peer's own transmissions, whose Ethernet header
  it pushes a second time.

Reorder table:

- A slide across the wrap flushes the whole window
  (`mlan_11n_rxreorder.c:178-181`), not only what lies below the new start as the
  comments at 199-202 and 825-829 say.  Frames leave early and later ones may
  overtake them: `early` in `InOrderUnlessEarly`, the second choice of the abstract
  `Slide`.
- The bitmap has 64 bits (`mlan_main.h:1508`) and a window may have up to 0x3ff slots
  (`mlan_decl.h:190`); frames past the 64th have no bit and no say over the timer.
  `SlotsPlaced` fails with `BitmapBits` 2.
- A block ack request that comes first after host sleep moves the window to its
  number (`mlan_11n_rxreorder.c:948-957`).

Receive process:

- `wlan_flush_data` raises the adapter's flag before the table's
  (`mlan_11n_rxreorder.c:429`): a process that looks in between clears the first and
  misses the second (`raced`).  The frames wait for the next packet.
- Lifting a block starts nothing (`mlan_shim.c:1009`): packets left by a process that
  gave way wait for the next interrupt (`cut`).
- `rx_lock_flag` is no counter (`mlan_misc.c:1394`): the first table a role switch
  deletes lifts the role switch's own block, and `wlan_init_priv` may run beside the
  receive process.
- `woal_timer_handler` clears `time_period` also of a timer that was re-armed during
  its callback (`moal_main.h:510`), and `moal_free_timer` then takes it for stopped
  (`zeroed`).  In NAPI context `del_timer` does not wait for the callback at all
  (`moal_main.h:569`), so `FreedIsQuiet` is stated for the work only.
- A NAPI poll may handle more packets than its budget: after the break
  `more_rx_task_flag` starts the loop again with the count kept (`mlan_shim.c:1134`).

Command engine:

- The timeout callback clears `cmd_timer_is_set` and reads `curr_cmd` twice without
  the lock (`mlan_cmdevt.c:2586-2603`); a response in between takes the command away.
- A response handler keeps `pioctl_buf` over a cancel that completes the request
  (`mlan_cmdevt.c:2312`).  Both are `raced`.
- A request marked as timed out whose response then fails is completed without a wake
  up (`moal_shim.c:1102-1107`).
- A hang can be dropped (`hang.lost`).  One `reset_handle` and one hang work serve all
  cards: `woal_process_hang` returns without a trace when another card's hang is being
  worked on (`moal_main.c:1728`), and the end of that work starts nothing for this card.
  Nothing asks again, since a timed out engine sends no further command; the threads that
  sleep for an answer stay until a signal or the removal of the card.  With two cards
  whose firmware stops at the same time the second one is in this state.  A card that is
  being reset or is not ready is refused too (1714-1727), and the work returns before
  `mlan_ioctl(NULL)` when it finds the card resetting, removed or a canceller at work
  (1522-1549).  There the reset or the removal is expected to clean up; the PCIe paths do
  so by themselves (`moal_pcie.c:457`, `moal_pcie.c:3419`), which is not modelled.
  `RequestsReturn` fails in `command_live.cfg` without its alternative `hang.lost`, with
  the scenario `{"silent", "other"}` or `{"silent", "reset"}`.
- A response whose command number differs leaves the current command with its buffer and
  its timer (`mlan_cmdevt.c:2335-2340`): only the timeout ends it.
- A request admitted before the driver is marked hung but queued after the hang
  work's cancel sleeps until the reload (`moal_ioctl.c:647`): `RequestsReturn` speaks
  of those asleep before.
- A failed download ends the loop with commands pending
  (`mlan_shim.c:1388-1392`, `broke`), and a failed DMA mapping leaves `cmd_sent` set
  (`mlan_pcie.c:3165-3172`), so that no later command is sent.
- Between the queue and `curr_cmd` a node is in neither (`mlan_cmdevt.c:2214`), and a
  cancel passes it by.
- The comment "It will re-send the same command again" (`mlan_cmdevt.c:2566`)
  describes what the timeout function no longer does.

### Fairness

- Keepalive: weak fairness for the clock, the contexts, the callback, the timer
  and RTNL sections (softirqs and callbacks run to completion); strong fairness
  for `hrtimer_cancel`, which polls far faster than the timer's period.
- Switch: weak fairness for the worker, the holder of the lock, the release work
  and pending notifications; strong for acquiring the semaphore, whose waiters
  are served in order, and for the second half of a PCI reset.
- Data path: weak fairness for contexts, kthreads, the notifier and the release
  work; strong for deinit's steps, because RTNL is granted to a waiter however
  many notifications compete.
- Receive process: weak fairness for a packet's kick, the receive context, the
  callback, the blocking thread and an armed timer.  An armed timer is taken not to
  expire within its own restart (its period is `MIN_FLUSH_TIME`, 100 ms, or more).
- Command engine: weak fairness for request threads that have begun, the works, the
  callback, the hang work, a timer that stays armed and the end of a firmware dump, which
  has a timer of its own.  None for the card, which may never answer, and none for another
  card's recovery, which may never end.
- Reorder: safety and refinement only.

Frames, notifications, writes and teardowns are
  never assumed to come.

## 4. Proofs

Theorems hold for every value of the constants that satisfies the `ASSUME` of the
module: any number of contexts, any cutoff, any cap.

**BridgeKeepaliveProofs** (from `KeepaliveAssumption`).  `TypeCorrect` is
inductive as it stands.  `OneArmer` and `NeverStranded` need that whoever is at
the start of the timer holds the arm and nobody else does.  `LiveTrafficKept`
is `KeptUnlessStoreLate`: no step of the callback or of a context leaves a fresh stamp
without a timer, except that a stamp reaches memory after its kick has ended (`StoreLate`,
finding 1).  It needs what each party past its read of the stamp has seen,
and no assumption about store buffers.  `TeardownQuiet` needs which
contexts each grace period waits for.

**BridgeDataPathProofs** (from `DataPathAssumption`).  One inductive invariant
`IInv`, in parts:

- `Placed`, `Stored`, `Nested`: every agent stands where its code can, holds a
  frame exactly there, and a re-entered context runs inside its kthread's
  `dev_queue_xmit`.  Without `Nested` a kthread could take a second frame while
  its first is still in the hairpin.
- `Closed`, `Quieted`: once the peer is released no activation is pending; the
  grace period waits for every context past the `active` test, then the kthreads
  end one after the other, then the queues are emptied and stay empty.
  `ReleaseQuiet` is their last stage.  They are also what makes `DeinitFree`'s
  purge, which does not touch the counters, harmless.
- `CountInv`: `QlenExact` and `HardCap` together.  The cap follows from exact
  counters: a context wins a slot only when the counter, itself included, is
  within the cap, and the winners and the queue are among those it counts.
- `SkbInv`: the balance of `sk_buff`s, by the change of one cardinality a step.
- `WakeUpPending`: a kthread asleep is not being stopped, and if its queue holds a frame
  a producer is at its `wake_up`.  It is kept because the kthread sleeps only on an empty
  queue and every producer that fills one goes through `wake`.

The theorems are `CountersExact`, `CapHolds`, `SkbsBalance`, `ReleaseQuiet`,
`WakeUpNotLost` and `DataPathTypeCorrect`.

**RxProcessProofs** (from `RxProcessAssumption`).  `BlockKeepsQuiet`,
`FreedKeepsQuiet` and `HeldKeepsCovered`, for any number of packets, operations and any
budget.  None is inductive.  The first needs that the flag says where the process stands
(`FlagIsPosition`) and that a thread past its wait has stopped it (`BlockHolds`).  The
second needs that the two fields `moal_free_timer` reads tell a timer that may still
fire (`TimerLegible`), that nothing lifts the block of the thread that deletes
(`DeleterBlocks`), and that the receive process arms a timer only while it is in a
table (`TableAtHand`): without the last one a process could re-arm the timer
after the deletion has looked at it.

`HeldKeepsCovered` is proved from a second invariant, `HInv`, on top of `IInv`.  A held
frame may rest on any of several parties, so `HInv` says for each hand-over that the
next one is there before the last one goes: an armed timer is live and its callback on
its way until it has asked for the flush (`CallbackOnItsWay`, `ArmedIsLive`), the
callback marks the adapter before the table (`FlagBeforeTable`), `timer_is_set` means
what it says (`SetIsTimed`), a table at rest that holds frames is timed (`HeldAtRest`),
and a walk that has consumed the adapter's flag still finds the table's own
(`HeldInWalk`).

**BridgeSwitchProofs** (from `SwitchAssumption`, for any set of handles, names and
writers, any scenario, any number of writes and resets).  One inductive invariant
`IInv` carries `TypeCorrect`, `ReferencesBalance`, `OwnerKeepsInstance`,
`FailureKeepsOwner` and `UnloadStaysQuiet`:

- `JobOfHolder`, `ResetHolds`: who holds `AddRemoveCardSem` and the lifecycle lock
  decides which transaction is under way, and only between the two halves of a PCI
  reset is the lock free of it.  Everything else is stated by step of the transaction.
- `OwnerByStep`: where `bridge_owner` and the instance stand at each of these steps.
  `OwnerHasInstance` only speaks of the state at rest; the steps between are what
  carries it from one rest to the next.
- `TargetsNamed`: the handles of a transaction keep their netdevs while it runs, by RTNL
  and the lock.  Without it a rollback could find no netdev to go back to.
- `SnapshotOfReset`: the suspended owner is the card of the reset in progress.
- `InstanceShape` and `RefsBalanced`: the instance's reference goes with the release
  work that the peer's unregistration scheduled, and with nothing else.
- `FailureKnown`: a rollback knows that the request failed, and a request that lost the
  owner has cancelled what was retained.
- `RequestNamed`, `GateClosed`: a request has a name, and the gate closes for good before
  the drain.

**BridgeRequestProofs** adds what becomes of a retained request.

- `NothingInherited` needs that names are distinct (`NamesDistinct`), that the netdev
  that bore the name at admission bears it still (`AdmittedBears`: whatever takes
  the name from it cancels the request) and that the worker's transaction aims at it
  (`WorkerTarget`).
- `NoneOrphaned` is `NoOrphanRequest` under `NoRefusal`: the peer is registered, or the
  behaviour has no PCI reset.  Without it the theorem is false, by the first
  deviation listed in section 3.
- `LostForCause` is `LostOnlyForCause` under `ResetsUndisturbed`: PCI resets and hotplug
  do not meet in the behaviour.  Where they meet, `AutoBridge` is not empty and there are
  three cards, a card added between the two halves of the reset becomes the owner;
  the resume then fails with `-EBUSY` and cancels the request retained under the new
  owner.  The lemmas (`LInv`) are that nobody owns the bridge while an owner is
  suspended (`SuspendedAlone`), that generations only grow and the worker's snapshot is
  that of the retained request (`SnapshotFresh`), and that what the worker reports
  afterwards is what it found (`WorkerReports`).

**CommandEngineProofs** (from `CommandAssumption`, for any finite set of nodes, any set
of requests, any scenario and any number of refusals).  One inductive invariant
`EngineInv` carries `TypeCorrect`, `NodesOnce`, `RequestsOnce`, `TouchesLive`,
`PendingKeepsCovered` and `TimeoutStops`:

- `Standing`: where each context stands and which of its locals are set there.  The
  recovery disturbs none of this until the hang work cancels (`RecoveryRest`).
- `LeavesCovered`: the main loop leaves only after it has looked at the pending queue,
  or with the note that another round is due.  A request queued in between is what
  `PendingIsCovered` is about.
- `Timed`: unless a command was raced, the timer and its callback run for a current
  command that was sent, and a response in hand has stopped both.  `TimeoutStops` and
  the branch of the callback that finds no current command need it.
- `Placed`: `EachNodeOnce`, place by place: the two queues repeat nothing and share
  nothing with each other, the current command or a context's hand.
- `Borne`: a node that bears a request is the only one that does, and its request is
  live and not completed; `CompletedOnce` is the consequence.
- `CopiesFresh`: the copies of `pioctl_buf` that a context carries over an unlock are
  still the current node's, unless the command was raced.

**RxReorderProofs** (from `WindowAssumption` and `ReorderAssumption`, for every sequence
space that is twice `HalfSpace`, every window below half of it, and any number of
frames, agreements, flushes and sleeps).  The invariant is `TableInv`, what the table
holds, with `TimerInv`, who will see to it.

- The arithmetic: `SameSeq` says that a frame and a number agree modulo the sequence
  space.  `OldExact`, `BeyondExact`, `SlotExact` and `SlidExact` show that the code's
  tests, branch by branch, decide what comparing the frames themselves would, as long as
  frame and start are less than half the space apart.  They hold for `start_win` =
  `SeqSpace` too, which the end of the check can store (`last_seq + 1` is not reduced).
- `Fits`: slot `i` is empty or holds frame `a + i`, where `a` is the frame `start_win`
  stands for.  `PlaceFrame` and `PlaceBar` carry it through the old test, the slide, the
  slot and the scan.
- `Sound`: what is held, and so the start, is below the peer's end, and the peer's end is
  within half the space of the start, except after host sleep; during the check nothing
  is held and `last_seq` is a frame near the announced start.  Without these bounds the
  tests are not exact.  `ReorderSound` shows that a whole call of
  `mlan_11n_rxreorder_pkt` keeps it.
- `Marked` and `Clocked`: the bitmap shows the slots, the timer's two fields agree, and
  what is held has the timer or a flush.

The theorems are `SlotsStayPlaced`, `RefusalExact`, `HeldStaysTimed` and `BarStops`.  The
first and the third assume `WinSize <= BitmapBits` and are false without it (section 3,
the 64 bits of the bitmap); the other two need no such assumption.  They rest on
`PeerAdvance`: the peer does not run more than half the space ahead of what the host has
heard.

Only model-checked: all liveness (fairness and `ENABLED` are outside the proof
system), the refinement of `ReorderBuffer`, and `InOrderUnlessEarly`: both speak of the
frames a call hands up, which `Dispatched` selects with `SelectSeq`, and the provers know
nothing of that operator.

## 5. Not modelled

- In the bridge: the rename of a target between the resolution of its name and
  the retention of the request (the stray name is cancelled by the recheck that
  admission schedules); three cards, where a card added during a PCI reset's
  window could claim the bridge; overlapping resets; the statistics node.  `AppliedWhenReady` is stated for a request whose owner and peer stay
  up: the recovery of the owner's or the peer's link kicks nothing, so a request
  refused for that reason waits for the next event of its target.
- In the reorder table: A-MSDU deaggregation, the transmit side's block ack tables, and
  `wlan_11n_rxba_sync_event` running in the main process beside the receive process
  (`mlan_11n_rxreorder.c:1361`); `RxReorder` takes the call as one step.
- In the command engine: scan queues, events, power save, the several hundred command
  layouts, SDIO and USB; what the reset after the hang work does; a second firmware dump
  of the same card while the first one's hang is worked on.
- The larger part of the repository's lines: message layout, beacon parsing, capability
  tables, ioctl and cfg80211 marshalling (`moal_eth_ioctl.c`, `moal_sta_cfg80211.c`,
  `mlan_sta_cmd.c`) and the user tools (`mapp/`) are sequential conversions without
  state of their own, in which a model could only repeat the code; the association state
  machine is the firmware's.  The models therefore cover a small share of the lines and
  most of what runs concurrently around the bridge, the commands and the receive path.

## 6. Plan

1. **WMM** (`mlan_wmm.c`): the RA lists, the pending counters, transmit pause and the
   BSS priority, against the main process.
2. **Power save** (`mlan_cmdevt.c`, `mlan_sta_event.c`): sleep request, confirm and
   wake up against commands and data, composed with CommandEngine.
3. Proofs: `InOrderUnlessEarly` and the refinement of `ReorderBuffer`, with facts about
   `SelectSeq` on the slots.
4. Abstract specifications: a bounded FIFO for each queue of BridgeDataPath, and a
   register with at most one owner for BridgeSwitch.
5. The PCIe ring indices (`mlan_pcie.c`), with their wrap bits.
