--------------------------- MODULE BridgeDataPath ---------------------------
(***************************************************************************)
(* The data path of one bridge instance (moal_bridge.c): the capture paths *)
(* (rx_fast, the peer's rx_handler or packet_type, the transmit hairpin),  *)
(* the two capped queues, the two drain kthreads, and what takes frames    *)
(* away from them: the netdev notifier, the peer release work and deinit.  *)
(*                                                                         *)
(* A frame is its origin and its kind.  Link state, cached addresses,      *)
(* VLAN tags and allocations change or fail at any moment and no lock the  *)
(* data path holds covers them: each read of one is a free choice.         *)
(* The keepalive timer is the subject of BridgeKeepalive.                  *)
(***************************************************************************)
EXTENDS Integers, Sequences, FiniteSets

CONSTANTS
  Air,       \* contexts delivering WLAN frames (moal_recv_packet, A-MSDU)
  Wire,      \* contexts delivering the peer's received frames
  Local,     \* contexts transmitting the box's own frames on the WLAN
  Fwd,       \* the transmit path entered by the p2w kthread
  Tap,       \* the peer's packet_type entered by the w2p kthread's transmission
  Cap,       \* MOAL_BR_W2P_QUEUE_MAX = MOAL_BR_P2W_QUEUE_MAX
  Kinds,     \* the kinds of frames that arrive
  Configs    \* pairs of a capture method and a value of bridge_local_hairpin

Directions == {"w2p", "p2w"}
Contexts   == Air \cup Wire \cup Local \cup {Fwd, Tap}
Agents     == Contexts \cup Directions \cup {"notifier", "release"}

\* Addressed to: an 802.1X port, the bridge group address, the box (ARP request,
\* ARP reply, IP, by the addresses cached when a filter reads them), a third
\* station, the cloned MAC, a group, everyone (ARP).
FrameKinds == {"eapol", "link_local", "self_request", "self_reply", "self_ip",
               "unicast", "clone_mac", "group", "arp", "garbled"}

ASSUME DataPathAssumption ==
  /\ IsFiniteSet(Air) /\ IsFiniteSet(Wire) /\ IsFiniteSet(Local)
  /\ Air \cap Wire = {} /\ Air \cap Local = {} /\ Wire \cap Local = {}
  /\ {Fwd, Tap} \cap (Air \cup Wire \cup Local) = {} /\ Fwd # Tap
  /\ Contexts \cap (Directions \cup {"notifier", "release"}) = {}
  /\ Cap \in Nat \ {0}
  /\ Kinds \subseteq FrameKinds
  /\ Configs \subseteq {"rx_handler", "packet_type"} \X BOOLEAN

Frames  == [from : {"air", "wire", "local"}, kind : FrameKinds]
NoFrame == [from |-> "none", kind |-> "none"]

VARIABLES
  mode, hairpin,  \* br->use_packet_type, bridge_local_hairpin
  active,         \* br->active
  released,       \* br->peer_released: the capture is gone
  peerRef,        \* the instance's reference on peer_dev
  queue, qlen,    \* per direction: the sk_buff_head and its atomic counter
  pc,             \* every agent's position
  dir,            \* the queue a context or a purge is working on
  hand,           \* the frame an agent holds
  stop,           \* kthreads told to stop
  deinit,         \* position of __moal_bridge_deinit_locked
  waitFor,        \* contexts the current grace period still waits for
  live            \* sk_buffs the bridge owns: taken or copied, not yet given away

vars == <<mode, hairpin, active, released, peerRef, queue, qlen, pc, dir, hand, stop,
          deinit, waitFor, live>>
config == <<mode, hairpin>>

\* kzalloc, queues, counters and kthreads of __moal_bridge_init_locked.
Init ==
  /\ \E g \in Configs : mode = g[1] /\ hairpin = g[2]
  /\ active \in BOOLEAN
  /\ released = FALSE /\ peerRef = TRUE
  /\ queue = [d \in Directions |-> << >>]
  /\ qlen = [d \in Directions |-> 0]
  /\ pc = [a \in Agents |-> IF a \in Directions THEN "wait"
                            ELSE IF a \in Contexts THEN "out" ELSE "idle"]
  /\ dir = [a \in Agents |-> "w2p"]
  /\ hand = [a \in Agents |-> NoFrame]
  /\ stop = {} /\ deinit = "no" /\ waitFor = {} /\ live = 0

-----------------------------------------------------------------------------
(* The filters: which kinds a path may queue for the other side.  A kind    *)
(* that may be queued may also be left: a device not ready, media down, no  *)
(* memory, a full queue.                                                    *)

\* moal_bridge_rx_fast: unicast is consumed, or copied while the WLAN has no
\* address; group frames are copied.
RxFastForwards == {"unicast", "clone_mac", "group", "arp", "garbled"}

\* moal_bridge_peer_rx_handler: the ARP reply to the box is injected with
\* hairpin when untagged, and goes over the air otherwise.
PeerRxHandlerForwards == {"unicast", "clone_mac", "group", "arp", "self_reply", "garbled"}

\* moal_bridge_peer_pt_func: only an untagged EAPOL frame and an ARP request
\* for the box that its stack will see are held back; either may come tagged,
\* or addressed to the cloned MAC.
PeerPtForwards == FrameKinds

\* moal_bridge_tx_hairpin: whatever is for the cloned MAC, a copy of broadcast ARP.
TxHairpinForwards == FrameKinds \ {"unicast", "group", "link_local"}

Forwards(c) ==
  IF c \in Air THEN RxFastForwards
  ELSE IF c \in Local \cup {Fwd} THEN TxHairpinForwards
  ELSE IF mode = "packet_type" THEN PeerPtForwards ELSE PeerRxHandlerForwards

Toward(c) == IF c \in Wire \cup {Tap} THEN "p2w" ELSE "w2p"
Origin(c) == IF c \in Air THEN "air" ELSE IF c \in Wire THEN "wire" ELSE "local"

-----------------------------------------------------------------------------
(* Forwarding contexts.                                                     *)

\* handle->bridge is not yet cleared; the peer's capture is not yet removed.
Published     == deinit \notin {"rcu", "freed"}
Reachable(c)  == IF c \in Wire \cup {Tap} THEN ~released ELSE Published
InFlight      == {c \in Contexts : pc[c] # "out"}

\* The context returns: its frame is the stack's, the driver's or freed, and it
\* leaves its RCU read-side section.
GiveBack(c) ==
  /\ pc' = [pc EXCEPT ![c] = "out"]
  /\ hand' = [hand EXCEPT ![c] = NoFrame]
  /\ live' = live - 1
  /\ waitFor' = waitFor \ {c}

\* moal_recv_packet, woal_hard_start_xmit or the peer's receive path finds the
\* instance.
Capture(c, k) ==
  /\ c \in Air \cup Wire \cup Local /\ pc[c] = "out" /\ Reachable(c)
  /\ c \in Local => hairpin
  /\ pc' = [pc EXCEPT ![c] = "found"]
  /\ hand' = [hand EXCEPT ![c] = [from |-> Origin(c), kind |-> k]]
  /\ live' = live + 1
  /\ UNCHANGED <<config, active, released, peerRef, queue, qlen, dir, stop, deinit, waitFor>>

\* Mutant: the inactive bridge's early return forgets rcu_read_unlock.
CheckActiveNoUnlock(c) ==
  /\ pc[c] = "found"
  /\ IF active
       THEN pc' = [pc EXCEPT ![c] = "in"] /\ UNCHANGED <<hand, live>>
       ELSE /\ pc' = [pc EXCEPT ![c] = "out"] /\ hand' = [hand EXCEPT ![c] = NoFrame]
            /\ live' = live - 1
  /\ UNCHANGED <<config, active, released, peerRef, queue, qlen, dir, stop, deinit, waitFor>>

CheckActive(c) ==
  /\ pc[c] = "found"
  /\ IF active
       THEN pc' = [pc EXCEPT ![c] = "in"] /\ UNCHANGED <<hand, live, waitFor>>
       ELSE GiveBack(c)
  /\ UNCHANGED <<config, active, released, peerRef, queue, qlen, dir, stop, deinit>>

\* The filter keeps the frame from the other side, or the egress device is not
\* ready, media is down or no copy can be made.
Leave(c) ==
  /\ pc[c] = "in"
  /\ GiveBack(c)
  /\ UNCHANGED <<config, active, released, peerRef, queue, qlen, dir, stop, deinit>>

\* The frame, or a copy while the original goes its way, is to be queued.
Accept(c) ==
  /\ pc[c] = "in" /\ hand[c].kind \in Forwards(c)
  /\ pc' = [pc EXCEPT ![c] = "want"]
  /\ dir' = [dir EXCEPT ![c] = Toward(c)]
  /\ UNCHANGED <<config, active, released, peerRef, queue, qlen, hand, stop, deinit, waitFor, live>>

\* Mutant: the counter is compared before it is incremented.
ReserveLate(c) ==
  LET d == dir[c] IN
  /\ pc[c] = "want"
  /\ qlen' = [qlen EXCEPT ![d] = @ + 1]
  /\ pc' = [pc EXCEPT ![c] = IF qlen[d] > Cap THEN "over" ELSE "won"]
  /\ UNCHANGED <<config, active, released, peerRef, queue, dir, hand, stop, deinit, waitFor, live>>

\* atomic_inc_return(&br->..._qlen) > MOAL_BR_..._QUEUE_MAX.
Reserve(c) ==
  LET d == dir[c] IN
  /\ pc[c] = "want"
  /\ qlen' = [qlen EXCEPT ![d] = @ + 1]
  /\ pc' = [pc EXCEPT ![c] = IF qlen[d] + 1 > Cap THEN "over" ELSE "won"]
  /\ UNCHANGED <<config, active, released, peerRef, queue, dir, hand, stop, deinit, waitFor, live>>

\* Mutant: the frame over the cap is not freed.
UndoLeak(c) ==
  /\ pc[c] = "over"
  /\ qlen' = [qlen EXCEPT ![dir[c]] = @ - 1]
  /\ pc' = [pc EXCEPT ![c] = "out"]
  /\ hand' = [hand EXCEPT ![c] = NoFrame]
  /\ waitFor' = waitFor \ {c}
  /\ UNCHANGED <<config, active, released, peerRef, queue, dir, stop, deinit, live>>

\* Over the cap: atomic_dec, drop.
Undo(c) ==
  /\ pc[c] = "over"
  /\ qlen' = [qlen EXCEPT ![dir[c]] = @ - 1]
  /\ GiveBack(c)
  /\ UNCHANGED <<config, active, released, peerRef, queue, dir, stop, deinit>>

\* moal_bridge_ensure_headroom fails on the way to the WLAN.
NoHeadroom(c) ==
  /\ pc[c] = "won" /\ dir[c] = "p2w"
  /\ qlen' = [qlen EXCEPT !["p2w"] = @ - 1]
  /\ GiveBack(c)
  /\ UNCHANGED <<config, active, released, peerRef, queue, dir, stop, deinit>>

\* skb_queue_tail.  A packet the peer is sending still starts at its Ethernet
\* header: pushing another one garbles it.
Enqueue(c) ==
  LET f == IF c = Tap THEN [from |-> hand[c].from, kind |-> "garbled"] ELSE hand[c] IN
  /\ pc[c] = "won"
  /\ queue' = [queue EXCEPT ![dir[c]] = Append(@, f)]
  /\ pc' = [pc EXCEPT ![c] = "wake"]
  /\ hand' = [hand EXCEPT ![c] = NoFrame]
  /\ UNCHANGED <<config, active, released, peerRef, qlen, dir, stop, deinit, waitFor, live>>

\* A wake-up reaches the kthread that sleeps on its wait queue and is lost on
\* one that does not; the woken kthread tests its condition again.
Woken(d) == IF pc[d] = "asleep" THEN "wait" ELSE pc[d]

\* Mutant: the producer returns without its wake_up.
WakeUpMissing(c) ==
  /\ pc[c] = "wake"
  /\ pc' = [pc EXCEPT ![c] = "out"]
  /\ waitFor' = waitFor \ {c}
  /\ UNCHANGED <<config, active, released, peerRef, queue, qlen, dir, hand, stop, deinit, live>>

\* wake_up(&br->..._wait), return.
WakeUp(c) ==
  LET d == dir[c] IN
  /\ pc[c] = "wake"
  /\ pc' = [pc EXCEPT ![d] = Woken(d), ![c] = "out"]
  /\ waitFor' = waitFor \ {c}
  /\ UNCHANGED <<config, active, released, peerRef, queue, qlen, dir, hand, stop, deinit, live>>

ContextStep(c) ==
  \/ CheckActive(c) \/ Leave(c) \/ Accept(c) \/ Reserve(c) \/ Undo(c)
  \/ NoHeadroom(c) \/ Enqueue(c) \/ WakeUp(c)

-----------------------------------------------------------------------------
(* Taking frames off a queue: the kthread d, the notifier's purge and the   *)
(* release work's purge, in any interleaving.                               *)

Draining(a) == IF a \in Directions THEN a ELSE dir[a]
Drainers    == Directions \cup {"notifier", "release"}

Dequeue(a) ==
  LET d == Draining(a) IN
  /\ pc[a] = "drain" /\ queue[d] # << >>
  /\ hand' = [hand EXCEPT ![a] = Head(queue[d])]
  /\ queue' = [queue EXCEPT ![d] = Tail(@)]
  /\ pc' = [pc EXCEPT ![a] = "count"]
  /\ UNCHANGED <<config, active, released, peerRef, qlen, dir, stop, deinit, waitFor, live>>

\* Mutant: a purge does not give the counter back.
CountPurgeFree(a) ==
  LET d == Draining(a) IN
  /\ pc[a] = "count"
  /\ IF a \in Directions
       THEN /\ qlen' = [qlen EXCEPT ![d] = @ - 1] /\ pc' = [pc EXCEPT ![a] = "check"]
            /\ UNCHANGED <<hand, live>>
       ELSE /\ pc' = [pc EXCEPT ![a] = "drain"] /\ hand' = [hand EXCEPT ![a] = NoFrame]
            /\ live' = live - 1 /\ UNCHANGED qlen
  /\ UNCHANGED <<config, active, released, peerRef, queue, dir, stop, deinit, waitFor>>

\* atomic_dec after the dequeue; a purge frees the frame.
Count(a) ==
  /\ pc[a] = "count"
  /\ qlen' = [qlen EXCEPT ![Draining(a)] = @ - 1]
  /\ IF a \in Directions
       THEN pc' = [pc EXCEPT ![a] = "check"] /\ UNCHANGED <<hand, live>>
       ELSE /\ pc' = [pc EXCEPT ![a] = "drain"] /\ hand' = [hand EXCEPT ![a] = NoFrame]
            /\ live' = live - 1
  /\ UNCHANGED <<config, active, released, peerRef, queue, dir, stop, deinit, waitFor>>

\* A drained queue: the kthread waits again, a purge turns to the next queue.
Drained(a) ==
  /\ pc[a] = "drain" /\ queue[Draining(a)] = << >>
  /\ IF a \in Directions THEN pc' = [pc EXCEPT ![a] = "wait"] /\ UNCHANGED dir
     ELSE IF dir[a] = "w2p" THEN dir' = [dir EXCEPT ![a] = "p2w"] /\ UNCHANGED pc
     ELSE pc' = [pc EXCEPT ![a] = IF a = "release" THEN "put" ELSE "idle"] /\ UNCHANGED dir
  /\ UNCHANGED <<config, active, released, peerRef, queue, qlen, hand, stop, deinit, waitFor, live>>

\* The head of the kthread's loop: kthread_should_stop and the condition of
\* wait_event_freezable, tested with the kthread on its wait queue already; when
\* it fails the kthread sleeps until a wake-up.
WaitEvent(d) ==
  /\ pc[d] = "wait"
  /\ pc' = [pc EXCEPT ![d] = IF d \in stop THEN "stopped"
                             ELSE IF queue[d] # << >> THEN "drain" ELSE "asleep"]
  /\ UNCHANGED <<config, active, released, peerRef, queue, qlen, dir, hand, stop, deinit, waitFor, live>>

\* peer_released, active or the egress device forbids the transmission.
ThreadDrop(d) ==
  /\ pc[d] = "check"
  /\ pc' = [pc EXCEPT ![d] = "drain"] /\ hand' = [hand EXCEPT ![d] = NoFrame]
  /\ live' = live - 1
  /\ UNCHANGED <<config, active, released, peerRef, queue, qlen, dir, stop, deinit, waitFor>>

ThreadCheck(d) ==
  /\ pc[d] = "check" /\ ~released /\ active
  /\ pc' = [pc EXCEPT ![d] = "xmit"]
  /\ UNCHANGED <<config, active, released, peerRef, queue, qlen, dir, hand, stop, deinit, waitFor, live>>

\* The context dev_queue_xmit enters: the WLAN's own transmit path when hairpin
\* is on, the packet_type that sees what the peer sends.
Entered(d) ==
  IF d = "p2w" THEN (IF hairpin /\ Reachable(Fwd) THEN {Fwd} ELSE {})
  ELSE IF mode = "packet_type" /\ Reachable(Tap) THEN {Tap} ELSE {}

\* dev_queue_xmit takes the frame.  The hairpin continues with that frame, the
\* packet_type with a copy of it.
Xmit(d) ==
  /\ pc[d] = "xmit"
  /\ \/ /\ Entered(d) = {}
        /\ pc' = [pc EXCEPT ![d] = "drain"] /\ hand' = [hand EXCEPT ![d] = NoFrame]
        /\ live' = live - 1
     \/ \E c \in Entered(d) :
          /\ pc' = [pc EXCEPT ![d] = "sending", ![c] = "found"]
          /\ hand' = [hand EXCEPT ![d] = NoFrame, ![c] = hand[d]]
          /\ UNCHANGED live
  /\ UNCHANGED <<config, active, released, peerRef, queue, qlen, dir, stop, deinit, waitFor>>

XmitReturns(d) ==
  /\ pc[d] = "sending" /\ pc[IF d = "p2w" THEN Fwd ELSE Tap] = "out"
  /\ pc' = [pc EXCEPT ![d] = "drain"]
  /\ UNCHANGED <<config, active, released, peerRef, queue, qlen, dir, hand, stop, deinit, waitFor, live>>

ThreadStep(d) ==
  \/ WaitEvent(d) \/ Dequeue(d) \/ Count(d) \/ Drained(d)
  \/ ThreadDrop(d) \/ ThreadCheck(d) \/ Xmit(d) \/ XmitReturns(d)

-----------------------------------------------------------------------------
(* moal_bridge_netdev_event: serialised by RTNL.                            *)

Registered == deinit \in {"no", "deact"} /\ pc["notifier"] = "idle"

StartPurge == pc' = [pc EXCEPT !["notifier"] = "drain"] /\ dir' = [dir EXCEPT !["notifier"] = "w2p"]

\* NETDEV_DOWN of either device: no forwarding, both queues emptied.
NetdevDown ==
  /\ Registered
  /\ active' = FALSE
  /\ StartPurge
  /\ UNCHANGED <<config, released, peerRef, queue, qlen, hand, stop, deinit, waitFor, live>>

\* NETDEV_UP / NETDEV_CHANGE: an end is not usable.
NetdevNotReady ==
  /\ Registered /\ ~released
  /\ active' = FALSE
  /\ UNCHANGED <<config, released, peerRef, queue, qlen, pc, dir, hand, stop, deinit, waitFor, live>>

\* NETDEV_UP / NETDEV_CHANGE: published and both ends usable, tested ...
NetdevUpCheck ==
  /\ Registered /\ deinit = "no" /\ ~released
  /\ pc' = [pc EXCEPT !["notifier"] = "set"]
  /\ UNCHANGED <<config, active, released, peerRef, queue, qlen, dir, hand, stop, deinit, waitFor, live>>

\* ... and active set, perhaps after deinit's first step.
NetdevUpSet ==
  /\ pc["notifier"] = "set"
  /\ active' = TRUE
  /\ pc' = [pc EXCEPT !["notifier"] = "idle"]
  /\ UNCHANGED <<config, released, peerRef, queue, qlen, dir, hand, stop, deinit, waitFor, live>>

\* NETDEV_UNREGISTER of the peer: capture removed, release work scheduled.
ReleasePeer ==
  /\ active' = FALSE /\ released' = TRUE
  /\ pc' = IF released THEN pc ELSE [pc EXCEPT !["release"] = "queued"]

PeerUnregister ==
  /\ Registered /\ ~released
  /\ ReleasePeer
  /\ UNCHANGED <<config, peerRef, queue, qlen, dir, hand, stop, deinit, waitFor, live>>

NotifierStep == Dequeue("notifier") \/ Count("notifier") \/ Drained("notifier") \/ NetdevUpSet

-----------------------------------------------------------------------------
(* moal_bridge_peer_release_work.                                           *)

ReleaseMove(from, to) == pc["release"] = from /\ pc' = [pc EXCEPT !["release"] = to]

\* Mutant: synchronize_net is left out.
ReleaseStartNoGrace ==
  /\ ReleaseMove("queued", "grace")
  /\ UNCHANGED <<config, active, released, peerRef, queue, qlen, dir, hand, stop, deinit, waitFor, live>>

\* synchronize_net.
ReleaseStart ==
  /\ ReleaseMove("queued", "grace")
  /\ waitFor' = InFlight
  /\ UNCHANGED <<config, active, released, peerRef, queue, qlen, dir, hand, stop, deinit, live>>

\* kthread_stop, one kthread after the other: the stop bit, then a wake-up.
ReleaseStopW2p ==
  /\ pc["release"] = "grace" /\ waitFor = {}
  /\ pc' = [pc EXCEPT !["release"] = "stop_w2p", !["w2p"] = Woken("w2p")]
  /\ stop' = {"w2p"}
  /\ UNCHANGED <<config, active, released, peerRef, queue, qlen, dir, hand, deinit, waitFor, live>>

ReleaseStopP2w ==
  /\ pc["release"] = "stop_w2p" /\ pc["w2p"] = "stopped"
  /\ pc' = [pc EXCEPT !["release"] = "stop_p2w", !["p2w"] = Woken("p2w")]
  /\ stop' = Directions
  /\ UNCHANGED <<config, active, released, peerRef, queue, qlen, dir, hand, deinit, waitFor, live>>

ReleasePurge ==
  /\ ReleaseMove("stop_p2w", "drain") /\ pc["p2w"] = "stopped"
  /\ dir' = [dir EXCEPT !["release"] = "w2p"]
  /\ UNCHANGED <<config, active, released, peerRef, queue, qlen, hand, stop, deinit, waitFor, live>>

\* dev_put(br->peer_dev).
ReleasePut ==
  /\ ReleaseMove("put", "done")
  /\ peerRef' = FALSE
  /\ UNCHANGED <<config, active, released, queue, qlen, dir, hand, stop, deinit, waitFor, live>>

ReleaseStep ==
  \/ ReleaseStart \/ ReleaseStopW2p \/ ReleaseStopP2w \/ ReleasePurge
  \/ Dequeue("release") \/ Count("release") \/ Drained("release") \/ ReleasePut

-----------------------------------------------------------------------------
(* __moal_bridge_deinit_locked.  unregister_netdevice_notifier replays, for *)
(* every device, DOWN if it is up and UNREGISTER: each teardown takes the   *)
(* peer release path and finds peer_released set afterwards.                *)

DeinitMove(from, to) == deinit = from /\ deinit' = to

DeinitDeactivate ==
  /\ DeinitMove("no", "deact")
  /\ active' = FALSE
  /\ UNCHANGED <<config, released, peerRef, queue, qlen, pc, dir, hand, stop, waitFor, live>>

\* The replayed DOWN of a device, if it is up, before or after the peer's turn.
DeinitReplayDown ==
  /\ DeinitMove("deact", "replay") \/ DeinitMove("gone", "flush")
  /\ pc["notifier"] = "idle"
  /\ active' = FALSE
  /\ StartPurge \/ UNCHANGED <<pc, dir>>
  /\ UNCHANGED <<config, released, peerRef, queue, qlen, hand, stop, waitFor, live>>

\* The replayed UNREGISTER of the peer.
DeinitReplayUnregister ==
  /\ DeinitMove("replay", "gone") /\ pc["notifier"] = "idle"
  /\ ReleasePeer
  /\ UNCHANGED <<config, peerRef, queue, qlen, dir, hand, stop, waitFor, live>>

\* flush_work(&br->peer_release_work), synchronize_net.
DeinitFlush ==
  /\ DeinitMove("flush", "net") /\ pc["notifier"] = "idle" /\ pc["release"] = "done"
  /\ waitFor' = InFlight
  /\ UNCHANGED <<config, active, released, peerRef, queue, qlen, pc, dir, hand, stop, live>>

\* handle->bridge = NULL, synchronize_rcu.
DeinitUnpublish ==
  /\ DeinitMove("net", "rcu") /\ waitFor = {}
  /\ waitFor' = InFlight
  /\ UNCHANGED <<config, active, released, peerRef, queue, qlen, pc, dir, hand, stop, live>>

\* skb_queue_purge of both queues, kfree.
DeinitFree ==
  /\ DeinitMove("rcu", "freed") /\ waitFor = {}
  /\ live' = live - Len(queue["w2p"]) - Len(queue["p2w"])
  /\ queue' = [d \in Directions |-> << >>]
  /\ UNCHANGED <<config, active, released, peerRef, qlen, pc, dir, hand, stop, waitFor>>

DeinitStep ==
  \/ DeinitReplayDown \/ DeinitReplayUnregister
  \/ DeinitFlush \/ DeinitUnpublish \/ DeinitFree

-----------------------------------------------------------------------------
Next ==
  \/ \E c \in Contexts : ContextStep(c) \/ \E k \in Kinds : Capture(c, k)
  \/ \E d \in Directions : ThreadStep(d)
  \/ NetdevDown \/ NetdevNotReady \/ NetdevUpCheck \/ PeerUnregister
  \/ NotifierStep \/ ReleaseStep
  \/ DeinitDeactivate \/ DeinitStep

\* Contexts run to completion, kthreads, work items and the notifier chain are
\* scheduled, and RTNL is granted to a waiting teardown however many
\* notifications compete for it; frames, notifications and the teardown itself
\* need never come.
Fairness ==
  /\ \A c \in Contexts : WF_vars(ContextStep(c))
  /\ \A d \in Directions : WF_vars(ThreadStep(d))
  /\ WF_vars(NotifierStep) /\ WF_vars(ReleaseStep) /\ SF_vars(DeinitStep)

Spec     == Init /\ [][Next]_vars
FairSpec == Spec /\ Fairness

-----------------------------------------------------------------------------
ContextPositions == {"out", "found", "in", "want", "over", "won", "wake"}
ThreadPositions  == {"wait", "asleep", "drain", "count", "check", "xmit", "sending", "stopped"}
NotifierPositions == {"idle", "drain", "count", "set"}
ReleasePositions  == {"idle", "queued", "grace", "stop_w2p", "stop_p2w", "drain", "count", "put", "done"}
Positions == ContextPositions \cup ThreadPositions \cup NotifierPositions \cup ReleasePositions

TypeOK ==
  /\ <<mode, hairpin>> \in Configs
  /\ active \in BOOLEAN /\ released \in BOOLEAN /\ peerRef \in BOOLEAN
  /\ queue \in [Directions -> Seq(Frames)]
  /\ qlen \in [Directions -> Nat]
  /\ pc \in [Agents -> Positions]
  /\ dir \in [Agents -> Directions]
  /\ hand \in [Agents -> Frames \cup {NoFrame}]
  /\ stop \subseteq Directions
  /\ deinit \in {"no", "deact", "replay", "gone", "flush", "net", "rcu", "freed"}
  /\ waitFor \subseteq Contexts
  /\ live \in Nat

\* Agents between their half of a counter update and of the queue operation.
Counted(d) == {a \in Agents : pc[a] \in {"over", "won", "count"} /\ Draining(a) = d}
Won(d)     == {c \in Contexts : pc[c] = "won" /\ dir[c] = d}

\* w2p_qlen and p2w_qlen never drift from their queues, whichever of the
\* kthread, a NETDEV_DOWN purge and the release work takes a frame away: a
\* lost decrement would close the queue for good, a spurious one lift the cap.
QlenExact ==
  \A d \in Directions : qlen[d] = Len(queue[d]) + Cardinality(Counted(d))

\* "hard cap counter": concurrent producers, each past its own test of the
\* counter, never hold more than Cap frames between them and the queue.
HardCap == \A d \in Directions : Len(queue[d]) + Cardinality(Won(d)) <= Cap

\* Every sk_buff the bridge took or copied is in exactly one place: an agent's
\* hand or a queue.  A path that forgets to free one, or gives away one it has
\* queued, breaks the balance.
SkbsAccounted ==
  live = Cardinality({a \in Agents : hand[a] # NoFrame})
           + Len(queue["w2p"]) + Len(queue["p2w"])

\* Once the peer reference is dropped nothing can reach peer_dev or queue a
\* frame nobody will take: the kthreads have ended, the queues are empty and no
\* context is past the active check, although handle->bridge still points here.
ReleasedIsQuiet ==
  ~peerRef =>
    /\ \A d \in Directions : pc[d] = "stopped" /\ queue[d] = << >>
    /\ \A c \in Contexts : pc[c] \in {"out", "found"}

\* A sleeping kthread is never forgotten: while its queue holds a frame some
\* producer has yet to call wake_up on it, and kthread_stop never leaves it
\* asleep.
WakeUpPending ==
  \A d \in Directions : pc[d] = "asleep" =>
    /\ d \notin stop
    /\ queue[d] # << >> => \E c \in Contexts : pc[c] = "wake" /\ dir[c] = d

\* No lost wake-up: a queue that is never empty again keeps giving up frames.
\* The kthread may be testing its empty queue, going to sleep, transmitting or
\* being stopped while a producer is between skb_queue_tail and wake_up, and a
\* purge may take the frame it was woken for: whichever comes first, no frame
\* stays in a queue for ever.
QueuedFramesLeave ==
  \A d \in Directions :
    <>[](queue[d] # << >>) => []<><<Len(queue'[d]) < Len(queue[d])>>_vars

\* A teardown that has begun frees the instance, under unbounded traffic: the
\* kthreads' inner loops and the purges cannot be fed for ever.
DeinitCompletes == deinit = "deact" ~> deinit = "freed"

\* The hairpin is for "locally generated TX" only, and a bridge forwards to the
\* other side: no frame is queued back to the side that brought it.
NoReflection ==
  /\ \A i \in 1 .. Len(queue["w2p"]) : queue["w2p"][i].from # "wire"
  /\ \A i \in 1 .. Len(queue["p2w"]) : queue["p2w"][i].from # "air"
=============================================================================
