--------------------------- MODULE BridgeKeepalive ---------------------------
(***************************************************************************)
(* The adaptive keepalive timer of one bridge instance (moal_bridge.c):    *)
(* forwarding contexts arm an hrtimer with moal_bridge_ka_kick, the timer  *)
(* callback moal_bridge_keepalive re-arms or disarms itself, and           *)
(* __moal_bridge_deinit_locked cancels it before the instance is freed.    *)
(*                                                                         *)
(* Time is kept as the AGE of ka_last_fwd: the code only ever compares     *)
(* ktime_get() - ka_last_fwd with the idle cutoff, so an age saturating at *)
(* Cutoff distinguishes everything the code distinguishes.                 *)
(*                                                                         *)
(* The hrtimer core, RCU and the store buffers of the CPUs are external:   *)
(* they are modelled from the guarantees the code relies on.               *)
(***************************************************************************)
EXTENDS Integers, FiniteSets

CONSTANTS
  RxFast,       \* forwarding contexts that reach the instance through handle->bridge
  PeerCapture,  \* forwarding contexts that reach it through the peer rx_handler / packet_type
  Cutoff,       \* keepalive_idle_ms in clock ticks; 0 is the legacy free-running timer
  StoreBuffer   \* TRUE: WRITE_ONCE(ka_last_fwd) may linger in the CPU's store buffer

ASSUME KeepaliveAssumption ==
  /\ RxFast \cap PeerCapture = {}
  /\ Cutoff \in Nat
  /\ StoreBuffer \in BOOLEAN

Producers == RxFast \cup PeerCapture
Ages      == 0 .. Cutoff
NoStamp   == -1
Adaptive  == Cutoff > 0

VARIABLES
  active,    \* br->active
  armed,     \* br->ka_armed
  age,       \* age of br->ka_last_fwd as memory holds it
  kicked,    \* history: some forwarded frame's time stamp has reached memory
  enqueued,  \* hrtimer is enqueued (HRTIMER_STATE_ENQUEUED)
  cb,        \* position of the timer callback
  prod,      \* position of every forwarding context
  stamp,     \* age of the clock value a context has read and not stored yet
  buf,       \* age of a context's stored stamp not yet visible, or NoStamp
  notif,     \* position of the netdev notifier's UP/CHANGE branch
  deinit,    \* position of __moal_bridge_deinit_locked
  waitFor,   \* contexts the current grace period still waits for
  mainWork   \* handle->main_work is queued

vars == <<active, armed, age, kicked, enqueued, cb, prod, stamp, buf, notif,
          deinit, waitFor, mainWork>>

CbPositions   == {"idle", "entry", "check", "clear", "reread", "reclaim", "forward"}
ProdPositions == {"out", "found", "in", "stamp", "test", "cas", "start"}
DeinitStates  == {"no", "cancel1", "detach", "net", "rcu", "clear", "cancel2", "freed"}

InFlight == {p \in Producers : prod[p] # "out"}

\* A context can still find the instance: the pointer is cleared, or the
\* capture removed, at the deinit step after the last one listed.
Reachable(p) ==
  \/ p \in RxFast /\ deinit \in {"no", "cancel1", "detach", "net"}
  \/ p \in PeerCapture /\ deinit \in {"no", "cancel1", "detach"}

\* Terminal publication in __moal_bridge_init_locked: the legacy timer starts
\* armed, the adaptive one waits for the first forwarded frame.
Init ==
  /\ active \in BOOLEAN
  /\ armed = IF Adaptive THEN 0 ELSE 1
  /\ enqueued = ~Adaptive
  /\ age = 0
  /\ kicked = FALSE
  /\ cb = "idle"
  /\ prod = [p \in Producers |-> "out"]
  /\ stamp = [p \in Producers |-> 0]
  /\ buf = [p \in Producers |-> NoStamp]
  /\ notif = "idle"
  /\ deinit = "no"
  /\ waitFor = {}
  /\ mainWork = FALSE

-----------------------------------------------------------------------------
\* The clock advances: every recorded time stamp grows older.
Older(a) == IF a < Cutoff THEN a + 1 ELSE Cutoff

Tick ==
  /\ Adaptive
  /\ age' = Older(age)
  /\ stamp' = [p \in Producers |-> Older(stamp[p])]
  /\ buf' = [p \in Producers |-> IF buf[p] = NoStamp THEN NoStamp ELSE Older(buf[p])]
  /\ UNCHANGED <<active, armed, kicked, enqueued, cb, prod, notif, deinit, waitFor, mainWork>>

-----------------------------------------------------------------------------
(* Forwarding contexts: the active check of rx_fast / rx_handler / pt_func  *)
(* and, once a frame is queued, moal_bridge_ka_kick.                        *)

Move(p, from, to) ==
  /\ prod[p] = from
  /\ prod' = [prod EXCEPT ![p] = to]

\* Leaving the RCU read-side section ends what a grace period waits for.
Leaves(p) == waitFor' = waitFor \ {p}

\* The read-side section begins and the instance pointer is loaded.
Find(p) ==
  /\ Reachable(p)
  /\ Move(p, "out", "found")
  /\ UNCHANGED <<active, armed, age, kicked, enqueued, cb, stamp, buf, notif, deinit, waitFor, mainWork>>

\* Mutant: the early return skips rcu_read_unlock.
CheckActiveNoUnlock(p) ==
  /\ \/ active /\ Move(p, "found", "in")
     \/ ~active /\ Move(p, "found", "out")
  /\ UNCHANGED <<active, armed, age, kicked, enqueued, cb, stamp, buf, notif, deinit, waitFor, mainWork>>

\* atomic_read(&br->active): an inactive bridge leaves the frame to the stack.
CheckActive(p) ==
  /\ \/ active /\ Move(p, "found", "in") /\ UNCHANGED waitFor
     \/ ~active /\ Move(p, "found", "out") /\ Leaves(p)
  /\ UNCHANGED <<active, armed, age, kicked, enqueued, cb, stamp, buf, notif, deinit, mainWork>>

\* The frame is filtered, dropped or left to the stack: no kick.
NoKick(p) ==
  /\ Move(p, "in", "out")
  /\ Leaves(p)
  /\ UNCHANGED <<active, armed, age, kicked, enqueued, cb, stamp, buf, notif, deinit, mainWork>>

\* ktime_get(); outside adaptive mode ka_kick returns at once (NoKick).
KickClock(p) ==
  /\ Adaptive
  /\ Move(p, "in", "stamp")
  /\ stamp' = [stamp EXCEPT ![p] = 0]
  /\ UNCHANGED <<active, armed, age, kicked, enqueued, cb, buf, notif, deinit, waitFor, mainWork>>

\* WRITE_ONCE(br->ka_last_fwd, ...): visible at once, or parked in the buffer.
KickStore(p) ==
  /\ Move(p, "stamp", "test")
  /\ IF StoreBuffer
       THEN /\ buf' = [buf EXCEPT ![p] = stamp[p]]
            /\ UNCHANGED <<age, kicked>>
       ELSE /\ age' = stamp[p]
            /\ kicked' = TRUE
            /\ UNCHANGED buf
  /\ UNCHANGED <<active, armed, enqueued, cb, stamp, notif, deinit, waitFor, mainWork>>

\* The store buffer drains.
Flush(p) ==
  /\ buf[p] # NoStamp
  /\ age' = buf[p]
  /\ kicked' = TRUE
  /\ buf' = [buf EXCEPT ![p] = NoStamp]
  /\ UNCHANGED <<active, armed, enqueued, cb, prod, stamp, notif, deinit, waitFor, mainWork>>

\* atomic_read(&br->ka_armed) == 0, the unordered fast path of the kick.
KickTest(p) ==
  /\ \/ armed = 0 /\ Move(p, "test", "cas") /\ UNCHANGED waitFor
     \/ armed = 1 /\ Move(p, "test", "out") /\ Leaves(p)
  /\ UNCHANGED <<active, armed, age, kicked, enqueued, cb, stamp, buf, notif, deinit, mainWork>>

\* Mutant: the cmpxchg's result is ignored.
KickCasBlind(p) ==
  /\ buf[p] = NoStamp /\ armed' = 1 /\ Move(p, "cas", "start")
  /\ UNCHANGED <<active, age, kicked, enqueued, cb, stamp, buf, notif, deinit, waitFor, mainWork>>

\* atomic_cmpxchg(&br->ka_armed, 0, 1): fully ordered when it succeeds.
KickCas(p) ==
  /\ \/ armed = 0 /\ buf[p] = NoStamp /\ armed' = 1 /\ Move(p, "cas", "start") /\ UNCHANGED waitFor
     \/ armed = 1 /\ Move(p, "cas", "out") /\ Leaves(p) /\ UNCHANGED armed
  /\ UNCHANGED <<active, age, kicked, enqueued, cb, stamp, buf, notif, deinit, mainWork>>

\* hrtimer_start by the context that won the cmpxchg.
KickStart(p) ==
  /\ Move(p, "start", "out")
  /\ enqueued' = TRUE
  /\ Leaves(p)
  /\ UNCHANGED <<active, armed, age, kicked, cb, stamp, buf, notif, deinit, mainWork>>

Kick(p) == KickClock(p) \/ KickStore(p) \/ KickTest(p) \/ KickCas(p) \/ KickStart(p)

-----------------------------------------------------------------------------
(* The timer callback.  The hrtimer core never runs it twice at once.       *)

CbMove(from, to) == cb = from /\ cb' = to

Fire ==
  /\ enqueued
  /\ CbMove("idle", "entry")
  /\ enqueued' = FALSE
  /\ UNCHANGED <<active, armed, age, kicked, prod, stamp, buf, notif, deinit, waitFor, mainWork>>

\* queue_work(handle->workqueue, &handle->main_work) while the bridge is active.
CbQueueWork ==
  /\ CbMove("entry", "check")
  /\ mainWork' = (mainWork \/ active)
  /\ UNCHANGED <<active, armed, age, kicked, enqueued, prod, stamp, buf, notif, deinit, waitFor>>

\* Mutant: the idle cutoff is never applied.
CbCheckNever ==
  /\ cb = "check"
  /\ cb' = "forward"
  /\ UNCHANGED <<active, armed, age, kicked, enqueued, prod, stamp, buf, notif, deinit, waitFor, mainWork>>

CbCheckIdle ==
  /\ cb = "check"
  /\ cb' = IF Adaptive /\ age >= Cutoff THEN "clear" ELSE "forward"
  /\ UNCHANGED <<active, armed, age, kicked, enqueued, prod, stamp, buf, notif, deinit, waitFor, mainWork>>

\* atomic_set(&br->ka_armed, 0); smp_mb().
CbClear ==
  /\ CbMove("clear", "reread")
  /\ armed' = 0
  /\ UNCHANGED <<active, age, kicked, enqueued, prod, stamp, buf, notif, deinit, waitFor, mainWork>>

\* Mutant: the time stamp is not read again after the clear.
CbRereadSkipped ==
  /\ CbMove("reread", "idle")
  /\ UNCHANGED <<active, armed, age, kicked, enqueued, prod, stamp, buf, notif, deinit, waitFor, mainWork>>

\* Confirmed idle: HRTIMER_NORESTART; otherwise try to reclaim the arm.
CbReread ==
  /\ cb = "reread"
  /\ cb' = IF age < Cutoff THEN "reclaim" ELSE "idle"
  /\ UNCHANGED <<active, armed, age, kicked, enqueued, prod, stamp, buf, notif, deinit, waitFor, mainWork>>

\* Mutant: the arm is reclaimed but the callback returns HRTIMER_NORESTART.
CbReclaimNoRestart ==
  /\ CbMove("reclaim", "idle")
  /\ armed' = 1
  /\ UNCHANGED <<active, age, kicked, enqueued, prod, stamp, buf, notif, deinit, waitFor, mainWork>>

\* atomic_cmpxchg(&br->ka_armed, 0, 1): the loser leaves the timer to the producer.
CbReclaim ==
  /\ \/ armed = 0 /\ armed' = 1 /\ CbMove("reclaim", "forward")
     \/ armed = 1 /\ UNCHANGED armed /\ CbMove("reclaim", "idle")
  /\ UNCHANGED <<active, age, kicked, enqueued, prod, stamp, buf, notif, deinit, waitFor, mainWork>>

\* hrtimer_forward_now(); return HRTIMER_RESTART.
CbForward ==
  /\ CbMove("forward", "idle")
  /\ enqueued' = TRUE
  /\ UNCHANGED <<active, armed, age, kicked, prod, stamp, buf, notif, deinit, waitFor, mainWork>>

Callback == CbQueueWork \/ CbCheckIdle \/ CbClear \/ CbReread \/ CbReclaim \/ CbForward

\* The workqueue runs main_work.
MainWork ==
  /\ mainWork
  /\ mainWork' = FALSE
  /\ UNCHANGED <<active, armed, age, kicked, enqueued, cb, prod, stamp, buf, notif, deinit, waitFor>>

-----------------------------------------------------------------------------
(* The netdev notifier: DOWN clears active; UP/CHANGE tests published and   *)
(* readiness first and sets active in a later step.                         *)

Registered == deinit \in {"no", "cancel1", "detach"}

NetdevDown ==
  /\ Registered
  /\ active' = FALSE
  /\ UNCHANGED <<armed, age, kicked, enqueued, cb, prod, stamp, buf, notif, deinit, waitFor, mainWork>>

NetdevUpCheck ==
  /\ deinit = "no"
  /\ notif = "idle"
  /\ notif' = "set"
  /\ UNCHANGED <<active, armed, age, kicked, enqueued, cb, prod, stamp, buf, deinit, waitFor, mainWork>>

NetdevUpSet ==
  /\ notif = "set"
  /\ notif' = "idle"
  /\ active' = TRUE
  /\ UNCHANGED <<armed, age, kicked, enqueued, cb, prod, stamp, buf, deinit, waitFor, mainWork>>

-----------------------------------------------------------------------------
(* __moal_bridge_deinit_locked, step by step.                               *)

DeinitMove(from, to) == deinit = from /\ deinit' = to

\* hrtimer_cancel: waits for a running callback, then dequeues.
HrtimerCancel ==
  /\ cb = "idle"
  /\ enqueued' = FALSE

\* A grace period waits for the contexts in flight when it starts.
StartGracePeriod == waitFor' = InFlight
GracePeriodOver  == waitFor = {} /\ \A p \in Producers : prod[p] = "out" => buf[p] = NoStamp

\* 1. active = 0, published = 0, sysfs node withdrawn.
DeinitDeactivate ==
  /\ DeinitMove("no", "cancel1")
  /\ active' = FALSE
  /\ UNCHANGED <<armed, age, kicked, enqueued, cb, prod, stamp, buf, notif, waitFor, mainWork>>

\* 1b. the early hrtimer_cancel.
DeinitCancelEarly ==
  /\ DeinitMove("cancel1", "detach")
  /\ HrtimerCancel
  /\ UNCHANGED <<active, armed, age, kicked, cb, prod, stamp, buf, notif, waitFor, mainWork>>

\* 2-4. notifiers unregistered under RTNL (the replayed UNREGISTER clears
\*      active again), capture removed, synchronize_net() begins.
DeinitDetach ==
  /\ DeinitMove("detach", "net")
  /\ notif = "idle"
  /\ active' = FALSE
  /\ StartGracePeriod
  /\ UNCHANGED <<armed, age, kicked, enqueued, cb, prod, stamp, buf, notif, mainWork>>

\* 5. handle->bridge = NULL, synchronize_rcu() begins.
DeinitUnpublish ==
  /\ DeinitMove("net", "rcu")
  /\ GracePeriodOver
  /\ StartGracePeriod
  /\ UNCHANGED <<active, armed, age, kicked, enqueued, cb, prod, stamp, buf, notif, mainWork>>

DeinitDrained ==
  /\ DeinitMove("rcu", "clear")
  /\ GracePeriodOver
  /\ UNCHANGED <<active, armed, age, kicked, enqueued, cb, prod, stamp, buf, notif, waitFor, mainWork>>

\* 5b. ka_armed = 0, then the final hrtimer_cancel.
DeinitClearArmed ==
  /\ DeinitMove("clear", "cancel2")
  /\ armed' = 0
  /\ UNCHANGED <<active, age, kicked, enqueued, cb, prod, stamp, buf, notif, waitFor, mainWork>>

\* Mutant: the early cancel is believed to be final.
DeinitFreeNoCancel ==
  /\ DeinitMove("cancel2", "freed")
  /\ UNCHANGED <<active, armed, age, kicked, enqueued, cb, prod, stamp, buf, notif, waitFor, mainWork>>

\* 5b-8. final cancel, threads stopped, kfree(br).
DeinitFree ==
  /\ DeinitMove("cancel2", "freed")
  /\ HrtimerCancel
  /\ UNCHANGED <<active, armed, age, kicked, cb, prod, stamp, buf, notif, waitFor, mainWork>>

DeinitStep ==
  \/ DeinitCancelEarly \/ DeinitDetach \/ DeinitUnpublish
  \/ DeinitDrained \/ DeinitClearArmed \/ DeinitFree

-----------------------------------------------------------------------------
Next ==
  \/ Tick
  \/ \E p \in Producers : Find(p) \/ CheckActive(p) \/ NoKick(p) \/ Kick(p) \/ Flush(p)
  \/ Fire \/ Callback \/ MainWork
  \/ NetdevDown \/ NetdevUpCheck \/ NetdevUpSet
  \/ DeinitDeactivate \/ DeinitStep

\* The clock runs, softirqs and the callback finish, an enqueued timer fires,
\* RTNL sections end.  hrtimer_cancel polls far faster than the >= 1 ms period
\* of the timer, hence strong fairness for the two cancelling steps.
Fairness ==
  /\ WF_vars(Tick)
  /\ \A p \in Producers : WF_vars(CheckActive(p) \/ NoKick(p) \/ Kick(p)) /\ WF_vars(Flush(p))
  /\ WF_vars(Fire) /\ WF_vars(Callback) /\ WF_vars(MainWork) /\ WF_vars(NetdevUpSet)
  /\ WF_vars(DeinitDetach \/ DeinitUnpublish \/ DeinitDrained \/ DeinitClearArmed)
  /\ SF_vars(DeinitCancelEarly) /\ SF_vars(DeinitFree)

Spec     == Init /\ [][Next]_vars
FairSpec == Spec /\ Fairness

-----------------------------------------------------------------------------
TypeOK ==
  /\ active \in BOOLEAN /\ kicked \in BOOLEAN /\ enqueued \in BOOLEAN /\ mainWork \in BOOLEAN
  /\ armed \in {0, 1}
  /\ age \in Ages
  /\ cb \in CbPositions
  /\ prod \in [Producers -> ProdPositions]
  /\ stamp \in [Producers -> Ages]
  /\ buf \in [Producers -> Ages \cup {NoStamp}]
  /\ notif \in {"idle", "set"}
  /\ deinit \in DeinitStates
  /\ waitFor \in SUBSET Producers

\* The callback holds the arm except between its clear and its reclaim.
CbHoldsArm == cb \in {"entry", "check", "clear", "forward"}

\* Exactly one party re-arms (moal_bridge_keepalive, "Reclaim so exactly one
\* party re-arms"): the enqueued timer, the running callback and a context
\* about to call hrtimer_start exclude each other, so hrtimer_forward_now is
\* never applied to an enqueued timer and hrtimer_start never moves one.  It
\* holds until deinit's step 5b zeroes ka_armed behind a callback that may be
\* about to reclaim it.
SingleArmer ==
  deinit \notin {"cancel2", "freed"} =>
    /\ enqueued => ~CbHoldsArm
    /\ \A p \in Producers : prod[p] = "start" => ~enqueued /\ ~CbHoldsArm
    /\ \A p, q \in Producers : prod[p] = "start" /\ prod[q] = "start" => p = q

\* "the timer is never stranded": until deinit cancels it, ka_armed = 1 means
\* that the timer is enqueued, its callback will re-arm it, or a context is
\* about to start it.
NotStranded ==
  deinit \in {"no", "cancel1"} /\ armed = 1
    => enqueued \/ CbHoldsArm \/ \E p \in Producers : prod[p] = "start"

\* moal_bridge_ka_kick's promise: the disarm path "can never stop the timer
\* while traffic is live".  Once every kick has finished, a time stamp younger
\* than the cutoff means the timer still runs or the callback is mid-way
\* through its own recheck.
LiveTrafficKeepsTimer ==
  deinit = "no" /\ kicked /\ age < Cutoff /\ InFlight = {}
    => enqueued \/ cb # "idle"

\* A young time stamp has somebody who keeps the timer: the timer itself, its
\* callback, or the context of a kick that has yet to test or claim ka_armed.
Kicking(p) == prod[p] \in {"test", "cas", "start"}
LiveKept ==
  deinit = "no" /\ kicked /\ age < Cutoff
    => enqueued \/ cb # "idle" \/ \E p \in Producers : Kicking(p)

\* A stamp leaves its CPU's store buffer after its context has read ka_armed = 1
\* and gone: the store that the code does not order with that read.
StoreLate(p) == buf[p] # NoStamp /\ buf'[p] = NoStamp /\ ~Kicking(p)

\* What is left of moal_bridge_ka_kick's promise on a machine with store
\* buffers: no interleaving of kicks, the callback's clear, re-read and reclaim,
\* and notifications leaves live traffic without its timer, but for a stamp
\* that becomes visible only after its kick has ended.
KeptUnlessStoreLate ==
  [][LiveKept => LiveKept' \/ \E p \in Producers : StoreLate(p)]_vars

\* deinit's 5b comment, "this cancel is final": when the instance is freed no
\* context is inside it, the timer is off its queue and the callback is done.
FreedIsQuiet ==
  deinit = "freed" => ~enqueued /\ cb = "idle" /\ InFlight = {} /\ ~active

\* "a truly idle link costs zero wakeups": if forwarding stops for good, the
\* adaptive timer eventually stays off.
IdleStopsTimer ==
  Adaptive => (<>[](InFlight = {}) => <>[](~enqueued /\ cb = "idle"))

\* A deinit that has begun runs to the free, whatever the timer does.
DeinitCompletes == (deinit = "cancel1") ~> (deinit = "freed")
=============================================================================
