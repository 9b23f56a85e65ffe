------------------------------ MODULE RxProcess ------------------------------
(***************************************************************************)
(* The contexts that meet at one receive reorder table:                    *)
(*   intr  queues received packets and asks for the receive work,          *)
(*   rx    mlan_rx_process, run by the receive work or by the NAPI poll,   *)
(*   cb    wlan_flush_data, the table's flush timer, in softirq,           *)
(*   blk   the thread that deletes or creates the table, or switches the   *)
(*         BSS role, with the receive process blocked.                     *)
(* A step is what one context does between two accesses another context    *)
(* can see; code under prx_proc_lock is one step.  What the window does    *)
(* with a frame is RxWindow's matter: here a packet leaves the table with  *)
(* frames held back or without.                                            *)
(***************************************************************************)
EXTENDS Integers

CONSTANTS
    Modes,      \* values of EXT_NAPI: whether rx runs as a NAPI poll
    Budget,     \* packets one NAPI poll may handle
    MaxPackets, \* bound: packets that arrive in one behaviour
    Ops,        \* what blk does: a subset of {"delete", "create", "role"}
    MaxOps      \* bound: operations of blk in one behaviour

ASSUME RxProcessAssumption ==
    /\ Modes \subseteq BOOLEAN /\ Modes # {}
    /\ Budget \in Nat \ {0} /\ MaxPackets \in Nat /\ MaxOps \in Nat
    /\ Ops \subseteq {"delete", "create", "role"}

VARIABLES
    napi,       \* EXT_NAPI, fixed when the module is loaded
    arrived,    \* packets that have arrived so far
    intr,       \* "idle" or "kick": between queueing a packet and the kick
    queue,      \* length of rx_data_queue
    scheduled,  \* the work is pending (NAPI: scheduled, or missed)
    mlan_rx_processing, more_rx_task_flag, rx_lock_flag,
    adapter_flush,   \* pmadapter->flush_data
    rx,         \* where the receive context is
    rx_num,     \* packets of this poll
    tbl,        \* the table; in_use: allocated, held: frames in its slots
    timer,      \* the moal_drv_timer of the table
    cb,         \* where the timer's callback is
    blk,        \* where the blocking thread is
    role,       \* the thread is inside the BSS role switch
    ops,
    raced,      \* history: rx looked between two stores of wlan_flush_data
    cut,        \* history: rx refused or broke off for rx_lock_flag
    zeroed      \* history: the handler cleared time_period of a re-armed timer

proc == <<mlan_rx_processing, more_rx_task_flag, rx_lock_flag>>
vars == <<napi, arrived, intr, queue, scheduled, proc, adapter_flush, rx, rx_num,
          tbl, timer, cb, blk, role, ops, raced, cut, zeroed>>

NewTable == [in_use |-> TRUE, held |-> FALSE, flush_data |-> FALSE,
             timer_is_set |-> FALSE]
NewTimer == [armed |-> FALSE, is_canceled |-> TRUE, period |-> FALSE]

Init ==
    /\ napi \in Modes
    /\ arrived = 0 /\ intr = "idle" /\ queue = 0 /\ scheduled = FALSE
    /\ mlan_rx_processing = FALSE /\ more_rx_task_flag = FALSE
    /\ rx_lock_flag = FALSE /\ adapter_flush = FALSE
    /\ rx = "idle" /\ rx_num = 0
    /\ tbl = NewTable /\ timer = NewTimer /\ cb = "off"
    /\ blk = "idle" /\ role = FALSE /\ ops = 0
    /\ raced = FALSE /\ cut = FALSE /\ zeroed = FALSE

-----------------------------------------------------------------------------
(* A packet is put on rx_data_queue, then mlan_queue_rx_work. *)
Arrive ==
    /\ intr = "idle" /\ arrived < MaxPackets
    /\ arrived' = arrived + 1
    /\ queue' = queue + 1
    /\ intr' = "kick"
    /\ UNCHANGED <<napi, scheduled, proc, adapter_flush, rx, rx_num, tbl, timer,
                   cb, blk, role, ops, raced, cut, zeroed>>

QueueRxWork ==
    /\ intr = "kick"
    /\ intr' = "idle"
    /\ IF mlan_rx_processing
       THEN more_rx_task_flag' = TRUE /\ UNCHANGED scheduled
       ELSE scheduled' = TRUE /\ UNCHANGED more_rx_task_flag
    /\ UNCHANGED <<napi, arrived, queue, mlan_rx_processing, rx_lock_flag,
                   adapter_flush, rx, rx_num, tbl, timer, cb, blk, role, ops,
                   raced, cut, zeroed>>

-----------------------------------------------------------------------------
RxRest == <<napi, arrived, intr, cb, blk, role, ops, zeroed>>

(* The work starts: woal_rx_work_queue or woal_netdev_poll_rx. *)
RxWork ==
    /\ rx = "idle" /\ scheduled
    /\ scheduled' = FALSE
    /\ rx' = "enter"
    /\ rx_num' = 0
    /\ UNCHANGED <<RxRest, cut, raced, queue, proc, adapter_flush, tbl, timer>>

\* Mutant: a blocked receive process is entered.
RxEnterUnguarded ==
    /\ rx = "enter"
    /\ IF mlan_rx_processing
       THEN /\ more_rx_task_flag' = TRUE /\ rx' = "idle"
            /\ UNCHANGED mlan_rx_processing
       ELSE /\ mlan_rx_processing' = TRUE /\ rx' = "check"
            /\ UNCHANGED more_rx_task_flag
    /\ cut' = FALSE
    /\ UNCHANGED <<RxRest, raced, rx_lock_flag, scheduled, queue, adapter_flush,
                   rx_num, tbl, timer>>

(* mlan_rx_process refuses to run blocked and leaves a note. *)
RxEnter ==
    /\ rx = "enter"
    /\ IF mlan_rx_processing \/ rx_lock_flag
       THEN /\ more_rx_task_flag' = TRUE /\ rx' = "idle"
            /\ UNCHANGED mlan_rx_processing
       ELSE /\ mlan_rx_processing' = TRUE /\ rx' = "check"
            /\ UNCHANGED more_rx_task_flag
    /\ cut' = rx_lock_flag
    /\ UNCHANGED <<RxRest, raced, rx_lock_flag, scheduled, queue, adapter_flush,
                   rx_num, tbl, timer>>

RxCheckFlush ==
    /\ rx = "check"
    /\ adapter_flush' = FALSE
    /\ rx' = IF adapter_flush THEN "walk" ELSE "dequeue"
    /\ raced' = (raced \/ (adapter_flush /\ cb = "table"))
    /\ UNCHANGED <<RxRest, cut, proc, scheduled, queue, rx_num, tbl, timer>>

(* What a table looks like after its own flag was honoured. *)
Flushed(t) == IF t.flush_data THEN [t EXCEPT !.flush_data = FALSE, !.held = FALSE]
                              ELSE t

(* wlan_flush_rxreorder_tbl *)
RxWalk ==
    /\ rx = "walk"
    /\ tbl' = IF tbl.in_use THEN Flushed(tbl) ELSE tbl
    /\ rx' = "dequeue"
    /\ UNCHANGED <<RxRest, cut, raced, proc, scheduled, queue, adapter_flush, rx_num, timer>>

RxDequeue ==
    /\ rx = "dequeue"
    /\ IF queue = 0
       THEN rx' = "exit" /\ UNCHANGED <<queue, rx_num>>
       ELSE rx' = "handle" /\ queue' = queue - 1 /\ rx_num' = rx_num + 1
    /\ UNCHANGED <<RxRest, cut, raced, proc, scheduled, adapter_flush, tbl, timer>>

(* mlan_11n_rxreorder_pkt up to label done: a packet of the table's stream *)
(* that leaves frames held or not, or a packet of another one.             *)
RxHandle ==
    /\ rx = "handle"
    /\ \/ /\ tbl.in_use
          /\ \E h \in BOOLEAN : tbl' = [Flushed(tbl) EXCEPT !.held = h]
          /\ \E moved \in BOOLEAN : rx' = IF moved THEN "moved" ELSE "done"
          /\ raced' = (raced /\ cb \in {"table", "unset"})
       \/ /\ rx' = "after"
          /\ UNCHANGED <<tbl, raced>>
    /\ UNCHANGED <<RxRest, cut, proc, scheduled, queue, adapter_flush, rx_num, timer>>

(* Label done reads timer_is_set. *)
RxDone ==
    /\ rx \in {"moved", "done"}
    /\ rx' = IF tbl.held
             THEN IF ~tbl.timer_is_set THEN "start"
                  ELSE IF rx = "moved" THEN "restop" ELSE "after"
             ELSE IF tbl.timer_is_set THEN "stop" ELSE "after"
    /\ raced' = (raced \/ cb = "unset")
    /\ UNCHANGED <<RxRest, cut, proc, scheduled, queue, adapter_flush, rx_num, tbl,
                   timer>>

Canceled == [armed |-> FALSE, is_canceled |-> TRUE, period |-> FALSE]

(* woal_cancel_timer: del_timer_sync waits for the callback, del_timer,    *)
(* used in softirq, does not.                                              *)
RxStop ==
    /\ rx \in {"stop", "restop"}
    /\ napi \/ cb = "off"
    /\ timer' = Canceled
    /\ rx' = IF rx = "stop" THEN "unset" ELSE "start"
    /\ UNCHANGED <<RxRest, cut, raced, proc, scheduled, queue, adapter_flush, rx_num, tbl>>

RxUnset ==
    /\ rx = "unset"
    /\ tbl' = [tbl EXCEPT !.timer_is_set = FALSE]
    /\ rx' = "after"
    /\ UNCHANGED <<RxRest, cut, raced, proc, scheduled, queue, adapter_flush, rx_num, timer>>

(* mlan_11n_rxreorder_timer_restart; the timer, MIN_FLUSH_TIME or longer,  *)
(* does not expire before timer_is_set is stored.                          *)
RxStart ==
    /\ rx = "start"
    /\ timer' = [armed |-> TRUE, is_canceled |-> FALSE, period |-> TRUE]
    /\ tbl' = [tbl EXCEPT !.timer_is_set = TRUE]
    /\ rx' = "after"
    /\ UNCHANGED <<RxRest, cut, raced, proc, scheduled, queue, adapter_flush, rx_num>>

RxAfter ==
    /\ rx = "after"
    /\ rx' = IF (napi /\ rx_num >= Budget) \/ rx_lock_flag THEN "exit" ELSE "check"
    /\ cut' = (cut \/ rx_lock_flag)
    /\ UNCHANGED <<RxRest, raced, proc, scheduled, queue, adapter_flush, rx_num, tbl,
                   timer>>

\* Mutant: the process ends without looking at the flag.
RxExitBlind ==
    /\ rx = "exit"
    /\ mlan_rx_processing' = FALSE /\ rx' = "complete"
    /\ UNCHANGED <<RxRest, cut, raced, more_rx_task_flag, rx_lock_flag, scheduled, queue,
                   adapter_flush, rx_num, tbl, timer>>

RxExit ==
    /\ rx = "exit"
    /\ IF more_rx_task_flag
       THEN /\ more_rx_task_flag' = FALSE /\ rx' = "check"
            /\ UNCHANGED mlan_rx_processing
       ELSE /\ mlan_rx_processing' = FALSE /\ rx' = "complete"
            /\ UNCHANGED more_rx_task_flag
    /\ UNCHANGED <<RxRest, cut, raced, rx_lock_flag, scheduled, queue, adapter_flush,
                   rx_num, tbl, timer>>

(* The work ends; a poll that used up its budget is polled again. *)
RxComplete ==
    /\ rx = "complete"
    /\ rx' = "idle"
    /\ scheduled' = (scheduled \/ (napi /\ rx_num >= Budget))
    /\ UNCHANGED <<RxRest, cut, raced, proc, queue, adapter_flush, rx_num, tbl, timer>>

RxStep ==
    \/ RxWork \/ RxEnter \/ RxCheckFlush \/ RxWalk \/ RxDequeue \/ RxHandle
    \/ RxDone \/ RxStop \/ RxUnset \/ RxStart \/ RxAfter \/ RxExit \/ RxComplete

-----------------------------------------------------------------------------
CbRest ==
    <<napi, arrived, intr, queue, proc, rx, rx_num, blk, role, ops, raced, cut>>

(* The timer expires. *)
Expire ==
    /\ timer.armed /\ cb = "off"
    /\ timer' = [timer EXCEPT !.armed = FALSE]
    /\ cb' = "start"
    /\ UNCHANGED <<CbRest, zeroed, scheduled, adapter_flush, tbl>>

(* woal_timer_handler *)
CbStart ==
    /\ cb = "start"
    /\ cb' = IF timer.is_canceled THEN "end" ELSE "adapter"
    /\ UNCHANGED <<CbRest, zeroed, scheduled, adapter_flush, tbl, timer>>

(* wlan_flush_data: the adapter's flag, the table's, the timer's. *)
CbAdapter ==
    /\ cb = "adapter"
    /\ adapter_flush' = TRUE
    /\ cb' = "table"
    /\ UNCHANGED <<CbRest, zeroed, scheduled, tbl, timer>>

CbTable ==
    /\ cb = "table"
    /\ tbl' = [tbl EXCEPT !.flush_data = TRUE]
    /\ cb' = "unset"
    /\ UNCHANGED <<CbRest, zeroed, scheduled, adapter_flush, timer>>

\* Mutant: the callback leaves timer_is_set alone.
CbUnsetMissing ==
    /\ cb = "unset"
    /\ cb' = "event"
    /\ UNCHANGED <<CbRest, zeroed, scheduled, adapter_flush, tbl, timer>>

CbUnset ==
    /\ cb = "unset"
    /\ tbl' = [tbl EXCEPT !.timer_is_set = FALSE]
    /\ cb' = "event"
    /\ UNCHANGED <<CbRest, zeroed, scheduled, adapter_flush, timer>>

\* Mutant: the callback does not ask for the receive work.
CbEventSilent ==
    /\ cb = "event"
    /\ cb' = "end"
    /\ UNCHANGED <<CbRest, zeroed, scheduled, adapter_flush, tbl, timer>>

(* MLAN_EVENT_ID_DRV_DEFER_RX_WORK *)
CbEvent ==
    /\ cb = "event"
    /\ scheduled' = TRUE
    /\ cb' = "end"
    /\ UNCHANGED <<CbRest, zeroed, adapter_flush, tbl, timer>>

CbEnd ==
    /\ cb = "end"
    /\ timer' = [timer EXCEPT !.period = FALSE]
    /\ zeroed' = (zeroed \/ timer.armed)
    /\ cb' = "off"
    /\ UNCHANGED <<CbRest, scheduled, adapter_flush, tbl>>

CbStep ==
    CbStart \/ CbAdapter \/ CbTable \/ CbUnset \/ CbEvent \/ CbEnd

-----------------------------------------------------------------------------
BlkRest == <<napi, arrived, intr, queue, scheduled, adapter_flush, rx, rx_num, cb,
             raced, cut, zeroed>>

(* A DELBA, an ADDBA or a BSS role switch is to be handled. *)
Begin(op) ==
    /\ blk = "idle" /\ ops < MaxOps
    /\ op \in Ops
    /\ op = "delete" => tbl.in_use
    /\ op = "create" => ~tbl.in_use
    /\ ops' = ops + 1
    /\ role' = (op = "role")
    /\ blk' = IF op = "role" THEN "outer_block" ELSE "block"
    /\ UNCHANGED <<BlkRest, proc, tbl, timer>>

InnerStart == IF tbl.in_use THEN "block" ELSE "init"

(* mlan_block_rx_process(MTRUE), up to the wait for the receive process. *)
Block ==
    /\ blk \in {"outer_block", "block"}
    /\ rx_lock_flag' = TRUE
    /\ blk' = CASE mlan_rx_processing /\ blk = "block" -> "wait"
                [] mlan_rx_processing /\ blk = "outer_block" -> "outer_wait"
                [] ~mlan_rx_processing /\ blk = "block" -> "section"
                [] ~mlan_rx_processing /\ blk = "outer_block" -> InnerStart
    /\ UNCHANGED <<BlkRest, mlan_rx_processing, more_rx_task_flag, tbl, timer,
                   role, ops>>

(* MLAN_EVENT_ID_DRV_FLUSH_RX_WORK: flush_workqueue or napi_synchronize. *)
FlushRxWork ==
    /\ blk \in {"outer_wait", "wait"}
    /\ rx = "idle" /\ (napi => ~scheduled)
    /\ blk' = IF blk = "wait" THEN "section" ELSE InnerStart
    /\ UNCHANGED <<BlkRest, proc, tbl, timer, role, ops>>

(* wlan_11n_create_rxreorder_tbl *)
Create ==
    /\ blk = "section" /\ ~tbl.in_use
    /\ tbl' = NewTable /\ timer' = NewTimer
    /\ blk' = "unblock"
    /\ UNCHANGED <<BlkRest, proc, role, ops>>

(* wlan_11n_delete_rxreorder_tbl_entry: dispatch, stop, free. *)
Dispatch ==
    /\ blk = "section" /\ tbl.in_use
    /\ tbl' = [tbl EXCEPT !.held = FALSE]
    /\ blk' = IF tbl.timer_is_set THEN "stop" ELSE "free_timer"
    /\ UNCHANGED <<BlkRest, proc, timer, role, ops>>

StopTimer ==
    /\ blk = "stop" /\ cb = "off"
    /\ timer' = Canceled
    /\ tbl' = [tbl EXCEPT !.timer_is_set = FALSE]
    /\ blk' = "free_timer"
    /\ UNCHANGED <<BlkRest, proc, role, ops>>

\* Mutant: the timer is freed without the test for a running one.
FreeTimerBlind ==
    /\ blk = "free_timer"
    /\ blk' = "free"
    /\ UNCHANGED <<BlkRest, proc, tbl, timer, role, ops>>

(* moal_free_timer stops a timer that still looks started. *)
FreeTimer ==
    /\ blk = "free_timer"
    /\ IF ~timer.is_canceled /\ timer.period
       THEN cb = "off" /\ timer' = Canceled
       ELSE UNCHANGED timer
    /\ blk' = "free"
    /\ UNCHANGED <<BlkRest, proc, tbl, role, ops>>

Free ==
    /\ blk = "free"
    /\ tbl' = [tbl EXCEPT !.in_use = FALSE]
    /\ blk' = "unblock"
    /\ UNCHANGED <<BlkRest, proc, timer, role, ops>>

(* mlan_block_rx_process(MFALSE); in a role switch the private structure   *)
(* is initialised anew before the outer call.                              *)
Unblock ==
    /\ blk \in {"unblock", "outer_unblock"}
    /\ rx_lock_flag' = FALSE
    /\ blk' = IF blk = "unblock" /\ role THEN "init" ELSE "idle"
    /\ UNCHANGED <<BlkRest, mlan_rx_processing, more_rx_task_flag, tbl, timer,
                   role, ops>>

InitPriv ==
    /\ blk = "init"
    /\ blk' = "outer_unblock"
    /\ UNCHANGED <<BlkRest, proc, tbl, timer, role, ops>>

BlkStep ==
    \/ Block \/ FlushRxWork \/ Create \/ Dispatch \/ StopTimer \/ FreeTimer
    \/ Free \/ Unblock \/ InitPriv

Next ==
    \/ Arrive \/ QueueRxWork \/ RxStep \/ Expire \/ CbStep \/ BlkStep
    \/ \E op \in Ops : Begin(op)

Spec == Init /\ [][Next]_vars

(* Contexts that have begun go on, work that is scheduled runs, and an     *)
(* armed timer expires.                                                    *)
Fairness ==
    /\ WF_vars(QueueRxWork) /\ WF_vars(RxStep)
    /\ WF_vars(Expire) /\ WF_vars(CbStep) /\ WF_vars(BlkStep)

FairSpec == Spec /\ Fairness
-----------------------------------------------------------------------------
(* Every variable holds what its field can hold. *)
TypeOK ==
    /\ arrived \in 0 .. MaxPackets /\ queue \in 0 .. MaxPackets
    /\ intr \in {"idle", "kick"}
    /\ rx \in {"idle", "enter", "check", "walk", "dequeue", "handle", "moved",
               "done", "stop", "restop", "unset", "start", "after", "exit",
               "complete"}
    /\ rx_num \in 0 .. MaxPackets
    /\ cb \in {"off", "start", "adapter", "table", "unset", "event", "end"}
    /\ blk \in {"idle", "outer_block", "outer_wait", "block", "wait", "section",
                "stop", "free_timer", "free", "unblock", "init", "outer_unblock"}
    /\ \A b \in {scheduled, mlan_rx_processing, more_rx_task_flag,
                 rx_lock_flag, adapter_flush, role} : b \in BOOLEAN
    /\ tbl \in [in_use : BOOLEAN, held : BOOLEAN, flush_data : BOOLEAN,
                timer_is_set : BOOLEAN]
    /\ timer \in [armed : BOOLEAN, is_canceled : BOOLEAN, period : BOOLEAN]
    /\ ops \in 0 .. MaxOps

UsesTable ==
    rx \in {"walk", "handle", "moved", "done", "stop", "restop", "unset", "start"}

InSection == blk \in {"section", "stop", "free_timer", "free", "unblock", "init"}

(* While a thread works on the tables behind mlan_block_rx_process the     *)
(* receive process is not running.  rx_lock_flag is no counter: the first  *)
(* table a role switch deletes ends the role switch's own block too.       *)
BlockedIsQuiet == InSection /\ rx_lock_flag => ~mlan_rx_processing /\ ~UsesTable

(* When a table is gone its timer is neither enqueued nor in its callback, *)
(* unless the handler had cleared time_period of a timer re-armed under it *)
(* and moal_free_timer took it for stopped.  The NAPI poll, which cannot   *)
(* wait for a callback, does not give even this.                           *)
FreedIsQuiet == ~tbl.in_use /\ ~zeroed /\ ~napi => ~timer.armed /\ cb = "off"

(* A frame held back has its timer running, or the callback, or the two    *)
(* flags it sets, will release it - unless the receive process looked at   *)
(* the table between two stores of wlan_flush_data.                        *)
HeldIsCovered ==
    tbl.in_use /\ tbl.held /\ ~UsesTable /\ ~raced =>
        \/ timer.armed \/ cb \in {"start", "adapter", "table"}
        \/ tbl.flush_data /\ adapter_flush

(* A queued packet is handled, unless the process gave way to a block:     *)
(* unblocking starts nothing.                                              *)
QueueDrainsUnlessCut == (queue > 0) ~> (queue = 0 \/ cut)

(* A held frame leaves, unless the process gave way to a block or the      *)
(* callback's stores were seen half done.                                  *)
HeldLeavesUnlessMissed == tbl.held ~> (~tbl.held \/ cut \/ raced)
=============================================================================
