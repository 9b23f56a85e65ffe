---------------------------- MODULE CommandEngine ----------------------------
(***************************************************************************)
(* The command engine of mlan on a PCIe card, and the contexts that meet   *)
(* in it:                                                                  *)
(*   req[r]  the thread of request r, woal_request_ioctl,                  *)
(*   loop    mlan_main_process, run by the main work or, after a response  *)
(*           was taken from the card, by the response work,                *)
(*   resp    the response work, wlan_pcie_process_cmd_resp,                *)
(*   cb      wlan_cmd_timeout_func, the command timer, in softirq,         *)
(*   hang    the recovery that a timeout asks for: the firmware dump, the  *)
(*           hang work and reset_handle, which all cards share.            *)
(* Code under the command lock is one step; the fields that are read       *)
(* without it (curr_cmd, num_cmd_timeout, cmd_timer_is_set, pioctl_buf)    *)
(* are read and written in steps of their own.  The card stays awake, no   *)
(* scan runs and no data is queued: those parts of the loop are left out.  *)
(***************************************************************************)
EXTENDS Naturals, Sequences, FiniteSets, SequencesExt

CONSTANTS
    Reqs,       \* requests, each issued at most once
    Nodes,      \* command nodes
    NoReq, NoNode,
    BssReqs,    \* the requests of the BSS that is removed
    HeadReqs,   \* requests whose command goes to the head (host sleep cancel)
    MaxResends, \* bound: how often the card refuses in pre-asleep
    Scenarios   \* sets of faults that may meet in one behaviour

FaultNames == {"prepare", "send", "map", "silent", "result", "asleep", "signal",
               "remove", "mismatch", "dump", "other", "reset"}

ASSUME CommandAssumption ==
    /\ Reqs # {} /\ NoReq \notin Reqs
    /\ IsFiniteSet(Nodes) /\ NoNode \notin Nodes
    /\ BssReqs \subseteq Reqs /\ HeadReqs \subseteq Reqs
    /\ MaxResends \in Nat
    /\ Scenarios # {} /\ \A s \in Scenarios : s \subseteq FaultNames

VARIABLES
    req,            \* the requests and their threads
    preparer,       \* the thread in mlan_ioctl: holds ioctl_lock
    prepared,       \* its node
    node,           \* the nodes' contents
    cmd_free_q, cmd_pending_q, curr_cmd,
    main_work,      \* the main work is queued
    mlan_processing, more_task_flag,
    loop,           \* where the main process is
    unlinked,       \* its local pcmd_node, between the queue and curr_cmd
    pioctl_buf,     \* its local pioctl_buf in wlan_process_cmdresp
    cmd_sent, cmd_resp_received,
    card,           \* "idle", "busy" with a command, or "dead"
    resp,           \* where the response work is
    timer,          \* the command timer, and cmd_timer_is_set
    num_cmd_timeout,\* not zero
    cb,             \* where the callback is
    cb_node, cb_req,\* its locals pcmd_node and pioctl_buf
    driver_status,  \* MOAL takes the driver for hung
    hang,           \* the recovery: see NoHang
    removed,        \* the BSS was removed
    resent,         \* commands refused in pre-asleep so far
    faults,         \* the scenario of this behaviour
    raced,          \* history: two contexts overlapped where no lock keeps them apart
    broke,          \* history: a failed download ended the loop
    wrong           \* history: what was touched that was not there any more

reqs == <<req, preparer, prepared>>
queues == <<node, cmd_free_q, cmd_pending_q, curr_cmd>>
proc == <<main_work, mlan_processing, more_task_flag>>
locals == <<unlinked, pioctl_buf>>
bus == <<cmd_sent, cmd_resp_received, card, resp>>
clock == <<timer, num_cmd_timeout, cb, cb_node, cb_req>>
recovery == <<driver_status, hang, removed, resent, faults>>
history == <<raced, broke, wrong>>
vars == <<reqs, queues, proc, loop, locals, bus, clock, recovery, history>>

NewReq == [at |-> "new", wait |-> FALSE, condition |-> FALSE, woken |-> FALSE,
           live |-> FALSE, timed_out |-> FALSE, done |-> 0]
(* The hang work of this card, a firmware dump that will ask for it, the    *)
(* card in reset_handle; history: the work has canceled, a hang was lost.   *)
NoHang == [work |-> "idle", dump |-> FALSE, handle |-> "none", swept |-> FALSE,
           lost |-> FALSE]
CleanNode == [pioctl |-> NoReq, canceled |-> FALSE, respbuf |-> FALSE]

Init ==
    /\ req = [r \in Reqs |-> NewReq] /\ preparer = NoReq /\ prepared = NoNode
    /\ node = [n \in Nodes |-> CleanNode]
    /\ cmd_free_q = SetToSeq(Nodes) /\ cmd_pending_q = <<>>
    /\ curr_cmd = NoNode
    /\ main_work = FALSE /\ mlan_processing = FALSE /\ more_task_flag = FALSE
    /\ loop = "idle" /\ unlinked = NoNode /\ pioctl_buf = NoReq
    /\ cmd_sent = FALSE /\ cmd_resp_received = FALSE
    /\ card = "idle" /\ resp = "idle"
    /\ timer = [armed |-> FALSE, is_canceled |-> TRUE, is_set |-> FALSE]
    /\ num_cmd_timeout = FALSE /\ cb = "off" /\ cb_node = NoNode /\ cb_req = NoReq
    /\ driver_status = FALSE /\ hang = NoHang /\ removed = FALSE
    /\ resent = 0 /\ faults \in Scenarios
    /\ raced = FALSE /\ broke = FALSE /\ wrong = {}

-----------------------------------------------------------------------------
(* Completion of requests. *)

(* Writing into a request that its owner freed. *)
Touching(S) == IF \E r \in S \ {NoReq} : ~req[r].live THEN {"freed"} ELSE {}

(* moal_ioctl_complete: wakes the thread that waits, unless the command     *)
(* timed out; frees a request nobody waits for.                             *)
Completed(q, timeout) ==
    IF q.wait
    THEN [q EXCEPT !.condition = TRUE, !.done = @ + 1, !.woken = @ \/ ~timeout]
    ELSE [q EXCEPT !.live = FALSE, !.done = @ + 1]

CompleteAll(S, timeout) ==
    [r \in Reqs |-> IF r \in S THEN Completed(req[r], timeout) ELSE req[r]]

(* What is left of a request when its thread has freed it. *)
Freed(q) == [NewReq EXCEPT !.at = "returned", !.done = q.done]

-----------------------------------------------------------------------------
(* The thread of a request: woal_request_ioctl and wlan_prepare_cmd.        *)
ReqRest == <<queues, main_work, mlan_processing, more_task_flag, loop, locals,
             bus, clock, recovery, history>>

(* The driver may be hung; if not, the request goes ahead. *)
Request(r) ==
    /\ req[r].at = "new"
    /\ req' = [req EXCEPT ![r] =
                 IF driver_status THEN [@ EXCEPT !.at = "returned"]
                 ELSE [@ EXCEPT !.at = "lock", !.wait = TRUE, !.live = TRUE]]
    /\ UNCHANGED <<preparer, prepared, ReqRest>>

(* wlan_get_cmd_node, with ioctl_lock taken: no node, no command. *)
GetCmdNode(r) ==
    /\ req[r].at = "lock" /\ preparer = NoReq
    /\ IF cmd_free_q = <<>>
       THEN /\ req' = [req EXCEPT ![r] = Freed(@)]
            /\ UNCHANGED <<preparer, prepared, cmd_free_q, node>>
       ELSE /\ req' = [req EXCEPT ![r].at = "prepare"]
            /\ preparer' = r /\ prepared' = Head(cmd_free_q)
            /\ cmd_free_q' = Tail(cmd_free_q)
            /\ node' = [node EXCEPT ![Head(cmd_free_q)] = [CleanNode EXCEPT !.pioctl = r]]
    /\ UNCHANGED <<cmd_pending_q, curr_cmd, proc, loop, locals, bus, clock,
                   recovery, history>>

(* wlan_insert_cmd_to_pending_q, then ioctl_lock is given up. *)
QueueCmd(r) ==
    /\ req[r].at = "prepare"
    /\ cmd_pending_q' = IF r \in HeadReqs THEN <<prepared>> \o cmd_pending_q
                                          ELSE Append(cmd_pending_q, prepared)
    /\ req' = [req EXCEPT ![r].at = "kick"]
    /\ preparer' = NoReq /\ prepared' = NoNode
    /\ UNCHANGED <<node, cmd_free_q, curr_cmd, proc, loop, locals, bus, clock,
                   recovery, history>>

(* The command could not be built: the node goes back, uncompleted. *)
PrepareFails(r) ==
    /\ "prepare" \in faults /\ req[r].at = "prepare"
    /\ cmd_free_q' = Append(cmd_free_q, prepared)
    /\ node' = [node EXCEPT ![prepared] = CleanNode]
    /\ req' = [req EXCEPT ![r] = Freed(@)]
    /\ preparer' = NoReq /\ prepared' = NoNode
    /\ UNCHANGED <<cmd_pending_q, curr_cmd, proc, loop, locals, bus, clock,
                   recovery, history>>

KickMain(r) ==
    /\ req[r].at = "kick"
    /\ main_work' = TRUE
    /\ req' = [req EXCEPT ![r].at = "wait"]
    /\ UNCHANGED <<preparer, prepared, queues, mlan_processing, more_task_flag,
                   loop, locals, bus, clock, recovery, history>>

(* woal_wait_ioctl_complete: sleeps until woken, then frees the request. *)
Wait(r) ==
    /\ \/ /\ req[r].at = "wait" /\ ~req[r].condition
          /\ req' = [req EXCEPT ![r].at = "sleep"]
       \/ /\ (req[r].at = "wait" /\ req[r].condition)
             \/ (req[r].at = "sleep" /\ req[r].woken)
          /\ req' = [req EXCEPT ![r] = Freed(@)]
    /\ UNCHANGED <<preparer, prepared, ReqRest>>

\* Mutant: the thread leaves and frees a request the engine still knows.
GiveUpFrees(r) ==
    /\ "signal" \in faults /\ req[r].at = "sleep"
    /\ req' = [req EXCEPT ![r] = Freed(@)]
    /\ UNCHANGED <<preparer, prepared, ReqRest>>

(* A signal ends the wait: if the request is not complete it is left to     *)
(* the completion to free.                                                  *)
GiveUp(r) ==
    /\ "signal" \in faults /\ req[r].at = "sleep"
    /\ req' = [req EXCEPT ![r] = IF @.condition THEN Freed(@)
                                 ELSE [@ EXCEPT !.at = "returned", !.wait = FALSE]]
    /\ UNCHANGED <<preparer, prepared, ReqRest>>

-----------------------------------------------------------------------------
(* mlan_main_process *)
LoopRest == <<preparer, prepared, card, resp, num_cmd_timeout, cb, cb_node,
              cb_req, recovery>>

(* Entered from the main work or from the response work: the second one     *)
(* leaves a note.                                                           *)
Enter ==
    /\ IF mlan_processing
       THEN more_task_flag' = TRUE /\ UNCHANGED <<mlan_processing, loop>>
       ELSE mlan_processing' = TRUE /\ loop' = "top" /\ UNCHANGED more_task_flag
    /\ UNCHANGED <<reqs, queues, locals, cmd_sent, cmd_resp_received, card, clock,
                   recovery, history>>

(* The main work does not run beside itself; the response work may run it. *)
MainWork == main_work /\ main_work' = FALSE /\ Enter /\ UNCHANGED resp

(* Nothing to do leaves the loop. *)
LoopTop ==
    /\ loop = "top"
    /\ loop' = IF \/ cmd_resp_received
                  \/ ~cmd_sent /\ curr_cmd = NoNode /\ cmd_pending_q # <<>>
               THEN "resp" ELSE "exit"
    /\ UNCHANGED <<LoopRest, req, queues, proc, locals, cmd_sent,
                   cmd_resp_received, timer, history>>

LoopResp ==
    /\ loop = "resp"
    /\ cmd_resp_received' = FALSE
    /\ loop' = IF cmd_resp_received THEN "r_read" ELSE "exec"
    /\ UNCHANGED <<LoopRest, req, queues, proc, locals, cmd_sent, timer, history>>

\* Mutant: a response is processed after the command timed out.
RespReadLate ==
    /\ loop = "r_read"
    /\ IF curr_cmd = NoNode \/ ~node[curr_cmd].respbuf
       THEN loop' = "exec" /\ UNCHANGED <<pioctl_buf, raced>>
       ELSE /\ loop' = "r_stop" /\ pioctl_buf' = node[curr_cmd].pioctl
            /\ raced' = (raced \/ cb # "off")
    /\ UNCHANGED <<LoopRest, req, queues, proc, unlinked, cmd_sent,
                   cmd_resp_received, timer, broke, wrong>>

(* wlan_process_cmdresp: ignored after a timeout, without a command, or if  *)
(* it answers another command; the timer of the command then runs on.       *)
RespRead ==
    /\ loop = "r_read"
    /\ \/ /\ num_cmd_timeout \/ curr_cmd = NoNode \/ ~node[curr_cmd].respbuf
             \/ "mismatch" \in faults
          /\ loop' = "exec" /\ UNCHANGED <<pioctl_buf, raced>>
       \/ /\ ~num_cmd_timeout /\ curr_cmd # NoNode /\ node[curr_cmd].respbuf
          /\ loop' = "r_stop" /\ pioctl_buf' = node[curr_cmd].pioctl
          /\ raced' = (raced \/ cb # "off")
    /\ UNCHANGED <<LoopRest, req, queues, proc, unlinked, cmd_sent,
                   cmd_resp_received, timer, broke, wrong>>

(* The command timer is stopped if it is set ... *)
RespStop ==
    /\ loop = "r_stop"
    /\ IF timer.is_set
       THEN loop' = "r_sync" /\ timer' = [timer EXCEPT !.armed = FALSE]
       ELSE loop' = "r_cancel" /\ UNCHANGED timer
    /\ UNCHANGED <<LoopRest, req, queues, proc, locals, cmd_sent,
                   cmd_resp_received, history>>

(* ... and del_timer_sync waits for a callback that is running.             *)
RespSync ==
    /\ loop = "r_sync" /\ cb = "off"
    /\ timer' = [timer EXCEPT !.is_canceled = TRUE, !.is_set = FALSE]
    /\ loop' = "r_cancel"
    /\ UNCHANGED <<LoopRest, req, queues, proc, locals, cmd_sent,
                   cmd_resp_received, history>>

(* Puts the current node back with its request completed, after writing a   *)
(* status code into the request local.                                      *)
FreeCurr(timeout, local) ==
    LET r == node[curr_cmd].pioctl IN
    /\ req' = CompleteAll({r}, timeout)
    /\ wrong' = wrong \cup Touching({r, local})
    /\ node' = [node EXCEPT ![curr_cmd] = CleanNode]
    /\ cmd_free_q' = Append(cmd_free_q, curr_cmd)
    /\ curr_cmd' = NoNode
    /\ UNCHANGED cmd_pending_q

(* The command was canceled: its node is all there is left to free. *)
RespCanceled ==
    /\ loop = "r_cancel"
    /\ IF node[curr_cmd].canceled
       THEN loop' = "exec" /\ FreeCurr(FALSE, pioctl_buf)
       ELSE loop' = "r_handle" /\ UNCHANGED <<req, queues, wrong>>
    /\ pioctl_buf' = IF node[curr_cmd].canceled THEN NoReq ELSE pioctl_buf
    /\ UNCHANGED <<LoopRest, proc, unlinked, cmd_sent,
                   cmd_resp_received, timer, raced, broke>>

(* The handler of the response works on the request it was given. *)
RespHandle ==
    /\ loop = "r_handle"
    /\ wrong' = wrong \cup Touching({pioctl_buf})
    /\ loop' = "r_done"
    /\ UNCHANGED <<LoopRest, req, queues, proc, locals, cmd_sent,
                   cmd_resp_received, timer, raced, broke>>

(* wlan_handle_cmd_error_in_pre_aleep: the command is sent again later. *)
RespAsleep ==
    /\ "asleep" \in faults /\ resent < MaxResends /\ loop = "r_handle"
    /\ resent' = resent + 1
    /\ node' = [node EXCEPT ![curr_cmd].respbuf = FALSE]
    /\ cmd_pending_q' = <<curr_cmd>> \o cmd_pending_q
    /\ curr_cmd' = NoNode
    /\ pioctl_buf' = NoReq
    /\ loop' = "exec"
    /\ UNCHANGED <<preparer, prepared, card, resp, num_cmd_timeout, cb, cb_node,
                   cb_req, driver_status, hang, removed, faults, req, cmd_free_q, proc,
                   unlinked, cmd_sent, cmd_resp_received, timer, history>>

(* The handler succeeded, or failed: then the request keeps an error code   *)
(* that is there already.                                                   *)
RespDone ==
    /\ loop = "r_done"
    /\ LET r == node[curr_cmd].pioctl IN
       \/ FreeCurr(FALSE, r)
       \/ "result" \in faults /\ FreeCurr(r # NoReq /\ req[r].timed_out, r)
    /\ pioctl_buf' = NoReq
    /\ loop' = "exec"
    /\ UNCHANGED <<LoopRest, proc, unlinked, cmd_sent, cmd_resp_received, timer,
                   raced, broke>>

\* Mutant: the next command is taken while one is outstanding.
ExecNextBusy ==
    /\ loop = "exec"
    /\ IF ~cmd_sent /\ cmd_pending_q # <<>>
       THEN /\ unlinked' = Head(cmd_pending_q)
            /\ cmd_pending_q' = Tail(cmd_pending_q)
            /\ loop' = "d_set"
       ELSE loop' = "top" /\ UNCHANGED <<unlinked, cmd_pending_q>>
    /\ UNCHANGED <<LoopRest, req, node, cmd_free_q, curr_cmd, proc, pioctl_buf,
                   cmd_sent, cmd_resp_received, timer, history>>

(* wlan_exec_next_cmd unlinks the first pending command. *)
ExecNext ==
    /\ loop = "exec"
    /\ IF ~cmd_sent /\ curr_cmd = NoNode /\ cmd_pending_q # <<>>
       THEN /\ unlinked' = Head(cmd_pending_q)
            /\ cmd_pending_q' = Tail(cmd_pending_q)
            /\ loop' = "d_set"
       ELSE loop' = "top" /\ UNCHANGED <<unlinked, cmd_pending_q>>
    /\ UNCHANGED <<LoopRest, req, node, cmd_free_q, curr_cmd, proc, pioctl_buf,
                   cmd_sent, cmd_resp_received, timer, history>>

(* wlan_dnld_cmd_to_fw *)
DnldSet ==
    /\ loop = "d_set"
    /\ curr_cmd' = unlinked /\ unlinked' = NoNode
    /\ loop' = "d_send"
    /\ UNCHANGED <<LoopRest, req, node, cmd_free_q, cmd_pending_q, proc, pioctl_buf,
                   cmd_sent, cmd_resp_received, timer, history>>

DnldSend ==
    /\ loop = "d_send"
    /\ cmd_sent' = TRUE /\ card' = "busy"
    /\ loop' = "d_timer"
    /\ UNCHANGED <<reqs, queues, proc, locals, cmd_resp_received, resp, clock,
                   recovery, history>>

(* A failed transfer completes the request and leaves the loop; a failed    *)
(* DMA mapping leaves cmd_sent behind as well.                              *)
DnldFails ==
    /\ loop = "d_send"
    /\ \/ "send" \in faults /\ cmd_sent' = FALSE
       \/ "map" \in faults /\ cmd_sent' = TRUE
    /\ FreeCurr(FALSE, NoReq)
    /\ loop' = "exit" /\ broke' = TRUE
    /\ UNCHANGED <<LoopRest, proc, locals, cmd_resp_received, timer, raced>>

DnldTimer ==
    /\ loop = "d_timer"
    /\ timer' = [armed |-> TRUE, is_canceled |-> FALSE, is_set |-> TRUE]
    /\ loop' = "top"
    /\ UNCHANGED <<LoopRest, req, queues, proc, locals, cmd_sent,
                   cmd_resp_received, history>>

\* Mutant: the note of a refused caller is overlooked.
ExitBlind ==
    /\ loop = "exit"
    /\ more_task_flag' = FALSE
    /\ mlan_processing' = FALSE /\ loop' = "idle"
    /\ UNCHANGED <<LoopRest, req, queues, main_work, locals, cmd_sent,
                   cmd_resp_received, timer, history>>

Exit ==
    /\ loop = "exit"
    /\ more_task_flag' = FALSE
    /\ mlan_processing' = more_task_flag
    /\ loop' = IF more_task_flag THEN "top" ELSE "idle"
    /\ UNCHANGED <<LoopRest, req, queues, main_work, locals, cmd_sent,
                   cmd_resp_received, timer, history>>

-----------------------------------------------------------------------------
(* The card and the response work. *)
BusRest == <<reqs, cmd_free_q, cmd_pending_q, curr_cmd, locals, clock, recovery,
             history>>

(* The command-done interrupt. *)
CardAnswers ==
    /\ card = "busy" /\ resp = "idle"
    /\ card' = "idle" /\ cmd_sent' = FALSE /\ resp' = "take"
    /\ UNCHANGED <<BusRest, node, proc, loop, cmd_resp_received>>

(* The firmware never answers again. *)
CardDies ==
    /\ "silent" \in faults /\ card = "busy"
    /\ card' = "dead"
    /\ UNCHANGED <<BusRest, node, proc, loop, cmd_sent, cmd_resp_received, resp>>

RespTake ==
    /\ resp = "take"
    /\ IF curr_cmd = NoNode
       THEN resp' = "enter" /\ UNCHANGED node
       ELSE resp' = "signal" /\ node' = [node EXCEPT ![curr_cmd].respbuf = TRUE]
    /\ UNCHANGED <<BusRest, proc, loop, cmd_sent, cmd_resp_received, card>>

RespSignal ==
    /\ resp = "signal"
    /\ cmd_resp_received' = TRUE
    /\ resp' = "enter"
    /\ UNCHANGED <<BusRest, node, proc, loop, cmd_sent, card>>

RespEnter == resp = "enter" /\ resp' = "idle" /\ Enter /\ UNCHANGED main_work

-----------------------------------------------------------------------------
(* The command timer. *)
CbRest == <<preparer, prepared, queues, proc, loop, locals, bus, removed, resent, faults,
            broke>>

(* A response is in the hands of wlan_process_cmdresp. *)
InHand == loop \in {"r_stop", "r_sync", "r_cancel", "r_handle", "r_done"}

Expire ==
    /\ timer.armed /\ cb = "off"
    /\ timer' = [timer EXCEPT !.armed = FALSE]
    /\ cb' = "start"
    /\ raced' = (raced \/ InHand)
    /\ UNCHANGED <<CbRest, req, num_cmd_timeout, cb_node, cb_req, driver_status,
                   hang, wrong>>

CbStart ==
    /\ cb = "start"
    /\ cb' = IF timer.is_canceled THEN "off" ELSE "look"
    /\ timer' = IF timer.is_canceled THEN timer ELSE [timer EXCEPT !.is_set = FALSE]
    /\ UNCHANGED <<CbRest, req, num_cmd_timeout, cb_node, cb_req, driver_status,
                   hang, raced, wrong>>

(* No current command: nothing timed out. *)
CbLook ==
    /\ cb = "look"
    /\ cb' = IF curr_cmd = NoNode THEN "off" ELSE "count"
    /\ UNCHANGED <<CbRest, req, timer, num_cmd_timeout, cb_node, cb_req,
                   driver_status, hang, raced, wrong>>

(* curr_cmd is read again. *)
CbCount ==
    /\ cb = "count"
    /\ num_cmd_timeout' = TRUE
    /\ cb_node' = curr_cmd
    /\ wrong' = IF curr_cmd = NoNode THEN wrong \cup {"null"} ELSE wrong
    /\ cb' = IF curr_cmd = NoNode THEN "event" ELSE "read"
    /\ UNCHANGED <<CbRest, req, timer, cb_req, driver_status, hang, raced>>

CbRead ==
    /\ cb = "read"
    /\ cb_req' = node[cb_node].pioctl /\ cb_node' = NoNode
    /\ cb' = "mark"
    /\ UNCHANGED <<CbRest, req, timer, num_cmd_timeout, driver_status, hang, raced,
                   wrong>>

(* The request, if there is one, is told that it timed out. *)
CbMark ==
    /\ cb = "mark"
    /\ req' = [r \in Reqs |-> IF r = cb_req THEN [req[r] EXCEPT !.timed_out = TRUE]
                                           ELSE req[r]]
    /\ wrong' = wrong \cup Touching({cb_req})
    /\ cb' = "event" /\ cb_req' = NoReq
    /\ UNCHANGED <<CbRest, timer, num_cmd_timeout, cb_node, driver_status, hang,
                   raced>>

(* woal_process_hang: one hang work serves all cards, and a hang that finds *)
(* it taken by another card is dropped; so is that of a card that is being  *)
(* reset or removed.                                                        *)
ProcessHang(h) ==
    {[h EXCEPT !.lost = TRUE] : f \in faults \cap {"reset"}}
    \cup {CASE h.handle = "none" -> [h EXCEPT !.work = "queued", !.handle = "own"]
            [] h.handle = "own" -> h
            [] h.handle = "other" -> [h EXCEPT !.lost = TRUE]}

(* MLAN_EVENT_ID_DRV_DBG_DUMP: the driver hangs; its recovery is begun, or  *)
(* left to the end of a firmware dump.                                      *)
CbEvent ==
    /\ cb = "event"
    /\ driver_status' = TRUE
    /\ \/ "dump" \in faults /\ hang' = [hang EXCEPT !.dump = TRUE]
       \/ ~hang.dump /\ hang' \in ProcessHang(hang)
    /\ cb' = "off"
    /\ UNCHANGED <<CbRest, req, timer, num_cmd_timeout, cb_node, cb_req, raced,
                   wrong>>

-----------------------------------------------------------------------------
(* Canceling. *)
Pending(S) == {n \in Range(cmd_pending_q) : node[n].pioctl \in S}
(* The one sequence of the members of S in a queue, in the queue's order. *)
Selected(queue, S) ==
    LET places == {i \in DOMAIN queue : queue[i] \in S}
        order == {f \in Bijection(1 .. Cardinality(places), places) :
                    \A i, j \in DOMAIN f : i < j => f[i] < f[j]}
    IN {[i \in 1 .. Cardinality(places) |-> queue[f[i]]] : f \in order}

CurrReq == IF curr_cmd = NoNode THEN NoReq ELSE node[curr_cmd].pioctl

\* Mutant: the current node keeps the request that was completed.
CancelKeeps(Out, S, mark) ==
    LET canceled == S \cap ({CurrReq} \cup {node[n].pioctl : n \in Out}) IN
    /\ req' = CompleteAll(canceled, FALSE)
    /\ wrong' = wrong \cup Touching(canceled)
    /\ node' = [n \in Nodes |-> IF n \in Out THEN CleanNode ELSE node[n]]
    /\ cmd_pending_q' \in Selected(cmd_pending_q, Nodes \ Out)
    /\ \E q \in Selected(cmd_pending_q, Out) : cmd_free_q' = cmd_free_q \o q
    /\ raced' = (raced \/ pioctl_buf \in canceled
                       \/ (cb # "off" /\ CurrReq \in canceled))

(* The pending nodes Out go back; the current one loses its request.        *)
Cancel(Out, S, mark) ==
    LET canceled == S \cap ({CurrReq} \cup {node[n].pioctl : n \in Out}) IN
    /\ req' = CompleteAll(canceled, FALSE)
    /\ wrong' = wrong \cup Touching(canceled)
    /\ node' = [n \in Nodes |->
                  IF n \in Out THEN CleanNode
                  ELSE IF n = curr_cmd /\ CurrReq \in canceled
                       THEN [node[n] EXCEPT !.pioctl = NoReq, !.canceled = @ \/ mark]
                       ELSE node[n]]
    /\ cmd_pending_q' \in Selected(cmd_pending_q, Nodes \ Out)
    /\ \E q \in Selected(cmd_pending_q, Out) : cmd_free_q' = cmd_free_q \o q
    /\ raced' = (raced \/ pioctl_buf \in canceled
                       \/ (cb # "off" /\ CurrReq \in canceled))

(* wlan_cancel_bss_pending_cmd, from the ioctl that removes a BSS.          *)
RemoveBss ==
    /\ "remove" \in faults /\ ~removed /\ ~driver_status /\ preparer = NoReq
    /\ removed' = TRUE
    /\ Cancel(Pending(BssReqs), BssReqs, TRUE)
    /\ UNCHANGED <<preparer, prepared, curr_cmd, proc, loop, locals, bus, clock,
                   driver_status, hang, resent, faults, broke>>

\* Mutant: the hang work leaves the requests alone.
HangWorkIdle ==
    /\ hang.work = "queued"
    /\ hang' = [hang EXCEPT !.work = "clear", !.swept = TRUE]
    /\ UNCHANGED <<reqs, queues, proc, loop, locals, bus, clock, driver_status,
                   removed, resent, faults, history>>

(* wlan_cancel_all_pending_cmd(MFALSE), from the hang work: the timer is    *)
(* stopped under the lock, so without waiting for its callback.             *)
HangWork ==
    /\ hang.work = "queued"
    /\ hang' = [hang EXCEPT !.work = "clear", !.swept = TRUE]
    /\ Cancel(Range(cmd_pending_q), Reqs, FALSE)
    /\ timer' = IF timer.is_set
                THEN [armed |-> FALSE, is_canceled |-> TRUE, is_set |-> FALSE]
                ELSE timer
    /\ UNCHANGED <<preparer, prepared, curr_cmd, proc, loop, locals, bus,
                   num_cmd_timeout, cb, cb_node, cb_req, driver_status,
                   removed, resent, faults, broke>>

HangRest == <<reqs, queues, proc, loop, locals, bus, clock, driver_status, removed,
              resent, faults, history>>

(* The card is being reset or removed: the work returns before it cancels,  *)
(* or woal_cancel_hang_work takes it off its queue.                         *)
HangReturns ==
    /\ "reset" \in faults /\ hang.work = "queued"
    /\ hang' = [hang EXCEPT !.work = "idle", !.handle = "none", !.lost = TRUE]
    /\ UNCHANGED HangRest

(* woal_clear_hang_handle, the end of the hang work. *)
HangClear ==
    /\ hang.work = "clear"
    /\ hang' = [hang EXCEPT !.work = "idle", !.handle = "none"]
    /\ UNCHANGED HangRest

(* The last piece of the firmware dump, or its timer. *)
DumpEnds ==
    /\ hang.dump
    /\ hang' \in ProcessHang([hang EXCEPT !.dump = FALSE])
    /\ UNCHANGED HangRest

(* Another card's hang work begins and ends. *)
OtherHangs ==
    /\ "other" \in faults /\ hang.handle = "none"
    /\ hang' = [hang EXCEPT !.handle = "other"]
    /\ UNCHANGED HangRest

OtherClears ==
    /\ hang.handle = "other"
    /\ hang' = [hang EXCEPT !.handle = "none"]
    /\ UNCHANGED HangRest

Recovery == HangReturns \/ HangClear \/ DumpEnds \/ OtherHangs \/ OtherClears

-----------------------------------------------------------------------------
Thread(r) == Request(r) \/ GetCmdNode(r) \/ QueueCmd(r) \/ KickMain(r) \/ Wait(r)

Loop == LoopTop \/ LoopResp \/ RespRead \/ RespStop \/ RespSync \/ RespCanceled
        \/ RespHandle \/ RespDone \/ ExecNext \/ DnldSet \/ DnldSend \/ DnldTimer
        \/ Exit

Response == RespTake \/ RespSignal \/ RespEnter

Callback == CbStart \/ CbLook \/ CbCount \/ CbRead \/ CbMark \/ CbEvent

Next ==
    \/ \E r \in Reqs : Thread(r) \/ PrepareFails(r) \/ GiveUp(r)
    \/ MainWork \/ Loop \/ RespAsleep \/ DnldFails
    \/ CardAnswers \/ CardDies \/ Response
    \/ Expire \/ Callback
    \/ RemoveBss \/ HangWork \/ Recovery

Spec == Init /\ [][Next]_vars

(* Threads, works and softirqs run on; a timer that stays armed expires, a  *)
(* dump that does not end is ended by its own timer.                        *)
Fairness ==
    /\ \A r \in Reqs : WF_vars(Thread(r))
    /\ WF_vars(MainWork) /\ WF_vars(Loop) /\ WF_vars(Response)
    /\ WF_vars(Expire) /\ WF_vars(Callback)
    /\ WF_vars(HangWork \/ HangReturns \/ HangClear) /\ WF_vars(DumpEnds)

FairSpec == Spec /\ Fairness

-----------------------------------------------------------------------------
(* Every variable holds what its field can hold. *)
TypeOK ==
    /\ req \in [Reqs -> [at : {"new", "lock", "prepare", "kick", "wait", "sleep",
                               "returned"},
                         wait : BOOLEAN, condition : BOOLEAN, woken : BOOLEAN,
                         live : BOOLEAN, timed_out : BOOLEAN, done : Nat]]
    /\ preparer \in Reqs \cup {NoReq} /\ prepared \in Nodes \cup {NoNode}
    /\ node \in [Nodes -> [pioctl : Reqs \cup {NoReq}, canceled : BOOLEAN,
                           respbuf : BOOLEAN]]
    /\ cmd_free_q \in Seq(Nodes) /\ cmd_pending_q \in Seq(Nodes)
    /\ curr_cmd \in Nodes \cup {NoNode} /\ unlinked \in Nodes \cup {NoNode}
    /\ main_work \in BOOLEAN /\ mlan_processing \in BOOLEAN
    /\ more_task_flag \in BOOLEAN
    /\ mlan_processing <=> loop # "idle"
    /\ pioctl_buf \in Reqs \cup {NoReq}
    /\ cmd_sent \in BOOLEAN /\ cmd_resp_received \in BOOLEAN
    /\ card \in {"idle", "busy", "dead"}
    /\ resp \in {"idle", "take", "signal", "enter"}
    /\ timer \in [armed : BOOLEAN, is_canceled : BOOLEAN, is_set : BOOLEAN]
    /\ num_cmd_timeout \in BOOLEAN /\ cb_node \in Nodes \cup {NoNode}
    /\ cb_req \in Reqs \cup {NoReq}
    /\ cb \in {"off", "start", "look", "count", "read", "mark", "event"}
    /\ driver_status \in BOOLEAN /\ hang \in [work : {"idle", "queued", "clear"}, dump : BOOLEAN,
                handle : {"none", "own", "other"}, swept : BOOLEAN, lost : BOOLEAN]
    /\ removed \in BOOLEAN /\ resent \in 0 .. MaxResends
    /\ faults \in Scenarios /\ raced \in BOOLEAN /\ broke \in BOOLEAN
    /\ wrong \subseteq {"freed", "null"}

(* A command node is in one place only: free, pending, current, just        *)
(* unlinked or being prepared.  The queues are linked through the nodes     *)
(* themselves, so a node in two places corrupts a list.                     *)
EachNodeOnce ==
    LET queued == cmd_free_q \o cmd_pending_q
        held == <<curr_cmd, unlinked, prepared>>
    IN /\ IsInjective(queued)
       /\ \A i, j \in 1 .. 3 : held[i] = held[j] /\ held[i] # NoNode => i = j
       /\ Range(queued) \cap Range(held) = {}
       /\ Nodes \subseteq Range(queued) \cup Range(held)

(* A request is completed at most once, whoever gets to it first: the       *)
(* response, a failed download, the removal of its BSS or the hang work.    *)
CompletedOnce == \A r \in Reqs : req[r].done <= 1

(* Nothing is written into a request that was freed, and the callback finds *)
(* a command, unless a response or a cancel overlapped with a context that  *)
(* had read curr_cmd or pioctl_buf without the lock.                        *)
TouchesLiveUnlessRaced == wrong # {} => raced

(* A command that waits for the idle engine waits for a main process that   *)
(* is running or asked for, unless a failed download ended the loop.        *)
PendingIsCovered ==
    \/ cmd_pending_q = <<>> \/ curr_cmd # NoNode \/ cmd_sent \/ broke
    \/ mlan_processing \/ main_work \/ resp # "idle"
    \/ \E r \in Reqs : req[r].at = "kick"

(* After a command timed out no further command goes to the firmware: the   *)
(* response that comes late does not free the engine.  Left aside: a        *)
(* response that was already in hand when the timer expired.                *)
TimeoutStopsCommands ==
    [][num_cmd_timeout /\ ~raced => ~(loop = "d_send" /\ loop' = "d_timer")]_vars

(* The thread of a request returns if it slept before the hang work ran:    *)
(* the response, the timeout and the hang work, directly or after a         *)
(* firmware dump, or a cancel ends its wait.  Left aside: the overlaps      *)
(* above; a failed download, which ends the loop with commands pending; and *)
(* a hang that woal_process_hang dropped, because another card's was being  *)
(* recovered (nothing asks again, and the threads sleep on) or because this *)
(* card is being reset or removed (which cancels by itself).                *)
RequestsReturn ==
    \A r \in Reqs : (req[r].at = "sleep" /\ ~hang.swept)
                        ~> (req[r].at = "returned" \/ raced \/ broke \/ hang.lost)
=============================================================================
