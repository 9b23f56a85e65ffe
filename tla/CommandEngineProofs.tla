------------------------ MODULE CommandEngineProofs ------------------------
(***************************************************************************)
(* The command engine for any sets of requests and nodes, any scenario and *)
(* any number of refusals: nodes are in one place, requests are completed  *)
(* once, pending commands are seen to, a timeout stops the engine, and     *)
(* what was freed is touched only where contexts overlap outside the lock. *)
(***************************************************************************)
EXTENDS CommandEngine, FiniteSetTheorems, TLAPS

(* The contexts stand where their locals say: a response in hand and a     *)
(* command being sent are the current one, and a local is set exactly      *)
(* between the step that reads it and the one that uses it.                *)
Sending == loop \in {"d_send", "d_timer"}

Standing ==
    /\ InHand \/ Sending => curr_cmd # NoNode
    /\ loop = "d_set" <=> unlinked # NoNode
    /\ loop = "d_set" => curr_cmd = NoNode
    /\ ~InHand => pioctl_buf = NoReq
    /\ preparer = NoReq <=> prepared = NoNode
    /\ \A r \in Reqs : req[r].at = "prepare" <=> preparer = r
    /\ cb = "read" <=> cb_node # NoNode
    /\ cb # "mark" => cb_req = NoReq

(* What keeps a pending command from being forgotten, the main process     *)
(* itself apart.                                                           *)
Covered ==
    \/ cmd_pending_q = <<>> \/ curr_cmd # NoNode \/ cmd_sent \/ broke
    \/ main_work \/ resp # "idle" \/ \E r \in Reqs : req[r].at = "kick"

(* The loop leaves only after it has looked, or with the note of a caller  *)
(* that came since.                                                        *)
LeavesCovered ==
    /\ loop = "idle" => Covered
    /\ loop = "exit" => Covered \/ more_task_flag

(* Without an overlap the timer and its callback run for a current command *)
(* that was sent, and a response in hand has stopped both.                 *)
Timed ==
    ~raced =>
        /\ timer.armed => timer.is_set
        /\ timer.armed \/ cb # "off" \/ num_cmd_timeout =>
             curr_cmd # NoNode /\ ~Sending
        /\ cb # "off" \/ num_cmd_timeout => ~InHand
        /\ cb # "off" => ~timer.armed
        /\ InHand /\ loop # "r_stop" => ~timer.armed

(* A node that bears a request is the only one, and the request is alive   *)
(* and not completed.                                                      *)
Borne ==
    /\ \A n \in Nodes : node[n].pioctl # NoReq =>
         LET q == req[node[n].pioctl] IN
         q.live /\ q.done = 0 /\ q.at \notin {"new", "lock"}
    /\ \A m, n \in Nodes : node[m].pioctl = node[n].pioctl /\ node[m].pioctl # NoReq
                             => m = n
    /\ \A n \in Nodes : node[n].pioctl # NoReq /\ node[n].pioctl = preparer
                          => n = prepared
    /\ \A r \in Reqs :
         /\ req[r].done <= 1
         /\ req[r].condition \/ req[r].woken => req[r].done = 1
         /\ req[r].at \in {"new", "lock"} => req[r].done = 0
         /\ req[r].at = "lock" => req[r].live

(* Without an overlap the copies of pioctl_buf are those of the current    *)
(* node.                                                                   *)
CopiesFresh ==
    ~raced =>
        /\ pioctl_buf # NoReq => pioctl_buf = node[curr_cmd].pioctl
        /\ cb_node # NoNode => cb_node = curr_cmd
        /\ cb_req # NoReq => cb_req = node[curr_cmd].pioctl

(* The parts of TypeOK. *)
ReqSort ==
    [at : {"new", "lock", "prepare", "kick", "wait", "sleep", "returned"},
     wait : BOOLEAN, condition : BOOLEAN, woken : BOOLEAN, live : BOOLEAN,
     timed_out : BOOLEAN, done : Nat]
NodeSort == [pioctl : Reqs \cup {NoReq}, canceled : BOOLEAN, respbuf : BOOLEAN]
TimerSort == [armed : BOOLEAN, is_canceled : BOOLEAN, is_set : BOOLEAN]
HangSort ==
    [work : {"idle", "queued", "clear"}, dump : BOOLEAN,
     handle : {"none", "own", "other"}, swept : BOOLEAN, lost : BOOLEAN]

ReqTypes == req \in [Reqs -> ReqSort]
NodeTypes == node \in [Nodes -> NodeSort]
QueueTypes == cmd_free_q \in Seq(Nodes) /\ cmd_pending_q \in Seq(Nodes)
TimerTypes == timer \in TimerSort
LocalTypes ==
    /\ preparer \in Reqs \cup {NoReq} /\ prepared \in Nodes \cup {NoNode}
    /\ curr_cmd \in Nodes \cup {NoNode} /\ unlinked \in Nodes \cup {NoNode}
    /\ pioctl_buf \in Reqs \cup {NoReq} /\ cb_node \in Nodes \cup {NoNode}
    /\ cb_req \in Reqs \cup {NoReq}
FlagTypes ==
    /\ main_work \in BOOLEAN /\ mlan_processing \in BOOLEAN
    /\ more_task_flag \in BOOLEAN
    /\ mlan_processing <=> loop # "idle"
    /\ cmd_sent \in BOOLEAN /\ cmd_resp_received \in BOOLEAN
    /\ card \in {"idle", "busy", "dead"}
    /\ resp \in {"idle", "take", "signal", "enter"}
    /\ num_cmd_timeout \in BOOLEAN
    /\ cb \in {"off", "start", "look", "count", "read", "mark", "event"}
    /\ driver_status \in BOOLEAN /\ hang \in HangSort
    /\ removed \in BOOLEAN /\ resent \in 0 .. MaxResends
    /\ faults \in Scenarios
HistoryTypes == raced \in BOOLEAN /\ broke \in BOOLEAN /\ wrong \subseteq {"freed", "null"}

Types == /\ ReqTypes /\ NodeTypes /\ QueueTypes /\ TimerTypes /\ LocalTypes /\ FlagTypes
         /\ HistoryTypes

IInv == Types /\ Standing

-----------------------------------------------------------------------------
(* A hang is queued, kept or lost. *)
LEMMA ProcessHangTyped == ASSUME NEW h \in HangSort PROVE ProcessHang(h) \subseteq HangSort
<1>1. [h EXCEPT !.lost = TRUE] \in HangSort
  BY DEF HangSort
<1>2. [h EXCEPT !.work = "queued", !.handle = "own"] \in HangSort
  BY DEF HangSort
<1>3. h.handle \in {"none", "own", "other"}
  BY DEF HangSort
<1> QED
  BY <1>1, <1>2, <1>3 DEF ProcessHang

(* The recovery changes only what it knows of itself, until the hang work  *)
(* cancels.                                                                *)
LEMMA RecoveryRest == Recovery => UNCHANGED HangRest
BY DEF Recovery, HangReturns, HangClear, DumpEnds, OtherHangs, OtherClears

(* What it knows of itself keeps its type. *)
LEMMA RecoveryTyped ==
    ASSUME Recovery, hang \in HangSort
    PROVE  hang' \in HangSort
<1>1. CASE HangReturns
  BY <1>1 DEF HangReturns, HangSort
<1>2. CASE HangClear
  BY <1>2 DEF HangClear, HangSort
<1>3. CASE DumpEnds
  <2>1. [hang EXCEPT !.dump = FALSE] \in HangSort
    BY DEF HangSort
  <2> QED
    BY <1>3, <2>1, ProcessHangTyped DEF DumpEnds
<1>4. CASE OtherHangs \/ OtherClears
  BY <1>4 DEF OtherHangs, OtherClears, HangSort
<1> QED
  BY <1>1, <1>2, <1>3, <1>4 DEF Recovery

(* A request that is completed keeps its place and counts one more. *)
LEMMA CompletedTyped ==
    ASSUME NEW q \in ReqSort, NEW timeout \in BOOLEAN
    PROVE  LET c == Completed(q, timeout) IN
           /\ c \in ReqSort /\ c.at = q.at /\ c.done = q.done + 1
           /\ c.condition \/ c.woken => q.wait \/ q.condition \/ q.woken
           /\ c.timed_out = q.timed_out
<1>1. q.done + 1 \in Nat
  BY DEF ReqSort
<1> QED
  BY <1>1 DEF Completed, ReqSort

(* A request that its thread frees keeps only the count of completions. *)
LEMMA FreedTyped ==
    ASSUME NEW q \in ReqSort
    PROVE  /\ Freed(q) \in ReqSort /\ Freed(q).at = "returned" /\ Freed(q).done = q.done
           /\ ~Freed(q).condition /\ ~Freed(q).woken
BY DEF Freed, NewReq, ReqSort

(* A clean node bears nothing. *)
LEMMA CleanTyped == CleanNode \in NodeSort /\ CleanNode.pioctl = NoReq
BY DEF CleanNode, NodeSort

(* The requests of S are completed, the others are as they were. *)
LEMMA CompleteAllTyped ==
    ASSUME ReqTypes, NEW S, NEW timeout \in BOOLEAN
    PROVE  /\ CompleteAll(S, timeout) \in [Reqs -> ReqSort]
           /\ \A r \in Reqs : CompleteAll(S, timeout)[r].at = req[r].at
           /\ \A r \in Reqs : r \notin S => CompleteAll(S, timeout)[r] = req[r]
           /\ \A r \in S \cap Reqs : CompleteAll(S, timeout)[r] = Completed(req[r], timeout)
BY CompletedTyped DEF CompleteAll, ReqTypes

(* Every sequence of Selected has the members of S in the queue, once each *)
(* if the queue has them once.                                             *)
LEMMA SelectedTyped ==
    ASSUME NEW queue \in Seq(Nodes), NEW S, NEW s \in Selected(queue, S)
    PROVE  /\ s \in Seq(Nodes) /\ Range(s) = Range(queue) \cap S
           /\ IsInjective(queue) => IsInjective(s)
<1> DEFINE places == {i \in DOMAIN queue : queue[i] \in S}
           n == Cardinality(places)
<1>1. PICK f \in Bijection(1 .. n, places) : s = [i \in 1 .. n |-> queue[f[i]]]
  BY DEF Selected
<1>2. f \in [1 .. n -> places] /\ IsInjective(f) /\ \A p \in places : \E i \in 1 .. n : f[i] = p
  BY DEF Bijection, Injection, Surjection
<1>3. IsFiniteSet(places)
  <2>1. DOMAIN queue = 1 .. Len(queue) /\ Len(queue) \in Nat
    OBVIOUS
  <2>2. IsFiniteSet(1 .. Len(queue))
    BY <2>1, FS_Interval
  <2> QED
    BY <2>1, <2>2, FS_Subset
<1>4. n \in Nat
  BY <1>3, FS_CardinalityType
<1> HIDE DEF n
<1>5. \A i \in 1 .. n : f[i] \in DOMAIN queue /\ queue[f[i]] \in S /\ queue[f[i]] \in Nodes
  BY <1>2
<1>6. s \in Seq(Nodes) /\ DOMAIN s = 1 .. n
  BY <1>1, <1>4, <1>5
<1>7. Range(s) = Range(queue) \cap S
  <2>1. ASSUME NEW x \in Range(s) PROVE x \in Range(queue) \cap S
    BY <1>1, <1>5, <1>6 DEF Range
  <2>2. ASSUME NEW x \in Range(queue) \cap S PROVE x \in Range(s)
    <3>1. PICK p \in places : x = queue[p]
      BY DEF Range
    <3>2. PICK i \in 1 .. n : f[i] = p
      BY <1>2
    <3> QED
      BY <1>1, <1>6, <3>1, <3>2 DEF Range
  <2> QED
    BY <2>1, <2>2
<1>8. ASSUME IsInjective(queue), NEW i \in 1 .. n, NEW j \in 1 .. n, s[i] = s[j] PROVE i = j
  <2>1. queue[f[i]] = queue[f[j]]
    BY <1>1, <1>8
  <2>2. f[i] = f[j]
    BY <1>5, <1>8, <2>1 DEF IsInjective
  <2> QED
    BY <1>2, <2>2 DEF IsInjective
<1> QED
  BY <1>6, <1>7, <1>8 DEF IsInjective

(* Writing into freed requests is all that Touching finds. *)
LEMMA TouchingTyped == \A S : Touching(S) \subseteq {"freed"}
BY DEF Touching

(* One request changes. *)
LEMMA OneRequest ==
    ASSUME ReqTypes, NEW r \in Reqs, NEW q \in ReqSort, req' = [req EXCEPT ![r] = q]
    PROVE  ReqTypes' /\ req'[r] = q /\ \A s \in Reqs : s # r => req'[s] = req[s]
BY DEF ReqTypes

(* The first node of a queue and the rest of it. *)
LEMMA QueueParts ==
    ASSUME NEW q \in Seq(Nodes), q # <<>>
    PROVE  Head(q) \in Nodes /\ Tail(q) \in Seq(Nodes)
OBVIOUS

(* The current command is completed, its node goes back. *)
LEMMA FreeCurrTyped ==
    ASSUME Types, curr_cmd # NoNode, NEW t \in BOOLEAN, NEW l, FreeCurr(t, l)
    PROVE  /\ ReqTypes' /\ NodeTypes' /\ QueueTypes' /\ curr_cmd' = NoNode
           /\ wrong' \subseteq {"freed", "null"}
           /\ \A r \in Reqs : req'[r].at = req[r].at
<1>a. curr_cmd \in Nodes /\ cmd_free_q \in Seq(Nodes) /\ cmd_pending_q \in Seq(Nodes)
      /\ wrong \subseteq {"freed", "null"} /\ node \in [Nodes -> NodeSort]
  BY DEF Types, LocalTypes, QueueTypes, HistoryTypes, NodeTypes
<1>1. ReqTypes' /\ \A r \in Reqs : req'[r].at = req[r].at
  BY CompleteAllTyped DEF FreeCurr, Types, ReqTypes
<1>2. NodeTypes'
  BY <1>a, CleanTyped DEF FreeCurr, NodeTypes
<1>3. QueueTypes'
  BY <1>a DEF FreeCurr, QueueTypes
<1> QED
  BY <1>a, <1>1, <1>2, <1>3, TouchingTyped DEF FreeCurr

(* Nodes that are canceled go back, and the current one stays. *)
LEMMA CancelTyped ==
    ASSUME Types, NEW Out \in SUBSET Nodes, NEW S, NEW mark \in BOOLEAN,
           Cancel(Out, S, mark)
    PROVE  /\ ReqTypes' /\ NodeTypes' /\ QueueTypes'
           /\ raced' \in BOOLEAN /\ wrong' \subseteq {"freed", "null"}
           /\ \A r \in Reqs : req'[r].at = req[r].at
<1>a. cmd_free_q \in Seq(Nodes) /\ cmd_pending_q \in Seq(Nodes)
      /\ wrong \subseteq {"freed", "null"} /\ node \in [Nodes -> NodeSort]
  BY DEF Types, QueueTypes, HistoryTypes, NodeTypes
<1>1. ReqTypes' /\ \A r \in Reqs : req'[r].at = req[r].at
  BY CompleteAllTyped DEF Cancel, Types, ReqTypes
<1>2. NodeTypes'
  <2>1. ASSUME NEW n \in Nodes
        PROVE  [node[n] EXCEPT !.pioctl = NoReq, !.canceled = @ \/ mark] \in NodeSort
    BY <1>a DEF NodeSort
  <2> QED
    BY <1>a, <2>1, CleanTyped DEF Cancel, NodeTypes
<1>3. QueueTypes'
  <2>1. cmd_pending_q' \in Seq(Nodes)
    BY <1>a, SelectedTyped DEF Cancel
  <2>2. PICK q \in Selected(cmd_pending_q, Out) : cmd_free_q' = cmd_free_q \o q
    BY DEF Cancel
  <2>3. q \in Seq(Nodes)
    BY <1>a, <2>2, SelectedTyped
  <2> QED
    BY <1>a, <2>1, <2>2, <2>3 DEF QueueTypes
<1> QED
  BY <1>a, <1>1, <1>2, <1>3, TouchingTyped DEF Cancel

(* Nothing is selected from an empty queue. *)
LEMMA SelectedEmpty ==
    ASSUME NEW S, NEW s \in Selected(<<>>, S)
    PROVE  s = <<>>
<1>1. <<>> \in Seq(Nodes) /\ Range(<<>>) = {}
  BY DEF Range
<1>2. s \in Seq(Nodes) /\ Range(s) = {}
  BY <1>1, SelectedTyped
<1>3. ASSUME s # <<>> PROVE FALSE
  <2>1. Len(s) \in Nat \ {0} /\ DOMAIN s = 1 .. Len(s)
    BY <1>2, <1>3
  <2>2. s[1] \in Range(s)
    BY <2>1 DEF Range
  <2> QED
    BY <1>2, <2>2
<1> QED
  BY <1>3

(* Every step, by the parts it disturbs. *)
LEMMA StandingKept == IInv /\ [Next]_vars => IInv'
<1> SUFFICES ASSUME IInv, [Next]_vars PROVE IInv'
  OBVIOUS
<1> USE DEF ReqRest, LoopRest, BusRest, CbRest, reqs, queues, proc, locals,
           bus, clock, recovery, history
<1>1. ASSUME NEW r \in Reqs, Request(r) PROVE IInv'
  <2>1. NodeTypes' /\ QueueTypes' /\ TimerTypes' /\ LocalTypes' /\ FlagTypes' /\ HistoryTypes'
    BY <1>1 DEF Request, IInv, Types, NodeTypes, QueueTypes, TimerTypes,
       LocalTypes, FlagTypes, HistoryTypes
  <2> DEFINE q == IF driver_status THEN [req[r] EXCEPT !.at = "returned"]
                  ELSE [req[r] EXCEPT !.at = "lock", !.wait = TRUE, !.live = TRUE]
  <2>2. q \in ReqSort /\ q.at # "prepare" /\ req' = [req EXCEPT ![r] = q] /\ req[r].at # "prepare"
    BY <1>1 DEF Request, IInv, Types, ReqTypes, ReqSort
  <2>3. ReqTypes' /\ \A s \in Reqs : req'[s].at = "prepare" <=> req[s].at = "prepare"
    BY <2>2, OneRequest DEF IInv, Types
  <2>4. Standing'
    BY <1>1, <2>3 DEF Request, IInv, Standing, InHand, Sending
  <2> QED
    BY <2>1, <2>3, <2>4 DEF IInv, Types
<1>2. ASSUME NEW r \in Reqs, GetCmdNode(r) PROVE IInv'
  <2>1. TimerTypes' /\ FlagTypes' /\ HistoryTypes'
    BY <1>2 DEF GetCmdNode, IInv, Types, TimerTypes, FlagTypes, HistoryTypes
  <2>a. /\ req \in [Reqs -> ReqSort] /\ node \in [Nodes -> NodeSort] /\ cmd_free_q \in Seq(Nodes)
        /\ prepared = NoNode /\ \A s \in Reqs : req[s].at # "prepare"
    BY <1>2, CommandAssumption DEF IInv, Types, ReqTypes, NodeTypes,
       QueueTypes, Standing, GetCmdNode
  <2>2. CASE cmd_free_q = <<>>
    <3>1. ReqTypes' /\ \A s \in Reqs : req'[s].at # "prepare"
      BY <1>2, <2>a, <2>2, FreedTyped DEF GetCmdNode, ReqTypes
    <3>2. NodeTypes' /\ QueueTypes' /\ LocalTypes'
      BY <1>2, <2>2 DEF GetCmdNode, IInv, Types, NodeTypes, QueueTypes,
         LocalTypes
    <3>3. Standing'
      BY <1>2, <2>a, <2>2, <3>1 DEF GetCmdNode, IInv, Standing, InHand, Sending
    <3> QED
      BY <2>1, <3>1, <3>2, <3>3 DEF IInv, Types
  <2>3. CASE cmd_free_q # <<>>
    <3>1. Head(cmd_free_q) \in Nodes /\ Tail(cmd_free_q) \in Seq(Nodes)
      BY <2>a, <2>3, QueueParts
    <3>2. ReqTypes' /\ \A s \in Reqs : req'[s].at = "prepare" <=> s = r
      <4>1. [req[r] EXCEPT !.at = "prepare"] \in ReqSort
        BY <2>a DEF ReqSort
      <4> QED
        BY <1>2, <2>a, <2>3, <4>1 DEF GetCmdNode, ReqTypes, ReqSort
    <3>3. NodeTypes'
      <4>1. [CleanNode EXCEPT !.pioctl = r] \in NodeSort
        BY DEF CleanNode, NodeSort
      <4> QED
        BY <1>2, <2>a, <2>3, <3>1, <4>1 DEF GetCmdNode, NodeTypes
    <3>4. QueueTypes' /\ LocalTypes'
      BY <1>2, <2>3, <3>1 DEF GetCmdNode, IInv, Types, QueueTypes, LocalTypes
    <3>5. Standing'
      BY <1>2, <2>a, <2>3, <3>1, <3>2, CommandAssumption DEF GetCmdNode, IInv,
         Standing, InHand, Sending
    <3> QED
      BY <2>1, <3>2, <3>3, <3>4, <3>5 DEF IInv, Types
  <2> QED
    BY <2>2, <2>3
<1>3. ASSUME NEW r \in Reqs, QueueCmd(r) PROVE IInv'
  <2>1. NodeTypes' /\ TimerTypes' /\ FlagTypes' /\ HistoryTypes'
    BY <1>3 DEF QueueCmd, IInv, Types, NodeTypes, TimerTypes, FlagTypes,
       HistoryTypes
  <2>2. ReqTypes'
    BY <1>3, CommandAssumption DEF QueueCmd, IInv, Types, ReqTypes, ReqSort
  <2>3. QueueTypes'
    BY <1>3, CommandAssumption DEF QueueCmd, IInv, Types, QueueTypes, Standing,
       InHand, Sending, LocalTypes, ReqTypes
  <2>4. LocalTypes'
    BY <1>3, CommandAssumption DEF QueueCmd, IInv, Types, LocalTypes, Standing,
       InHand, Sending, ReqTypes, NodeTypes, NodeSort, QueueTypes
  <2>5. Standing'
    BY <1>3, CommandAssumption, <2>1, <2>2, <2>3, <2>4 DEF QueueCmd, IInv,
       Types, Standing, InHand, Sending, ReqTypes, LocalTypes, FlagTypes,
       ReqSort
  <2> QED
    BY <2>1, <2>2, <2>3, <2>4, <2>5 DEF IInv, Types
<1>4. ASSUME NEW r \in Reqs, KickMain(r) PROVE IInv'
  <2>1. NodeTypes' /\ QueueTypes' /\ TimerTypes' /\ LocalTypes' /\ HistoryTypes'
    BY <1>4 DEF KickMain, IInv, Types, NodeTypes, QueueTypes, TimerTypes,
       LocalTypes, HistoryTypes
  <2>2. ReqTypes'
    BY <1>4, CommandAssumption DEF KickMain, IInv, Types, ReqTypes, ReqSort
  <2>3. FlagTypes'
    BY <1>4, CommandAssumption DEF KickMain, IInv, Types, FlagTypes
  <2>4. Standing'
    BY <1>4, CommandAssumption, <2>1, <2>2, <2>3 DEF KickMain, IInv, Types,
       Standing, InHand, Sending, ReqTypes, LocalTypes, FlagTypes, ReqSort
  <2> QED
    BY <2>1, <2>2, <2>3, <2>4 DEF IInv, Types
<1>5. ASSUME NEW r \in Reqs, Wait(r) PROVE IInv'
  <2>1. NodeTypes' /\ QueueTypes' /\ TimerTypes' /\ LocalTypes' /\ FlagTypes' /\ HistoryTypes'
    BY <1>5 DEF Wait, IInv, Types, NodeTypes, QueueTypes, TimerTypes,
       LocalTypes, FlagTypes, HistoryTypes
  <2>2. PICK q \in ReqSort : q.at # "prepare" /\ req' = [req EXCEPT ![r] = q] /\ req[r].at # "prepare"
    <3>1. req[r] \in ReqSort /\ [req[r] EXCEPT !.at = "sleep"] \in ReqSort
          /\ [req[r] EXCEPT !.at = "returned", !.wait = FALSE] \in ReqSort
          /\ Freed(req[r]) \in ReqSort /\ Freed(req[r]).at = "returned"
      <4>1. req[r] \in ReqSort
        BY DEF IInv, Types, ReqTypes
      <4> QED
        BY <4>1, FreedTyped DEF ReqSort
    <3> QED
      BY <1>5, <3>1 DEF Wait, IInv, Types, ReqTypes, ReqSort
  <2>3. ReqTypes' /\ \A s \in Reqs : req'[s].at = "prepare" <=> req[s].at = "prepare"
    BY <2>2, OneRequest DEF IInv, Types
  <2>4. Standing'
    BY <1>5, <2>3 DEF Wait, IInv, Standing, InHand, Sending
  <2> QED
    BY <2>1, <2>3, <2>4 DEF IInv, Types
<1>6. ASSUME NEW r \in Reqs, PrepareFails(r) PROVE IInv'
  <2>1. TimerTypes' /\ FlagTypes' /\ HistoryTypes'
    BY <1>6 DEF PrepareFails, IInv, Types, TimerTypes, FlagTypes, HistoryTypes
  <2>2. ReqTypes'
    BY <1>6, CommandAssumption, CompleteAllTyped, FreedTyped DEF PrepareFails,
       IInv, Types, ReqTypes, ReqSort
  <2>3. NodeTypes'
    BY <1>6, CommandAssumption, CleanTyped DEF PrepareFails, IInv, Types,
       NodeTypes, NodeSort
  <2>4. QueueTypes'
    BY <1>6, CommandAssumption DEF PrepareFails, IInv, Types, QueueTypes,
       Standing, InHand, Sending, LocalTypes, ReqTypes
  <2>5. LocalTypes'
    BY <1>6, CommandAssumption DEF PrepareFails, IInv, Types, LocalTypes,
       Standing, InHand, Sending, ReqTypes, NodeTypes, NodeSort, QueueTypes
  <2>6. Standing'
    BY <1>6, CommandAssumption, <2>1, <2>2, <2>3, <2>4, <2>5, FreedTyped DEF
       PrepareFails, IInv, Types, Standing, InHand, Sending, ReqTypes,
       LocalTypes, FlagTypes, ReqSort
  <2> QED
    BY <2>1, <2>2, <2>3, <2>4, <2>5, <2>6 DEF IInv, Types
<1>7. ASSUME NEW r \in Reqs, GiveUp(r) PROVE IInv'
  <2>1. NodeTypes' /\ QueueTypes' /\ TimerTypes' /\ LocalTypes' /\ FlagTypes' /\ HistoryTypes'
    BY <1>7 DEF GiveUp, IInv, Types, NodeTypes, QueueTypes, TimerTypes,
       LocalTypes, FlagTypes, HistoryTypes
  <2>2. PICK q \in ReqSort : q.at # "prepare" /\ req' = [req EXCEPT ![r] = q] /\ req[r].at # "prepare"
    <3>1. req[r] \in ReqSort /\ [req[r] EXCEPT !.at = "sleep"] \in ReqSort
          /\ [req[r] EXCEPT !.at = "returned", !.wait = FALSE] \in ReqSort
          /\ Freed(req[r]) \in ReqSort /\ Freed(req[r]).at = "returned"
      <4>1. req[r] \in ReqSort
        BY DEF IInv, Types, ReqTypes
      <4> QED
        BY <4>1, FreedTyped DEF ReqSort
    <3> QED
      BY <1>7, <3>1 DEF GiveUp, IInv, Types, ReqTypes, ReqSort
  <2>3. ReqTypes' /\ \A s \in Reqs : req'[s].at = "prepare" <=> req[s].at = "prepare"
    BY <2>2, OneRequest DEF IInv, Types
  <2>4. Standing'
    BY <1>7, <2>3 DEF GiveUp, IInv, Standing, InHand, Sending
  <2> QED
    BY <2>1, <2>3, <2>4 DEF IInv, Types
<1>8. CASE LoopTop
  <2>1. ReqTypes' /\ NodeTypes' /\ QueueTypes' /\ TimerTypes' /\ LocalTypes' /\ HistoryTypes'
    BY <1>8 DEF LoopTop, IInv, Types, ReqTypes, NodeTypes, QueueTypes,
       TimerTypes, LocalTypes, HistoryTypes
  <2>2. FlagTypes'
    BY <1>8, CommandAssumption DEF LoopTop, IInv, Types, FlagTypes
  <2>3. Standing'
    BY <1>8, CommandAssumption, <2>1, <2>2 DEF LoopTop, IInv, Types, Standing,
       InHand, Sending, ReqTypes, LocalTypes, FlagTypes, ReqSort
  <2> QED
    BY <2>1, <2>2, <2>3 DEF IInv, Types
<1>9. CASE LoopResp
  <2>1. ReqTypes' /\ NodeTypes' /\ QueueTypes' /\ TimerTypes' /\ LocalTypes' /\ HistoryTypes'
    BY <1>9 DEF LoopResp, IInv, Types, ReqTypes, NodeTypes, QueueTypes,
       TimerTypes, LocalTypes, HistoryTypes
  <2>2. FlagTypes'
    <3>1. mlan_processing' <=> loop' # "idle"
      BY <1>9 DEF LoopResp, IInv, Types, FlagTypes
    <3>2. /\ main_work' \in BOOLEAN /\ mlan_processing' \in BOOLEAN /\ more_task_flag' \in BOOLEAN
          /\ cmd_sent' \in BOOLEAN /\ cmd_resp_received' \in BOOLEAN
      BY <1>9 DEF LoopResp, IInv, Types, FlagTypes
    <3>3. UNCHANGED <<card, num_cmd_timeout, cb, driver_status, hang, removed, resent, faults>>
          /\ resp' \in {"idle", "take", "signal", "enter"}
      BY <1>9 DEF LoopResp, IInv, Types, FlagTypes
    <3> QED
      BY <3>1, <3>2, <3>3 DEF IInv, Types, FlagTypes
  <2>3. Standing'
    BY <1>9, CommandAssumption, <2>1, <2>2 DEF LoopResp, IInv, Types, Standing,
       InHand, Sending, ReqTypes, LocalTypes, FlagTypes, ReqSort
  <2> QED
    BY <2>1, <2>2, <2>3 DEF IInv, Types
<1>10. CASE RespRead
  <2>1. ReqTypes' /\ NodeTypes' /\ QueueTypes' /\ TimerTypes'
    BY <1>10 DEF RespRead, IInv, Types, ReqTypes, NodeTypes, QueueTypes,
       TimerTypes
  <2>2. LocalTypes'
    BY <1>10, CommandAssumption DEF RespRead, IInv, Types, LocalTypes,
       Standing, InHand, Sending, ReqTypes, NodeTypes, NodeSort, QueueTypes
  <2>3. FlagTypes'
    BY <1>10, CommandAssumption DEF RespRead, IInv, Types, FlagTypes
  <2>4. HistoryTypes'
    BY <1>10, CommandAssumption, TouchingTyped DEF RespRead, IInv, Types,
       HistoryTypes
  <2>5. Standing'
    BY <1>10, CommandAssumption, <2>1, <2>2, <2>3, <2>4 DEF RespRead, IInv,
       Types, Standing, InHand, Sending, ReqTypes, LocalTypes, FlagTypes,
       ReqSort
  <2> QED
    BY <2>1, <2>2, <2>3, <2>4, <2>5 DEF IInv, Types
<1>11. CASE RespStop
  <2>1. ReqTypes' /\ NodeTypes' /\ QueueTypes' /\ LocalTypes' /\ HistoryTypes'
    BY <1>11 DEF RespStop, IInv, Types, ReqTypes, NodeTypes, QueueTypes,
       LocalTypes, HistoryTypes
  <2>2. TimerTypes'
    BY <1>11, CommandAssumption DEF RespStop, IInv, Types, TimerTypes,
       TimerSort
  <2>3. FlagTypes'
    BY <1>11, CommandAssumption DEF RespStop, IInv, Types, FlagTypes
  <2>4. Standing'
    BY <1>11, CommandAssumption, <2>1, <2>2, <2>3 DEF RespStop, IInv, Types,
       Standing, InHand, Sending, ReqTypes, LocalTypes, FlagTypes, ReqSort
  <2> QED
    BY <2>1, <2>2, <2>3, <2>4 DEF IInv, Types
<1>12. CASE RespSync
  <2>1. ReqTypes' /\ NodeTypes' /\ QueueTypes' /\ LocalTypes' /\ HistoryTypes'
    BY <1>12 DEF RespSync, IInv, Types, ReqTypes, NodeTypes, QueueTypes,
       LocalTypes, HistoryTypes
  <2>2. TimerTypes'
    BY <1>12, CommandAssumption DEF RespSync, IInv, Types, TimerTypes,
       TimerSort
  <2>3. FlagTypes'
    BY <1>12, CommandAssumption DEF RespSync, IInv, Types, FlagTypes
  <2>4. Standing'
    BY <1>12, CommandAssumption, <2>1, <2>2, <2>3 DEF RespSync, IInv, Types,
       Standing, InHand, Sending, ReqTypes, LocalTypes, FlagTypes, ReqSort
  <2> QED
    BY <2>1, <2>2, <2>3, <2>4 DEF IInv, Types
<1>13. CASE RespCanceled
  <2>a. curr_cmd # NoNode /\ Types
    BY <1>13 DEF IInv, Standing, InHand, Sending, RespCanceled
  <2>1. /\ ReqTypes' /\ NodeTypes' /\ QueueTypes' /\ wrong' \subseteq {"freed", "null"}
        /\ curr_cmd' \in {curr_cmd, NoNode} /\ \A s \in Reqs : req'[s].at = req[s].at
        /\ loop' = "exec" \/ (loop' = "r_handle" /\ curr_cmd' = curr_cmd)
        /\ loop' = "exec" => pioctl_buf' = NoReq
    <3>1. CASE node[curr_cmd].canceled
      BY <1>13, <2>a, <3>1, FreeCurrTyped DEF RespCanceled
    <3>2. CASE ~node[curr_cmd].canceled
      BY <1>13, <2>a, <3>2 DEF RespCanceled, Types, ReqTypes, NodeTypes,
         QueueTypes, HistoryTypes
    <3> QED
      BY <3>1, <3>2
  <2>2. TimerTypes' /\ raced' = raced /\ broke' \in BOOLEAN
    BY <1>13 DEF RespCanceled, IInv, Types, TimerTypes, HistoryTypes
  <2>5. FlagTypes'
    BY <1>13, <2>1 DEF RespCanceled, IInv, Types, FlagTypes
  <2>3. LocalTypes'
    BY <1>13, <2>1 DEF RespCanceled, IInv, Types, LocalTypes
  <2>4. Standing'
    BY <1>13, <2>1 DEF RespCanceled, IInv, Standing, InHand, Sending
  <2> QED
    BY <2>a, <2>1, <2>2, <2>3, <2>4, <2>5 DEF IInv, Types, HistoryTypes
<1>14. CASE RespHandle
  <2>1. ReqTypes' /\ NodeTypes' /\ QueueTypes' /\ TimerTypes' /\ LocalTypes'
    BY <1>14 DEF RespHandle, IInv, Types, ReqTypes, NodeTypes, QueueTypes,
       TimerTypes, LocalTypes
  <2>2. FlagTypes'
    BY <1>14, CommandAssumption DEF RespHandle, IInv, Types, FlagTypes
  <2>3. HistoryTypes'
    BY <1>14, CommandAssumption, TouchingTyped DEF RespHandle, IInv, Types,
       HistoryTypes
  <2>4. Standing'
    BY <1>14, CommandAssumption, <2>1, <2>2, <2>3 DEF RespHandle, IInv, Types,
       Standing, InHand, Sending, ReqTypes, LocalTypes, FlagTypes, ReqSort
  <2> QED
    BY <2>1, <2>2, <2>3, <2>4 DEF IInv, Types
<1>15. CASE RespDone
  <2>a. curr_cmd # NoNode /\ Types
    BY <1>15 DEF IInv, Standing, InHand, Sending, RespDone
  <2>1. /\ ReqTypes' /\ NodeTypes' /\ QueueTypes' /\ wrong' \subseteq {"freed", "null"}
        /\ curr_cmd' \in {curr_cmd, NoNode} /\ \A s \in Reqs : req'[s].at = req[s].at
    <3>1. PICK t \in BOOLEAN : FreeCurr(t, node[curr_cmd].pioctl)
      BY <1>15 DEF RespDone
    <3> QED
      BY <2>a, <3>1, FreeCurrTyped
  <2>2. TimerTypes' /\ raced' = raced /\ broke' \in BOOLEAN
    BY <1>15 DEF RespDone, IInv, Types, TimerTypes, HistoryTypes
  <2>5. FlagTypes'
    BY <1>15, <2>1 DEF RespDone, IInv, Types, FlagTypes
  <2>3. LocalTypes'
    BY <1>15, <2>1 DEF RespDone, IInv, Types, LocalTypes
  <2>4. Standing'
    BY <1>15, <2>1 DEF RespDone, IInv, Standing, InHand, Sending
  <2> QED
    BY <2>a, <2>1, <2>2, <2>3, <2>4, <2>5 DEF IInv, Types, HistoryTypes
<1>16. CASE ExecNext
  <2>1. ReqTypes' /\ NodeTypes' /\ TimerTypes' /\ FlagTypes' /\ HistoryTypes'
    BY <1>16 DEF ExecNext, IInv, Types, ReqTypes, NodeTypes, TimerTypes,
       FlagTypes, HistoryTypes
  <2>2. CASE ~cmd_sent /\ curr_cmd = NoNode /\ cmd_pending_q # <<>>
    <3>1. Head(cmd_pending_q) \in Nodes /\ Tail(cmd_pending_q) \in Seq(Nodes)
      BY <2>2, QueueParts DEF IInv, Types, QueueTypes
    <3>2. QueueTypes' /\ LocalTypes'
      BY <1>16, <2>2, <3>1 DEF ExecNext, IInv, Types, QueueTypes, LocalTypes
    <3>3. Standing'
      BY <1>16, <2>2, <3>1, CommandAssumption DEF ExecNext, IInv, Standing,
         InHand, Sending
    <3> QED
      BY <2>1, <3>2, <3>3 DEF IInv, Types
  <2>3. CASE ~(~cmd_sent /\ curr_cmd = NoNode /\ cmd_pending_q # <<>>)
    <3>1. QueueTypes' /\ LocalTypes'
      BY <1>16, <2>3 DEF ExecNext, IInv, Types, QueueTypes, LocalTypes
    <3>2. Standing'
      BY <1>16, <2>3 DEF ExecNext, IInv, Standing, InHand, Sending
    <3> QED
      BY <2>1, <3>1, <3>2 DEF IInv, Types
  <2> QED
    BY <2>2, <2>3
<1>17. CASE DnldSet
  <2>1. ReqTypes' /\ NodeTypes' /\ QueueTypes' /\ TimerTypes' /\ HistoryTypes'
    BY <1>17 DEF DnldSet, IInv, Types, ReqTypes, NodeTypes, QueueTypes,
       TimerTypes, HistoryTypes
  <2>2. LocalTypes'
    BY <1>17, CommandAssumption DEF DnldSet, IInv, Types, LocalTypes, Standing,
       InHand, Sending, ReqTypes, NodeTypes, NodeSort, QueueTypes
  <2>3. FlagTypes'
    BY <1>17, CommandAssumption DEF DnldSet, IInv, Types, FlagTypes
  <2>4. Standing'
    BY <1>17, CommandAssumption, <2>1, <2>2, <2>3 DEF DnldSet, IInv, Types,
       Standing, InHand, Sending, ReqTypes, LocalTypes, FlagTypes, ReqSort
  <2> QED
    BY <2>1, <2>2, <2>3, <2>4 DEF IInv, Types
<1>18. CASE DnldSend
  <2>1. ReqTypes' /\ NodeTypes' /\ QueueTypes' /\ TimerTypes' /\ LocalTypes' /\ HistoryTypes'
    BY <1>18 DEF DnldSend, IInv, Types, ReqTypes, NodeTypes, QueueTypes,
       TimerTypes, LocalTypes, HistoryTypes
  <2>2. FlagTypes'
    BY <1>18, CommandAssumption DEF DnldSend, IInv, Types, FlagTypes
  <2>3. Standing'
    BY <1>18, CommandAssumption, <2>1, <2>2 DEF DnldSend, IInv, Types,
       Standing, InHand, Sending, ReqTypes, LocalTypes, FlagTypes, ReqSort
  <2> QED
    BY <2>1, <2>2, <2>3 DEF IInv, Types
<1>19. CASE DnldTimer
  <2>1. ReqTypes' /\ NodeTypes' /\ QueueTypes' /\ LocalTypes' /\ HistoryTypes'
    BY <1>19 DEF DnldTimer, IInv, Types, ReqTypes, NodeTypes, QueueTypes,
       LocalTypes, HistoryTypes
  <2>2. TimerTypes'
    BY <1>19, CommandAssumption DEF DnldTimer, IInv, Types, TimerTypes,
       TimerSort
  <2>3. FlagTypes'
    BY <1>19, CommandAssumption DEF DnldTimer, IInv, Types, FlagTypes
  <2>4. Standing'
    BY <1>19, CommandAssumption, <2>1, <2>2, <2>3 DEF DnldTimer, IInv, Types,
       Standing, InHand, Sending, ReqTypes, LocalTypes, FlagTypes, ReqSort
  <2> QED
    BY <2>1, <2>2, <2>3, <2>4 DEF IInv, Types
<1>20. CASE Exit
  <2>1. ReqTypes' /\ NodeTypes' /\ QueueTypes' /\ TimerTypes' /\ LocalTypes' /\ HistoryTypes'
    BY <1>20 DEF Exit, IInv, Types, ReqTypes, NodeTypes, QueueTypes,
       TimerTypes, LocalTypes, HistoryTypes
  <2>2. FlagTypes'
    <3>1. mlan_processing' <=> loop' # "idle"
      BY <1>20 DEF Exit, IInv, Types, FlagTypes
    <3>2. /\ main_work' \in BOOLEAN /\ mlan_processing' \in BOOLEAN /\ more_task_flag' \in BOOLEAN
          /\ cmd_sent' \in BOOLEAN /\ cmd_resp_received' \in BOOLEAN
      BY <1>20 DEF Exit, IInv, Types, FlagTypes
    <3>3. UNCHANGED <<card, num_cmd_timeout, cb, driver_status, hang, removed, resent, faults>>
          /\ resp' \in {"idle", "take", "signal", "enter"}
      BY <1>20 DEF Exit, IInv, Types, FlagTypes
    <3> QED
      BY <3>1, <3>2, <3>3 DEF IInv, Types, FlagTypes
  <2>3. Standing'
    BY <1>20, CommandAssumption, <2>1, <2>2 DEF Exit, IInv, Types, Standing,
       InHand, Sending, ReqTypes, LocalTypes, FlagTypes, ReqSort
  <2> QED
    BY <2>1, <2>2, <2>3 DEF IInv, Types
<1>21. CASE MainWork
  <2>1. ReqTypes' /\ NodeTypes' /\ QueueTypes' /\ TimerTypes' /\ LocalTypes' /\ HistoryTypes'
    BY <1>21 DEF MainWork, Enter, IInv, Types, ReqTypes, NodeTypes, QueueTypes,
       TimerTypes, LocalTypes, HistoryTypes
  <2>2. FlagTypes'
    <3>1. mlan_processing' <=> loop' # "idle"
      BY <1>21 DEF MainWork, Enter, IInv, Types, FlagTypes
    <3>2. /\ main_work' \in BOOLEAN /\ mlan_processing' \in BOOLEAN /\ more_task_flag' \in BOOLEAN
          /\ cmd_sent' \in BOOLEAN /\ cmd_resp_received' \in BOOLEAN
      BY <1>21 DEF MainWork, Enter, IInv, Types, FlagTypes
    <3>3. UNCHANGED <<card, num_cmd_timeout, cb, driver_status, hang, removed, resent, faults>>
          /\ resp' \in {"idle", "take", "signal", "enter"}
      BY <1>21 DEF MainWork, Enter, IInv, Types, FlagTypes
    <3> QED
      BY <3>1, <3>2, <3>3 DEF IInv, Types, FlagTypes
  <2>3. Standing'
    BY <1>21, CommandAssumption, <2>1, <2>2 DEF MainWork, Enter, IInv, Types,
       Standing, InHand, Sending, ReqTypes, LocalTypes, FlagTypes, ReqSort
  <2> QED
    BY <2>1, <2>2, <2>3 DEF IInv, Types
<1>22. CASE RespAsleep
  <2>1. ReqTypes' /\ TimerTypes' /\ HistoryTypes'
    BY <1>22 DEF RespAsleep, IInv, Types, ReqTypes, TimerTypes, HistoryTypes
  <2>2. NodeTypes'
    BY <1>22, CommandAssumption, CleanTyped DEF RespAsleep, IInv, Types,
       NodeTypes, NodeSort
  <2>3. QueueTypes'
    BY <1>22, CommandAssumption DEF RespAsleep, IInv, Types, QueueTypes,
       Standing, InHand, Sending, LocalTypes, ReqTypes
  <2>4. LocalTypes'
    BY <1>22, CommandAssumption DEF RespAsleep, IInv, Types, LocalTypes,
       Standing, InHand, Sending, ReqTypes, NodeTypes, NodeSort, QueueTypes
  <2>5. FlagTypes'
    BY <1>22, CommandAssumption DEF RespAsleep, IInv, Types, FlagTypes
  <2>6. Standing'
    BY <1>22, CommandAssumption, <2>1, <2>2, <2>3, <2>4, <2>5 DEF RespAsleep,
       IInv, Types, Standing, InHand, Sending, ReqTypes, LocalTypes, FlagTypes,
       ReqSort
  <2> QED
    BY <2>1, <2>2, <2>3, <2>4, <2>5, <2>6 DEF IInv, Types
<1>23. CASE DnldFails
  <2>a. curr_cmd # NoNode /\ Types
    BY <1>23 DEF IInv, Standing, InHand, Sending, DnldFails
  <2>1. /\ ReqTypes' /\ NodeTypes' /\ QueueTypes' /\ wrong' \subseteq {"freed", "null"}
        /\ curr_cmd' \in {curr_cmd, NoNode} /\ \A s \in Reqs : req'[s].at = req[s].at
    BY <1>23, <2>a, FreeCurrTyped DEF DnldFails
  <2>2. TimerTypes' /\ raced' = raced /\ broke' \in BOOLEAN
    BY <1>23 DEF DnldFails, IInv, Types, TimerTypes, HistoryTypes
  <2>5. FlagTypes'
    <3>1. mlan_processing' <=> loop' # "idle"
      BY <1>23 DEF DnldFails, FreeCurr, IInv, Types, FlagTypes
    <3>2. /\ main_work' \in BOOLEAN /\ mlan_processing' \in BOOLEAN /\ more_task_flag' \in BOOLEAN
          /\ cmd_sent' \in BOOLEAN /\ cmd_resp_received' \in BOOLEAN
      BY <1>23 DEF DnldFails, FreeCurr, IInv, Types, FlagTypes
    <3>3. UNCHANGED <<card, num_cmd_timeout, cb, driver_status, hang, removed, resent, faults>>
          /\ resp' \in {"idle", "take", "signal", "enter"}
      BY <1>23 DEF DnldFails, FreeCurr, IInv, Types, FlagTypes
    <3> QED
      BY <3>1, <3>2, <3>3 DEF IInv, Types, FlagTypes
  <2>3. LocalTypes'
    BY <1>23, <2>1 DEF DnldFails, IInv, Types, LocalTypes
  <2>4. Standing'
    BY <1>23, <2>1 DEF DnldFails, IInv, Standing, InHand, Sending
  <2> QED
    BY <2>a, <2>1, <2>2, <2>3, <2>4, <2>5 DEF IInv, Types, HistoryTypes
<1>24. CASE CardAnswers
  <2>1. ReqTypes' /\ NodeTypes' /\ QueueTypes' /\ TimerTypes' /\ LocalTypes' /\ HistoryTypes' /\ Standing'
    BY <1>24 DEF CardAnswers, IInv, Types, ReqTypes, NodeTypes, QueueTypes,
       TimerTypes, LocalTypes, HistoryTypes, Standing, InHand, Sending
  <2>2. FlagTypes'
    BY <1>24, CommandAssumption DEF CardAnswers, IInv, Types, FlagTypes
  <2> QED
    BY <2>1, <2>2 DEF IInv, Types
<1>25. CASE CardDies
  <2>1. ReqTypes' /\ NodeTypes' /\ QueueTypes' /\ TimerTypes' /\ LocalTypes' /\ HistoryTypes' /\ Standing'
    BY <1>25 DEF CardDies, IInv, Types, ReqTypes, NodeTypes, QueueTypes,
       TimerTypes, LocalTypes, HistoryTypes, Standing, InHand, Sending
  <2>2. FlagTypes'
    BY <1>25, CommandAssumption DEF CardDies, IInv, Types, FlagTypes
  <2> QED
    BY <2>1, <2>2 DEF IInv, Types
<1>26. CASE RespTake
  <2>1. ReqTypes' /\ QueueTypes' /\ TimerTypes' /\ LocalTypes' /\ HistoryTypes' /\ Standing'
    BY <1>26 DEF RespTake, IInv, Types, ReqTypes, QueueTypes, TimerTypes,
       LocalTypes, HistoryTypes, Standing, InHand, Sending
  <2>2. NodeTypes'
    <3>1. ASSUME NEW n \in Nodes PROVE [node[n] EXCEPT !.respbuf = TRUE] \in NodeSort
      BY DEF IInv, Types, NodeTypes, NodeSort
    <3> QED
      BY <1>26, <3>1 DEF RespTake, IInv, Types, NodeTypes, LocalTypes
  <2>3. FlagTypes'
    BY <1>26, CommandAssumption DEF RespTake, IInv, Types, FlagTypes
  <2> QED
    BY <2>1, <2>2, <2>3 DEF IInv, Types
<1>27. CASE RespSignal
  <2>1. ReqTypes' /\ NodeTypes' /\ QueueTypes' /\ TimerTypes' /\ LocalTypes' /\ HistoryTypes' /\ Standing'
    BY <1>27 DEF RespSignal, IInv, Types, ReqTypes, NodeTypes, QueueTypes,
       TimerTypes, LocalTypes, HistoryTypes, Standing, InHand, Sending
  <2>2. FlagTypes'
    BY <1>27, CommandAssumption DEF RespSignal, IInv, Types, FlagTypes
  <2> QED
    BY <2>1, <2>2 DEF IInv, Types
<1>28. CASE RespEnter
  <2>1. ReqTypes' /\ NodeTypes' /\ QueueTypes' /\ TimerTypes' /\ LocalTypes' /\ HistoryTypes'
    BY <1>28 DEF RespEnter, Enter, IInv, Types, ReqTypes, NodeTypes,
       QueueTypes, TimerTypes, LocalTypes, HistoryTypes
  <2>2. FlagTypes'
    <3>1. mlan_processing' <=> loop' # "idle"
      BY <1>28 DEF RespEnter, Enter, IInv, Types, FlagTypes
    <3>2. /\ main_work' \in BOOLEAN /\ mlan_processing' \in BOOLEAN /\ more_task_flag' \in BOOLEAN
          /\ cmd_sent' \in BOOLEAN /\ cmd_resp_received' \in BOOLEAN
      BY <1>28 DEF RespEnter, Enter, IInv, Types, FlagTypes
    <3>3. UNCHANGED <<card, num_cmd_timeout, cb, driver_status, hang, removed, resent, faults>>
          /\ resp' \in {"idle", "take", "signal", "enter"}
      BY <1>28 DEF RespEnter, Enter, IInv, Types, FlagTypes
    <3> QED
      BY <3>1, <3>2, <3>3 DEF IInv, Types, FlagTypes
  <2>3. Standing'
    BY <1>28, CommandAssumption, <2>1, <2>2 DEF RespEnter, Enter, IInv, Types,
       Standing, InHand, Sending, ReqTypes, LocalTypes, FlagTypes, ReqSort
  <2> QED
    BY <2>1, <2>2, <2>3 DEF IInv, Types
<1>29. CASE Expire
  <2>1. ReqTypes' /\ NodeTypes' /\ QueueTypes' /\ LocalTypes'
    BY <1>29 DEF Expire, IInv, Types, ReqTypes, NodeTypes, QueueTypes,
       LocalTypes
  <2>2. TimerTypes'
    BY <1>29, CommandAssumption DEF Expire, IInv, Types, TimerTypes, TimerSort
  <2>3. FlagTypes'
    BY <1>29, CommandAssumption DEF Expire, IInv, Types, FlagTypes
  <2>4. HistoryTypes'
    BY <1>29, CommandAssumption, TouchingTyped DEF Expire, IInv, Types,
       HistoryTypes
  <2>5. Standing'
    BY <1>29, CommandAssumption, <2>1, <2>2, <2>3, <2>4 DEF Expire, IInv,
       Types, Standing, InHand, Sending, ReqTypes, LocalTypes, FlagTypes,
       ReqSort
  <2> QED
    BY <2>1, <2>2, <2>3, <2>4, <2>5 DEF IInv, Types
<1>30. CASE CbStart
  <2>1. ReqTypes' /\ NodeTypes' /\ QueueTypes' /\ LocalTypes' /\ HistoryTypes'
    BY <1>30 DEF CbStart, IInv, Types, ReqTypes, NodeTypes, QueueTypes,
       LocalTypes, HistoryTypes
  <2>2. TimerTypes'
    BY <1>30, CommandAssumption DEF CbStart, IInv, Types, TimerTypes, TimerSort
  <2>3. FlagTypes'
    BY <1>30, CommandAssumption DEF CbStart, IInv, Types, FlagTypes
  <2>4. Standing'
    BY <1>30, CommandAssumption, <2>1, <2>2, <2>3 DEF CbStart, IInv, Types,
       Standing, InHand, Sending, ReqTypes, LocalTypes, FlagTypes, ReqSort
  <2> QED
    BY <2>1, <2>2, <2>3, <2>4 DEF IInv, Types
<1>31. CASE CbLook
  <2>1. ReqTypes' /\ NodeTypes' /\ QueueTypes' /\ TimerTypes' /\ LocalTypes' /\ HistoryTypes'
    BY <1>31 DEF CbLook, IInv, Types, ReqTypes, NodeTypes, QueueTypes,
       TimerTypes, LocalTypes, HistoryTypes
  <2>2. FlagTypes'
    BY <1>31, CommandAssumption DEF CbLook, IInv, Types, FlagTypes
  <2>3. Standing'
    BY <1>31, CommandAssumption, <2>1, <2>2 DEF CbLook, IInv, Types, Standing,
       InHand, Sending, ReqTypes, LocalTypes, FlagTypes, ReqSort
  <2> QED
    BY <2>1, <2>2, <2>3 DEF IInv, Types
<1>32. CASE CbCount
  <2>1. ReqTypes' /\ NodeTypes' /\ QueueTypes' /\ TimerTypes'
    BY <1>32 DEF CbCount, IInv, Types, ReqTypes, NodeTypes, QueueTypes,
       TimerTypes
  <2>2. LocalTypes'
    BY <1>32, CommandAssumption DEF CbCount, IInv, Types, LocalTypes, Standing,
       InHand, Sending, ReqTypes, NodeTypes, NodeSort, QueueTypes
  <2>3. FlagTypes'
    BY <1>32, CommandAssumption DEF CbCount, IInv, Types, FlagTypes
  <2>4. HistoryTypes'
    BY <1>32, CommandAssumption, TouchingTyped DEF CbCount, IInv, Types,
       HistoryTypes
  <2>5. Standing'
    BY <1>32, CommandAssumption, <2>1, <2>2, <2>3, <2>4 DEF CbCount, IInv,
       Types, Standing, InHand, Sending, ReqTypes, LocalTypes, FlagTypes,
       ReqSort
  <2> QED
    BY <2>1, <2>2, <2>3, <2>4, <2>5 DEF IInv, Types
<1>33. CASE CbRead
  <2>1. ReqTypes' /\ NodeTypes' /\ QueueTypes' /\ TimerTypes' /\ HistoryTypes'
    BY <1>33 DEF CbRead, IInv, Types, ReqTypes, NodeTypes, QueueTypes,
       TimerTypes, HistoryTypes
  <2>2. LocalTypes'
    BY <1>33, CommandAssumption DEF CbRead, IInv, Types, LocalTypes, Standing,
       InHand, Sending, ReqTypes, NodeTypes, NodeSort, QueueTypes
  <2>3. FlagTypes'
    BY <1>33, CommandAssumption DEF CbRead, IInv, Types, FlagTypes
  <2>4. Standing'
    BY <1>33, CommandAssumption, <2>1, <2>2, <2>3 DEF CbRead, IInv, Types,
       Standing, InHand, Sending, ReqTypes, LocalTypes, FlagTypes, ReqSort
  <2> QED
    BY <2>1, <2>2, <2>3, <2>4 DEF IInv, Types
<1>34. CASE CbMark
  <2>1. NodeTypes' /\ QueueTypes' /\ TimerTypes'
    BY <1>34 DEF CbMark, IInv, Types, NodeTypes, QueueTypes, TimerTypes
  <2>2. ReqTypes'
    BY <1>34, CommandAssumption DEF CbMark, IInv, Types, ReqTypes, ReqSort
  <2>3. LocalTypes'
    BY <1>34, CommandAssumption DEF CbMark, IInv, Types, LocalTypes, Standing,
       InHand, Sending, ReqTypes, NodeTypes, NodeSort, QueueTypes
  <2>4. FlagTypes'
    BY <1>34, CommandAssumption DEF CbMark, IInv, Types, FlagTypes
  <2>5. HistoryTypes'
    BY <1>34, CommandAssumption, TouchingTyped DEF CbMark, IInv, Types,
       HistoryTypes
  <2>6. Standing'
    BY <1>34, CommandAssumption, <2>1, <2>2, <2>3, <2>4, <2>5 DEF CbMark, IInv,
       Types, Standing, InHand, Sending, ReqTypes, LocalTypes, FlagTypes,
       ReqSort
  <2> QED
    BY <2>1, <2>2, <2>3, <2>4, <2>5, <2>6 DEF IInv, Types
<1>35. CASE CbEvent
  <2>1. ReqTypes' /\ NodeTypes' /\ QueueTypes' /\ TimerTypes' /\ LocalTypes' /\ HistoryTypes'
    BY <1>35 DEF CbEvent, IInv, Types, ReqTypes, NodeTypes, QueueTypes,
       TimerTypes, LocalTypes, HistoryTypes
  <2>2. FlagTypes'
    <3>1. hang \in HangSort
      BY DEF IInv, Types, FlagTypes
    <3>2. hang' \in HangSort
      BY <1>35, <3>1, ProcessHangTyped DEF CbEvent, HangSort
    <3> QED
      BY <1>35, <3>2 DEF CbEvent, IInv, Types, FlagTypes
  <2>3. Standing'
    BY <1>35, CommandAssumption, <2>1, <2>2 DEF CbEvent, IInv, Types, Standing,
       InHand, Sending, ReqTypes, LocalTypes, FlagTypes, ReqSort
  <2> QED
    BY <2>1, <2>2, <2>3 DEF IInv, Types
<1>36. CASE RemoveBss
  <2>a. Types /\ cmd_pending_q \in Seq(Nodes)
    BY DEF IInv, Types, QueueTypes
  <2>b. Range(cmd_pending_q) \subseteq Nodes
    BY <2>a DEF Range
  <2>1. /\ ReqTypes' /\ NodeTypes' /\ QueueTypes'
        /\ raced' \in BOOLEAN /\ wrong' \subseteq {"freed", "null"}
        /\ \A s \in Reqs : req'[s].at = req[s].at
    BY <1>36, <2>a, <2>b, CancelTyped DEF RemoveBss, Pending
  <2>2. TimerTypes' /\ LocalTypes' /\ FlagTypes' /\ broke' \in BOOLEAN
    BY <1>36 DEF RemoveBss, IInv, Types, TimerTypes, TimerSort, LocalTypes,
       FlagTypes, HistoryTypes
  <2>3. Standing'
    BY <1>36, <2>1 DEF RemoveBss, IInv, Standing, InHand, Sending
  <2> QED
    BY <2>1, <2>2, <2>3 DEF IInv, Types, HistoryTypes
<1>37. CASE HangWork
  <2>a. Types /\ cmd_pending_q \in Seq(Nodes)
    BY DEF IInv, Types, QueueTypes
  <2>b. Range(cmd_pending_q) \subseteq Nodes
    BY <2>a DEF Range
  <2>1. /\ ReqTypes' /\ NodeTypes' /\ QueueTypes'
        /\ raced' \in BOOLEAN /\ wrong' \subseteq {"freed", "null"}
        /\ \A s \in Reqs : req'[s].at = req[s].at
    BY <1>37, <2>a, <2>b, CancelTyped DEF HangWork
  <2>2. TimerTypes' /\ LocalTypes' /\ FlagTypes' /\ broke' \in BOOLEAN
    <3>1. hang \in HangSort
      BY DEF IInv, Types, FlagTypes
    <3>2. hang' \in HangSort
      BY <1>37, <3>1 DEF HangWork, HangSort
    <3> QED
      BY <1>37, <3>2 DEF HangWork, IInv, Types, TimerTypes, TimerSort, LocalTypes,
         FlagTypes, HistoryTypes
  <2>3. Standing'
    BY <1>37, <2>1 DEF HangWork, IInv, Standing, InHand, Sending
  <2> QED
    BY <2>1, <2>2, <2>3 DEF IInv, Types, HistoryTypes
<1>38. CASE UNCHANGED vars
  BY <1>38 DEF vars, IInv, Types, ReqTypes, NodeTypes, QueueTypes, TimerTypes,
     LocalTypes, FlagTypes, HistoryTypes, Standing, InHand, Sending
<1>39. CASE Recovery
  <2>1. hang' \in HangSort
    BY <1>39, RecoveryTyped DEF IInv, Types, FlagTypes
  <2>2. UNCHANGED HangRest
    BY <1>39, RecoveryRest
  <2>3. Types'
    BY <2>1, <2>2 DEF HangRest, IInv, Types, ReqTypes, NodeTypes, QueueTypes,
       TimerTypes, LocalTypes, FlagTypes, HistoryTypes
  <2>4. Standing'
    BY <2>2 DEF HangRest, IInv, Standing, InHand, Sending
  <2> QED
    BY <2>3, <2>4 DEF IInv
<1> QED
  BY <1>1, <1>2, <1>3, <1>4, <1>5, <1>6, <1>7, <1>8, <1>9, <1>10, <1>11, <1>12,
     <1>13, <1>14, <1>15, <1>16, <1>17, <1>18, <1>19, <1>20, <1>21, <1>22,
     <1>23, <1>24, <1>25, <1>26, <1>27, <1>28, <1>29, <1>30, <1>31, <1>32,
     <1>33, <1>34, <1>35, <1>36, <1>37, <1>38, <1>39 DEF Next, Thread, Loop,
     Response, Callback

-----------------------------------------------------------------------------
(* The loop leaves nothing behind: QueueCmd precedes its kick, and a refused *)
(* caller leaves a note that the loop reads when it leaves.                  *)
LEMMA CoveredKept == IInv /\ LeavesCovered /\ [Next]_vars => LeavesCovered'
<1> SUFFICES ASSUME IInv, LeavesCovered, [Next]_vars PROVE LeavesCovered'
  OBVIOUS
<1> USE DEF ReqRest, LoopRest, BusRest, CbRest, reqs, queues, proc, locals,
           bus, clock, recovery, history
<1>36. CASE RemoveBss
  <2>a. cmd_pending_q \in Seq(Nodes) /\ Types
    BY DEF IInv, Types, QueueTypes
  <2>b. Range(cmd_pending_q) \subseteq Nodes
    BY <2>a DEF Range
  <2>1. \A s \in Reqs : req'[s].at = req[s].at
    BY <1>36, <2>a, <2>b, CancelTyped DEF RemoveBss, Pending
  <2>2. cmd_pending_q = <<>> => cmd_pending_q' = <<>>
    BY <1>36, <2>a, SelectedEmpty DEF RemoveBss, Pending, Cancel
  <2> QED
    BY <1>36, <2>1, <2>2 DEF RemoveBss, LeavesCovered, Covered
<1>37. CASE HangWork
  <2>a. cmd_pending_q \in Seq(Nodes) /\ Types
    BY DEF IInv, Types, QueueTypes
  <2>b. Range(cmd_pending_q) \subseteq Nodes
    BY <2>a DEF Range
  <2>1. \A s \in Reqs : req'[s].at = req[s].at
    BY <1>37, <2>a, <2>b, CancelTyped DEF HangWork
  <2>2. cmd_pending_q = <<>> => cmd_pending_q' = <<>>
    BY <1>37, <2>a, SelectedEmpty DEF HangWork, Cancel
  <2> QED
    BY <1>37, <2>1, <2>2 DEF HangWork, LeavesCovered, Covered
<1> USE DEF IInv, LeavesCovered, Covered, Types, FlagTypes, ReqTypes, ReqSort
<1>1. ASSUME NEW r \in Reqs, Request(r) PROVE LeavesCovered'
  BY <1>1 DEF Request
<1>2. ASSUME NEW r \in Reqs, GetCmdNode(r) PROVE LeavesCovered'
  BY <1>2 DEF GetCmdNode
<1>3. ASSUME NEW r \in Reqs, QueueCmd(r) PROVE LeavesCovered'
  BY <1>3 DEF QueueCmd
<1>4. ASSUME NEW r \in Reqs, KickMain(r) PROVE LeavesCovered'
  BY <1>4 DEF KickMain
<1>5. ASSUME NEW r \in Reqs, Wait(r) PROVE LeavesCovered'
  BY <1>5 DEF Wait
<1>6. ASSUME NEW r \in Reqs, PrepareFails(r) PROVE LeavesCovered'
  BY <1>6 DEF PrepareFails
<1>7. ASSUME NEW r \in Reqs, GiveUp(r) PROVE LeavesCovered'
  BY <1>7 DEF GiveUp
<1>8. CASE LoopTop
  BY <1>8 DEF LoopTop
<1>9. CASE LoopResp
  BY <1>9 DEF LoopResp
<1>10. CASE RespRead
  BY <1>10 DEF RespRead
<1>11. CASE RespStop
  BY <1>11 DEF RespStop
<1>12. CASE RespSync
  BY <1>12 DEF RespSync
<1>13. CASE RespCanceled
  BY <1>13 DEF RespCanceled, FreeCurr
<1>14. CASE RespHandle
  BY <1>14 DEF RespHandle
<1>15. CASE RespDone
  BY <1>15 DEF RespDone, FreeCurr
<1>16. CASE ExecNext
  BY <1>16 DEF ExecNext
<1>17. CASE DnldSet
  BY <1>17 DEF DnldSet
<1>18. CASE DnldSend
  BY <1>18 DEF DnldSend
<1>19. CASE DnldTimer
  BY <1>19 DEF DnldTimer
<1>20. CASE Exit
  BY <1>20 DEF Exit
<1>21. CASE MainWork
  BY <1>21 DEF MainWork, Enter
<1>22. CASE RespAsleep
  BY <1>22 DEF RespAsleep
<1>23. CASE DnldFails
  BY <1>23 DEF DnldFails, FreeCurr
<1>24. CASE CardAnswers
  BY <1>24 DEF CardAnswers
<1>25. CASE CardDies
  BY <1>25 DEF CardDies
<1>26. CASE RespTake
  BY <1>26 DEF RespTake
<1>27. CASE RespSignal
  BY <1>27 DEF RespSignal
<1>28. CASE RespEnter
  BY <1>28 DEF RespEnter, Enter
<1>29. CASE Expire
  BY <1>29 DEF Expire
<1>30. CASE CbStart
  BY <1>30 DEF CbStart
<1>31. CASE CbLook
  BY <1>31 DEF CbLook
<1>32. CASE CbCount
  BY <1>32 DEF CbCount
<1>33. CASE CbRead
  BY <1>33 DEF CbRead
<1>34. CASE CbMark
  BY <1>34 DEF CbMark
<1>35. CASE CbEvent
  BY <1>35 DEF CbEvent
<1>38. CASE UNCHANGED vars
  BY <1>38 DEF vars
<1>39. CASE Recovery
  BY <1>39, RecoveryRest DEF HangRest
<1> HIDE DEF IInv, LeavesCovered, Covered, Types, FlagTypes, ReqTypes, ReqSort
<1> QED
  BY <1>1, <1>2, <1>3, <1>4, <1>5, <1>6, <1>7, <1>8, <1>9, <1>10, <1>11, <1>12,
     <1>13, <1>14, <1>15, <1>16, <1>17, <1>18, <1>19, <1>20, <1>21, <1>22,
     <1>23, <1>24, <1>25, <1>26, <1>27, <1>28, <1>29, <1>30, <1>31, <1>32,
     <1>33, <1>34, <1>35, <1>36, <1>37, <1>38, <1>39 DEF Next, Thread, Loop,
     Response, Callback

-----------------------------------------------------------------------------
(* The timer is started for a command that was sent and stopped before the *)
(* command is let go of.                                                   *)
LEMMA TimedKept == IInv /\ Timed /\ [Next]_vars => Timed'
<1> SUFFICES ASSUME IInv, Timed, [Next]_vars PROVE Timed'
  OBVIOUS
<1> USE DEF ReqRest, LoopRest, BusRest, CbRest, reqs, queues, proc, locals,
           bus, clock, recovery, history
<1> USE CommandAssumption DEF IInv, Timed, Types, FlagTypes, Standing, InHand,
           Sending, TimerTypes, TimerSort, HistoryTypes
<1>1. ASSUME NEW r \in Reqs, Request(r) PROVE Timed'
  BY <1>1 DEF Request
<1>2. ASSUME NEW r \in Reqs, GetCmdNode(r) PROVE Timed'
  BY <1>2 DEF GetCmdNode
<1>3. ASSUME NEW r \in Reqs, QueueCmd(r) PROVE Timed'
  BY <1>3 DEF QueueCmd
<1>4. ASSUME NEW r \in Reqs, KickMain(r) PROVE Timed'
  BY <1>4 DEF KickMain
<1>5. ASSUME NEW r \in Reqs, Wait(r) PROVE Timed'
  BY <1>5 DEF Wait
<1>6. ASSUME NEW r \in Reqs, PrepareFails(r) PROVE Timed'
  BY <1>6 DEF PrepareFails
<1>7. ASSUME NEW r \in Reqs, GiveUp(r) PROVE Timed'
  BY <1>7 DEF GiveUp
<1>8. CASE LoopTop
  BY <1>8 DEF LoopTop
<1>9. CASE LoopResp
  BY <1>9 DEF LoopResp
<1>10. CASE RespRead
  BY <1>10 DEF RespRead
<1>11. CASE RespStop
  BY <1>11 DEF RespStop
<1>12. CASE RespSync
  BY <1>12 DEF RespSync
<1>13. CASE RespCanceled
  BY <1>13 DEF RespCanceled, FreeCurr
<1>14. CASE RespHandle
  BY <1>14 DEF RespHandle
<1>15. CASE RespDone
  BY <1>15 DEF RespDone, FreeCurr
<1>16. CASE ExecNext
  BY <1>16 DEF ExecNext
<1>17. CASE DnldSet
  BY <1>17 DEF DnldSet
<1>18. CASE DnldSend
  BY <1>18 DEF DnldSend
<1>19. CASE DnldTimer
  BY <1>19 DEF DnldTimer
<1>20. CASE Exit
  BY <1>20 DEF Exit
<1>21. CASE MainWork
  BY <1>21 DEF MainWork, Enter
<1>22. CASE RespAsleep
  BY <1>22 DEF RespAsleep
<1>23. CASE DnldFails
  BY <1>23 DEF DnldFails, FreeCurr
<1>24. CASE CardAnswers
  BY <1>24 DEF CardAnswers
<1>25. CASE CardDies
  BY <1>25 DEF CardDies
<1>26. CASE RespTake
  BY <1>26 DEF RespTake
<1>27. CASE RespSignal
  BY <1>27 DEF RespSignal
<1>28. CASE RespEnter
  BY <1>28 DEF RespEnter, Enter
<1>29. CASE Expire
  BY <1>29 DEF Expire
<1>30. CASE CbStart
  BY <1>30 DEF CbStart
<1>31. CASE CbLook
  BY <1>31 DEF CbLook
<1>32. CASE CbCount
  BY <1>32 DEF CbCount
<1>33. CASE CbRead
  BY <1>33 DEF CbRead
<1>34. CASE CbMark
  BY <1>34 DEF CbMark
<1>35. CASE CbEvent
  BY <1>35 DEF CbEvent
<1>36. CASE RemoveBss
  BY <1>36 DEF RemoveBss, Cancel
<1>37. CASE HangWork
  BY <1>37 DEF HangWork, Cancel
<1>38. CASE UNCHANGED vars
  BY <1>38 DEF vars
<1>39. CASE Recovery
  BY <1>39, RecoveryRest DEF HangRest
<1> HIDE DEF IInv, Timed, Types, FlagTypes, Standing, InHand, Sending,
           TimerTypes, TimerSort, HistoryTypes
<1> QED
  BY <1>1, <1>2, <1>3, <1>4, <1>5, <1>6, <1>7, <1>8, <1>9, <1>10, <1>11, <1>12,
     <1>13, <1>14, <1>15, <1>16, <1>17, <1>18, <1>19, <1>20, <1>21, <1>22,
     <1>23, <1>24, <1>25, <1>26, <1>27, <1>28, <1>29, <1>30, <1>31, <1>32,
     <1>33, <1>34, <1>35, <1>36, <1>37, <1>38, <1>39 DEF Next, Thread, Loop,
     Response, Callback

-----------------------------------------------------------------------------
(* A step that lets go of requests: nodes lose them, and each request that *)
(* changes is completed at most once and borne by no node any more.        *)
LetGo(r) ==
    /\ req'[r].done \in {0, 1} /\ (req'[r].condition \/ req'[r].woken => req'[r].done = 1)
    /\ req'[r].at \notin {"new", "lock"}
    /\ \A n \in Nodes : node'[n].pioctl # r

Releases ==
    /\ \A n \in Nodes : node'[n].pioctl \in {node[n].pioctl, NoReq}
    /\ \A r \in Reqs : req'[r] = req[r] \/ LetGo(r)

(* Letting go keeps what is said of the nodes and requests that stay. *)
LEMMA BorneReleased ==
    ASSUME IInv, Borne, Releases, preparer' = NoReq \/ UNCHANGED <<preparer, prepared>>
    PROVE  Borne'
<1>a. \A n \in Nodes : node[n].pioctl \in Reqs \cup {NoReq}
  BY DEF IInv, Types, NodeTypes, NodeSort
<1>1. ASSUME NEW n \in Nodes, node'[n].pioctl # NoReq
      PROVE  /\ node'[n].pioctl = node[n].pioctl /\ node[n].pioctl \in Reqs
             /\ req'[node[n].pioctl] = req[node[n].pioctl]
  BY <1>a, <1>1 DEF Releases, LetGo
<1>2. \A n \in Nodes : node'[n].pioctl # NoReq =>
        LET q == req'[node'[n].pioctl] IN q.live /\ q.done = 0 /\ q.at \notin {"new", "lock"}
  BY <1>1 DEF Borne
<1>3. \A m, n \in Nodes : node'[m].pioctl = node'[n].pioctl /\ node'[m].pioctl # NoReq => m = n
  BY <1>1 DEF Borne
<1>4. \A n \in Nodes : node'[n].pioctl # NoReq /\ node'[n].pioctl = preparer' => n = prepared'
  BY <1>1 DEF Borne
<1>5. \A r \in Reqs :
        /\ req'[r].done <= 1
        /\ req'[r].condition \/ req'[r].woken => req'[r].done = 1
        /\ req'[r].at \in {"new", "lock"} => req'[r].done = 0
        /\ req'[r].at = "lock" => req'[r].live
  BY DEF Borne, Releases, LetGo
<1> QED
  BY <1>2, <1>3, <1>4, <1>5 DEF Borne

(* The request of the current command is completed and let go of. *)
LEMMA FreeCurrReleases ==
    ASSUME IInv, Borne, curr_cmd # NoNode, NEW t \in BOOLEAN, NEW l, FreeCurr(t, l)
    PROVE  Releases
<1>a. curr_cmd \in Nodes /\ node \in [Nodes -> NodeSort] /\ ReqTypes
      /\ req \in [Reqs -> ReqSort]
  BY DEF IInv, Types, LocalTypes, NodeTypes, ReqTypes
<1> DEFINE c == node[curr_cmd].pioctl
<1>1. node' = [node EXCEPT ![curr_cmd] = CleanNode] /\ req' = CompleteAll({c}, t)
  BY DEF FreeCurr
<1>2. /\ node'[curr_cmd].pioctl = NoReq
      /\ \A n \in Nodes : n # curr_cmd => node'[n].pioctl = node[n].pioctl
  BY <1>a, <1>1, CleanTyped
<1>3. ASSUME NEW r \in Reqs, r # c PROVE req'[r] = req[r]
  BY <1>a, <1>1, <1>3, CompleteAllTyped
<1>4. ASSUME c \in Reqs PROVE LetGo(c)
  <2>1. req[c].done = 0 /\ req[c].at \notin {"new", "lock"} /\ req[c] \in ReqSort /\ c # NoReq
    BY <1>a, <1>4, CommandAssumption DEF Borne
  <2>2. req'[c] = Completed(req[c], t)
    BY <1>a, <1>1, <1>4, CompleteAllTyped
  <2>3. req'[c].done = 1 /\ req'[c].at \notin {"new", "lock"}
    BY <2>1, <2>2, CompletedTyped
  <2>4. \A n \in Nodes : node'[n].pioctl # c
    BY <1>a, <1>2, <2>1 DEF Borne
  <2> QED
    BY <2>3, <2>4 DEF LetGo
<1> QED
  BY <1>2, <1>3, <1>4 DEF Releases

(* So is every request that a cancel finds, in the pending nodes of S and  *)
(* in the current one.                                                     *)
LEMMA CancelReleases ==
    ASSUME IInv, Borne, NEW S \in SUBSET Reqs, NEW Out \in SUBSET Nodes, NEW mark \in BOOLEAN,
           \A n \in Out : node[n].pioctl # NoReq => node[n].pioctl \in S,
           Cancel(Out, S, mark)
    PROVE  Releases
<1>a. node \in [Nodes -> NodeSort] /\ req \in [Reqs -> ReqSort] /\ ReqTypes
      /\ curr_cmd \in Nodes \cup {NoNode} /\ NoReq \notin Reqs /\ NoNode \notin Nodes
  BY CommandAssumption DEF IInv, Types, LocalTypes, NodeTypes, ReqTypes
<1> DEFINE canceled == S \cap ({CurrReq} \cup {node[n].pioctl : n \in Out})
<1>1. req' = CompleteAll(canceled, FALSE)
  BY DEF Cancel
<1>2. ASSUME NEW n \in Nodes
      PROVE  /\ node'[n].pioctl = IF n \in Out \/ (n = curr_cmd /\ CurrReq \in canceled) THEN NoReq
                                  ELSE node[n].pioctl
  <2>1. [node[n] EXCEPT !.pioctl = NoReq, !.canceled = @ \/ mark].pioctl = NoReq
    BY <1>a DEF NodeSort
  <2> QED
    BY <2>1, CleanTyped DEF Cancel
<1>3. ASSUME NEW r \in Reqs, r \notin canceled PROVE req'[r] = req[r]
  BY <1>a, <1>1, <1>3, CompleteAllTyped
<1>4. ASSUME NEW r \in canceled PROVE LetGo(r)
  <2>1. PICK m \in Nodes : /\ node[m].pioctl = r
                           /\ m \in Out \/ (m = curr_cmd /\ CurrReq \in canceled)
    BY <1>a, <1>4 DEF CurrReq
  <2>2. req[r].done = 0 /\ req[r].at \notin {"new", "lock"} /\ req[r] \in ReqSort /\ r # NoReq
    BY <1>a, <1>4, <2>1 DEF Borne
  <2>3. PICK t \in BOOLEAN : req' = CompleteAll(canceled, t)
    BY <1>1
  <2>4. req'[r].done = 1 /\ req'[r].at \notin {"new", "lock"}
    <3>1. r \in canceled \cap Reqs
      BY <1>4
    <3> HIDE DEF canceled
    <3>2. req'[r] = Completed(req[r], t)
      BY <1>a, <2>3, <3>1, CompleteAllTyped
    <3> QED
      BY <2>2, <3>2, CompletedTyped
  <2>5. \A n \in Nodes : node'[n].pioctl # r
    BY <1>a, <1>2, <2>1, <2>2 DEF Borne
  <2> QED
    BY <2>4, <2>5 DEF LetGo
<1> QED
  BY <1>2, <1>3, <1>4 DEF Releases

(* A request that its thread frees is borne by no node. *)
LEMMA FreedReleases ==
    ASSUME IInv, Borne, NEW r \in Reqs, req' = [req EXCEPT ![r] = Freed(req[r])],
           \A n \in Nodes : node'[n].pioctl \in {node[n].pioctl, NoReq} \ {r}
    PROVE  Releases
<1>a. req \in [Reqs -> ReqSort] /\ ReqTypes
  BY DEF IInv, Types, ReqTypes
<1>1. req'[r] = Freed(req[r]) /\ \A s \in Reqs : s # r => req'[s] = req[s]
  BY <1>a
<1>2. req[r].done \in {0, 1}
  BY <1>a DEF Borne, ReqSort
<1>3. LetGo(r)
  BY <1>a, <1>1, <1>2, FreedTyped DEF LetGo
<1> QED
  BY <1>1, <1>3 DEF Releases

(* Requests are taken up by one node and let go of once. *)
LEMMA BorneKept == IInv /\ Borne /\ [Next]_vars => Borne'
<1> SUFFICES ASSUME IInv, Borne, [Next]_vars PROVE Borne'
  OBVIOUS
<1> USE DEF ReqRest, LoopRest, BusRest, CbRest, reqs, queues, proc, locals,
           bus, clock, recovery, history
<1>2. ASSUME NEW r \in Reqs, GetCmdNode(r) PROVE Borne'
  <2>a. /\ req \in [Reqs -> ReqSort] /\ node \in [Nodes -> NodeSort] /\ cmd_free_q \in Seq(Nodes)
        /\ NoReq \notin Reqs /\ req[r].at = "lock" /\ req[r].done = 0
        /\ \A n \in Nodes : node[n].pioctl \in Reqs \cup {NoReq}
    BY <1>2, CommandAssumption DEF GetCmdNode, IInv, Types, ReqTypes,
       NodeTypes, NodeSort, QueueTypes, Borne
  <2>b. \A n \in Nodes : node[n].pioctl # r
    BY <2>a DEF Borne
  <2>1. CASE cmd_free_q = <<>>
    <3>1. req' = [req EXCEPT ![r] = Freed(req[r])] /\ UNCHANGED <<node, preparer, prepared>>
      BY <1>2, <2>1 DEF GetCmdNode
    <3> QED
      BY <2>b, <3>1, FreedReleases, BorneReleased
  <2>2. CASE cmd_free_q # <<>>
    <3> DEFINE h == Head(cmd_free_q)
    <3>1. h \in Nodes /\ prepared' = h /\ preparer' = r
      BY <1>2, <2>a, <2>2, QueueParts DEF GetCmdNode
    <3>2. /\ req'[r].done = 0 /\ req'[r].live = req[r].live /\ req'[r].at = "prepare"
          /\ req'[r].condition = req[r].condition /\ req'[r].woken = req[r].woken
          /\ \A s \in Reqs : s # r => req'[s] = req[s]
      BY <1>2, <2>a, <2>2 DEF GetCmdNode, ReqSort
    <3>3. node'[h].pioctl = r /\ \A n \in Nodes : n # h => node'[n] = node[n]
      BY <1>2, <2>a, <2>2, <3>1 DEF GetCmdNode, CleanNode
    <3>4. req[r].live
      BY <2>a DEF Borne
    <3> HIDE DEF h
    <3>5. \A n \in Nodes : node'[n].pioctl # NoReq =>
            LET q == req'[node'[n].pioctl] IN q.live /\ q.done = 0 /\ q.at \notin {"new", "lock"}
      <4>1. ASSUME NEW n \in Nodes, n # h, node'[n].pioctl # NoReq
            PROVE  /\ node'[n].pioctl = node[n].pioctl
                   /\ req'[node[n].pioctl] = req[node[n].pioctl]
        BY <2>a, <2>b, <3>2, <3>3, <4>1
      <4>2. ASSUME NEW n \in Nodes, n # h, node'[n].pioctl # NoReq
            PROVE  LET q == req'[node'[n].pioctl] IN
                   q.live /\ q.done = 0 /\ q.at \notin {"new", "lock"}
        BY <4>1, <4>2 DEF Borne
      <4> QED
        BY <3>1, <3>2, <3>3, <3>4, <4>2
    <3>6. \A m, n \in Nodes : node'[m].pioctl = node'[n].pioctl /\ node'[m].pioctl # NoReq => m = n
      BY <2>a, <2>b, <3>1, <3>3 DEF Borne
    <3>7. \A n \in Nodes : node'[n].pioctl # NoReq /\ node'[n].pioctl = preparer' => n = prepared'
      BY <2>a, <2>b, <3>1, <3>3
    <3>8. \A s \in Reqs :
            /\ req'[s].done <= 1
            /\ req'[s].condition \/ req'[s].woken => req'[s].done = 1
            /\ req'[s].at \in {"new", "lock"} => req'[s].done = 0
            /\ req'[s].at = "lock" => req'[s].live
      BY <2>a, <3>2 DEF Borne
    <3> QED
      BY <3>5, <3>6, <3>7, <3>8 DEF Borne
  <2> QED
    BY <2>1, <2>2
<1>5. ASSUME NEW r \in Reqs, Wait(r) PROVE Borne'
  <2>a. UNCHANGED <<preparer, prepared, node>> /\ req \in [Reqs -> ReqSort]
        /\ \A n \in Nodes : node[n].pioctl \in Reqs \cup {NoReq}
    BY <1>5 DEF Wait, IInv, Types, ReqTypes, NodeTypes, NodeSort
  <2>1. CASE req[r].at = "wait" /\ ~req[r].condition
    BY <1>5, <2>a, <2>1 DEF Wait, Borne, ReqSort
  <2>2. CASE ~(req[r].at = "wait" /\ ~req[r].condition)
    <3>1. req' = [req EXCEPT ![r] = Freed(req[r])] /\ (req[r].condition \/ req[r].woken)
      BY <1>5, <2>2 DEF Wait
    <3>2. \A n \in Nodes : node'[n].pioctl \in {node[n].pioctl, NoReq} \ {r}
      BY <2>a, <3>1, CommandAssumption DEF Borne
    <3> QED
      BY <2>a, <3>1, <3>2, FreedReleases, BorneReleased
  <2> QED
    BY <2>1, <2>2
<1>6. ASSUME NEW r \in Reqs, PrepareFails(r) PROVE Borne'
  <2>a. /\ preparer = r /\ prepared \in Nodes /\ node \in [Nodes -> NodeSort]
        /\ NoReq \notin Reqs
    BY <1>6, CommandAssumption DEF PrepareFails, IInv, Standing, Types,
       LocalTypes, NodeTypes
  <2>1. req' = [req EXCEPT ![r] = Freed(req[r])] /\ preparer' = NoReq
        /\ node' = [node EXCEPT ![prepared] = CleanNode]
    BY <1>6 DEF PrepareFails
  <2>2. \A n \in Nodes : node'[n].pioctl \in {node[n].pioctl, NoReq} \ {r}
    BY <2>a, <2>1, CleanTyped DEF Borne
  <2> QED
    BY <2>1, <2>2, FreedReleases, BorneReleased
<1>7. ASSUME NEW r \in Reqs, GiveUp(r) PROVE Borne'
  <2>a. UNCHANGED <<preparer, prepared, node>> /\ req \in [Reqs -> ReqSort]
        /\ \A n \in Nodes : node[n].pioctl \in Reqs \cup {NoReq}
    BY <1>7 DEF GiveUp, IInv, Types, ReqTypes, NodeTypes, NodeSort
  <2>1. CASE ~req[r].condition
    BY <1>7, <2>a, <2>1 DEF GiveUp, Borne, ReqSort
  <2>2. CASE req[r].condition
    <3>1. req' = [req EXCEPT ![r] = Freed(req[r])]
      BY <1>7, <2>2 DEF GiveUp
    <3>2. \A n \in Nodes : node'[n].pioctl \in {node[n].pioctl, NoReq} \ {r}
      BY <2>a, <2>2, CommandAssumption DEF Borne
    <3> QED
      BY <2>a, <3>1, <3>2, FreedReleases, BorneReleased
  <2> QED
    BY <2>1, <2>2
<1>13. CASE RespCanceled
  <2>a. curr_cmd # NoNode
    BY <1>13 DEF IInv, Standing, InHand, Sending, RespCanceled
  <2>b. UNCHANGED <<preparer, prepared>>
    BY <1>13 DEF RespCanceled
  <2>1. Releases
    <3>1. CASE node[curr_cmd].canceled
      BY <1>13, <2>a, <3>1, FreeCurrReleases DEF RespCanceled
    <3>2. CASE ~node[curr_cmd].canceled
      BY <1>13, <3>2 DEF RespCanceled, Releases
    <3> QED
      BY <3>1, <3>2
  <2> QED
    BY <2>b, <2>1, BorneReleased
<1>15. CASE RespDone
  <2>a. curr_cmd # NoNode
    BY <1>15 DEF IInv, Standing, InHand, Sending, RespDone
  <2>b. UNCHANGED <<preparer, prepared>>
    BY <1>15 DEF RespDone
  <2>1. Releases
    <3>1. PICK t \in BOOLEAN : FreeCurr(t, node[curr_cmd].pioctl)
      BY <1>15 DEF RespDone
    <3> QED
      BY <2>a, <3>1, FreeCurrReleases
  <2> QED
    BY <2>b, <2>1, BorneReleased
<1>23. CASE DnldFails
  <2>a. curr_cmd # NoNode
    BY <1>23 DEF IInv, Standing, InHand, Sending, DnldFails
  <2>b. UNCHANGED <<preparer, prepared>>
    BY <1>23 DEF DnldFails
  <2>1. Releases
    BY <1>23, <2>a, FreeCurrReleases DEF DnldFails
  <2> QED
    BY <2>b, <2>1, BorneReleased
<1>26. CASE RespTake
  <2>1. \A n \in Nodes : node'[n].pioctl = node[n].pioctl
    BY <1>26 DEF RespTake, IInv, Types, NodeTypes, NodeSort
  <2>2. UNCHANGED <<req, preparer, prepared>>
    BY <1>26 DEF RespTake
  <2> QED
    BY <2>1, <2>2, BorneReleased DEF Releases
<1>36. CASE RemoveBss
  <2>a. Range(cmd_pending_q) \subseteq Nodes /\ BssReqs \subseteq Reqs
    BY CommandAssumption DEF IInv, Types, QueueTypes, Range
  <2>b. \A n \in Nodes : node[n].pioctl \in Reqs \cup {NoReq}
    BY DEF IInv, Types, NodeTypes, NodeSort
  <2>c. UNCHANGED <<preparer, prepared>>
    BY <1>36 DEF RemoveBss
  <2>d. Pending(BssReqs) \subseteq Nodes /\ \A n \in Pending(BssReqs) : node[n].pioctl \in BssReqs
    BY <2>a DEF Pending
  <2>1. Releases
    BY <1>36, <2>a, <2>b, <2>d, CancelReleases DEF RemoveBss
  <2> QED
    BY <2>c, <2>1, BorneReleased
<1>37. CASE HangWork
  <2>a. Range(cmd_pending_q) \subseteq Nodes /\ BssReqs \subseteq Reqs
    BY CommandAssumption DEF IInv, Types, QueueTypes, Range
  <2>b. \A n \in Nodes : node[n].pioctl \in Reqs \cup {NoReq}
    BY DEF IInv, Types, NodeTypes, NodeSort
  <2>c. UNCHANGED <<preparer, prepared>>
    BY <1>37 DEF HangWork
  <2>1. Releases
    BY <1>37, <2>a, <2>b, CancelReleases DEF HangWork
  <2> QED
    BY <2>c, <2>1, BorneReleased
<1> USE CommandAssumption DEF IInv, Borne, Types, Standing, LocalTypes,
           ReqTypes, ReqSort, NodeTypes, NodeSort, CleanNode
<1>1. ASSUME NEW r \in Reqs, Request(r) PROVE Borne'
  BY <1>1 DEF Request
<1>3. ASSUME NEW r \in Reqs, QueueCmd(r) PROVE Borne'
  BY <1>3 DEF QueueCmd
<1>4. ASSUME NEW r \in Reqs, KickMain(r) PROVE Borne'
  BY <1>4 DEF KickMain
<1>8. CASE LoopTop
  BY <1>8 DEF LoopTop
<1>9. CASE LoopResp
  BY <1>9 DEF LoopResp
<1>10. CASE RespRead
  BY <1>10 DEF RespRead
<1>11. CASE RespStop
  BY <1>11 DEF RespStop
<1>12. CASE RespSync
  BY <1>12 DEF RespSync
<1>14. CASE RespHandle
  BY <1>14 DEF RespHandle
<1>16. CASE ExecNext
  BY <1>16 DEF ExecNext
<1>17. CASE DnldSet
  BY <1>17 DEF DnldSet
<1>18. CASE DnldSend
  BY <1>18 DEF DnldSend
<1>19. CASE DnldTimer
  BY <1>19 DEF DnldTimer
<1>20. CASE Exit
  BY <1>20 DEF Exit
<1>21. CASE MainWork
  BY <1>21 DEF MainWork, Enter
<1>22. CASE RespAsleep
  BY <1>22 DEF RespAsleep
<1>24. CASE CardAnswers
  BY <1>24 DEF CardAnswers
<1>25. CASE CardDies
  BY <1>25 DEF CardDies
<1>27. CASE RespSignal
  BY <1>27 DEF RespSignal
<1>28. CASE RespEnter
  BY <1>28 DEF RespEnter, Enter
<1>29. CASE Expire
  BY <1>29 DEF Expire
<1>30. CASE CbStart
  BY <1>30 DEF CbStart
<1>31. CASE CbLook
  BY <1>31 DEF CbLook
<1>32. CASE CbCount
  BY <1>32 DEF CbCount
<1>33. CASE CbRead
  BY <1>33 DEF CbRead
<1>34. CASE CbMark
  BY <1>34 DEF CbMark
<1>35. CASE CbEvent
  BY <1>35 DEF CbEvent
<1>38. CASE UNCHANGED vars
  BY <1>38 DEF vars
<1>39. CASE Recovery
  BY <1>39, RecoveryRest DEF HangRest
<1> HIDE DEF IInv, Borne, Types, Standing, LocalTypes, ReqTypes, ReqSort,
           NodeTypes, NodeSort, CleanNode
<1> QED
  BY <1>1, <1>2, <1>3, <1>4, <1>5, <1>6, <1>7, <1>8, <1>9, <1>10, <1>11, <1>12,
     <1>13, <1>14, <1>15, <1>16, <1>17, <1>18, <1>19, <1>20, <1>21, <1>22,
     <1>23, <1>24, <1>25, <1>26, <1>27, <1>28, <1>29, <1>30, <1>31, <1>32,
     <1>33, <1>34, <1>35, <1>36, <1>37, <1>38, <1>39 DEF Next, Thread, Loop,
     Response, Callback

-----------------------------------------------------------------------------
(* EachNodeOnce, place by place. *)
Placed ==
    /\ IsInjective(cmd_free_q) /\ IsInjective(cmd_pending_q)
    /\ Range(cmd_free_q) \cap Range(cmd_pending_q) = {}
    /\ curr_cmd \notin Range(cmd_free_q) \cup Range(cmd_pending_q)
    /\ unlinked \notin Range(cmd_free_q) \cup Range(cmd_pending_q)
    /\ prepared \notin Range(cmd_free_q) \cup Range(cmd_pending_q)
    /\ curr_cmd \in {unlinked, prepared} => curr_cmd = NoNode
    /\ unlinked = prepared => unlinked = NoNode
    /\ Nodes \subseteq Range(cmd_free_q) \cup Range(cmd_pending_q)
                         \cup {curr_cmd, unlinked, prepared}

(* A node joins a queue at its end. *)
LEMMA AppendOnce ==
    ASSUME NEW q \in Seq(Nodes), NEW n \in Nodes, n \notin Range(q), IsInjective(q)
    PROVE  /\ IsInjective(Append(q, n)) /\ Range(Append(q, n)) = Range(q) \cup {n}
           /\ Append(q, n) \in Seq(Nodes)
<1>1. /\ Append(q, n) \in Seq(Nodes) /\ DOMAIN Append(q, n) = 1 .. Len(q) + 1
      /\ DOMAIN q = 1 .. Len(q) /\ Len(q) \in Nat
      /\ \A i \in 1 .. Len(q) : Append(q, n)[i] = q[i]
      /\ Append(q, n)[Len(q) + 1] = n
  OBVIOUS
<1>2. \A i \in 1 .. Len(q) : q[i] # n
  BY <1>1 DEF Range
<1>3. IsInjective(Append(q, n))
  BY <1>1, <1>2 DEF IsInjective
<1>4. Range(Append(q, n)) = Range(q) \cup {n}
  <2>1. ASSUME NEW x \in Range(Append(q, n)) PROVE x \in Range(q) \cup {n}
    BY <1>1 DEF Range
  <2>2. ASSUME NEW x \in Range(q) PROVE x \in Range(Append(q, n))
    <3>1. PICK i \in 1 .. Len(q) : x = q[i]
      BY <1>1 DEF Range
    <3>2. i \in DOMAIN Append(q, n) /\ Append(q, n)[i] = x
      BY <1>1, <3>1
    <3> QED
      BY <3>2 DEF Range
  <2>3. n \in Range(Append(q, n))
    <3>1. Len(q) + 1 \in DOMAIN Append(q, n)
      BY <1>1
    <3> QED
      BY <1>1, <3>1 DEF Range
  <2> QED
    BY <2>1, <2>2, <2>3
<1> QED
  BY <1>1, <1>3, <1>4

(* Two queues are joined. *)
LEMMA ConcatOnce ==
    ASSUME NEW p \in Seq(Nodes), NEW q \in Seq(Nodes), IsInjective(p), IsInjective(q),
           Range(p) \cap Range(q) = {}
    PROVE  /\ IsInjective(p \o q) /\ Range(p \o q) = Range(p) \cup Range(q)
           /\ p \o q \in Seq(Nodes)
<1>1. /\ p \o q \in Seq(Nodes) /\ DOMAIN (p \o q) = 1 .. Len(p) + Len(q)
      /\ DOMAIN p = 1 .. Len(p) /\ Len(p) \in Nat /\ DOMAIN q = 1 .. Len(q) /\ Len(q) \in Nat
  OBVIOUS
<1>2. ASSUME NEW i \in 1 .. Len(p) PROVE (p \o q)[i] = p[i] /\ p[i] \in Range(p)
  BY <1>1 DEF Range
<1>3. ASSUME NEW i \in 1 .. Len(p) + Len(q), i > Len(p)
      PROVE  /\ (p \o q)[i] = q[i - Len(p)] /\ i - Len(p) \in 1 .. Len(q)
             /\ q[i - Len(p)] \in Range(q)
  <2>1. i - Len(p) \in 1 .. Len(q)
    BY <1>1, <1>3
  <2> QED
    BY <1>1, <1>3, <2>1 DEF Range
<1>4. IsInjective(p \o q)
  <2> SUFFICES ASSUME NEW i \in 1 .. Len(p) + Len(q), NEW j \in 1 .. Len(p) + Len(q),
                      (p \o q)[i] = (p \o q)[j]
               PROVE  i = j
    BY <1>1 DEF IsInjective
  <2>1. CASE i <= Len(p) /\ j <= Len(p)
    BY <1>1, <1>2, <2>1 DEF IsInjective
  <2>2. CASE i > Len(p) /\ j > Len(p)
    <3>1. i - Len(p) = j - Len(p)
      BY <1>1, <1>3, <2>2 DEF IsInjective
    <3> QED
      BY <1>1, <3>1
  <2>3. CASE (i <= Len(p) /\ j > Len(p)) \/ (i > Len(p) /\ j <= Len(p))
    BY <1>1, <1>2, <1>3, <2>3
  <2> QED
    BY <1>1, <2>1, <2>2, <2>3
<1>5. Range(p \o q) = Range(p) \cup Range(q)
  <2>1. ASSUME NEW x \in Range(p \o q) PROVE x \in Range(p) \cup Range(q)
    <3>1. PICK i \in 1 .. Len(p) + Len(q) : x = (p \o q)[i]
      BY <1>1 DEF Range
    <3> QED
      BY <1>1, <1>2, <1>3, <3>1
  <2>2. ASSUME NEW x \in Range(p) PROVE x \in Range(p \o q)
    <3>1. PICK i \in 1 .. Len(p) : x = p[i]
      BY <1>1 DEF Range
    <3>2. i \in DOMAIN (p \o q) /\ (p \o q)[i] = x
      BY <1>1, <1>2, <3>1
    <3> QED
      BY <3>2 DEF Range
  <2>3. ASSUME NEW x \in Range(q) PROVE x \in Range(p \o q)
    <3>1. PICK i \in 1 .. Len(q) : x = q[i]
      BY <1>1 DEF Range
    <3>2. Len(p) + i \in DOMAIN (p \o q) /\ (p \o q)[Len(p) + i] = x
      BY <1>1, <3>1
    <3> QED
      BY <3>2 DEF Range
  <2> QED
    BY <2>1, <2>2, <2>3
<1> QED
  BY <1>1, <1>4, <1>5

(* A node joins at the head. *)
LEMMA PushOnce ==
    ASSUME NEW q \in Seq(Nodes), NEW n \in Nodes, n \notin Range(q), IsInjective(q)
    PROVE  /\ IsInjective(<<n>> \o q) /\ Range(<<n>> \o q) = Range(q) \cup {n}
           /\ <<n>> \o q \in Seq(Nodes)
<1>1. <<n>> \in Seq(Nodes) /\ DOMAIN <<n>> = {1} /\ <<n>>[1] = n
  OBVIOUS
<1>2. IsInjective(<<n>>) /\ Range(<<n>>) = {n}
  BY <1>1 DEF IsInjective, Range
<1>3. Range(<<n>>) \cap Range(q) = {}
  BY <1>2
<1>4. Range(<<n>> \o q) = Range(<<n>>) \cup Range(q) /\ IsInjective(<<n>> \o q)
      /\ <<n>> \o q \in Seq(Nodes)
  BY <1>1, <1>2, <1>3, ConcatOnce
<1> QED
  BY <1>2, <1>4

(* The head leaves. *)
LEMMA TailOnce ==
    ASSUME NEW q \in Seq(Nodes), q # <<>>, IsInjective(q)
    PROVE  /\ IsInjective(Tail(q)) /\ Range(Tail(q)) = Range(q) \ {Head(q)}
           /\ Head(q) \in Range(q) /\ Head(q) \in Nodes /\ Tail(q) \in Seq(Nodes)
<1>1. /\ Len(q) \in Nat \ {0} /\ DOMAIN q = 1 .. Len(q) /\ Head(q) = q[1]
      /\ Tail(q) \in Seq(Nodes) /\ DOMAIN Tail(q) = 1 .. Len(q) - 1
      /\ \A i \in 1 .. Len(q) - 1 : Tail(q)[i] = q[i + 1]
  OBVIOUS
<1>2. 1 \in DOMAIN q /\ \A i \in 1 .. Len(q) - 1 : i + 1 \in DOMAIN q /\ i + 1 # 1
  BY <1>1
<1>3. IsInjective(Tail(q))
  <2> SUFFICES ASSUME NEW i \in 1 .. Len(q) - 1, NEW j \in 1 .. Len(q) - 1, q[i + 1] = q[j + 1]
               PROVE  i = j
    BY <1>1 DEF IsInjective
  <2>1. i + 1 = j + 1
    BY <1>2 DEF IsInjective
  <2> QED
    BY <1>1, <2>1
<1>4. Head(q) \in Range(q) /\ Head(q) \in Nodes
  BY <1>1, <1>2 DEF Range
<1>5. Range(Tail(q)) = Range(q) \ {Head(q)}
  <2>1. ASSUME NEW x \in Range(Tail(q)) PROVE x \in Range(q) \ {Head(q)}
    <3>1. PICK i \in 1 .. Len(q) - 1 : x = q[i + 1]
      BY <1>1 DEF Range
    <3> QED
      BY <1>1, <1>2, <3>1 DEF Range, IsInjective
  <2>2. ASSUME NEW x \in Range(q) \ {Head(q)} PROVE x \in Range(Tail(q))
    <3>1. PICK k \in 1 .. Len(q) : x = q[k] /\ k # 1
      BY <1>1 DEF Range
    <3>2. k - 1 \in DOMAIN Tail(q) /\ Tail(q)[k - 1] = x
      BY <1>1, <3>1
    <3> QED
      BY <3>2 DEF Range
  <2> QED
    BY <2>1, <2>2
<1> QED
  BY <1>1, <1>3, <1>4, <1>5

(* Put together again, that is EachNodeOnce. *)
LEMMA PlacedIsOnce == IInv /\ Placed => EachNodeOnce
<1> SUFFICES ASSUME IInv, Placed PROVE EachNodeOnce
  OBVIOUS
<1> DEFINE held == <<curr_cmd, unlinked, prepared>>
<1>a. cmd_free_q \in Seq(Nodes) /\ cmd_pending_q \in Seq(Nodes)
  BY DEF IInv, Types, QueueTypes
<1>1. /\ IsInjective(cmd_free_q \o cmd_pending_q)
      /\ Range(cmd_free_q \o cmd_pending_q) = Range(cmd_free_q) \cup Range(cmd_pending_q)
  BY <1>a, ConcatOnce DEF Placed
<1>2. Range(held) = {curr_cmd, unlinked, prepared}
  <2>1. DOMAIN held = 1 .. 3 /\ held[1] = curr_cmd /\ held[2] = unlinked /\ held[3] = prepared
    OBVIOUS
  <2> HIDE DEF held
  <2>2. 1 .. 3 = {1, 2, 3}
    OBVIOUS
  <2> QED
    BY <2>1, <2>2 DEF Range
<1>3. \A i, j \in 1 .. 3 : held[i] = held[j] /\ held[i] # NoNode => i = j
  BY DEF Placed
<1>4. Range(cmd_free_q \o cmd_pending_q) \cap Range(held) = {}
  BY <1>1, <1>2 DEF Placed
<1>5. Nodes \subseteq Range(cmd_free_q \o cmd_pending_q) \cup Range(held)
  BY <1>1, <1>2 DEF Placed
<1> QED
  BY <1>1, <1>3, <1>4, <1>5 DEF EachNodeOnce

(* At first every node is free. *)
LEMMA InitPlaced == Init => Placed
<1> SUFFICES ASSUME Init PROVE Placed
  OBVIOUS
<1> DEFINE n == Cardinality(Nodes)
<1>1. n \in Nat /\ ExistsBijection(1 .. n, Nodes)
  BY CommandAssumption, FS_CardinalityType
<1>2. PICK b : b \in Bijection(1 .. n, Nodes)
  BY <1>1 DEF ExistsBijection
<1>3. b \in [1 .. n -> Nodes] /\ IsInjective(b)
  BY <1>2 DEF Bijection, Injection
<1>4. cmd_free_q \in [1 .. n -> Nodes] /\ IsInjective(cmd_free_q)
  BY <1>3 DEF Init, SetToSeq
<1>5. Nodes \subseteq Range(cmd_free_q)
  <2>1. IsFiniteSet(1 .. n) /\ Cardinality(1 .. n) = n
    BY <1>1, FS_Interval
  <2>2. cmd_free_q \in Injection(1 .. n, Nodes)
    BY <1>4 DEF Injection
  <2>3. Range(cmd_free_q) \subseteq Nodes /\ cmd_free_q \in Bijection(1 .. n, Range(cmd_free_q))
    BY <1>4 DEF Range, Bijection, Injection, Surjection
  <2>4. IsFiniteSet(Range(cmd_free_q)) /\ Cardinality(Range(cmd_free_q)) = n
    <3>1. ExistsBijection(1 .. n, Range(cmd_free_q))
      BY <2>3 DEF ExistsBijection
    <3> QED
      BY <2>1, <3>1, FS_Bijection
  <2> QED
    BY <2>3, <2>4, CommandAssumption, FS_Subset
<1>6. Range(cmd_free_q) \subseteq Nodes
  BY <1>4 DEF Range
<1>7. Range(cmd_pending_q) = {} /\ IsInjective(cmd_pending_q)
  BY DEF Init, Range, IsInjective
<1> QED
  BY <1>4, <1>5, <1>6, <1>7, CommandAssumption DEF Init, Placed

(* The current node goes back to the free queue. *)
LEMMA FreeCurrPlaced ==
    ASSUME IInv, Placed, curr_cmd # NoNode, NEW t, NEW l, FreeCurr(t, l),
           UNCHANGED <<unlinked, prepared>>
    PROVE  Placed'
<1>a. /\ curr_cmd \in Nodes /\ cmd_free_q \in Seq(Nodes)
      /\ curr_cmd \notin Range(cmd_free_q) /\ IsInjective(cmd_free_q)
  BY DEF IInv, Types, LocalTypes, QueueTypes, Placed
<1>1. cmd_free_q' = Append(cmd_free_q, curr_cmd) /\ curr_cmd' = NoNode
      /\ cmd_pending_q' = cmd_pending_q
  BY DEF FreeCurr
<1>2. IsInjective(cmd_free_q') /\ Range(cmd_free_q') = Range(cmd_free_q) \cup {curr_cmd}
  BY <1>a, <1>1, AppendOnce
<1>3. NoNode \notin Range(cmd_free_q) \cup Range(cmd_pending_q)
  BY CommandAssumption DEF IInv, Types, QueueTypes, Range
<1> QED
  BY <1>1, <1>2, <1>3 DEF Placed

(* Canceled nodes go from the pending to the free queue. *)
LEMMA CancelPlaced ==
    ASSUME IInv, Placed, NEW Out \in SUBSET Nodes, NEW S, NEW mark, Cancel(Out, S, mark),
           UNCHANGED <<curr_cmd, unlinked, prepared>>
    PROVE  Placed'
<1>a. cmd_free_q \in Seq(Nodes) /\ cmd_pending_q \in Seq(Nodes)
  BY DEF IInv, Types, QueueTypes
<1>b. Range(cmd_pending_q) \subseteq Nodes /\ Range(cmd_free_q) \subseteq Nodes
  BY <1>a DEF Range
<1>1. /\ Range(cmd_pending_q') = Range(cmd_pending_q) \cap (Nodes \ Out)
      /\ IsInjective(cmd_pending_q')
  BY <1>a, SelectedTyped DEF Cancel, Placed
<1>2. PICK q \in Selected(cmd_pending_q, Out) : cmd_free_q' = cmd_free_q \o q
  BY DEF Cancel
<1>3. q \in Seq(Nodes) /\ Range(q) = Range(cmd_pending_q) \cap Out /\ IsInjective(q)
  BY <1>a, SelectedTyped DEF Placed
<1>4. Range(cmd_free_q) \cap Range(q) = {}
  BY <1>3 DEF Placed
<1>5. IsInjective(cmd_free_q') /\ Range(cmd_free_q') = Range(cmd_free_q) \cup Range(q)
  BY <1>a, <1>2, <1>3, <1>4, ConcatOnce DEF Placed
<1> QED
  BY <1>b, <1>1, <1>3, <1>5 DEF Placed

(* Every step moves a node from one place to another, or none. *)
LEMMA PlacedKept == IInv /\ Placed /\ [Next]_vars => Placed'
<1> SUFFICES ASSUME IInv, Placed, [Next]_vars PROVE Placed'
  OBVIOUS
<1>a. /\ cmd_free_q \in Seq(Nodes) /\ cmd_pending_q \in Seq(Nodes)
      /\ curr_cmd \in Nodes \cup {NoNode} /\ unlinked \in Nodes \cup {NoNode}
      /\ prepared \in Nodes \cup {NoNode} /\ NoNode \notin Nodes /\ NoReq \notin Reqs
  BY CommandAssumption DEF IInv, Types, QueueTypes, LocalTypes
<1>b. Range(cmd_pending_q) \subseteq Nodes /\ Range(cmd_free_q) \subseteq Nodes
  BY <1>a DEF Range
<1>c. IsInjective(cmd_free_q) /\ IsInjective(cmd_pending_q)
  BY DEF Placed
<1>0. ASSUME UNCHANGED <<cmd_free_q, cmd_pending_q, curr_cmd, unlinked, prepared>> PROVE Placed'
  BY <1>0 DEF Placed
<1>1. ASSUME NEW r \in Reqs, GetCmdNode(r) PROVE Placed'
  <2>1. CASE cmd_free_q = <<>>
    BY <1>0, <1>1, <2>1 DEF GetCmdNode, locals
  <2>2. CASE cmd_free_q # <<>>
    <3>1. prepared = NoNode /\ prepared' = Head(cmd_free_q) /\ cmd_free_q' = Tail(cmd_free_q)
          /\ UNCHANGED <<cmd_pending_q, curr_cmd, unlinked>>
      BY <1>1, <2>2 DEF GetCmdNode, IInv, Standing, locals
    <3>2. /\ IsInjective(cmd_free_q') /\ Range(cmd_free_q') = Range(cmd_free_q) \ {prepared'}
          /\ prepared' \in Range(cmd_free_q)
      BY <1>a, <1>c, <2>2, <3>1, TailOnce
    <3> QED
      BY <1>a, <1>b, <3>1, <3>2 DEF Placed
  <2> QED
    BY <2>1, <2>2
<1>2. ASSUME NEW r \in Reqs, QueueCmd(r) PROVE Placed'
  <2>1. /\ prepared \in Nodes /\ prepared' = NoNode /\ UNCHANGED <<cmd_free_q, curr_cmd, unlinked>>
        /\ cmd_pending_q' \in {<<prepared>> \o cmd_pending_q, Append(cmd_pending_q, prepared)}
    BY <1>a, <1>2 DEF QueueCmd, IInv, Standing, locals
  <2>2. prepared \notin Range(cmd_pending_q)
    BY DEF Placed
  <2>3. IsInjective(cmd_pending_q') /\ Range(cmd_pending_q') = Range(cmd_pending_q) \cup {prepared}
    <3>1. CASE cmd_pending_q' = <<prepared>> \o cmd_pending_q
      BY <1>a, <1>c, <2>1, <2>2, <3>1, PushOnce
    <3>2. CASE cmd_pending_q' = Append(cmd_pending_q, prepared)
      BY <1>a, <1>c, <2>1, <2>2, <3>2, AppendOnce
    <3> QED
      BY <2>1, <3>1, <3>2
  <2> QED
    BY <1>a, <1>b, <2>1, <2>3 DEF Placed
<1>3. ASSUME NEW r \in Reqs, PrepareFails(r) PROVE Placed'
  <2>1. /\ prepared \in Nodes /\ prepared' = NoNode /\ UNCHANGED <<cmd_pending_q, curr_cmd, unlinked>>
        /\ cmd_free_q' = Append(cmd_free_q, prepared)
    BY <1>a, <1>3 DEF PrepareFails, IInv, Standing, locals
  <2>2. prepared \notin Range(cmd_free_q)
    BY DEF Placed
  <2>3. IsInjective(cmd_free_q') /\ Range(cmd_free_q') = Range(cmd_free_q) \cup {prepared}
    BY <1>a, <1>c, <2>1, <2>2, AppendOnce
  <2> QED
    BY <1>a, <1>b, <2>1, <2>3 DEF Placed
<1>4. CASE RespCanceled
  <2>1. curr_cmd # NoNode /\ UNCHANGED <<unlinked, prepared>>
    BY <1>4 DEF RespCanceled, LoopRest, IInv, Standing, InHand
  <2>2. CASE node[curr_cmd].canceled
    BY <1>4, <2>1, <2>2, FreeCurrPlaced DEF RespCanceled
  <2>3. CASE ~node[curr_cmd].canceled
    BY <1>0, <1>4, <2>1, <2>3 DEF RespCanceled, queues
  <2> QED
    BY <2>2, <2>3
<1>5. CASE RespDone
  <2>1. curr_cmd # NoNode /\ UNCHANGED <<unlinked, prepared>>
    BY <1>5 DEF RespDone, LoopRest, IInv, Standing, InHand
  <2>2. \E t, l : FreeCurr(t, l)
    BY <1>5 DEF RespDone
  <2> QED
    BY <2>1, <2>2, FreeCurrPlaced
<1>6. CASE DnldFails
  <2>1. curr_cmd # NoNode /\ UNCHANGED <<unlinked, prepared>>
    BY <1>6 DEF DnldFails, LoopRest, locals, IInv, Standing, Sending
  <2> QED
    BY <1>6, <2>1, FreeCurrPlaced DEF DnldFails
<1>7. CASE RespAsleep
  <2>1. /\ curr_cmd \in Nodes /\ curr_cmd' = NoNode /\ UNCHANGED <<cmd_free_q, prepared, unlinked>>
        /\ cmd_pending_q' = <<curr_cmd>> \o cmd_pending_q
    BY <1>a, <1>7 DEF RespAsleep, IInv, Standing, InHand
  <2>2. curr_cmd \notin Range(cmd_pending_q)
    BY DEF Placed
  <2>3. IsInjective(cmd_pending_q') /\ Range(cmd_pending_q') = Range(cmd_pending_q) \cup {curr_cmd}
    BY <1>a, <1>c, <2>1, <2>2, PushOnce
  <2> QED
    BY <1>a, <1>b, <2>1, <2>3 DEF Placed
<1>8. CASE ExecNext
  <2>1. UNCHANGED <<cmd_free_q, curr_cmd, prepared>> /\ unlinked = NoNode
    BY <1>8 DEF ExecNext, LoopRest, IInv, Standing
  <2>2. CASE ~cmd_sent /\ curr_cmd = NoNode /\ cmd_pending_q # <<>>
    <3>1. unlinked' = Head(cmd_pending_q) /\ cmd_pending_q' = Tail(cmd_pending_q)
      BY <1>8, <2>2 DEF ExecNext
    <3>2. /\ IsInjective(cmd_pending_q') /\ Range(cmd_pending_q') = Range(cmd_pending_q) \ {unlinked'}
          /\ unlinked' \in Range(cmd_pending_q)
      BY <1>a, <1>c, <2>2, <3>1, TailOnce
    <3> QED
      BY <1>a, <1>b, <2>1, <3>1, <3>2 DEF Placed
  <2>3. CASE ~(~cmd_sent /\ curr_cmd = NoNode /\ cmd_pending_q # <<>>)
    BY <1>0, <1>8, <2>1, <2>3 DEF ExecNext
  <2> QED
    BY <2>2, <2>3
<1>9. CASE DnldSet
  <2>1. curr_cmd = NoNode /\ curr_cmd' = unlinked /\ unlinked' = NoNode
        /\ UNCHANGED <<cmd_free_q, cmd_pending_q, prepared>>
    BY <1>9 DEF DnldSet, LoopRest, IInv, Standing
  <2> QED
    BY <1>a, <1>b, <2>1 DEF Placed
<1>10. CASE RemoveBss
  <2>1. Pending(BssReqs) \subseteq Nodes
    BY <1>b DEF Pending
  <2> QED
    BY <1>10, <2>1, CancelPlaced DEF RemoveBss, locals
<1>11. CASE HangWork
  BY <1>b, <1>11, CancelPlaced DEF HangWork, locals
<1>12. ASSUME \/ \E r \in Reqs : Request(r) \/ KickMain(r) \/ Wait(r) \/ GiveUp(r)
              \/ MainWork \/ LoopTop \/ LoopResp \/ RespRead \/ RespStop \/ RespSync
              \/ RespHandle \/ DnldSend \/ DnldTimer \/ Exit
              \/ CardAnswers \/ CardDies \/ Response \/ Expire \/ Callback \/ Recovery
              \/ UNCHANGED vars
       PROVE  Placed'
  BY <1>0, <1>12, RecoveryRest DEF HangRest, Request, KickMain, Wait, GiveUp, MainWork, Enter, LoopTop,
     LoopResp, RespRead, RespStop, RespSync, RespHandle, DnldSend, DnldTimer,
     Exit, CardAnswers, CardDies, Response, RespTake, RespSignal, RespEnter,
     Expire, Callback, CbStart, CbLook, CbCount, CbRead, CbMark, CbEvent,
     ReqRest, LoopRest, BusRest, CbRest, vars, reqs, queues, locals
<1> QED
  BY <1>1, <1>2, <1>3, <1>4, <1>5, <1>6, <1>7, <1>8, <1>9, <1>10, <1>11, <1>12
     DEF Next, Thread, Loop

-----------------------------------------------------------------------------
(* The copies are right and nothing was touched, or contexts overlapped. *)
Touches == CopiesFresh /\ TouchesLiveUnlessRaced

(* Nothing happens to the copies while the current node keeps its request. *)
LEMMA CopiesStay ==
    ASSUME IInv, Timed, Touches,
           curr_cmd \in Nodes => node'[curr_cmd].pioctl = node[curr_cmd].pioctl,
           UNCHANGED <<curr_cmd, pioctl_buf, cb_node, cb_req, raced, wrong>>
    PROVE  Touches'
<1>1. ~raced /\ (pioctl_buf # NoReq \/ cb_req # NoReq) => curr_cmd \in Nodes
  BY DEF IInv, Types, LocalTypes, Standing, Timed
<1> QED
  BY <1>1 DEF Touches, CopiesFresh, TouchesLiveUnlessRaced

(* A cancel finds its requests alive; one that takes the request of a      *)
(* response in hand, or of a command that times out, is an overlap.        *)
LEMMA CancelTouches ==
    ASSUME IInv, Timed, Borne, Placed, Touches, NEW S \in SUBSET Reqs,
           NEW Out \in SUBSET Range(cmd_pending_q), NEW mark \in BOOLEAN,
           Cancel(Out, S, mark), UNCHANGED <<curr_cmd, pioctl_buf, cb, cb_node, cb_req>>
    PROVE  Touches'
<1>a. /\ Range(cmd_pending_q) \subseteq Nodes /\ node \in [Nodes -> NodeSort]
      /\ \A n \in Nodes : node[n].pioctl \in Reqs \cup {NoReq}
      /\ curr_cmd \in Nodes \cup {NoNode} /\ NoReq \notin Reqs /\ NoNode \notin Nodes
      /\ raced \in BOOLEAN
  BY CommandAssumption DEF IInv, Types, QueueTypes, LocalTypes, NodeTypes,
     NodeSort, Range, HistoryTypes
<1> DEFINE canceled == S \cap ({CurrReq} \cup {node[n].pioctl : n \in Out})
<1>1. \A r \in canceled : req[r].live
  <2>1. ASSUME NEW r \in canceled PROVE \E n \in Nodes : node[n].pioctl = r
    BY <1>a DEF CurrReq
  <2> QED
    BY <1>a, <2>1 DEF Borne
<1>2. wrong' = wrong
  BY <1>1 DEF Cancel, Touching
<1>3. raced' <=> (raced \/ pioctl_buf \in canceled \/ (cb # "off" /\ CurrReq \in canceled))
  BY <1>a DEF Cancel
<1>4. curr_cmd \notin Out
  BY DEF Placed
<1>5. curr_cmd \in Nodes /\ CurrReq \notin canceled => node'[curr_cmd] = node[curr_cmd]
  BY <1>4 DEF Cancel
<1> HIDE DEF canceled
<1>6. ASSUME ~raced' PROVE ~raced /\ CopiesFresh'
  <2>1. ~raced /\ pioctl_buf \notin canceled
    BY <1>3, <1>6
  <2>2. pioctl_buf # NoReq => curr_cmd \in Nodes /\ pioctl_buf = CurrReq
    BY <1>a, <2>1 DEF Touches, CopiesFresh, IInv, Standing, CurrReq
  <2>3. CurrReq \in canceled => pioctl_buf = NoReq /\ cb = "off"
    BY <1>3, <1>6, <2>1, <2>2
  <2>4. cb_req # NoReq => cb = "mark"
    BY DEF IInv, Standing
  <2>5. cb_req # NoReq => curr_cmd \in Nodes
    BY <1>a, <2>1, <2>4 DEF Timed
  <2>6. CASE CurrReq \in canceled
    <3>1. pioctl_buf = NoReq /\ cb_node = NoNode /\ cb_req = NoReq
      BY <2>3, <2>6 DEF IInv, Standing
    <3> QED
      BY <2>1, <3>1 DEF CopiesFresh
  <2>7. CASE CurrReq \notin canceled
    BY <1>5, <2>1, <2>2, <2>5, <2>7 DEF Touches, CopiesFresh
  <2> QED
    BY <2>1, <2>6, <2>7
<1> QED
  BY <1>2, <1>6 DEF Touches, CopiesFresh, TouchesLiveUnlessRaced

(* Every step that touches a request. *)
LEMMA TouchesKept == IInv /\ Timed /\ Borne /\ Placed /\ Touches /\ [Next]_vars => Touches'
<1> SUFFICES ASSUME IInv, Timed, Borne, Placed, Touches, [Next]_vars PROVE Touches'
  OBVIOUS
<1> USE DEF ReqRest, LoopRest, BusRest, CbRest, reqs, queues, proc, locals,
           bus, clock, recovery, history
<1>2. ASSUME NEW r \in Reqs, GetCmdNode(r) PROVE Touches'
  <2>1. UNCHANGED <<curr_cmd, pioctl_buf, cb_node, cb_req, raced, wrong>>
    BY <1>2 DEF GetCmdNode
  <2>2. CASE cmd_free_q = <<>>
    BY <1>2, <2>1, <2>2, CopiesStay DEF GetCmdNode
  <2>3. CASE cmd_free_q # <<>>
    <3>1. node' = [node EXCEPT ![Head(cmd_free_q)] = [CleanNode EXCEPT !.pioctl = r]]
      BY <1>2, <2>3 DEF GetCmdNode
    <3>2. Head(cmd_free_q) # curr_cmd
      BY <2>3, TailOnce DEF IInv, Types, QueueTypes, Placed
    <3> QED
      BY <2>1, <3>1, <3>2, CopiesStay DEF IInv, Types, NodeTypes
  <2> QED
    BY <2>2, <2>3
<1>6. ASSUME NEW r \in Reqs, PrepareFails(r) PROVE Touches'
  <2>1. UNCHANGED <<curr_cmd, pioctl_buf, cb_node, cb_req, raced, wrong>>
        /\ node' = [node EXCEPT ![prepared] = CleanNode]
    BY <1>6 DEF PrepareFails
  <2>2. curr_cmd \in Nodes => curr_cmd # prepared
    BY CommandAssumption DEF Placed
  <2> QED
    BY <2>1, <2>2, CopiesStay DEF IInv, Types, NodeTypes
<1>36. CASE RemoveBss
  <2>1. BssReqs \subseteq Reqs /\ Pending(BssReqs) \subseteq Range(cmd_pending_q)
    BY CommandAssumption DEF Pending
  <2> QED
    BY <1>36, <2>1, CancelTouches DEF RemoveBss
<1> USE CommandAssumption DEF IInv, Types, LocalTypes, NodeTypes, NodeSort,
           Standing, InHand, Sending, Timed, Touches, CopiesFresh,
           TouchesLiveUnlessRaced, Touching, Borne, HistoryTypes
<1>1. ASSUME NEW r \in Reqs, Request(r) PROVE Touches'
  BY <1>1 DEF Request
<1>3. ASSUME NEW r \in Reqs, QueueCmd(r) PROVE Touches'
  BY <1>3 DEF QueueCmd
<1>4. ASSUME NEW r \in Reqs, KickMain(r) PROVE Touches'
  BY <1>4 DEF KickMain
<1>5. ASSUME NEW r \in Reqs, Wait(r) PROVE Touches'
  BY <1>5 DEF Wait
<1>7. ASSUME NEW r \in Reqs, GiveUp(r) PROVE Touches'
  BY <1>7 DEF GiveUp
<1>8. CASE LoopTop
  BY <1>8 DEF LoopTop
<1>9. CASE LoopResp
  BY <1>9 DEF LoopResp
<1>10. CASE RespRead
  BY <1>10 DEF RespRead
<1>11. CASE RespStop
  BY <1>11 DEF RespStop
<1>12. CASE RespSync
  BY <1>12 DEF RespSync
<1>13. CASE RespCanceled
  BY <1>13 DEF RespCanceled, FreeCurr
<1>14. CASE RespHandle
  BY <1>14 DEF RespHandle
<1>15. CASE RespDone
  BY <1>15 DEF RespDone, FreeCurr
<1>16. CASE ExecNext
  BY <1>16 DEF ExecNext
<1>17. CASE DnldSet
  BY <1>17 DEF DnldSet
<1>18. CASE DnldSend
  BY <1>18 DEF DnldSend
<1>19. CASE DnldTimer
  BY <1>19 DEF DnldTimer
<1>20. CASE Exit
  BY <1>20 DEF Exit
<1>21. CASE MainWork
  BY <1>21 DEF MainWork, Enter
<1>22. CASE RespAsleep
  BY <1>22 DEF RespAsleep
<1>23. CASE DnldFails
  BY <1>23 DEF DnldFails, FreeCurr
<1>24. CASE CardAnswers
  BY <1>24 DEF CardAnswers
<1>25. CASE CardDies
  BY <1>25 DEF CardDies
<1>26. CASE RespTake
  BY <1>26 DEF RespTake
<1>27. CASE RespSignal
  BY <1>27 DEF RespSignal
<1>28. CASE RespEnter
  BY <1>28 DEF RespEnter, Enter
<1>29. CASE Expire
  BY <1>29 DEF Expire
<1>30. CASE CbStart
  BY <1>30 DEF CbStart
<1>31. CASE CbLook
  BY <1>31 DEF CbLook
<1>32. CASE CbCount
  BY <1>32 DEF CbCount
<1>33. CASE CbRead
  BY <1>33 DEF CbRead
<1>34. CASE CbMark
  BY <1>34 DEF CbMark
<1>35. CASE CbEvent
  BY <1>35 DEF CbEvent
<1>37. CASE HangWork
  BY <1>37, CancelTouches DEF HangWork
<1>38. CASE UNCHANGED vars
  BY <1>38 DEF vars
<1>39. CASE Recovery
  BY <1>39, RecoveryRest DEF HangRest
<1> HIDE DEF IInv, Types, LocalTypes, NodeTypes, NodeSort, Standing, InHand,
           Sending, Timed, Touches, CopiesFresh, TouchesLiveUnlessRaced,
           Touching, Borne, HistoryTypes
<1> QED
  BY <1>1, <1>2, <1>3, <1>4, <1>5, <1>6, <1>7, <1>8, <1>9, <1>10, <1>11, <1>12,
     <1>13, <1>14, <1>15, <1>16, <1>17, <1>18, <1>19, <1>20, <1>21, <1>22,
     <1>23, <1>24, <1>25, <1>26, <1>27, <1>28, <1>29, <1>30, <1>31, <1>32,
     <1>33, <1>34, <1>35, <1>36, <1>37, <1>38, <1>39 DEF Next, Thread, Loop,
     Response, Callback

-----------------------------------------------------------------------------
(* One inductive invariant carries them all. *)
EngineInv == IInv /\ LeavesCovered /\ Timed /\ Borne /\ Placed /\ Touches

(* It holds at the start, ... *)
LEMMA InitHolds == Init => EngineInv
<1> SUFFICES ASSUME Init PROVE EngineInv
  OBVIOUS
<1>1. cmd_free_q \in Seq(Nodes)
  <2> DEFINE n == Cardinality(Nodes)
  <2>1. n \in Nat /\ ExistsBijection(1 .. n, Nodes)
    BY CommandAssumption, FS_CardinalityType
  <2>2. \E f \in [1 .. n -> Nodes] : IsInjective(f)
    BY <2>1 DEF ExistsBijection, Bijection, Injection
  <2>3. cmd_free_q \in [1 .. n -> Nodes]
    BY <2>2 DEF Init, SetToSeq
  <2> HIDE DEF n
  <2> QED
    BY <2>1, <2>3
<1>2. NewReq \in ReqSort /\ NewReq.at = "new" /\ NewReq.done = 0
      /\ ~NewReq.condition /\ ~NewReq.woken
  BY DEF NewReq, ReqSort
<1>3. ReqTypes /\ NodeTypes /\ QueueTypes
  BY <1>1, <1>2, CleanTyped DEF Init, ReqTypes, NodeTypes, QueueTypes
<1>4. TimerTypes /\ LocalTypes /\ HistoryTypes
  BY DEF Init, TimerTypes, TimerSort, LocalTypes, HistoryTypes
<1>9. FlagTypes
  <2>1. resent \in 0 .. MaxResends
    BY CommandAssumption DEF Init
  <2> QED
    BY <2>1 DEF Init, FlagTypes, NoHang, HangSort
<1>5. Standing
  BY <1>2, CommandAssumption DEF Init, Standing, InHand, Sending
<1>6. LeavesCovered /\ Timed
  BY DEF Init, LeavesCovered, Covered, Timed, InHand
<1>7. Borne
  BY <1>2, CleanTyped DEF Init, Borne
<1>8. Touches
  BY DEF Init, Touches, CopiesFresh, TouchesLiveUnlessRaced
<1> QED
  BY <1>3, <1>4, <1>5, <1>6, <1>7, <1>8, <1>9, InitPlaced DEF EngineInv, IInv,
     Types

(* ... every step keeps it ... *)
LEMMA NextKeeps == EngineInv /\ [Next]_vars => EngineInv'
BY StandingKept, CoveredKept, TimedKept, BorneKept, PlacedKept, TouchesKept DEF
   EngineInv

(* ... and so it always holds. *)
LEMMA EngineInvariant == Spec => []EngineInv
BY InitHolds, NextKeeps, PTL DEF Spec

(* Every variable of the command engine keeps its type. *)
THEOREM TypeCorrect == Spec => []TypeOK
<1>1. EngineInv => TypeOK
  BY DEF EngineInv, IInv, Types, ReqTypes, NodeTypes, QueueTypes, TimerTypes,
     LocalTypes, FlagTypes, HistoryTypes, ReqSort, NodeSort, TimerSort, HangSort,
     TypeOK
<1> QED
  BY <1>1, EngineInvariant, PTL

(* A node is free, pending, current, just unlinked or being prepared, and  *)
(* only one of these, whatever fails, is canceled or times out.            *)
THEOREM NodesOnce == Spec => []EachNodeOnce
<1>1. EngineInv => EachNodeOnce
  BY PlacedIsOnce DEF EngineInv
<1> QED
  BY <1>1, EngineInvariant, PTL

(* No request is completed twice, whichever of the response, a failed      *)
(* download, the removal of its BSS and the hang work come to it.          *)
THEOREM RequestsOnce == Spec => []CompletedOnce
<1>1. EngineInv => CompletedOnce
  BY DEF EngineInv, Borne, CompletedOnce
<1> QED
  BY <1>1, EngineInvariant, PTL

(* A freed request is written to, or a command missed by the callback,     *)
(* only after two contexts overlapped outside the command lock.            *)
THEOREM TouchesLive == Spec => []TouchesLiveUnlessRaced
<1>1. EngineInv => TouchesLiveUnlessRaced
  BY DEF EngineInv, Touches
<1> QED
  BY <1>1, EngineInvariant, PTL

(* A command that waits for an idle engine has a main process that runs or *)
(* is asked for, unless a failed download ended the loop.                  *)
THEOREM PendingKeepsCovered == Spec => []PendingIsCovered
<1>1. EngineInv => PendingIsCovered
  BY DEF EngineInv, IInv, Types, FlagTypes, LeavesCovered, Covered,
     PendingIsCovered
<1> QED
  BY <1>1, EngineInvariant, PTL

(* Once a command has timed out no other goes to the firmware, overlaps    *)
(* apart.                                                                  *)
THEOREM TimeoutStops == Spec => TimeoutStopsCommands
<1>1. EngineInv /\ [Next]_vars =>
        [num_cmd_timeout /\ ~raced => ~(loop = "d_send" /\ loop' = "d_timer")]_vars
  BY DEF EngineInv, Timed, Sending
<1> QED
  BY <1>1, EngineInvariant, PTL DEF Spec, TimeoutStopsCommands

=============================================================================
