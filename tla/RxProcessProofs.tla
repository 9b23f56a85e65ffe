--------------------------- MODULE RxProcessProofs ---------------------------
(***************************************************************************)
(* Blocking the receive process keeps it off the tables, a freed table has *)
(* a silent timer, and a held frame has somebody to see to it, for any     *)
(* number of packets, operations and any budget.  One inductive invariant, *)
(* IInv, serves the first two; the third adds HInv to it.                  *)
(***************************************************************************)
EXTENDS RxProcess, TLAPS

(* The positions of mlan_rx_process between its two uses of the lock. *)
Running ==
    rx \in {"check", "walk", "dequeue", "handle", "moved", "done", "stop",
            "restop", "unset", "start", "after", "exit"}

(* The flag says whether the process is between the two. *)
FlagIsPosition == mlan_rx_processing <=> Running

(* Past the wait, a thread whose block still stands has stopped it. *)
BlockHolds == InSection /\ rx_lock_flag => ~mlan_rx_processing

(* Nothing lifts the block of the thread that works on the table itself. *)
Deleting == blk \in {"wait", "section", "stop", "free_timer", "free",
   "unblock"}

DeleterBlocks == Deleting => rx_lock_flag

(* Past label done's test the receive process is in a table. *)
PastTest == rx \in {"moved", "done", "stop", "restop", "unset", "start"}

TableAtHand == PastTest => tbl.in_use

(* What moal_free_timer reads tells a timer that may still fire: nothing   *)
(* but CbEnd clears time_period while it can, and nothing cancels a timer  *)
(* under its callback.                                                     *)
TimerLegible ==
    ~zeroed /\ ~napi /\ (timer.armed \/ cb # "off") =>
        ~timer.is_canceled /\ timer.period

(* Freed or about to be, and until a new table exists. *)
TimerSilent ==
    ~zeroed /\ ~napi /\ (~tbl.in_use \/ blk = "free") =>
        ~timer.armed /\ cb = "off"

FreeHasTable == blk \in {"stop", "free_timer", "free"} => tbl.in_use

Shapes ==
    /\ mlan_rx_processing \in BOOLEAN /\ rx_lock_flag \in BOOLEAN
    /\ zeroed \in BOOLEAN /\ napi \in BOOLEAN
    /\ tbl \in [in_use : BOOLEAN, held : BOOLEAN, flush_data : BOOLEAN,
                timer_is_set : BOOLEAN]
    /\ timer \in [armed : BOOLEAN, is_canceled : BOOLEAN, period : BOOLEAN]

IInv ==
    /\ Shapes /\ FlagIsPosition /\ BlockHolds /\ DeleterBlocks
    /\ TableAtHand /\ TimerLegible /\ TimerSilent /\ FreeHasTable

-----------------------------------------------------------------------------

(* The receive process, position by position. *)
LEMMA RxStepPreserves == IInv /\ RxStep => IInv'
<1> SUFFICES ASSUME IInv, RxStep PROVE IInv'
  OBVIOUS
<1>1. CASE RxWork
  BY <1>1 DEF RxWork, RxRest, proc, IInv, Shapes, FlagIsPosition, BlockHolds,
     DeleterBlocks, TableAtHand, TimerLegible, TimerSilent, FreeHasTable,
     Running, PastTest, Deleting, InSection
<1>2. CASE RxEnter
  <2>1. Shapes'
    BY <1>2 DEF RxEnter, RxRest, proc, IInv, Shapes
  <2>2. FlagIsPosition'
    BY <1>2 DEF RxEnter, RxRest, proc, IInv, Shapes, FlagIsPosition, Running
  <2>3. BlockHolds'
    BY <1>2 DEF RxEnter, RxRest, proc, IInv, Shapes, BlockHolds, InSection
  <2>4. DeleterBlocks'
    BY <1>2 DEF RxEnter, RxRest, proc, IInv, DeleterBlocks, Deleting
  <2>5. TableAtHand'
    BY <1>2 DEF RxEnter, RxRest, proc, IInv, PastTest, TableAtHand
  <2>6. TimerLegible'
    BY <1>2 DEF RxEnter, RxRest, proc, IInv, TimerLegible
  <2>7. TimerSilent'
    BY <1>2 DEF RxEnter, RxRest, proc, IInv, TimerSilent
  <2>8. FreeHasTable'
    BY <1>2 DEF RxEnter, RxRest, proc, IInv, FreeHasTable
  <2> QED
    BY <2>1, <2>2, <2>3, <2>4, <2>5, <2>6, <2>7, <2>8 DEF IInv
<1>3. CASE RxCheckFlush
  BY <1>3 DEF RxCheckFlush, RxRest, proc, IInv, Shapes, FlagIsPosition,
     BlockHolds, DeleterBlocks, TableAtHand, TimerLegible, TimerSilent,
     FreeHasTable, Running, PastTest, Deleting, InSection
<1>4. CASE RxWalk
  BY <1>4 DEF RxWalk, RxRest, proc, Flushed, IInv, Shapes, FlagIsPosition,
     BlockHolds, DeleterBlocks, TableAtHand, TimerLegible, TimerSilent,
     FreeHasTable, Running, PastTest, Deleting, InSection
<1>5. CASE RxDequeue
  BY <1>5 DEF RxDequeue, RxRest, proc, IInv, Shapes, FlagIsPosition,
     BlockHolds, DeleterBlocks, TableAtHand, TimerLegible, TimerSilent,
     FreeHasTable, Running, PastTest, Deleting, InSection
<1>6. CASE RxHandle
  BY <1>6 DEF RxHandle, RxRest, proc, Flushed, IInv, Shapes, FlagIsPosition,
     BlockHolds, DeleterBlocks, TableAtHand, TimerLegible, TimerSilent,
     FreeHasTable, Running, PastTest, Deleting, InSection
<1>7. CASE RxDone
  BY <1>7 DEF RxDone, RxRest, proc, IInv, Shapes, FlagIsPosition, BlockHolds,
     DeleterBlocks, TableAtHand, TimerLegible, TimerSilent, FreeHasTable,
     Running, PastTest, Deleting, InSection
<1>8. CASE RxStop
  BY <1>8 DEF RxStop, RxRest, proc, Canceled, IInv, Shapes, FlagIsPosition,
     BlockHolds, DeleterBlocks, TableAtHand, TimerLegible, TimerSilent,
     FreeHasTable, Running, PastTest, Deleting, InSection
<1>9. CASE RxUnset
  BY <1>9 DEF RxUnset, RxRest, proc, IInv, Shapes, FlagIsPosition, BlockHolds,
     DeleterBlocks, TableAtHand, TimerLegible, TimerSilent, FreeHasTable,
     Running, PastTest, Deleting, InSection
<1>10. CASE RxStart
  BY <1>10 DEF RxStart, RxRest, proc, IInv, Shapes, FlagIsPosition, BlockHolds,
     DeleterBlocks, TableAtHand, TimerLegible, TimerSilent, FreeHasTable,
     Running, PastTest, Deleting, InSection
<1>11. CASE RxAfter
  BY <1>11 DEF RxAfter, RxRest, proc, IInv, Shapes, FlagIsPosition, BlockHolds,
     DeleterBlocks, TableAtHand, TimerLegible, TimerSilent, FreeHasTable,
     Running, PastTest, Deleting, InSection
<1>12. CASE RxExit
  <2>1. Shapes'
    BY <1>12 DEF RxExit, RxRest, proc, IInv, Shapes
  <2>2. FlagIsPosition'
    BY <1>12 DEF RxExit, RxRest, proc, IInv, Shapes, FlagIsPosition, Running
  <2>3. BlockHolds'
    BY <1>12 DEF RxExit, RxRest, proc, IInv, Shapes, FlagIsPosition, Running,
       BlockHolds, InSection
  <2>4. DeleterBlocks'
    BY <1>12 DEF RxExit, RxRest, proc, IInv, Shapes, DeleterBlocks, Deleting
  <2>5. TableAtHand'
    BY <1>12 DEF RxExit, RxRest, proc, IInv, Shapes, TableAtHand, PastTest,
       FlagIsPosition, Running, BlockHolds, InSection, DeleterBlocks, Deleting
  <2>6. TimerLegible'
    BY <1>12 DEF RxExit, RxRest, proc, IInv, Shapes, TimerLegible, TimerSilent
  <2>7. TimerSilent'
    BY <1>12 DEF RxExit, RxRest, proc, IInv, Shapes, TimerLegible, TimerSilent,
       FreeHasTable, DeleterBlocks, Deleting, BlockHolds, InSection
  <2>8. FreeHasTable'
    BY <1>12 DEF RxExit, RxRest, proc, IInv, Shapes, FreeHasTable
  <2> QED
    BY <2>1, <2>2, <2>3, <2>4, <2>5, <2>6, <2>7, <2>8 DEF IInv
<1>13. CASE RxComplete
  BY <1>13 DEF RxComplete, RxRest, proc, IInv, Shapes, FlagIsPosition,
     BlockHolds, DeleterBlocks, TableAtHand, TimerLegible, TimerSilent,
     FreeHasTable, Running, PastTest, Deleting, InSection
<1> QED
  BY <1>1, <1>2, <1>3, <1>4, <1>5, <1>6, <1>7, <1>8, <1>9, <1>10, <1>11, <1>12,
     <1>13 DEF RxStep

(* The flush timer's callback, store by store. *)
LEMMA CbStepPreserves == IInv /\ CbStep => IInv'
<1> SUFFICES ASSUME IInv, CbStep PROVE IInv'
  OBVIOUS
<1>1. CASE CbStart
  BY <1>1 DEF CbStart, CbRest, proc, IInv, Shapes, FlagIsPosition, BlockHolds,
     DeleterBlocks, TableAtHand, TimerLegible, TimerSilent, FreeHasTable,
     Running, PastTest, Deleting, InSection
<1>2. CASE CbAdapter
  BY <1>2 DEF CbAdapter, CbRest, proc, IInv, Shapes, FlagIsPosition,
     BlockHolds, DeleterBlocks, TableAtHand, TimerLegible, TimerSilent,
     FreeHasTable, Running, PastTest, Deleting, InSection
<1>3. CASE CbTable
  <2>1. Shapes'
    BY <1>3 DEF CbTable, CbRest, proc, IInv, Shapes
  <2>2. FlagIsPosition'
    BY <1>3 DEF CbTable, CbRest, proc, IInv, Shapes, FlagIsPosition, Running
  <2>3. BlockHolds'
    BY <1>3 DEF CbTable, CbRest, proc, IInv, Shapes, FlagIsPosition, Running,
       BlockHolds, InSection
  <2>4. DeleterBlocks'
    BY <1>3 DEF CbTable, CbRest, proc, IInv, Shapes, DeleterBlocks, Deleting
  <2>5. TableAtHand'
    BY <1>3 DEF CbTable, CbRest, proc, IInv, Shapes, TableAtHand, PastTest,
       FlagIsPosition, Running, BlockHolds, InSection, DeleterBlocks, Deleting
  <2>6. TimerLegible'
    BY <1>3 DEF CbTable, CbRest, proc, IInv, Shapes, TimerLegible, TimerSilent
  <2>7. TimerSilent'
    BY <1>3 DEF CbTable, CbRest, proc, IInv, Shapes, TimerLegible, TimerSilent,
       FreeHasTable, DeleterBlocks, Deleting, BlockHolds, InSection
  <2>8. FreeHasTable'
    BY <1>3 DEF CbTable, CbRest, proc, IInv, Shapes, FreeHasTable
  <2> QED
    BY <2>1, <2>2, <2>3, <2>4, <2>5, <2>6, <2>7, <2>8 DEF IInv
<1>4. CASE CbUnset
  <2>1. Shapes'
    BY <1>4 DEF CbUnset, CbRest, proc, IInv, Shapes
  <2>2. FlagIsPosition'
    BY <1>4 DEF CbUnset, CbRest, proc, IInv, Shapes, FlagIsPosition, Running
  <2>3. BlockHolds'
    BY <1>4 DEF CbUnset, CbRest, proc, IInv, Shapes, FlagIsPosition, Running,
       BlockHolds, InSection
  <2>4. DeleterBlocks'
    BY <1>4 DEF CbUnset, CbRest, proc, IInv, Shapes, DeleterBlocks, Deleting
  <2>5. TableAtHand'
    BY <1>4 DEF CbUnset, CbRest, proc, IInv, Shapes, TableAtHand, PastTest,
       FlagIsPosition, Running, BlockHolds, InSection, DeleterBlocks, Deleting
  <2>6. TimerLegible'
    BY <1>4 DEF CbUnset, CbRest, proc, IInv, Shapes, TimerLegible, TimerSilent
  <2>7. TimerSilent'
    BY <1>4 DEF CbUnset, CbRest, proc, IInv, Shapes, TimerLegible, TimerSilent,
       FreeHasTable, DeleterBlocks, Deleting, BlockHolds, InSection
  <2>8. FreeHasTable'
    BY <1>4 DEF CbUnset, CbRest, proc, IInv, Shapes, FreeHasTable
  <2> QED
    BY <2>1, <2>2, <2>3, <2>4, <2>5, <2>6, <2>7, <2>8 DEF IInv
<1>5. CASE CbEvent
  BY <1>5 DEF CbEvent, CbRest, proc, IInv, Shapes, FlagIsPosition, BlockHolds,
     DeleterBlocks, TableAtHand, TimerLegible, TimerSilent, FreeHasTable,
     Running, PastTest, Deleting, InSection
<1>6. CASE CbEnd
  <2>1. Shapes'
    BY <1>6 DEF CbEnd, CbRest, proc, IInv, Shapes
  <2>2. FlagIsPosition'
    BY <1>6 DEF CbEnd, CbRest, proc, IInv, Shapes, FlagIsPosition, Running
  <2>3. BlockHolds'
    BY <1>6 DEF CbEnd, CbRest, proc, IInv, Shapes, FlagIsPosition, Running,
       BlockHolds, InSection
  <2>4. DeleterBlocks'
    BY <1>6 DEF CbEnd, CbRest, proc, IInv, Shapes, DeleterBlocks, Deleting
  <2>5. TableAtHand'
    BY <1>6 DEF CbEnd, CbRest, proc, IInv, Shapes, TableAtHand, PastTest,
       FlagIsPosition, Running, BlockHolds, InSection, DeleterBlocks, Deleting
  <2>6. TimerLegible'
    BY <1>6 DEF CbEnd, CbRest, proc, IInv, Shapes, TimerLegible, TimerSilent
  <2>7. TimerSilent'
    BY <1>6 DEF CbEnd, CbRest, proc, IInv, Shapes, TimerLegible, TimerSilent,
       FreeHasTable, DeleterBlocks, Deleting, BlockHolds, InSection
  <2>8. FreeHasTable'
    BY <1>6 DEF CbEnd, CbRest, proc, IInv, Shapes, FreeHasTable
  <2> QED
    BY <2>1, <2>2, <2>3, <2>4, <2>5, <2>6, <2>7, <2>8 DEF IInv
<1> QED
  BY <1>1, <1>2, <1>3, <1>4, <1>5, <1>6 DEF CbStep

(* The blocking thread: the wait, the table's end, the release. *)
LEMMA BlkStepPreserves == IInv /\ BlkStep => IInv'
<1> SUFFICES ASSUME IInv, BlkStep PROVE IInv'
  OBVIOUS
<1>1. CASE Block
  BY <1>1 DEF Block, BlkRest, proc, InnerStart, IInv, Shapes, FlagIsPosition,
     BlockHolds, DeleterBlocks, TableAtHand, TimerLegible, TimerSilent,
     FreeHasTable, Running, PastTest, Deleting, InSection
<1>2. CASE FlushRxWork
  BY <1>2 DEF FlushRxWork, BlkRest, proc, InnerStart, IInv, Shapes,
     FlagIsPosition, BlockHolds, DeleterBlocks, TableAtHand, TimerLegible,
     TimerSilent, FreeHasTable, Running, PastTest, Deleting, InSection
<1>3. CASE Create
  BY <1>3 DEF Create, BlkRest, proc, NewTable, NewTimer, IInv, Shapes,
     FlagIsPosition, BlockHolds, DeleterBlocks, TableAtHand, TimerLegible,
     TimerSilent, FreeHasTable, Running, PastTest, Deleting, InSection
<1>4. CASE Dispatch
  BY <1>4 DEF Dispatch, BlkRest, proc, IInv, Shapes, FlagIsPosition,
     BlockHolds, DeleterBlocks, TableAtHand, TimerLegible, TimerSilent,
     FreeHasTable, Running, PastTest, Deleting, InSection
<1>5. CASE StopTimer
  BY <1>5 DEF StopTimer, BlkRest, proc, Canceled, IInv, Shapes, FlagIsPosition,
     BlockHolds, DeleterBlocks, TableAtHand, TimerLegible, TimerSilent,
     FreeHasTable, Running, PastTest, Deleting, InSection
<1>6. CASE FreeTimer
  <2>1. Shapes'
    <3>1. timer' = Canceled \/ timer' = timer
      BY <1>6 DEF FreeTimer
    <3>2. timer' \in [armed : BOOLEAN, is_canceled : BOOLEAN, period : BOOLEAN]
      <4>1. CASE timer' = Canceled
        BY <4>1 DEF Canceled
      <4>2. CASE timer' = timer
        BY <4>2 DEF IInv, Shapes
      <4> QED
        BY <3>1, <4>1, <4>2
    <3> QED
      BY <1>6, <3>2 DEF FreeTimer, BlkRest, proc, IInv, Shapes
  <2>2. FlagIsPosition'
    BY <1>6 DEF FreeTimer, BlkRest, proc, Canceled, IInv, Shapes,
       FlagIsPosition, Running
  <2>3. BlockHolds'
    BY <1>6 DEF FreeTimer, BlkRest, proc, Canceled, IInv, Shapes,
       FlagIsPosition, Running, BlockHolds, InSection
  <2>4. DeleterBlocks'
    BY <1>6 DEF FreeTimer, BlkRest, proc, Canceled, IInv, Shapes,
       DeleterBlocks, Deleting
  <2>5. TableAtHand'
    BY <1>6 DEF FreeTimer, BlkRest, proc, Canceled, IInv, Shapes, TableAtHand,
       PastTest, FlagIsPosition, Running, BlockHolds, InSection, DeleterBlocks,
       Deleting
  <2>6. TimerLegible'
    BY <1>6 DEF FreeTimer, BlkRest, proc, Canceled, IInv, Shapes, TimerLegible,
       TimerSilent
  <2>7. TimerSilent'
    BY <1>6 DEF FreeTimer, BlkRest, proc, Canceled, IInv, Shapes, TimerLegible,
       TimerSilent, FreeHasTable, DeleterBlocks, Deleting, BlockHolds,
       InSection
  <2>8. FreeHasTable'
    BY <1>6 DEF FreeTimer, BlkRest, proc, Canceled, IInv, Shapes, FreeHasTable
  <2> QED
    BY <2>1, <2>2, <2>3, <2>4, <2>5, <2>6, <2>7, <2>8 DEF IInv
<1>7. CASE Free
  BY <1>7 DEF Free, BlkRest, proc, IInv, Shapes, FlagIsPosition, BlockHolds,
     DeleterBlocks, TableAtHand, TimerLegible, TimerSilent, FreeHasTable,
     Running, PastTest, Deleting, InSection
<1>8. CASE Unblock
  <2>1. Shapes'
    BY <1>8 DEF Unblock, BlkRest, proc, IInv, Shapes
  <2>2. FlagIsPosition'
    BY <1>8 DEF Unblock, BlkRest, proc, IInv, Shapes, FlagIsPosition, Running
  <2>3. BlockHolds'
    BY <1>8 DEF Unblock, BlkRest, proc, IInv, Shapes, FlagIsPosition, Running,
       BlockHolds, InSection
  <2>4. DeleterBlocks'
    BY <1>8 DEF Unblock, BlkRest, proc, IInv, Shapes, DeleterBlocks, Deleting
  <2>5. TableAtHand'
    BY <1>8 DEF Unblock, BlkRest, proc, IInv, Shapes, TableAtHand, PastTest,
       FlagIsPosition, Running, BlockHolds, InSection, DeleterBlocks, Deleting
  <2>6. TimerLegible'
    BY <1>8 DEF Unblock, BlkRest, proc, IInv, Shapes, TimerLegible, TimerSilent
  <2>7. TimerSilent'
    BY <1>8 DEF Unblock, BlkRest, proc, IInv, Shapes, TimerLegible,
       TimerSilent, FreeHasTable, DeleterBlocks, Deleting, BlockHolds,
       InSection
  <2>8. FreeHasTable'
    BY <1>8 DEF Unblock, BlkRest, proc, IInv, Shapes, FreeHasTable
  <2> QED
    BY <2>1, <2>2, <2>3, <2>4, <2>5, <2>6, <2>7, <2>8 DEF IInv
<1>9. CASE InitPriv
  BY <1>9 DEF InitPriv, BlkRest, proc, IInv, Shapes, FlagIsPosition,
     BlockHolds, DeleterBlocks, TableAtHand, TimerLegible, TimerSilent,
     FreeHasTable, Running, PastTest, Deleting, InSection
<1> QED
  BY <1>1, <1>2, <1>3, <1>4, <1>5, <1>6, <1>7, <1>8, <1>9 DEF BlkStep

(* IInv holds at load and every step keeps it. *)
LEMMA IInvInvariant == Spec => []IInv
<1>1. Init => IInv
  <2> SUFFICES ASSUME Init PROVE IInv
    OBVIOUS
  <2>1. Shapes
    BY RxProcessAssumption DEF Init, NewTable, NewTimer, Shapes
  <2>2. FlagIsPosition
    BY RxProcessAssumption DEF Init, NewTable, NewTimer, FlagIsPosition,
       Running
  <2>3. BlockHolds
    BY RxProcessAssumption DEF Init, NewTable, NewTimer, BlockHolds, InSection
  <2>4. DeleterBlocks
    BY RxProcessAssumption DEF Init, NewTable, NewTimer, DeleterBlocks,
       Deleting
  <2>5. TableAtHand
    BY RxProcessAssumption DEF Init, NewTable, NewTimer, TableAtHand, PastTest
  <2>6. TimerLegible
    BY RxProcessAssumption DEF Init, NewTable, NewTimer, TimerLegible
  <2>7. TimerSilent
    BY RxProcessAssumption DEF Init, NewTable, NewTimer, TimerSilent
  <2>8. FreeHasTable
    BY RxProcessAssumption DEF Init, NewTable, NewTimer, FreeHasTable
  <2> QED
    BY <2>1, <2>2, <2>3, <2>4, <2>5, <2>6, <2>7, <2>8 DEF IInv
<1>2. IInv /\ [Next]_vars => IInv'
  <2> SUFFICES ASSUME IInv, [Next]_vars PROVE IInv'
    OBVIOUS
  <2>1. CASE Arrive
    BY <2>1 DEF Arrive, proc, IInv, Shapes, FlagIsPosition, BlockHolds,
       DeleterBlocks, TableAtHand, TimerLegible, TimerSilent, FreeHasTable,
       Running, PastTest, Deleting, InSection
  <2>2. CASE QueueRxWork
    BY <2>2 DEF QueueRxWork, IInv, Shapes, FlagIsPosition, BlockHolds,
       DeleterBlocks, TableAtHand, TimerLegible, TimerSilent, FreeHasTable,
       Running, PastTest, Deleting, InSection
  <2>3. CASE RxStep
    BY <2>3, RxStepPreserves
  <2>4. CASE Expire
    <3>1. Shapes'
      BY <2>4 DEF Expire, CbRest, proc, IInv, Shapes
    <3>2. FlagIsPosition'
      BY <2>4 DEF Expire, CbRest, proc, IInv, Shapes, FlagIsPosition, Running
    <3>3. BlockHolds'
      BY <2>4 DEF Expire, CbRest, proc, IInv, Shapes, FlagIsPosition, Running,
         BlockHolds, InSection
    <3>4. DeleterBlocks'
      BY <2>4 DEF Expire, CbRest, proc, IInv, Shapes, DeleterBlocks, Deleting
    <3>5. TableAtHand'
      BY <2>4 DEF Expire, CbRest, proc, IInv, Shapes, TableAtHand, PastTest,
         FlagIsPosition, Running, BlockHolds, InSection, DeleterBlocks,
         Deleting
    <3>6. TimerLegible'
      BY <2>4 DEF Expire, CbRest, proc, IInv, Shapes, TimerLegible, TimerSilent
    <3>7. TimerSilent'
      BY <2>4 DEF Expire, CbRest, proc, IInv, Shapes, TimerLegible,
         TimerSilent, FreeHasTable, DeleterBlocks, Deleting, BlockHolds,
         InSection
    <3>8. FreeHasTable'
      BY <2>4 DEF Expire, CbRest, proc, IInv, Shapes, FreeHasTable
    <3> QED
      BY <3>1, <3>2, <3>3, <3>4, <3>5, <3>6, <3>7, <3>8 DEF IInv
  <2>5. CASE CbStep
    BY <2>5, CbStepPreserves
  <2>6. CASE BlkStep
    BY <2>6, BlkStepPreserves
  <2>7. CASE \E op \in Ops : Begin(op)
    BY <2>7 DEF Begin, BlkRest, proc, IInv, Shapes, FlagIsPosition, BlockHolds,
       DeleterBlocks, TableAtHand, TimerLegible, TimerSilent, FreeHasTable,
       Running, PastTest, Deleting, InSection
  <2>8. CASE UNCHANGED vars
    BY <2>8 DEF vars, proc, IInv, Shapes, FlagIsPosition, BlockHolds,
       DeleterBlocks, TableAtHand, TimerLegible, TimerSilent, FreeHasTable,
       Running, PastTest, Deleting, InSection
  <2> QED
    BY <2>1, <2>2, <2>3, <2>4, <2>5, <2>6, <2>7, <2>8 DEF Next
<1> QED
  BY <1>1, <1>2, PTL DEF Spec

(* While a thread deletes or creates a table, or re-initialises a BSS,     *)
(* with rx_lock_flag set, mlan_rx_process is not running.                  *)
THEOREM BlockKeepsQuiet == Spec => []BlockedIsQuiet
<1>1. IInv => BlockedIsQuiet
  BY DEF BlockedIsQuiet, UsesTable, IInv, FlagIsPosition, BlockHolds, Running,
         InSection
<1> QED
  BY <1>1, IInvInvariant, PTL

(* A deleted table's timer is neither enqueued nor in wlan_flush_data,     *)
(* outside NAPI and unless woal_timer_handler cleared a re-armed timer.    *)
THEOREM FreedKeepsQuiet == Spec => []FreedIsQuiet
<1>1. IInv => FreedIsQuiet
  BY DEF FreedIsQuiet, IInv, TimerSilent
<1> QED
  BY <1>1, IInvInvariant, PTL

-----------------------------------------------------------------------------
(* Held frames.  A callback that has begun will release them, unless the   *)
(* timer was cancelled under it before woal_timer_handler's own test.      *)
CallbackOnItsWay ==
    cb \in {"adapter", "table"} \/ (cb = "start" /\ ~timer.is_canceled)

(* An enqueued timer was not cancelled. *)
ArmedIsLive == timer.armed => ~timer.is_canceled

(* Between the callback's first two stores the adapter's flag is up, unless *)
(* the receive process has just consumed it.                               *)
FlagBeforeTable == cb = "table" /\ ~raced => adapter_flush

(* timer_is_set tells a timer that runs or a callback that has not yet     *)
(* cleared it, except inside the cancel that precedes its own store.       *)
SetIsTimed ==
    tbl.in_use /\ tbl.timer_is_set /\ rx \notin {"unset", "start"} =>
        timer.armed \/ CallbackOnItsWay \/ cb = "unset"

(* The timer is stopped for good only by a table with nothing held. *)
EmptyAtStop == rx \in {"stop", "unset"} => ~tbl.held
EmptyAtFree == blk \in {"stop", "free_timer", "free"} => ~tbl.held
UnsetAtFree == blk \in {"free_timer", "free"} => ~tbl.timer_is_set

(* Between label done and the next one. *)
HeldAtRest ==
    tbl.in_use /\ tbl.held /\ ~raced /\ ~PastTest /\ rx # "walk" =>
        timer.armed \/ CallbackOnItsWay \/ (tbl.flush_data /\ adapter_flush)

(* wlan_flush_rxreorder_tbl has consumed the adapter's flag already. *)
HeldInWalk ==
    tbl.in_use /\ tbl.held /\ ~raced /\ rx = "walk" =>
        timer.armed \/ CallbackOnItsWay \/ tbl.flush_data

Flags == raced \in BOOLEAN /\ adapter_flush \in BOOLEAN

HInv ==
    /\ Flags /\ ArmedIsLive /\ FlagBeforeTable /\ SetIsTimed
    /\ EmptyAtStop /\ EmptyAtFree /\ UnsetAtFree /\ HeldAtRest /\ HeldInWalk

(* The receive process: label done arms, re-arms or stops the timer. *)
LEMMA RxStepKeepsHeld == IInv /\ HInv /\ RxStep => HInv'
<1> SUFFICES ASSUME IInv, HInv, RxStep PROVE HInv'
  OBVIOUS
<1>1. CASE RxWork
  BY <1>1 DEF RxWork, RxRest, proc, IInv, HInv, Flags, ArmedIsLive,
     FlagBeforeTable, SetIsTimed, EmptyAtStop, EmptyAtFree, UnsetAtFree,
     HeldAtRest, HeldInWalk, CallbackOnItsWay, PastTest, Shapes,
     FlagIsPosition, BlockHolds, DeleterBlocks, TableAtHand, FreeHasTable,
     Running, Deleting, InSection
<1>2. CASE RxEnter
  BY <1>2 DEF RxEnter, RxRest, proc, IInv, HInv, Flags, ArmedIsLive,
     FlagBeforeTable, SetIsTimed, EmptyAtStop, EmptyAtFree, UnsetAtFree,
     HeldAtRest, HeldInWalk, CallbackOnItsWay, PastTest, Shapes,
     FlagIsPosition, BlockHolds, DeleterBlocks, TableAtHand, FreeHasTable,
     Running, Deleting, InSection
<1>3. CASE RxCheckFlush
  BY <1>3 DEF RxCheckFlush, RxRest, proc, IInv, HInv, Flags, ArmedIsLive,
     FlagBeforeTable, SetIsTimed, EmptyAtStop, EmptyAtFree, UnsetAtFree,
     HeldAtRest, HeldInWalk, CallbackOnItsWay, PastTest, Shapes,
     FlagIsPosition, BlockHolds, DeleterBlocks, TableAtHand, FreeHasTable,
     Running, Deleting, InSection
<1>4. CASE RxWalk
  BY <1>4 DEF RxWalk, Flushed, RxRest, proc, IInv, HInv, Flags, ArmedIsLive,
     FlagBeforeTable, SetIsTimed, EmptyAtStop, EmptyAtFree, UnsetAtFree,
     HeldAtRest, HeldInWalk, CallbackOnItsWay, PastTest, Shapes,
     FlagIsPosition, BlockHolds, DeleterBlocks, TableAtHand, FreeHasTable,
     Running, Deleting, InSection
<1>5. CASE RxDequeue
  BY <1>5 DEF RxDequeue, RxRest, proc, IInv, HInv, Flags, ArmedIsLive,
     FlagBeforeTable, SetIsTimed, EmptyAtStop, EmptyAtFree, UnsetAtFree,
     HeldAtRest, HeldInWalk, CallbackOnItsWay, PastTest, Shapes,
     FlagIsPosition, BlockHolds, DeleterBlocks, TableAtHand, FreeHasTable,
     Running, Deleting, InSection
<1>6. CASE RxHandle
  BY <1>6 DEF RxHandle, Flushed, RxRest, proc, IInv, HInv, Flags,
     ArmedIsLive, FlagBeforeTable, SetIsTimed, EmptyAtStop, EmptyAtFree,
     UnsetAtFree, HeldAtRest, HeldInWalk, CallbackOnItsWay, PastTest, Shapes,
     FlagIsPosition, BlockHolds, DeleterBlocks, TableAtHand, FreeHasTable,
     Running, Deleting, InSection
<1>7. CASE RxDone
  BY <1>7 DEF RxDone, RxRest, proc, IInv, HInv, Flags, ArmedIsLive,
     FlagBeforeTable, SetIsTimed, EmptyAtStop, EmptyAtFree, UnsetAtFree,
     HeldAtRest, HeldInWalk, CallbackOnItsWay, PastTest, Shapes,
     FlagIsPosition, BlockHolds, DeleterBlocks, TableAtHand, FreeHasTable,
     Running, Deleting, InSection
<1>8. CASE RxStop
  BY <1>8 DEF RxStop, Canceled, RxRest, proc, IInv, HInv, Flags,
     ArmedIsLive, FlagBeforeTable, SetIsTimed, EmptyAtStop, EmptyAtFree,
     UnsetAtFree, HeldAtRest, HeldInWalk, CallbackOnItsWay, PastTest, Shapes,
     FlagIsPosition, BlockHolds, DeleterBlocks, TableAtHand, FreeHasTable,
     Running, Deleting, InSection
<1>9. CASE RxUnset
  BY <1>9 DEF RxUnset, RxRest, proc, IInv, HInv, Flags, ArmedIsLive,
     FlagBeforeTable, SetIsTimed, EmptyAtStop, EmptyAtFree, UnsetAtFree,
     HeldAtRest, HeldInWalk, CallbackOnItsWay, PastTest, Shapes,
     FlagIsPosition, BlockHolds, DeleterBlocks, TableAtHand, FreeHasTable,
     Running, Deleting, InSection
<1>10. CASE RxStart
  BY <1>10 DEF RxStart, RxRest, proc, IInv, HInv, Flags, ArmedIsLive,
     FlagBeforeTable, SetIsTimed, EmptyAtStop, EmptyAtFree, UnsetAtFree,
     HeldAtRest, HeldInWalk, CallbackOnItsWay, PastTest, Shapes,
     FlagIsPosition, BlockHolds, DeleterBlocks, TableAtHand, FreeHasTable,
     Running, Deleting, InSection
<1>11. CASE RxAfter
  BY <1>11 DEF RxAfter, RxRest, proc, IInv, HInv, Flags, ArmedIsLive,
     FlagBeforeTable, SetIsTimed, EmptyAtStop, EmptyAtFree, UnsetAtFree,
     HeldAtRest, HeldInWalk, CallbackOnItsWay, PastTest, Shapes,
     FlagIsPosition, BlockHolds, DeleterBlocks, TableAtHand, FreeHasTable,
     Running, Deleting, InSection
<1>12. CASE RxExit
  BY <1>12 DEF RxExit, RxRest, proc, IInv, HInv, Flags, ArmedIsLive,
     FlagBeforeTable, SetIsTimed, EmptyAtStop, EmptyAtFree, UnsetAtFree,
     HeldAtRest, HeldInWalk, CallbackOnItsWay, PastTest, Shapes,
     FlagIsPosition, BlockHolds, DeleterBlocks, TableAtHand, FreeHasTable,
     Running, Deleting, InSection
<1>13. CASE RxComplete
  BY <1>13 DEF RxComplete, RxRest, proc, IInv, HInv, Flags, ArmedIsLive,
     FlagBeforeTable, SetIsTimed, EmptyAtStop, EmptyAtFree, UnsetAtFree,
     HeldAtRest, HeldInWalk, CallbackOnItsWay, PastTest, Shapes,
     FlagIsPosition, BlockHolds, DeleterBlocks, TableAtHand, FreeHasTable,
     Running, Deleting, InSection
<1> QED
  BY <1>1, <1>2, <1>3, <1>4, <1>5, <1>6, <1>7, <1>8, <1>9, <1>10, <1>11,
     <1>12, <1>13 DEF RxStep

(* The callback hands the frames from the timer to the two flags. *)
LEMMA CbStepKeepsHeld == IInv /\ HInv /\ CbStep => HInv'
<1> SUFFICES ASSUME IInv, HInv, CbStep PROVE HInv'
  OBVIOUS
<1>1. CASE CbStart
  BY <1>1 DEF CbStart, CbRest, proc, IInv, HInv, Flags, ArmedIsLive,
     FlagBeforeTable, SetIsTimed, EmptyAtStop, EmptyAtFree, UnsetAtFree,
     HeldAtRest, HeldInWalk, CallbackOnItsWay, PastTest, Shapes,
     FlagIsPosition, BlockHolds, DeleterBlocks, TableAtHand, FreeHasTable,
     Running, Deleting, InSection
<1>2. CASE CbAdapter
  BY <1>2 DEF CbAdapter, CbRest, proc, IInv, HInv, Flags, ArmedIsLive,
     FlagBeforeTable, SetIsTimed, EmptyAtStop, EmptyAtFree, UnsetAtFree,
     HeldAtRest, HeldInWalk, CallbackOnItsWay, PastTest, Shapes,
     FlagIsPosition, BlockHolds, DeleterBlocks, TableAtHand, FreeHasTable,
     Running, Deleting, InSection
<1>3. CASE CbTable
  BY <1>3 DEF CbTable, CbRest, proc, IInv, HInv, Flags, ArmedIsLive,
     FlagBeforeTable, SetIsTimed, EmptyAtStop, EmptyAtFree, UnsetAtFree,
     HeldAtRest, HeldInWalk, CallbackOnItsWay, PastTest, Shapes,
     FlagIsPosition, BlockHolds, DeleterBlocks, TableAtHand, FreeHasTable,
     Running, Deleting, InSection
<1>4. CASE CbUnset
  BY <1>4 DEF CbUnset, CbRest, proc, IInv, HInv, Flags, ArmedIsLive,
     FlagBeforeTable, SetIsTimed, EmptyAtStop, EmptyAtFree, UnsetAtFree,
     HeldAtRest, HeldInWalk, CallbackOnItsWay, PastTest, Shapes,
     FlagIsPosition, BlockHolds, DeleterBlocks, TableAtHand, FreeHasTable,
     Running, Deleting, InSection
<1>5. CASE CbEvent
  BY <1>5 DEF CbEvent, CbRest, proc, IInv, HInv, Flags, ArmedIsLive,
     FlagBeforeTable, SetIsTimed, EmptyAtStop, EmptyAtFree, UnsetAtFree,
     HeldAtRest, HeldInWalk, CallbackOnItsWay, PastTest, Shapes,
     FlagIsPosition, BlockHolds, DeleterBlocks, TableAtHand, FreeHasTable,
     Running, Deleting, InSection
<1>6. CASE CbEnd
  BY <1>6 DEF CbEnd, CbRest, proc, IInv, HInv, Flags, ArmedIsLive,
     FlagBeforeTable, SetIsTimed, EmptyAtStop, EmptyAtFree, UnsetAtFree,
     HeldAtRest, HeldInWalk, CallbackOnItsWay, PastTest, Shapes,
     FlagIsPosition, BlockHolds, DeleterBlocks, TableAtHand, FreeHasTable,
     Running, Deleting, InSection
<1> QED
  BY <1>1, <1>2, <1>3, <1>4, <1>5, <1>6 DEF CbStep

(* The blocking thread dispatches the frames before it stops the timer. *)
LEMMA BlkStepKeepsHeld == IInv /\ HInv /\ BlkStep => HInv'
<1> SUFFICES ASSUME IInv, HInv, BlkStep PROVE HInv'
  OBVIOUS
<1>1. CASE Block
  BY <1>1 DEF Block, InnerStart, BlkRest, proc, IInv, HInv, Flags,
     ArmedIsLive, FlagBeforeTable, SetIsTimed, EmptyAtStop, EmptyAtFree,
     UnsetAtFree, HeldAtRest, HeldInWalk, CallbackOnItsWay, PastTest, Shapes,
     FlagIsPosition, BlockHolds, DeleterBlocks, TableAtHand, FreeHasTable,
     Running, Deleting, InSection
<1>2. CASE FlushRxWork
  BY <1>2 DEF FlushRxWork, InnerStart, BlkRest, proc, IInv, HInv, Flags,
     ArmedIsLive, FlagBeforeTable, SetIsTimed, EmptyAtStop, EmptyAtFree,
     UnsetAtFree, HeldAtRest, HeldInWalk, CallbackOnItsWay, PastTest, Shapes,
     FlagIsPosition, BlockHolds, DeleterBlocks, TableAtHand, FreeHasTable,
     Running, Deleting, InSection
<1>3. CASE Create
  BY <1>3 DEF Create, NewTable, NewTimer, BlkRest, proc, IInv, HInv, Flags,
     ArmedIsLive, FlagBeforeTable, SetIsTimed, EmptyAtStop, EmptyAtFree,
     UnsetAtFree, HeldAtRest, HeldInWalk, CallbackOnItsWay, PastTest, Shapes,
     FlagIsPosition, BlockHolds, DeleterBlocks, TableAtHand, FreeHasTable,
     Running, Deleting, InSection
<1>4. CASE Dispatch
  BY <1>4 DEF Dispatch, BlkRest, proc, IInv, HInv, Flags, ArmedIsLive,
     FlagBeforeTable, SetIsTimed, EmptyAtStop, EmptyAtFree, UnsetAtFree,
     HeldAtRest, HeldInWalk, CallbackOnItsWay, PastTest, Shapes,
     FlagIsPosition, BlockHolds, DeleterBlocks, TableAtHand, FreeHasTable,
     Running, Deleting, InSection
<1>5. CASE StopTimer
  BY <1>5 DEF StopTimer, Canceled, BlkRest, proc, IInv, HInv, Flags,
     ArmedIsLive, FlagBeforeTable, SetIsTimed, EmptyAtStop, EmptyAtFree,
     UnsetAtFree, HeldAtRest, HeldInWalk, CallbackOnItsWay, PastTest, Shapes,
     FlagIsPosition, BlockHolds, DeleterBlocks, TableAtHand, FreeHasTable,
     Running, Deleting, InSection
<1>6. CASE FreeTimer
  BY <1>6 DEF FreeTimer, Canceled, BlkRest, proc, IInv, HInv, Flags,
     ArmedIsLive, FlagBeforeTable, SetIsTimed, EmptyAtStop, EmptyAtFree,
     UnsetAtFree, HeldAtRest, HeldInWalk, CallbackOnItsWay, PastTest, Shapes,
     FlagIsPosition, BlockHolds, DeleterBlocks, TableAtHand, FreeHasTable,
     Running, Deleting, InSection
<1>7. CASE Free
  BY <1>7 DEF Free, BlkRest, proc, IInv, HInv, Flags, ArmedIsLive,
     FlagBeforeTable, SetIsTimed, EmptyAtStop, EmptyAtFree, UnsetAtFree,
     HeldAtRest, HeldInWalk, CallbackOnItsWay, PastTest, Shapes,
     FlagIsPosition, BlockHolds, DeleterBlocks, TableAtHand, FreeHasTable,
     Running, Deleting, InSection
<1>8. CASE Unblock
  BY <1>8 DEF Unblock, BlkRest, proc, IInv, HInv, Flags, ArmedIsLive,
     FlagBeforeTable, SetIsTimed, EmptyAtStop, EmptyAtFree, UnsetAtFree,
     HeldAtRest, HeldInWalk, CallbackOnItsWay, PastTest, Shapes,
     FlagIsPosition, BlockHolds, DeleterBlocks, TableAtHand, FreeHasTable,
     Running, Deleting, InSection
<1>9. CASE InitPriv
  BY <1>9 DEF InitPriv, BlkRest, proc, IInv, HInv, Flags, ArmedIsLive,
     FlagBeforeTable, SetIsTimed, EmptyAtStop, EmptyAtFree, UnsetAtFree,
     HeldAtRest, HeldInWalk, CallbackOnItsWay, PastTest, Shapes,
     FlagIsPosition, BlockHolds, DeleterBlocks, TableAtHand, FreeHasTable,
     Running, Deleting, InSection
<1> QED
  BY <1>1, <1>2, <1>3, <1>4, <1>5, <1>6, <1>7, <1>8, <1>9 DEF BlkStep

(* HInv holds at load and every step keeps it. *)
LEMMA HInvInvariant == Spec => []HInv
<1>1. Init => HInv
  <2> SUFFICES ASSUME Init PROVE HInv
    OBVIOUS
  <2>1. Flags
    BY DEF Init, Flags
  <2>2. ArmedIsLive /\ FlagBeforeTable /\ SetIsTimed /\ EmptyAtStop
    BY DEF Init, NewTable, NewTimer, ArmedIsLive, FlagBeforeTable, SetIsTimed,
       EmptyAtStop
  <2>3. EmptyAtFree /\ UnsetAtFree /\ HeldAtRest /\ HeldInWalk
    BY DEF Init, NewTable, EmptyAtFree, UnsetAtFree, HeldAtRest, HeldInWalk
  <2> QED
    BY <2>1, <2>2, <2>3 DEF HInv
<1>2. IInv /\ HInv /\ [Next]_vars => HInv'
  <2> SUFFICES ASSUME IInv, HInv, [Next]_vars PROVE HInv'
    OBVIOUS
  <2>1. CASE Arrive
    BY <2>1 DEF Arrive, proc, IInv, HInv, Flags, ArmedIsLive,
       FlagBeforeTable, SetIsTimed, EmptyAtStop, EmptyAtFree, UnsetAtFree,
       HeldAtRest, HeldInWalk, CallbackOnItsWay, PastTest, Shapes,
       FlagIsPosition, BlockHolds, DeleterBlocks, TableAtHand, FreeHasTable,
       Running, Deleting, InSection
  <2>2. CASE QueueRxWork
    BY <2>2 DEF QueueRxWork, IInv, HInv, Flags, ArmedIsLive,
       FlagBeforeTable, SetIsTimed, EmptyAtStop, EmptyAtFree, UnsetAtFree,
       HeldAtRest, HeldInWalk, CallbackOnItsWay, PastTest, Shapes,
       FlagIsPosition, BlockHolds, DeleterBlocks, TableAtHand, FreeHasTable,
       Running, Deleting, InSection
  <2>3. CASE RxStep
    BY <2>3, RxStepKeepsHeld
  <2>4. CASE Expire
    BY <2>4 DEF Expire, CbRest, proc, IInv, HInv, Flags, ArmedIsLive,
       FlagBeforeTable, SetIsTimed, EmptyAtStop, EmptyAtFree, UnsetAtFree,
       HeldAtRest, HeldInWalk, CallbackOnItsWay, PastTest, Shapes,
       FlagIsPosition, BlockHolds, DeleterBlocks, TableAtHand, FreeHasTable,
       Running, Deleting, InSection
  <2>5. CASE CbStep
    BY <2>5, CbStepKeepsHeld
  <2>6. CASE BlkStep
    BY <2>6, BlkStepKeepsHeld
  <2>7. CASE \E op \in Ops : Begin(op)
    BY <2>7 DEF Begin, BlkRest, proc, IInv, HInv, Flags, ArmedIsLive,
       FlagBeforeTable, SetIsTimed, EmptyAtStop, EmptyAtFree, UnsetAtFree,
       HeldAtRest, HeldInWalk, CallbackOnItsWay, PastTest, Shapes,
       FlagIsPosition, BlockHolds, DeleterBlocks, TableAtHand, FreeHasTable,
       Running, Deleting, InSection
  <2>8. CASE UNCHANGED vars
    BY <2>8 DEF vars, proc, IInv, HInv, Flags, ArmedIsLive, FlagBeforeTable,
       SetIsTimed, EmptyAtStop, EmptyAtFree, UnsetAtFree, HeldAtRest,
       HeldInWalk, CallbackOnItsWay, PastTest, Shapes, FlagIsPosition,
       BlockHolds, DeleterBlocks, TableAtHand, FreeHasTable, Running, Deleting,
       InSection
  <2> QED
    BY <2>1, <2>2, <2>3, <2>4, <2>5, <2>6, <2>7, <2>8 DEF Next
<1> QED
  BY <1>1, <1>2, IInvInvariant, PTL DEF Spec

(* Whatever the number of packets and operations, a frame held back is    *)
(* waited for: by its timer, by the callback or by the two flags the       *)
(* callback sets, unless the receive process looked between its stores.    *)
THEOREM HeldKeepsCovered == Spec => []HeldIsCovered
<1>1. HInv => HeldIsCovered
  BY DEF HeldIsCovered, UsesTable, HInv, HeldAtRest, CallbackOnItsWay,
     PastTest
<1> QED
  BY <1>1, HInvInvariant, PTL
=============================================================================
