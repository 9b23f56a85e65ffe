------------------------ MODULE BridgeKeepaliveProofs ------------------------
(***************************************************************************)
(* Safety of the keepalive timer for any number of forwarding contexts and *)
(* any idle cutoff.                                                        *)
(***************************************************************************)
EXTENDS BridgeKeepalive, TLAPS

\* moal_bridge_keepalive, moal_bridge_ka_kick and the deinit sequence keep
\* every field within its type.
THEOREM TypeCorrect == Spec => []TypeOK
<1>1. Init => TypeOK
  <2> SUFFICES ASSUME Init PROVE TypeOK
    OBVIOUS
  <2>1. armed \in {0, 1} /\ 0 \in Ages /\ age \in Ages
    BY KeepaliveAssumption DEF KeepaliveAssumption, Init, Ages
  <2>2. prod \in [Producers -> ProdPositions] /\ stamp \in [Producers -> Ages]
        /\ buf \in [Producers -> Ages \cup {NoStamp}]
    BY <2>1 DEF Init, ProdPositions
  <2>3. active \in BOOLEAN /\ kicked \in BOOLEAN /\ enqueued \in BOOLEAN /\ mainWork \in BOOLEAN
    BY Zenon DEF Init, Adaptive
  <2>4. cb \in CbPositions /\ notif \in {"idle", "set"} /\ deinit \in DeinitStates
    BY DEF Init, CbPositions, DeinitStates
  <2> QED BY <2>1, <2>2, <2>3, <2>4 DEF Init, TypeOK
<1>2. TypeOK /\ [Next]_vars => TypeOK'
  <2> SUFFICES ASSUME TypeOK, [Next]_vars PROVE TypeOK'
    OBVIOUS
  <2> USE KeepaliveAssumption DEF KeepaliveAssumption, TypeOK, Ages, NoStamp, CbPositions, ProdPositions, DeinitStates
  <2>1. CASE Tick
    <3>1. \A a \in Ages : Older(a) \in Ages
      BY DEF Older
    <3>2. stamp' \in [Producers -> Ages] /\ age' \in Ages
      BY <2>1, <3>1 DEF Tick
    <3>3. buf' \in [Producers -> Ages \cup {NoStamp}]
      BY <2>1, <3>1 DEF Tick
    <3> QED BY <2>1, <3>2, <3>3 DEF Tick
  <2>2. ASSUME NEW p \in Producers, Find(p) \/ CheckActive(p) \/ NoKick(p)
        PROVE TypeOK'
    BY <2>2 DEF Find, CheckActive, NoKick, Move, Leaves
  <2>3. ASSUME NEW p \in Producers, Kick(p) PROVE TypeOK'
    <3>1. CASE KickClock(p) BY <3>1, 0 \in Ages DEF KickClock, Move, Adaptive
    <3>2. CASE KickStore(p)
      <4>1. CASE StoreBuffer BY <3>2, <4>1 DEF KickStore, Move
      <4>2. CASE ~StoreBuffer BY <3>2, <4>2 DEF KickStore, Move
      <4> QED BY <4>1, <4>2
    <3>3. CASE KickTest(p) BY <3>3 DEF KickTest, Move, Leaves
    <3>4. CASE KickCas(p) BY <3>4 DEF KickCas, Move, Leaves
    <3>5. CASE KickStart(p) BY <3>5 DEF KickStart, Move, Leaves
    <3> QED BY <2>3, <3>1, <3>2, <3>3, <3>4, <3>5 DEF Kick
  <2>4. ASSUME NEW p \in Producers, Flush(p) PROVE TypeOK'
    BY <2>4 DEF Flush
  <2>5. CASE Fire \/ MainWork
    BY <2>5 DEF Fire, MainWork, CbMove
  <2>6. CASE Callback
    <3>1. CASE CbQueueWork
      <4>1. mainWork' \in BOOLEAN BY <3>1, Zenon DEF CbQueueWork
      <4> QED BY <3>1, <4>1 DEF CbQueueWork, CbMove
    <3>2. CASE CbCheckIdle BY <3>2 DEF CbCheckIdle
    <3>3. CASE CbClear \/ CbForward BY <3>3 DEF CbClear, CbForward, CbMove
    <3>4. CASE CbReread BY <3>4 DEF CbReread
    <3>5. CASE CbReclaim BY <3>5 DEF CbReclaim, CbMove
    <3> QED BY <2>6, <3>1, <3>2, <3>3, <3>4, <3>5 DEF Callback
  <2>7. CASE NetdevDown \/ NetdevUpCheck \/ NetdevUpSet
    <3>1. CASE NetdevDown BY <3>1 DEF NetdevDown
    <3>2. CASE NetdevUpCheck BY <3>2 DEF NetdevUpCheck
    <3>3. CASE NetdevUpSet BY <3>3 DEF NetdevUpSet
    <3> QED BY <2>7, <3>1, <3>2, <3>3
  <2>8. CASE DeinitDeactivate \/ DeinitStep
    BY <2>8 DEF DeinitDeactivate, DeinitStep, DeinitCancelEarly, DeinitDetach,
       DeinitUnpublish, DeinitDrained, DeinitClearArmed, DeinitFree, DeinitMove,
       HrtimerCancel, StartGracePeriod, InFlight
  <2>9. CASE UNCHANGED vars
    BY <2>9 DEF vars
  <2> QED BY <2>1, <2>2, <2>3, <2>4, <2>5, <2>6, <2>7, <2>8, <2>9 DEF Next
<1> QED BY <1>1, <1>2, PTL DEF Spec

-----------------------------------------------------------------------------
(***************************************************************************)
(* ka_armed as a lock.  SingleArmer is not inductive: a context wins its   *)
(* cmpxchg knowing only ka_armed = 0, so the invariant must say that       *)
(* ka_armed = 0 excludes every holder (HoldersArmed); NotStranded is the   *)
(* converse.                                                               *)
(***************************************************************************)
Starting == \E p \in Producers : prod[p] = "start"

HoldersArmed ==
  deinit \notin {"cancel2", "freed"} /\ (enqueued \/ CbHoldsArm \/ Starting) => armed = 1

ArmInv == SingleArmer /\ HoldersArmed /\ NotStranded

LEMMA ArmInvInit == Init => ArmInv
<1> SUFFICES ASSUME Init PROVE ArmInv
  OBVIOUS
<1>1. cb = "idle" /\ \A p \in Producers : prod[p] = "out"
  BY DEF Init
<1>2. (armed = 1 => enqueued) /\ (enqueued => armed = 1)
  <2>1. CASE Adaptive
    <3>1. armed = 0 BY <2>1 DEF Init
    <3>2. ~enqueued BY <2>1, Zenon DEF Init
    <3> QED BY <3>1, <3>2
  <2>2. CASE ~Adaptive
    <3>1. armed = 1 BY <2>2 DEF Init
    <3>2. enqueued BY <2>2, Zenon DEF Init
    <3> QED BY <3>1, <3>2
  <2> QED BY <2>1, <2>2
<1> QED BY <1>1, <1>2 DEF ArmInv, SingleArmer, HoldersArmed, NotStranded, CbHoldsArm, Starting

\* Steps that touch neither ka_armed, the timer queue, the callback's position
\* nor deinit, and put no context in front of its hrtimer_start.
LEMMA ArmInvFrame ==
  ASSUME ArmInv, UNCHANGED <<armed, enqueued, cb, deinit>>,
         \A p \in Producers : prod'[p] = "start" <=> prod[p] = "start"
  PROVE  ArmInv'
  BY DEF ArmInv, SingleArmer, HoldersArmed, NotStranded, CbHoldsArm, Starting

LEMMA ArmInvStep == TypeOK /\ ArmInv /\ [Next]_vars => ArmInv'
<1> SUFFICES ASSUME TypeOK, ArmInv, [Next]_vars PROVE ArmInv'
  OBVIOUS
<1> USE DEF ArmInv, SingleArmer, HoldersArmed, NotStranded, CbHoldsArm, Starting
<1>1. CASE Tick
  BY <1>1 DEF Tick
<1>2. ASSUME NEW p \in Producers, Find(p) \/ CheckActive(p) \/ NoKick(p) \/ KickClock(p)
                                 \/ KickStore(p) \/ KickTest(p) \/ Flush(p)
      PROVE ArmInv'
  <2>1. UNCHANGED <<armed, enqueued, cb, deinit>>
    BY <1>2 DEF Find, CheckActive, NoKick, KickClock, KickStore, KickTest, Flush
  <2>2. \A q \in Producers : prod'[q] = "start" <=> prod[q] = "start"
    BY <1>2 DEF Find, CheckActive, NoKick, KickClock, KickStore, KickTest, Flush, Move, TypeOK
  <2> QED BY <2>1, <2>2, ArmInvFrame
<1>3. ASSUME NEW p \in Producers, KickCas(p) PROVE ArmInv'
  BY <1>3 DEF KickCas, Move, TypeOK
<1>4. ASSUME NEW p \in Producers, KickStart(p) PROVE ArmInv'
  BY <1>4 DEF KickStart, Move, TypeOK
<1>5. CASE Fire
  BY <1>5 DEF Fire, CbMove
<1>6. CASE Callback
  BY <1>6 DEF Callback, CbQueueWork, CbCheckIdle, CbClear, CbReread, CbReclaim, CbForward, CbMove
<1>7. CASE MainWork \/ NetdevDown \/ NetdevUpCheck \/ NetdevUpSet
  BY <1>7 DEF MainWork, NetdevDown, NetdevUpCheck, NetdevUpSet
<1>8. CASE DeinitDeactivate
  BY <1>8 DEF DeinitDeactivate, DeinitMove
<1>9. CASE DeinitStep
  BY <1>9 DEF DeinitStep, DeinitCancelEarly, DeinitDetach, DeinitUnpublish, DeinitDrained,
     DeinitClearArmed, DeinitFree, DeinitMove, HrtimerCancel
<1>10. CASE UNCHANGED vars
  BY <1>10 DEF vars
<1> QED BY <1>1, <1>2, <1>3, <1>4, <1>5, <1>6, <1>7, <1>8, <1>9, <1>10 DEF Next, Kick

\* Exactly one party re-arms the timer, however many contexts forward and
\* whatever the store buffers do.
THEOREM OneArmer == Spec => []SingleArmer
<1>1. Init => ArmInv
  BY ArmInvInit
<1>2. TypeOK /\ ArmInv /\ [Next]_vars => ArmInv'
  BY ArmInvStep
<1>3. ArmInv => SingleArmer
  BY DEF ArmInv
<1> QED BY <1>1, <1>2, <1>3, TypeCorrect, PTL DEF Spec

\* ka_armed = 1 always has a party behind it until deinit cancels the timer.
THEOREM NeverStranded == Spec => []NotStranded
<1>1. Init => ArmInv
  BY ArmInvInit
<1>2. TypeOK /\ ArmInv /\ [Next]_vars => ArmInv'
  BY ArmInvStep
<1>3. ArmInv => NotStranded
  BY DEF ArmInv
<1> QED BY <1>1, <1>2, <1>3, TypeCorrect, PTL DEF Spec

-----------------------------------------------------------------------------
(***************************************************************************)
(* Live traffic keeps the timer.  The argument follows a stamp from its    *)
(* store to the context's exit: the context leaves only after it saw       *)
(* ka_armed = 1, where NotStranded names who runs the timer, or after it   *)
(* started the timer itself.  A stamp that becomes visible in between is   *)
(* covered by its own context; one that becomes visible later is the only  *)
(* exception, and NotStranded cannot say anything about it.                *)
(***************************************************************************)

\* The keepalive never stops while traffic is live, whatever the store buffers
\* hold, for every number of forwarding contexts and every cutoff, except by a
\* time stamp that becomes visible after its kick has ended.
THEOREM LiveTrafficKept == Spec => KeptUnlessStoreLate
<1>1. Init => ArmInv
  BY ArmInvInit
<1>2. TypeOK /\ ArmInv /\ [Next]_vars => ArmInv'
  BY ArmInvStep
<1>3. TypeOK /\ ArmInv /\ [Next]_vars => (LiveKept => LiveKept' \/ \E p \in Producers : StoreLate(p))
  <2> SUFFICES ASSUME TypeOK, ArmInv, LiveKept, [Next]_vars, ~ \E p \in Producers : StoreLate(p)
               PROVE  LiveKept'
    OBVIOUS
  <2> USE DEF LiveKept, Kicking
  <2>1. CASE Tick
    BY <2>1, KeepaliveAssumption DEF KeepaliveAssumption, Tick, Older, TypeOK, Ages
  <2>2. ASSUME NEW p \in Producers, Find(p) \/ CheckActive(p) \/ NoKick(p) \/ KickClock(p)
        PROVE LiveKept'
    <3>1. UNCHANGED <<age, kicked, enqueued, cb, deinit>>
      BY <2>2 DEF Find, CheckActive, NoKick, KickClock
    <3>2. \A q \in Producers : Kicking(q) => prod'[q] = prod[q]
      BY <2>2 DEF Find, CheckActive, NoKick, KickClock, Move, TypeOK
    <3> QED BY <3>1, <3>2
  <2>3. ASSUME NEW p \in Producers, KickStore(p) PROVE LiveKept'
    <3>1. prod'[p] = "test"
      BY <2>3 DEF KickStore, Move, TypeOK
    <3> QED BY <3>1
  <2>4. ASSUME NEW p \in Producers, KickTest(p) PROVE LiveKept'
    BY <2>4 DEF KickTest, Move, TypeOK, ArmInv, NotStranded, CbHoldsArm
  <2>5. ASSUME NEW p \in Producers, KickCas(p) PROVE LiveKept'
    BY <2>5 DEF KickCas, Move, TypeOK, ArmInv, NotStranded, CbHoldsArm
  <2>6. ASSUME NEW p \in Producers, KickStart(p) PROVE LiveKept'
    BY <2>6 DEF KickStart, Move, TypeOK
  <2>7. ASSUME NEW p \in Producers, Flush(p) PROVE LiveKept'
    <3>1. buf[p] # NoStamp /\ buf'[p] = NoStamp /\ prod' = prod
      BY <2>7 DEF Flush, TypeOK
    <3>2. Kicking(p)
      BY <3>1 DEF StoreLate
    <3> QED BY <3>1, <3>2
  <2>8. CASE Fire
    BY <2>8 DEF Fire, CbMove
  <2>9. CASE CbQueueWork \/ CbCheckIdle \/ CbClear \/ CbForward
    BY <2>9 DEF CbQueueWork, CbCheckIdle, CbClear, CbForward, CbMove
  <2>10. CASE CbReread
    BY <2>10, KeepaliveAssumption DEF KeepaliveAssumption, CbReread, TypeOK, Ages
  <2>11. CASE CbReclaim
    BY <2>11 DEF CbReclaim, CbMove, ArmInv, NotStranded, CbHoldsArm
  <2>12. CASE MainWork \/ NetdevDown \/ NetdevUpCheck \/ NetdevUpSet
    BY <2>12 DEF MainWork, NetdevDown, NetdevUpCheck, NetdevUpSet
  <2>13. CASE DeinitDeactivate \/ DeinitStep
    BY <2>13 DEF DeinitDeactivate, DeinitStep, DeinitCancelEarly, DeinitDetach,
       DeinitUnpublish, DeinitDrained, DeinitClearArmed, DeinitFree, DeinitMove, HrtimerCancel
  <2>14. CASE UNCHANGED vars
    BY <2>14 DEF vars
  <2> QED BY <2>1, <2>2, <2>3, <2>4, <2>5, <2>6, <2>7, <2>8, <2>9, <2>10, <2>11, <2>12, <2>13,
             <2>14 DEF Next, Kick, Callback
<1> QED BY <1>1, <1>2, <1>3, TypeCorrect, PTL DEF Spec, KeptUnlessStoreLate

-----------------------------------------------------------------------------
(***************************************************************************)
(* The teardown order.  Each grace period empties the class of contexts    *)
(* whose way in was closed just before it: synchronize_net the peer's      *)
(* captures, synchronize_rcu the rx_fast callers; `active' cannot come     *)
(* back once the notifier is gone.                                         *)
(***************************************************************************)
Detached == deinit \in {"net", "rcu", "clear", "cancel2", "freed"}

QuietInv ==
  /\ Detached => ~active /\ notif = "idle"
  /\ deinit = "net" => \A p \in PeerCapture : prod[p] # "out" => p \in waitFor
  /\ deinit = "rcu" => \A p \in Producers : prod[p] # "out" => p \in waitFor
  /\ deinit \in {"clear", "cancel2", "freed"} => \A p \in Producers : prod[p] = "out"
  /\ deinit = "freed" => ~enqueued /\ cb = "idle"

\* The instance is freed only when no context, timer or callback can touch it,
\* for every number of forwarding contexts.
THEOREM TeardownQuiet == Spec => []FreedIsQuiet
<1>1. Init => QuietInv
  BY DEF Init, QuietInv, Detached
<1>2. TypeOK /\ QuietInv /\ [Next]_vars => QuietInv'
  <2> SUFFICES ASSUME TypeOK, QuietInv, [Next]_vars PROVE QuietInv'
    OBVIOUS
  <2> USE DEF QuietInv, Detached
  <2>1. CASE Tick
    BY <2>1 DEF Tick
  <2>2. ASSUME NEW p \in Producers, Find(p) PROVE QuietInv'
    BY <2>2, KeepaliveAssumption DEF KeepaliveAssumption, Find, Move, Reachable, Producers, TypeOK
  <2>3. ASSUME NEW p \in Producers, CheckActive(p) \/ NoKick(p) \/ KickClock(p) \/ KickStore(p)
                                   \/ KickTest(p) \/ KickCas(p) \/ Flush(p)
        PROVE QuietInv'
    <3>1. UNCHANGED <<active, enqueued, cb, deinit, notif>>
      BY <2>3 DEF CheckActive, NoKick, KickClock, KickStore, KickTest, KickCas, Flush
    <3>2. prod[p] = "out" => UNCHANGED <<prod, waitFor>>
      BY <2>3 DEF CheckActive, NoKick, KickClock, KickStore, KickTest, KickCas, Flush, Move
    <3>3. \A q \in Producers : q # p => prod'[q] = prod[q] /\ (q \in waitFor => q \in waitFor')
      BY <2>3 DEF CheckActive, NoKick, KickClock, KickStore, KickTest, KickCas, Flush, Move,
         Leaves, TypeOK
    <3>4. prod'[p] # "out" => waitFor' = waitFor
      BY <2>3 DEF CheckActive, NoKick, KickClock, KickStore, KickTest, KickCas, Flush, Move,
         Leaves, TypeOK
    <3> QED BY <3>1, <3>2, <3>3, <3>4 DEF Producers
  <2>4. ASSUME NEW p \in Producers, KickStart(p) PROVE QuietInv'
    BY <2>4 DEF KickStart, Move, Leaves, Producers, TypeOK
  <2>5. CASE Fire \/ Callback \/ MainWork
    <3>1. UNCHANGED <<active, prod, notif, deinit, waitFor>>
      BY <2>5 DEF Fire, MainWork, Callback, CbQueueWork, CbCheckIdle, CbClear, CbReread, CbReclaim,
         CbForward
    <3>2. ~enqueued /\ cb = "idle" => UNCHANGED <<enqueued, cb>>
      BY <2>5 DEF Fire, MainWork, Callback, CbQueueWork, CbCheckIdle, CbClear, CbReread, CbReclaim,
         CbForward, CbMove
    <3> QED BY <3>1, <3>2
  <2>6. CASE NetdevDown \/ NetdevUpCheck \/ NetdevUpSet
    <3>1. CASE NetdevDown BY <3>1 DEF NetdevDown, Registered
    <3>2. CASE NetdevUpCheck BY <3>2 DEF NetdevUpCheck
    <3>3. CASE NetdevUpSet BY <3>3 DEF NetdevUpSet
    <3> QED BY <2>6, <3>1, <3>2, <3>3
  <2>7. CASE DeinitDeactivate \/ DeinitCancelEarly
    <3>1. CASE DeinitDeactivate BY <3>1 DEF DeinitDeactivate, DeinitMove
    <3>2. CASE DeinitCancelEarly BY <3>2 DEF DeinitCancelEarly, DeinitMove
    <3> QED BY <2>7, <3>1, <3>2
  <2>8. CASE DeinitDetach
    BY <2>8 DEF DeinitDetach, DeinitMove, StartGracePeriod, InFlight, Producers
  <2>9. CASE DeinitUnpublish
    BY <2>9 DEF DeinitUnpublish, DeinitMove, StartGracePeriod, InFlight
  <2>10. CASE DeinitDrained
    BY <2>10 DEF DeinitDrained, DeinitMove, GracePeriodOver
  <2>11. CASE DeinitClearArmed \/ DeinitFree
    BY <2>11 DEF DeinitClearArmed, DeinitFree, DeinitMove, HrtimerCancel
  <2>12. CASE UNCHANGED vars
    BY <2>12 DEF vars
  <2> QED BY <2>1, <2>2, <2>3, <2>4, <2>5, <2>6, <2>7, <2>8, <2>9, <2>10, <2>11, <2>12
          DEF Next, Kick, DeinitStep
<1>3. QuietInv => FreedIsQuiet
  BY DEF QuietInv, Detached, FreedIsQuiet, InFlight
<1> QED BY <1>1, <1>2, <1>3, TypeCorrect, PTL DEF Spec
=============================================================================
