------------------------ MODULE BridgeDataPathProofs ------------------------
(***************************************************************************)
(* Safety of the bridge's queues and of its teardown, for any number of    *)
(* forwarding contexts and any cap.                                        *)
(***************************************************************************)
EXTENDS BridgeDataPath, FiniteSetTheorems, TLAPS

-----------------------------------------------------------------------------
(* The invariant.  QlenExact and HardCap need only where each agent stands, *)
(* except that deinit's final purge must find the queues empty; that and    *)
(* ReleasedIsQuiet follow from how far the release work has come.           *)

Placed ==
  /\ pc \in [Agents -> Positions]
  /\ \A c \in Contexts : pc[c] \in ContextPositions
  /\ \A d \in Directions : pc[d] \in ThreadPositions
  /\ pc["notifier"] \in NotifierPositions /\ pc["release"] \in ReleasePositions
  /\ dir \in [Agents -> Directions]

\* An agent holds a frame exactly where its code does.
Stored ==
  /\ queue \in [Directions -> Seq(Frames)]
  /\ hand \in [Agents -> Frames \cup {NoFrame}]
  /\ \A c \in Contexts : hand[c] = NoFrame <=> pc[c] \in {"out", "wake"}
  /\ \A d \in Directions : hand[d] = NoFrame <=> pc[d] \notin {"count", "check", "xmit"}
  /\ hand["notifier"] = NoFrame <=> pc["notifier"] # "count"
  /\ hand["release"] = NoFrame <=> pc["release"] # "count"

\* A transmission that re-enters the bridge runs inside the kthread's call.
Nested ==
  /\ pc[Fwd] # "out" => pc["p2w"] = "sending"
  /\ pc[Tap] # "out" => pc["w2p"] = "sending"

PastCheck(c) == pc[c] \in {"in", "want", "over", "won", "wake"}

\* Peer gone: no activation, and none pending in the notifier.
Closed ==
  /\ released => ~active /\ pc["notifier"] # "set"
  /\ released <=> pc["release"] # "idle"
  /\ ~peerRef => pc["release"] = "done"
  /\ deinit \in {"net", "rcu", "freed"} => pc["release"] = "done"

\* The release work: contexts waited for, then kthreads stopped, then queues emptied.
Quieted ==
  /\ waitFor \subseteq Contexts
  /\ pc["release"] = "grace" => \A c \in Contexts : PastCheck(c) => c \in waitFor
  /\ pc["release"] \notin {"idle", "queued", "grace"} => \A c \in Contexts : ~PastCheck(c)
  /\ pc["release"] \in {"stop_p2w", "drain", "count", "put", "done"} => pc["w2p"] = "stopped"
  /\ pc["release"] \in {"drain", "count", "put", "done"} => pc["p2w"] = "stopped"
  /\ pc["release"] \in {"drain", "count"} /\ dir["release"] = "p2w" => queue["w2p"] = << >>
  /\ pc["release"] \in {"put", "done"} => \A d \in Directions : queue[d] = << >>

Control == Placed /\ Stored /\ Nested /\ Closed /\ Quieted

-----------------------------------------------------------------------------
\* The agents are distinct: no context is a kthread, the notifier or the release
\* work, and the two contexts a kthread enters are neither captured nor equal.
LEMMA AgentFacts ==
  /\ Contexts \subseteq Agents /\ Directions \subseteq Agents
  /\ "notifier" \in Agents /\ "release" \in Agents
  /\ Fwd \in Contexts /\ Tap \in Contexts /\ Fwd # Tap
  /\ \A c \in Contexts : c \notin {"w2p", "p2w", "notifier", "release"}
  /\ \A c \in Air \cup Wire \cup Local : c \in Contexts /\ c # Fwd /\ c # Tap
BY DataPathAssumption DEF DataPathAssumption, Agents, Contexts, Directions

\* Where each agent stands, after every step.
LEMMA PlacedStep == Placed /\ [Next]_vars => Placed'
<1> SUFFICES ASSUME Placed, [Next]_vars PROVE Placed'
  OBVIOUS
<1> USE AgentFacts DEF Placed, ContextPositions, ThreadPositions, NotifierPositions,
                       ReleasePositions, Positions, Directions
<1>1. ASSUME NEW c \in Contexts, ContextStep(c) PROVE Placed'
  BY <1>1 DEF ContextStep, CheckActive, Leave, Accept, Reserve, Undo, NoHeadroom, Enqueue, WakeUp, Woken, GiveBack, Toward
<1>2. ASSUME NEW c \in Contexts, NEW k \in Kinds, Capture(c, k) PROVE Placed'
  BY <1>2 DEF Capture
<1>3. ASSUME NEW d \in Directions, ThreadStep(d) PROVE Placed'
  <2>1. CASE Xmit(d)
    BY <1>3, <2>1 DEF Xmit, Entered
  <2>2. CASE Drained(d) \/ Count(d) \/ Dequeue(d)
    BY <1>3, <2>2 DEF Drained, Count, Dequeue
  <2>3. CASE WaitEvent(d) \/ ThreadDrop(d) \/ ThreadCheck(d) \/ XmitReturns(d)
    BY <1>3, <2>3 DEF WaitEvent, ThreadDrop, ThreadCheck, XmitReturns
  <2> QED BY <1>3, <2>1, <2>2, <2>3 DEF ThreadStep
<1>4. CASE NetdevDown \/ NetdevNotReady \/ NetdevUpCheck \/ PeerUnregister
  BY <1>4 DEF NetdevDown, NetdevNotReady, NetdevUpCheck, PeerUnregister, ReleasePeer, StartPurge
<1>5. CASE NotifierStep
  BY <1>5 DEF NotifierStep, Dequeue, Count, Drained, NetdevUpSet
<1>6. CASE ReleaseStep
  BY <1>6 DEF ReleaseStep, ReleaseStart, ReleaseStopW2p, ReleaseStopP2w, ReleasePurge, ReleasePut,
              ReleaseMove, Woken, Dequeue, Count, Drained
<1>7. CASE DeinitDeactivate \/ DeinitStep
  BY <1>7 DEF DeinitDeactivate, DeinitStep, DeinitReplayDown, DeinitReplayUnregister, DeinitFlush,
              DeinitUnpublish, DeinitFree, StartPurge, ReleasePeer
<1>8. CASE UNCHANGED vars
  BY <1>8 DEF vars
<1> QED BY <1>1, <1>2, <1>3, <1>4, <1>5, <1>6, <1>7, <1>8 DEF Next

\* A kthread waits in dev_queue_xmit for the context it entered.
LEMMA NestedStep == Placed /\ Nested /\ [Next]_vars => Nested'
<1> SUFFICES ASSUME Placed, Nested, [Next]_vars PROVE Nested'
  OBVIOUS
<1> USE AgentFacts DEF Placed, Nested, Directions
<1>1. ASSUME NEW c \in Contexts, ContextStep(c) PROVE Nested'
  BY <1>1 DEF ContextStep, CheckActive, Leave, Accept, Reserve, Undo, NoHeadroom, Enqueue, WakeUp, Woken, GiveBack
<1>2. ASSUME NEW c \in Contexts, NEW k \in Kinds, Capture(c, k) PROVE Nested'
  BY <1>2 DEF Capture
<1>3. ASSUME NEW d \in Directions, ThreadStep(d) PROVE Nested'
  <2>1. CASE Xmit(d)
    BY <1>3, <2>1 DEF Xmit, Entered
  <2>2. CASE Drained(d) \/ Count(d) \/ Dequeue(d)
    BY <1>3, <2>2 DEF Drained, Count, Dequeue
  <2>3. CASE WaitEvent(d) \/ ThreadDrop(d) \/ ThreadCheck(d) \/ XmitReturns(d)
    BY <1>3, <2>3 DEF WaitEvent, ThreadDrop, ThreadCheck, XmitReturns
  <2> QED BY <1>3, <2>1, <2>2, <2>3 DEF ThreadStep
<1>4. CASE NetdevDown \/ NetdevNotReady \/ NetdevUpCheck \/ PeerUnregister
  BY <1>4 DEF NetdevDown, NetdevNotReady, NetdevUpCheck, PeerUnregister, ReleasePeer, StartPurge
<1>5. CASE NotifierStep
  BY <1>5 DEF NotifierStep, Dequeue, Count, Drained, NetdevUpSet
<1>6. CASE ReleaseStep
  BY <1>6 DEF ReleaseStep, ReleaseStart, ReleaseStopW2p, ReleaseStopP2w, ReleasePurge, ReleasePut,
              ReleaseMove, Woken, Dequeue, Count, Drained
<1>7. CASE DeinitDeactivate \/ DeinitStep
  BY <1>7 DEF DeinitDeactivate, DeinitStep, DeinitReplayDown, DeinitReplayUnregister, DeinitFlush,
              DeinitUnpublish, DeinitFree, StartPurge, ReleasePeer
<1>8. CASE UNCHANGED vars
  BY <1>8 DEF vars
<1> QED BY <1>1, <1>2, <1>3, <1>4, <1>5, <1>6, <1>7, <1>8 DEF Next

\* What agents hold and queues contain.
LEMMA StoredStep == Placed /\ Nested /\ Closed /\ Stored /\ [Next]_vars => Stored'
<1> SUFFICES ASSUME Placed, Nested, Closed, Stored, [Next]_vars PROVE Stored'
  OBVIOUS
<1> USE AgentFacts DEF Placed, Nested, Stored, Directions
<1>0. /\ \A c \in Contexts : pc[c] \notin {"out", "wake"} => hand[c] \in Frames
      /\ \A f \in Frames : f # NoFrame /\ [from |-> f.from, kind |-> "garbled"] \in Frames
  BY DEF Frames, NoFrame, FrameKinds
<1>1. ASSUME NEW c \in Contexts, ContextStep(c) PROVE Stored'
  <2>1. CASE Enqueue(c)
    BY <1>0, <1>1, <2>1 DEF Enqueue
  <2>2. CASE CheckActive(c) \/ Leave(c) \/ Undo(c) \/ NoHeadroom(c)
    <3>1. CASE GiveBack(c) /\ queue' = queue
      <4>1. pc' = [pc EXCEPT ![c] = "out"] /\ hand' = [hand EXCEPT ![c] = NoFrame] /\ c \in Agents
        BY <3>1 DEF GiveBack
      <4> QED BY <3>1, <4>1
    <3>2. CASE pc[c] = "found" /\ pc' = [pc EXCEPT ![c] = "in"] /\ UNCHANGED <<hand, queue>>
      BY <3>2
    <3> QED BY <2>2, <3>1, <3>2 DEF CheckActive, Leave, Undo, NoHeadroom
  <2>3. CASE Accept(c) \/ Reserve(c)
    BY <1>1, <2>3 DEF Accept, Reserve
  <2>4. CASE WakeUp(c)
    BY <1>1, <2>4 DEF WakeUp, Woken
  <2> QED BY <1>1, <2>1, <2>2, <2>3, <2>4 DEF ContextStep
<1>2. ASSUME NEW c \in Contexts, NEW k \in Kinds, Capture(c, k) PROVE Stored'
  <2>1. [from |-> Origin(c), kind |-> k] \in Frames
    BY DataPathAssumption DEF DataPathAssumption, Frames, Origin
  <2> QED BY <1>0, <1>2, <2>1 DEF Capture
<1>3. ASSUME NEW a \in Drainers, Dequeue(a) \/ Count(a) \/ Drained(a) PROVE Stored'
  <2>0. a \in Agents /\ a \notin Contexts /\ Draining(a) \in Directions
    BY DEF Drainers, Draining
  <2>1. CASE Dequeue(a)
    <3> DEFINE d == Draining(a)
    <3>1. Head(queue[d]) \in Frames /\ Tail(queue[d]) \in Seq(Frames)
      BY <2>0, <2>1 DEF Dequeue
    <3>2. queue' \in [Directions -> Seq(Frames)] /\ hand' \in [Agents -> Frames \cup {NoFrame}]
      BY <2>0, <2>1, <3>1 DEF Dequeue
    <3>3. pc' = [pc EXCEPT ![a] = "count"] /\ hand' = [hand EXCEPT ![a] = Head(queue[d])]
          /\ Head(queue[d]) # NoFrame
      BY <1>0, <2>1, <3>1 DEF Dequeue
    <3>4. a \in {"w2p", "p2w", "notifier", "release"}
      BY DEF Drainers
    <3> HIDE DEF d
    <3> QED BY <2>0, <3>2, <3>3, <3>4
  <2>2. CASE Count(a)
    <3>1. CASE a \in Directions
      BY <2>0, <2>2, <3>1 DEF Count
    <3>2. CASE a \in {"notifier", "release"}
      <4>1. /\ pc' = [pc EXCEPT ![a] = "drain"] /\ hand' = [hand EXCEPT ![a] = NoFrame]
            /\ queue' = queue /\ pc[a] = "count"
        BY <2>2, <3>2 DEF Count
      <4> QED BY <2>0, <3>2, <4>1
    <3> QED BY <3>1, <3>2 DEF Drainers
  <2>3. CASE Drained(a)
    <3>1. CASE a \in Directions
      BY <2>0, <2>3, <3>1 DEF Drained
    <3>2. CASE a \in {"notifier", "release"}
      BY <2>0, <2>3, <3>2 DEF Drained
    <3> QED BY <3>1, <3>2 DEF Drainers
  <2> QED BY <1>3, <2>1, <2>2, <2>3
<1>4. ASSUME NEW d \in Directions, ThreadStep(d) PROVE Stored'
  <2>1. CASE Xmit(d)
    BY <2>1 DEF Xmit, Entered
  <2>2. CASE WaitEvent(d) \/ ThreadDrop(d) \/ ThreadCheck(d) \/ XmitReturns(d)
    BY <2>2 DEF WaitEvent, ThreadDrop, ThreadCheck, XmitReturns
  <2> QED BY <1>3, <1>4, <2>1, <2>2 DEF ThreadStep, Drainers
<1>5. CASE NetdevDown \/ NetdevNotReady \/ NetdevUpCheck \/ PeerUnregister \/ NetdevUpSet
  BY <1>5 DEF NetdevDown, NetdevNotReady, NetdevUpCheck, NetdevUpSet, PeerUnregister, ReleasePeer,
              StartPurge, Registered, Closed
<1>6. CASE ReleaseStart \/ ReleaseStopW2p \/ ReleaseStopP2w \/ ReleasePurge \/ ReleasePut
  BY <1>6 DEF ReleaseStart, ReleaseStopW2p, ReleaseStopP2w, ReleasePurge, ReleasePut, ReleaseMove, Woken
<1>7. CASE DeinitDeactivate \/ DeinitStep
  <2>1. CASE DeinitFree
    <3>1. queue' \in [Directions -> Seq(Frames)]
      BY <2>1 DEF DeinitFree
    <3> QED BY <2>1, <3>1 DEF DeinitFree
  <2>2. CASE DeinitReplayUnregister
    BY <2>2 DEF DeinitReplayUnregister, ReleasePeer, Closed
  <2>3. CASE DeinitDeactivate \/ DeinitReplayDown \/ DeinitFlush \/ DeinitUnpublish
    BY <2>3 DEF DeinitDeactivate, DeinitReplayDown, DeinitFlush, DeinitUnpublish, StartPurge
  <2> QED BY <1>7, <2>1, <2>2, <2>3 DEF DeinitStep
<1>8. CASE UNCHANGED vars
  BY <1>8 DEF vars
<1> QED BY <1>1, <1>2, <1>3, <1>4, <1>5, <1>6, <1>7, <1>8 DEF Next, NotifierStep, ReleaseStep, Drainers

\* Once the peer is gone the bridge stays inactive and the release work runs.
LEMMA ClosedStep == Placed /\ Closed /\ [Next]_vars => Closed'
<1> SUFFICES ASSUME Placed, Closed, [Next]_vars PROVE Closed'
  OBVIOUS
<1> USE AgentFacts DEF Placed, Closed, Directions
<1>1. ASSUME NEW c \in Contexts, ContextStep(c) PROVE Closed'
  BY <1>1 DEF ContextStep, CheckActive, Leave, Accept, Reserve, Undo, NoHeadroom, Enqueue, WakeUp, Woken, GiveBack
<1>2. ASSUME NEW c \in Contexts, NEW k \in Kinds, Capture(c, k) PROVE Closed'
  BY <1>2 DEF Capture
<1>3. ASSUME NEW d \in Directions, ThreadStep(d) PROVE Closed'
  <2>1. CASE Xmit(d)
    BY <1>3, <2>1 DEF Xmit, Entered
  <2>2. CASE Drained(d) \/ Count(d) \/ Dequeue(d)
    BY <1>3, <2>2 DEF Drained, Count, Dequeue
  <2>3. CASE WaitEvent(d) \/ ThreadDrop(d) \/ ThreadCheck(d) \/ XmitReturns(d)
    BY <1>3, <2>3 DEF WaitEvent, ThreadDrop, ThreadCheck, XmitReturns
  <2> QED BY <1>3, <2>1, <2>2, <2>3 DEF ThreadStep
<1>4. CASE NetdevDown \/ NetdevNotReady \/ NetdevUpCheck \/ PeerUnregister
  BY <1>4 DEF NetdevDown, NetdevNotReady, NetdevUpCheck, PeerUnregister, ReleasePeer, StartPurge, Registered
<1>5. CASE NotifierStep
  BY <1>5 DEF NotifierStep, Dequeue, Count, Drained, NetdevUpSet
<1>6. CASE ReleaseStep
  BY <1>6 DEF ReleaseStep, ReleaseStart, ReleaseStopW2p, ReleaseStopP2w, ReleasePurge, ReleasePut,
              ReleaseMove, Woken, Dequeue, Count, Drained
<1>7. CASE DeinitDeactivate \/ DeinitStep
  BY <1>7 DEF DeinitDeactivate, DeinitStep, DeinitReplayDown, DeinitReplayUnregister, DeinitFlush,
              DeinitUnpublish, DeinitFree, DeinitMove, StartPurge, ReleasePeer
<1>8. CASE UNCHANGED vars
  BY <1>8 DEF vars
<1> QED BY <1>1, <1>2, <1>3, <1>4, <1>5, <1>6, <1>7, <1>8 DEF Next

\* The release work finds the contexts gone, the kthreads ended and the queues
\* empty, each for the reason its own code gives.
LEMMA QuietedStep == Placed /\ Stored /\ Closed /\ Quieted /\ [Next]_vars => Quieted'
<1> SUFFICES ASSUME Placed, Stored, Closed, Quieted, [Next]_vars PROVE Quieted'
  OBVIOUS
<1> USE AgentFacts DEF Placed, Closed, Quieted, PastCheck, Directions
<1>1. ASSUME NEW c \in Contexts, ContextStep(c) PROVE Quieted'
  <2>1. CASE CheckActive(c) \/ Leave(c) \/ Undo(c) \/ NoHeadroom(c)
    BY <2>1 DEF CheckActive, Leave, Undo, NoHeadroom, GiveBack, ContextPositions
  <2>2. CASE Accept(c) \/ Reserve(c)
    BY <2>2 DEF Accept, Reserve, ReleasePositions
  <2>3. CASE Enqueue(c)
    BY <2>3 DEF Enqueue, ReleasePositions
  <2>4. CASE WakeUp(c)
    BY <2>4 DEF WakeUp, Woken
  <2> QED BY <1>1, <2>1, <2>2, <2>3, <2>4 DEF ContextStep
<1>2. ASSUME NEW c \in Contexts, NEW k \in Kinds, Capture(c, k) PROVE Quieted'
  BY <1>2 DEF Capture
<1>3. ASSUME NEW d \in Directions, ThreadStep(d) PROVE Quieted'
  <2>1. CASE Xmit(d)
    BY <1>3, <2>1 DEF Xmit, Entered
  <2>2. CASE Drained(d) \/ Count(d) \/ Dequeue(d)
    BY <1>3, <2>2 DEF Drained, Count, Dequeue, Draining
  <2>3. CASE WaitEvent(d) \/ ThreadDrop(d) \/ ThreadCheck(d) \/ XmitReturns(d)
    BY <1>3, <2>3 DEF WaitEvent, ThreadDrop, ThreadCheck, XmitReturns
  <2> QED BY <1>3, <2>1, <2>2, <2>3 DEF ThreadStep
<1>4. CASE NetdevDown \/ NetdevNotReady \/ NetdevUpCheck \/ PeerUnregister
  BY <1>4 DEF NetdevDown, NetdevNotReady, NetdevUpCheck, PeerUnregister, ReleasePeer, StartPurge, Registered
<1>5. CASE NotifierStep
  BY <1>5 DEF NotifierStep, Dequeue, Count, Drained, NetdevUpSet, Draining, Stored
<1>6. CASE ReleaseStep
  <2>1. CASE ReleaseStart \/ ReleaseStopW2p \/ ReleaseStopP2w \/ ReleasePurge \/ ReleasePut
    BY <2>1 DEF ReleaseStart, ReleaseStopW2p, ReleaseStopP2w, ReleasePurge, ReleasePut, ReleaseMove, Woken, InFlight
  <2>2. CASE Dequeue("release") \/ Count("release") \/ Drained("release")
    BY <2>2 DEF Dequeue, Count, Drained, Draining, Stored
  <2> QED BY <1>6, <2>1, <2>2 DEF ReleaseStep
<1>7. CASE DeinitDeactivate \/ DeinitStep
  BY <1>7 DEF DeinitDeactivate, DeinitStep, DeinitReplayDown, DeinitReplayUnregister, DeinitFlush,
              DeinitUnpublish, DeinitFree, DeinitMove, StartPurge, ReleasePeer, InFlight
<1>8. CASE UNCHANGED vars
  BY <1>8 DEF vars
<1> QED BY <1>1, <1>2, <1>3, <1>4, <1>5, <1>6, <1>7, <1>8 DEF Next

-----------------------------------------------------------------------------
(* The counters.  Every step moves at most one agent into or out of the     *)
(* counted positions.                                                       *)

CountInv == qlen \in [Directions -> Int] /\ QlenExact /\ HardCap

\* The sets whose sizes are compared are finite.
LEMMA CountedFinite ==
  /\ IsFiniteSet(Agents)
  /\ \A d : IsFiniteSet(Counted(d)) /\ Cardinality(Counted(d)) \in Nat
  /\ \A d : IsFiniteSet(Won(d)) /\ Cardinality(Won(d)) \in Nat
<1>1. IsFiniteSet(Air \cup Wire) /\ IsFiniteSet(Local)
  BY FS_Union, DataPathAssumption DEF DataPathAssumption
<1>2. IsFiniteSet((Air \cup Wire) \cup Local)
  BY <1>1, FS_Union
<1>3. \A S, x : IsFiniteSet(S) => IsFiniteSet(S \cup {x})
  BY FS_AddElement
<1> DEFINE entered == (((Air \cup Wire) \cup Local) \cup {Fwd}) \cup {Tap}
<1>4. IsFiniteSet(entered)
  BY <1>2, <1>3
<1>5. Agents = (((entered \cup {"w2p"}) \cup {"p2w"}) \cup {"notifier"}) \cup {"release"}
  BY DEF Agents, Contexts, Directions
<1> HIDE DEF entered
<1>6. IsFiniteSet(Agents)
  BY <1>3, <1>4, <1>5
<1>7. \A d : Counted(d) \in SUBSET Agents /\ Won(d) \in SUBSET Agents
  BY AgentFacts DEF Counted, Won
<1>8. ASSUME NEW d PROVE IsFiniteSet(Counted(d)) /\ IsFiniteSet(Won(d))
  BY <1>6, <1>7, FS_Subset
<1>9. ASSUME NEW d PROVE Cardinality(Counted(d)) \in Nat /\ Cardinality(Won(d)) \in Nat
  BY <1>8, FS_CardinalityType
<1> QED BY <1>6, <1>8, <1>9

\* A context that has won a slot is counted.
LEMMA WonCounted ==
  ASSUME Placed, NEW d \in Directions
  PROVE  Cardinality(Won(d)) <= Cardinality(Counted(d))
<1>1. Won(d) \in SUBSET Counted(d)
  BY AgentFacts DEF Won, Counted, Draining, Directions
<1> QED BY <1>1, CountedFinite, FS_Subset

\* Steps that change no counted agent's position, no queue and no counter.
LEMMA CountUnmoved ==
  ASSUME Placed, CountInv, UNCHANGED <<queue, qlen>>,
         \A a \in Agents : pc[a] \in {"over", "won", "count"} \/ pc'[a] \in {"over", "won", "count"}
                           => pc'[a] = pc[a] /\ dir'[a] = dir[a]
  PROVE  CountInv'
<1>1. \A d : Counted(d)' = Counted(d) /\ Won(d)' = Won(d)
  BY AgentFacts DEF Counted, Won, Draining
<1> QED BY <1>1 DEF CountInv, QlenExact, HardCap

\* Reserving: the counter and the counted contexts grow together; whoever finds
\* the counter within the cap leaves room for its frame.
LEMMA CountReserve ==
  ASSUME Placed, Stored, CountInv, NEW c \in Contexts, Reserve(c)
  PROVE  CountInv'
<1>1. PICK d \in Directions : dir[c] = d /\ c \in Agents /\ c \notin Directions
  BY AgentFacts DEF Placed, Directions
<1>2. c \notin Counted(d) /\ Counted(d)' = Counted(d) \cup {c}
  BY <1>1 DEF Reserve, Counted, Draining, Placed
<1>3. Won(d)' = IF qlen[d] + 1 > Cap THEN Won(d) ELSE Won(d) \cup {c}
  BY <1>1 DEF Reserve, Won, Placed
<1>4. \A e \in Directions : e # d => Counted(e)' = Counted(e) /\ Won(e)' = Won(e)
  BY <1>1 DEF Reserve, Counted, Won, Draining, Placed
<1>5. Cardinality(Counted(d)') = Cardinality(Counted(d)) + 1
  BY <1>2, CountedFinite, FS_AddElement
<1>6. Cardinality(Won(d) \cup {c}) <= Cardinality(Won(d)) + 1
  <2>1. IsFiniteSet(Won(d)) /\ Cardinality(Won(d)) \in Nat
    BY CountedFinite
  <2>2. Cardinality(Won(d) \cup {c}) = IF c \in Won(d) THEN Cardinality(Won(d)) ELSE Cardinality(Won(d)) + 1
    BY <2>1, FS_AddElement
  <2> QED BY <2>1, <2>2
<1>7. Cardinality(Won(d)) <= Cardinality(Counted(d))
  BY <1>1, WonCounted
<1>8. queue' = queue /\ qlen' = [qlen EXCEPT ![d] = @ + 1] /\ \A e \in Directions : Len(queue[e]) \in Nat
  BY <1>1 DEF Reserve, Stored
<1>9. QlenExact'
  BY <1>1, <1>4, <1>5, <1>8, CountedFinite DEF CountInv, QlenExact
<1>10. Len(queue[d]) + Cardinality(Won(d)') <= Cap
  <2>1. CASE qlen[d] + 1 > Cap
    BY <1>1, <1>3, <2>1 DEF CountInv, HardCap
  <2>2. CASE ~(qlen[d] + 1 > Cap)
    <3>1. qlen[d] = Len(queue[d]) + Cardinality(Counted(d))
      BY DEF CountInv, QlenExact
    <3>2. /\ Len(queue[d]) \in Nat /\ Cardinality(Counted(d)) \in Nat /\ Cardinality(Won(d)) \in Nat
          /\ Cardinality(Won(d) \cup {c}) \in Nat /\ Cap \in Nat
      BY <1>8, CountedFinite, FS_AddElement, FS_CardinalityType, DataPathAssumption DEF DataPathAssumption
    <3> QED BY <1>3, <1>6, <1>7, <2>2, <3>1, <3>2
  <2> QED BY <2>1, <2>2
<1>11. HardCap'
  BY <1>1, <1>4, <1>8, <1>10 DEF CountInv, HardCap
<1> QED BY <1>1, <1>8, <1>9, <1>11 DEF CountInv

\* Giving a slot back, by a producer or after a dequeue.
LEMMA CountGiveBack ==
  ASSUME Placed, Stored, CountInv, NEW a \in Agents, NEW d \in Directions, Draining(a) = d,
         pc[a] \in {"over", "won", "count"}, pc'[a] \notin {"over", "won", "count"},
         \A b \in Agents : b # a => pc'[b] = pc[b],
         dir' = dir, queue' = queue, qlen' = [qlen EXCEPT ![d] = @ - 1]
  PROVE  CountInv'
<1>1. a \in Counted(d) /\ Counted(d)' = Counted(d) \ {a}
  BY DEF Counted, Draining
<1>2. Won(d)' \in SUBSET Won(d)
  BY AgentFacts DEF Won
<1>3. \A e \in Directions : e # d => Counted(e)' = Counted(e) /\ Won(e)' \in SUBSET Won(e)
  BY AgentFacts DEF Counted, Won, Draining
<1>4. Cardinality(Counted(d)') = Cardinality(Counted(d)) - 1
  BY <1>1, CountedFinite, FS_RemoveElement
<1>5. \A e \in Directions : Cardinality(Won(e)') <= Cardinality(Won(e)) /\ Cardinality(Won(e)') \in Nat
  <2>1. ASSUME NEW e \in Directions PROVE IsFiniteSet(Won(e)) /\ Won(e)' \in SUBSET Won(e)
    BY <1>2, <1>3, CountedFinite
  <2>2. ASSUME NEW e \in Directions PROVE IsFiniteSet(Won(e)') /\ Cardinality(Won(e)') <= Cardinality(Won(e))
    BY <2>1, FS_Subset
  <2> QED BY <2>2, FS_CardinalityType
<1>6. \A e \in Directions : Len(queue[e]) \in Nat /\ Cardinality(Won(e)) \in Nat /\ Cardinality(Counted(e)) \in Nat
  BY CountedFinite DEF Stored
<1>7. QlenExact'
  BY <1>3, <1>4, <1>6 DEF CountInv, QlenExact
<1>8. HardCap'
  <2> SUFFICES ASSUME NEW e \in Directions PROVE Len(queue[e]) + Cardinality(Won(e)') <= Cap
    BY DEF HardCap
  <2>1. Len(queue[e]) + Cardinality(Won(e)) <= Cap
    BY DEF CountInv, HardCap
  <2> QED BY <1>5, <1>6, <2>1, DataPathAssumption DEF DataPathAssumption
<1> QED BY <1>7, <1>8 DEF CountInv

\* skb_queue_tail: the winner's slot becomes the frame's.
LEMMA CountEnqueue ==
  ASSUME Placed, Stored, Stored', CountInv, NEW c \in Contexts, Enqueue(c)
  PROVE  CountInv'
<1>1. PICK d \in Directions : dir[c] = d /\ c \in Agents /\ c \notin Directions
  BY AgentFacts DEF Placed, Directions
<1>2. c \in Counted(d) /\ Counted(d)' = Counted(d) \ {c}
  BY <1>1 DEF Enqueue, Counted, Draining, Placed
<1>3. c \in Won(d) /\ Won(d)' = Won(d) \ {c}
  BY <1>1 DEF Enqueue, Won, Placed
<1>4. \A e \in Directions : e # d => Counted(e)' = Counted(e) /\ Won(e)' = Won(e) /\ queue'[e] = queue[e]
  BY <1>1 DEF Enqueue, Counted, Won, Draining, Placed, Stored
<1>5. Cardinality(Counted(d)') = Cardinality(Counted(d)) - 1 /\ Cardinality(Won(d)') = Cardinality(Won(d)) - 1
  BY <1>2, <1>3, CountedFinite, FS_RemoveElement
<1>6. PICK f : queue' = [queue EXCEPT ![d] = Append(@, f)]
  BY <1>1 DEF Enqueue
<1>7. Len(queue'[d]) = Len(queue[d]) + 1 /\ Len(queue[d]) \in Nat /\ qlen' = qlen
  <2>1. queue[d] \in Seq(Frames) /\ queue'[d] = Append(queue[d], f)
    BY <1>6 DEF Stored
  <2>2. f \in Frames
    <3>1. Append(queue[d], f) \in Seq(Frames)
      BY <2>1 DEF Stored
    <3>2. Append(queue[d], f)[Len(queue[d]) + 1] = f /\ Len(Append(queue[d], f)) = Len(queue[d]) + 1
      BY <2>1
    <3> QED BY <2>1, <3>1, <3>2
  <2> QED BY <2>1, <2>2 DEF Enqueue
<1>8. Cardinality(Counted(d)) \in Nat /\ Cardinality(Won(d)) \in Nat
  BY CountedFinite
<1>9. QlenExact'
  <2> SUFFICES ASSUME NEW e \in Directions
               PROVE  qlen'[e] = Len(queue'[e]) + Cardinality(Counted(e)')
    BY DEF QlenExact
  <2>1. qlen[e] = Len(queue[e]) + Cardinality(Counted(e)) /\ qlen' = qlen
    BY <1>7 DEF CountInv, QlenExact
  <2>2. CASE e = d
    BY <1>5, <1>7, <1>8, <2>1, <2>2
  <2>3. CASE e # d
    BY <1>4, <2>1, <2>3
  <2> QED BY <2>2, <2>3
<1>10. HardCap'
  <2> SUFFICES ASSUME NEW e \in Directions PROVE Len(queue'[e]) + Cardinality(Won(e)') <= Cap
    BY DEF HardCap
  <2>1. Len(queue[e]) + Cardinality(Won(e)) <= Cap
    BY DEF CountInv, HardCap
  <2>2. CASE e = d
    BY <1>5, <1>7, <1>8, <2>1, <2>2
  <2>3. CASE e # d
    BY <1>4, <2>1, <2>3
  <2> QED BY <2>2, <2>3
<1> QED BY <1>7, <1>9, <1>10 DEF CountInv

\* skb_dequeue: the frame's slot is its taker's until the counter follows.
LEMMA CountDequeue ==
  ASSUME Placed, Stored, CountInv, NEW a \in Drainers, Dequeue(a)
  PROVE  CountInv'
<1>1. PICK d \in Directions : Draining(a) = d
  BY AgentFacts DEF Placed, Drainers, Draining, Directions
<1>2. a \in Agents /\ a \notin Contexts
  BY AgentFacts DEF Drainers, Directions
<1>3. a \notin Counted(d) /\ Counted(d)' = Counted(d) \cup {a}
  BY <1>1, <1>2 DEF Dequeue, Counted, Draining, Placed
<1>4. /\ \A e \in Directions : Won(e)' = Won(e)
      /\ \A e \in Directions : e # d => Counted(e)' = Counted(e) /\ queue'[e] = queue[e]
  BY <1>1, <1>2, AgentFacts DEF Dequeue, Counted, Won, Draining, Placed, Stored
<1>5. Cardinality(Counted(d)') = Cardinality(Counted(d)) + 1
  BY <1>3, CountedFinite, FS_AddElement
<1>6. Len(queue'[d]) = Len(queue[d]) - 1 /\ Len(queue[d]) \in Nat /\ qlen' = qlen
  BY <1>1 DEF Dequeue, Stored
<1>7. \A e \in Directions : Cardinality(Counted(e)) \in Nat /\ Cardinality(Won(e)) \in Nat
  BY CountedFinite
<1>8. QlenExact'
  <2> SUFFICES ASSUME NEW e \in Directions
               PROVE  qlen'[e] = Len(queue'[e]) + Cardinality(Counted(e)')
    BY DEF QlenExact
  <2>1. qlen[e] = Len(queue[e]) + Cardinality(Counted(e)) /\ qlen' = qlen
    BY <1>6 DEF CountInv, QlenExact
  <2>2. CASE e = d
    BY <1>5, <1>6, <1>7, <2>1, <2>2
  <2>3. CASE e # d
    BY <1>4, <2>1, <2>3
  <2> QED BY <2>2, <2>3
<1>9. HardCap'
  <2> SUFFICES ASSUME NEW e \in Directions PROVE Len(queue'[e]) + Cardinality(Won(e)') <= Cap
    BY DEF HardCap
  <2>1. Len(queue[e]) + Cardinality(Won(e)) <= Cap /\ Cap \in Nat /\ Won(e)' = Won(e)
    BY <1>4, DataPathAssumption DEF CountInv, HardCap, DataPathAssumption
  <2>2. CASE e = d
    BY <1>6, <1>7, <2>1, <2>2
  <2>3. CASE e # d
    BY <1>4, <2>1, <2>3
  <2> QED BY <2>2, <2>3
<1> QED BY <1>6, <1>8, <1>9 DEF CountInv

\* The counters through every step.
LEMMA CountStep == Control /\ Stored' /\ CountInv /\ [Next]_vars => CountInv'
<1> SUFFICES ASSUME Control, Stored', CountInv, [Next]_vars PROVE CountInv'
  OBVIOUS
<1> USE AgentFacts DEF Control, Placed
<1>1. ASSUME NEW c \in Contexts, ContextStep(c) PROVE CountInv'
  <2>0. c \in Agents /\ c \notin Directions /\ dir[c] \in Directions /\ Draining(c) = dir[c]
    BY DEF Draining, Directions
  <2>1. CASE CheckActive(c) \/ Leave(c) \/ Accept(c)
    BY <2>0, <2>1, CountUnmoved DEF CheckActive, Leave, Accept, GiveBack
  <2>2. CASE Undo(c) \/ NoHeadroom(c)
    BY <2>0, <2>2, CountGiveBack DEF Undo, NoHeadroom, GiveBack
  <2>3. CASE WakeUp(c)
    BY <2>0, <2>3, CountUnmoved DEF WakeUp, Woken
  <2> QED BY <1>1, <2>1, <2>2, <2>3, CountReserve, CountEnqueue DEF ContextStep
<1>2. ASSUME NEW c \in Contexts, NEW k \in Kinds, Capture(c, k) PROVE CountInv'
  BY <1>2, CountUnmoved DEF Capture
<1>3. ASSUME NEW a \in Drainers, Dequeue(a) \/ Count(a) \/ Drained(a) PROVE CountInv'
  <2>0. a \in Agents /\ Draining(a) \in Directions
    BY DEF Drainers, Draining
  <2>1. CASE Count(a)
    BY <2>0, <2>1, CountGiveBack DEF Count
  <2>2. CASE Drained(a)
    BY <2>0, <2>2, CountUnmoved DEF Drained
  <2> QED BY <1>3, <2>1, <2>2, CountDequeue
<1>4. ASSUME NEW d \in Directions, ThreadStep(d) PROVE CountInv'
  <2>1. CASE Xmit(d)
    BY <2>1, CountUnmoved DEF Xmit, Entered, Nested, Directions
  <2>2. CASE WaitEvent(d) \/ ThreadDrop(d) \/ ThreadCheck(d) \/ XmitReturns(d)
    BY <2>2, CountUnmoved DEF WaitEvent, ThreadDrop, ThreadCheck, XmitReturns
  <2> QED BY <1>3, <1>4, <2>1, <2>2 DEF ThreadStep, Drainers
<1>5. CASE NetdevDown \/ NetdevNotReady \/ NetdevUpCheck \/ PeerUnregister \/ NetdevUpSet
  BY <1>5, CountUnmoved DEF NetdevDown, NetdevNotReady, NetdevUpCheck, NetdevUpSet, PeerUnregister,
              ReleasePeer, StartPurge, Registered, Closed
<1>6. CASE ReleaseStart \/ ReleaseStopW2p \/ ReleaseStopP2w \/ ReleasePurge \/ ReleasePut
  BY <1>6, CountUnmoved DEF ReleaseStart, ReleaseStopW2p, ReleaseStopP2w, ReleasePurge, ReleasePut, ReleaseMove, Woken
<1>7. CASE DeinitDeactivate \/ DeinitStep
  <2>1. CASE DeinitFree
    <3>1. queue' = queue
      BY <2>1 DEF DeinitFree, DeinitMove, Closed, Quieted, Stored
    <3> QED BY <2>1, <3>1, CountUnmoved DEF DeinitFree
  <2>2. CASE DeinitReplayUnregister
    BY <2>2, CountUnmoved DEF DeinitReplayUnregister, ReleasePeer, Closed
  <2>3. CASE DeinitDeactivate \/ DeinitReplayDown \/ DeinitFlush \/ DeinitUnpublish
    BY <2>3, CountUnmoved DEF DeinitDeactivate, DeinitReplayDown, DeinitFlush, DeinitUnpublish, StartPurge
  <2> QED BY <1>7, <2>1, <2>2, <2>3 DEF DeinitStep
<1>8. CASE UNCHANGED vars
  BY <1>8, CountUnmoved DEF vars
<1> QED BY <1>1, <1>2, <1>3, <1>4, <1>5, <1>6, <1>7, <1>8 DEF Next, NotifierStep, ReleaseStep, Drainers

-----------------------------------------------------------------------------
(* The frames.                                                              *)

Holding == {a \in Agents : hand[a] # NoFrame}
SkbInv  == live \in Int /\ SkbsAccounted

\* Finitely many agents hold a frame.
LEMMA HoldingFinite == IsFiniteSet(Holding) /\ Cardinality(Holding) \in Nat
<1>1. Holding \in SUBSET Agents
  BY DEF Holding
<1> QED BY <1>1, CountedFinite, FS_Subset, FS_CardinalityType

\* An agent takes a frame into its empty hand, or gives its frame away.
LEMMA HandChange ==
  ASSUME Stored, NEW a \in Agents, NEW f, hand' = [hand EXCEPT ![a] = f]
  PROVE  /\ hand[a] = NoFrame /\ f # NoFrame => Cardinality(Holding') = Cardinality(Holding) + 1
         /\ hand[a] # NoFrame /\ f = NoFrame => Cardinality(Holding') = Cardinality(Holding) - 1
<1>1. ASSUME hand[a] = NoFrame, f # NoFrame PROVE Cardinality(Holding') = Cardinality(Holding) + 1
  <2>1. a \notin Holding /\ Holding' = Holding \cup {a}
    BY <1>1 DEF Holding, Stored
  <2> QED BY <2>1, HoldingFinite, FS_AddElement
<1>2. ASSUME hand[a] # NoFrame, f = NoFrame PROVE Cardinality(Holding') = Cardinality(Holding) - 1
  <2>1. a \in Holding /\ Holding' = Holding \ {a}
    BY <1>2 DEF Holding, Stored
  <2> QED BY <2>1, HoldingFinite, FS_RemoveElement
<1> QED BY <1>1, <1>2

\* The lengths are numbers.
LEMMA Lengths == ASSUME Stored PROVE Len(queue["w2p"]) \in Nat /\ Len(queue["p2w"]) \in Nat
BY DEF Stored, Directions

\* Nothing changes hands.
LEMMA SkbUnmoved ==
  ASSUME SkbInv, UNCHANGED <<hand, queue, live>>
  PROVE  SkbInv'
BY DEF SkbInv, SkbsAccounted

\* A frame is captured, or copied on the way in.
LEMMA SkbCaptured ==
  ASSUME Stored, SkbInv, NEW a \in Agents, hand[a] = NoFrame, NEW f, f # NoFrame,
         hand' = [hand EXCEPT ![a] = f], queue' = queue, live' = live + 1
  PROVE  SkbInv'
<1>1. Cardinality(Holding') = Cardinality(Holding) + 1
  BY HandChange
<1>2. live = Cardinality(Holding) + Len(queue["w2p"]) + Len(queue["p2w"]) /\ live \in Int
  BY DEF SkbInv, SkbsAccounted, Holding
<1>3. live' = Cardinality(Holding') + Len(queue'["w2p"]) + Len(queue'["p2w"]) /\ live' \in Int
  BY <1>1, <1>2, HoldingFinite, Lengths
<1> QED BY <1>3 DEF SkbInv, SkbsAccounted, Holding

\* A frame is given to the stack, the driver or kfree_skb.
LEMMA SkbGivenAway ==
  ASSUME Stored, SkbInv, NEW a \in Agents, hand[a] # NoFrame,
         hand' = [hand EXCEPT ![a] = NoFrame], queue' = queue, live' = live - 1
  PROVE  SkbInv'
<1>1. Cardinality(Holding') = Cardinality(Holding) - 1
  BY HandChange
<1>2. live = Cardinality(Holding) + Len(queue["w2p"]) + Len(queue["p2w"]) /\ live \in Int
  BY DEF SkbInv, SkbsAccounted, Holding
<1>3. live' = Cardinality(Holding') + Len(queue'["w2p"]) + Len(queue'["p2w"]) /\ live' \in Int
  BY <1>1, <1>2, HoldingFinite, Lengths
<1> QED BY <1>3 DEF SkbInv, SkbsAccounted, Holding

\* A frame moves between a hand and a queue.
LEMMA SkbQueued ==
  ASSUME Stored, SkbInv, NEW d \in Directions, NEW n \in Int,
         Cardinality(Holding') = Cardinality(Holding) - n, Len(queue'[d]) = Len(queue[d]) + n,
         \A e \in Directions : e # d => queue'[e] = queue[e], live' = live
  PROVE  SkbInv'
<1>1. live = Cardinality(Holding) + Len(queue["w2p"]) + Len(queue["p2w"]) /\ live \in Int
  BY DEF SkbInv, SkbsAccounted, Holding
<1>2. CASE d = "w2p"
  <2>1. queue'["p2w"] = queue["p2w"]
    BY <1>2 DEF Directions
  <2>2. live' = Cardinality(Holding') + Len(queue'["w2p"]) + Len(queue'["p2w"])
    BY <1>1, <1>2, <2>1, HoldingFinite, Lengths
  <2> QED BY <1>1, <2>2 DEF SkbInv, SkbsAccounted, Holding
<1>3. CASE d = "p2w"
  <2>1. queue'["w2p"] = queue["w2p"]
    BY <1>3 DEF Directions
  <2>2. live' = Cardinality(Holding') + Len(queue'["w2p"]) + Len(queue'["p2w"])
    BY <1>1, <1>3, <2>1, HoldingFinite, Lengths
  <2> QED BY <1>1, <2>2 DEF SkbInv, SkbsAccounted, Holding
<1> QED BY <1>2, <1>3 DEF Directions

\* Every sk_buff through every step.
LEMMA SkbStep == Control /\ Stored' /\ SkbInv /\ [Next]_vars => SkbInv'
<1> SUFFICES ASSUME Control, Stored', SkbInv, [Next]_vars PROVE SkbInv'
  OBVIOUS
<1> USE AgentFacts DEF Control, Placed
<1>0. ASSUME NEW c \in Contexts PROVE c \in Agents /\ (hand[c] = NoFrame <=> pc[c] \in {"out", "wake"})
  BY <1>0 DEF Stored
<1>1. ASSUME NEW c \in Contexts, ContextStep(c) PROVE SkbInv'
  <2>1. CASE Accept(c) \/ Reserve(c) \/ WakeUp(c)
    BY <2>1, SkbUnmoved DEF Accept, Reserve, WakeUp
  <2>2. CASE Leave(c) \/ Undo(c) \/ NoHeadroom(c)
    BY <1>0, <2>2, SkbGivenAway DEF Leave, Undo, NoHeadroom, GiveBack
  <2>3. CASE CheckActive(c)
    BY <1>0, <2>3, SkbGivenAway, SkbUnmoved DEF CheckActive, GiveBack
  <2>4. CASE Enqueue(c)
    <3>1. Cardinality(Holding') = Cardinality(Holding) - 1
      BY <1>0, <2>4, HandChange DEF Enqueue
    <3>2. PICK d \in Directions : dir[c] = d
      BY DEF Directions
    <3>3. PICK f : queue' = [queue EXCEPT ![d] = Append(@, f)]
      BY <2>4, <3>2 DEF Enqueue
    <3>4. Len(queue'[d]) = Len(queue[d]) + 1 /\ \A e \in Directions : e # d => queue'[e] = queue[e]
      <4>1. queue[d] \in Seq(Frames) /\ queue'[d] = Append(queue[d], f)
        BY <3>3 DEF Stored
      <4> QED BY <3>3, <4>1 DEF Stored
    <3>5. live' = live
      BY <2>4 DEF Enqueue
    <3> QED BY <3>1, <3>4, <3>5, SkbQueued
  <2> QED BY <1>1, <2>1, <2>2, <2>3, <2>4 DEF ContextStep
<1>2. ASSUME NEW c \in Contexts, NEW k \in Kinds, Capture(c, k) PROVE SkbInv'
  <2>1. [from |-> Origin(c), kind |-> k] # NoFrame
    BY DEF Origin, NoFrame
  <2> QED BY <1>0, <1>2, <2>1, SkbCaptured DEF Capture
<1>3. ASSUME NEW a \in Drainers, Dequeue(a) \/ Count(a) \/ Drained(a) PROVE SkbInv'
  <2>0. a \in Agents /\ (pc[a] = "count" => hand[a] # NoFrame) /\ (pc[a] = "drain" => hand[a] = NoFrame)
    BY DEF Drainers, Stored
  <2>1. CASE Count(a)
    BY <2>0, <2>1, SkbGivenAway, SkbUnmoved DEF Count
  <2>2. CASE Drained(a)
    BY <2>0, <2>2, SkbUnmoved DEF Drained
  <2>3. CASE Dequeue(a)
    <3>1. PICK d \in Directions : Draining(a) = d
      BY DEF Drainers, Draining, Directions
    <3>2. Head(queue[d]) \in Frames /\ Head(queue[d]) # NoFrame
      <4>1. Head(queue[d]) \in Frames
        BY <2>3, <3>1 DEF Dequeue, Stored
      <4>2. \A f \in Frames : f # NoFrame
        BY DEF Frames, NoFrame
      <4> QED BY <4>1, <4>2
    <3>3. Cardinality(Holding') = Cardinality(Holding) + 1
      BY <2>0, <2>3, <3>1, <3>2, HandChange DEF Dequeue
    <3>4. Len(queue'[d]) = Len(queue[d]) - 1 /\ \A e \in Directions : e # d => queue'[e] = queue[e]
      BY <2>3, <3>1 DEF Dequeue, Stored
    <3>5. live' = live
      BY <2>3 DEF Dequeue
    <3>6. PICK n \in Int : n = -1
      OBVIOUS
    <3>7. Cardinality(Holding') = Cardinality(Holding) - n /\ Len(queue'[d]) = Len(queue[d]) + n
      BY <3>3, <3>4, <3>6, HoldingFinite, Lengths DEF Directions
    <3> QED BY <3>4, <3>5, <3>7, SkbQueued
  <2> QED BY <1>3, <2>1, <2>2, <2>3
<1>4. ASSUME NEW d \in Directions, ThreadStep(d) PROVE SkbInv'
  <2>0. d \in Agents /\ (pc[d] \in {"check", "xmit"} => hand[d] # NoFrame)
    BY DEF Stored
  <2>1. CASE Xmit(d)
    <3>1. CASE Entered(d) = {}
      BY <2>0, <2>1, <3>1, SkbGivenAway DEF Xmit
    <3>2. CASE Entered(d) # {}
      <4>1. PICK c \in Entered(d) : hand' = [hand EXCEPT ![d] = NoFrame, ![c] = hand[d]]
        BY <2>1, <3>2 DEF Xmit
      <4>2. c \in Contexts /\ c # d /\ hand[c] = NoFrame /\ hand[d] # NoFrame
        BY <1>0, <2>0, <2>1, <4>1 DEF Entered, Nested, Xmit, Directions
      <4>3. c \notin Holding /\ d \in Holding /\ Holding' = (Holding \cup {c}) \ {d}
        <5>1. \A a \in Agents : hand'[a] = IF a = c THEN hand[d] ELSE IF a = d THEN NoFrame ELSE hand[a]
          BY <2>0, <4>1, <4>2 DEF Stored
        <5> QED BY <2>0, <4>2, <5>1 DEF Holding
      <4>4. IsFiniteSet(Holding \cup {c}) /\ Cardinality(Holding \cup {c}) = Cardinality(Holding) + 1
        BY <4>3, HoldingFinite, FS_AddElement
      <4>5. Cardinality(Holding') = (Cardinality(Holding) + 1) - 1
        BY <4>3, <4>4, FS_RemoveElement
      <4>6. queue' = queue /\ live' = live
        BY <2>1, <3>2 DEF Xmit
      <4>7. live = Cardinality(Holding) + Len(queue["w2p"]) + Len(queue["p2w"]) /\ live \in Int
        BY DEF SkbInv, SkbsAccounted, Holding
      <4>8. live' = Cardinality(Holding') + Len(queue'["w2p"]) + Len(queue'["p2w"]) /\ live' \in Int
        BY <4>5, <4>6, <4>7, HoldingFinite
      <4> QED BY <4>8 DEF SkbInv, SkbsAccounted, Holding
    <3> QED BY <3>1, <3>2
  <2>2. CASE ThreadDrop(d)
    BY <2>0, <2>2, SkbGivenAway DEF ThreadDrop
  <2>3. CASE WaitEvent(d) \/ ThreadCheck(d) \/ XmitReturns(d)
    BY <2>3, SkbUnmoved DEF WaitEvent, ThreadCheck, XmitReturns
  <2> QED BY <1>3, <1>4, <2>1, <2>2, <2>3 DEF ThreadStep, Drainers
<1>5. CASE NetdevDown \/ NetdevNotReady \/ NetdevUpCheck \/ PeerUnregister \/ NetdevUpSet
  BY <1>5, SkbUnmoved DEF NetdevDown, NetdevNotReady, NetdevUpCheck, NetdevUpSet, PeerUnregister
<1>6. CASE ReleaseStart \/ ReleaseStopW2p \/ ReleaseStopP2w \/ ReleasePurge \/ ReleasePut
  BY <1>6, SkbUnmoved DEF ReleaseStart, ReleaseStopW2p, ReleaseStopP2w, ReleasePurge, ReleasePut
<1>7. CASE DeinitDeactivate \/ DeinitStep
  <2>1. CASE DeinitFree
    <3>1. queue' = queue /\ hand' = hand /\ Len(queue["w2p"]) = 0 /\ Len(queue["p2w"]) = 0
      BY <2>1 DEF DeinitFree, DeinitMove, Closed, Quieted, Stored, Directions
    <3>2. live' = live
      BY <2>1, <3>1 DEF DeinitFree, SkbInv
    <3> QED BY <3>1, <3>2, SkbUnmoved
  <2>2. CASE DeinitDeactivate \/ DeinitReplayUnregister \/ DeinitReplayDown \/ DeinitFlush \/ DeinitUnpublish
    BY <2>2, SkbUnmoved DEF DeinitDeactivate, DeinitReplayUnregister, DeinitReplayDown, DeinitFlush, DeinitUnpublish
  <2> QED BY <1>7, <2>1, <2>2 DEF DeinitStep
<1>8. CASE UNCHANGED vars
  BY <1>8, SkbUnmoved DEF vars
<1> QED BY <1>1, <1>2, <1>3, <1>4, <1>5, <1>6, <1>7, <1>8 DEF Next, NotifierStep, ReleaseStep, Drainers

-----------------------------------------------------------------------------
\* prepare_to_wait before the test and skb_queue_tail before wake_up: a kthread
\* goes to sleep on an empty queue only, a frame that arrives behind its test
\* has a producer with a wake_up ahead of it, and so has the stop bit.
LEMMA PendingStep == Placed /\ Nested /\ Stored /\ WakeUpPending /\ [Next]_vars => WakeUpPending'
<1> SUFFICES ASSUME Placed, Nested, Stored, WakeUpPending, [Next]_vars PROVE WakeUpPending'
  OBVIOUS
<1> USE AgentFacts DEF Placed, WakeUpPending, Directions
<1>0. ASSUME UNCHANGED stop,
             \A d \in Directions : pc'[d] = "asleep" => pc[d] = "asleep" /\ (queue[d] = << >> => queue'[d] = << >>),
             \A c \in Contexts : pc[c] = "wake" => pc'[c] = "wake" /\ dir'[c] = dir[c]
      PROVE WakeUpPending'
  BY <1>0
<1>1. ASSUME NEW c \in Contexts, ContextStep(c) PROVE WakeUpPending'
  <2>1. CASE CheckActive(c) \/ Leave(c) \/ Undo(c) \/ NoHeadroom(c)
    <3>1. UNCHANGED <<queue, stop, dir>> /\ pc[c] # "wake"
      BY <2>1 DEF CheckActive, Leave, Undo, NoHeadroom
    <3>2. \A a \in Agents : a # c => pc'[a] = pc[a]
      BY <2>1 DEF CheckActive, Leave, Undo, NoHeadroom, GiveBack
    <3> QED BY <1>0, <3>1, <3>2
  <2>2. CASE Accept(c) \/ Reserve(c)
    BY <1>0, <2>2 DEF Accept, Reserve
  <2>3. CASE Enqueue(c)
    <3>1. /\ pc' = [pc EXCEPT ![c] = "wake"] /\ UNCHANGED <<stop, dir>>
          /\ \A d \in Directions : d # dir[c] => queue'[d] = queue[d]
      BY <2>3 DEF Enqueue
    <3> QED BY <3>1
  <2>4. CASE WakeUp(c)
    <3> DEFINE d == dir[c]
    <3>1. UNCHANGED <<queue, stop, dir>> /\ pc' = [pc EXCEPT ![d] = Woken(d), ![c] = "out"]
      BY <2>4 DEF WakeUp
    <3>2. d \in Directions /\ d # c /\ pc'[d] # "asleep" /\ \A a \in Agents : a \notin {c, d} => pc'[a] = pc[a]
      BY <3>1 DEF Woken
    <3> HIDE DEF d
    <3>3. ASSUME NEW e \in Directions, pc'[e] = "asleep", queue'[e] # << >>
          PROVE \E b \in Contexts : pc'[b] = "wake" /\ dir'[b] = e
      <4>1. PICK b \in Contexts : pc[b] = "wake" /\ dir[b] = e
        BY <3>1, <3>2, <3>3
      <4>2. b # c /\ b # d
        BY <3>2, <3>3, <4>1 DEF d
      <4> QED BY <3>1, <3>2, <4>1, <4>2
    <3> QED BY <3>1, <3>2, <3>3
  <2> QED BY <1>1, <2>1, <2>2, <2>3, <2>4 DEF ContextStep
<1>2. ASSUME NEW c \in Contexts, NEW k \in Kinds, Capture(c, k) PROVE WakeUpPending'
  BY <1>0, <1>2 DEF Capture
<1>3. ASSUME NEW a \in Drainers, Dequeue(a) \/ Count(a) \/ Drained(a) PROVE WakeUpPending'
  <2>0. a \in Agents /\ a \notin Contexts /\ Draining(a) \in Directions
    BY DEF Drainers, Draining
  <2>1. UNCHANGED stop /\ \A b \in Agents : b # a => pc'[b] = pc[b] /\ dir'[b] = dir[b]
    <3>1. CASE Dequeue(a)
      BY <2>0, <3>1 DEF Dequeue
    <3>2. CASE Count(a)
      BY <2>0, <3>2 DEF Count
    <3>3. CASE Drained(a)
      BY <2>0, <3>3 DEF Drained
    <3> QED BY <1>3, <3>1, <3>2, <3>3
  <2>2. pc'[a] # "asleep"
    <3>1. CASE a \in Directions
      BY <1>3, <2>0, <3>1 DEF Dequeue, Count, Drained
    <3>2. CASE a \in {"notifier", "release"}
      BY <1>3, <2>0, <3>2 DEF Dequeue, Count, Drained
    <3> QED BY <3>1, <3>2 DEF Drainers
  <2>3. \A d \in Directions : queue[d] = << >> => queue'[d] = << >>
    <3>1. CASE Dequeue(a)
      <4>1. queue[Draining(a)] # << >> /\ queue' = [queue EXCEPT ![Draining(a)] = Tail(@)]
        BY <3>1 DEF Dequeue
      <4> QED BY <2>0, <4>1 DEF Stored
    <3>2. CASE Count(a) \/ Drained(a)
      BY <3>2 DEF Count, Drained
    <3> QED BY <1>3, <3>1, <3>2
  <2> QED BY <1>0, <2>0, <2>1, <2>2, <2>3
<1>4. ASSUME NEW d \in Directions, ThreadStep(d) PROVE WakeUpPending'
  <2>1. CASE Xmit(d)
    BY <1>0, <2>1 DEF Xmit, Entered, Nested
  <2>2. CASE WaitEvent(d)
    BY <2>2 DEF WaitEvent
  <2>3. CASE ThreadDrop(d) \/ ThreadCheck(d) \/ XmitReturns(d)
    BY <1>0, <2>3 DEF ThreadDrop, ThreadCheck, XmitReturns
  <2> QED BY <1>3, <1>4, <2>1, <2>2, <2>3 DEF ThreadStep, Drainers
<1>5. CASE NetdevDown \/ NetdevNotReady \/ NetdevUpCheck \/ PeerUnregister \/ NetdevUpSet
  BY <1>0, <1>5 DEF NetdevDown, NetdevNotReady, NetdevUpCheck, NetdevUpSet, PeerUnregister,
              ReleasePeer, StartPurge
<1>6. CASE ReleaseStart \/ ReleasePurge \/ ReleasePut
  BY <1>0, <1>6 DEF ReleaseStart, ReleasePurge, ReleasePut, ReleaseMove
<1>7. CASE ReleaseStopW2p \/ ReleaseStopP2w
  BY <1>7 DEF ReleaseStopW2p, ReleaseStopP2w, Woken
<1>8. CASE DeinitDeactivate \/ DeinitStep
  BY <1>0, <1>8 DEF DeinitDeactivate, DeinitStep, DeinitReplayDown, DeinitReplayUnregister, DeinitFlush,
              DeinitUnpublish, DeinitFree, StartPurge, ReleasePeer
<1>9. CASE UNCHANGED vars
  BY <1>9 DEF vars
<1> QED BY <1>1, <1>2, <1>3, <1>4, <1>5, <1>6, <1>7, <1>8, <1>9 DEF Next, NotifierStep, ReleaseStep, Drainers

-----------------------------------------------------------------------------
(* The rest of the state, and the initial states.                           *)

Settings ==
  /\ <<mode, hairpin>> \in Configs
  /\ active \in BOOLEAN /\ released \in BOOLEAN /\ peerRef \in BOOLEAN
  /\ stop \subseteq Directions
  /\ deinit \in {"no", "deact", "replay", "gone", "flush", "net", "rcu", "freed"}

\* The settings keep their types.
LEMMA SettingsStep == Settings /\ [Next]_vars => Settings'
<1> SUFFICES ASSUME Settings, [Next]_vars PROVE Settings'
  OBVIOUS
<1> USE DEF Settings, config
<1>1. ASSUME NEW c \in Contexts, ContextStep(c) PROVE Settings'
  BY <1>1 DEF ContextStep, CheckActive, Leave, Accept, Reserve, Undo, NoHeadroom, Enqueue, WakeUp
<1>2. ASSUME NEW c \in Contexts, NEW k \in Kinds, Capture(c, k) PROVE Settings'
  BY <1>2 DEF Capture
<1>3. ASSUME NEW a, Dequeue(a) \/ Count(a) \/ Drained(a) PROVE Settings'
  BY <1>3 DEF Dequeue, Count, Drained
<1>4. ASSUME NEW d \in Directions, ThreadStep(d) PROVE Settings'
  BY <1>3, <1>4 DEF ThreadStep, WaitEvent, ThreadDrop, ThreadCheck, Xmit, XmitReturns
<1>5. CASE NetdevDown \/ NetdevNotReady \/ NetdevUpCheck \/ PeerUnregister \/ NetdevUpSet
  BY <1>5 DEF NetdevDown, NetdevNotReady, NetdevUpCheck, NetdevUpSet, PeerUnregister, ReleasePeer
<1>6. CASE ReleaseStart \/ ReleaseStopW2p \/ ReleaseStopP2w \/ ReleasePurge \/ ReleasePut
  BY <1>6 DEF ReleaseStart, ReleaseStopW2p, ReleaseStopP2w, ReleasePurge, ReleasePut, Directions
<1>7. CASE DeinitDeactivate \/ DeinitStep
  BY <1>7 DEF DeinitDeactivate, DeinitStep, DeinitReplayDown, DeinitReplayUnregister, DeinitFlush,
              DeinitUnpublish, DeinitFree, DeinitMove, ReleasePeer
<1>8. CASE UNCHANGED vars
  BY <1>8 DEF vars
<1> QED BY <1>1, <1>2, <1>3, <1>4, <1>5, <1>6, <1>7, <1>8 DEF Next, NotifierStep, ReleaseStep

IInv == Control /\ CountInv /\ SkbInv /\ WakeUpPending /\ Settings

\* An instance that __moal_bridge_init_locked has just built satisfies the invariant.
LEMMA InitEstablishes == Init => IInv
<1> SUFFICES ASSUME Init PROVE IInv
  OBVIOUS
<1> USE AgentFacts
<1>1. Control
  <2>1. Placed
    BY DEF Init, Placed, Positions, ContextPositions, ThreadPositions, NotifierPositions,
           ReleasePositions, Directions
  <2>2. Stored
    BY DEF Init, Stored, Directions
  <2>3. Nested /\ Closed
    BY DEF Init, Nested, Closed, Directions
  <2>4. Quieted
    BY DEF Init, Quieted, Directions
  <2> QED BY <2>1, <2>2, <2>3, <2>4 DEF Control
<1>2. CountInv
  <2>1. \A d \in Directions : Counted(d) = {} /\ Won(d) = {}
    BY DEF Init, Counted, Won, Directions
  <2>2. \A d \in Directions : Len(queue[d]) = 0 /\ qlen[d] = 0
    BY DEF Init
  <2>3. qlen \in [Directions -> Int]
    BY DEF Init
  <2>4. \A d \in Directions : Cardinality(Counted(d)) = 0 /\ Cardinality(Won(d)) = 0
    BY <2>1, FS_EmptySet
  <2>5. QlenExact
    BY <2>2, <2>4 DEF QlenExact
  <2>6. HardCap
    BY <2>2, <2>4, DataPathAssumption DEF HardCap, DataPathAssumption
  <2> QED BY <2>3, <2>5, <2>6 DEF CountInv
<1>3. SkbInv
  <2>1. {a \in Agents : hand[a] # NoFrame} = {}
    BY DEF Init
  <2>2. Len(queue["w2p"]) = 0 /\ Len(queue["p2w"]) = 0 /\ live = 0
    BY DEF Init, Directions
  <2> QED BY <2>1, <2>2, FS_EmptySet DEF SkbInv, SkbsAccounted
<1>4. Settings
  <2>1. <<mode, hairpin>> \in Configs
    <3>1. PICK g \in Configs : mode = g[1] /\ hairpin = g[2]
      BY DEF Init
    <3>2. g \in {"rx_handler", "packet_type"} \X BOOLEAN
      BY DataPathAssumption DEF DataPathAssumption
    <3>3. g = <<g[1], g[2]>>
      BY <3>2
    <3> QED BY <3>1, <3>3
  <2> QED BY <2>1 DEF Init, Settings
<1>5. WakeUpPending
  BY DEF Init, WakeUpPending, Directions
<1> QED BY <1>1, <1>2, <1>3, <1>4, <1>5 DEF IInv

\* The invariant is preserved by every step.
LEMMA Inductive == IInv /\ [Next]_vars => IInv'
<1> SUFFICES ASSUME IInv, [Next]_vars PROVE IInv'
  OBVIOUS
<1>1. Placed' /\ Nested' /\ Stored' /\ Closed' /\ Quieted'
  BY PlacedStep, NestedStep, StoredStep, ClosedStep, QuietedStep DEF IInv, Control
<1>2. CountInv' /\ SkbInv' /\ WakeUpPending' /\ Settings'
  BY <1>1, CountStep, SkbStep, PendingStep, SettingsStep DEF IInv, Control
<1> QED BY <1>1, <1>2 DEF IInv, Control

\* Every reachable state satisfies the invariant.
LEMMA Invariance == Spec => []IInv
BY InitEstablishes, Inductive, PTL DEF Spec

-----------------------------------------------------------------------------
\* The atomic counters are exact: w2p_qlen and p2w_qlen equal the length of
\* their queue plus the agents inside an update, whoever takes frames away.
THEOREM CountersExact == Spec => []QlenExact
<1>1. IInv => QlenExact
  BY DEF IInv, CountInv
<1> QED BY <1>1, Invariance, PTL

\* MOAL_BR_W2P_QUEUE_MAX and MOAL_BR_P2W_QUEUE_MAX are hard caps, however many
\* contexts capture frames at once.
THEOREM CapHolds == Spec => []HardCap
<1>1. IInv => HardCap
  BY DEF IInv, CountInv
<1> QED BY <1>1, Invariance, PTL

\* No path of the bridge leaks an sk_buff or gives one away twice.
THEOREM SkbsBalance == Spec => []SkbsAccounted
<1>1. IInv => SkbsAccounted
  BY DEF IInv, SkbInv
<1> QED BY <1>1, Invariance, PTL

\* The kthreads' wake-ups are never lost: whoever sleeps over a frame has a
\* wake_up coming, for any number of producers and any interleaving with the
\* purges, the release work and the teardown.
THEOREM WakeUpNotLost == Spec => []WakeUpPending
<1>1. IInv => WakeUpPending
  BY DEF IInv
<1> QED BY <1>1, Invariance, PTL

\* When moal_bridge_peer_release_work drops the peer reference, the kthreads
\* have ended, the queues are empty and no context is past the active check.
THEOREM ReleaseQuiet == Spec => []ReleasedIsQuiet
<1>1. IInv => ReleasedIsQuiet
  <2> SUFFICES ASSUME IInv, ~peerRef PROVE
        /\ \A d \in Directions : pc[d] = "stopped" /\ queue[d] = << >>
        /\ \A c \in Contexts : pc[c] \in {"out", "found"}
    BY DEF ReleasedIsQuiet
  <2>1. pc["release"] = "done"
    BY DEF IInv, Control, Closed
  <2>2. \A d \in Directions : pc[d] = "stopped" /\ queue[d] = << >>
    BY <2>1 DEF IInv, Control, Quieted, Directions
  <2>3. \A c \in Contexts : pc[c] \in ContextPositions /\ ~PastCheck(c)
    BY <2>1 DEF IInv, Control, Placed, Quieted
  <2> QED BY <2>2, <2>3 DEF PastCheck, ContextPositions
<1> QED BY <1>1, Invariance, PTL

\* Type correctness; that neither counter nor the number of frames held goes
\* below zero is a consequence of the two accounts.
THEOREM DataPathTypeCorrect == Spec => []TypeOK
<1>1. IInv => TypeOK
  <2> SUFFICES ASSUME IInv PROVE TypeOK
    OBVIOUS
  <2>1. Placed /\ Stored /\ Quieted /\ Settings /\ CountInv /\ SkbInv
    BY DEF IInv, Control
  <2>2. qlen \in [Directions -> Nat]
    <3>1. \A d \in Directions : qlen[d] \in Nat
      <4> SUFFICES ASSUME NEW d \in Directions PROVE qlen[d] \in Nat
        OBVIOUS
      <4>1. qlen[d] = Len(queue[d]) + Cardinality(Counted(d))
        BY <2>1 DEF CountInv, QlenExact
      <4>2. Len(queue[d]) \in Nat
        BY <2>1 DEF Stored
      <4>3. Cardinality(Counted(d)) \in Nat
        BY CountedFinite
      <4> QED BY <4>1, <4>2, <4>3
    <3> QED BY <2>1, <3>1 DEF CountInv
  <2>3. live \in Nat
    <3>1. live = Cardinality(Holding) + Len(queue["w2p"]) + Len(queue["p2w"])
      BY <2>1 DEF SkbInv, SkbsAccounted, Holding
    <3> QED BY <2>1, <3>1, HoldingFinite, Lengths
  <2>4. /\ queue \in [Directions -> Seq(Frames)] /\ hand \in [Agents -> Frames \cup {NoFrame}]
        /\ pc \in [Agents -> Positions] /\ dir \in [Agents -> Directions] /\ waitFor \subseteq Contexts
    BY <2>1 DEF Placed, Stored, Quieted
  <2>5. /\ <<mode, hairpin>> \in Configs
        /\ active \in BOOLEAN /\ released \in BOOLEAN /\ peerRef \in BOOLEAN
        /\ stop \subseteq Directions
        /\ deinit \in {"no", "deact", "replay", "gone", "flush", "net", "rcu", "freed"}
    BY <2>1, Zenon DEF Settings
  <2> QED BY <2>2, <2>3, <2>4, <2>5, Zenon DEF TypeOK
<1> QED BY <1>1, Invariance, PTL
=============================================================================
