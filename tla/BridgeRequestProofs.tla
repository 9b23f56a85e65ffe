------------------------- MODULE BridgeRequestProofs -------------------------
(***************************************************************************)
(* What becomes of the retained request, for any set of handles, names and *)
(* writers and any scenario: whom it may bind, that it does not outlive    *)
(* the last owner, and for which causes it may disappear.                  *)
(***************************************************************************)
EXTENDS BridgeSwitchProofs

-----------------------------------------------------------------------------
(* Two netdevs never bear one name. *)
NamesDistinct == \A g, h \in Handles : name[g] = name[h] /\ name[g] # NoName => g = h

(* The netdev that bore the retained name at admission bears it still:     *)
(* whatever takes the name from it cancels the request.                    *)
AdmittedBears ==
  pending.state # "none" /\ admitted # NoDev =>
    /\ admitted[1] \in Handles /\ admitted[2] = epoch[admitted[1]]
    /\ name[admitted[1]] = pending.name

(* The worker's transaction aims at that netdev. *)
WorkerTarget ==
  lock = Worker /\ job.step \in Building \cup {"teardown"} /\ admitted # NoDev =>
    admitted = <<job.tgt, epoch[job.tgt]>>

NInv == NamesDistinct /\ AdmittedBears /\ WorkerTarget

(* How a step may change the netdevs: one goes, and its name with it, one  *)
(* comes under a free name and with a new epoch, or one is renamed.        *)
NetdevGoes(h) ==
  /\ name' = [name EXCEPT ![h] = NoName] /\ epoch' = epoch
  /\ pending'.state # "none" => pending.name # name[h]
NetdevComes(h, n) ==
  /\ name[h] = NoName /\ Bearers(name, n) = {}
  /\ name' = [name EXCEPT ![h] = n] /\ epoch' = [epoch EXCEPT ![h] = @ + 1]
NetdevStep ==
  \/ UNCHANGED <<name, epoch>>
  \/ \E h \in Handles : NetdevGoes(h)
  \/ \E h \in Handles, n \in Names : NetdevComes(h, n) \/ Rename(h, n)

(* A step retains what was retained, under its name and generation, or     *)
(* nothing.                                                                *)
RetainsOnly ==
  /\ pending'.state # "none" =>
       pending.state # "none" /\ pending'.name = pending.name /\ pending'.gen = pending.gen
  /\ pending.gen <= pending'.gen

(* Who rewrites the request: only a deferral admits one. *)
LEMMA RequestStepRetains ==
  ASSUME IInv, [Next]_vars
  PROVE  \/ RetainsOnly /\ admitted' = admitted
         \/ \E a \in Actors : Defer(a)
<1>a. pending \in PendingSort /\ act \in [Actors -> ActSort] /\ job \in JobSort
      /\ inst \in InstSort /\ name \in [Handles -> NameOrNone] /\ Worker \in Actors
  BY Apart DEF IInv, Types, BridgeTypes, ActorTypes, JobTypes, CardTypes
<1>b. ASSUME Calm(pending, pending') PROVE RetainsOnly
  BY <1>b DEF Calm, RetainsOnly
<1>c. ASSUME pending' = pending PROVE RetainsOnly
  BY <1>a, <1>c DEF RetainsOnly, PendingSort
<1>d. ASSUME NEW ret, NEW i, NEW refs, InitFailed(ret, i, refs)
      PROVE  RetainsOnly /\ admitted' = admitted
  <2>1. admitted' = admitted /\ (pending' = pending \/ pending' = PendingCancelAll(pending))
    BY <1>d DEF InitFailed
  <2> QED
    BY <2>1, <1>b, <1>c, DiscardEffect
<1>1. CASE \E w \in Writers : Interrupted(w) \/ \E n \in Names : Write(w, n)
  BY <1>1, <1>c DEF Interrupted, Write
<1>2. CASE \E a \in Actors : Acquire(a) \/ Put(a)
  BY <1>2, <1>c DEF Acquire, Put
<1>3. CASE \E a \in Actors : Resolve(a)
  <2>1. admitted' = admitted
    BY <1>3 DEF Resolve
  <2> QED
    BY <1>3, <1>b, <1>c, <2>1, ResolveEffect
<1>4. CASE WorkStart
  <2>1. admitted' = admitted /\ pending'.name = pending.name /\ pending'.gen = pending.gen
        /\ (pending'.state # "none" => pending.state # "none")
    BY <1>4, <1>a DEF WorkStart, PendingBeginAttempt, PendingSort
  <2> QED
    BY <1>a, <2>1 DEF RetainsOnly, PendingSort
<1>5. CASE Post
  <2>1. admitted' = admitted /\ act[Worker].name \in NameOrNone
    BY <1>5, <1>a DEF Post, ActSort
  <2>2. \/ pending' = pending
        \/ pending' = PendingClearIf(pending, act[Worker].name, act[Worker].gen)
        \/ pending' = PendingRestoreWaiting(pending, act[Worker].name, act[Worker].gen)
    BY <1>5 DEF Post
  <2> QED
    BY <1>a, <1>b, <1>c, <2>1, <2>2, PendingOpsCalm
<1>6. CASE Transaction
  <2>1. CASE Teardown \/ HoldPeer \/ Register \/ Invalid
    BY <2>1, <1>c, <1>d DEF Teardown, HoldPeer, Register, Invalid
  <2>2. CASE Publish
    <3>1. CASE \E ret, i, refs : InitFailed(ret, i, refs)
      BY <3>1, <1>d
    <3>2. CASE admitted' = admitted /\ (pending' = pending \/ pending' = PendingKick(pending))
      <4>1. Calm(pending, PendingKick(pending))
        BY <1>a, PendingOpsCalm DEF NameOrNone
      <4> QED
        BY <3>2, <4>1, <1>b, <1>c
    <3> QED
      BY <2>2, <3>1, <3>2 DEF Publish
  <2>3. CASE \E a \in Actors : Commit(a) \/ RolledBack(a)
    <3>1. PICK a \in Actors : Commit(a) \/ RolledBack(a)
      BY <2>3
    <3>2. job.snapName \in NameOrNone /\ act[a].name \in NameOrNone
      BY <1>a DEF JobSort, ActSort
    <3>3. /\ admitted' = admitted
          /\ \/ pending' = pending
             \/ pending' = PendingClearIf(pending, job.snapName, job.snapGen)
             \/ pending' = PendingRestoreWaiting(pending, act[a].name, act[a].gen)
             \/ pending' = PendingKick(pending)
      BY <3>1 DEF Commit, RolledBack
    <3> QED
      BY <1>a, <1>b, <1>c, <3>2, <3>3, PendingOpsCalm
  <2> QED
    BY <1>6, <2>1, <2>2, <2>3 DEF Transaction
<1>7. CASE \E h \in Handles, kind \in {"flr", "reload"} :
             ResetSuspend(h, kind) \/ ResetRefused(h, kind)
  BY <1>7, <1>c DEF ResetSuspend, ResetRefused
<1>8. CASE ResetKeep \/ ResetResume \/ \E n \in Names : ResetRebuild(n)
  BY <1>8, <1>c DEF ResetKeep, ResetResume, ResetRebuild
<1>9. CASE ResetDestroy
  <2>1. rst.h \in Handles /\ admitted' = admitted
        /\ pending' = PendingUnregistered(PendingClearIf(pending, name[rst.h], pending.gen),
                                          name[rst.h])
    BY <1>9 DEF ResetDestroy, IInv, ResetHolds
  <2>2. Calm(pending, pending)
    BY <1>a, PendingOpsCalm DEF NameOrNone
  <2> QED
    BY <2>1, <2>2, <1>b, InvalidateCalm
<1>10. CASE ResetFail
  BY <1>10, <1>b, DiscardEffect DEF ResetFail
<1>11. CASE \E h \in Handles : CardRemove(h)
  <2>1. PICK h \in Handles : CardRemove(h)
    BY <1>11
  <2> DEFINE P == PendingClearIf(pending, name[h], pending.gen)
             Q == IF owner = h \/ suspended = h THEN PendingCancelAll(P) ELSE P
  <2>2. admitted' = admitted /\ pending' = PendingUnregistered(Q, name[h])
    BY <2>1 DEF CardRemove
  <2>3. Calm(pending, P)
    BY <1>a, PendingOpsCalm
  <2>4. P \in PendingSort
    BY <2>3 DEF Calm
  <2>5. Calm(P, PendingCancelAll(P))
    BY <2>4, PendingOpsCalm DEF NameOrNone
  <2>6. Calm(pending, Q)
    BY <1>a, <2>3, <2>5, CalmTransitive
  <2> HIDE DEF Q, P
  <2> QED
    BY <2>2, <2>6, <1>b, InvalidateCalm
<1>12. CASE \E h \in Handles, n \in Names : CardAdd(h, n)
  BY <1>12, <1>c DEF CardAdd
<1>13. CASE UnloadDisable
  BY <1>13, <1>a DEF UnloadDisable, RetainsOnly, Cleared, PendingSort
<1>14. CASE UnloadDrain
  BY <1>14, <1>a DEF UnloadDrain, RetainsOnly, PendingSort
<1>15. CASE UnloadTeardown
  BY <1>15, <1>b, DiscardEffect DEF UnloadTeardown
<1>16. CASE \E h \in Handles : LinkChange(h) \/ FwHang(h)
  BY <1>16, <1>c DEF LinkChange, FwHang
<1>17. CASE \E h \in Handles : LinkEvent(h)
  <2>1. PICK h \in Handles : LinkEvent(h)
    BY <1>17
  <2>2. name[h] \in NameOrNone /\ inst.published \in BOOLEAN
    BY <1>a DEF InstSort
  <2> QED
    BY <1>a, <1>b, <2>1, <2>2, PendingOpsCalm DEF LinkEvent
<1>18. CASE \E h \in Handles, n \in Names : Rename(h, n)
  <2>1. admitted' = admitted /\ pending' = PendingRenamed(pending, name')
    BY <1>18 DEF Rename
  <2>2. Calm(pending, PendingRenamed(pending, name'))
    BY <1>a, PendingOpsCalm DEF NameOrNone
  <2> QED
    BY <1>b, <2>1, <2>2
<1>19. CASE PeerChange \/ PeerEvent \/ PeerUnregister \/ PeerReleaseWork
  BY <1>19, <1>c DEF PeerChange, PeerEvent, PeerUnregister, PeerReleaseWork
<1>20. CASE UNCHANGED vars
  BY <1>20, <1>c DEF vars
<1> QED
  BY <1>1, <1>2, <1>3, <1>4, <1>5, <1>6, <1>7, <1>8, <1>9, <1>10, <1>11, <1>12, <1>13, <1>14,
     <1>15, <1>16, <1>17, <1>18, <1>19, <1>20 DEF Next, RequestStep, ResetStep

(* How a step may change the netdevs. *)
LEMMA NextNetdevs ==
  ASSUME IInv, [Next]_vars
  PROVE  NetdevStep
<1>a. pending \in PendingSort /\ name \in [Handles -> NameOrNone]
  BY DEF IInv, Types, CardTypes
<1>b. ASSUME NEW h \in Handles, NEW Q \in PendingSort,
             pending' = PendingUnregistered(Q, name[h]),
             Q.state # "none" => Q = pending
      PROVE  pending'.state # "none" => pending.name # name[h]
  <2> SUFFICES ASSUME pending'.state # "none", pending.name = name[h] PROVE FALSE
    OBVIOUS
  <2>1. Cleared(Q).state = "none"
    BY DEF Cleared, PendingSort
  <2>2. pending' = Q /\ Q = pending /\ ~pending.on
    BY <1>b, <2>1 DEF PendingUnregistered
  <2> QED
    BY <2>2 DEF IInv, GateClosed
<1>c. /\ Cleared(pending) \in PendingSort
      /\ \A h \in Handles : PendingClearIf(pending, name[h], pending.gen) \in PendingSort
      /\ \A h \in Handles : PendingClearIf(pending, name[h], pending.gen).state # "none" =>
           PendingClearIf(pending, name[h], pending.gen) = pending
  <2>1. Calm(pending, Cleared(pending)) /\ Cleared(pending).state = "none"
    BY <1>a, PendingOpsCalm DEF NameOrNone, Cleared, PendingSort
  <2> QED
    BY <1>a, <2>1 DEF Calm, PendingClearIf
<1>1. CASE ResetDestroy
  <2>1. rst.h \in Handles
    BY <1>1 DEF ResetDestroy, IInv, ResetHolds
  <2>2. pending'.state # "none" => pending.name # name[rst.h]
    BY <1>1, <1>b, <1>c, <2>1 DEF ResetDestroy
  <2> QED
    BY <1>1, <2>1, <2>2 DEF ResetDestroy, NetdevStep, NetdevGoes
<1>2. CASE \E n \in Names : ResetRebuild(n)
  <2>1. rst.h \in Handles /\ name[rst.h] = NoName
    BY <1>2 DEF ResetRebuild, IInv, ResetHolds, SnapshotOfReset
  <2> QED
    BY <1>2, <2>1 DEF ResetRebuild, NetdevStep, NetdevComes
<1>3. CASE \E h \in Handles : CardRemove(h)
  <2>1. PICK h \in Handles : CardRemove(h)
    BY <1>3
  <2> DEFINE P == PendingClearIf(pending, name[h], pending.gen)
             Q == IF owner = h \/ suspended = h THEN PendingCancelAll(P) ELSE P
  <2>2. pending' = PendingUnregistered(Q, name[h])
    BY <2>1 DEF CardRemove
  <2>3. P \in PendingSort /\ (P.state # "none" => P = pending)
    BY <1>c
  <2>4. Q \in PendingSort /\ (Q.state # "none" => Q = pending)
    <3>1. Cleared(P) \in PendingSort /\ Cleared(P).state = "none"
      <4>1. Calm(P, Cleared(P))
        BY <2>3, PendingOpsCalm DEF NameOrNone
      <4> QED
        BY <2>3, <4>1 DEF Calm, Cleared, PendingSort
    <3> QED
      BY <2>3, <3>1 DEF PendingCancelAll
  <2> HIDE DEF Q
  <2>5. pending'.state # "none" => pending.name # name[h]
    BY <1>b, <2>2, <2>4
  <2> QED
    BY <2>1, <2>5 DEF CardRemove, NetdevStep, NetdevGoes
<1>4. CASE \E h \in Handles, n \in Names : CardAdd(h, n) \/ Rename(h, n)
  BY <1>4 DEF CardAdd, NetdevStep, NetdevComes
<1>5. CASE \E w \in Writers : Interrupted(w) \/ \E n \in Names : Write(w, n)
  BY <1>5 DEF Interrupted, Write, wlanVars, NetdevStep
<1>6. CASE \E a \in Actors : Acquire(a) \/ RequestStep(a)
  BY <1>6 DEF Acquire, RequestStep, Resolve, Defer, Put, wlanVars, NetdevStep
<1>7. CASE WorkStart \/ Post
  BY <1>7 DEF WorkStart, Post, wlanVars, NetdevStep
<1>8. CASE Transaction
  <2>1. ASSUME NEW ret, NEW i, NEW refs, InitFailed(ret, i, refs) PROVE UNCHANGED <<name, epoch>>
    BY <2>1 DEF InitFailed
  <2> QED
    BY <1>8, <2>1 DEF Transaction, Teardown, HoldPeer, Register, Publish, Invalid, Commit,
       RolledBack, wlanVars, NetdevStep
<1>9. CASE \E h \in Handles, kind \in {"flr", "reload"} :
             ResetSuspend(h, kind) \/ ResetRefused(h, kind)
  BY <1>9 DEF ResetSuspend, ResetRefused, NetdevStep
<1>10. CASE ResetKeep \/ ResetResume \/ ResetFail
  BY <1>10 DEF ResetKeep, ResetResume, ResetFail, wlanVars, NetdevStep
<1>11. CASE UnloadDisable \/ UnloadDrain \/ UnloadTeardown
  BY <1>11 DEF UnloadDisable, UnloadDrain, UnloadTeardown, wlanVars, NetdevStep
<1>12. CASE \E h \in Handles : LinkChange(h) \/ LinkEvent(h) \/ FwHang(h)
  BY <1>12 DEF LinkChange, LinkEvent, FwHang, NetdevStep
<1>13. CASE PeerChange \/ PeerEvent \/ PeerUnregister \/ PeerReleaseWork
  BY <1>13 DEF PeerChange, PeerEvent, PeerUnregister, PeerReleaseWork, wlanVars, NetdevStep
<1>14. CASE UNCHANGED vars
  BY <1>14 DEF vars, wlanVars, NetdevStep
<1> QED
  BY <1>1, <1>2, <1>3, <1>4, <1>5, <1>6, <1>7, <1>8, <1>9, <1>10, <1>11, <1>12, <1>13, <1>14
     DEF Next, ResetStep

(* A netdev comes under a free name, so names stay apart. *)
LEMMA NamesStayDistinct ==
  ASSUME IInv, NamesDistinct, [Next]_vars
  PROVE  NamesDistinct'
<1>a. name \in [Handles -> NameOrNone]
  BY DEF IInv, Types, CardTypes
<1>1. CASE UNCHANGED <<name, epoch>>
  BY <1>1 DEF NamesDistinct
<1>2. CASE \E h \in Handles : NetdevGoes(h)
  BY <1>2, <1>a DEF NamesDistinct, NetdevGoes
<1>3. CASE \E h \in Handles, n \in Names : NetdevComes(h, n) \/ Rename(h, n)
  <2>1. PICK h \in Handles, n \in Names :
          Bearers(name, n) = {} /\ name' = [name EXCEPT ![h] = n]
    BY <1>3 DEF NetdevComes, Rename
  <2>2. \A g \in Handles : name[g] # n
    BY <2>1 DEF Bearers
  <2> QED
    BY <1>a, <2>1, <2>2 DEF NamesDistinct
<1> QED
  BY <1>1, <1>2, <1>3, NextNetdevs DEF NetdevStep

(* What takes the retained name from the admitted netdev cancels the       *)
(* request, and a recreated netdev finds none to inherit.                  *)
LEMMA AdmittedKeepsBearing ==
  ASSUME IInv, NamesDistinct, AdmittedBears, [Next]_vars
  PROVE  AdmittedBears'
<1>a. /\ pending \in PendingSort /\ name \in [Handles -> NameOrNone]
      /\ epoch \in [Handles -> Nat] /\ NoHandle \notin Handles /\ NoName \notin Names
  BY Apart DEF IInv, Types, CardTypes
<1>1. CASE \E a \in Actors : Defer(a)
  <2>1. PICK a \in Actors : Defer(a)
    BY <1>1
  <2> DEFINE h == CHOOSE g \in Bearers(name, act[a].name) : TRUE
  <2>2. name' = name /\ epoch' = epoch
    BY <2>1 DEF Defer, wlanVars
  <2>3. ASSUME pending'.state # "none" PROVE pending'.name = act[a].name
    <3>1. pending.on
      BY <2>1, <2>3 DEF Defer, PendingSet, IInv, GateClosed
    <3> QED
      BY <1>a, <2>1, <3>1 DEF Defer, PendingSet, PendingSort
  <2>4. CASE Bearers(name, act[a].name) = {}
    BY <2>1, <2>4 DEF Defer, AdmittedBears, NoDev
  <2>5. CASE Bearers(name, act[a].name) # {}
    <3>1. h \in Handles /\ name[h] = act[a].name
      BY <2>5 DEF Bearers
    <3>2. admitted' = <<h, epoch[h]>>
      BY <2>1, <2>5 DEF Defer, Dev
    <3> QED
      BY <2>2, <2>3, <3>1, <3>2 DEF AdmittedBears
  <2> QED
    BY <2>4, <2>5
<1>2. CASE RetainsOnly /\ admitted' = admitted
  <2> SUFFICES ASSUME pending'.state # "none", admitted # NoDev
               PROVE  /\ admitted[1] \in Handles /\ admitted[2] = epoch'[admitted[1]]
                      /\ name'[admitted[1]] = pending'.name
    BY <1>2 DEF AdmittedBears, NoDev
  <2> DEFINE b == admitted[1]
  <2>1. /\ pending.state # "none" /\ pending'.name = pending.name /\ pending.name \in Names
        /\ b \in Handles /\ admitted[2] = epoch[b] /\ name[b] = pending.name
    BY <1>2 DEF RetainsOnly, AdmittedBears, IInv, RequestNamed
  <2>2. CASE UNCHANGED <<name, epoch>>
    BY <2>1, <2>2
  <2>3. CASE \E h \in Handles : NetdevGoes(h)
    BY <1>a, <2>1, <2>3 DEF NetdevGoes
  <2>4. CASE \E h \in Handles, n \in Names : NetdevComes(h, n)
    BY <1>a, <2>1, <2>4 DEF NetdevComes
  <2>5. CASE \E h \in Handles, n \in Names : Rename(h, n)
    <3>1. PICK h \in Handles, n \in Names : Rename(h, n)
      BY <2>5
    <3>2. /\ name' = [name EXCEPT ![h] = n] /\ epoch' = epoch
          /\ pending' = PendingRenamed(pending, name') /\ \A g \in Handles : name[g] # n
      BY <3>1 DEF Rename, Bearers
    <3>3. pending.on /\ Cleared(pending).state = "none"
      BY <1>a, <2>1 DEF IInv, GateClosed, Cleared, PendingSort
    <3>4. PICK g \in Handles : name'[g] = pending.name
      BY <2>1, <3>2, <3>3 DEF PendingRenamed, Bearers
    <3>5. g # h /\ g = b
      BY <1>a, <2>1, <3>2, <3>4 DEF NamesDistinct
    <3> QED
      BY <1>a, <2>1, <3>2, <3>5
  <2> QED
    BY <2>2, <2>3, <2>4, <2>5, NextNetdevs DEF NetdevStep
<1> QED
  BY <1>1, <1>2, RequestStepRetains

(* While the worker holds the lock no netdev is recreated; its own steps   *)
(* start a transaction by the name or go on with the one under way.        *)
LEMMA WorkerGoesOn ==
  ASSUME IInv, [Next]_vars, lock' = Worker, job'.step \in Building \cup {"teardown"},
         ~\E a \in Actors : Resolve(a)
  PROVE  /\ lock = Worker /\ job.step \in Building \cup {"teardown"}
         /\ job'.tgt = job.tgt /\ epoch' = epoch /\ admitted' = admitted
<1>a. job \in JobSort /\ Worker \in Actors /\ Worker \notin {"free", "reset", "card", "unload"}
      /\ NoJob.step = "none"
  BY Apart DEF IInv, Types, JobTypes, NoJob
<1> USE <1>a DEF Building
<1>1. CASE \E w \in Writers : Interrupted(w) \/ \E n \in Names : Write(w, n)
  BY <1>1 DEF Interrupted, Write, wlanVars
<1>2. CASE \E a \in Actors : Acquire(a)
  <2>1. PICK a \in Actors : Acquire(a)
    BY <1>2
  <2>2. lock = "free"
    BY <2>1 DEF Acquire
  <2>3. job'.step = "rtnl" \/ lock' = lock
    BY <2>1 DEF Acquire, NoJob
  <2> QED
    BY <2>2, <2>3
<1>3. CASE \E a \in Actors : Defer(a) \/ Put(a)
  BY <1>3 DEF Defer, Put, Release, JobSort
<1>4. CASE WorkStart \/ Post
  BY <1>4 DEF WorkStart, Post, wlanVars
<1>5. CASE Transaction
  <2>1. epoch' = epoch /\ admitted' = admitted
    <3>1. ASSUME NEW ret, NEW i, NEW refs, InitFailed(ret, i, refs)
          PROVE  epoch' = epoch /\ admitted' = admitted
      BY <3>1 DEF InitFailed
    <3> QED
      BY <1>5, <3>1 DEF Transaction, Teardown, HoldPeer, Register, Publish, Invalid, Commit,
         RolledBack, wlanVars
  <2>2. job.step \in Building \cup {"teardown"}
    BY <1>5 DEF Transaction, Teardown, HoldPeer, Register, Publish, Invalid, Commit, RolledBack
  <2>3. lock' = lock /\ job'.tgt = job.tgt
    <3>1. ASSUME NEW ret, NEW i, NEW refs, InitFailed(ret, i, refs)
          PROVE  lock' = lock /\ job'.tgt = job.tgt
      BY <3>1 DEF InitFailed, Unlock, JobSort
    <3>2. CASE Teardown \/ Register
      BY <3>2 DEF Teardown, Register, JobSort
    <3>3. CASE HoldPeer \/ Invalid
      BY <3>1, <3>3 DEF HoldPeer, Invalid, JobSort
    <3>4. CASE Publish
      BY <3>1, <3>4 DEF Publish, Unlock, JobSort
    <3>5. CASE \E a \in Actors : Commit(a) \/ RolledBack(a)
      BY <3>5 DEF Commit, RolledBack, JobSort
    <3> QED
      BY <1>5, <3>2, <3>3, <3>4, <3>5 DEF Transaction
  <2> QED
    BY <2>1, <2>2, <2>3
<1>6. CASE \E h \in Handles, kind \in {"flr", "reload"} :
             ResetSuspend(h, kind) \/ ResetRefused(h, kind)
  BY <1>6 DEF ResetSuspend, ResetRefused
<1>7. CASE ResetStep \/ ResetFail
  BY <1>7 DEF ResetStep, ResetDestroy, ResetKeep, ResetRebuild, ResetResume, ResetFail, Unlock
<1>8. CASE \E h \in Handles : CardRemove(h) \/ \E n \in Names : CardAdd(h, n)
  BY <1>8 DEF CardRemove, CardAdd
<1>9. CASE UnloadDisable \/ UnloadDrain \/ UnloadTeardown
  BY <1>9 DEF UnloadDisable, UnloadDrain, UnloadTeardown, wlanVars
<1>10. CASE \E h \in Handles : LinkChange(h) \/ LinkEvent(h) \/ FwHang(h)
  BY <1>10 DEF LinkChange, LinkEvent, FwHang
<1>11. CASE \E h \in Handles, n \in Names : Rename(h, n)
  BY <1>11 DEF Rename
<1>12. CASE PeerChange \/ PeerEvent \/ PeerUnregister \/ PeerReleaseWork
  BY <1>12 DEF PeerChange, PeerEvent, PeerUnregister, PeerReleaseWork, wlanVars
<1>13. CASE UNCHANGED vars
  BY <1>13 DEF vars, wlanVars
<1> QED
  BY <1>1, <1>2, <1>3, <1>4, <1>5, <1>6, <1>7, <1>8, <1>9, <1>10, <1>11, <1>12, <1>13
     DEF Next, RequestStep

(* find_target resolves the retained name to the admitted netdev. *)
LEMMA WorkerKeepsTarget ==
  ASSUME IInv, NInv, [Next]_vars
  PROVE  WorkerTarget'
<1> SUFFICES ASSUME lock' = Worker, job'.step \in Building \cup {"teardown"}, (admitted # NoDev)'
             PROVE  admitted' = <<job'.tgt, epoch'[job'.tgt]>>
  BY DEF WorkerTarget
<1>1. CASE ~\E a \in Actors : Resolve(a)
  <2>1. /\ lock = Worker /\ job.step \in Building \cup {"teardown"}
        /\ job'.tgt = job.tgt /\ epoch' = epoch /\ admitted' = admitted
    BY <1>1, WorkerGoesOn
  <2> QED
    BY <2>1 DEF NInv, WorkerTarget, NoDev
<1>2. CASE \E a \in Actors : Resolve(a)
  <2>1. PICK a \in Actors : Resolve(a)
    BY <1>2
  <2>2. lock = a /\ admitted' = admitted /\ epoch' = epoch
    BY <2>1 DEF Resolve, wlanVars
  <2>3. ~Released(a)
    BY Apart DEF Released, NoJob, Building
  <2>4. PICK h \in Handles, s \in {"defer", "put", "teardown"}, ret \in {"0", "ENETDOWN"} :
          /\ name[h] = act[a].name
          /\ a = Worker => PendingMatches(pending, act[a].name, act[a].gen)
          /\ s = "put" /\ ret = "0" => name[owner] = act[a].name
          /\ peer' = [peer EXCEPT !.refs = @ + 1]
          /\ job' = [job EXCEPT !.step = s, !.tgt = h, !.old = owner, !.ret = ret]
          /\ UNCHANGED <<lock, act, pending>>
    BY <2>1, <2>3, ResolveEffect
  <2>5. a = Worker /\ job'.tgt = h
    BY <2>2, <2>4 DEF IInv, Types, JobTypes, JobSort
  <2>6. pending.state # "none" /\ pending.name = name[h] /\ pending.name \in Names
    BY <2>4, <2>5 DEF PendingMatches, IInv, RequestNamed
  <2>7. admitted[1] = h /\ admitted[2] = epoch[h] /\ admitted \in HandleOrNone \X Nat
    BY <2>2, <2>6, Apart DEF NInv, AdmittedBears, NamesDistinct, NoDev, IInv, Types, BridgeTypes
  <2> QED
    BY <2>2, <2>5, <2>7
<1> QED
  BY <1>1, <1>2

(* Every behaviour keeps the retained request with the netdev it was       *)
(* admitted for.                                                           *)
LEMMA NInvInvariant == Spec => [](IInv /\ NInv)
<1>1. Init => NInv
  BY Apart DEF Init, NInv, NamesDistinct, AdmittedBears, WorkerTarget, NoJob, Building
<1>2. IInv /\ NInv /\ [Next]_vars => NInv'
  BY NamesStayDistinct, AdmittedKeepsBearing, WorkerKeepsTarget DEF NInv
<1> QED
  BY <1>1, <1>2, InitIInv, NextIInv, PTL DEF Spec

(* "a same-name recreated netdev cannot inherit it": whenever the worker   *)
(* makes its target the owner, that target is the very netdev that bore    *)
(* the name when the request was retained, whatever resets, removals and   *)
(* renames came between.                                                   *)
THEOREM NothingInherited == Spec => NoInheritance
<1> DEFINE Step == lock = Worker /\ owner' # owner /\ owner' = job.tgt /\ admitted # NoDev
                     => Dev(job.tgt) = admitted
<1>1. IInv /\ NInv /\ [Next]_vars => [Step]_vars
  <2> SUFFICES ASSUME IInv, NInv, Next, lock = Worker, owner' # owner, owner' = job.tgt,
                      admitted # NoDev
               PROVE  Dev(job.tgt) = admitted
    OBVIOUS
  <2>a. Worker \notin {"free", "reset", "card", "unload"}
    BY Apart
  <2>1. CASE Transaction
    <3>1. job.step \in Building \cup {"teardown"}
      BY <2>1 DEF Transaction, Teardown, HoldPeer, Register, Publish, Invalid, Commit, RolledBack,
         Building
    <3> QED
      BY <3>1 DEF NInv, WorkerTarget, Dev
  <2>2. CASE ~Transaction
    <3>1. owner' = owner
      BY <2>a, <2>2 DEF Next, Interrupted, Write, Acquire, RequestStep, Resolve, Defer, Put, WorkStart,
         Post, ResetSuspend, ResetRefused, ResetStep, ResetDestroy, ResetKeep, ResetRebuild,
         ResetResume, ResetFail, CardRemove, CardAdd, UnloadDisable, UnloadDrain, UnloadTeardown,
         LinkChange, LinkEvent, FwHang, Rename, PeerChange, PeerEvent, PeerUnregister,
         PeerReleaseWork
    <3> QED
      BY <3>1
  <2> QED
    BY <2>1, <2>2
<1> QED
  BY <1>1, NInvInvariant, PTL DEF Spec, NoInheritance

-----------------------------------------------------------------------------
(* The peer is there still, or no PCI reset is to come: the one path that  *)
(* gives the owner up without cancelling (ResetRefused) is not taken.      *)
NoRefusal == peer.reg \/ "flr" \notin faults

(* Whoever gives up the last owner has cancelled the retained request. *)
NoRequestWithoutOwner ==
  lock \notin Actors /\ owner = NoHandle /\ suspended = NoHandle /\ job.phase # "resume"
    => pending.state = "none"

OInv == NoRefusal => NoRequestWithoutOwner

(* A scenario is chosen once, and the peer never comes back. *)
LEMMA PeerStaysGone ==
  ASSUME IInv, [Next]_vars
  PROVE  faults' = faults /\ (peer'.reg => peer.reg)
<1>a. peer \in PeerSort
  BY DEF IInv, Types, BridgeTypes
<1>b. ASSUME NEW ret, NEW i, NEW refs, InitFailed(ret, i, refs)
      PROVE  faults' = faults /\ peer'.reg = peer.reg
  BY <1>a, <1>b DEF InitFailed, boundVars, PeerSort
<1> USE <1>a DEF boundVars, PeerSort
<1>1. CASE \E w \in Writers : Interrupted(w) \/ \E n \in Names : Write(w, n)
  BY <1>1 DEF Interrupted, Write
<1>2. CASE \E a \in Actors : Resolve(a)
  <2>1. faults' = faults
    BY <1>2 DEF Resolve
  <2> QED
    BY <1>2, <2>1, ResolveEffect
<1>3. CASE \E a \in Actors : Acquire(a) \/ Defer(a) \/ Put(a)
  BY <1>3 DEF Acquire, Defer, Put
<1>4. CASE WorkStart \/ Post
  BY <1>4 DEF WorkStart, Post
<1>5. CASE Transaction
  <2>1. CASE Teardown \/ Register \/ \E a \in Actors : Commit(a) \/ RolledBack(a)
    BY <2>1 DEF Teardown, Register, Commit, RolledBack
  <2>2. CASE HoldPeer \/ Invalid
    BY <1>b, <2>2 DEF HoldPeer, Invalid
  <2>3. CASE Publish
    BY <1>b, <2>3 DEF Publish
  <2> QED
    BY <1>5, <2>1, <2>2, <2>3 DEF Transaction
<1>6. CASE \E h \in Handles, kind \in {"flr", "reload"} :
             ResetSuspend(h, kind) \/ ResetRefused(h, kind)
  BY <1>6 DEF ResetSuspend, ResetRefused
<1>7. CASE ResetStep \/ ResetFail
  BY <1>7 DEF ResetStep, ResetDestroy, ResetKeep, ResetRebuild, ResetResume, ResetFail
<1>8. CASE \E h \in Handles : CardRemove(h) \/ \E n \in Names : CardAdd(h, n)
  BY <1>8 DEF CardRemove, CardAdd
<1>9. CASE UnloadDisable \/ UnloadDrain \/ UnloadTeardown
  BY <1>9 DEF UnloadDisable, UnloadDrain, UnloadTeardown
<1>10. CASE \E h \in Handles : LinkChange(h) \/ LinkEvent(h) \/ FwHang(h)
  BY <1>10 DEF LinkChange, LinkEvent, FwHang
<1>11. CASE \E h \in Handles, n \in Names : Rename(h, n)
  BY <1>11 DEF Rename
<1>12. CASE PeerChange \/ PeerEvent \/ PeerReleaseWork
  BY <1>12 DEF PeerChange, PeerEvent, PeerReleaseWork
<1>13. CASE PeerUnregister
  BY <1>13 DEF PeerUnregister
<1>14. CASE UNCHANGED vars
  BY <1>14 DEF vars
<1> QED
  BY <1>1, <1>2, <1>3, <1>4, <1>5, <1>6, <1>7, <1>8, <1>9, <1>10, <1>11, <1>12, <1>13, <1>14
     DEF Next, RequestStep

(* Each path that ends without an owner cancels what is retained, or       *)
(* leaves the owner's snapshot or its resume to do so.                     *)
LEMMA OwnerLossCancels ==
  ASSUME IInv, NoRefusal, NoRequestWithoutOwner, [Next]_vars
  PROVE  NoRequestWithoutOwner'
<1> SUFFICES ASSUME (lock \notin Actors)', owner' = NoHandle, suspended' = NoHandle,
                    job'.phase # "resume"
             PROVE  pending'.state = "none"
  BY DEF NoRequestWithoutOwner
<1>a. /\ pending \in PendingSort /\ job \in JobSort /\ lock' \notin Actors
      /\ \A a \in Actors : a \notin {"free", "reset", "card", "unload"}
      /\ NoHandle \notin Handles /\ NoJob.phase = "none"
  BY Apart DEF IInv, Types, JobTypes, Actors, NoJob
<1>b. PendingCancelAll(pending).state = "none"
  BY <1>a DEF PendingCancelAll, Cleared, PendingSort
<1>c. RetainsOnly
  <2>1. ASSUME NEW a \in Actors, Defer(a) PROVE FALSE
    BY <1>a, <2>1 DEF Defer
  <2> QED
    BY <2>1, RequestStepRetains
<1>d. ASSUME lock \notin Actors, owner = NoHandle, suspended = NoHandle, job.phase # "resume"
      PROVE  pending'.state = "none"
  BY <1>c, <1>d DEF NoRequestWithoutOwner, RetainsOnly
<1>e. ASSUME UNCHANGED <<lock, owner, suspended, job>> PROVE pending'.state = "none"
  BY <1>a, <1>d, <1>e
<1>f. ASSUME NEW ret, NEW i, NEW refs, InitFailed(ret, i, refs), job.step \in Building
      PROVE  pending'.state = "none"
  <2>1. CASE job.phase \in {"switch", "rollback"}
    <3>1. lock \in Actors /\ lock' = lock
      BY <1>f, <2>1 DEF InitFailed, IInv, JobOfHolder, Types, ActorTypes
    <3> QED
      BY <1>a, <3>1
  <2>2. CASE job.phase = "resume"
    BY <1>b, <1>f, <2>2 DEF InitFailed
  <2>3. CASE job.phase = "load"
    <3>1. lock \notin Actors
      BY <1>a, <2>3 DEF IInv, JobOfHolder
    <3> QED
      BY <1>d, <1>f, <2>3, <3>1 DEF InitFailed
  <2> QED
    BY <1>f, <2>1, <2>2, <2>3 DEF InitFailed
<1>1. CASE \E w \in Writers : Interrupted(w) \/ \E n \in Names : Write(w, n)
  BY <1>1, <1>e DEF Interrupted, Write
<1>2. CASE \E a \in Actors : Acquire(a)
  BY <1>2, <1>a, <1>e DEF Acquire
<1>3. CASE \E a \in Actors : Resolve(a) \/ Defer(a)
  <2>1. ASSUME NEW a \in Actors, Resolve(a) PROVE owner # NoHandle /\ owner' = owner
    BY <2>1 DEF Resolve, IInv, OwnerByStep
  <2> QED
    BY <1>3, <1>a, <2>1 DEF Defer
<1>4. CASE \E a \in Actors : Put(a)
  BY <1>4 DEF Put, IInv, FailureKnown
<1>5. CASE WorkStart \/ Post
  BY <1>5, <1>e DEF WorkStart, Post
<1>6. CASE Transaction
  <2>1. CASE Teardown \/ \E a \in Actors : Commit(a) \/ RolledBack(a)
    BY <1>a, <2>1 DEF Teardown, Commit, RolledBack
  <2>2. CASE HoldPeer
    <3>1. CASE \E ret, i, refs : InitFailed(ret, i, refs)
      BY <1>f, <2>2, <3>1 DEF HoldPeer, Building
    <3>2. CASE job' = [job EXCEPT !.step = "register"] /\ UNCHANGED <<lock, owner, suspended>>
      BY <1>a, <1>d, <3>2 DEF JobSort
    <3> QED
      BY <2>2, <3>1, <3>2 DEF HoldPeer
  <2>3. CASE Register
    BY <1>a, <1>d, <2>3 DEF Register, JobSort
  <2>4. CASE Publish
    <3>1. CASE \E ret, i, refs : InitFailed(ret, i, refs)
      BY <1>f, <2>4, <3>1 DEF Publish, Building
    <3>2. CASE owner' = BuildTarget /\ job.phase \in {"resume", "load"}
      BY <1>a, <3>2 DEF BuildTarget, IInv, TargetsNamed
    <3>3. CASE job.phase \in {"switch", "rollback"} /\ lock' = lock
      BY <1>a, <3>3 DEF IInv, JobOfHolder, Types, ActorTypes
    <3> QED
      BY <2>4, <3>1, <3>2, <3>3 DEF Publish
  <2>5. CASE Invalid
    BY <1>f, <2>5 DEF Invalid, Building
  <2> QED
    BY <1>6, <2>1, <2>2, <2>3, <2>4, <2>5 DEF Transaction
<1>7. CASE \E h \in Handles, kind \in {"flr", "reload"} : ResetSuspend(h, kind)
  <2>1. PICK h \in Handles, kind \in {"flr", "reload"} : ResetSuspend(h, kind)
    BY <1>7
  <2>2. ~ResetConcerns(h, kind)
    BY <2>1 DEF ResetSuspend, ResetConcerns
  <2> QED
    BY <1>a, <1>d, <2>1, <2>2 DEF ResetSuspend
<1>8. CASE \E h \in Handles, kind \in {"flr", "reload"} : ResetRefused(h, kind)
  <2>1. PICK h \in Handles, kind \in {"flr", "reload"} : ResetRefused(h, kind)
    BY <1>8
  <2>2. kind \in faults /\ ~peer.reg
    BY <2>1 DEF ResetRefused, IInv, InstanceShape
  <2>3. kind # "flr"
    BY <2>2 DEF NoRefusal
  <2> QED
    BY <1>e, <2>1, <2>3 DEF ResetRefused
<1>9. CASE ResetDestroy \/ ResetKeep \/ \E n \in Names : ResetRebuild(n)
  BY <1>9, <1>a, <1>d DEF ResetDestroy, ResetKeep, ResetRebuild
<1>10. CASE ResetResume
  <2>1. lock = "reset" /\ job.phase # "resume" /\ owner' = owner
    BY <1>10 DEF ResetResume, IInv, JobOfHolder
  <2>2. suspended = NoHandle
    BY <1>10 DEF ResetResume, NoJob
  <2> QED
    BY <1>a, <1>d, <2>1, <2>2
<1>11. CASE ResetFail
  <2>1. lock \in {"free", "reset"} /\ job.phase # "resume" /\ owner' = owner
    BY <1>11 DEF ResetFail, IInv, JobOfHolder
  <2>2. CASE suspended = NoHandle
    BY <1>a, <1>d, <2>1, <2>2
  <2>3. CASE suspended # NoHandle
    BY <1>11, <1>b, <2>3 DEF ResetFail, Discarded
  <2> QED
    BY <2>2, <2>3
<1>12. CASE \E h \in Handles : CardRemove(h)
  <2>1. PICK h \in Handles : CardRemove(h)
    BY <1>12
  <2> DEFINE P == PendingClearIf(pending, name[h], pending.gen)
  <2>2. CASE owner = h \/ suspended = h
    <3>1. P \in PendingSort
      BY <1>a, PendingOpsCalm DEF Calm, IInv, Types, CardTypes
    <3>2. PendingCancelAll(P).state = "none"
      BY <3>1 DEF PendingCancelAll, Cleared, PendingSort
    <3>3. pending' = PendingUnregistered(PendingCancelAll(P), name[h])
      BY <2>1, <2>2 DEF CardRemove
    <3> QED
      BY <3>2, <3>3 DEF PendingUnregistered
  <2>3. CASE owner # h /\ suspended # h
    BY <1>e, <2>1, <2>3 DEF CardRemove
  <2> QED
    BY <2>2, <2>3
<1>13. CASE \E h \in Handles, n \in Names : CardAdd(h, n)
  <2>1. lock = "free" /\ UNCHANGED <<owner, suspended>> /\ job.phase # "resume"
    BY <1>13 DEF CardAdd, IInv, JobOfHolder
  <2> QED
    BY <1>a, <1>d, <2>1
<1>14. CASE UnloadDisable \/ UnloadDrain
  BY <1>14, <1>e DEF UnloadDisable, UnloadDrain
<1>15. CASE UnloadTeardown
  BY <1>15, <1>c DEF UnloadTeardown, IInv, GateClosed, RetainsOnly
<1>16. CASE \E h \in Handles : LinkChange(h) \/ LinkEvent(h) \/ FwHang(h)
  BY <1>16, <1>e DEF LinkChange, LinkEvent, FwHang
<1>17. CASE \E h \in Handles, n \in Names : Rename(h, n)
  BY <1>17, <1>e DEF Rename
<1>18. CASE PeerChange \/ PeerEvent \/ PeerUnregister \/ PeerReleaseWork
  BY <1>18, <1>e DEF PeerChange, PeerEvent, PeerUnregister, PeerReleaseWork
<1>19. CASE UNCHANGED vars
  BY <1>19, <1>e DEF vars
<1> QED
  BY <1>1, <1>2, <1>3, <1>4, <1>5, <1>6, <1>7, <1>8, <1>9, <1>10, <1>11, <1>12, <1>13, <1>14,
     <1>15, <1>16, <1>17, <1>18, <1>19 DEF Next, RequestStep, ResetStep

(* Every behaviour keeps requests with an owner. *)
LEMMA OInvInvariant == Spec => []OInv
<1>1. Init => OInv
  BY DEF Init, OInv, NoRequestWithoutOwner
<1>2. IInv /\ OInv /\ [Next]_vars => OInv'
  BY PeerStaysGone, OwnerLossCancels DEF OInv, NoRefusal
<1> QED
  BY <1>1, <1>2, IInvInvariant, PTL DEF Spec

(* No request outlives the last owner, as long as the peer is registered   *)
(* or no PCI reset can find it gone: that path deinits the bridge and      *)
(* leaves the request.                                                     *)
THEOREM NoneOrphaned == Spec => [](NoRefusal => NoOrphanRequest)
<1>1. IInv /\ OInv => (NoRefusal => NoOrphanRequest)
  <2> SUFFICES ASSUME IInv, NoRequestWithoutOwner, lock = "free", owner = NoHandle,
                      suspended = NoHandle
               PROVE  pending.state = "none"
    BY DEF OInv, NoOrphanRequest
  <2>1. lock \notin Actors /\ job.phase = "none"
    BY Apart DEF IInv, JobOfHolder
  <2> QED
    BY <2>1 DEF NoRequestWithoutOwner
<1> QED
  BY <1>1, IInvInvariant, OInvInvariant, PTL

-----------------------------------------------------------------------------
(* PCI resets and hotplug do not meet: between the halves of a reset no    *)
(* other card takes the bridge.                                            *)
ResetsUndisturbed == ~({"flr", "hotplug"} \subseteq faults)

(* While an owner is suspended, or a reload runs, nobody else owns the     *)
(* bridge.                                                                 *)
SuspendedAlone ==
  /\ lock = "card" => "hotplug" \in faults
  /\ rst.pc # "idle" => rst.kind \in faults
  /\ suspended # NoHandle \/ job.phase = "resume" => owner = NoHandle
  /\ rst.pc # "idle" /\ rst.kind = "reload" => owner = NoHandle
  /\ lock \in Actors \cup {"card"} => suspended = NoHandle

(* Generations only grow, and the snapshot a request took under the lock   *)
(* is that of the retained request until it defers its own.                *)
SnapshotFresh ==
  /\ act[Worker].pc # "idle" => act[Worker].gen <= pending.gen
  /\ lock \in Actors /\ job.step \in Building \cup {"rtnl", "defer", "teardown"}
       /\ pending.state # "none" =>
       job.snapSet /\ job.snapName = pending.name /\ job.snapGen = pending.gen

(* The request the worker took up is retained still, for a known netdev. *)
WorkersOwn ==
  PendingMatches(pending, act[Worker].name, act[Worker].gen) /\ admitted # NoDev

(* A worker that reports success applied its request, and until it has     *)
(* completed it nobody else takes the bridge without cancelling it.        *)
Applied(h) ==
  /\ owner \in {NoHandle, h} /\ suspended \in {NoHandle, h}
  /\ job.phase = "resume" => job.tgt = h
  /\ lock \in Actors /\ job.step \notin {"none", "rtnl"} => job.old = h

WorkerReports ==
  /\ lock = Worker /\ job.step = "put" /\ job.ret = "0" /\ WorkersOwn => owner = admitted[1]
  /\ act[Worker].pc = "post" /\ act[Worker].ret = "0" /\ WorkersOwn => Applied(admitted[1])
  /\ act[Worker].pc = "post" /\ WorkersOwn => act[Worker].ret \notin {"ESTALE", "EIO"}

LInv == SuspendedAlone /\ SnapshotFresh /\ WorkerReports

(* Nobody takes the bridge while its owner is suspended. *)
LEMMA SuspendedStaysAlone ==
  ASSUME IInv, ResetsUndisturbed, SuspendedAlone, [Next]_vars
  PROVE  SuspendedAlone'
<1>a. /\ faults' = faults /\ job \in JobSort /\ rst \in RstSort
      /\ \A a \in Actors : a \notin {"free", "reset", "card", "unload"}
      /\ NoJob.phase = "none"
  BY PeerStaysGone, Apart DEF IInv, Types, JobTypes, NoJob
<1>b. /\ suspended # NoHandle => rst.pc \in {"destroy", "down", "rebuilt"}
      /\ rst.pc # "idle" /\ rst.kind = "reload" => lock = "reset"
      /\ rst.pc \in {"destroy", "rebuilt", "resume"} => lock = "reset"
      /\ rst.pc # "idle" => rst.kind \in {"flr", "reload"}
      /\ lock = "free" => job.phase = "none"
  BY DEF IInv, SnapshotOfReset, ResetHolds, JobOfHolder, Types, JobTypes, RstSort
<1>c. ASSUME lock' \in {lock, "free"}, UNCHANGED <<rst, suspended, owner>>,
             job'.phase = "resume" => job.phase = "resume"
      PROVE  SuspendedAlone'
  BY <1>a, <1>c DEF SuspendedAlone, Actors
<1>d. ASSUME UNCHANGED <<lock, rst, suspended, owner, job>> PROVE SuspendedAlone'
  BY <1>c, <1>d
<1>e. ASSUME NEW ret, NEW i, NEW refs, InitFailed(ret, i, refs) PROVE SuspendedAlone'
  <2>1. CASE job.phase = "resume"
    BY <1>a, <1>b, <1>e, <2>1, PhaseOfHolder DEF InitFailed, Unlock, ResetOver, SuspendedAlone, Actors
  <2>2. CASE job.phase # "resume"
    <3>1. lock' \in {lock, "free"} /\ UNCHANGED <<rst, suspended, owner>> /\ job'.phase # "resume"
      BY <1>a, <1>e, <2>2 DEF InitFailed, Unlock, JobSort
    <3> QED
      BY <1>c, <3>1
  <2> QED
    BY <2>1, <2>2
<1>1. CASE \E w \in Writers : Interrupted(w) \/ \E n \in Names : Write(w, n)
  BY <1>1, <1>d DEF Interrupted, Write
<1>2. CASE \E a \in Actors : Acquire(a)
  <2>1. PICK a \in Actors : Acquire(a)
    BY <1>2
  <2>2. CASE Refusal(a) # "0"
    BY <1>d, <2>1, <2>2 DEF Acquire
  <2>3. CASE Refusal(a) = "0"
    <3>1. owner # NoHandle
      BY <2>3 DEF Refusal
    <3>2. lock' = a /\ job'.phase = "none" /\ UNCHANGED <<rst, suspended, owner>>
      BY <2>1, <2>3 DEF Acquire, NoJob
    <3> QED
      BY <1>a, <3>1, <3>2 DEF SuspendedAlone, Actors
  <2> QED
    BY <2>2, <2>3
<1>3. CASE \E a \in Actors : Resolve(a)
  <2>1. PICK a \in Actors : Resolve(a)
    BY <1>3
  <2>2. UNCHANGED <<rst, suspended, owner>>
    BY <2>1 DEF Resolve
  <2>3. lock' \in {lock, "free"} /\ (job'.phase = "resume" => job.phase = "resume")
    BY <1>a, <2>1, ResolveEffect DEF Released, JobSort
  <2> QED
    BY <1>c, <2>2, <2>3
<1>4. CASE \E a \in Actors : Defer(a) \/ Put(a)
  BY <1>4, <1>a, <1>c DEF Defer, Put, Release, JobSort
<1>5. CASE WorkStart \/ Post
  BY <1>5, <1>d DEF WorkStart, Post
<1>6. CASE Transaction
  <2>1. CASE Teardown
    BY <1>a, <2>1 DEF Teardown, SuspendedAlone, Actors, JobSort
  <2>2. CASE HoldPeer
    <3>1. CASE \E ret, i, refs : InitFailed(ret, i, refs)
      BY <1>e, <3>1
    <3>2. CASE job' = [job EXCEPT !.step = "register"] /\ UNCHANGED <<lock, rst, suspended, owner>>
      BY <1>a, <1>c, <3>2 DEF JobSort
    <3> QED
      BY <2>2, <3>1, <3>2 DEF HoldPeer
  <2>3. CASE Register
    BY <1>a, <1>c, <2>3 DEF Register, JobSort
  <2>4. CASE Publish
    <3>1. CASE \E ret, i, refs : InitFailed(ret, i, refs)
      BY <1>e, <3>1
    <3>2. CASE job' = [job EXCEPT !.step = "validate"] /\ UNCHANGED <<lock, rst, suspended, owner>>
      BY <1>a, <1>c, <3>2 DEF JobSort
    <3>3. CASE job.phase = "resume" /\ Unlock /\ ResetOver /\ UNCHANGED suspended
      <4>1. suspended = NoHandle
        BY <1>b, <3>3, PhaseOfHolder
      <4> QED
        BY <1>a, <3>3, <4>1 DEF Unlock, ResetOver, SuspendedAlone, Actors
    <3>4. CASE job.phase = "load" /\ Unlock /\ UNCHANGED <<rst, suspended>>
      <4>1. lock = "card"
        BY <3>4, PhaseOfHolder
      <4>2. suspended = NoHandle /\ ~(rst.pc # "idle" /\ rst.kind = "reload")
        BY <1>b, <4>1 DEF SuspendedAlone
      <4> QED
        BY <1>a, <3>4, <4>2 DEF Unlock, SuspendedAlone, Actors
    <3> QED
      BY <2>4, <3>1, <3>2, <3>3, <3>4 DEF Publish
  <2>5. CASE Invalid
    BY <1>e, <2>5 DEF Invalid
  <2>6. CASE \E a \in Actors : Commit(a) \/ RolledBack(a)
    <3>1. /\ lock \in Actors /\ UNCHANGED <<lock, rst, suspended>>
          /\ job'.phase = job.phase /\ job.phase \in {"switch", "rollback"}
      BY <1>a, <2>6 DEF Commit, RolledBack, JobSort
    <3>2. suspended = NoHandle /\ ~(rst.pc # "idle" /\ rst.kind = "reload")
      BY <1>a, <1>b, <3>1 DEF SuspendedAlone
    <3> QED
      BY <1>a, <3>1, <3>2 DEF SuspendedAlone, Actors
  <2> QED
    BY <1>6, <2>1, <2>2, <2>3, <2>4, <2>5, <2>6 DEF Transaction
<1>7. CASE \E h \in Handles, kind \in {"flr", "reload"} : ResetSuspend(h, kind)
  <2>1. PICK h \in Handles, kind \in {"flr", "reload"} : ResetSuspend(h, kind)
    BY <1>7
  <2>2. /\ lock = "free" /\ rst.pc = "idle" /\ kind \in faults /\ lock' = "reset" /\ job' = job
        /\ rst' = [pc |-> "destroy", h |-> h, kind |-> kind]
    BY <2>1 DEF ResetSuspend
  <2>3. suspended = NoHandle /\ job.phase = "none"
    BY <1>b, <2>2
  <2>4. CASE ResetConcerns(h, kind)
    BY <1>a, <2>1, <2>2, <2>3, <2>4 DEF ResetSuspend, SuspendedAlone
  <2>5. CASE ~ResetConcerns(h, kind)
    <3>1. kind = "reload" => owner = NoHandle
      BY <2>5 DEF ResetConcerns
    <3> QED
      BY <1>a, <2>1, <2>2, <2>3, <2>5, <3>1 DEF ResetSuspend, SuspendedAlone
  <2> QED
    BY <2>4, <2>5
<1>8. CASE \E h \in Handles, kind \in {"flr", "reload"} : ResetRefused(h, kind)
  BY <1>8, <1>a DEF ResetRefused, SuspendedAlone
<1>9. CASE ResetDestroy \/ ResetKeep \/ \E n \in Names : ResetRebuild(n)
  <2>1. /\ rst.pc # "idle" /\ rst'.kind = rst.kind /\ lock' \in {"free", "reset"}
        /\ UNCHANGED <<owner, suspended, job>>
    BY <1>9, <1>a DEF ResetDestroy, ResetKeep, ResetRebuild, RstSort
  <2> QED
    BY <1>a, <2>1 DEF SuspendedAlone
<1>10. CASE ResetResume
  <2>1. CASE suspended = NoHandle
    BY <1>10, <1>a, <2>1 DEF ResetResume, Unlock, ResetOver, SuspendedAlone
  <2>2. CASE suspended # NoHandle
    <3>1. /\ suspended' = NoHandle /\ owner' = owner /\ lock' = "reset" /\ rst.pc # "idle"
          /\ rst'.kind = rst.kind
      BY <1>10, <1>a, <2>2 DEF ResetResume, RstSort
    <3> QED
      BY <1>a, <2>2, <3>1 DEF SuspendedAlone
  <2> QED
    BY <2>1, <2>2
<1>11. CASE ResetFail
  BY <1>11, <1>a DEF ResetFail, Unlock, ResetOver, SuspendedAlone
<1>12. CASE \E h \in Handles : CardRemove(h)
  <2>1. PICK h \in Handles : CardRemove(h)
    BY <1>12
  <2>2. /\ lock' = lock /\ lock = "free" /\ job' = job
        /\ owner' \in {owner, NoHandle} /\ suspended' \in {suspended, NoHandle}
        /\ rst' = rst \/ rst'.pc = "idle"
    BY <2>1 DEF CardRemove, ResetOver
  <2> QED
    BY <1>a, <2>2 DEF SuspendedAlone
<1>13. CASE \E h \in Handles, n \in Names : CardAdd(h, n)
  <2>1. /\ lock = "free" /\ "hotplug" \in faults /\ lock' \in {"free", "card"}
        /\ UNCHANGED <<owner, suspended, rst>> /\ (job'.phase = "load" \/ job' = job)
    BY <1>13 DEF CardAdd, NoJob
  <2>2. suspended = NoHandle
    BY <1>b, <2>1 DEF SuspendedAlone, ResetsUndisturbed
  <2> QED
    BY <1>a, <2>1, <2>2 DEF SuspendedAlone
<1>14. CASE UnloadDisable \/ UnloadDrain
  BY <1>14, <1>d DEF UnloadDisable, UnloadDrain
<1>15. CASE UnloadTeardown
  BY <1>15, <1>a DEF UnloadTeardown, SuspendedAlone
<1>16. CASE \E h \in Handles : LinkChange(h) \/ LinkEvent(h) \/ FwHang(h)
  BY <1>16, <1>d DEF LinkChange, LinkEvent, FwHang
<1>17. CASE \E h \in Handles, n \in Names : Rename(h, n)
  BY <1>17, <1>d DEF Rename
<1>18. CASE PeerChange \/ PeerEvent \/ PeerUnregister \/ PeerReleaseWork
  BY <1>18, <1>d DEF PeerChange, PeerEvent, PeerUnregister, PeerReleaseWork
<1>19. CASE UNCHANGED vars
  BY <1>19, <1>d DEF vars
<1> QED
  BY <1>1, <1>2, <1>3, <1>4, <1>5, <1>6, <1>7, <1>8, <1>9, <1>10, <1>11, <1>12, <1>13, <1>14,
     <1>15, <1>16, <1>17, <1>18, <1>19 DEF Next, RequestStep, ResetStep

(* What a step does to the worker: nothing, or it starts, enters, ends or  *)
(* completes its request.                                                  *)
LEMMA WorkerSteps ==
  ASSUME IInv, [Next]_vars
  PROVE  \/ act'[Worker] = act[Worker]
         \/ act'[Worker].pc = "idle"
         \/ WorkStart \/ Acquire(Worker) \/ Resolve(Worker) \/ Put(Worker)
<1>a. act \in [Actors -> ActSort] /\ Worker \in Actors /\ Worker \notin Writers
      /\ Writers \subseteq Actors /\ Idle.pc = "idle"
  BY Apart DEF IInv, Types, ActorTypes, Idle
<1>b. ASSUME NEW a \in Actors, a # Worker, NEW ret, Return(a, ret) PROVE act'[Worker] = act[Worker]
  BY <1>a, <1>b DEF Return
<1>c. ASSUME NEW ret, NEW i, NEW refs, InitFailed(ret, i, refs) PROVE act' = act
  BY <1>c DEF InitFailed
<1>1. CASE \E w \in Writers : Interrupted(w) \/ \E n \in Names : Write(w, n)
  BY <1>1, <1>a DEF Interrupted, Write
<1>2. CASE \E a \in Actors : Acquire(a)
  <2>1. PICK a \in Actors : Acquire(a)
    BY <1>2
  <2>2. ASSUME a # Worker PROVE act'[Worker] = act[Worker]
    <3>1. CASE Refusal(a) # "0"
      BY <1>b, <2>1, <2>2, <3>1 DEF Acquire
    <3>2. CASE Refusal(a) = "0"
      BY <1>a, <2>1, <2>2, <3>2 DEF Acquire
    <3> QED
      BY <3>1, <3>2
  <2> QED
    BY <2>1, <2>2
<1>3. CASE \E a \in Actors : Resolve(a)
  <2>1. PICK a \in Actors : Resolve(a)
    BY <1>3
  <2>2. ASSUME a # Worker PROVE act'[Worker] = act[Worker]
    BY <1>a, <2>1, <2>2, ResolveEffect DEF Released
  <2> QED
    BY <2>1, <2>2
<1>4. CASE \E a \in Actors : Defer(a) \/ Put(a)
  BY <1>4, <1>b DEF Defer, Put, Release
<1>5. CASE Post
  BY <1>5, <1>a DEF Post
<1>6. CASE Transaction
  BY <1>6, <1>c DEF Transaction, Teardown, HoldPeer, Register, Publish, Invalid, Commit, RolledBack
<1>7. CASE \E h \in Handles, kind \in {"flr", "reload"} :
             ResetSuspend(h, kind) \/ ResetRefused(h, kind)
  BY <1>7 DEF ResetSuspend, ResetRefused
<1>8. CASE ResetStep \/ ResetFail
  BY <1>8 DEF ResetStep, ResetDestroy, ResetKeep, ResetRebuild, ResetResume, ResetFail
<1>9. CASE \E h \in Handles : CardRemove(h) \/ \E n \in Names : CardAdd(h, n)
  BY <1>9 DEF CardRemove, CardAdd
<1>10. CASE UnloadDisable \/ UnloadDrain \/ UnloadTeardown
  BY <1>10 DEF UnloadDisable, UnloadDrain, UnloadTeardown
<1>11. CASE \E h \in Handles : LinkChange(h) \/ LinkEvent(h) \/ FwHang(h)
  BY <1>11 DEF LinkChange, LinkEvent, FwHang
<1>12. CASE \E h \in Handles, n \in Names : Rename(h, n)
  BY <1>12 DEF Rename
<1>13. CASE PeerChange \/ PeerEvent \/ PeerUnregister \/ PeerReleaseWork
  BY <1>13 DEF PeerChange, PeerEvent, PeerUnregister, PeerReleaseWork
<1>14. CASE UNCHANGED vars
  BY <1>14 DEF vars
<1> QED
  BY <1>1, <1>2, <1>3, <1>4, <1>5, <1>6, <1>7, <1>8, <1>9, <1>10, <1>11, <1>12, <1>13, <1>14
     DEF Next, RequestStep

(* The worker's own steps keep the name and generation it works for. *)
LEMMA WorkerKeepsGeneration ==
  ASSUME IInv, Acquire(Worker) \/ Resolve(Worker) \/ Put(Worker)
  PROVE  /\ act[Worker].pc # "idle"
         /\ act'[Worker].pc # "idle" =>
              act'[Worker].name = act[Worker].name /\ act'[Worker].gen = act[Worker].gen
<1>a. act \in [Actors -> ActSort] /\ Worker \in Actors /\ job.ret \in Errors
  BY Apart DEF IInv, Types, ActorTypes, JobTypes, JobSort
<1>1. CASE Acquire(Worker)
  <2>1. Refusal(Worker) \in Errors
    BY DEF Refusal, Errors
  <2>2. CASE Refusal(Worker) # "0"
    <3>1. Return(Worker, Refusal(Worker)) /\ act[Worker].pc = "lock"
      BY <1>1, <2>2 DEF Acquire
    <3> QED
      BY <1>a, <2>1, <3>1, ReturnTyped
  <2>3. CASE Refusal(Worker) = "0"
    BY <1>1, <1>a, <2>3 DEF Acquire, ActSort
  <2> QED
    BY <2>2, <2>3
<1>2. CASE Resolve(Worker)
  <2>1. act[Worker].pc = "held"
    BY <1>2, <1>a DEF Resolve, IInv, RequestNamed
  <2> QED
    BY <1>2, <1>a, <2>1, ResolveEffect DEF Released
<1>3. CASE Put(Worker)
  <2>1. act[Worker].pc = "held" /\ Release(Worker, job.ret)
    BY <1>3, <1>a DEF Put, IInv, RequestNamed
  <2> QED
    BY <1>a, <2>1, ReleaseReleases DEF Released
<1> QED
  BY <1>1, <1>2, <1>3

(* A holder of the lock opens its transaction with a snapshot and keeps it. *)
LEMMA HolderKeepsSnapshot ==
  ASSUME IInv, [Next]_vars, (lock \in Actors)', ~\E a \in Actors : Acquire(a),
         job'.step \in Building \cup {"rtnl", "defer", "teardown"}
  PROVE  /\ lock \in Actors /\ job.step \in Building \cup {"rtnl", "defer", "teardown"}
         /\ job'.snapName = job.snapName /\ job'.snapGen = job.snapGen
         /\ job'.snapSet = job.snapSet
<1>a. /\ job \in JobSort /\ lock' \in Actors /\ NoJob.step = "none"
      /\ \A a \in Actors : a \notin {"free", "reset", "card", "unload"}
  BY Apart DEF IInv, Types, JobTypes, NoJob, Actors
<1> USE <1>a DEF Building
<1>b. ASSUME UNCHANGED <<lock, job>>
      PROVE  /\ lock \in Actors /\ job.step \in Building \cup {"rtnl", "defer", "teardown"}
             /\ job'.snapName = job.snapName /\ job'.snapGen = job.snapGen
             /\ job'.snapSet = job.snapSet
  BY <1>b
<1>1. CASE \E w \in Writers : Interrupted(w) \/ \E n \in Names : Write(w, n)
  BY <1>1, <1>b DEF Interrupted, Write
<1>2. CASE \E a \in Actors : Resolve(a)
  <2>1. PICK a \in Actors : Resolve(a)
    BY <1>2
  <2>2. lock = a /\ job.step = "rtnl"
    BY <2>1 DEF Resolve
  <2> QED
    BY <2>1, <2>2, ResolveEffect DEF Released, JobSort
<1>3. CASE \E a \in Actors : Defer(a) \/ Put(a)
  BY <1>3 DEF Defer, Put, Release, JobSort
<1>4. CASE WorkStart \/ Post
  BY <1>4, <1>b DEF WorkStart, Post
<1>5. CASE Transaction
  <2>1. ASSUME NEW ret, NEW i, NEW refs, InitFailed(ret, i, refs)
        PROVE  lock' = lock /\ job'.snapName = job.snapName /\ job'.snapGen = job.snapGen
               /\ job'.snapSet = job.snapSet
    BY <2>1 DEF InitFailed, Unlock, JobSort
  <2>2. job.step \in Building \cup {"teardown"}
    BY <1>5 DEF Transaction, Teardown, HoldPeer, Register, Publish, Invalid, Commit, RolledBack
  <2>3. CASE Teardown \/ Register \/ \E a \in Actors : Commit(a) \/ RolledBack(a)
    BY <2>2, <2>3 DEF Teardown, Register, Commit, RolledBack, JobSort
  <2>4. CASE HoldPeer \/ Invalid
    BY <2>1, <2>2, <2>4 DEF HoldPeer, Invalid, JobSort
  <2>5. CASE Publish
    BY <2>1, <2>2, <2>5 DEF Publish, Unlock, JobSort
  <2> QED
    BY <1>5, <2>3, <2>4, <2>5 DEF Transaction
<1>6. CASE \E h \in Handles, kind \in {"flr", "reload"} :
             ResetSuspend(h, kind) \/ ResetRefused(h, kind)
  BY <1>6 DEF ResetSuspend, ResetRefused
<1>7. CASE ResetStep \/ ResetFail
  BY <1>7 DEF ResetStep, ResetDestroy, ResetKeep, ResetRebuild, ResetResume, ResetFail, Unlock
<1>8. CASE \E h \in Handles : CardRemove(h) \/ \E n \in Names : CardAdd(h, n)
  BY <1>8 DEF CardRemove, CardAdd
<1>9. CASE UnloadDisable \/ UnloadDrain \/ UnloadTeardown
  BY <1>9, <1>b DEF UnloadDisable, UnloadDrain, UnloadTeardown
<1>10. CASE \E h \in Handles : LinkChange(h) \/ LinkEvent(h) \/ FwHang(h)
  BY <1>10, <1>b DEF LinkChange, LinkEvent, FwHang
<1>11. CASE \E h \in Handles, n \in Names : Rename(h, n)
  BY <1>11, <1>b DEF Rename
<1>12. CASE PeerChange \/ PeerEvent \/ PeerUnregister \/ PeerReleaseWork
  BY <1>12, <1>b DEF PeerChange, PeerEvent, PeerUnregister, PeerReleaseWork
<1>13. CASE UNCHANGED vars
  BY <1>13, <1>b DEF vars
<1> QED
  BY <1>1, <1>2, <1>3, <1>4, <1>5, <1>6, <1>7, <1>8, <1>9, <1>10, <1>11, <1>12, <1>13
     DEF Next, RequestStep

(* Only a deferral opens a generation, and it ends the snapshot's use. *)
LEMMA SnapshotStaysFresh ==
  ASSUME IInv, SnapshotFresh, [Next]_vars
  PROVE  SnapshotFresh'
<1>a. /\ pending \in PendingSort /\ act \in [Actors -> ActSort] /\ Worker \in Actors
      /\ act[Worker].gen \in Nat
  BY Apart DEF IInv, Types, ActorTypes, ActSort
<1>b. pending.gen \in Nat /\ pending'.gen \in Nat /\ pending.gen <= pending'.gen
  <2>1. pending' \in PendingSort
    BY NextIInv DEF IInv, Types
  <2>2. CASE RetainsOnly
    BY <1>a, <2>1, <2>2 DEF RetainsOnly, PendingSort
  <2>3. CASE \E a \in Actors : Defer(a)
    BY <1>a, <2>1, <2>3 DEF Defer, PendingSet, PendingSort
  <2> QED
    BY <2>2, <2>3, RequestStepRetains
<1>1. ASSUME act'[Worker].pc # "idle" PROVE act'[Worker].gen <= pending'.gen
  <2>1. CASE act'[Worker] = act[Worker]
    BY <1>1, <1>a, <1>b, <2>1 DEF SnapshotFresh
  <2>2. CASE WorkStart
    <3>1. act'[Worker] = act[Worker] \/ act'[Worker].gen = pending.gen
      BY <1>a, <2>2 DEF WorkStart, PendingSort
    <3> QED
      BY <1>b, <2>1, <3>1
  <2>3. CASE Acquire(Worker) \/ Resolve(Worker) \/ Put(Worker)
    BY <1>1, <1>a, <1>b, <2>3, WorkerKeepsGeneration DEF SnapshotFresh
  <2> QED
    BY <1>1, <2>1, <2>2, <2>3, WorkerSteps
<1>2. ASSUME (lock \in Actors)', job'.step \in Building \cup {"rtnl", "defer", "teardown"},
             pending'.state # "none"
      PROVE  job'.snapSet /\ job'.snapName = pending'.name /\ job'.snapGen = pending'.gen
  <2>1. CASE \E a \in Actors : Acquire(a)
    <3>1. PICK a \in Actors : Acquire(a)
      BY <2>1
    <3>2. lock = "free" /\ pending' = pending /\ lock' # "free"
      BY <1>2, <3>1, Apart DEF Acquire, Actors
    <3>3. job' = [NoJob EXCEPT !.step = "rtnl", !.snapName = pending.name,
                         !.snapGen = pending.gen, !.snapSet = pending.state # "none"]
      BY <3>1, <3>2 DEF Acquire
    <3> QED
      BY <1>2, <3>2, <3>3 DEF NoJob
  <2>2. CASE ~\E a \in Actors : Acquire(a)
    <3>1. /\ lock \in Actors /\ job.step \in Building \cup {"rtnl", "defer", "teardown"}
          /\ job'.snapName = job.snapName /\ job'.snapGen = job.snapGen
          /\ job'.snapSet = job.snapSet
      BY <1>2, <2>2, HolderKeepsSnapshot
    <3>2. RetainsOnly
      <4>1. ASSUME NEW a \in Actors, Defer(a) PROVE FALSE
        <5>1. job'.step = "put"
          BY <4>1 DEF Defer, IInv, Types, JobTypes, JobSort
        <5> QED
          BY <1>2, <5>1 DEF Building
      <4> QED
        BY <4>1, RequestStepRetains
    <3> QED
      BY <1>2, <3>1, <3>2 DEF RetainsOnly, SnapshotFresh
  <2> QED
    BY <2>1, <2>2
<1> QED
  BY <1>1, <1>2 DEF SnapshotFresh

(* A deferral opens a generation that is not the worker's. *)
LEMMA DeferIsNotWorkers ==
  ASSUME IInv, SnapshotFresh, NEW a \in Actors, Defer(a), act[Worker].pc # "idle"
  PROVE  ~WorkersOwn'
<1>a. pending \in PendingSort /\ act[Worker].gen \in Nat /\ act' = act
  BY Apart DEF IInv, Types, ActorTypes, ActSort, Defer
<1>1. CASE pending.on
  <2>1. pending'.gen = pending.gen + 1
    BY <1>1, <1>a DEF Defer, PendingSet, PendingSort
  <2>2. pending'.gen # act[Worker].gen
    BY <1>a, <2>1 DEF SnapshotFresh, PendingSort
  <2> QED
    BY <1>a, <2>2 DEF WorkersOwn, PendingMatches
<1>2. CASE ~pending.on
  BY <1>2 DEF Defer, PendingSet, IInv, GateClosed, WorkersOwn, PendingMatches
<1> QED
  BY <1>1, <1>2

(* What is the worker's own after a step was so before it. *)
LEMMA WorkersOwnBefore ==
  ASSUME IInv, SnapshotFresh, [Next]_vars, WorkersOwn', act[Worker].pc # "idle",
         act'[Worker].name = act[Worker].name, act'[Worker].gen = act[Worker].gen
  PROVE  WorkersOwn /\ admitted' = admitted
<1>a. /\ pending'.state # "none" /\ (admitted # NoDev)'
      /\ pending'.gen = act[Worker].gen /\ pending'.name = act[Worker].name
  BY DEF WorkersOwn, PendingMatches
<1>1. CASE RetainsOnly /\ admitted' = admitted
  BY <1>1, <1>a DEF RetainsOnly, WorkersOwn, PendingMatches, NoDev
<1>2. CASE \E a \in Actors : Defer(a)
  BY <1>2, DeferIsNotWorkers
<1> QED
  BY <1>1, <1>2, RequestStepRetains

(* The worker's transaction succeeds only on the admitted netdev. *)
LEMMA WorkerAppliesOwn ==
  ASSUME IInv, NInv, SnapshotFresh, WorkerReports, [Next]_vars, lock' = Worker,
         job'.step = "put", job'.ret = "0", WorkersOwn'
  PROVE  owner' = admitted'[1]
<1>a. /\ Worker \in Actors /\ Worker \notin {"free", "reset", "card", "unload"}
      /\ job \in JobSort /\ act'[Worker].pc = "held" /\ NoJob.step = "none"
      /\ (admitted # NoDev)'
  BY Apart, NextIInv DEF IInv, Types, JobTypes, RequestNamed, NoJob, WorkersOwn
<1>b. ASSUME UNCHANGED <<lock, job, owner>>, act'[Worker] = act[Worker]
      PROVE  owner' = admitted'[1]
  <2>1. act[Worker].pc # "idle"
    BY <1>a, <1>b
  <2>2. WorkersOwn /\ admitted' = admitted
    BY <1>b, <2>1, WorkersOwnBefore
  <2> QED
    BY <1>b, <2>2 DEF WorkerReports
<1>c. ASSUME NEW ret, NEW i, NEW refs, InitFailed(ret, i, refs) PROVE FALSE
  BY <1>a, <1>c DEF InitFailed, Unlock, JobSort
<1>1. CASE \E a \in Actors : Resolve(a)
  <2>1. PICK a \in Actors : Resolve(a)
    BY <1>1
  <2>2. lock = a /\ owner' = owner /\ admitted' = admitted
    BY <2>1 DEF Resolve
  <2>3. ~Released(a)
    BY <1>a DEF Released
  <2>4. /\ lock' = lock /\ act' = act /\ PendingMatches(pending, act[Worker].name, act[Worker].gen)
        /\ name[owner] = act[Worker].name /\ a = Worker
    <3>1. PICK h \in Handles, s \in {"defer", "put", "teardown"}, ret \in {"0", "ENETDOWN"} :
            /\ name[h] = act[a].name
            /\ a = Worker => PendingMatches(pending, act[a].name, act[a].gen)
            /\ s = "put" /\ ret = "0" => name[owner] = act[a].name
            /\ peer' = [peer EXCEPT !.refs = @ + 1]
            /\ job' = [job EXCEPT !.step = s, !.tgt = h, !.old = owner, !.ret = ret]
            /\ UNCHANGED <<lock, act, pending>>
      BY <2>1, <2>3, ResolveEffect
    <3>2. s = "put" /\ ret = "0"
      BY <1>a, <3>1 DEF JobSort
    <3> QED
      BY <2>2, <3>1, <3>2
  <2>5. owner \in Handles /\ name[owner] # NoName
    BY <2>1 DEF Resolve, IInv, OwnerByStep, Settled, Types, BridgeTypes, HandleOrNone
  <2>6. admitted[1] \in Handles /\ name[admitted[1]] = name[owner]
    BY <1>a, <2>2, <2>4 DEF NInv, AdmittedBears, PendingMatches, NoDev
  <2> QED
    BY <2>2, <2>5, <2>6 DEF NInv, NamesDistinct
<1>2. CASE \E a \in Actors : Defer(a)
  <2>1. act[Worker].pc # "idle"
    BY <1>2, <1>a DEF Defer
  <2> QED
    BY <1>2, <2>1, DeferIsNotWorkers
<1>3. CASE \E a \in Actors : Commit(a)
  <2>1. /\ lock = Worker /\ job.step = "validate" /\ owner' = job.tgt /\ admitted' = admitted
    BY <1>3 DEF Commit
  <2> QED
    BY <1>a, <2>1 DEF NInv, WorkerTarget, Building, NoDev
<1>4. CASE \E a \in Actors : RolledBack(a)
  BY <1>4, <1>a DEF RolledBack, IInv, FailureKnown, JobSort
<1>5. CASE Teardown \/ HoldPeer \/ Register \/ Publish \/ Invalid
  BY <1>5, <1>a, <1>c DEF Teardown, HoldPeer, Register, Publish, Invalid, Unlock, JobSort
<1>6. CASE \E w \in Writers : Interrupted(w) \/ \E n \in Names : Write(w, n)
  <2>1. Worker \notin Writers /\ act \in [Actors -> ActSort]
    BY Apart DEF IInv, Types, ActorTypes
  <2> QED
    BY <1>6, <1>a, <1>b, <2>1 DEF Interrupted, Write
<1>7. CASE \E a \in Actors : Acquire(a) \/ Put(a)
  <2>1. PICK a \in Actors : Acquire(a) \/ Put(a)
    BY <1>7
  <2> QED
    BY <1>a, <2>1 DEF Acquire, Put, Release, NoJob
<1>8. CASE WorkStart \/ Post
  <2>1. UNCHANGED <<lock, job, owner>>
    BY <1>8 DEF WorkStart, Post
  <2>2. act[Worker].pc = "held"
    BY <1>a, <2>1 DEF IInv, RequestNamed
  <2> QED
    BY <1>8, <2>2 DEF WorkStart, Post
<1>9. CASE \E h \in Handles, kind \in {"flr", "reload"} :
             ResetSuspend(h, kind) \/ ResetRefused(h, kind)
  BY <1>9, <1>a DEF ResetSuspend, ResetRefused
<1>10. CASE ResetStep \/ ResetFail
  BY <1>10, <1>a DEF ResetStep, ResetDestroy, ResetKeep, ResetRebuild, ResetResume, ResetFail, Unlock
<1>11. CASE \E h \in Handles : CardRemove(h) \/ \E n \in Names : CardAdd(h, n)
  BY <1>11, <1>a DEF CardRemove, CardAdd
<1>12. CASE UnloadDisable \/ UnloadDrain \/ UnloadTeardown
  BY <1>12, <1>a, <1>b DEF UnloadDisable, UnloadDrain, UnloadTeardown
<1>13. CASE \E h \in Handles : LinkChange(h) \/ LinkEvent(h) \/ FwHang(h)
  BY <1>13, <1>b DEF LinkChange, LinkEvent, FwHang
<1>14. CASE \E h \in Handles, n \in Names : Rename(h, n)
  BY <1>14, <1>b DEF Rename
<1>15. CASE PeerChange \/ PeerEvent \/ PeerUnregister \/ PeerReleaseWork
  BY <1>15, <1>b DEF PeerChange, PeerEvent, PeerUnregister, PeerReleaseWork
<1>16. CASE UNCHANGED vars
  BY <1>16, <1>b DEF vars
<1> QED
  BY <1>1, <1>2, <1>3, <1>4, <1>5, <1>6, <1>7, <1>8, <1>9, <1>10, <1>11, <1>12, <1>13, <1>14,
     <1>15, <1>16 DEF Next, RequestStep, Transaction

(* Until the worker has completed an applied request, the bridge stays on  *)
(* its netdev, is suspended with it, or the request is cancelled.          *)
LEMMA AppliedStays ==
  ASSUME IInv, OInv, SuspendedAlone, SnapshotFresh, [Next]_vars, WorkersOwn, WorkersOwn',
         act[Worker].pc = "post", act'[Worker] = act[Worker], NEW h \in Handles, Applied(h)
  PROVE  Applied(h)'
<1>a. /\ job \in JobSort /\ NoJob.phase = "none" /\ NoJob.step = "none"
      /\ \A a \in Actors : a \notin {"free", "reset", "card", "unload"}
      /\ lock # Worker /\ pending.state # "none" /\ pending \in PendingSort
  BY Apart DEF IInv, Types, JobTypes, NoJob, RequestNamed, WorkersOwn, PendingMatches
<1>b. ASSUME UNCHANGED <<lock, job, owner, suspended>> PROVE Applied(h)'
  BY <1>b DEF Applied, Actors
<1>c. ASSUME lock' = "free", job' = NoJob, UNCHANGED <<owner, suspended>> PROVE Applied(h)'
  BY <1>a, <1>c DEF Applied, Actors
<1>d. ASSUME lock' = lock, job.step \notin {"none", "rtnl"}, job'.old = job.old,
             job'.phase # "resume", owner' \in {owner, NoHandle}, suspended' = suspended
      PROVE  Applied(h)'
  BY <1>d DEF Applied, Actors
<1>e. ASSUME NEW ret, NEW i, NEW refs, InitFailed(ret, i, refs), job.step \in Building
      PROVE  Applied(h)'
  <2>1. owner' = owner /\ suspended' = suspended
    BY <1>e DEF InitFailed
  <2>2. CASE job.phase \in {"switch", "rollback"}
    BY <1>a, <1>d, <1>e, <2>1, <2>2 DEF InitFailed, JobSort, Building
  <2>3. CASE job.phase \in {"resume", "load"}
    BY <1>a, <1>c, <1>e, <2>1, <2>3 DEF InitFailed, Unlock
  <2> QED
    BY <1>e, <2>2, <2>3 DEF InitFailed
<1>1. CASE \E w \in Writers : Interrupted(w) \/ \E n \in Names : Write(w, n)
  BY <1>1, <1>b DEF Interrupted, Write
<1>2. CASE \E a \in Actors : Acquire(a)
  <2>1. PICK a \in Actors : Acquire(a)
    BY <1>2
  <2>2. CASE Refusal(a) # "0"
    BY <1>b, <2>1, <2>2 DEF Acquire
  <2>3. CASE Refusal(a) = "0"
    <3>1. job'.step = "rtnl" /\ job'.phase = "none" /\ UNCHANGED <<owner, suspended>>
      BY <2>1, <2>3 DEF Acquire, NoJob
    <3> QED
      BY <3>1 DEF Applied
  <2> QED
    BY <2>2, <2>3
<1>3. CASE \E a \in Actors : Resolve(a)
  <2>1. PICK a \in Actors : Resolve(a)
    BY <1>3
  <2>2. owner # NoHandle /\ UNCHANGED <<owner, suspended>> /\ job.phase # "resume"
    BY <1>a, <2>1 DEF Resolve, IInv, OwnerByStep, JobOfHolder, Building
  <2>3. CASE Released(a)
    BY <1>c, <2>2, <2>3 DEF Released
  <2>4. CASE job'.old = owner /\ job'.phase = job.phase
    BY <2>2, <2>4 DEF Applied
  <2> QED
    BY <1>a, <2>1, <2>3, <2>4, ResolveEffect DEF JobSort
<1>4. CASE \E a \in Actors : Defer(a)
  BY <1>4, DeferIsNotWorkers
<1>5. CASE \E a \in Actors : Put(a)
  BY <1>5, <1>c DEF Put, Release
<1>6. CASE WorkStart \/ Post
  BY <1>6, <1>b DEF WorkStart, Post
<1>7. CASE Teardown
  BY <1>7, <1>a, <1>d DEF Teardown, JobSort
<1>8. CASE HoldPeer
  <2>1. CASE \E ret, i, refs : InitFailed(ret, i, refs)
    BY <1>8, <1>e, <2>1 DEF HoldPeer, Building
  <2>2. CASE job' = [job EXCEPT !.step = "register"] /\ UNCHANGED <<lock, owner, suspended>>
    BY <1>8, <1>a, <2>2 DEF HoldPeer, Applied, JobSort, Actors
  <2> QED
    BY <1>8, <2>1, <2>2 DEF HoldPeer
<1>9. CASE Register
  BY <1>9, <1>a DEF Register, Applied, JobSort, Actors
<1>10. CASE Publish
  <2>1. CASE \E ret, i, refs : InitFailed(ret, i, refs)
    BY <1>10, <1>e, <2>1 DEF Publish, Building
  <2>2. CASE /\ job' = [job EXCEPT !.step = "validate"] /\ job.phase \in {"switch", "rollback"}
             /\ UNCHANGED <<lock, owner, suspended>>
    BY <1>10, <1>a, <1>d, <2>2 DEF Publish, JobSort
  <2>3. CASE job.phase = "resume" /\ owner' = BuildTarget /\ Unlock /\ UNCHANGED suspended
    BY <1>a, <2>3 DEF BuildTarget, Applied, Unlock, Actors
  <2>4. CASE job.phase = "load" /\ peer.reg
    <3>1. lock = "card" /\ owner = NoHandle
      BY <1>10, <2>4, PhaseOfHolder DEF Publish, IInv, OwnerByStep
    <3>2. suspended = NoHandle /\ lock \notin Actors
      BY <1>a, <3>1 DEF SuspendedAlone
    <3> QED
      BY <1>a, <2>4, <3>1, <3>2 DEF OInv, NoRefusal, NoRequestWithoutOwner
  <2> QED
    BY <1>10, <2>1, <2>2, <2>3, <2>4 DEF Publish
<1>11. CASE Invalid
  BY <1>11, <1>e DEF Invalid, Building
<1>12. CASE \E a \in Actors : Commit(a)
  <2>1. PICK a \in Actors : Commit(a)
    BY <1>12
  <2>2. a # Worker /\ job.snapSet /\ job.snapName = pending.name /\ job.snapGen = pending.gen
    BY <1>a, <2>1 DEF Commit, SnapshotFresh, Building
  <2>3. pending' = Cleared(pending)
    BY <1>a, <2>1, <2>2 DEF Commit, PendingClearIf, PendingMatches
  <2>4. pending'.state = "none"
    BY <1>a, <2>3 DEF Cleared, PendingSort
  <2> QED
    BY <2>4 DEF WorkersOwn, PendingMatches
<1>13. CASE \E a \in Actors : RolledBack(a)
  <2>1. /\ lock \in Actors /\ job.step = "validate" /\ owner' = job.old
        /\ job'.old = job.old /\ job'.phase # "resume" /\ UNCHANGED <<lock, suspended>>
    BY <1>13, <1>a DEF RolledBack, JobSort
  <2> QED
    BY <2>1 DEF Applied
<1>14. CASE \E g \in Handles, kind \in {"flr", "reload"} :
              ResetSuspend(g, kind) \/ ResetRefused(g, kind)
  <2>1. /\ job' = job /\ lock = "free" /\ lock' \in {"free", "reset"}
        /\ owner' \in {owner, NoHandle} /\ suspended' \in {suspended, owner}
    BY <1>14 DEF ResetSuspend, ResetRefused
  <2> QED
    BY <1>a, <2>1 DEF Applied, Actors
<1>15. CASE ResetDestroy \/ ResetKeep \/ \E n \in Names : ResetRebuild(n)
  <2>1. job' = job /\ lock' \in {"free", "reset"} /\ UNCHANGED <<owner, suspended>>
    BY <1>15 DEF ResetDestroy, ResetKeep, ResetRebuild
  <2> QED
    BY <1>a, <2>1 DEF Applied, Actors
<1>16. CASE ResetResume
  <2>1. CASE suspended = NoHandle
    BY <1>16, <1>c, <2>1 DEF ResetResume, Unlock
  <2>2. CASE suspended # NoHandle
    <3>1. /\ suspended' = NoHandle /\ owner' = owner /\ job'.tgt = suspended /\ lock' = "reset"
      BY <1>16, <2>2 DEF ResetResume, NoJob
    <3> QED
      BY <1>a, <2>2, <3>1 DEF Applied, Actors
  <2> QED
    BY <2>1, <2>2
<1>17. CASE ResetFail
  BY <1>17, <1>a DEF ResetFail, Unlock, Applied, Actors
<1>18. CASE \E g \in Handles : CardRemove(g)
  <2>1. /\ job' = job /\ lock' = lock
        /\ owner' \in {owner, NoHandle} /\ suspended' \in {suspended, NoHandle}
    BY <1>18 DEF CardRemove
  <2> QED
    BY <2>1 DEF Applied, Actors
<1>19. CASE \E g \in Handles, n \in Names : CardAdd(g, n)
  <2>1. /\ lock' \in {"free", "card"} /\ UNCHANGED <<owner, suspended>>
        /\ job' = job \/ job'.phase = "load"
    BY <1>19 DEF CardAdd, NoJob
  <2> QED
    BY <1>a, <2>1 DEF Applied, Actors
<1>20. CASE UnloadDisable \/ UnloadDrain
  BY <1>20, <1>b DEF UnloadDisable, UnloadDrain
<1>21. CASE UnloadTeardown
  BY <1>21, <1>a DEF UnloadTeardown, Applied, Actors
<1>22. CASE \E g \in Handles : LinkChange(g) \/ LinkEvent(g) \/ FwHang(g)
  BY <1>22, <1>b DEF LinkChange, LinkEvent, FwHang
<1>23. CASE \E g \in Handles, n \in Names : Rename(g, n)
  BY <1>23, <1>b DEF Rename
<1>24. CASE PeerChange \/ PeerEvent \/ PeerUnregister \/ PeerReleaseWork
  BY <1>24, <1>b DEF PeerChange, PeerEvent, PeerUnregister, PeerReleaseWork
<1>25. CASE UNCHANGED vars
  BY <1>25, <1>b DEF vars
<1> QED
  BY <1>1, <1>2, <1>3, <1>4, <1>5, <1>6, <1>7, <1>8, <1>9, <1>10, <1>11, <1>12, <1>13, <1>14,
     <1>15, <1>16, <1>17, <1>18, <1>19, <1>20, <1>21, <1>22, <1>23, <1>24, <1>25
     DEF Next, RequestStep, ResetStep, Transaction

(* A request of the worker that ends in its RTNL section failed, and as    *)
(* stale only where nobody bears its name.                                 *)
LEMMA WorkerRefused ==
  ASSUME IInv, Resolve(Worker), act' # act
  PROVE  /\ act'[Worker].ret \notin {"0", "EIO"}
         /\ act'[Worker].ret = "ESTALE" => Bearers(name, act[Worker].name) = {}
BY Apart, ResolveEffect

(* The worker reports what it did. *)
LEMMA WorkerKeepsReporting ==
  ASSUME IInv, NInv, OInv, LInv, [Next]_vars
  PROVE  WorkerReports'
<1>a. /\ act \in [Actors -> ActSort] /\ Worker \in Actors /\ pending \in PendingSort
      /\ job.ret \in Errors /\ SuspendedAlone /\ SnapshotFresh /\ WorkerReports
  BY Apart DEF IInv, Types, ActorTypes, JobTypes, JobSort, LInv
<1>b. ASSUME WorkersOwn PROVE admitted[1] \in Handles /\ name[admitted[1]] = act[Worker].name
  BY <1>b DEF WorkersOwn, PendingMatches, NInv, AdmittedBears
<1>1. ASSUME lock' = Worker, job'.step = "put", job'.ret = "0", WorkersOwn'
      PROVE  owner' = admitted'[1]
  BY <1>1, <1>a, WorkerAppliesOwn
<1>2. ASSUME act'[Worker].pc = "post", WorkersOwn'
      PROVE  /\ act'[Worker].ret = "0" => Applied(admitted[1])'
             /\ act'[Worker].ret \notin {"ESTALE", "EIO"}
  <2>1. CASE act'[Worker] = act[Worker]
    <3>1. WorkersOwn /\ admitted' = admitted
      BY <1>2, <1>a, <2>1, WorkersOwnBefore
    <3>2. PICK h \in Handles : h = admitted[1]
      BY <1>b, <3>1
    <3>3. ASSUME act[Worker].ret = "0" PROVE Applied(admitted[1])'
      <4>1. Applied(h)
        BY <1>2, <1>a, <2>1, <3>1, <3>2, <3>3 DEF WorkerReports
      <4>2. Applied(h)'
        BY <1>2, <1>a, <2>1, <3>1, <4>1, AppliedStays
      <4> QED
        BY <3>1, <3>2, <4>2 DEF Applied
    <3> QED
      BY <1>2, <1>a, <2>1, <3>1, <3>3 DEF WorkerReports
  <2>2. CASE WorkStart
    <3>1. act' = act \/ act'[Worker].pc = "lock" \/ act'[Worker].ret = "EAGAIN"
      BY <1>a, <2>2 DEF WorkStart
    <3> QED
      BY <1>2, <2>1, <3>1
  <2>3. CASE Acquire(Worker)
    <3>1. CASE Refusal(Worker) # "0"
      <4>1. Refusal(Worker) \in Errors \ {"0", "ESTALE", "EIO"}
        BY <3>1 DEF Refusal, Errors
      <4>2. act'[Worker].ret = Refusal(Worker)
        BY <1>a, <2>3, <3>1, <4>1, ReturnTyped DEF Acquire
      <4> QED
        BY <4>1, <4>2
    <3>2. CASE Refusal(Worker) = "0"
      BY <1>2, <1>a, <2>3, <3>2 DEF Acquire, ActSort
    <3> QED
      BY <3>1, <3>2
  <2>4. CASE Resolve(Worker)
    <3>1. act[Worker].pc = "held" /\ act[Worker].pc # "idle"
      BY <1>a, <2>4 DEF Resolve, IInv, RequestNamed
    <3>2. act' # act
      BY <1>2, <3>1
    <3>3. /\ act'[Worker].ret \notin {"0", "EIO"}
          /\ act'[Worker].ret = "ESTALE" => Bearers(name, act[Worker].name) = {}
      BY <2>4, <3>2, WorkerRefused
    <3>4. act'[Worker].name = act[Worker].name /\ act'[Worker].gen = act[Worker].gen
      BY <1>2, <2>4, WorkerKeepsGeneration
    <3>5. WorkersOwn
      BY <1>2, <1>a, <3>1, <3>4, WorkersOwnBefore
    <3>6. Bearers(name, act[Worker].name) # {}
      BY <1>b, <3>5 DEF Bearers
    <3> QED
      BY <3>6, <3>3
  <2>5. CASE Put(Worker)
    <3>1. /\ lock = Worker /\ job.step = "put" /\ act'[Worker].ret = job.ret
          /\ lock' = "free" /\ job' = NoJob
          /\ UNCHANGED <<owner, suspended, pending, admitted>>
      BY <1>a, <2>5, ReleaseReleases DEF Put, Release
    <3>2. act[Worker].pc # "idle" /\ WorkersOwn
      BY <1>2, <1>a, <2>5, WorkerKeepsGeneration, WorkersOwnBefore
    <3>3. job.ret \notin {"ESTALE", "EIO"}
      BY <3>1, <3>2 DEF IInv, FailureKnown, WorkersOwn, PendingMatches
    <3>4. ASSUME job.ret = "0" PROVE Applied(admitted[1])'
      <4>1. owner = admitted[1] /\ suspended = NoHandle
        BY <1>a, <3>1, <3>2, <3>4 DEF WorkerReports, SuspendedAlone
      <4>2. lock' \notin Actors /\ NoJob.phase = "none"
        BY <3>1, Apart DEF NoJob
      <4> QED
        BY <3>1, <4>1, <4>2 DEF Applied, Actors
    <3> QED
      BY <3>1, <3>3, <3>4
  <2> QED
    BY <1>2, <2>1, <2>2, <2>3, <2>4, <2>5, WorkerSteps
<1> QED
  BY <1>1, <1>2 DEF WorkerReports

(* Why a retained request may be gone after a step. *)
Cause ==
  \/ owner' # NoHandle /\ name'[owner'] = pending.name
  \/ Bearers(name', pending.name) = {}
  \/ owner' = NoHandle
  \/ lock \in Writers /\ (owner' # owner \/ name[owner] = act[lock].name)
  \/ ~control'

(* Every step that ends the request has one of those causes. *)
LEMMA LossHasCause ==
  ASSUME IInv, NInv, LInv, Next, pending.state # "none", pending'.state = "none",
         admitted # NoDev
  PROVE  Cause
<1>a. /\ pending \in PendingSort /\ pending.on /\ pending.name \in Names /\ NoName \notin Names
      /\ name \in [Handles -> NameOrNone] /\ pending' # pending /\ NoHandle \notin Handles
  BY Apart DEF IInv, Types, CardTypes, RequestNamed, GateClosed
<1>b. \A b \in Actors : b # Worker => b \in Writers
  BY DEF Actors
<1>c. ASSUME NEW ret, NEW i, NEW refs, InitFailed(ret, i, refs),
             job.step \in {"hold", "publish", "validate"}
      PROVE  Cause
  <2>1. owner' = owner /\ job.phase \in {"rollback", "resume"}
    BY <1>a, <1>c DEF InitFailed
  <2>2. owner = NoHandle
    BY <1>c, <2>1 DEF LInv, SuspendedAlone, IInv, OwnerByStep
  <2> QED
    BY <2>1, <2>2 DEF Cause
<1>d. PendingKick(pending).state = pending.state
      /\ \A n, g : PendingRestoreWaiting(pending, n, g).state # "none"
  BY <1>a DEF PendingKick, PendingRestoreWaiting, PendingSort
<1>e. ASSUME NEW h \in Handles, name' = [name EXCEPT ![h] = NoName], pending.name = name[h]
      PROVE  Cause
  <2>1. \A g \in Handles : name'[g] # pending.name
    BY <1>a, <1>e DEF NInv, NamesDistinct
  <2> QED
    BY <2>1 DEF Bearers, Cause
<1>1. CASE \E w \in Writers : Interrupted(w) \/ \E n \in Names : Write(w, n)
  BY <1>1, <1>a DEF Interrupted, Write
<1>2. CASE \E a \in Actors : Acquire(a) \/ Put(a)
  BY <1>2, <1>a DEF Acquire, Put
<1>3. CASE \E a \in Actors : Resolve(a)
  <2>1. PICK a \in Actors : Resolve(a)
    BY <1>3
  <2>2. lock = a /\ a # Worker /\ name[owner] = act[a].name
    <3>1. ASSUME ~(name[owner] = act[a].name /\ a # Worker) PROVE pending' = pending
      BY <2>1, <3>1 DEF Resolve, Release
    <3> QED
      BY <1>a, <2>1, <3>1 DEF Resolve
  <2> QED
    BY <1>b, <2>2 DEF Cause
<1>4. CASE \E a \in Actors : Defer(a)
  BY <1>4, <1>a DEF Defer, PendingSet, PendingSort
<1>5. CASE WorkStart
  BY <1>5, <1>a DEF WorkStart, PendingBeginAttempt, PendingSort
<1>6. CASE Post
  <2>1. PendingMatches(pending, act[Worker].name, act[Worker].gen)
    BY <1>6, <1>a DEF Post
  <2>2. act[Worker].pc = "post" /\ WorkersOwn
    BY <1>6, <2>1 DEF Post, WorkersOwn
  <2>3. act[Worker].ret = "0"
    BY <1>6, <1>a, <1>d, <2>1, <2>2 DEF Post, LInv, WorkerReports
  <2>4. owner \in {NoHandle, admitted[1]} /\ UNCHANGED <<owner, name>>
    BY <1>6, <2>2, <2>3 DEF Post, LInv, WorkerReports, Applied, wlanVars
  <2>5. name[admitted[1]] = pending.name
    BY DEF NInv, AdmittedBears
  <2> QED
    BY <2>4, <2>5 DEF Cause
<1>7. CASE Teardown \/ Register
  BY <1>7, <1>a DEF Teardown, Register
<1>8. CASE HoldPeer \/ Invalid
  BY <1>8, <1>a, <1>c DEF HoldPeer, Invalid
<1>9. CASE Publish
  BY <1>9, <1>a, <1>c, <1>d DEF Publish
<1>10. CASE \E a \in Actors : Commit(a)
  <2>1. PICK a \in Actors : Commit(a)
    BY <1>10
  <2>2. lock = a /\ a # Worker /\ owner' = job.tgt /\ job.step = "validate"
    BY <1>a, <2>1 DEF Commit
  <2>3. owner = NoHandle /\ job.tgt \in Handles
    BY <2>2 DEF IInv, OwnerByStep, TargetsNamed
  <2> QED
    BY <1>a, <1>b, <2>2, <2>3 DEF Cause
<1>11. CASE \E a \in Actors : RolledBack(a)
  BY <1>11, <1>d DEF RolledBack
<1>12. CASE \E h \in Handles, kind \in {"flr", "reload"} :
              ResetSuspend(h, kind) \/ ResetRefused(h, kind)
  BY <1>12, <1>a DEF ResetSuspend, ResetRefused
<1>13. CASE ResetKeep \/ ResetResume \/ \E n \in Names : ResetRebuild(n)
  BY <1>13, <1>a DEF ResetKeep, ResetResume, ResetRebuild
<1>14. CASE ResetDestroy
  <2>1. rst.h \in Handles /\ name' = [name EXCEPT ![rst.h] = NoName]
    BY <1>14 DEF ResetDestroy, IInv, ResetHolds
  <2>2. pending.name = name[rst.h]
    BY <1>14, <1>a DEF ResetDestroy, PendingClearIf, PendingMatches, PendingUnregistered
  <2> QED
    BY <1>e, <2>1, <2>2
<1>15. CASE ResetFail
  <2>1. owner = NoHandle
    BY <1>15, <1>a DEF ResetFail, Discarded, LInv, SuspendedAlone
  <2> QED
    BY <1>15, <2>1 DEF ResetFail, Cause
<1>16. CASE \E h \in Handles : CardRemove(h)
  <2>1. PICK h \in Handles : CardRemove(h)
    BY <1>16
  <2>2. CASE owner = h
    BY <2>1, <2>2 DEF CardRemove, Cause
  <2>3. CASE owner # h /\ suspended = h
    <3>1. owner = NoHandle /\ owner' = owner
      BY <1>a, <2>1, <2>3 DEF CardRemove, LInv, SuspendedAlone
    <3> QED
      BY <3>1 DEF Cause
  <2>4. CASE owner # h /\ suspended # h
    <3>1. pending' = PendingUnregistered(PendingClearIf(pending, name[h], pending.gen), name[h])
          /\ name' = [name EXCEPT ![h] = NoName]
      BY <2>1, <2>4 DEF CardRemove
    <3>2. pending.name = name[h]
      BY <1>a, <3>1 DEF PendingClearIf, PendingMatches, PendingUnregistered
    <3> QED
      BY <1>e, <3>1, <3>2
  <2> QED
    BY <2>2, <2>3, <2>4
<1>17. CASE \E h \in Handles, n \in Names : CardAdd(h, n)
  BY <1>17, <1>a DEF CardAdd
<1>18. CASE UnloadDisable
  BY <1>18 DEF UnloadDisable, Cause
<1>19. CASE UnloadDrain
  BY <1>19, <1>a DEF UnloadDrain, PendingSort
<1>20. CASE UnloadTeardown
  BY <1>20 DEF UnloadTeardown, Cause
<1>21. CASE \E h \in Handles : LinkChange(h) \/ FwHang(h)
  BY <1>21, <1>a DEF LinkChange, FwHang
<1>22. CASE \E h \in Handles : LinkEvent(h)
  BY <1>22, <1>a DEF LinkEvent, PendingReadiness, PendingSort
<1>23. CASE \E h \in Handles, n \in Names : Rename(h, n)
  BY <1>23, <1>a DEF Rename, PendingRenamed, Cause
<1>24. CASE PeerChange \/ PeerEvent \/ PeerUnregister \/ PeerReleaseWork
  BY <1>24, <1>a DEF PeerChange, PeerEvent, PeerUnregister, PeerReleaseWork
<1> QED
  BY <1>1, <1>2, <1>3, <1>4, <1>5, <1>6, <1>7, <1>8, <1>9, <1>10, <1>11, <1>12, <1>13, <1>14,
     <1>15, <1>16, <1>17, <1>18, <1>19, <1>20, <1>21, <1>22, <1>23, <1>24
     DEF Next, RequestStep, ResetStep, Transaction

(* A retained request disappears only for one of the causes the            *)
(* documentation names, whatever else happens, in every scenario in which  *)
(* no other card can take the bridge between the halves of a PCI reset.    *)
THEOREM LostForCause == Spec /\ []ResetsUndisturbed => LostOnlyForCause
<1> DEFINE Step == pending.state # "none" /\ pending'.state = "none" /\ admitted # NoDev => Cause
<1>1. Init => LInv
  BY Apart DEF Init, LInv, SuspendedAlone, SnapshotFresh, WorkerReports, Idle, NoJob, Actors
<1>2. IInv /\ NInv /\ OInv /\ LInv /\ ResetsUndisturbed /\ [Next]_vars => LInv'
  BY SuspendedStaysAlone, SnapshotStaysFresh, WorkerKeepsReporting DEF LInv
<1>3. IInv /\ NInv /\ LInv /\ [Next]_vars => [Step]_vars
  BY LossHasCause
<1>4. Spec => []OInv
  BY OInvInvariant
<1>5. [][Step]_vars => LostOnlyForCause
  BY PTL DEF LostOnlyForCause, Cause
<1> QED
  BY <1>1, <1>2, <1>3, <1>4, <1>5, NInvInvariant, PTL DEF Spec
=============================================================================
