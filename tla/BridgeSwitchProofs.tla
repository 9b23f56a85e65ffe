------------------------- MODULE BridgeSwitchProofs -------------------------
(***************************************************************************)
(* The runtime switch for any set of handles, names and writers, any       *)
(* scenario and any number of writes and resets: who holds the peer's      *)
(* reference, whose instance the owner is, what a failed switch leaves,    *)
(* what an unload leaves, and whom a retained request may bind.            *)
(***************************************************************************)
EXTENDS BridgeSwitch, TLAPS

(* The record types of TypeOK; the count of references is an integer until *)
(* RefsBalanced shows that it is natural.                                  *)
InstSort ==
  [h : HandleOrNone, epoch : Nat, published : BOOLEAN, active : BOOLEAN,
   released : BOOLEAN, work : BOOLEAN, ref : BOOLEAN]
PeerSort == [reg : BOOLEAN, ready : BOOLEAN, edge : BOOLEAN, refs : Int]
PendingSort ==
  [state : {"none", "waiting", "switching"}, name : NameOrNone, gen : Nat,
   during : BOOLEAN, queued : BOOLEAN, on : BOOLEAN]
ActSort ==
  [pc : {"idle", "lock", "held", "post"}, name : NameOrNone, gen : Nat, ret : Errors]
JobSort ==
  [step : {"none", "rtnl", "defer", "teardown", "hold", "register", "publish",
           "validate", "put"},
   phase : {"none", "switch", "rollback", "resume", "load"},
   tgt : HandleOrNone, old : HandleOrNone,
   snapName : NameOrNone, snapGen : Nat, snapSet : BOOLEAN, ret : Errors]
RstSort ==
  [pc : {"idle", "destroy", "down", "rebuilt", "resume"}, h : HandleOrNone,
   kind : {"none", "flr", "reload"}]

BridgeTypes ==
  /\ control \in BOOLEAN /\ owner \in HandleOrNone /\ suspended \in HandleOrNone
  /\ inst \in InstSort /\ peer \in PeerSort
  /\ admitted \in HandleOrNone \X Nat
  /\ unload \in {"no", "drain", "drained", "done"}

ActorTypes ==
  /\ lock \in Actors \cup {"free", "reset", "card", "unload"}
  /\ act \in [Actors -> ActSort]

JobTypes == job \in JobSort /\ rst \in RstSort

CardTypes ==
  /\ name \in [Handles -> NameOrNone] /\ epoch \in [Handles -> Nat]
  /\ ready \in [Handles -> BOOLEAN] /\ edge \in [Handles -> BOOLEAN]
  /\ hw \in [Handles -> BOOLEAN]
  /\ faults \in Scenarios /\ writes \in Nat /\ rebuilds \in Nat

Types == BridgeTypes /\ pending \in PendingSort /\ ActorTypes /\ JobTypes /\ CardTypes

(* A request names an interface, and the holder of the lock has one. *)
RequestNamed ==
  /\ pending.state # "none" => pending.name \in Names
  /\ \A a \in Actors : act[a].pc # "idle" => act[a].name \in Names
  /\ lock \in Actors => act[lock].pc = "held"

(* Who holds the two locks decides which transaction is under way. *)
Building == {"hold", "register", "publish", "validate"}

JobOfHolder ==
  /\ lock \in {"free", "unload"} => job.step = "none" /\ job.phase = "none"
  /\ lock \in Actors =>
       \/ job.step \in {"rtnl", "defer", "teardown"} /\ job.phase = "none"
       \/ job.step \in Building /\ job.phase \in {"switch", "rollback"}
       \/ job.step = "put" /\ job.phase \in {"none", "switch", "rollback"}
  /\ lock = "card" => job.step \in Building \ {"validate"} /\ job.phase = "load"
  /\ lock = "reset" =>
       \/ job.step = "none" /\ job.phase = "none" /\ rst.pc \in {"destroy", "down", "rebuilt"}
       \/ job.step \in Building \ {"validate"} /\ job.phase = "resume" /\ rst.pc = "resume"

(* Only between the two halves of a PCI reset is the lock free of it. *)
ResetHolds ==
  /\ rst.pc # "idle" => rst.h \in Handles /\ rst.kind \in {"flr", "reload"}
  /\ rst.pc \in {"destroy", "rebuilt", "resume"} => lock = "reset"
  /\ rst.pc = "down" => (lock = "reset" <=> rst.kind = "reload")

(* The snapshot belongs to the reset in progress, and a card that is down  *)
(* is neither the owner nor found by its name.                             *)
SnapshotOfReset ==
  /\ suspended # NoHandle =>
       /\ rst.pc \in {"destroy", "down", "rebuilt"}
       /\ rst.kind = "flr" => suspended = rst.h
       /\ owner # suspended
  /\ rst.pc = "destroy" => owner # rst.h
  /\ rst.pc = "down" => name[rst.h] = NoName

(* The handles of a transaction keep their netdevs while it runs. *)
TargetsNamed ==
  /\ lock \in Actors /\ job.step \notin {"none", "rtnl"} =>
       /\ job.tgt \in Handles /\ name[job.tgt] # NoName
       /\ job.old \in Handles /\ name[job.old] # NoName
  /\ job.phase \in {"resume", "load"} => job.tgt \in Handles
  /\ job.phase = "load" => name[job.tgt] # NoName

(* Without an instance nothing of it is left, and its reference goes with  *)
(* the release work that the peer's unregistration scheduled.              *)
InstanceShape ==
  /\ inst.h = NoHandle => inst = NoInst
  /\ inst.work => inst.ref /\ inst.released
  /\ inst.released => ~peer.reg
  /\ inst.h # NoHandle /\ ~inst.ref => inst.released

(* bridge_owner holds the published instance, bound to its present netdev. *)
Settled ==
  /\ owner = inst.h
  /\ owner # NoHandle => inst.published /\ inst.epoch = epoch[owner] /\ name[owner] # NoName

(* Where the owner and the instance stand at each step of a transaction. *)
OwnerByStep ==
  /\ job.step \in {"none", "rtnl", "defer", "teardown", "put", "hold"} => Settled
  /\ job.step \in {"rtnl", "defer", "teardown"} => owner # NoHandle
  /\ job.step \in {"defer", "teardown"} => owner = job.old
  /\ job.step = "hold" /\ job.phase \in {"switch", "rollback"} => owner = NoHandle
  /\ job.step = "register" => owner = NoHandle /\ inst.h = NoHandle
  /\ job.step \in {"register", "publish"} => name[BuildTarget] # NoName
  /\ job.step \in {"publish", "validate"} =>
       /\ owner = NoHandle /\ inst.h = BuildTarget
       /\ inst.epoch = epoch[BuildTarget]
  /\ job.step = "validate" => inst.published

(* A rollback knows that the request failed, and a request that lost the   *)
(* owner has cancelled what was retained.                                  *)
FailureKnown ==
  /\ job.ret # "ESTALE"
  /\ job.phase = "rollback" /\ job.step # "put" => job.ret \notin {"0", "EIO"}
  /\ job.step = "put" /\ owner = NoHandle => pending.state = "none"
  /\ job.step = "put" /\ job.ret \notin {"0", "EIO"} => owner = job.old
  /\ job.step = "put" /\ job.ret = "EIO" => owner = NoHandle

(* The admission gate closes for good before the drain. *)
GateClosed ==
  /\ pending.on <=> unload = "no"
  /\ ~pending.on => pending.state = "none"
  /\ unload \in {"drained", "done"} => ~pending.queued /\ act[Worker].pc = "idle"
  /\ unload = "done" <=> lock = "unload"
  /\ unload = "done" => owner = NoHandle /\ suspended = NoHandle

IInv ==
  /\ Types /\ RequestNamed /\ JobOfHolder /\ ResetHolds /\ SnapshotOfReset /\ TargetsNamed
  /\ InstanceShape /\ RefsBalanced /\ OwnerByStep /\ FailureKnown /\ GateClosed

-----------------------------------------------------------------------------
(* The values the constants are told apart from. *)
LEMMA Apart ==
  /\ FirstOwner \in Handles /\ NoHandle \notin Handles /\ NoName \notin Names
  /\ Worker \in Actors /\ Writers \subseteq Actors /\ Worker \notin Writers
  /\ \A a \in Actors : a \notin {"free", "reset", "card", "unload"}
BY SwitchAssumption DEF Actors

(* What a section of bridge_pending_lock does, admission apart: it keeps   *)
(* the gate, retains nothing new, ends a generation for good, and behind a *)
(* closed gate schedules nothing.                                          *)
Calm(P, Q) ==
  /\ Q \in PendingSort /\ Q.on = P.on
  /\ Q.state # "none" => P.state # "none" /\ Q.name = P.name /\ Q.gen = P.gen
  /\ P.gen <= Q.gen
  /\ ~P.on /\ P.state = "none" /\ ~P.queued => ~Q.queued

(* Every operation on the request but pending_set is calm. *)
LEMMA PendingOpsCalm ==
  ASSUME NEW P \in PendingSort, NEW n \in NameOrNone, NEW g, NEW b \in BOOLEAN, NEW names
  PROVE  /\ Calm(P, P) /\ Calm(P, Cleared(P)) /\ Calm(P, PendingClearIf(P, n, g))
         /\ Calm(P, PendingCancelAll(P)) /\ Calm(P, PendingKick(P))
         /\ Calm(P, PendingRestoreWaiting(P, n, g)) /\ Calm(P, PendingReadiness(P, n, b))
         /\ Calm(P, PendingRenamed(P, names)) /\ Calm(P, PendingUnregistered(P, n))
<1> USE DEF Calm, PendingSort, NameOrNone
<1>1. Calm(P, P)
  OBVIOUS
<1>2. Calm(P, Cleared(P))
  <2>1. P.gen + 1 \in Nat
    OBVIOUS
  <2>2. Cleared(P) = [P EXCEPT !.state = "none", !.name = NoName, !.gen = P.gen + 1,
                                !.during = FALSE]
    BY DEF Cleared
  <2>3. Cleared(P) \in PendingSort
    BY <2>1, <2>2
  <2> QED
    BY <2>2, <2>3
<1>3. Calm(P, PendingKick(P))
  BY DEF PendingKick
<1>4. Calm(P, PendingRestoreWaiting(P, n, g))
  <2>1. PendingRestoreWaiting(P, n, g) \in PendingSort
    BY DEF PendingRestoreWaiting
  <2>2. /\ PendingRestoreWaiting(P, n, g).gen = P.gen /\ PendingRestoreWaiting(P, n, g).name = P.name
        /\ PendingRestoreWaiting(P, n, g).on = P.on
    BY DEF PendingRestoreWaiting
  <2>3. PendingRestoreWaiting(P, n, g).state # "none" => P.state # "none"
    BY DEF PendingRestoreWaiting
  <2>4. ~P.on /\ ~P.queued => ~PendingRestoreWaiting(P, n, g).queued
    BY DEF PendingRestoreWaiting
  <2> QED
    BY <2>1, <2>2, <2>3, <2>4
<1>5. Calm(P, PendingReadiness(P, n, b))
  <2>1. PendingReadiness(P, n, b) \in PendingSort
    BY DEF PendingReadiness
  <2>2. /\ PendingReadiness(P, n, b).gen = P.gen /\ PendingReadiness(P, n, b).name = P.name
        /\ PendingReadiness(P, n, b).on = P.on /\ PendingReadiness(P, n, b).state = P.state
    BY DEF PendingReadiness
  <2>3. ~P.on /\ ~P.queued => ~PendingReadiness(P, n, b).queued
    BY DEF PendingReadiness
  <2> QED
    BY <2>1, <2>2, <2>3
<1> QED
  BY <1>1, <1>2, <1>3, <1>4, <1>5 DEF PendingClearIf, PendingCancelAll, PendingRenamed,
     PendingUnregistered

(* Two calm sections in a row are calm. *)
LEMMA CalmTransitive ==
  ASSUME NEW P \in PendingSort, NEW Q, NEW R, Calm(P, Q), Calm(Q, R)
  PROVE  Calm(P, R)
BY DEF Calm, PendingSort

(* A request that ends leaves the other actors alone; only the worker has  *)
(* something left to do.                                                   *)
LEMMA ReturnTyped ==
  ASSUME act \in [Actors -> ActSort], NEW a \in Actors, NEW ret \in Errors, Return(a, ret)
  PROVE  /\ act' \in [Actors -> ActSort]
         /\ \A b \in Actors : b # a => act'[b] = act[b]
         /\ act'[a].pc # "idle" =>
              a = Worker /\ act'[a].name = act[a].name /\ act'[a].gen = act[a].gen
         /\ act'[a].pc \in {"idle", "post"}
         /\ a = Worker => act'[a].ret = ret
<1>1. Idle \in ActSort /\ Idle.pc = "idle"
  BY DEF Idle, ActSort, NameOrNone, Errors
<1>2. [act[a] EXCEPT !.pc = "post", !.ret = ret] \in ActSort
  BY DEF ActSort
<1> QED
  BY <1>1, <1>2 DEF Return, ActSort

-----------------------------------------------------------------------------
(* The callers of moal_bridge_switch_iface_request. *)
LEMMA WritePreserves ==
  ASSUME IInv, NEW w \in Writers, NEW n \in Names, Write(w, n)
  PROVE  IInv'
<1>0. act' = [act EXCEPT ![w] = [pc |-> "lock", name |-> n, gen |-> 0, ret |-> "0"]]
      /\ act[w].pc = "idle"
  BY DEF Write
<1>a. [pc |-> "lock", name |-> n, gen |-> 0, ret |-> "0"] \in ActSort
  BY DEF ActSort, NameOrNone, Errors
<1>1. Types'
  BY <1>a, Apart DEF Write, wlanVars, boundVars, IInv, Types, BridgeTypes,
     ActorTypes, JobTypes, CardTypes, HandleOrNone, NameOrNone, InstSort,
     PeerSort, PendingSort, ActSort, JobSort, RstSort, Errors
<1>2. RequestNamed'
  BY Apart DEF Write, wlanVars, boundVars, IInv, Types, ActorTypes,
     RequestNamed, JobOfHolder, ActSort, PendingSort, Building
<1>3. JobOfHolder' /\ ResetHolds'
  BY Apart DEF Write, wlanVars, boundVars, IInv, Types, BridgeTypes,
     ActorTypes, JobTypes, CardTypes, HandleOrNone, NameOrNone, JobSort,
     RstSort, JobOfHolder, ResetHolds, Building
<1>4. SnapshotOfReset' /\ TargetsNamed'
  BY Apart DEF Write, wlanVars, boundVars, IInv, Types, BridgeTypes,
     ActorTypes, JobTypes, CardTypes, HandleOrNone, NameOrNone, JobSort,
     RstSort, JobOfHolder, ResetHolds, SnapshotOfReset, TargetsNamed, Building,
     Settled, OwnerByStep, RequestNamed
<1>5. InstanceShape' /\ RefsBalanced'
  BY Apart DEF Write, wlanVars, boundVars, IInv, Types, BridgeTypes,
     ActorTypes, JobTypes, CardTypes, HandleOrNone, NameOrNone, InstSort,
     PeerSort, JobSort, NoInst, InstanceShape, RefsBalanced, JobOfHolder,
     ResetHolds, Building, SnapshotOfReset, OwnerByStep, Settled
<1>6. OwnerByStep'
  BY Apart DEF Write, wlanVars, boundVars, IInv, Types, BridgeTypes,
     ActorTypes, JobTypes, CardTypes, HandleOrNone, NameOrNone, InstSort,
     JobSort, RstSort, NoInst, OwnerByStep, Settled, JobOfHolder, Building,
     SnapshotOfReset, ResetHolds, TargetsNamed, InstanceShape, BuildTarget
<1>7. FailureKnown'
  BY Apart DEF Write, wlanVars, boundVars, IInv, Types, BridgeTypes,
     ActorTypes, JobTypes, CardTypes, HandleOrNone, NameOrNone, JobSort,
     PendingSort, FailureKnown, JobOfHolder, Building, OwnerByStep, Settled,
     Errors
<1>8. GateClosed'
  BY Apart DEF Write, wlanVars, boundVars, IInv, Types, BridgeTypes,
     ActorTypes, JobTypes, CardTypes, HandleOrNone, NameOrNone, PendingSort,
     ActSort, RstSort, GateClosed, JobOfHolder, RequestNamed, ResetHolds,
     SnapshotOfReset, Building
<1> QED
  BY <1>1, <1>2, <1>3, <1>4, <1>5, <1>6, <1>7, <1>8 DEF IInv

LEMMA InterruptedPreserves ==
  ASSUME IInv, NEW w \in Writers, Interrupted(w)
  PROVE  IInv'
<1>a. Idle \in ActSort /\ Idle.pc = "idle"
  BY DEF ActSort, Idle, NameOrNone, Errors
<1>1. Types'
  BY <1>a, Apart DEF Interrupted, wlanVars, boundVars, IInv, Types,
     BridgeTypes, ActorTypes, JobTypes, CardTypes, HandleOrNone, NameOrNone,
     InstSort, PeerSort, PendingSort, ActSort, JobSort, RstSort, Errors
<1>2. RequestNamed'
  BY <1>a, Apart DEF Interrupted, wlanVars, boundVars, IInv, Types,
     ActorTypes, RequestNamed, JobOfHolder, ActSort, PendingSort, Building
<1>3. JobOfHolder' /\ ResetHolds'
  BY <1>a, Apart DEF Interrupted, wlanVars, boundVars, IInv, Types,
     BridgeTypes, ActorTypes, JobTypes, CardTypes, HandleOrNone, NameOrNone,
     JobSort, RstSort, JobOfHolder, ResetHolds, Building
<1>4. SnapshotOfReset' /\ TargetsNamed'
  BY <1>a, Apart DEF Interrupted, wlanVars, boundVars, IInv, Types,
     BridgeTypes, ActorTypes, JobTypes, CardTypes, HandleOrNone, NameOrNone,
     JobSort, RstSort, JobOfHolder, ResetHolds, SnapshotOfReset, TargetsNamed,
     Building, Settled, OwnerByStep, RequestNamed
<1>5. InstanceShape' /\ RefsBalanced'
  BY <1>a, Apart DEF Interrupted, wlanVars, boundVars, IInv, Types,
     BridgeTypes, ActorTypes, JobTypes, CardTypes, HandleOrNone, NameOrNone,
     InstSort, PeerSort, JobSort, NoInst, InstanceShape, RefsBalanced,
     JobOfHolder, ResetHolds, Building, SnapshotOfReset, OwnerByStep, Settled
<1>6. OwnerByStep'
  BY <1>a, Apart DEF Interrupted, wlanVars, boundVars, IInv, Types,
     BridgeTypes, ActorTypes, JobTypes, CardTypes, HandleOrNone, NameOrNone,
     InstSort, JobSort, RstSort, NoInst, OwnerByStep, Settled, JobOfHolder,
     Building, SnapshotOfReset, ResetHolds, TargetsNamed, InstanceShape,
     BuildTarget
<1>7. FailureKnown'
  BY <1>a, Apart DEF Interrupted, wlanVars, boundVars, IInv, Types,
     BridgeTypes, ActorTypes, JobTypes, CardTypes, HandleOrNone, NameOrNone,
     JobSort, PendingSort, FailureKnown, JobOfHolder, Building, OwnerByStep,
     Settled, Errors
<1>8. GateClosed'
  BY <1>a, Apart DEF Interrupted, wlanVars, boundVars, IInv, Types,
     BridgeTypes, ActorTypes, JobTypes, CardTypes, HandleOrNone, NameOrNone,
     PendingSort, ActSort, RstSort, GateClosed, JobOfHolder, RequestNamed,
     ResetHolds, SnapshotOfReset, Building
<1> QED
  BY <1>1, <1>2, <1>3, <1>4, <1>5, <1>6, <1>7, <1>8 DEF IInv

LEMMA WorkStartPreserves ==
  ASSUME IInv, WorkStart
  PROVE  IInv'
<1> DEFINE P == [pending EXCEPT !.queued = FALSE]
<1>a. P \in PendingSort /\ P.state = pending.state /\ P.name = pending.name
      /\ P.on = pending.on /\ ~P.queued
  BY DEF IInv, Types, PendingSort
<1>b. PendingBeginAttempt(P) \in PendingSort /\ PendingBeginAttempt(P).state = "switching"
      /\ PendingBeginAttempt(P).name = P.name /\ PendingBeginAttempt(P).on = P.on
  BY <1>a DEF PendingSort, PendingBeginAttempt
<1>c. CASE P.state # "waiting"
  <2>a. pending' = P /\ act' = act
    BY <1>c DEF WorkStart
  <2>1. Types'
    BY <1>a, <2>a, Apart DEF WorkStart, wlanVars, boundVars, IInv, Types,
       BridgeTypes, ActorTypes, JobTypes, CardTypes, HandleOrNone, NameOrNone,
       InstSort, PeerSort, PendingSort, ActSort, JobSort, RstSort, Errors
  <2>2. RequestNamed'
    BY <1>a, <2>a, Apart DEF WorkStart, wlanVars, boundVars, IInv, Types,
       ActorTypes, RequestNamed, JobOfHolder, ActSort, PendingSort, Building
  <2>3. JobOfHolder' /\ ResetHolds'
    BY <1>a, <2>a, Apart DEF WorkStart, wlanVars, boundVars, IInv, Types,
       BridgeTypes, ActorTypes, JobTypes, CardTypes, HandleOrNone, NameOrNone,
       JobSort, RstSort, JobOfHolder, ResetHolds, Building
  <2>4. SnapshotOfReset' /\ TargetsNamed'
    BY <1>a, <2>a, Apart DEF WorkStart, wlanVars, boundVars, IInv, Types,
       BridgeTypes, ActorTypes, JobTypes, CardTypes, HandleOrNone, NameOrNone,
       JobSort, RstSort, JobOfHolder, ResetHolds, SnapshotOfReset,
       TargetsNamed, Building, Settled, OwnerByStep, RequestNamed
  <2>5. InstanceShape' /\ RefsBalanced'
    BY <1>a, <2>a, Apart DEF WorkStart, wlanVars, boundVars, IInv, Types,
       BridgeTypes, ActorTypes, JobTypes, CardTypes, HandleOrNone, NameOrNone,
       InstSort, PeerSort, JobSort, NoInst, InstanceShape, RefsBalanced,
       JobOfHolder, ResetHolds, Building, SnapshotOfReset, OwnerByStep, Settled
  <2>6. OwnerByStep'
    BY <1>a, <2>a, Apart DEF WorkStart, wlanVars, boundVars, IInv, Types,
       BridgeTypes, ActorTypes, JobTypes, CardTypes, HandleOrNone, NameOrNone,
       InstSort, JobSort, RstSort, NoInst, OwnerByStep, Settled, JobOfHolder,
       Building, SnapshotOfReset, ResetHolds, TargetsNamed, InstanceShape,
       BuildTarget
  <2>7. FailureKnown'
    BY <1>a, <2>a, Apart DEF WorkStart, wlanVars, boundVars, IInv, Types,
       BridgeTypes, ActorTypes, JobTypes, CardTypes, HandleOrNone, NameOrNone,
       JobSort, PendingSort, FailureKnown, JobOfHolder, Building, OwnerByStep,
       Settled, Errors
  <2>8. GateClosed'
    BY <1>a, <2>a, Apart DEF WorkStart, wlanVars, boundVars, IInv, Types,
       BridgeTypes, ActorTypes, JobTypes, CardTypes, HandleOrNone, NameOrNone,
       PendingSort, ActSort, RstSort, GateClosed, JobOfHolder, RequestNamed,
       ResetHolds, SnapshotOfReset, Building
  <2> QED
    BY <2>1, <2>2, <2>3, <2>4, <2>5, <2>6, <2>7, <2>8 DEF IInv
<1>d. CASE P.state = "waiting"
  <2> DEFINE r == [pc |-> IF control THEN "lock" ELSE "post", name |-> P.name, gen |-> P.gen,
                   ret |-> IF control THEN "0" ELSE "EAGAIN"]
  <2>a. pending' = PendingBeginAttempt(P) /\ act' = [act EXCEPT ![Worker] = r]
    BY <1>d DEF WorkStart
  <2>b. r \in ActSort /\ r.pc \in {"lock", "post"} /\ r.name = P.name
    BY <1>a DEF ActSort, PendingSort, Errors
  <2>c. pending.on /\ unload = "no" /\ pending.name \in Names
    BY <1>a, <1>d DEF IInv, GateClosed, RequestNamed
  <2> HIDE DEF r
  <2>1. Types'
    BY <1>a, <1>b, <2>a, <2>b, <2>c, <1>d, Apart DEF WorkStart, wlanVars,
       boundVars, IInv, Types, BridgeTypes, ActorTypes, JobTypes, CardTypes,
       HandleOrNone, NameOrNone, InstSort, PeerSort, PendingSort, ActSort,
       JobSort, RstSort, Errors
  <2>2. RequestNamed'
    BY <1>a, <1>b, <2>a, <2>b, <2>c, <1>d, Apart DEF WorkStart, wlanVars,
       boundVars, IInv, Types, ActorTypes, RequestNamed, JobOfHolder, ActSort,
       PendingSort, Building
  <2>3. JobOfHolder' /\ ResetHolds'
    BY <1>a, <1>b, <2>a, <2>b, <2>c, <1>d, Apart DEF WorkStart, wlanVars,
       boundVars, IInv, Types, BridgeTypes, ActorTypes, JobTypes, CardTypes,
       HandleOrNone, NameOrNone, JobSort, RstSort, JobOfHolder, ResetHolds,
       Building
  <2>4. SnapshotOfReset' /\ TargetsNamed'
    BY <1>a, <1>b, <2>a, <2>b, <2>c, <1>d, Apart DEF WorkStart, wlanVars,
       boundVars, IInv, Types, BridgeTypes, ActorTypes, JobTypes, CardTypes,
       HandleOrNone, NameOrNone, JobSort, RstSort, JobOfHolder, ResetHolds,
       SnapshotOfReset, TargetsNamed, Building, Settled, OwnerByStep,
       RequestNamed
  <2>5. InstanceShape' /\ RefsBalanced'
    BY <1>a, <1>b, <2>a, <2>b, <2>c, <1>d, Apart DEF WorkStart, wlanVars,
       boundVars, IInv, Types, BridgeTypes, ActorTypes, JobTypes, CardTypes,
       HandleOrNone, NameOrNone, InstSort, PeerSort, JobSort, NoInst,
       InstanceShape, RefsBalanced, JobOfHolder, ResetHolds, Building,
       SnapshotOfReset, OwnerByStep, Settled
  <2>6. OwnerByStep'
    BY <1>a, <1>b, <2>a, <2>b, <2>c, <1>d, Apart DEF WorkStart, wlanVars,
       boundVars, IInv, Types, BridgeTypes, ActorTypes, JobTypes, CardTypes,
       HandleOrNone, NameOrNone, InstSort, JobSort, RstSort, NoInst,
       OwnerByStep, Settled, JobOfHolder, Building, SnapshotOfReset,
       ResetHolds, TargetsNamed, InstanceShape, BuildTarget
  <2>7. FailureKnown'
    BY <1>a, <1>b, <2>a, <2>b, <2>c, <1>d, Apart DEF WorkStart, wlanVars,
       boundVars, IInv, Types, BridgeTypes, ActorTypes, JobTypes, CardTypes,
       HandleOrNone, NameOrNone, JobSort, PendingSort, FailureKnown,
       JobOfHolder, Building, OwnerByStep, Settled, Errors
  <2>8. GateClosed'
    BY <1>a, <1>b, <2>a, <2>b, <2>c, <1>d, Apart DEF WorkStart, wlanVars,
       boundVars, IInv, Types, BridgeTypes, ActorTypes, JobTypes, CardTypes,
       HandleOrNone, NameOrNone, PendingSort, ActSort, RstSort, GateClosed,
       JobOfHolder, RequestNamed, ResetHolds, SnapshotOfReset, Building
  <2> QED
    BY <2>1, <2>2, <2>3, <2>4, <2>5, <2>6, <2>7, <2>8 DEF IInv
<1> QED
  BY <1>c, <1>d

LEMMA AcquirePreserves ==
  ASSUME IInv, NEW a \in Actors, Acquire(a)
  PROVE  IInv'
<1>a. act[a].pc = "lock" /\ lock = "free" /\ act \in [Actors -> ActSort]
  BY DEF Acquire, IInv, Types, ActorTypes
<1>c. CASE Refusal(a) # "0"
  <2>a. Return(a, Refusal(a)) /\ lock' = lock /\ job' = job
    BY <1>c DEF Acquire
  <2>b. Refusal(a) \in Errors
    BY DEF Refusal, Errors
  <2>c. /\ act' \in [Actors -> ActSort]
        /\ \A b \in Actors : b # a => act'[b] = act[b]
        /\ act'[a].pc # "idle" => a = Worker /\ act'[a].name = act[a].name
    BY <1>a, <2>a, <2>b, ReturnTyped
  <2>1. Types'
    BY <1>a, <2>a, <2>c, Apart DEF Acquire, wlanVars, boundVars, IInv,
       Types, BridgeTypes, ActorTypes, JobTypes, CardTypes, HandleOrNone,
       NameOrNone, InstSort, PeerSort, PendingSort, ActSort, JobSort, RstSort,
       Errors
  <2>2. RequestNamed'
    BY <1>a, <2>a, <2>c, Apart DEF Acquire, wlanVars, boundVars, IInv,
       Types, ActorTypes, RequestNamed, JobOfHolder, ActSort, PendingSort,
       Building
  <2>3. JobOfHolder' /\ ResetHolds'
    BY <1>a, <2>a, <2>c, Apart DEF Acquire, wlanVars, boundVars, IInv,
       Types, BridgeTypes, ActorTypes, JobTypes, CardTypes, HandleOrNone,
       NameOrNone, JobSort, RstSort, JobOfHolder, ResetHolds, Building
  <2>4. SnapshotOfReset' /\ TargetsNamed'
    BY <1>a, <2>a, <2>c, Apart DEF Acquire, wlanVars, boundVars, IInv,
       Types, BridgeTypes, ActorTypes, JobTypes, CardTypes, HandleOrNone,
       NameOrNone, JobSort, RstSort, JobOfHolder, ResetHolds, SnapshotOfReset,
       TargetsNamed, Building, Settled, OwnerByStep, RequestNamed
  <2>5. InstanceShape' /\ RefsBalanced'
    BY <1>a, <2>a, <2>c, Apart DEF Acquire, wlanVars, boundVars, IInv,
       Types, BridgeTypes, ActorTypes, JobTypes, CardTypes, HandleOrNone,
       NameOrNone, InstSort, PeerSort, JobSort, NoInst, InstanceShape,
       RefsBalanced, JobOfHolder, ResetHolds, Building, SnapshotOfReset,
       OwnerByStep, Settled
  <2>6. OwnerByStep'
    BY <1>a, <2>a, <2>c, Apart DEF Acquire, wlanVars, boundVars, IInv,
       Types, BridgeTypes, ActorTypes, JobTypes, CardTypes, HandleOrNone,
       NameOrNone, InstSort, JobSort, RstSort, NoInst, OwnerByStep, Settled,
       JobOfHolder, Building, SnapshotOfReset, ResetHolds, TargetsNamed,
       InstanceShape, BuildTarget
  <2>7. FailureKnown'
    BY <1>a, <2>a, <2>c, Apart DEF Acquire, wlanVars, boundVars, IInv,
       Types, BridgeTypes, ActorTypes, JobTypes, CardTypes, HandleOrNone,
       NameOrNone, JobSort, PendingSort, FailureKnown, JobOfHolder, Building,
       OwnerByStep, Settled, Errors
  <2>8. GateClosed'
    BY <1>a, <2>a, <2>c, Apart DEF Acquire, wlanVars, boundVars, IInv,
       Types, BridgeTypes, ActorTypes, JobTypes, CardTypes, HandleOrNone,
       NameOrNone, PendingSort, ActSort, RstSort, GateClosed, JobOfHolder,
       RequestNamed, ResetHolds, SnapshotOfReset, Building
  <2> QED
    BY <2>1, <2>2, <2>3, <2>4, <2>5, <2>6, <2>7, <2>8 DEF IInv
<1>d. CASE Refusal(a) = "0"
  <2>a. /\ lock' = a /\ act' = [act EXCEPT ![a].pc = "held"]
        /\ job' = [NoJob EXCEPT !.step = "rtnl", !.snapName = pending.name,
                     !.snapGen = pending.gen, !.snapSet = pending.state # "none"]
    BY <1>d DEF Acquire
  <2>b. job' \in JobSort /\ job'.step = "rtnl" /\ job'.phase = "none" /\ job'.ret = "0"
    BY <2>a DEF NoJob, JobSort, IInv, Types, PendingSort, HandleOrNone, NameOrNone, Errors
  <2>c. owner # NoHandle
    BY <1>d DEF Refusal
  <2>d. job.step = "none" /\ job.phase = "none"
    BY <1>a DEF IInv, JobOfHolder
  <2>e. act' \in [Actors -> ActSort] /\ act'[a].pc = "held" /\ act'[a].name = act[a].name
        /\ \A b \in Actors : b # a => act'[b] = act[b]
    BY <1>a, <2>a DEF ActSort
  <2>1. Types'
    BY <1>a, <2>a, <2>b, <2>c, <2>d, <2>e, Apart DEF Acquire, wlanVars,
       boundVars, IInv, Types, BridgeTypes, ActorTypes, JobTypes, CardTypes,
       HandleOrNone, NameOrNone, InstSort, PeerSort, PendingSort, ActSort,
       JobSort, RstSort, Errors
  <2>2. RequestNamed'
    BY <1>a, <2>a, <2>b, <2>c, <2>d, <2>e, Apart DEF Acquire, wlanVars,
       boundVars, IInv, Types, ActorTypes, RequestNamed, JobOfHolder, ActSort,
       PendingSort, Building
  <2>3. JobOfHolder' /\ ResetHolds'
    BY <1>a, <2>a, <2>b, <2>c, <2>d, <2>e, Apart DEF Acquire, wlanVars,
       boundVars, IInv, Types, BridgeTypes, ActorTypes, JobTypes, CardTypes,
       HandleOrNone, NameOrNone, JobSort, RstSort, JobOfHolder, ResetHolds,
       Building
  <2>4. SnapshotOfReset' /\ TargetsNamed'
    BY <1>a, <2>a, <2>b, <2>c, <2>d, <2>e, Apart DEF Acquire, wlanVars,
       boundVars, IInv, Types, BridgeTypes, ActorTypes, JobTypes, CardTypes,
       HandleOrNone, NameOrNone, JobSort, RstSort, JobOfHolder, ResetHolds,
       SnapshotOfReset, TargetsNamed, Building, Settled, OwnerByStep,
       RequestNamed
  <2>5. InstanceShape' /\ RefsBalanced'
    BY <1>a, <2>a, <2>b, <2>c, <2>d, <2>e, Apart DEF Acquire, wlanVars,
       boundVars, IInv, Types, BridgeTypes, ActorTypes, JobTypes, CardTypes,
       HandleOrNone, NameOrNone, InstSort, PeerSort, JobSort, NoInst,
       InstanceShape, RefsBalanced, JobOfHolder, ResetHolds, Building,
       SnapshotOfReset, OwnerByStep, Settled
  <2>6. OwnerByStep'
    BY <1>a, <2>a, <2>b, <2>c, <2>d, <2>e, Apart DEF Acquire, wlanVars,
       boundVars, IInv, Types, BridgeTypes, ActorTypes, JobTypes, CardTypes,
       HandleOrNone, NameOrNone, InstSort, JobSort, RstSort, NoInst,
       OwnerByStep, Settled, JobOfHolder, Building, SnapshotOfReset,
       ResetHolds, TargetsNamed, InstanceShape, BuildTarget
  <2>7. FailureKnown'
    BY <1>a, <2>a, <2>b, <2>c, <2>d, <2>e, Apart DEF Acquire, wlanVars,
       boundVars, IInv, Types, BridgeTypes, ActorTypes, JobTypes, CardTypes,
       HandleOrNone, NameOrNone, JobSort, PendingSort, FailureKnown,
       JobOfHolder, Building, OwnerByStep, Settled, Errors
  <2>8. GateClosed'
    BY <1>a, <2>a, <2>b, <2>c, <2>d, <2>e, Apart DEF Acquire, wlanVars,
       boundVars, IInv, Types, BridgeTypes, ActorTypes, JobTypes, CardTypes,
       HandleOrNone, NameOrNone, PendingSort, ActSort, RstSort, GateClosed,
       JobOfHolder, RequestNamed, ResetHolds, SnapshotOfReset, Building
  <2> QED
    BY <2>1, <2>2, <2>3, <2>4, <2>5, <2>6, <2>7, <2>8 DEF IInv
<1> QED
  BY <1>c, <1>d

(* What mutex_unlock, up() and the return leave behind. *)
Released(a) ==
  /\ lock' = "free" /\ job' = NoJob
  /\ act' \in [Actors -> ActSort]
  /\ \A b \in Actors : b # a => act'[b] = act[b]
  /\ act'[a].pc # "idle" => a = Worker /\ act'[a].name = act[a].name /\ act'[a].gen = act[a].gen

(* The end of any request. *)
LEMMA ReleaseReleases ==
  ASSUME act \in [Actors -> ActSort], NEW a \in Actors, NEW ret \in Errors, Release(a, ret)
  PROVE  Released(a) /\ (a = Worker => act'[a].ret = ret)
<1>1. lock' = "free" /\ job' = NoJob /\ Return(a, ret)
  BY DEF Release
<1>2. /\ act' \in [Actors -> ActSort]
      /\ \A b \in Actors : b # a => act'[b] = act[b]
      /\ act'[a].pc # "idle" =>
           a = Worker /\ act'[a].name = act[a].name /\ act'[a].gen = act[a].gen
      /\ a = Worker => act'[a].ret = ret
  BY <1>1, ReturnTyped
<1> QED
  BY <1>1, <1>2 DEF Released

(* The end of a request that holds the lock, its peer reference put. *)
LEMMA ReleasePreserves ==
  ASSUME IInv, NEW a \in Actors, lock = a, Released(a),
         Calm(pending, pending'), job.step \in {"rtnl", "put"},
         peer' = IF job.step = "put" THEN [peer EXCEPT !.refs = @ - 1] ELSE peer,
         UNCHANGED <<control, owner, inst, suspended, admitted, rst, wlanVars, boundVars, unload>>
  PROVE  IInv'
<1>a. /\ act' \in [Actors -> ActSort]
      /\ \A b \in Actors : b # a => act'[b] = act[b]
      /\ act'[a].pc # "idle" => a = Worker /\ act'[a].name = act[a].name
  BY DEF Released
<1>b. lock' = "free" /\ job' = NoJob /\ act[a].pc = "held"
  BY DEF Released, IInv, RequestNamed
<1>c. NoJob \in JobSort /\ NoJob.step = "none" /\ NoJob.phase = "none" /\ NoJob.ret = "0"
  BY DEF NoJob, JobSort, HandleOrNone, NameOrNone, Errors
<1>d. peer' \in PeerSort /\ peer'.reg = peer.reg
      /\ peer'.refs = peer.refs - (IF job.step = "put" THEN 1 ELSE 0)
  BY DEF IInv, Types, BridgeTypes, PeerSort
<1>e. pending' \in PendingSort /\ pending'.on = pending.on
      /\ (pending'.state # "none" => pending.state # "none" /\ pending'.name = pending.name)
      /\ (~pending.on /\ pending.state = "none" /\ ~pending.queued => ~pending'.queued)
  BY DEF Calm
<1>1. Types'
  BY <1>a, <1>b, <1>c, <1>d, <1>e, Apart DEF wlanVars, boundVars, IInv,
     Types, BridgeTypes, ActorTypes, JobTypes, CardTypes, HandleOrNone,
     NameOrNone, InstSort, PeerSort, PendingSort, ActSort, JobSort, RstSort,
     Errors
<1>2. RequestNamed'
  BY <1>a, <1>b, <1>c, <1>d, <1>e, Apart DEF wlanVars, boundVars, IInv,
     Types, ActorTypes, RequestNamed, JobOfHolder, ActSort, PendingSort,
     Building
<1>3. JobOfHolder' /\ ResetHolds'
  BY <1>a, <1>b, <1>c, <1>d, <1>e, Apart DEF wlanVars, boundVars, IInv,
     Types, BridgeTypes, ActorTypes, JobTypes, CardTypes, HandleOrNone,
     NameOrNone, JobSort, RstSort, JobOfHolder, ResetHolds, Building
<1>4. SnapshotOfReset' /\ TargetsNamed'
  BY <1>a, <1>b, <1>c, <1>d, <1>e, Apart DEF wlanVars, boundVars, IInv,
     Types, BridgeTypes, ActorTypes, JobTypes, CardTypes, HandleOrNone,
     NameOrNone, JobSort, RstSort, JobOfHolder, ResetHolds, SnapshotOfReset,
     TargetsNamed, Building, Settled, OwnerByStep, RequestNamed
<1>5. InstanceShape' /\ RefsBalanced'
  BY <1>a, <1>b, <1>c, <1>d, <1>e, Apart DEF wlanVars, boundVars, IInv,
     Types, BridgeTypes, ActorTypes, JobTypes, CardTypes, HandleOrNone,
     NameOrNone, InstSort, PeerSort, JobSort, NoInst, InstanceShape,
     RefsBalanced, JobOfHolder, ResetHolds, Building, SnapshotOfReset,
     OwnerByStep, Settled
<1>6. OwnerByStep'
  BY <1>a, <1>b, <1>c, <1>d, <1>e, Apart DEF wlanVars, boundVars, IInv,
     Types, BridgeTypes, ActorTypes, JobTypes, CardTypes, HandleOrNone,
     NameOrNone, InstSort, JobSort, RstSort, NoInst, OwnerByStep, Settled,
     JobOfHolder, Building, SnapshotOfReset, ResetHolds, TargetsNamed,
     InstanceShape, BuildTarget
<1>7. FailureKnown'
  BY <1>a, <1>b, <1>c, <1>d, <1>e, Apart DEF wlanVars, boundVars, IInv,
     Types, BridgeTypes, ActorTypes, JobTypes, CardTypes, HandleOrNone,
     NameOrNone, JobSort, PendingSort, FailureKnown, JobOfHolder, Building,
     OwnerByStep, Settled, Errors
<1>8. GateClosed'
  BY <1>a, <1>b, <1>c, <1>d, <1>e, Apart DEF wlanVars, boundVars, IInv,
     Types, BridgeTypes, ActorTypes, JobTypes, CardTypes, HandleOrNone,
     NameOrNone, PendingSort, ActSort, RstSort, GateClosed, JobOfHolder,
     RequestNamed, ResetHolds, SnapshotOfReset, Building
<1> QED
  BY <1>1, <1>2, <1>3, <1>4, <1>5, <1>6, <1>7, <1>8 DEF IInv

(* The RTNL section of a request either ends it or takes a reference for   *)
(* the transaction.                                                        *)
LEMMA ResolveEffect ==
  ASSUME IInv, NEW a \in Actors, Resolve(a)
  PROVE  \/ /\ Released(a) /\ Calm(pending, pending') /\ peer' = peer
            /\ a = Worker => /\ act'[a].ret \notin {"0", "EIO"}
                             /\ act'[a].ret = "ESTALE" => Bearers(name, act[a].name) = {}
         \/ \E h \in Handles, s \in {"defer", "put", "teardown"}, ret \in {"0", "ENETDOWN"} :
              /\ name[h] = act[a].name
              /\ a = Worker => PendingMatches(pending, act[a].name, act[a].gen)
              /\ s = "put" /\ ret = "0" => name[owner] = act[a].name
              /\ peer' = [peer EXCEPT !.refs = @ + 1]
              /\ job' = [job EXCEPT !.step = s, !.tgt = h, !.old = owner, !.ret = ret]
              /\ UNCHANGED <<lock, act, pending>>
<1> DEFINE n == act[a].name
           Holds(h, s, ret) ==
             /\ peer' = [peer EXCEPT !.refs = @ + 1]
             /\ job' = [job EXCEPT !.step = s, !.tgt = h, !.old = owner, !.ret = ret]
             /\ UNCHANGED <<lock, act, pending>>
<1>a. pending \in PendingSort /\ job \in JobSort /\ act \in [Actors -> ActSort]
  BY DEF IInv, Types, JobTypes, ActorTypes
<1>b. Calm(pending, pending)
  BY <1>a DEF Calm, PendingSort
<1>c. Calm(pending, PendingClearIf(pending, job.snapName, job.snapGen))
  BY <1>a, PendingOpsCalm DEF JobSort
<1>d. CASE a = Worker /\ ~PendingMatches(pending, n, act[a].gen)
  <2>1. Release(a, "ECANCELED") /\ pending' = pending /\ peer' = peer
    BY <1>d DEF Resolve
  <2> QED
    BY <1>a, <1>b, <2>1, ReleaseReleases DEF Errors
<1>e. CASE /\ ~(a = Worker /\ ~PendingMatches(pending, n, act[a].gen))
           /\ name[owner] = n /\ a # Worker /\ job.snapSet
           /\ PendingMatches(pending, job.snapName, job.snapGen)
  <2>1. /\ pending' = PendingClearIf(pending, job.snapName, job.snapGen)
        /\ Release(a, "0") /\ peer' = peer
    BY <1>e DEF Resolve
  <2> QED
    BY <1>a, <1>c, <1>e, <2>1, ReleaseReleases DEF Errors
<1>f. CASE /\ ~(a = Worker /\ ~PendingMatches(pending, n, act[a].gen))
           /\ ~(name[owner] = n /\ a # Worker /\ job.snapSet
                /\ PendingMatches(pending, job.snapName, job.snapGen))
           /\ Bearers(name, n) = {}
  <2>1. Release(a, IF a = Worker THEN "ESTALE" ELSE "ENODEV")
        /\ pending' = pending /\ peer' = peer
    BY <1>f DEF Resolve
  <2> QED
    BY <1>a, <1>b, <1>f, <2>1, ReleaseReleases DEF Errors
<1>g. CASE /\ ~(a = Worker /\ ~PendingMatches(pending, n, act[a].gen))
           /\ ~(name[owner] = n /\ a # Worker /\ job.snapSet
                /\ PendingMatches(pending, job.snapName, job.snapGen))
           /\ Bearers(name, n) # {}
  <2>1. PICK h \in Bearers(name, n) :
          IF ~hw[h] THEN Release(a, "EBUSY") /\ UNCHANGED <<pending, peer>>
          ELSE IF ~(~inst.released /\ inst.active /\ peer.reg /\ peer.ready)
            THEN /\ Release(a, IF ready[h] /\ inst.released
                                 THEN (IF a = Worker THEN "EAGAIN" ELSE "ENODEV")
                                 ELSE "ENETDOWN")
                 /\ UNCHANGED <<pending, peer>>
          ELSE IF ~ready[h]
            THEN Holds(h, IF a # Worker /\ ~(name[owner] = n) THEN "defer" ELSE "put",
                       "ENETDOWN")
          ELSE Holds(h, IF name[owner] = n THEN "put" ELSE "teardown", "0")
    BY <1>g, Zenon DEF Resolve
  <2>2. h \in Handles /\ name[h] = n
    BY DEF Bearers
  <2>3. CASE ~hw[h]
    BY <1>a, <1>b, <2>1, <2>3, ReleaseReleases DEF Errors
  <2>4. CASE hw[h] /\ ~(~inst.released /\ inst.active /\ peer.reg /\ peer.ready)
    <3> DEFINE ret == IF ready[h] /\ inst.released
                        THEN (IF a = Worker THEN "EAGAIN" ELSE "ENODEV") ELSE "ENETDOWN"
    <3>1. ret \in Errors
      BY DEF Errors
    <3>2. Release(a, ret) /\ UNCHANGED <<pending, peer>>
      BY <2>1, <2>4
    <3> QED
      BY <1>a, <1>b, <3>1, <3>2, ReleaseReleases
  <2>5. CASE hw[h] /\ (~inst.released /\ inst.active /\ peer.reg /\ peer.ready) /\ ~ready[h]
    BY <1>g, <2>1, <2>2, <2>5
  <2>6. CASE hw[h] /\ (~inst.released /\ inst.active /\ peer.reg /\ peer.ready) /\ ready[h]
    BY <1>g, <2>1, <2>2, <2>6
  <2> QED
    BY <2>3, <2>4, <2>5, <2>6
<1> QED
  BY <1>d, <1>e, <1>f, <1>g

LEMMA ResolvePreserves ==
  ASSUME IInv, NEW a \in Actors, Resolve(a)
  PROVE  IInv'
<1>a. lock = a /\ job.step = "rtnl"
      /\ UNCHANGED <<control, owner, inst, suspended, admitted, rst, wlanVars, boundVars, unload>>
  BY DEF Resolve
<1>c. CASE Released(a) /\ Calm(pending, pending') /\ peer' = peer
  BY <1>a, <1>c, ReleasePreserves
<1>d. ASSUME NEW h \in Handles, NEW s \in {"defer", "put", "teardown"},
             NEW ret \in {"0", "ENETDOWN"}, name[h] = act[a].name,
             peer' = [peer EXCEPT !.refs = @ + 1],
             job' = [job EXCEPT !.step = s, !.tgt = h, !.old = owner, !.ret = ret],
             UNCHANGED <<lock, act, pending>>
      PROVE  IInv'
  <2>a. owner \in Handles /\ owner # NoHandle /\ name[owner] # NoName
    BY <1>a DEF IInv, Types, BridgeTypes, HandleOrNone, OwnerByStep, Settled
  <2>b. name[h] \in Names
    BY <1>a, <1>d DEF IInv, RequestNamed
  <2>c. job' \in JobSort /\ job'.step = s /\ job'.phase = "none" /\ job'.tgt = h
        /\ job'.old = owner /\ job'.ret = ret
    BY <1>a, <1>d, <2>a, Apart DEF IInv, Types, JobTypes, JobSort, HandleOrNone, Errors,
       JobOfHolder, Building
  <2>d. peer' \in PeerSort /\ peer'.reg = peer.reg /\ peer'.refs = peer.refs + 1
    BY <1>d DEF IInv, Types, BridgeTypes, PeerSort
  <2>1. Types'
    BY <1>a, <1>d, <2>a, <2>b, <2>c, <2>d, Apart DEF wlanVars, boundVars,
       IInv, Types, BridgeTypes, ActorTypes, JobTypes, CardTypes, HandleOrNone,
       NameOrNone, InstSort, PeerSort, PendingSort, ActSort, JobSort, RstSort,
       Errors
  <2>2. RequestNamed'
    BY <1>a, <1>d, <2>a, <2>b, <2>c, <2>d, Apart DEF wlanVars, boundVars,
       IInv, Types, ActorTypes, RequestNamed, JobOfHolder, ActSort,
       PendingSort, Building
  <2>3. JobOfHolder' /\ ResetHolds'
    BY <1>a, <1>d, <2>a, <2>b, <2>c, <2>d, Apart DEF wlanVars, boundVars,
       IInv, Types, BridgeTypes, ActorTypes, JobTypes, CardTypes, HandleOrNone,
       NameOrNone, JobSort, RstSort, JobOfHolder, ResetHolds, Building
  <2>4. SnapshotOfReset' /\ TargetsNamed'
    BY <1>a, <1>d, <2>a, <2>b, <2>c, <2>d, Apart DEF wlanVars, boundVars,
       IInv, Types, BridgeTypes, ActorTypes, JobTypes, CardTypes, HandleOrNone,
       NameOrNone, JobSort, RstSort, JobOfHolder, ResetHolds, SnapshotOfReset,
       TargetsNamed, Building, Settled, OwnerByStep, RequestNamed
  <2>5. InstanceShape' /\ RefsBalanced'
    BY <1>a, <1>d, <2>a, <2>b, <2>c, <2>d, Apart DEF wlanVars, boundVars,
       IInv, Types, BridgeTypes, ActorTypes, JobTypes, CardTypes, HandleOrNone,
       NameOrNone, InstSort, PeerSort, JobSort, NoInst, InstanceShape,
       RefsBalanced, JobOfHolder, ResetHolds, Building, SnapshotOfReset,
       OwnerByStep, Settled
  <2>6. OwnerByStep'
    BY <1>a, <1>d, <2>a, <2>b, <2>c, <2>d, Apart DEF wlanVars, boundVars,
       IInv, Types, BridgeTypes, ActorTypes, JobTypes, CardTypes, HandleOrNone,
       NameOrNone, InstSort, JobSort, RstSort, NoInst, OwnerByStep, Settled,
       JobOfHolder, Building, SnapshotOfReset, ResetHolds, TargetsNamed,
       InstanceShape, BuildTarget
  <2>7. FailureKnown'
    BY <1>a, <1>d, <2>a, <2>b, <2>c, <2>d, Apart DEF wlanVars, boundVars,
       IInv, Types, BridgeTypes, ActorTypes, JobTypes, CardTypes, HandleOrNone,
       NameOrNone, JobSort, PendingSort, FailureKnown, JobOfHolder, Building,
       OwnerByStep, Settled, Errors
  <2>8. GateClosed'
    BY <1>a, <1>d, <2>a, <2>b, <2>c, <2>d, Apart DEF wlanVars, boundVars,
       IInv, Types, BridgeTypes, ActorTypes, JobTypes, CardTypes, HandleOrNone,
       NameOrNone, PendingSort, ActSort, RstSort, GateClosed, JobOfHolder,
       RequestNamed, ResetHolds, SnapshotOfReset, Building
  <2> QED
    BY <2>1, <2>2, <2>3, <2>4, <2>5, <2>6, <2>7, <2>8 DEF IInv
<1> QED
  BY <1>c, <1>d, ResolveEffect

LEMMA DeferPreserves ==
  ASSUME IInv, NEW a \in Actors, Defer(a)
  PROVE  IInv'
<1>a. lock = a /\ job.step = "defer" /\ act[a].name \in Names
  BY DEF Defer, IInv, RequestNamed
<1>b. /\ pending' \in PendingSort /\ pending'.on = pending.on
      /\ pending'.state # "none" => pending'.name \in Names
      /\ ~pending.on => pending' = pending
  <2>1. pending \in PendingSort /\ (pending.state # "none" => pending.name \in Names)
    BY DEF IInv, Types, RequestNamed
  <2>2. CASE ~pending.on
    BY <2>1, <2>2 DEF Defer, PendingSet
  <2>3. CASE pending.on
    <3>1. pending.gen + 1 \in Nat /\ act[a].name \in NameOrNone
      BY <1>a, <2>1 DEF PendingSort, NameOrNone
    <3>2. pending' = [pending EXCEPT !.state = "waiting", !.name = act[a].name,
                        !.gen = pending.gen + 1, !.during = FALSE, !.queued = TRUE]
      BY <2>3 DEF Defer, PendingSet
    <3> QED
      BY <1>a, <2>1, <2>3, <3>1, <3>2 DEF PendingSort
  <2> QED
    BY <2>1, <2>2, <2>3 DEF PendingSort
<1>c. \E r \in {"0", "ESHUTDOWN"} : job' = [job EXCEPT !.step = "put", !.ret = r]
  BY DEF Defer
<1>d. /\ job' \in JobSort /\ job'.step = "put" /\ job'.ret \in {"0", "ESHUTDOWN"}
      /\ job'.phase = "none" /\ job'.tgt = job.tgt /\ job'.old = job.old
  BY <1>a, <1>c, Apart DEF IInv, Types, JobTypes, JobSort, Errors, JobOfHolder, Building
<1>e. admitted' \in HandleOrNone \X Nat
  <2>1. CASE Bearers(name, act[a].name) = {}
    BY <2>1 DEF Defer, NoDev, HandleOrNone
  <2>2. CASE Bearers(name, act[a].name) # {}
    <3>1. PICK h \in Bearers(name, act[a].name) : admitted' = <<h, epoch[h]>>
      BY <2>2 DEF Defer, Dev
    <3> QED
      BY <3>1 DEF Bearers, HandleOrNone, IInv, Types, CardTypes
  <2> QED
    BY <2>1, <2>2
<1>1. Types'
  BY <1>a, <1>b, <1>d, <1>e, Apart DEF Defer, wlanVars, boundVars, IInv,
     Types, BridgeTypes, ActorTypes, JobTypes, CardTypes, HandleOrNone,
     NameOrNone, InstSort, PeerSort, PendingSort, ActSort, JobSort, RstSort,
     Errors
<1>2. RequestNamed'
  BY <1>a, <1>b, <1>d, <1>e, Apart DEF Defer, wlanVars, boundVars, IInv,
     Types, ActorTypes, RequestNamed, JobOfHolder, ActSort, PendingSort,
     Building
<1>3. JobOfHolder' /\ ResetHolds'
  BY <1>a, <1>b, <1>d, <1>e, Apart DEF Defer, wlanVars, boundVars, IInv,
     Types, BridgeTypes, ActorTypes, JobTypes, CardTypes, HandleOrNone,
     NameOrNone, JobSort, RstSort, JobOfHolder, ResetHolds, Building
<1>4. SnapshotOfReset' /\ TargetsNamed'
  BY <1>a, <1>b, <1>d, <1>e, Apart DEF Defer, wlanVars, boundVars, IInv,
     Types, BridgeTypes, ActorTypes, JobTypes, CardTypes, HandleOrNone,
     NameOrNone, JobSort, RstSort, JobOfHolder, ResetHolds, SnapshotOfReset,
     TargetsNamed, Building, Settled, OwnerByStep, RequestNamed
<1>5. InstanceShape' /\ RefsBalanced'
  BY <1>a, <1>b, <1>d, <1>e, Apart DEF Defer, wlanVars, boundVars, IInv,
     Types, BridgeTypes, ActorTypes, JobTypes, CardTypes, HandleOrNone,
     NameOrNone, InstSort, PeerSort, JobSort, NoInst, InstanceShape,
     RefsBalanced, JobOfHolder, ResetHolds, Building, SnapshotOfReset,
     OwnerByStep, Settled
<1>6. OwnerByStep'
  BY <1>a, <1>b, <1>d, <1>e, Apart DEF Defer, wlanVars, boundVars, IInv,
     Types, BridgeTypes, ActorTypes, JobTypes, CardTypes, HandleOrNone,
     NameOrNone, InstSort, JobSort, RstSort, NoInst, OwnerByStep, Settled,
     JobOfHolder, Building, SnapshotOfReset, ResetHolds, TargetsNamed,
     InstanceShape, BuildTarget
<1>7. FailureKnown'
  BY <1>a, <1>b, <1>d, <1>e, Apart DEF Defer, wlanVars, boundVars, IInv,
     Types, BridgeTypes, ActorTypes, JobTypes, CardTypes, HandleOrNone,
     NameOrNone, JobSort, PendingSort, FailureKnown, JobOfHolder, Building,
     OwnerByStep, Settled, Errors
<1>8. GateClosed'
  BY <1>a, <1>b, <1>d, <1>e, Apart DEF Defer, wlanVars, boundVars, IInv,
     Types, BridgeTypes, ActorTypes, JobTypes, CardTypes, HandleOrNone,
     NameOrNone, PendingSort, ActSort, RstSort, GateClosed, JobOfHolder,
     RequestNamed, ResetHolds, SnapshotOfReset, Building
<1> QED
  BY <1>1, <1>2, <1>3, <1>4, <1>5, <1>6, <1>7, <1>8 DEF IInv

LEMMA PutPreserves ==
  ASSUME IInv, NEW a \in Actors, Put(a)
  PROVE  IInv'
<1>1. Calm(pending, pending')
  BY DEF IInv, Types, Put, Calm, PendingSort
<1>2. Released(a)
  BY ReleaseReleases DEF IInv, Types, JobTypes, JobSort, ActorTypes, Put
<1> QED
  BY <1>1, <1>2, ReleasePreserves DEF Put

LEMMA PostPreserves ==
  ASSUME IInv, Post
  PROVE  IInv'
<1>a. pending \in PendingSort /\ act \in [Actors -> ActSort] /\ act[Worker] \in ActSort
  BY Apart DEF IInv, Types, ActorTypes
<1>b. Calm(pending, pending')
  <2>1. \/ pending' = pending
        \/ pending' = PendingClearIf(pending, act[Worker].name, act[Worker].gen)
        \/ pending' = PendingRestoreWaiting(pending, act[Worker].name, act[Worker].gen)
    BY DEF Post
  <2>2. act[Worker].name \in NameOrNone
    BY <1>a DEF ActSort
  <2> QED
    BY <1>a, <2>1, <2>2, PendingOpsCalm
<1>c. pending' \in PendingSort /\ pending'.on = pending.on
      /\ (pending'.state # "none" => pending.state # "none" /\ pending'.name = pending.name)
      /\ (~pending.on /\ pending.state = "none" /\ ~pending.queued => ~pending'.queued)
  BY <1>b DEF Calm
<1>d. Idle \in ActSort /\ Idle.pc = "idle"
  BY DEF ActSort, Idle, NameOrNone, Errors
<1>e. act' = [act EXCEPT ![Worker] = Idle] /\ act[Worker].pc = "post"
      /\ UNCHANGED <<lock, control, owner, inst, suspended, admitted, job, rst, wlanVars, peer,
                     boundVars, unload>>
  BY DEF Post
<1>1. Types'
  BY <1>a, <1>c, <1>d, <1>e, Apart DEF wlanVars, boundVars, IInv, Types,
     BridgeTypes, ActorTypes, JobTypes, CardTypes, HandleOrNone, NameOrNone,
     InstSort, PeerSort, PendingSort, ActSort, JobSort, RstSort, Errors
<1>2. RequestNamed'
  BY <1>a, <1>c, <1>d, <1>e, Apart DEF wlanVars, boundVars, IInv, Types,
     ActorTypes, RequestNamed, JobOfHolder, ActSort, PendingSort, Building
<1>3. JobOfHolder' /\ ResetHolds'
  BY <1>a, <1>c, <1>d, <1>e, Apart DEF wlanVars, boundVars, IInv, Types,
     BridgeTypes, ActorTypes, JobTypes, CardTypes, HandleOrNone, NameOrNone,
     JobSort, RstSort, JobOfHolder, ResetHolds, Building
<1>4. SnapshotOfReset' /\ TargetsNamed'
  BY <1>a, <1>c, <1>d, <1>e, Apart DEF wlanVars, boundVars, IInv, Types,
     BridgeTypes, ActorTypes, JobTypes, CardTypes, HandleOrNone, NameOrNone,
     JobSort, RstSort, JobOfHolder, ResetHolds, SnapshotOfReset, TargetsNamed,
     Building, Settled, OwnerByStep, RequestNamed
<1>5. InstanceShape' /\ RefsBalanced'
  BY <1>a, <1>c, <1>d, <1>e, Apart DEF wlanVars, boundVars, IInv, Types,
     BridgeTypes, ActorTypes, JobTypes, CardTypes, HandleOrNone, NameOrNone,
     InstSort, PeerSort, JobSort, NoInst, InstanceShape, RefsBalanced,
     JobOfHolder, ResetHolds, Building, SnapshotOfReset, OwnerByStep, Settled
<1>6. OwnerByStep'
  BY <1>a, <1>c, <1>d, <1>e, Apart DEF wlanVars, boundVars, IInv, Types,
     BridgeTypes, ActorTypes, JobTypes, CardTypes, HandleOrNone, NameOrNone,
     InstSort, JobSort, RstSort, NoInst, OwnerByStep, Settled, JobOfHolder,
     Building, SnapshotOfReset, ResetHolds, TargetsNamed, InstanceShape,
     BuildTarget
<1>7. FailureKnown'
  BY <1>a, <1>c, <1>d, <1>e, Apart DEF wlanVars, boundVars, IInv, Types,
     BridgeTypes, ActorTypes, JobTypes, CardTypes, HandleOrNone, NameOrNone,
     JobSort, PendingSort, FailureKnown, JobOfHolder, Building, OwnerByStep,
     Settled, Errors
<1>8. GateClosed'
  BY <1>a, <1>c, <1>d, <1>e, Apart DEF wlanVars, boundVars, IInv, Types,
     BridgeTypes, ActorTypes, JobTypes, CardTypes, HandleOrNone, NameOrNone,
     PendingSort, ActSort, RstSort, GateClosed, JobOfHolder, RequestNamed,
     ResetHolds, SnapshotOfReset, Building
<1> QED
  BY <1>1, <1>2, <1>3, <1>4, <1>5, <1>6, <1>7, <1>8 DEF IInv

-----------------------------------------------------------------------------
(* The transaction.  Which holder each phase belongs to: *)
LEMMA PhaseOfHolder ==
  ASSUME IInv
  PROVE  /\ job.step \in {"teardown", "validate"} => lock \in Actors
         /\ job.step = "teardown" => job.phase = "none"
         /\ job.step \in Building => job.phase \in {"switch", "rollback", "resume", "load"}
         /\ job.phase \in {"switch", "rollback"} => lock \in Actors
         /\ job.phase = "resume" => lock = "reset" /\ rst.pc = "resume" /\ job.step \in Building
         /\ job.phase = "load" => lock = "card" /\ job.step \in Building
         /\ job.step \in Building => BuildTarget \in Handles
BY Apart DEF IInv, JobOfHolder, Building, Types, ActorTypes, JobTypes, JobSort, TargetsNamed,
   BuildTarget

(* No instance at all, and the count after a deinit. *)
LEMMA DeinitTyped ==
  ASSUME IInv
  PROVE  /\ NoInst \in InstSort /\ NoInst.h = NoHandle /\ ~NoInst.ref /\ ~NoInst.work
         /\ ~NoInst.released
         /\ RefsAfterDeinit \in Int
         /\ RefsAfterDeinit = peer.refs - (IF inst.ref THEN 1 ELSE 0)
BY DEF IInv, Types, BridgeTypes, InstSort, PeerSort, NoInst, HandleOrNone, RefsAfterDeinit

LEMMA TeardownPreserves ==
  ASSUME IInv, Teardown
  PROVE  IInv'
<1>a. lock \in Actors /\ job.step = "teardown" /\ job.phase = "none"
  BY PhaseOfHolder DEF Teardown
<1>b. /\ job' \in JobSort /\ job'.step = "hold" /\ job'.phase = "switch"
      /\ job'.tgt = job.tgt /\ job'.old = job.old /\ job'.ret = job.ret
  BY DEF Teardown, IInv, Types, JobTypes, JobSort
<1>c. peer' \in PeerSort /\ peer'.reg = peer.reg
      /\ peer'.refs = peer.refs - (IF inst.ref THEN 1 ELSE 0)
  BY DeinitTyped DEF Teardown, IInv, Types, BridgeTypes, PeerSort
<1>d. /\ inst' = NoInst /\ owner' = NoHandle
      /\ UNCHANGED <<lock, control, suspended, pending, admitted, act, rst, wlanVars,
                     boundVars, unload>>
  BY DEF Teardown
<1>1. Types'
  BY <1>a, <1>b, <1>c, <1>d, DeinitTyped, Apart DEF wlanVars, boundVars,
     IInv, Types, BridgeTypes, ActorTypes, JobTypes, CardTypes, HandleOrNone,
     NameOrNone, InstSort, PeerSort, PendingSort, ActSort, JobSort, RstSort,
     Errors
<1>2. RequestNamed'
  BY <1>a, <1>b, <1>c, <1>d, DeinitTyped, Apart DEF wlanVars, boundVars,
     IInv, Types, ActorTypes, RequestNamed, JobOfHolder, ActSort, PendingSort,
     Building
<1>3. JobOfHolder' /\ ResetHolds'
  BY <1>a, <1>b, <1>c, <1>d, DeinitTyped, Apart DEF wlanVars, boundVars,
     IInv, Types, BridgeTypes, ActorTypes, JobTypes, CardTypes, HandleOrNone,
     NameOrNone, JobSort, RstSort, JobOfHolder, ResetHolds, Building
<1>4. SnapshotOfReset' /\ TargetsNamed'
  BY <1>a, <1>b, <1>c, <1>d, DeinitTyped, Apart DEF wlanVars, boundVars,
     IInv, Types, BridgeTypes, ActorTypes, JobTypes, CardTypes, HandleOrNone,
     NameOrNone, JobSort, RstSort, JobOfHolder, ResetHolds, SnapshotOfReset,
     TargetsNamed, Building, Settled, OwnerByStep, RequestNamed
<1>5. InstanceShape' /\ RefsBalanced'
  BY <1>a, <1>b, <1>c, <1>d, DeinitTyped, Apart DEF wlanVars, boundVars,
     IInv, Types, BridgeTypes, ActorTypes, JobTypes, CardTypes, HandleOrNone,
     NameOrNone, InstSort, PeerSort, JobSort, NoInst, InstanceShape,
     RefsBalanced, JobOfHolder, ResetHolds, Building, SnapshotOfReset,
     OwnerByStep, Settled
<1>6. OwnerByStep'
  BY <1>a, <1>b, <1>c, <1>d, DeinitTyped, Apart DEF wlanVars, boundVars,
     IInv, Types, BridgeTypes, ActorTypes, JobTypes, CardTypes, HandleOrNone,
     NameOrNone, InstSort, JobSort, RstSort, NoInst, OwnerByStep, Settled,
     JobOfHolder, Building, SnapshotOfReset, ResetHolds, TargetsNamed,
     InstanceShape, BuildTarget
<1>7. FailureKnown'
  BY <1>a, <1>b, <1>c, <1>d, DeinitTyped, Apart DEF wlanVars, boundVars,
     IInv, Types, BridgeTypes, ActorTypes, JobTypes, CardTypes, HandleOrNone,
     NameOrNone, JobSort, PendingSort, FailureKnown, JobOfHolder, Building,
     OwnerByStep, Settled, Errors
<1>8. GateClosed'
  BY <1>a, <1>b, <1>c, <1>d, DeinitTyped, Apart DEF wlanVars, boundVars,
     IInv, Types, BridgeTypes, ActorTypes, JobTypes, CardTypes, HandleOrNone,
     NameOrNone, PendingSort, ActSort, RstSort, GateClosed, JobOfHolder,
     RequestNamed, ResetHolds, SnapshotOfReset, Building
<1> QED
  BY <1>1, <1>2, <1>3, <1>4, <1>5, <1>6, <1>7, <1>8 DEF IInv

(* A failed init, before or after the instance was registered. *)
LEMMA InitFailedPreserves ==
  ASSUME IInv, NEW ret \in {"EBUSY", "ENODEV", "ENOMEM", "ENETDOWN"}, NEW i, NEW refs,
         InitFailed(ret, i, refs),
         \/ job.step = "hold" /\ i = inst /\ refs = peer.refs
         \/ job.step \in {"publish", "validate"} /\ i = NoInst /\ refs = RefsAfterDeinit
  PROVE  IInv'
<1>a. /\ i \in InstSort /\ refs \in Int
      /\ refs - (IF i.ref THEN 1 ELSE 0) = peer.refs - (IF inst.ref THEN 1 ELSE 0)
      /\ i.h = owner
      /\ owner # NoHandle => i.published /\ i.epoch = epoch[owner] /\ name[owner] # NoName
      /\ job.phase \in {"switch", "rollback"} => owner = NoHandle
      /\ i.h = NoHandle => i = NoInst
      /\ i.work => i.ref
      /\ i.released => ~peer.reg
      /\ i.h # NoHandle /\ ~i.ref => i.released
  <2>1. CASE job.step = "hold" /\ i = inst /\ refs = peer.refs
    BY <2>1 DEF IInv, Types, BridgeTypes, PeerSort, OwnerByStep, Settled, InstanceShape
  <2>2. CASE job.step \in {"publish", "validate"} /\ i = NoInst /\ refs = RefsAfterDeinit
    BY <2>2, DeinitTyped DEF IInv, OwnerByStep
  <2> QED
    BY <2>1, <2>2
<1>b. /\ inst' = i
      /\ UNCHANGED <<control, owner, suspended, admitted, act, name, epoch, ready, edge,
                     boundVars, unload>>
      /\ job.step \in Building /\ job.step # "register"
  BY DEF InitFailed, Building
<1>c. [peer EXCEPT !.refs = refs] \in PeerSort /\ [peer EXCEPT !.refs = refs].reg = peer.reg
      /\ [peer EXCEPT !.refs = refs].refs = refs
      /\ [peer EXCEPT !.refs = refs - 1] \in PeerSort
      /\ [peer EXCEPT !.refs = refs - 1].reg = peer.reg
      /\ [peer EXCEPT !.refs = refs - 1].refs = refs - 1
  BY <1>a DEF IInv, Types, BridgeTypes, PeerSort
<1>d. Calm(pending, pending) /\ Calm(pending, PendingCancelAll(pending))
      /\ PendingCancelAll(pending).state = "none"
  <2>1. pending \in PendingSort /\ NoName \in NameOrNone
    BY DEF IInv, Types, NameOrNone
  <2>2. PendingCancelAll(pending).state = "none"
    BY <2>1 DEF PendingCancelAll, Cleared, PendingSort
  <2> QED
    BY <2>1, <2>2, PendingOpsCalm
<1>e. NoJob \in JobSort /\ NoJob.step = "none" /\ NoJob.phase = "none" /\ NoJob.ret = "0"
  BY DEF NoJob, JobSort, HandleOrNone, NameOrNone, Errors
<1>1. CASE job.phase = "switch"
  <2>a. /\ job' = [job EXCEPT !.step = "hold", !.phase = "rollback", !.ret = ret]
        /\ peer' = [peer EXCEPT !.refs = refs]
        /\ UNCHANGED <<lock, pending, rst, hw>>
    BY <1>1 DEF InitFailed
  <2>b. /\ job' \in JobSort /\ job'.step = "hold" /\ job'.phase = "rollback"
        /\ job'.ret \notin {"0", "EIO", "ESTALE"} /\ job'.tgt = job.tgt /\ job'.old = job.old
    BY <2>a DEF IInv, Types, JobTypes, JobSort, Errors
  <2>c. lock \in Actors
    BY <1>1, PhaseOfHolder
  <2>1. Types'
    BY <1>1, <1>a, <1>b, <1>c, <2>a, <2>b, <2>c, Apart DEF wlanVars,
       boundVars, IInv, Types, BridgeTypes, ActorTypes, JobTypes, CardTypes,
       HandleOrNone, NameOrNone, InstSort, PeerSort, PendingSort, ActSort,
       JobSort, RstSort, Errors
  <2>2. RequestNamed'
    BY <1>1, <1>a, <1>b, <1>c, <2>a, <2>b, <2>c, Apart DEF wlanVars,
       boundVars, IInv, Types, ActorTypes, RequestNamed, JobOfHolder, ActSort,
       PendingSort, Building
  <2>3. JobOfHolder' /\ ResetHolds'
    BY <1>1, <1>a, <1>b, <1>c, <2>a, <2>b, <2>c, Apart DEF wlanVars,
       boundVars, IInv, Types, BridgeTypes, ActorTypes, JobTypes, CardTypes,
       HandleOrNone, NameOrNone, JobSort, RstSort, JobOfHolder, ResetHolds,
       Building
  <2>4. SnapshotOfReset' /\ TargetsNamed'
    BY <1>1, <1>a, <1>b, <1>c, <2>a, <2>b, <2>c, Apart DEF wlanVars,
       boundVars, IInv, Types, BridgeTypes, ActorTypes, JobTypes, CardTypes,
       HandleOrNone, NameOrNone, JobSort, RstSort, JobOfHolder, ResetHolds,
       SnapshotOfReset, TargetsNamed, Building, Settled, OwnerByStep,
       RequestNamed
  <2>5. InstanceShape' /\ RefsBalanced'
    BY <1>1, <1>a, <1>b, <1>c, <2>a, <2>b, <2>c, Apart DEF wlanVars,
       boundVars, IInv, Types, BridgeTypes, ActorTypes, JobTypes, CardTypes,
       HandleOrNone, NameOrNone, InstSort, PeerSort, JobSort, NoInst,
       InstanceShape, RefsBalanced, JobOfHolder, ResetHolds, Building,
       SnapshotOfReset, OwnerByStep, Settled
  <2>6. OwnerByStep'
    BY <1>1, <1>a, <1>b, <1>c, <2>a, <2>b, <2>c, Apart DEF wlanVars,
       boundVars, IInv, Types, BridgeTypes, ActorTypes, JobTypes, CardTypes,
       HandleOrNone, NameOrNone, InstSort, JobSort, RstSort, NoInst,
       OwnerByStep, Settled, JobOfHolder, Building, SnapshotOfReset,
       ResetHolds, TargetsNamed, InstanceShape, BuildTarget
  <2>7. FailureKnown'
    BY <1>1, <1>a, <1>b, <1>c, <2>a, <2>b, <2>c, Apart DEF wlanVars,
       boundVars, IInv, Types, BridgeTypes, ActorTypes, JobTypes, CardTypes,
       HandleOrNone, NameOrNone, JobSort, PendingSort, FailureKnown,
       JobOfHolder, Building, OwnerByStep, Settled, Errors
  <2>8. GateClosed'
    BY <1>1, <1>a, <1>b, <1>c, <2>a, <2>b, <2>c, Apart DEF wlanVars,
       boundVars, IInv, Types, BridgeTypes, ActorTypes, JobTypes, CardTypes,
       HandleOrNone, NameOrNone, PendingSort, ActSort, RstSort, GateClosed,
       JobOfHolder, RequestNamed, ResetHolds, SnapshotOfReset, Building
  <2> QED
    BY <2>1, <2>2, <2>3, <2>4, <2>5, <2>6, <2>7, <2>8 DEF IInv
<1>2. CASE job.phase = "rollback"
  <2>a. /\ job' = [job EXCEPT !.step = "put", !.ret = "EIO"]
        /\ pending' = PendingCancelAll(pending)
        /\ peer' = [peer EXCEPT !.refs = refs]
        /\ UNCHANGED <<lock, rst, hw>>
    BY <1>2 DEF InitFailed
  <2>b. /\ job' \in JobSort /\ job'.step = "put" /\ job'.phase = "rollback"
        /\ job'.ret = "EIO" /\ job'.tgt = job.tgt /\ job'.old = job.old
    BY <1>2, <2>a DEF IInv, Types, JobTypes, JobSort, Errors
  <2>c. lock \in Actors
    BY <1>2, PhaseOfHolder
  <2>d. pending' \in PendingSort /\ pending'.on = pending.on /\ pending'.state = "none"
        /\ (~pending.on /\ pending.state = "none" /\ ~pending.queued => ~pending'.queued)
    BY <1>d, <2>a DEF Calm
  <2>1. Types'
    BY <1>2, <1>a, <1>b, <1>c, <2>a, <2>b, <2>c, <2>d, Apart DEF wlanVars,
       boundVars, IInv, Types, BridgeTypes, ActorTypes, JobTypes, CardTypes,
       HandleOrNone, NameOrNone, InstSort, PeerSort, PendingSort, ActSort,
       JobSort, RstSort, Errors
  <2>2. RequestNamed'
    BY <1>2, <1>a, <1>b, <1>c, <2>a, <2>b, <2>c, <2>d, Apart DEF wlanVars,
       boundVars, IInv, Types, ActorTypes, RequestNamed, JobOfHolder, ActSort,
       PendingSort, Building
  <2>3. JobOfHolder' /\ ResetHolds'
    BY <1>2, <1>a, <1>b, <1>c, <2>a, <2>b, <2>c, <2>d, Apart DEF wlanVars,
       boundVars, IInv, Types, BridgeTypes, ActorTypes, JobTypes, CardTypes,
       HandleOrNone, NameOrNone, JobSort, RstSort, JobOfHolder, ResetHolds,
       Building
  <2>4. SnapshotOfReset' /\ TargetsNamed'
    BY <1>2, <1>a, <1>b, <1>c, <2>a, <2>b, <2>c, <2>d, Apart DEF wlanVars,
       boundVars, IInv, Types, BridgeTypes, ActorTypes, JobTypes, CardTypes,
       HandleOrNone, NameOrNone, JobSort, RstSort, JobOfHolder, ResetHolds,
       SnapshotOfReset, TargetsNamed, Building, Settled, OwnerByStep,
       RequestNamed
  <2>5. InstanceShape' /\ RefsBalanced'
    BY <1>2, <1>a, <1>b, <1>c, <2>a, <2>b, <2>c, <2>d, Apart DEF wlanVars,
       boundVars, IInv, Types, BridgeTypes, ActorTypes, JobTypes, CardTypes,
       HandleOrNone, NameOrNone, InstSort, PeerSort, JobSort, NoInst,
       InstanceShape, RefsBalanced, JobOfHolder, ResetHolds, Building,
       SnapshotOfReset, OwnerByStep, Settled
  <2>6. OwnerByStep'
    BY <1>2, <1>a, <1>b, <1>c, <2>a, <2>b, <2>c, <2>d, Apart DEF wlanVars,
       boundVars, IInv, Types, BridgeTypes, ActorTypes, JobTypes, CardTypes,
       HandleOrNone, NameOrNone, InstSort, JobSort, RstSort, NoInst,
       OwnerByStep, Settled, JobOfHolder, Building, SnapshotOfReset,
       ResetHolds, TargetsNamed, InstanceShape, BuildTarget
  <2>7. FailureKnown'
    BY <1>2, <1>a, <1>b, <1>c, <2>a, <2>b, <2>c, <2>d, Apart DEF wlanVars,
       boundVars, IInv, Types, BridgeTypes, ActorTypes, JobTypes, CardTypes,
       HandleOrNone, NameOrNone, JobSort, PendingSort, FailureKnown,
       JobOfHolder, Building, OwnerByStep, Settled, Errors
  <2>8. GateClosed'
    BY <1>2, <1>a, <1>b, <1>c, <2>a, <2>b, <2>c, <2>d, Apart DEF wlanVars,
       boundVars, IInv, Types, BridgeTypes, ActorTypes, JobTypes, CardTypes,
       HandleOrNone, NameOrNone, PendingSort, ActSort, RstSort, GateClosed,
       JobOfHolder, RequestNamed, ResetHolds, SnapshotOfReset, Building
  <2> QED
    BY <2>1, <2>2, <2>3, <2>4, <2>5, <2>6, <2>7, <2>8 DEF IInv
<1>3. CASE job.phase = "resume"
  <2>a. /\ job' = NoJob /\ lock' = "free"
        /\ rst' = [pc |-> "idle", h |-> NoHandle, kind |-> "none"]
        /\ pending' = PendingCancelAll(pending)
        /\ peer' = [peer EXCEPT !.refs = refs - 1]
        /\ hw' = [hw EXCEPT ![rst.h] = FALSE]
    BY <1>3 DEF InitFailed, Unlock, ResetOver
  <2>b. lock = "reset" /\ rst.pc = "resume" /\ suspended = NoHandle
    BY <1>3, PhaseOfHolder DEF IInv, SnapshotOfReset
  <2>c. rst' \in RstSort /\ rst'.pc = "idle"
    BY <2>a DEF RstSort, HandleOrNone
  <2>e. hw' \in [Handles -> BOOLEAN]
    BY <2>a DEF IInv, Types, CardTypes
  <2>d. pending' \in PendingSort /\ pending'.on = pending.on /\ pending'.state = "none"
        /\ (~pending.on /\ pending.state = "none" /\ ~pending.queued => ~pending'.queued)
    BY <1>d, <2>a DEF Calm
  <2>1. Types'
    BY <1>3, <1>a, <1>b, <1>c, <1>e, <2>a, <2>b, <2>c, <2>d, <2>e, Apart DEF
       wlanVars, boundVars, IInv, Types, BridgeTypes, ActorTypes, JobTypes,
       CardTypes, HandleOrNone, NameOrNone, InstSort, PeerSort, PendingSort,
       ActSort, JobSort, RstSort, Errors
  <2>2. RequestNamed'
    BY <1>3, <1>a, <1>b, <1>c, <1>e, <2>a, <2>b, <2>c, <2>d, <2>e, Apart DEF
       wlanVars, boundVars, IInv, Types, ActorTypes, RequestNamed, JobOfHolder,
       ActSort, PendingSort, Building
  <2>3. JobOfHolder' /\ ResetHolds'
    BY <1>3, <1>a, <1>b, <1>c, <1>e, <2>a, <2>b, <2>c, <2>d, <2>e, Apart DEF
       wlanVars, boundVars, IInv, Types, BridgeTypes, ActorTypes, JobTypes,
       CardTypes, HandleOrNone, NameOrNone, JobSort, RstSort, JobOfHolder,
       ResetHolds, Building
  <2>4. SnapshotOfReset' /\ TargetsNamed'
    BY <1>3, <1>a, <1>b, <1>c, <1>e, <2>a, <2>b, <2>c, <2>d, <2>e, Apart DEF
       wlanVars, boundVars, IInv, Types, BridgeTypes, ActorTypes, JobTypes,
       CardTypes, HandleOrNone, NameOrNone, JobSort, RstSort, JobOfHolder,
       ResetHolds, SnapshotOfReset, TargetsNamed, Building, Settled,
       OwnerByStep, RequestNamed
  <2>5. InstanceShape' /\ RefsBalanced'
    BY <1>3, <1>a, <1>b, <1>c, <1>e, <2>a, <2>b, <2>c, <2>d, <2>e, Apart DEF
       wlanVars, boundVars, IInv, Types, BridgeTypes, ActorTypes, JobTypes,
       CardTypes, HandleOrNone, NameOrNone, InstSort, PeerSort, JobSort,
       NoInst, InstanceShape, RefsBalanced, JobOfHolder, ResetHolds, Building,
       SnapshotOfReset, OwnerByStep, Settled
  <2>6. OwnerByStep'
    BY <1>3, <1>a, <1>b, <1>c, <1>e, <2>a, <2>b, <2>c, <2>d, <2>e, Apart DEF
       wlanVars, boundVars, IInv, Types, BridgeTypes, ActorTypes, JobTypes,
       CardTypes, HandleOrNone, NameOrNone, InstSort, JobSort, RstSort, NoInst,
       OwnerByStep, Settled, JobOfHolder, Building, SnapshotOfReset,
       ResetHolds, TargetsNamed, InstanceShape, BuildTarget
  <2>7. FailureKnown'
    BY <1>3, <1>a, <1>b, <1>c, <1>e, <2>a, <2>b, <2>c, <2>d, <2>e, Apart DEF
       wlanVars, boundVars, IInv, Types, BridgeTypes, ActorTypes, JobTypes,
       CardTypes, HandleOrNone, NameOrNone, JobSort, PendingSort, FailureKnown,
       JobOfHolder, Building, OwnerByStep, Settled, Errors
  <2>8. GateClosed'
    BY <1>3, <1>a, <1>b, <1>c, <1>e, <2>a, <2>b, <2>c, <2>d, <2>e, Apart DEF
       wlanVars, boundVars, IInv, Types, BridgeTypes, ActorTypes, JobTypes,
       CardTypes, HandleOrNone, NameOrNone, PendingSort, ActSort, RstSort,
       GateClosed, JobOfHolder, RequestNamed, ResetHolds, SnapshotOfReset,
       Building
  <2> QED
    BY <2>1, <2>2, <2>3, <2>4, <2>5, <2>6, <2>7, <2>8 DEF IInv
<1>4. CASE job.phase = "load"
  <2>a. /\ job' = NoJob /\ lock' = "free"
        /\ peer' = [peer EXCEPT !.refs = refs]
        /\ UNCHANGED <<pending, rst, hw>>
    BY <1>4 DEF InitFailed, Unlock
  <2>b. lock = "card"
    BY <1>4, PhaseOfHolder
  <2>1. Types'
    BY <1>4, <1>a, <1>b, <1>c, <1>e, <2>a, <2>b, Apart DEF wlanVars,
       boundVars, IInv, Types, BridgeTypes, ActorTypes, JobTypes, CardTypes,
       HandleOrNone, NameOrNone, InstSort, PeerSort, PendingSort, ActSort,
       JobSort, RstSort, Errors
  <2>2. RequestNamed'
    BY <1>4, <1>a, <1>b, <1>c, <1>e, <2>a, <2>b, Apart DEF wlanVars,
       boundVars, IInv, Types, ActorTypes, RequestNamed, JobOfHolder, ActSort,
       PendingSort, Building
  <2>3. JobOfHolder' /\ ResetHolds'
    BY <1>4, <1>a, <1>b, <1>c, <1>e, <2>a, <2>b, Apart DEF wlanVars,
       boundVars, IInv, Types, BridgeTypes, ActorTypes, JobTypes, CardTypes,
       HandleOrNone, NameOrNone, JobSort, RstSort, JobOfHolder, ResetHolds,
       Building
  <2>4. SnapshotOfReset' /\ TargetsNamed'
    BY <1>4, <1>a, <1>b, <1>c, <1>e, <2>a, <2>b, Apart DEF wlanVars,
       boundVars, IInv, Types, BridgeTypes, ActorTypes, JobTypes, CardTypes,
       HandleOrNone, NameOrNone, JobSort, RstSort, JobOfHolder, ResetHolds,
       SnapshotOfReset, TargetsNamed, Building, Settled, OwnerByStep,
       RequestNamed
  <2>5. InstanceShape' /\ RefsBalanced'
    BY <1>4, <1>a, <1>b, <1>c, <1>e, <2>a, <2>b, Apart DEF wlanVars,
       boundVars, IInv, Types, BridgeTypes, ActorTypes, JobTypes, CardTypes,
       HandleOrNone, NameOrNone, InstSort, PeerSort, JobSort, NoInst,
       InstanceShape, RefsBalanced, JobOfHolder, ResetHolds, Building,
       SnapshotOfReset, OwnerByStep, Settled
  <2>6. OwnerByStep'
    BY <1>4, <1>a, <1>b, <1>c, <1>e, <2>a, <2>b, Apart DEF wlanVars,
       boundVars, IInv, Types, BridgeTypes, ActorTypes, JobTypes, CardTypes,
       HandleOrNone, NameOrNone, InstSort, JobSort, RstSort, NoInst,
       OwnerByStep, Settled, JobOfHolder, Building, SnapshotOfReset,
       ResetHolds, TargetsNamed, InstanceShape, BuildTarget
  <2>7. FailureKnown'
    BY <1>4, <1>a, <1>b, <1>c, <1>e, <2>a, <2>b, Apart DEF wlanVars,
       boundVars, IInv, Types, BridgeTypes, ActorTypes, JobTypes, CardTypes,
       HandleOrNone, NameOrNone, JobSort, PendingSort, FailureKnown,
       JobOfHolder, Building, OwnerByStep, Settled, Errors
  <2>8. GateClosed'
    BY <1>4, <1>a, <1>b, <1>c, <1>e, <2>a, <2>b, Apart DEF wlanVars,
       boundVars, IInv, Types, BridgeTypes, ActorTypes, JobTypes, CardTypes,
       HandleOrNone, NameOrNone, PendingSort, ActSort, RstSort, GateClosed,
       JobOfHolder, RequestNamed, ResetHolds, SnapshotOfReset, Building
  <2> QED
    BY <2>1, <2>2, <2>3, <2>4, <2>5, <2>6, <2>7, <2>8 DEF IInv
<1> QED
  BY <1>b, <1>1, <1>2, <1>3, <1>4, PhaseOfHolder

LEMMA HoldPeerPreserves ==
  ASSUME IInv, HoldPeer
  PROVE  IInv'
<1>a. job.step = "hold"
  BY DEF HoldPeer
<1>b. \/ InitFailed("EBUSY", inst, peer.refs)
      \/ InitFailed("ENODEV", inst, peer.refs)
      \/ InitFailed("ENOMEM", inst, peer.refs)
      \/ /\ inst.h = NoHandle /\ name[BuildTarget] # NoName /\ peer.reg
         /\ peer' = [peer EXCEPT !.refs = @ + 1]
         /\ job' = [job EXCEPT !.step = "register"]
         /\ UNCHANGED <<lock, control, owner, inst, suspended, pending, admitted, act, rst,
                        wlanVars, boundVars, unload>>
  BY DEF HoldPeer
<1>1. CASE InitFailed("EBUSY", inst, peer.refs)
  BY <1>a, <1>1, InitFailedPreserves
<1>2. CASE InitFailed("ENODEV", inst, peer.refs)
  BY <1>a, <1>2, InitFailedPreserves
<1>3. CASE InitFailed("ENOMEM", inst, peer.refs)
  BY <1>a, <1>3, InitFailedPreserves
<1>4. CASE /\ inst.h = NoHandle /\ name[BuildTarget] # NoName /\ peer.reg
           /\ peer' = [peer EXCEPT !.refs = @ + 1]
           /\ job' = [job EXCEPT !.step = "register"]
           /\ UNCHANGED <<lock, control, owner, inst, suspended, pending, admitted, act, rst,
                          wlanVars, boundVars, unload>>
  <2>a. /\ job' \in JobSort /\ job'.step = "register" /\ job'.phase = job.phase
        /\ job'.tgt = job.tgt /\ job'.old = job.old /\ job'.ret = job.ret
    BY <1>4 DEF IInv, Types, JobTypes, JobSort
  <2>b. peer' \in PeerSort /\ peer'.reg = peer.reg /\ peer'.refs = peer.refs + 1
    <3>1. peer' = [peer EXCEPT !.refs = @ + 1]
      BY <1>4
    <3> QED
      BY <3>1 DEF IInv, Types, BridgeTypes, PeerSort
  <2>c. owner = NoHandle
    BY <1>a, <1>4 DEF IInv, OwnerByStep, Settled
  <2>1. Types'
    BY <1>a, <1>4, <2>a, <2>b, <2>c, Apart DEF wlanVars, boundVars, IInv,
       Types, BridgeTypes, ActorTypes, JobTypes, CardTypes, HandleOrNone,
       NameOrNone, InstSort, PeerSort, PendingSort, ActSort, JobSort, RstSort,
       Errors
  <2>2. RequestNamed'
    BY <1>a, <1>4, <2>a, <2>b, <2>c, Apart DEF wlanVars, boundVars, IInv,
       Types, ActorTypes, RequestNamed, JobOfHolder, ActSort, PendingSort,
       Building
  <2>3. JobOfHolder' /\ ResetHolds'
    BY <1>a, <1>4, <2>a, <2>b, <2>c, Apart DEF wlanVars, boundVars, IInv,
       Types, BridgeTypes, ActorTypes, JobTypes, CardTypes, HandleOrNone,
       NameOrNone, JobSort, RstSort, JobOfHolder, ResetHolds, Building
  <2>4. SnapshotOfReset' /\ TargetsNamed'
    BY <1>a, <1>4, <2>a, <2>b, <2>c, Apart DEF wlanVars, boundVars, IInv,
       Types, BridgeTypes, ActorTypes, JobTypes, CardTypes, HandleOrNone,
       NameOrNone, JobSort, RstSort, JobOfHolder, ResetHolds, SnapshotOfReset,
       TargetsNamed, Building, Settled, OwnerByStep, RequestNamed
  <2>5. InstanceShape' /\ RefsBalanced'
    BY <1>a, <1>4, <2>a, <2>b, <2>c, Apart DEF wlanVars, boundVars, IInv,
       Types, BridgeTypes, ActorTypes, JobTypes, CardTypes, HandleOrNone,
       NameOrNone, InstSort, PeerSort, JobSort, NoInst, InstanceShape,
       RefsBalanced, JobOfHolder, ResetHolds, Building, SnapshotOfReset,
       OwnerByStep, Settled
  <2>6. OwnerByStep'
    BY <1>a, <1>4, <2>a, <2>b, <2>c, Apart DEF wlanVars, boundVars, IInv,
       Types, BridgeTypes, ActorTypes, JobTypes, CardTypes, HandleOrNone,
       NameOrNone, InstSort, JobSort, RstSort, NoInst, OwnerByStep, Settled,
       JobOfHolder, Building, SnapshotOfReset, ResetHolds, TargetsNamed,
       InstanceShape, BuildTarget
  <2>7. FailureKnown'
    BY <1>a, <1>4, <2>a, <2>b, <2>c, Apart DEF wlanVars, boundVars, IInv,
       Types, BridgeTypes, ActorTypes, JobTypes, CardTypes, HandleOrNone,
       NameOrNone, JobSort, PendingSort, FailureKnown, JobOfHolder, Building,
       OwnerByStep, Settled, Errors
  <2>8. GateClosed'
    BY <1>a, <1>4, <2>a, <2>b, <2>c, Apart DEF wlanVars, boundVars, IInv,
       Types, BridgeTypes, ActorTypes, JobTypes, CardTypes, HandleOrNone,
       NameOrNone, PendingSort, ActSort, RstSort, GateClosed, JobOfHolder,
       RequestNamed, ResetHolds, SnapshotOfReset, Building
  <2> QED
    BY <2>1, <2>2, <2>3, <2>4, <2>5, <2>6, <2>7, <2>8 DEF IInv
<1> QED
  BY <1>b, <1>1, <1>2, <1>3, <1>4

LEMMA RegisterPreserves ==
  ASSUME IInv, Register
  PROVE  IInv'
<1>a. /\ job.step = "register" /\ owner = NoHandle /\ inst.h = NoHandle
      /\ name[BuildTarget] # NoName
  BY DEF Register, IInv, OwnerByStep
<1>b. BuildTarget \in Handles
  BY <1>a, PhaseOfHolder DEF Building
<1>c. /\ inst' \in InstSort /\ inst'.h = BuildTarget /\ inst'.epoch = epoch[BuildTarget]
      /\ inst'.ref /\ ~inst'.released /\ ~inst'.work
  BY <1>b DEF Register, NoInst, InstSort, HandleOrNone, IInv, Types, CardTypes
<1>d. /\ job' \in JobSort /\ job'.step = "publish" /\ job'.phase = job.phase
      /\ job'.tgt = job.tgt /\ job'.old = job.old /\ job'.ret = job.ret
  BY DEF Register, IInv, Types, JobTypes, JobSort
<1>e. UNCHANGED <<lock, control, owner, suspended, pending, admitted, act, rst, wlanVars, peer,
                  boundVars, unload>>
  BY DEF Register
<1>f. ~inst.ref
  BY <1>a, DeinitTyped DEF IInv, InstanceShape
<1>1. Types'
  BY <1>a, <1>b, <1>c, <1>d, <1>e, <1>f, Apart DEF wlanVars, boundVars,
     IInv, Types, BridgeTypes, ActorTypes, JobTypes, CardTypes, HandleOrNone,
     NameOrNone, InstSort, PeerSort, PendingSort, ActSort, JobSort, RstSort,
     Errors
<1>2. RequestNamed'
  BY <1>a, <1>b, <1>c, <1>d, <1>e, <1>f, Apart DEF wlanVars, boundVars,
     IInv, Types, ActorTypes, RequestNamed, JobOfHolder, ActSort, PendingSort,
     Building
<1>3. JobOfHolder' /\ ResetHolds'
  BY <1>a, <1>b, <1>c, <1>d, <1>e, <1>f, Apart DEF wlanVars, boundVars,
     IInv, Types, BridgeTypes, ActorTypes, JobTypes, CardTypes, HandleOrNone,
     NameOrNone, JobSort, RstSort, JobOfHolder, ResetHolds, Building
<1>4. SnapshotOfReset' /\ TargetsNamed'
  BY <1>a, <1>b, <1>c, <1>d, <1>e, <1>f, Apart DEF wlanVars, boundVars,
     IInv, Types, BridgeTypes, ActorTypes, JobTypes, CardTypes, HandleOrNone,
     NameOrNone, JobSort, RstSort, JobOfHolder, ResetHolds, SnapshotOfReset,
     TargetsNamed, Building, Settled, OwnerByStep, RequestNamed
<1>5. InstanceShape' /\ RefsBalanced'
  BY <1>a, <1>b, <1>c, <1>d, <1>e, <1>f, Apart DEF wlanVars, boundVars,
     IInv, Types, BridgeTypes, ActorTypes, JobTypes, CardTypes, HandleOrNone,
     NameOrNone, InstSort, PeerSort, JobSort, NoInst, InstanceShape,
     RefsBalanced, JobOfHolder, ResetHolds, Building, SnapshotOfReset,
     OwnerByStep, Settled
<1>6. OwnerByStep'
  BY <1>a, <1>b, <1>c, <1>d, <1>e, <1>f, Apart DEF wlanVars, boundVars,
     IInv, Types, BridgeTypes, ActorTypes, JobTypes, CardTypes, HandleOrNone,
     NameOrNone, InstSort, JobSort, RstSort, NoInst, OwnerByStep, Settled,
     JobOfHolder, Building, SnapshotOfReset, ResetHolds, TargetsNamed,
     InstanceShape, BuildTarget
<1>7. FailureKnown'
  BY <1>a, <1>b, <1>c, <1>d, <1>e, <1>f, Apart DEF wlanVars, boundVars,
     IInv, Types, BridgeTypes, ActorTypes, JobTypes, CardTypes, HandleOrNone,
     NameOrNone, JobSort, PendingSort, FailureKnown, JobOfHolder, Building,
     OwnerByStep, Settled, Errors
<1>8. GateClosed'
  BY <1>a, <1>b, <1>c, <1>d, <1>e, <1>f, Apart DEF wlanVars, boundVars,
     IInv, Types, BridgeTypes, ActorTypes, JobTypes, CardTypes, HandleOrNone,
     NameOrNone, PendingSort, ActSort, RstSort, GateClosed, JobOfHolder,
     RequestNamed, ResetHolds, SnapshotOfReset, Building
<1> QED
  BY <1>1, <1>2, <1>3, <1>4, <1>5, <1>6, <1>7, <1>8 DEF IInv

LEMMA PublishPreserves ==
  ASSUME IInv, Publish
  PROVE  IInv'
<1>a. /\ job.step = "publish" /\ owner = NoHandle /\ inst.h = BuildTarget
      /\ inst.epoch = epoch[BuildTarget] /\ name[BuildTarget] # NoName
      /\ BuildTarget \in Handles /\ BuildTarget # NoHandle
  BY PhaseOfHolder, Apart DEF Publish, IInv, OwnerByStep, Building
<1>b. \/ InitFailed("ENODEV", NoInst, RefsAfterDeinit)
      \/ InitFailed("ENETDOWN", NoInst, RefsAfterDeinit)
      \/ /\ inst' = [inst EXCEPT !.published = TRUE, !.active = Usable(BuildTarget)]
         /\ \/ /\ job.phase \in {"switch", "rollback"}
               /\ job' = [job EXCEPT !.step = "validate"]
               /\ UNCHANGED <<lock, owner, pending, peer, rst>>
            \/ /\ job.phase = "resume"
               /\ owner' = BuildTarget /\ pending' = PendingKick(pending)
               /\ peer' = [peer EXCEPT !.refs = @ - 1]
               /\ Unlock /\ ResetOver
            \/ /\ job.phase = "load"
               /\ owner' = BuildTarget /\ pending' = PendingKick(pending)
               /\ Unlock /\ UNCHANGED <<peer, rst>>
         /\ UNCHANGED <<control, suspended, admitted, act, wlanVars, boundVars, unload>>
  BY DEF Publish
<1>1. CASE InitFailed("ENODEV", NoInst, RefsAfterDeinit)
  BY <1>a, <1>1, InitFailedPreserves
<1>2. CASE InitFailed("ENETDOWN", NoInst, RefsAfterDeinit)
  BY <1>a, <1>2, InitFailedPreserves
<1>3. ASSUME inst' = [inst EXCEPT !.published = TRUE, !.active = Usable(BuildTarget)],
             UNCHANGED <<control, suspended, admitted, act, wlanVars, boundVars, unload>>
      PROVE  /\ inst' \in InstSort /\ inst'.h = inst.h /\ inst'.epoch = inst.epoch
             /\ inst'.published /\ inst'.released = inst.released /\ inst'.work = inst.work
             /\ inst'.ref = inst.ref
  <2>1. Usable(BuildTarget) \in BOOLEAN
    BY <1>a DEF Usable, IInv, Types, BridgeTypes, PeerSort, CardTypes
  <2> QED
    BY <1>3, <2>1 DEF IInv, Types, BridgeTypes, InstSort
<1>c. NoJob \in JobSort /\ NoJob.step = "none" /\ NoJob.phase = "none" /\ NoJob.ret = "0"
  BY DEF NoJob, JobSort, HandleOrNone, NameOrNone, Errors
<1>d. PendingKick(pending) \in PendingSort /\ PendingKick(pending).on = pending.on
      /\ (PendingKick(pending).state # "none" =>
            pending.state # "none" /\ PendingKick(pending).name = pending.name)
      /\ (~pending.on /\ pending.state = "none" /\ ~pending.queued =>
            ~PendingKick(pending).queued)
  <2>1. pending \in PendingSort /\ NoName \in NameOrNone
    BY DEF IInv, Types, NameOrNone
  <2> QED
    BY <2>1, PendingOpsCalm DEF Calm
<1>4. ASSUME inst' = [inst EXCEPT !.published = TRUE, !.active = Usable(BuildTarget)],
             job.phase \in {"switch", "rollback"}, job' = [job EXCEPT !.step = "validate"],
             UNCHANGED <<lock, owner, pending, peer, rst>>,
             UNCHANGED <<control, suspended, admitted, act, wlanVars, boundVars, unload>>
      PROVE  IInv'
  <2>a. /\ inst' \in InstSort /\ inst'.h = inst.h /\ inst'.epoch = inst.epoch
        /\ inst'.published /\ inst'.released = inst.released /\ inst'.work = inst.work
        /\ inst'.ref = inst.ref
    BY <1>3, <1>4
  <2>b. /\ job' \in JobSort /\ job'.step = "validate" /\ job'.phase = job.phase
        /\ job'.tgt = job.tgt /\ job'.old = job.old /\ job'.ret = job.ret
    BY <1>4 DEF IInv, Types, JobTypes, JobSort
  <2>c. lock \in Actors
    BY <1>4, PhaseOfHolder
  <2>1. Types'
    BY <1>a, <1>4, <2>a, <2>b, <2>c, Apart DEF wlanVars, boundVars, IInv,
       Types, BridgeTypes, ActorTypes, JobTypes, CardTypes, HandleOrNone,
       NameOrNone, InstSort, PeerSort, PendingSort, ActSort, JobSort, RstSort,
       Errors
  <2>2. RequestNamed'
    BY <1>a, <1>4, <2>a, <2>b, <2>c, Apart DEF wlanVars, boundVars, IInv,
       Types, ActorTypes, RequestNamed, JobOfHolder, ActSort, PendingSort,
       Building
  <2>3. JobOfHolder' /\ ResetHolds'
    BY <1>a, <1>4, <2>a, <2>b, <2>c, Apart DEF wlanVars, boundVars, IInv,
       Types, BridgeTypes, ActorTypes, JobTypes, CardTypes, HandleOrNone,
       NameOrNone, JobSort, RstSort, JobOfHolder, ResetHolds, Building
  <2>4. SnapshotOfReset' /\ TargetsNamed'
    BY <1>a, <1>4, <2>a, <2>b, <2>c, Apart DEF wlanVars, boundVars, IInv,
       Types, BridgeTypes, ActorTypes, JobTypes, CardTypes, HandleOrNone,
       NameOrNone, JobSort, RstSort, JobOfHolder, ResetHolds, SnapshotOfReset,
       TargetsNamed, Building, Settled, OwnerByStep, RequestNamed
  <2>5. InstanceShape' /\ RefsBalanced'
    BY <1>a, <1>4, <2>a, <2>b, <2>c, Apart DEF wlanVars, boundVars, IInv,
       Types, BridgeTypes, ActorTypes, JobTypes, CardTypes, HandleOrNone,
       NameOrNone, InstSort, PeerSort, JobSort, NoInst, InstanceShape,
       RefsBalanced, JobOfHolder, ResetHolds, Building, SnapshotOfReset,
       OwnerByStep, Settled
  <2>6. OwnerByStep'
    BY <1>a, <1>4, <2>a, <2>b, <2>c, Apart DEF wlanVars, boundVars, IInv,
       Types, BridgeTypes, ActorTypes, JobTypes, CardTypes, HandleOrNone,
       NameOrNone, InstSort, JobSort, RstSort, NoInst, OwnerByStep, Settled,
       JobOfHolder, Building, SnapshotOfReset, ResetHolds, TargetsNamed,
       InstanceShape, BuildTarget
  <2>7. FailureKnown'
    BY <1>a, <1>4, <2>a, <2>b, <2>c, Apart DEF wlanVars, boundVars, IInv,
       Types, BridgeTypes, ActorTypes, JobTypes, CardTypes, HandleOrNone,
       NameOrNone, JobSort, PendingSort, FailureKnown, JobOfHolder, Building,
       OwnerByStep, Settled, Errors
  <2>8. GateClosed'
    BY <1>a, <1>4, <2>a, <2>b, <2>c, Apart DEF wlanVars, boundVars, IInv,
       Types, BridgeTypes, ActorTypes, JobTypes, CardTypes, HandleOrNone,
       NameOrNone, PendingSort, ActSort, RstSort, GateClosed, JobOfHolder,
       RequestNamed, ResetHolds, SnapshotOfReset, Building
  <2> QED
    BY <2>1, <2>2, <2>3, <2>4, <2>5, <2>6, <2>7, <2>8 DEF IInv
<1>5. ASSUME inst' = [inst EXCEPT !.published = TRUE, !.active = Usable(BuildTarget)],
             job.phase = "resume", owner' = BuildTarget, pending' = PendingKick(pending),
             peer' = [peer EXCEPT !.refs = @ - 1], Unlock, ResetOver,
             UNCHANGED <<control, suspended, admitted, act, wlanVars, boundVars, unload>>
      PROVE  IInv'
  <2>a. /\ inst' \in InstSort /\ inst'.h = inst.h /\ inst'.epoch = inst.epoch
        /\ inst'.published /\ inst'.released = inst.released /\ inst'.work = inst.work
        /\ inst'.ref = inst.ref
    BY <1>3, <1>5
  <2>b. lock = "reset" /\ rst.pc = "resume" /\ suspended = NoHandle
    BY <1>5, PhaseOfHolder DEF IInv, SnapshotOfReset
  <2>c. peer' \in PeerSort /\ peer'.reg = peer.reg /\ peer'.refs = peer.refs - 1
    BY <1>5 DEF IInv, Types, BridgeTypes, PeerSort
  <2>d. rst' \in RstSort /\ rst'.pc = "idle"
    BY <1>5 DEF ResetOver, RstSort, HandleOrNone
  <2>e. lock' = "free" /\ job' = NoJob
    BY <1>5 DEF Unlock
  <2>1. Types'
    BY <1>a, <1>c, <1>d, <1>5, <2>a, <2>b, <2>c, <2>d, <2>e, Apart DEF
       wlanVars, boundVars, IInv, Types, BridgeTypes, ActorTypes, JobTypes,
       CardTypes, HandleOrNone, NameOrNone, InstSort, PeerSort, PendingSort,
       ActSort, JobSort, RstSort, Errors
  <2>2. RequestNamed'
    BY <1>a, <1>c, <1>d, <1>5, <2>a, <2>b, <2>c, <2>d, <2>e, Apart DEF
       wlanVars, boundVars, IInv, Types, ActorTypes, RequestNamed, JobOfHolder,
       ActSort, PendingSort, Building
  <2>3. JobOfHolder' /\ ResetHolds'
    BY <1>a, <1>c, <1>d, <1>5, <2>a, <2>b, <2>c, <2>d, <2>e, Apart DEF
       wlanVars, boundVars, IInv, Types, BridgeTypes, ActorTypes, JobTypes,
       CardTypes, HandleOrNone, NameOrNone, JobSort, RstSort, JobOfHolder,
       ResetHolds, Building
  <2>4. SnapshotOfReset' /\ TargetsNamed'
    BY <1>a, <1>c, <1>d, <1>5, <2>a, <2>b, <2>c, <2>d, <2>e, Apart DEF
       wlanVars, boundVars, IInv, Types, BridgeTypes, ActorTypes, JobTypes,
       CardTypes, HandleOrNone, NameOrNone, JobSort, RstSort, JobOfHolder,
       ResetHolds, SnapshotOfReset, TargetsNamed, Building, Settled,
       OwnerByStep, RequestNamed
  <2>5. InstanceShape' /\ RefsBalanced'
    BY <1>a, <1>c, <1>d, <1>5, <2>a, <2>b, <2>c, <2>d, <2>e, Apart DEF
       wlanVars, boundVars, IInv, Types, BridgeTypes, ActorTypes, JobTypes,
       CardTypes, HandleOrNone, NameOrNone, InstSort, PeerSort, JobSort,
       NoInst, InstanceShape, RefsBalanced, JobOfHolder, ResetHolds, Building,
       SnapshotOfReset, OwnerByStep, Settled
  <2>6. OwnerByStep'
    BY <1>a, <1>c, <1>d, <1>5, <2>a, <2>b, <2>c, <2>d, <2>e, Apart DEF
       wlanVars, boundVars, IInv, Types, BridgeTypes, ActorTypes, JobTypes,
       CardTypes, HandleOrNone, NameOrNone, InstSort, JobSort, RstSort, NoInst,
       OwnerByStep, Settled, JobOfHolder, Building, SnapshotOfReset,
       ResetHolds, TargetsNamed, InstanceShape, BuildTarget
  <2>7. FailureKnown'
    BY <1>a, <1>c, <1>d, <1>5, <2>a, <2>b, <2>c, <2>d, <2>e, Apart DEF
       wlanVars, boundVars, IInv, Types, BridgeTypes, ActorTypes, JobTypes,
       CardTypes, HandleOrNone, NameOrNone, JobSort, PendingSort, FailureKnown,
       JobOfHolder, Building, OwnerByStep, Settled, Errors
  <2>8. GateClosed'
    BY <1>a, <1>c, <1>d, <1>5, <2>a, <2>b, <2>c, <2>d, <2>e, Apart DEF
       wlanVars, boundVars, IInv, Types, BridgeTypes, ActorTypes, JobTypes,
       CardTypes, HandleOrNone, NameOrNone, PendingSort, ActSort, RstSort,
       GateClosed, JobOfHolder, RequestNamed, ResetHolds, SnapshotOfReset,
       Building
  <2> QED
    BY <2>1, <2>2, <2>3, <2>4, <2>5, <2>6, <2>7, <2>8 DEF IInv
<1>6. ASSUME inst' = [inst EXCEPT !.published = TRUE, !.active = Usable(BuildTarget)],
             job.phase = "load", owner' = BuildTarget, pending' = PendingKick(pending),
             Unlock, UNCHANGED <<peer, rst>>,
             UNCHANGED <<control, suspended, admitted, act, wlanVars, boundVars, unload>>
      PROVE  IInv'
  <2>a. /\ inst' \in InstSort /\ inst'.h = inst.h /\ inst'.epoch = inst.epoch
        /\ inst'.published /\ inst'.released = inst.released /\ inst'.work = inst.work
        /\ inst'.ref = inst.ref
    BY <1>3, <1>6
  <2>b. lock = "card"
    BY <1>6, PhaseOfHolder
  <2>c. lock' = "free" /\ job' = NoJob
    BY <1>6 DEF Unlock
  <2>1. Types'
    BY <1>a, <1>c, <1>d, <1>6, <2>a, <2>b, <2>c, Apart DEF wlanVars,
       boundVars, IInv, Types, BridgeTypes, ActorTypes, JobTypes, CardTypes,
       HandleOrNone, NameOrNone, InstSort, PeerSort, PendingSort, ActSort,
       JobSort, RstSort, Errors
  <2>2. RequestNamed'
    BY <1>a, <1>c, <1>d, <1>6, <2>a, <2>b, <2>c, Apart DEF wlanVars,
       boundVars, IInv, Types, ActorTypes, RequestNamed, JobOfHolder, ActSort,
       PendingSort, Building
  <2>3. JobOfHolder' /\ ResetHolds'
    BY <1>a, <1>c, <1>d, <1>6, <2>a, <2>b, <2>c, Apart DEF wlanVars,
       boundVars, IInv, Types, BridgeTypes, ActorTypes, JobTypes, CardTypes,
       HandleOrNone, NameOrNone, JobSort, RstSort, JobOfHolder, ResetHolds,
       Building
  <2>4. SnapshotOfReset' /\ TargetsNamed'
    BY <1>a, <1>c, <1>d, <1>6, <2>a, <2>b, <2>c, Apart DEF wlanVars,
       boundVars, IInv, Types, BridgeTypes, ActorTypes, JobTypes, CardTypes,
       HandleOrNone, NameOrNone, JobSort, RstSort, JobOfHolder, ResetHolds,
       SnapshotOfReset, TargetsNamed, Building, Settled, OwnerByStep,
       RequestNamed
  <2>5. InstanceShape' /\ RefsBalanced'
    BY <1>a, <1>c, <1>d, <1>6, <2>a, <2>b, <2>c, Apart DEF wlanVars,
       boundVars, IInv, Types, BridgeTypes, ActorTypes, JobTypes, CardTypes,
       HandleOrNone, NameOrNone, InstSort, PeerSort, JobSort, NoInst,
       InstanceShape, RefsBalanced, JobOfHolder, ResetHolds, Building,
       SnapshotOfReset, OwnerByStep, Settled
  <2>6. OwnerByStep'
    BY <1>a, <1>c, <1>d, <1>6, <2>a, <2>b, <2>c, Apart DEF wlanVars,
       boundVars, IInv, Types, BridgeTypes, ActorTypes, JobTypes, CardTypes,
       HandleOrNone, NameOrNone, InstSort, JobSort, RstSort, NoInst,
       OwnerByStep, Settled, JobOfHolder, Building, SnapshotOfReset,
       ResetHolds, TargetsNamed, InstanceShape, BuildTarget
  <2>7. FailureKnown'
    BY <1>a, <1>c, <1>d, <1>6, <2>a, <2>b, <2>c, Apart DEF wlanVars,
       boundVars, IInv, Types, BridgeTypes, ActorTypes, JobTypes, CardTypes,
       HandleOrNone, NameOrNone, JobSort, PendingSort, FailureKnown,
       JobOfHolder, Building, OwnerByStep, Settled, Errors
  <2>8. GateClosed'
    BY <1>a, <1>c, <1>d, <1>6, <2>a, <2>b, <2>c, Apart DEF wlanVars,
       boundVars, IInv, Types, BridgeTypes, ActorTypes, JobTypes, CardTypes,
       HandleOrNone, NameOrNone, PendingSort, ActSort, RstSort, GateClosed,
       JobOfHolder, RequestNamed, ResetHolds, SnapshotOfReset, Building
  <2> QED
    BY <2>1, <2>2, <2>3, <2>4, <2>5, <2>6, <2>7, <2>8 DEF IInv
<1> QED
  BY <1>b, <1>1, <1>2, <1>4, <1>5, <1>6

LEMMA InvalidPreserves ==
  ASSUME IInv, Invalid
  PROVE  IInv'
<1>1. /\ job.step = "validate"
      /\ \/ InitFailed("ENETDOWN", NoInst, RefsAfterDeinit)
         \/ InitFailed("EBUSY", NoInst, RefsAfterDeinit)
  BY DEF Invalid
<1> QED
  BY <1>1, InitFailedPreserves

(* The owner is published again: the target of the switch or the old one. *)
LEMMA ValidatedPreserves ==
  ASSUME IInv, lock \in Actors, job.step = "validate", Calm(pending, pending'),
         owner' = BuildTarget,
         job'.ret = "0" \/ (job.phase = "rollback" /\ job'.ret = job.ret),
         job' \in JobSort, job'.step = "put", job'.phase = job.phase, job'.tgt = job.tgt,
         job'.old = job.old,
         UNCHANGED <<lock, control, inst, suspended, admitted, act, rst, wlanVars, peer,
                     boundVars, unload>>
  PROVE  IInv'
<1>a. /\ owner = NoHandle /\ inst.h = BuildTarget /\ inst.epoch = epoch[BuildTarget]
      /\ inst.published /\ BuildTarget \in Handles /\ job.phase \in {"switch", "rollback"}
  BY PhaseOfHolder, Apart DEF IInv, OwnerByStep, Building, JobOfHolder
<1>b. name[BuildTarget] # NoName /\ BuildTarget # NoHandle
  BY <1>a, Apart DEF IInv, TargetsNamed, BuildTarget
<1>c. pending' \in PendingSort /\ pending'.on = pending.on
      /\ (pending'.state # "none" => pending.state # "none" /\ pending'.name = pending.name)
      /\ (~pending.on /\ pending.state = "none" /\ ~pending.queued => ~pending'.queued)
  BY DEF Calm
<1>1. Types'
  BY <1>a, <1>b, <1>c, Apart DEF wlanVars, boundVars, IInv, Types,
     BridgeTypes, ActorTypes, JobTypes, CardTypes, HandleOrNone, NameOrNone,
     InstSort, PeerSort, PendingSort, ActSort, JobSort, RstSort, Errors
<1>2. RequestNamed'
  BY <1>a, <1>b, <1>c, Apart DEF wlanVars, boundVars, IInv, Types,
     ActorTypes, RequestNamed, JobOfHolder, ActSort, PendingSort, Building
<1>3. JobOfHolder' /\ ResetHolds'
  BY <1>a, <1>b, <1>c, Apart DEF wlanVars, boundVars, IInv, Types,
     BridgeTypes, ActorTypes, JobTypes, CardTypes, HandleOrNone, NameOrNone,
     JobSort, RstSort, JobOfHolder, ResetHolds, Building
<1>4. SnapshotOfReset' /\ TargetsNamed'
  BY <1>a, <1>b, <1>c, Apart DEF wlanVars, boundVars, IInv, Types,
     BridgeTypes, ActorTypes, JobTypes, CardTypes, HandleOrNone, NameOrNone,
     JobSort, RstSort, JobOfHolder, ResetHolds, SnapshotOfReset, TargetsNamed,
     Building, Settled, OwnerByStep, RequestNamed
<1>5. InstanceShape' /\ RefsBalanced'
  BY <1>a, <1>b, <1>c, Apart DEF wlanVars, boundVars, IInv, Types,
     BridgeTypes, ActorTypes, JobTypes, CardTypes, HandleOrNone, NameOrNone,
     InstSort, PeerSort, JobSort, NoInst, InstanceShape, RefsBalanced,
     JobOfHolder, ResetHolds, Building, SnapshotOfReset, OwnerByStep, Settled
<1>6. OwnerByStep'
  BY <1>a, <1>b, <1>c, Apart DEF wlanVars, boundVars, IInv, Types,
     BridgeTypes, ActorTypes, JobTypes, CardTypes, HandleOrNone, NameOrNone,
     InstSort, JobSort, RstSort, NoInst, OwnerByStep, Settled, JobOfHolder,
     Building, SnapshotOfReset, ResetHolds, TargetsNamed, InstanceShape,
     BuildTarget
<1>7. FailureKnown'
  BY <1>a, <1>b, <1>c, Apart DEF BuildTarget, wlanVars, boundVars, IInv,
     Types, BridgeTypes, ActorTypes, JobTypes, CardTypes, HandleOrNone,
     NameOrNone, JobSort, PendingSort, FailureKnown, JobOfHolder, Building,
     OwnerByStep, Settled, Errors
<1>8. GateClosed'
  BY <1>a, <1>b, <1>c, Apart DEF wlanVars, boundVars, IInv, Types,
     BridgeTypes, ActorTypes, JobTypes, CardTypes, HandleOrNone, NameOrNone,
     PendingSort, ActSort, RstSort, GateClosed, JobOfHolder, RequestNamed,
     ResetHolds, SnapshotOfReset, Building
<1> QED
  BY <1>1, <1>2, <1>3, <1>4, <1>5, <1>6, <1>7, <1>8 DEF IInv

LEMMA CommitPreserves ==
  ASSUME IInv, NEW a \in Actors, Commit(a)
  PROVE  IInv'
<1>1. Calm(pending, pending')
  <2>1. pending \in PendingSort /\ job.snapName \in NameOrNone
    BY DEF IInv, Types, JobTypes, JobSort
  <2>2. Calm(pending, pending)
        /\ Calm(pending, PendingClearIf(pending, job.snapName, job.snapGen))
    BY <2>1, PendingOpsCalm
  <2> QED
    BY <2>2 DEF Commit
<1>2. /\ job' \in JobSort /\ job'.step = "put" /\ job'.phase = job.phase
      /\ job'.tgt = job.tgt /\ job'.old = job.old /\ job'.ret = "0"
  BY DEF Commit, IInv, Types, JobTypes, JobSort, Errors
<1>3. owner' = BuildTarget
  BY DEF Commit, BuildTarget
<1> QED
  BY <1>1, <1>2, <1>3, ValidatedPreserves DEF Commit

LEMMA RolledBackPreserves ==
  ASSUME IInv, NEW a \in Actors, RolledBack(a)
  PROVE  IInv'
<1>1. Calm(pending, pending')
  <2>1. pending \in PendingSort /\ act[a].name \in NameOrNone
    BY DEF IInv, Types, ActorTypes, ActSort
  <2>2. Calm(pending, PendingKick(pending))
        /\ Calm(pending, PendingRestoreWaiting(pending, act[a].name, act[a].gen))
    BY <2>1, PendingOpsCalm
  <2> QED
    BY <2>2 DEF RolledBack
<1>2. /\ job' \in JobSort /\ job'.step = "put" /\ job'.phase = job.phase
      /\ job'.tgt = job.tgt /\ job'.old = job.old /\ job'.ret = job.ret
  BY DEF RolledBack, IInv, Types, JobTypes, JobSort
<1>3. owner' = BuildTarget /\ job.phase = "rollback"
  BY DEF RolledBack, BuildTarget
<1> QED
  BY <1>1, <1>2, <1>3, ValidatedPreserves DEF RolledBack

(* Every step of the transaction. *)
LEMMA TransactionPreserves == IInv /\ Transaction => IInv'
BY TeardownPreserves, HoldPeerPreserves, RegisterPreserves, PublishPreserves, InvalidPreserves,
   CommitPreserves, RolledBackPreserves DEF Transaction

-----------------------------------------------------------------------------
(* The reset paths. *)
LEMMA ResetSuspendPreserves ==
  ASSUME IInv, NEW h \in Handles, NEW kind \in {"flr", "reload"}, ResetSuspend(h, kind)
  PROVE  IInv'
<1>a. /\ lock = "free" /\ rst.pc = "idle" /\ unload # "done" /\ lock' = "reset"
      /\ rst' = [pc |-> "destroy", h |-> h, kind |-> kind]
      /\ hw' = [hw EXCEPT ![h] = FALSE] /\ rebuilds' = rebuilds + 1
      /\ UNCHANGED <<control, pending, admitted, act, job, name, epoch, ready, edge, writes,
                     faults, unload>>
  BY DEF ResetSuspend
<1>b. /\ job.step = "none" /\ job.phase = "none" /\ suspended = NoHandle
      /\ owner = inst.h
      /\ owner # NoHandle => inst.published /\ inst.epoch = epoch[owner] /\ name[owner] # NoName
  BY <1>a DEF IInv, JobOfHolder, SnapshotOfReset, OwnerByStep, Settled
<1>c. /\ rst' \in RstSort /\ rst'.pc = "destroy" /\ rst'.h = h /\ rst'.kind = kind
      /\ hw' \in [Handles -> BOOLEAN] /\ rebuilds' \in Nat
  BY <1>a DEF RstSort, HandleOrNone, IInv, Types, CardTypes
<1>1. CASE ResetConcerns(h, kind)
  <2>a. /\ suspended' = owner /\ owner' = NoHandle /\ inst' = NoInst
        /\ peer' = [peer EXCEPT !.refs = RefsAfterDeinit + 1]
        /\ owner # NoHandle /\ (kind = "flr" => owner = h)
    BY <1>1 DEF ResetSuspend, ResetConcerns
  <2>b. peer' \in PeerSort /\ peer'.reg = peer.reg
        /\ peer'.refs = peer.refs - (IF inst.ref THEN 1 ELSE 0) + 1
    <3>1. peer' = [peer EXCEPT !.refs = RefsAfterDeinit + 1]
      BY <2>a
    <3> QED
      BY <3>1, DeinitTyped DEF IInv, Types, BridgeTypes, PeerSort
  <2>1. Types'
    BY <1>a, <1>b, <1>c, <2>a, <2>b, DeinitTyped, Apart DEF wlanVars,
       boundVars, IInv, Types, BridgeTypes, ActorTypes, JobTypes, CardTypes,
       HandleOrNone, NameOrNone, InstSort, PeerSort, PendingSort, ActSort,
       JobSort, RstSort, Errors
  <2>2. RequestNamed'
    BY <1>a, <1>b, <1>c, <2>a, <2>b, DeinitTyped, Apart DEF wlanVars,
       boundVars, IInv, Types, ActorTypes, RequestNamed, JobOfHolder, ActSort,
       PendingSort, Building
  <2>3. JobOfHolder' /\ ResetHolds'
    BY <1>a, <1>b, <1>c, <2>a, <2>b, DeinitTyped, Apart DEF wlanVars,
       boundVars, IInv, Types, BridgeTypes, ActorTypes, JobTypes, CardTypes,
       HandleOrNone, NameOrNone, JobSort, RstSort, JobOfHolder, ResetHolds,
       Building
  <2>4. SnapshotOfReset' /\ TargetsNamed'
    BY <1>a, <1>b, <1>c, <2>a, <2>b, DeinitTyped, Apart DEF wlanVars,
       boundVars, IInv, Types, BridgeTypes, ActorTypes, JobTypes, CardTypes,
       HandleOrNone, NameOrNone, JobSort, RstSort, JobOfHolder, ResetHolds,
       SnapshotOfReset, TargetsNamed, Building, Settled, OwnerByStep,
       RequestNamed
  <2>5. InstanceShape' /\ RefsBalanced'
    BY <1>a, <1>b, <1>c, <2>a, <2>b, DeinitTyped, Apart DEF wlanVars,
       boundVars, IInv, Types, BridgeTypes, ActorTypes, JobTypes, CardTypes,
       HandleOrNone, NameOrNone, InstSort, PeerSort, JobSort, NoInst,
       InstanceShape, RefsBalanced, JobOfHolder, ResetHolds, Building,
       SnapshotOfReset, OwnerByStep, Settled
  <2>6. OwnerByStep'
    BY <1>a, <1>b, <1>c, <2>a, <2>b, DeinitTyped, Apart DEF wlanVars,
       boundVars, IInv, Types, BridgeTypes, ActorTypes, JobTypes, CardTypes,
       HandleOrNone, NameOrNone, InstSort, JobSort, RstSort, NoInst,
       OwnerByStep, Settled, JobOfHolder, Building, SnapshotOfReset,
       ResetHolds, TargetsNamed, InstanceShape, BuildTarget
  <2>7. FailureKnown'
    BY <1>a, <1>b, <1>c, <2>a, <2>b, DeinitTyped, Apart DEF wlanVars,
       boundVars, IInv, Types, BridgeTypes, ActorTypes, JobTypes, CardTypes,
       HandleOrNone, NameOrNone, JobSort, PendingSort, FailureKnown,
       JobOfHolder, Building, OwnerByStep, Settled, Errors
  <2>8. GateClosed'
    BY <1>a, <1>b, <1>c, <2>a, <2>b, DeinitTyped, Apart DEF wlanVars,
       boundVars, IInv, Types, BridgeTypes, ActorTypes, JobTypes, CardTypes,
       HandleOrNone, NameOrNone, PendingSort, ActSort, RstSort, GateClosed,
       JobOfHolder, RequestNamed, ResetHolds, SnapshotOfReset, Building
  <2> QED
    BY <2>1, <2>2, <2>3, <2>4, <2>5, <2>6, <2>7, <2>8 DEF IInv
<1>2. CASE ~ResetConcerns(h, kind)
  <2>a. /\ UNCHANGED <<suspended, owner, inst, peer>>
        /\ owner # h
    BY <1>2, Apart DEF ResetSuspend, ResetConcerns
  <2>1. Types'
    BY <1>a, <1>b, <1>c, <2>a, Apart DEF wlanVars, boundVars, IInv, Types,
       BridgeTypes, ActorTypes, JobTypes, CardTypes, HandleOrNone, NameOrNone,
       InstSort, PeerSort, PendingSort, ActSort, JobSort, RstSort, Errors
  <2>2. RequestNamed'
    BY <1>a, <1>b, <1>c, <2>a, Apart DEF wlanVars, boundVars, IInv, Types,
       ActorTypes, RequestNamed, JobOfHolder, ActSort, PendingSort, Building
  <2>3. JobOfHolder' /\ ResetHolds'
    BY <1>a, <1>b, <1>c, <2>a, Apart DEF wlanVars, boundVars, IInv, Types,
       BridgeTypes, ActorTypes, JobTypes, CardTypes, HandleOrNone, NameOrNone,
       JobSort, RstSort, JobOfHolder, ResetHolds, Building
  <2>4. SnapshotOfReset' /\ TargetsNamed'
    BY <1>a, <1>b, <1>c, <2>a, Apart DEF wlanVars, boundVars, IInv, Types,
       BridgeTypes, ActorTypes, JobTypes, CardTypes, HandleOrNone, NameOrNone,
       JobSort, RstSort, JobOfHolder, ResetHolds, SnapshotOfReset,
       TargetsNamed, Building, Settled, OwnerByStep, RequestNamed
  <2>5. InstanceShape' /\ RefsBalanced'
    BY <1>a, <1>b, <1>c, <2>a, Apart DEF wlanVars, boundVars, IInv, Types,
       BridgeTypes, ActorTypes, JobTypes, CardTypes, HandleOrNone, NameOrNone,
       InstSort, PeerSort, JobSort, NoInst, InstanceShape, RefsBalanced,
       JobOfHolder, ResetHolds, Building, SnapshotOfReset, OwnerByStep, Settled
  <2>6. OwnerByStep'
    BY <1>a, <1>b, <1>c, <2>a, Apart DEF wlanVars, boundVars, IInv, Types,
       BridgeTypes, ActorTypes, JobTypes, CardTypes, HandleOrNone, NameOrNone,
       InstSort, JobSort, RstSort, NoInst, OwnerByStep, Settled, JobOfHolder,
       Building, SnapshotOfReset, ResetHolds, TargetsNamed, InstanceShape,
       BuildTarget
  <2>7. FailureKnown'
    BY <1>a, <1>b, <1>c, <2>a, Apart DEF wlanVars, boundVars, IInv, Types,
       BridgeTypes, ActorTypes, JobTypes, CardTypes, HandleOrNone, NameOrNone,
       JobSort, PendingSort, FailureKnown, JobOfHolder, Building, OwnerByStep,
       Settled, Errors
  <2>8. GateClosed'
    BY <1>a, <1>b, <1>c, <2>a, Apart DEF wlanVars, boundVars, IInv, Types,
       BridgeTypes, ActorTypes, JobTypes, CardTypes, HandleOrNone, NameOrNone,
       PendingSort, ActSort, RstSort, GateClosed, JobOfHolder, RequestNamed,
       ResetHolds, SnapshotOfReset, Building
  <2> QED
    BY <2>1, <2>2, <2>3, <2>4, <2>5, <2>6, <2>7, <2>8 DEF IInv
<1> QED
  BY <1>1, <1>2

LEMMA ResetRefusedPreserves ==
  ASSUME IInv, NEW h \in Handles, NEW kind \in {"flr", "reload"}, ResetRefused(h, kind)
  PROVE  IInv'
<1>a. /\ lock = "free" /\ rebuilds' = rebuilds + 1
      /\ UNCHANGED <<lock, control, suspended, pending, admitted, act, job, rst, name, epoch,
                     ready, edge, writes, faults, unload>>
  BY DEF ResetRefused
<1>b. job.step = "none" /\ job.phase = "none" /\ rebuilds' \in Nat
  BY <1>a DEF IInv, JobOfHolder, Types, CardTypes
<1>1. CASE kind = "flr"
  <2>a. /\ hw' = [hw EXCEPT ![h] = FALSE]
        /\ owner' = NoHandle /\ inst' = NoInst
        /\ peer' = [peer EXCEPT !.refs = RefsAfterDeinit]
    BY <1>1 DEF ResetRefused
  <2>b. peer' \in PeerSort /\ peer'.reg = peer.reg
        /\ peer'.refs = peer.refs - (IF inst.ref THEN 1 ELSE 0)
        /\ hw' \in [Handles -> BOOLEAN]
    BY <2>a, DeinitTyped DEF IInv, Types, BridgeTypes, PeerSort, CardTypes
  <2>1. Types'
    BY <1>a, <1>b, <2>a, <2>b, DeinitTyped, Apart DEF wlanVars, boundVars,
       IInv, Types, BridgeTypes, ActorTypes, JobTypes, CardTypes, HandleOrNone,
       NameOrNone, InstSort, PeerSort, PendingSort, ActSort, JobSort, RstSort,
       Errors
  <2>2. RequestNamed'
    BY <1>a, <1>b, <2>a, <2>b, DeinitTyped, Apart DEF wlanVars, boundVars,
       IInv, Types, ActorTypes, RequestNamed, JobOfHolder, ActSort,
       PendingSort, Building
  <2>3. JobOfHolder' /\ ResetHolds'
    BY <1>a, <1>b, <2>a, <2>b, DeinitTyped, Apart DEF wlanVars, boundVars,
       IInv, Types, BridgeTypes, ActorTypes, JobTypes, CardTypes, HandleOrNone,
       NameOrNone, JobSort, RstSort, JobOfHolder, ResetHolds, Building
  <2>4. SnapshotOfReset' /\ TargetsNamed'
    BY <1>a, <1>b, <2>a, <2>b, DeinitTyped, Apart DEF wlanVars, boundVars,
       IInv, Types, BridgeTypes, ActorTypes, JobTypes, CardTypes, HandleOrNone,
       NameOrNone, JobSort, RstSort, JobOfHolder, ResetHolds, SnapshotOfReset,
       TargetsNamed, Building, Settled, OwnerByStep, RequestNamed
  <2>5. InstanceShape' /\ RefsBalanced'
    BY <1>a, <1>b, <2>a, <2>b, DeinitTyped, Apart DEF wlanVars, boundVars,
       IInv, Types, BridgeTypes, ActorTypes, JobTypes, CardTypes, HandleOrNone,
       NameOrNone, InstSort, PeerSort, JobSort, NoInst, InstanceShape,
       RefsBalanced, JobOfHolder, ResetHolds, Building, SnapshotOfReset,
       OwnerByStep, Settled
  <2>6. OwnerByStep'
    BY <1>a, <1>b, <2>a, <2>b, DeinitTyped, Apart DEF wlanVars, boundVars,
       IInv, Types, BridgeTypes, ActorTypes, JobTypes, CardTypes, HandleOrNone,
       NameOrNone, InstSort, JobSort, RstSort, NoInst, OwnerByStep, Settled,
       JobOfHolder, Building, SnapshotOfReset, ResetHolds, TargetsNamed,
       InstanceShape, BuildTarget
  <2>7. FailureKnown'
    BY <1>a, <1>b, <2>a, <2>b, DeinitTyped, Apart DEF wlanVars, boundVars,
       IInv, Types, BridgeTypes, ActorTypes, JobTypes, CardTypes, HandleOrNone,
       NameOrNone, JobSort, PendingSort, FailureKnown, JobOfHolder, Building,
       OwnerByStep, Settled, Errors
  <2>8. GateClosed'
    BY <1>a, <1>b, <2>a, <2>b, DeinitTyped, Apart DEF wlanVars, boundVars,
       IInv, Types, BridgeTypes, ActorTypes, JobTypes, CardTypes, HandleOrNone,
       NameOrNone, PendingSort, ActSort, RstSort, GateClosed, JobOfHolder,
       RequestNamed, ResetHolds, SnapshotOfReset, Building
  <2> QED
    BY <2>1, <2>2, <2>3, <2>4, <2>5, <2>6, <2>7, <2>8 DEF IInv
<1>2. CASE kind # "flr"
  <2>a. UNCHANGED <<hw, owner, inst, peer>>
    BY <1>2 DEF ResetRefused
  <2>1. Types'
    BY <1>a, <1>b, <2>a, Apart DEF wlanVars, boundVars, IInv, Types,
       BridgeTypes, ActorTypes, JobTypes, CardTypes, HandleOrNone, NameOrNone,
       InstSort, PeerSort, PendingSort, ActSort, JobSort, RstSort, Errors
  <2>2. RequestNamed'
    BY <1>a, <1>b, <2>a, Apart DEF wlanVars, boundVars, IInv, Types,
       ActorTypes, RequestNamed, JobOfHolder, ActSort, PendingSort, Building
  <2>3. JobOfHolder' /\ ResetHolds'
    BY <1>a, <1>b, <2>a, Apart DEF wlanVars, boundVars, IInv, Types,
       BridgeTypes, ActorTypes, JobTypes, CardTypes, HandleOrNone, NameOrNone,
       JobSort, RstSort, JobOfHolder, ResetHolds, Building
  <2>4. SnapshotOfReset' /\ TargetsNamed'
    BY <1>a, <1>b, <2>a, Apart DEF wlanVars, boundVars, IInv, Types,
       BridgeTypes, ActorTypes, JobTypes, CardTypes, HandleOrNone, NameOrNone,
       JobSort, RstSort, JobOfHolder, ResetHolds, SnapshotOfReset,
       TargetsNamed, Building, Settled, OwnerByStep, RequestNamed
  <2>5. InstanceShape' /\ RefsBalanced'
    BY <1>a, <1>b, <2>a, Apart DEF wlanVars, boundVars, IInv, Types,
       BridgeTypes, ActorTypes, JobTypes, CardTypes, HandleOrNone, NameOrNone,
       InstSort, PeerSort, JobSort, NoInst, InstanceShape, RefsBalanced,
       JobOfHolder, ResetHolds, Building, SnapshotOfReset, OwnerByStep, Settled
  <2>6. OwnerByStep'
    BY <1>a, <1>b, <2>a, Apart DEF wlanVars, boundVars, IInv, Types,
       BridgeTypes, ActorTypes, JobTypes, CardTypes, HandleOrNone, NameOrNone,
       InstSort, JobSort, RstSort, NoInst, OwnerByStep, Settled, JobOfHolder,
       Building, SnapshotOfReset, ResetHolds, TargetsNamed, InstanceShape,
       BuildTarget
  <2>7. FailureKnown'
    BY <1>a, <1>b, <2>a, Apart DEF wlanVars, boundVars, IInv, Types,
       BridgeTypes, ActorTypes, JobTypes, CardTypes, HandleOrNone, NameOrNone,
       JobSort, PendingSort, FailureKnown, JobOfHolder, Building, OwnerByStep,
       Settled, Errors
  <2>8. GateClosed'
    BY <1>a, <1>b, <2>a, Apart DEF wlanVars, boundVars, IInv, Types,
       BridgeTypes, ActorTypes, JobTypes, CardTypes, HandleOrNone, NameOrNone,
       PendingSort, ActSort, RstSort, GateClosed, JobOfHolder, RequestNamed,
       ResetHolds, SnapshotOfReset, Building
  <2> QED
    BY <2>1, <2>2, <2>3, <2>4, <2>5, <2>6, <2>7, <2>8 DEF IInv
<1> QED
  BY <1>1, <1>2

(* The netdev of h goes: what moal_bridge_pending_invalidate_handle and    *)
(* the notifier do to the request is calm.                                 *)
LEMMA InvalidateCalm ==
  ASSUME IInv, NEW h \in Handles, NEW Q, Calm(pending, Q)
  PROVE  /\ Calm(pending, PendingUnregistered(Q, name[h]))
         /\ Calm(pending, PendingClearIf(pending, name[h], pending.gen))
         /\ Calm(pending, PendingUnregistered(PendingClearIf(pending, name[h], pending.gen),
                                              name[h]))
<1>1. pending \in PendingSort /\ name[h] \in NameOrNone
  BY DEF IInv, Types, CardTypes
<1>2. Q \in PendingSort
  BY DEF Calm
<1>3. Calm(Q, PendingUnregistered(Q, name[h]))
  BY <1>1, <1>2, PendingOpsCalm
<1>4. Calm(pending, PendingClearIf(pending, name[h], pending.gen))
  BY <1>1, PendingOpsCalm
<1>5. PendingClearIf(pending, name[h], pending.gen) \in PendingSort
  BY <1>4 DEF Calm
<1>6. Calm(PendingClearIf(pending, name[h], pending.gen),
           PendingUnregistered(PendingClearIf(pending, name[h], pending.gen), name[h]))
  BY <1>1, <1>5, PendingOpsCalm
<1> QED
  BY <1>1, <1>3, <1>4, <1>6, CalmTransitive

LEMMA ResetDestroyPreserves ==
  ASSUME IInv, ResetDestroy
  PROVE  IInv'
<1>a. /\ rst.pc = "destroy" /\ lock = "reset"
      /\ pending' = PendingUnregistered(PendingClearIf(pending, name[rst.h], pending.gen),
                                        name[rst.h])
      /\ name' = [name EXCEPT ![rst.h] = NoName]
      /\ ready' = [ready EXCEPT ![rst.h] = FALSE] /\ edge' = [edge EXCEPT ![rst.h] = FALSE]
      /\ rst' = [rst EXCEPT !.pc = "down"]
      /\ lock' = IF rst.kind = "flr" THEN "free" ELSE lock
      /\ UNCHANGED <<control, owner, inst, suspended, admitted, act, job, epoch, hw, peer,
                     boundVars, unload>>
  BY DEF ResetDestroy
<1>b. /\ rst.h \in Handles /\ rst.kind \in {"flr", "reload"} /\ owner # rst.h
      /\ job.step = "none" /\ job.phase = "none" /\ unload # "done"
  BY <1>a DEF IInv, ResetHolds, JobOfHolder, SnapshotOfReset, GateClosed
<1>c. Calm(pending, pending')
  <2>1. Calm(pending, pending)
    BY DEF IInv, Types, Calm, PendingSort
  <2> QED
    BY <1>a, <1>b, <2>1, InvalidateCalm
<1>d. pending' \in PendingSort /\ pending'.on = pending.on
      /\ (pending'.state # "none" => pending.state # "none" /\ pending'.name = pending.name)
      /\ (~pending.on /\ pending.state = "none" /\ ~pending.queued => ~pending'.queued)
  BY <1>c DEF Calm
<1>e. /\ name' \in [Handles -> NameOrNone] /\ name'[rst.h] = NoName
      /\ \A g \in Handles : g # rst.h => name'[g] = name[g]
      /\ ready' \in [Handles -> BOOLEAN] /\ edge' \in [Handles -> BOOLEAN]
  BY <1>a, <1>b DEF IInv, Types, CardTypes, NameOrNone
<1>f. rst' \in RstSort /\ rst'.pc = "down" /\ rst'.h = rst.h /\ rst'.kind = rst.kind
  BY <1>a DEF IInv, Types, JobTypes, RstSort
<1>g. lock' \in {"free", "reset"} /\ (lock' = "reset" <=> rst.kind = "reload")
  BY <1>a, <1>b
<1>h. UNCHANGED <<control, owner, inst, suspended, admitted, act, job, epoch, hw, peer,
                  boundVars, unload>>
  BY <1>a
<1>1. Types'
  BY <1>b, <1>d, <1>e, <1>f, <1>g, <1>h, Apart DEF wlanVars, boundVars,
     IInv, Types, BridgeTypes, ActorTypes, JobTypes, CardTypes, HandleOrNone,
     NameOrNone, InstSort, PeerSort, PendingSort, ActSort, JobSort, RstSort,
     Errors
<1>2. RequestNamed'
  BY <1>b, <1>d, <1>e, <1>f, <1>g, <1>h, Apart DEF wlanVars, boundVars,
     IInv, Types, ActorTypes, RequestNamed, JobOfHolder, ActSort, PendingSort,
     Building
<1>3. JobOfHolder' /\ ResetHolds'
  BY <1>b, <1>d, <1>e, <1>f, <1>g, <1>h, Apart DEF wlanVars, boundVars,
     IInv, Types, BridgeTypes, ActorTypes, JobTypes, CardTypes, HandleOrNone,
     NameOrNone, JobSort, RstSort, JobOfHolder, ResetHolds, Building
<1>4. SnapshotOfReset' /\ TargetsNamed'
  BY <1>b, <1>d, <1>e, <1>f, <1>g, <1>h, <1>a, Apart DEF wlanVars,
     boundVars, IInv, Types, BridgeTypes, ActorTypes, JobTypes, CardTypes,
     HandleOrNone, NameOrNone, JobSort, RstSort, JobOfHolder, ResetHolds,
     SnapshotOfReset, TargetsNamed, Building, Settled, OwnerByStep,
     RequestNamed
<1>5. InstanceShape' /\ RefsBalanced'
  BY <1>b, <1>d, <1>e, <1>f, <1>g, <1>h, Apart DEF wlanVars, boundVars,
     IInv, Types, BridgeTypes, ActorTypes, JobTypes, CardTypes, HandleOrNone,
     NameOrNone, InstSort, PeerSort, JobSort, NoInst, InstanceShape,
     RefsBalanced, JobOfHolder, ResetHolds, Building, SnapshotOfReset,
     OwnerByStep, Settled
<1>6. OwnerByStep'
  BY <1>b, <1>d, <1>e, <1>f, <1>g, <1>h, Apart DEF wlanVars, boundVars,
     IInv, Types, BridgeTypes, ActorTypes, JobTypes, CardTypes, HandleOrNone,
     NameOrNone, InstSort, JobSort, RstSort, NoInst, OwnerByStep, Settled,
     JobOfHolder, Building, SnapshotOfReset, ResetHolds, TargetsNamed,
     InstanceShape, BuildTarget
<1>7. FailureKnown'
  BY <1>b, <1>d, <1>e, <1>f, <1>g, <1>h, Apart DEF wlanVars, boundVars,
     IInv, Types, BridgeTypes, ActorTypes, JobTypes, CardTypes, HandleOrNone,
     NameOrNone, JobSort, PendingSort, FailureKnown, JobOfHolder, Building,
     OwnerByStep, Settled, Errors
<1>8. GateClosed'
  BY <1>b, <1>d, <1>e, <1>f, <1>g, <1>h, <1>a, Apart DEF wlanVars,
     boundVars, IInv, Types, BridgeTypes, ActorTypes, JobTypes, CardTypes,
     HandleOrNone, NameOrNone, PendingSort, ActSort, RstSort, GateClosed,
     JobOfHolder, RequestNamed, ResetHolds, SnapshotOfReset, Building
<1> QED
  BY <1>1, <1>2, <1>3, <1>4, <1>5, <1>6, <1>7, <1>8 DEF IInv

LEMMA ResetRebuildPreserves ==
  ASSUME IInv, NEW n \in Names, ResetRebuild(n)
  PROVE  IInv'
<1>a. /\ rst.pc = "down" /\ lock \in {"free", "reset"} /\ lock' = "reset" /\ unload # "done"
      /\ name' = [name EXCEPT ![rst.h] = n]
      /\ epoch' = [epoch EXCEPT ![rst.h] = @ + 1]
      /\ hw' = [hw EXCEPT ![rst.h] = TRUE]
      /\ rst' = [rst EXCEPT !.pc = "rebuilt"]
      /\ UNCHANGED <<control, owner, inst, suspended, pending, admitted, act, job, ready, edge,
                     peer, boundVars, unload>>
  BY DEF ResetRebuild
<1>b. /\ rst.h \in Handles /\ rst.kind \in {"flr", "reload"} /\ name[rst.h] = NoName
      /\ job.step = "none" /\ job.phase = "none"
  BY <1>a DEF IInv, ResetHolds, JobOfHolder, SnapshotOfReset
<1>c. /\ owner = inst.h /\ owner # rst.h
      /\ owner # NoHandle => inst.published /\ inst.epoch = epoch[owner] /\ name[owner] # NoName
  BY <1>b, Apart DEF IInv, OwnerByStep, Settled
<1>d. /\ name' \in [Handles -> NameOrNone] /\ name'[rst.h] = n
      /\ \A g \in Handles : g # rst.h => name'[g] = name[g] /\ epoch'[g] = epoch[g]
      /\ hw' \in [Handles -> BOOLEAN]
  BY <1>a, <1>b DEF IInv, Types, CardTypes, NameOrNone
<1>e. epoch' \in [Handles -> Nat]
  BY <1>a, <1>b DEF IInv, Types, CardTypes
<1>f. rst' \in RstSort /\ rst'.pc = "rebuilt" /\ rst'.h = rst.h /\ rst'.kind = rst.kind
  BY <1>a DEF IInv, Types, JobTypes, RstSort
<1>g. owner \in HandleOrNone
  BY DEF IInv, Types, BridgeTypes
<1>h. UNCHANGED <<control, owner, inst, suspended, pending, admitted, act, job, ready, edge,
                  peer, boundVars, unload>>
  BY <1>a
<1>1. Types'
  BY <1>b, <1>c, <1>d, <1>e, <1>f, <1>g, <1>h, <1>a, Apart DEF wlanVars,
     boundVars, IInv, Types, BridgeTypes, ActorTypes, JobTypes, CardTypes,
     HandleOrNone, NameOrNone, InstSort, PeerSort, PendingSort, ActSort,
     JobSort, RstSort, Errors
<1>2. RequestNamed'
  BY <1>b, <1>c, <1>d, <1>e, <1>f, <1>g, <1>h, <1>a, Apart DEF wlanVars,
     boundVars, IInv, Types, ActorTypes, RequestNamed, JobOfHolder, ActSort,
     PendingSort, Building
<1>3. JobOfHolder' /\ ResetHolds'
  BY <1>b, <1>c, <1>d, <1>e, <1>f, <1>g, <1>h, <1>a, Apart DEF wlanVars,
     boundVars, IInv, Types, BridgeTypes, ActorTypes, JobTypes, CardTypes,
     HandleOrNone, NameOrNone, JobSort, RstSort, JobOfHolder, ResetHolds,
     Building
<1>4. SnapshotOfReset' /\ TargetsNamed'
  BY <1>b, <1>c, <1>d, <1>e, <1>f, <1>g, <1>h, <1>a, Apart DEF wlanVars,
     boundVars, IInv, Types, BridgeTypes, ActorTypes, JobTypes, CardTypes,
     HandleOrNone, NameOrNone, JobSort, RstSort, JobOfHolder, ResetHolds,
     SnapshotOfReset, TargetsNamed, Building, Settled, OwnerByStep,
     RequestNamed
<1>5. InstanceShape' /\ RefsBalanced'
  BY <1>b, <1>c, <1>d, <1>e, <1>f, <1>g, <1>h, <1>a, Apart DEF wlanVars,
     boundVars, IInv, Types, BridgeTypes, ActorTypes, JobTypes, CardTypes,
     HandleOrNone, NameOrNone, InstSort, PeerSort, JobSort, NoInst,
     InstanceShape, RefsBalanced, JobOfHolder, ResetHolds, Building,
     SnapshotOfReset, OwnerByStep, Settled
<1>6. OwnerByStep'
  BY <1>b, <1>c, <1>d, <1>e, <1>f, <1>g, <1>h, Apart DEF wlanVars,
     boundVars, IInv, Types, BridgeTypes, ActorTypes, JobTypes, CardTypes,
     HandleOrNone, NameOrNone, InstSort, JobSort, RstSort, NoInst, OwnerByStep,
     Settled, JobOfHolder, Building, SnapshotOfReset, ResetHolds, TargetsNamed,
     InstanceShape, BuildTarget
<1>7. FailureKnown'
  BY <1>b, <1>c, <1>d, <1>e, <1>f, <1>g, <1>h, Apart DEF wlanVars,
     boundVars, IInv, Types, BridgeTypes, ActorTypes, JobTypes, CardTypes,
     HandleOrNone, NameOrNone, JobSort, PendingSort, FailureKnown, JobOfHolder,
     Building, OwnerByStep, Settled, Errors
<1>8. GateClosed'
  BY <1>b, <1>c, <1>d, <1>e, <1>f, <1>g, <1>h, <1>a, Apart DEF wlanVars,
     boundVars, IInv, Types, BridgeTypes, ActorTypes, JobTypes, CardTypes,
     HandleOrNone, NameOrNone, PendingSort, ActSort, RstSort, GateClosed,
     JobOfHolder, RequestNamed, ResetHolds, SnapshotOfReset, Building
<1> QED
  BY <1>1, <1>2, <1>3, <1>4, <1>5, <1>6, <1>7, <1>8 DEF IInv

LEMMA ResetKeepPreserves ==
  ASSUME IInv, ResetKeep
  PROVE  IInv'
<1>a. /\ rst.pc = "destroy" /\ lock = "reset"
      /\ hw' = [hw EXCEPT ![rst.h] = TRUE]
      /\ rst' = [rst EXCEPT !.pc = "rebuilt"]
      /\ UNCHANGED <<lock, control, owner, inst, suspended, pending, admitted, act, job, name,
                     epoch, ready, edge, peer, boundVars, unload>>
  BY DEF ResetKeep
<1>b. /\ rst.h \in Handles /\ job.step = "none" /\ job.phase = "none"
      /\ hw' \in [Handles -> BOOLEAN]
      /\ rst' \in RstSort /\ rst'.pc = "rebuilt" /\ rst'.h = rst.h /\ rst'.kind = rst.kind
  BY <1>a DEF IInv, Types, CardTypes, JobTypes, RstSort, ResetHolds, JobOfHolder
<1>1. Types'
  BY <1>a, <1>b, Apart DEF wlanVars, boundVars, IInv, Types, BridgeTypes,
     ActorTypes, JobTypes, CardTypes, HandleOrNone, NameOrNone, InstSort,
     PeerSort, PendingSort, ActSort, JobSort, RstSort, Errors
<1>2. RequestNamed'
  BY <1>a, <1>b, Apart DEF wlanVars, boundVars, IInv, Types, ActorTypes,
     RequestNamed, JobOfHolder, ActSort, PendingSort, Building
<1>3. JobOfHolder' /\ ResetHolds'
  BY <1>a, <1>b, Apart DEF wlanVars, boundVars, IInv, Types, BridgeTypes,
     ActorTypes, JobTypes, CardTypes, HandleOrNone, NameOrNone, JobSort,
     RstSort, JobOfHolder, ResetHolds, Building
<1>4. SnapshotOfReset' /\ TargetsNamed'
  BY <1>a, <1>b, Apart DEF wlanVars, boundVars, IInv, Types, BridgeTypes,
     ActorTypes, JobTypes, CardTypes, HandleOrNone, NameOrNone, JobSort,
     RstSort, JobOfHolder, ResetHolds, SnapshotOfReset, TargetsNamed, Building,
     Settled, OwnerByStep, RequestNamed
<1>5. InstanceShape' /\ RefsBalanced'
  BY <1>a, <1>b, Apart DEF wlanVars, boundVars, IInv, Types, BridgeTypes,
     ActorTypes, JobTypes, CardTypes, HandleOrNone, NameOrNone, InstSort,
     PeerSort, JobSort, NoInst, InstanceShape, RefsBalanced, JobOfHolder,
     ResetHolds, Building, SnapshotOfReset, OwnerByStep, Settled
<1>6. OwnerByStep'
  BY <1>a, <1>b, Apart DEF wlanVars, boundVars, IInv, Types, BridgeTypes,
     ActorTypes, JobTypes, CardTypes, HandleOrNone, NameOrNone, InstSort,
     JobSort, RstSort, NoInst, OwnerByStep, Settled, JobOfHolder, Building,
     SnapshotOfReset, ResetHolds, TargetsNamed, InstanceShape, BuildTarget
<1>7. FailureKnown'
  BY <1>a, <1>b, Apart DEF wlanVars, boundVars, IInv, Types, BridgeTypes,
     ActorTypes, JobTypes, CardTypes, HandleOrNone, NameOrNone, JobSort,
     PendingSort, FailureKnown, JobOfHolder, Building, OwnerByStep, Settled,
     Errors
<1>8. GateClosed'
  BY <1>a, <1>b, Apart DEF wlanVars, boundVars, IInv, Types, BridgeTypes,
     ActorTypes, JobTypes, CardTypes, HandleOrNone, NameOrNone, PendingSort,
     ActSort, RstSort, GateClosed, JobOfHolder, RequestNamed, ResetHolds,
     SnapshotOfReset, Building
<1> QED
  BY <1>1, <1>2, <1>3, <1>4, <1>5, <1>6, <1>7, <1>8 DEF IInv

LEMMA ResetResumePreserves ==
  ASSUME IInv, ResetResume
  PROVE  IInv'
<1>a. /\ rst.pc = "rebuilt" /\ lock = "reset"
      /\ UNCHANGED <<control, owner, inst, pending, admitted, act, wlanVars, peer, boundVars,
                     unload>>
  BY DEF ResetResume
<1>b. job.step = "none" /\ job.phase = "none"
  BY <1>a DEF IInv, JobOfHolder
<1>1. CASE suspended = NoHandle
  <2>a. /\ lock' = "free" /\ job' = NoJob /\ suspended' = suspended
        /\ rst' = [pc |-> "idle", h |-> NoHandle, kind |-> "none"]
    BY <1>1 DEF ResetResume, Unlock, ResetOver
  <2>b. NoJob \in JobSort /\ NoJob.step = "none" /\ NoJob.phase = "none" /\ NoJob.ret = "0"
    BY DEF NoJob, JobSort, HandleOrNone, NameOrNone, Errors
  <2>c. rst' \in RstSort /\ rst'.pc = "idle"
    BY <2>a DEF RstSort, HandleOrNone
  <2>1. Types'
    BY <1>a, <1>b, <1>1, <2>a, <2>b, <2>c, Apart DEF wlanVars, boundVars,
       IInv, Types, BridgeTypes, ActorTypes, JobTypes, CardTypes, HandleOrNone,
       NameOrNone, InstSort, PeerSort, PendingSort, ActSort, JobSort, RstSort,
       Errors
  <2>2. RequestNamed'
    BY <1>a, <1>b, <1>1, <2>a, <2>b, <2>c, Apart DEF wlanVars, boundVars,
       IInv, Types, ActorTypes, RequestNamed, JobOfHolder, ActSort,
       PendingSort, Building
  <2>3. JobOfHolder' /\ ResetHolds'
    BY <1>a, <1>b, <1>1, <2>a, <2>b, <2>c, Apart DEF wlanVars, boundVars,
       IInv, Types, BridgeTypes, ActorTypes, JobTypes, CardTypes, HandleOrNone,
       NameOrNone, JobSort, RstSort, JobOfHolder, ResetHolds, Building
  <2>4. SnapshotOfReset' /\ TargetsNamed'
    BY <1>a, <1>b, <1>1, <2>a, <2>b, <2>c, Apart DEF wlanVars, boundVars,
       IInv, Types, BridgeTypes, ActorTypes, JobTypes, CardTypes, HandleOrNone,
       NameOrNone, JobSort, RstSort, JobOfHolder, ResetHolds, SnapshotOfReset,
       TargetsNamed, Building, Settled, OwnerByStep, RequestNamed
  <2>5. InstanceShape' /\ RefsBalanced'
    BY <1>a, <1>b, <1>1, <2>a, <2>b, <2>c, Apart DEF wlanVars, boundVars,
       IInv, Types, BridgeTypes, ActorTypes, JobTypes, CardTypes, HandleOrNone,
       NameOrNone, InstSort, PeerSort, JobSort, NoInst, InstanceShape,
       RefsBalanced, JobOfHolder, ResetHolds, Building, SnapshotOfReset,
       OwnerByStep, Settled
  <2>6. OwnerByStep'
    BY <1>a, <1>b, <1>1, <2>a, <2>b, <2>c, Apart DEF wlanVars, boundVars,
       IInv, Types, BridgeTypes, ActorTypes, JobTypes, CardTypes, HandleOrNone,
       NameOrNone, InstSort, JobSort, RstSort, NoInst, OwnerByStep, Settled,
       JobOfHolder, Building, SnapshotOfReset, ResetHolds, TargetsNamed,
       InstanceShape, BuildTarget
  <2>7. FailureKnown'
    BY <1>a, <1>b, <1>1, <2>a, <2>b, <2>c, Apart DEF wlanVars, boundVars,
       IInv, Types, BridgeTypes, ActorTypes, JobTypes, CardTypes, HandleOrNone,
       NameOrNone, JobSort, PendingSort, FailureKnown, JobOfHolder, Building,
       OwnerByStep, Settled, Errors
  <2>8. GateClosed'
    BY <1>a, <1>b, <1>1, <2>a, <2>b, <2>c, Apart DEF wlanVars, boundVars,
       IInv, Types, BridgeTypes, ActorTypes, JobTypes, CardTypes, HandleOrNone,
       NameOrNone, PendingSort, ActSort, RstSort, GateClosed, JobOfHolder,
       RequestNamed, ResetHolds, SnapshotOfReset, Building
  <2> QED
    BY <2>1, <2>2, <2>3, <2>4, <2>5, <2>6, <2>7, <2>8 DEF IInv
<1>2. CASE suspended # NoHandle
  <2>a. /\ suspended' = NoHandle /\ lock' = lock
        /\ job' = [NoJob EXCEPT !.step = "hold", !.phase = "resume", !.tgt = suspended]
        /\ rst' = [rst EXCEPT !.pc = "resume"]
    BY <1>2 DEF ResetResume
  <2>b. suspended \in Handles
    BY <1>2 DEF IInv, Types, BridgeTypes, HandleOrNone
  <2>c. job' \in JobSort /\ job'.step = "hold" /\ job'.phase = "resume" /\ job'.tgt = suspended
        /\ job'.ret = "0"
    BY <2>a, <2>b DEF NoJob, JobSort, HandleOrNone, NameOrNone, Errors
  <2>d. rst' \in RstSort /\ rst'.pc = "resume" /\ rst'.h = rst.h /\ rst'.kind = rst.kind
    BY <2>a DEF IInv, Types, JobTypes, RstSort
  <2>e. owner = inst.h /\ (owner # NoHandle => /\ inst.published /\ inst.epoch = epoch[owner]
                                               /\ name[owner] # NoName)
    BY <1>b DEF IInv, OwnerByStep, Settled
  <2>1. Types'
    BY <1>a, <1>b, <1>2, <2>a, <2>b, <2>c, <2>d, <2>e, Apart DEF wlanVars,
       boundVars, IInv, Types, BridgeTypes, ActorTypes, JobTypes, CardTypes,
       HandleOrNone, NameOrNone, InstSort, PeerSort, PendingSort, ActSort,
       JobSort, RstSort, Errors
  <2>2. RequestNamed'
    BY <1>a, <1>b, <1>2, <2>a, <2>b, <2>c, <2>d, <2>e, Apart DEF wlanVars,
       boundVars, IInv, Types, ActorTypes, RequestNamed, JobOfHolder, ActSort,
       PendingSort, Building
  <2>3. JobOfHolder' /\ ResetHolds'
    BY <1>a, <1>b, <1>2, <2>a, <2>b, <2>c, <2>d, <2>e, Apart DEF wlanVars,
       boundVars, IInv, Types, BridgeTypes, ActorTypes, JobTypes, CardTypes,
       HandleOrNone, NameOrNone, JobSort, RstSort, JobOfHolder, ResetHolds,
       Building
  <2>4. SnapshotOfReset' /\ TargetsNamed'
    BY <1>a, <1>b, <1>2, <2>a, <2>b, <2>c, <2>d, <2>e, Apart DEF wlanVars,
       boundVars, IInv, Types, BridgeTypes, ActorTypes, JobTypes, CardTypes,
       HandleOrNone, NameOrNone, JobSort, RstSort, JobOfHolder, ResetHolds,
       SnapshotOfReset, TargetsNamed, Building, Settled, OwnerByStep,
       RequestNamed
  <2>5. InstanceShape' /\ RefsBalanced'
    BY <1>a, <1>b, <1>2, <2>a, <2>b, <2>c, <2>d, <2>e, Apart DEF wlanVars,
       boundVars, IInv, Types, BridgeTypes, ActorTypes, JobTypes, CardTypes,
       HandleOrNone, NameOrNone, InstSort, PeerSort, JobSort, NoInst,
       InstanceShape, RefsBalanced, JobOfHolder, ResetHolds, Building,
       SnapshotOfReset, OwnerByStep, Settled
  <2>6. OwnerByStep'
    BY <1>a, <1>b, <1>2, <2>a, <2>b, <2>c, <2>d, <2>e, Apart DEF wlanVars,
       boundVars, IInv, Types, BridgeTypes, ActorTypes, JobTypes, CardTypes,
       HandleOrNone, NameOrNone, InstSort, JobSort, RstSort, NoInst,
       OwnerByStep, Settled, JobOfHolder, Building, SnapshotOfReset,
       ResetHolds, TargetsNamed, InstanceShape, BuildTarget
  <2>7. FailureKnown'
    BY <1>a, <1>b, <1>2, <2>a, <2>b, <2>c, <2>d, <2>e, Apart DEF wlanVars,
       boundVars, IInv, Types, BridgeTypes, ActorTypes, JobTypes, CardTypes,
       HandleOrNone, NameOrNone, JobSort, PendingSort, FailureKnown,
       JobOfHolder, Building, OwnerByStep, Settled, Errors
  <2>8. GateClosed'
    BY <1>a, <1>b, <1>2, <2>a, <2>b, <2>c, <2>d, <2>e, Apart DEF wlanVars,
       boundVars, IInv, Types, BridgeTypes, ActorTypes, JobTypes, CardTypes,
       HandleOrNone, NameOrNone, PendingSort, ActSort, RstSort, GateClosed,
       JobOfHolder, RequestNamed, ResetHolds, SnapshotOfReset, Building
  <2> QED
    BY <2>1, <2>2, <2>3, <2>4, <2>5, <2>6, <2>7, <2>8 DEF IInv
<1> QED
  BY <1>1, <1>2

(* What the cancellation of the snapshot does to the request and the count. *)
LEMMA DiscardEffect ==
  ASSUME IInv
  PROVE  /\ Calm(pending, pending) /\ Calm(pending, PendingCancelAll(pending))
         /\ Calm(pending, Discarded)
         /\ RefsAfterDiscard \in Int
         /\ RefsAfterDiscard = peer.refs - (IF suspended # NoHandle THEN 1 ELSE 0)
<1>1. pending \in PendingSort /\ NoName \in NameOrNone
  BY DEF IInv, Types, NameOrNone
<1>2. Calm(pending, pending) /\ Calm(pending, PendingCancelAll(pending))
  BY <1>1, PendingOpsCalm
<1>3. Calm(pending, Discarded)
  BY <1>2 DEF Discarded
<1> QED
  BY <1>2, <1>3 DEF RefsAfterDiscard, IInv, Types, BridgeTypes, PeerSort

LEMMA ResetFailPreserves ==
  ASSUME IInv, ResetFail
  PROVE  IInv'
<1>a. /\ rst.pc \in {"destroy", "down", "rebuilt"} /\ lock \in {"free", "reset"}
      /\ suspended' = NoHandle /\ lock' = "free" /\ job' = NoJob
      /\ rst' = [pc |-> "idle", h |-> NoHandle, kind |-> "none"]
      /\ peer' = [peer EXCEPT !.refs = RefsAfterDiscard]
      /\ hw' = [hw EXCEPT ![rst.h] = FALSE]
      /\ UNCHANGED <<control, owner, inst, admitted, act, name, epoch, ready, edge, boundVars,
                     unload>>
  BY DEF ResetFail, Unlock, ResetOver
<1>b. job.step = "none" /\ job.phase = "none"
  BY <1>a DEF IInv, JobOfHolder
<1>c. Calm(pending, pending')
  BY DiscardEffect DEF ResetFail
<1>d. pending' \in PendingSort /\ pending'.on = pending.on
      /\ (pending'.state # "none" => pending.state # "none" /\ pending'.name = pending.name)
      /\ (~pending.on /\ pending.state = "none" /\ ~pending.queued => ~pending'.queued)
  BY <1>c DEF Calm
<1>e. NoJob \in JobSort /\ NoJob.step = "none" /\ NoJob.phase = "none" /\ NoJob.ret = "0"
  BY DEF NoJob, JobSort, HandleOrNone, NameOrNone, Errors
<1>f. /\ rst' \in RstSort /\ rst'.pc = "idle"
      /\ hw' \in [Handles -> BOOLEAN]
  BY <1>a DEF RstSort, HandleOrNone, IInv, Types, CardTypes
<1>g. peer' \in PeerSort /\ peer'.reg = peer.reg
      /\ peer'.refs = peer.refs - (IF suspended # NoHandle THEN 1 ELSE 0)
  <2>1. peer' = [peer EXCEPT !.refs = RefsAfterDiscard]
    BY <1>a
  <2> QED
    BY <2>1, DiscardEffect DEF IInv, Types, BridgeTypes, PeerSort
<1>1. Types'
  BY <1>a, <1>b, <1>d, <1>e, <1>f, <1>g, Apart DEF wlanVars, boundVars,
     IInv, Types, BridgeTypes, ActorTypes, JobTypes, CardTypes, HandleOrNone,
     NameOrNone, InstSort, PeerSort, PendingSort, ActSort, JobSort, RstSort,
     Errors
<1>2. RequestNamed'
  BY <1>a, <1>b, <1>d, <1>e, <1>f, <1>g, Apart DEF wlanVars, boundVars,
     IInv, Types, ActorTypes, RequestNamed, JobOfHolder, ActSort, PendingSort,
     Building
<1>3. JobOfHolder' /\ ResetHolds'
  BY <1>a, <1>b, <1>d, <1>e, <1>f, <1>g, Apart DEF wlanVars, boundVars,
     IInv, Types, BridgeTypes, ActorTypes, JobTypes, CardTypes, HandleOrNone,
     NameOrNone, JobSort, RstSort, JobOfHolder, ResetHolds, Building
<1>4. SnapshotOfReset' /\ TargetsNamed'
  BY <1>a, <1>b, <1>d, <1>e, <1>f, <1>g, Apart DEF wlanVars, boundVars,
     IInv, Types, BridgeTypes, ActorTypes, JobTypes, CardTypes, HandleOrNone,
     NameOrNone, JobSort, RstSort, JobOfHolder, ResetHolds, SnapshotOfReset,
     TargetsNamed, Building, Settled, OwnerByStep, RequestNamed
<1>5. InstanceShape' /\ RefsBalanced'
  BY <1>a, <1>b, <1>d, <1>e, <1>f, <1>g, Apart DEF wlanVars, boundVars,
     IInv, Types, BridgeTypes, ActorTypes, JobTypes, CardTypes, HandleOrNone,
     NameOrNone, InstSort, PeerSort, JobSort, NoInst, InstanceShape,
     RefsBalanced, JobOfHolder, ResetHolds, Building, SnapshotOfReset,
     OwnerByStep, Settled
<1>6. OwnerByStep'
  BY <1>a, <1>b, <1>d, <1>e, <1>f, <1>g, Apart DEF wlanVars, boundVars,
     IInv, Types, BridgeTypes, ActorTypes, JobTypes, CardTypes, HandleOrNone,
     NameOrNone, InstSort, JobSort, RstSort, NoInst, OwnerByStep, Settled,
     JobOfHolder, Building, SnapshotOfReset, ResetHolds, TargetsNamed,
     InstanceShape, BuildTarget
<1>7. FailureKnown'
  BY <1>a, <1>b, <1>d, <1>e, <1>f, <1>g, Apart DEF wlanVars, boundVars,
     IInv, Types, BridgeTypes, ActorTypes, JobTypes, CardTypes, HandleOrNone,
     NameOrNone, JobSort, PendingSort, FailureKnown, JobOfHolder, Building,
     OwnerByStep, Settled, Errors
<1>8. GateClosed'
  BY <1>a, <1>b, <1>d, <1>e, <1>f, <1>g, Apart DEF wlanVars, boundVars,
     IInv, Types, BridgeTypes, ActorTypes, JobTypes, CardTypes, HandleOrNone,
     NameOrNone, PendingSort, ActSort, RstSort, GateClosed, JobOfHolder,
     RequestNamed, ResetHolds, SnapshotOfReset, Building
<1> QED
  BY <1>1, <1>2, <1>3, <1>4, <1>5, <1>6, <1>7, <1>8 DEF IInv

(* Every step of a reset. *)
LEMMA ResetPreserves ==
  IInv /\ (\/ \E h \in Handles, kind \in {"flr", "reload"} :
                ResetSuspend(h, kind) \/ ResetRefused(h, kind)
           \/ ResetStep \/ ResetFail) => IInv'
BY ResetSuspendPreserves, ResetRefusedPreserves, ResetDestroyPreserves, ResetRebuildPreserves,
   ResetKeepPreserves, ResetResumePreserves, ResetFailPreserves DEF ResetStep

-----------------------------------------------------------------------------
(* Cards and the module. *)
LEMMA CardRemovePreserves ==
  ASSUME IInv, NEW h \in Handles, CardRemove(h)
  PROVE  IInv'
<1> DEFINE P == PendingClearIf(pending, name[h], pending.gen)
           lost == owner = h \/ suspended = h
<1>a. /\ lock = "free" /\ unload = "no"
      /\ pending' = PendingUnregistered(IF lost THEN PendingCancelAll(P) ELSE P, name[h])
      /\ peer' = [peer EXCEPT !.refs = IF owner = h THEN RefsAfterDeinit
                                       ELSE IF suspended = h THEN RefsAfterDiscard ELSE @]
      /\ IF owner = h THEN owner' = NoHandle /\ inst' = NoInst ELSE UNCHANGED <<owner, inst>>
      /\ suspended' = IF suspended = h THEN NoHandle ELSE suspended
      /\ IF rst.h = h THEN ResetOver ELSE UNCHANGED rst
      /\ name' = [name EXCEPT ![h] = NoName]
      /\ ready' = [ready EXCEPT ![h] = FALSE] /\ edge' = [edge EXCEPT ![h] = FALSE]
      /\ hw' = [hw EXCEPT ![h] = FALSE]
      /\ UNCHANGED <<lock, control, admitted, act, job, epoch, boundVars, unload>>
  BY DEF CardRemove
<1>b. /\ job.step = "none" /\ job.phase = "none" /\ owner = inst.h
      /\ owner # NoHandle => inst.published /\ inst.epoch = epoch[owner] /\ name[owner] # NoName
      /\ rst.pc \in {"idle", "down"}
  BY <1>a DEF IInv, JobOfHolder, OwnerByStep, Settled, ResetHolds, Types, JobTypes, RstSort
<1>c. rst.pc = "down" => rst.h \in Handles /\ rst.kind = "flr" /\ name[rst.h] = NoName
  BY <1>a DEF IInv, ResetHolds, SnapshotOfReset
<1>d. suspended # NoHandle => rst.pc = "down" /\ suspended = rst.h /\ owner # suspended
  BY <1>b, <1>c DEF IInv, SnapshotOfReset
<1>e. Calm(pending, pending')
  <2>1. Calm(pending, pending)
    BY DEF IInv, Types, Calm, PendingSort
  <2>2. Calm(pending, P)
    BY <2>1, InvalidateCalm
  <2>3. P \in PendingSort /\ pending \in PendingSort /\ NoName \in NameOrNone
    BY <2>2 DEF Calm, IInv, Types, NameOrNone
  <2>4. Calm(P, PendingCancelAll(P))
    BY <2>3, PendingOpsCalm
  <2>5. Calm(pending, PendingCancelAll(P))
    BY <2>2, <2>3, <2>4, CalmTransitive
  <2>6. Calm(pending, IF lost THEN PendingCancelAll(P) ELSE P)
    BY <2>2, <2>5
  <2> QED
    BY <1>a, <2>6, InvalidateCalm
<1>f. pending' \in PendingSort /\ pending'.on = pending.on
      /\ (pending'.state # "none" => pending.state # "none" /\ pending'.name = pending.name)
      /\ (~pending.on /\ pending.state = "none" /\ ~pending.queued => ~pending'.queued)
  BY <1>e DEF Calm
<1>g. peer' \in PeerSort /\ peer'.reg = peer.reg
      /\ peer'.refs = peer.refs - (IF owner = h /\ inst.ref THEN 1 ELSE 0)
                                - (IF suspended = h THEN 1 ELSE 0)
  <2> DEFINE r == IF owner = h THEN RefsAfterDeinit
                  ELSE IF suspended = h THEN RefsAfterDiscard ELSE peer.refs
  <2>1. peer' = [peer EXCEPT !.refs = r]
    BY <1>a
  <2>2. suspended = h => owner # h
    BY <1>d, Apart
  <2>3. /\ r \in Int
        /\ r = peer.refs - (IF owner = h /\ inst.ref THEN 1 ELSE 0)
                         - (IF suspended = h THEN 1 ELSE 0)
    BY <2>2, DeinitTyped, DiscardEffect, Apart DEF IInv, Types, BridgeTypes, PeerSort
  <2> HIDE DEF r
  <2> QED
    BY <2>1, <2>3 DEF IInv, Types, BridgeTypes, PeerSort
<1>h. /\ name' \in [Handles -> NameOrNone] /\ name'[h] = NoName
      /\ \A k \in Handles : k # h => name'[k] = name[k]
      /\ ready' \in [Handles -> BOOLEAN] /\ edge' \in [Handles -> BOOLEAN]
      /\ hw' \in [Handles -> BOOLEAN]
  BY <1>a DEF IInv, Types, CardTypes, NameOrNone
<1>i. /\ rst' \in RstSort
      /\ rst.h = h => rst'.pc = "idle"
      /\ rst.h # h => rst' = rst
  BY <1>a DEF ResetOver, RstSort, HandleOrNone, IInv, Types, JobTypes
<1>j. /\ owner' = (IF owner = h THEN NoHandle ELSE owner)
      /\ inst' = (IF owner = h THEN NoInst ELSE inst)
      /\ suspended' = (IF suspended = h THEN NoHandle ELSE suspended)
      /\ lock = "free" /\ unload = "no" /\ h # NoHandle
      /\ UNCHANGED <<lock, control, admitted, act, job, epoch, boundVars, unload>>
  BY <1>a, Apart
<1>1. Types'
  BY <1>b, <1>c, <1>d, <1>f, <1>g, <1>h, <1>i, <1>j, DeinitTyped, Apart DEF
     wlanVars, boundVars, IInv, Types, BridgeTypes, ActorTypes, JobTypes,
     CardTypes, HandleOrNone, NameOrNone, InstSort, PeerSort, PendingSort,
     ActSort, JobSort, RstSort, Errors
<1>2. RequestNamed'
  BY <1>b, <1>c, <1>d, <1>f, <1>g, <1>h, <1>i, <1>j, Apart DEF wlanVars,
     boundVars, IInv, Types, ActorTypes, RequestNamed, JobOfHolder, ActSort,
     PendingSort, Building
<1>3. JobOfHolder' /\ ResetHolds'
  BY <1>b, <1>c, <1>d, <1>f, <1>g, <1>h, <1>i, <1>j, Apart DEF wlanVars,
     boundVars, IInv, Types, BridgeTypes, ActorTypes, JobTypes, CardTypes,
     HandleOrNone, NameOrNone, JobSort, RstSort, JobOfHolder, ResetHolds,
     Building
<1>4. SnapshotOfReset' /\ TargetsNamed'
  BY <1>b, <1>c, <1>d, <1>f, <1>g, <1>h, <1>i, <1>j, Apart DEF wlanVars,
     boundVars, IInv, Types, BridgeTypes, ActorTypes, JobTypes, CardTypes,
     HandleOrNone, NameOrNone, JobSort, RstSort, JobOfHolder, ResetHolds,
     SnapshotOfReset, TargetsNamed, Building, Settled, OwnerByStep,
     RequestNamed
<1>5. InstanceShape' /\ RefsBalanced'
  BY <1>b, <1>c, <1>d, <1>f, <1>g, <1>h, <1>i, <1>j, DeinitTyped, Apart DEF
     wlanVars, boundVars, IInv, Types, BridgeTypes, ActorTypes, JobTypes,
     CardTypes, HandleOrNone, NameOrNone, InstSort, PeerSort, JobSort, NoInst,
     InstanceShape, RefsBalanced, JobOfHolder, ResetHolds, Building,
     SnapshotOfReset, OwnerByStep, Settled
<1>6. OwnerByStep'
  BY <1>b, <1>c, <1>d, <1>f, <1>g, <1>h, <1>i, <1>j, DeinitTyped, Apart DEF
     wlanVars, boundVars, IInv, Types, BridgeTypes, ActorTypes, JobTypes,
     CardTypes, HandleOrNone, NameOrNone, InstSort, JobSort, RstSort, NoInst,
     OwnerByStep, Settled, JobOfHolder, Building, SnapshotOfReset, ResetHolds,
     TargetsNamed, InstanceShape, BuildTarget
<1>7. FailureKnown'
  BY <1>b, <1>c, <1>d, <1>f, <1>g, <1>h, <1>i, <1>j, Apart DEF wlanVars,
     boundVars, IInv, Types, BridgeTypes, ActorTypes, JobTypes, CardTypes,
     HandleOrNone, NameOrNone, JobSort, PendingSort, FailureKnown, JobOfHolder,
     Building, OwnerByStep, Settled, Errors
<1>8. GateClosed'
  BY <1>b, <1>c, <1>d, <1>f, <1>g, <1>h, <1>i, <1>j, Apart DEF wlanVars,
     boundVars, IInv, Types, BridgeTypes, ActorTypes, JobTypes, CardTypes,
     HandleOrNone, NameOrNone, PendingSort, ActSort, RstSort, GateClosed,
     JobOfHolder, RequestNamed, ResetHolds, SnapshotOfReset, Building
<1> QED
  BY <1>1, <1>2, <1>3, <1>4, <1>5, <1>6, <1>7, <1>8 DEF IInv

LEMMA CardAddPreserves ==
  ASSUME IInv, NEW h \in Handles, NEW n \in Names, CardAdd(h, n)
  PROVE  IInv'
<1>a. /\ lock = "free" /\ unload = "no" /\ name[h] = NoName /\ rst.h # h
      /\ name' = [name EXCEPT ![h] = n] /\ epoch' = [epoch EXCEPT ![h] = @ + 1]
      /\ hw' = [hw EXCEPT ![h] = TRUE] /\ rebuilds' = rebuilds + 1
      /\ UNCHANGED <<control, owner, inst, suspended, pending, admitted, act, rst, ready, edge,
                     peer, writes, faults, unload>>
  BY DEF CardAdd
<1>b. /\ job.step = "none" /\ job.phase = "none" /\ owner = inst.h
      /\ owner # NoHandle => inst.published /\ inst.epoch = epoch[owner] /\ name[owner] # NoName
      /\ owner \in HandleOrNone
  BY <1>a DEF IInv, JobOfHolder, OwnerByStep, Settled, Types, BridgeTypes
<1>c. /\ name' \in [Handles -> NameOrNone] /\ name'[h] = n /\ n # NoName
      /\ \A k \in Handles : k # h => name'[k] = name[k] /\ epoch'[k] = epoch[k]
      /\ hw' \in [Handles -> BOOLEAN] /\ rebuilds' \in Nat
  BY <1>a, Apart DEF IInv, Types, CardTypes, NameOrNone
<1>d. epoch' \in [Handles -> Nat]
  BY <1>a DEF IInv, Types, CardTypes
<1>e. owner # h
  BY <1>a, <1>b, Apart
<1>f. /\ lock = "free" /\ unload = "no" /\ rst.h # h
      /\ UNCHANGED <<control, owner, inst, suspended, pending, admitted, act, rst, ready, edge,
                     peer, writes, faults, unload>>
  BY <1>a
<1>1. CASE h \in AutoBridge
  <2>a. lock' = "card" /\ job' = [NoJob EXCEPT !.step = "hold", !.phase = "load", !.tgt = h]
    BY <1>1 DEF CardAdd
  <2>b. job' \in JobSort /\ job'.step = "hold" /\ job'.phase = "load" /\ job'.tgt = h
        /\ job'.ret = "0"
    BY <2>a DEF NoJob, JobSort, HandleOrNone, NameOrNone, Errors
  <2>1. Types'
    BY <1>b, <1>c, <1>d, <1>e, <1>f, <2>a, <2>b, Apart DEF wlanVars,
       boundVars, IInv, Types, BridgeTypes, ActorTypes, JobTypes, CardTypes,
       HandleOrNone, NameOrNone, InstSort, PeerSort, PendingSort, ActSort,
       JobSort, RstSort, Errors
  <2>2. RequestNamed'
    BY <1>b, <1>c, <1>d, <1>e, <1>f, <2>a, <2>b, Apart DEF wlanVars,
       boundVars, IInv, Types, ActorTypes, RequestNamed, JobOfHolder, ActSort,
       PendingSort, Building
  <2>3. JobOfHolder' /\ ResetHolds'
    BY <1>b, <1>c, <1>d, <1>e, <1>f, <2>a, <2>b, Apart DEF wlanVars,
       boundVars, IInv, Types, BridgeTypes, ActorTypes, JobTypes, CardTypes,
       HandleOrNone, NameOrNone, JobSort, RstSort, JobOfHolder, ResetHolds,
       Building
  <2>4. SnapshotOfReset' /\ TargetsNamed'
    BY <1>b, <1>c, <1>d, <1>e, <1>f, <2>a, <2>b, Apart DEF wlanVars,
       boundVars, IInv, Types, BridgeTypes, ActorTypes, JobTypes, CardTypes,
       HandleOrNone, NameOrNone, JobSort, RstSort, JobOfHolder, ResetHolds,
       SnapshotOfReset, TargetsNamed, Building, Settled, OwnerByStep,
       RequestNamed
  <2>5. InstanceShape' /\ RefsBalanced'
    BY <1>b, <1>c, <1>d, <1>e, <1>f, <2>a, <2>b, Apart DEF wlanVars,
       boundVars, IInv, Types, BridgeTypes, ActorTypes, JobTypes, CardTypes,
       HandleOrNone, NameOrNone, InstSort, PeerSort, JobSort, NoInst,
       InstanceShape, RefsBalanced, JobOfHolder, ResetHolds, Building,
       SnapshotOfReset, OwnerByStep, Settled
  <2>6. OwnerByStep'
    BY <1>b, <1>c, <1>d, <1>e, <1>f, <2>a, <2>b, Apart DEF wlanVars,
       boundVars, IInv, Types, BridgeTypes, ActorTypes, JobTypes, CardTypes,
       HandleOrNone, NameOrNone, InstSort, JobSort, RstSort, NoInst,
       OwnerByStep, Settled, JobOfHolder, Building, SnapshotOfReset,
       ResetHolds, TargetsNamed, InstanceShape, BuildTarget
  <2>7. FailureKnown'
    BY <1>b, <1>c, <1>d, <1>e, <1>f, <2>a, <2>b, Apart DEF wlanVars,
       boundVars, IInv, Types, BridgeTypes, ActorTypes, JobTypes, CardTypes,
       HandleOrNone, NameOrNone, JobSort, PendingSort, FailureKnown,
       JobOfHolder, Building, OwnerByStep, Settled, Errors
  <2>8. GateClosed'
    BY <1>b, <1>c, <1>d, <1>e, <1>f, <2>a, <2>b, Apart DEF wlanVars,
       boundVars, IInv, Types, BridgeTypes, ActorTypes, JobTypes, CardTypes,
       HandleOrNone, NameOrNone, PendingSort, ActSort, RstSort, GateClosed,
       JobOfHolder, RequestNamed, ResetHolds, SnapshotOfReset, Building
  <2> QED
    BY <2>1, <2>2, <2>3, <2>4, <2>5, <2>6, <2>7, <2>8 DEF IInv
<1>2. CASE h \notin AutoBridge
  <2>a. lock' = lock /\ job' = job
    BY <1>2 DEF CardAdd
  <2>1. Types'
    BY <1>b, <1>c, <1>d, <1>e, <1>f, <2>a, Apart DEF wlanVars, boundVars,
       IInv, Types, BridgeTypes, ActorTypes, JobTypes, CardTypes, HandleOrNone,
       NameOrNone, InstSort, PeerSort, PendingSort, ActSort, JobSort, RstSort,
       Errors
  <2>2. RequestNamed'
    BY <1>b, <1>c, <1>d, <1>e, <1>f, <2>a, Apart DEF wlanVars, boundVars,
       IInv, Types, ActorTypes, RequestNamed, JobOfHolder, ActSort,
       PendingSort, Building
  <2>3. JobOfHolder' /\ ResetHolds'
    BY <1>b, <1>c, <1>d, <1>e, <1>f, <2>a, Apart DEF wlanVars, boundVars,
       IInv, Types, BridgeTypes, ActorTypes, JobTypes, CardTypes, HandleOrNone,
       NameOrNone, JobSort, RstSort, JobOfHolder, ResetHolds, Building
  <2>4. SnapshotOfReset' /\ TargetsNamed'
    BY <1>b, <1>c, <1>d, <1>e, <1>f, <2>a, Apart DEF wlanVars, boundVars,
       IInv, Types, BridgeTypes, ActorTypes, JobTypes, CardTypes, HandleOrNone,
       NameOrNone, JobSort, RstSort, JobOfHolder, ResetHolds, SnapshotOfReset,
       TargetsNamed, Building, Settled, OwnerByStep, RequestNamed
  <2>5. InstanceShape' /\ RefsBalanced'
    BY <1>b, <1>c, <1>d, <1>e, <1>f, <2>a, Apart DEF wlanVars, boundVars,
       IInv, Types, BridgeTypes, ActorTypes, JobTypes, CardTypes, HandleOrNone,
       NameOrNone, InstSort, PeerSort, JobSort, NoInst, InstanceShape,
       RefsBalanced, JobOfHolder, ResetHolds, Building, SnapshotOfReset,
       OwnerByStep, Settled
  <2>6. OwnerByStep'
    BY <1>b, <1>c, <1>d, <1>e, <1>f, <2>a, Apart DEF wlanVars, boundVars,
       IInv, Types, BridgeTypes, ActorTypes, JobTypes, CardTypes, HandleOrNone,
       NameOrNone, InstSort, JobSort, RstSort, NoInst, OwnerByStep, Settled,
       JobOfHolder, Building, SnapshotOfReset, ResetHolds, TargetsNamed,
       InstanceShape, BuildTarget
  <2>7. FailureKnown'
    BY <1>b, <1>c, <1>d, <1>e, <1>f, <2>a, Apart DEF wlanVars, boundVars,
       IInv, Types, BridgeTypes, ActorTypes, JobTypes, CardTypes, HandleOrNone,
       NameOrNone, JobSort, PendingSort, FailureKnown, JobOfHolder, Building,
       OwnerByStep, Settled, Errors
  <2>8. GateClosed'
    BY <1>b, <1>c, <1>d, <1>e, <1>f, <2>a, Apart DEF wlanVars, boundVars,
       IInv, Types, BridgeTypes, ActorTypes, JobTypes, CardTypes, HandleOrNone,
       NameOrNone, PendingSort, ActSort, RstSort, GateClosed, JobOfHolder,
       RequestNamed, ResetHolds, SnapshotOfReset, Building
  <2> QED
    BY <2>1, <2>2, <2>3, <2>4, <2>5, <2>6, <2>7, <2>8 DEF IInv
<1> QED
  BY <1>1, <1>2

LEMMA UnloadPreserves == IInv /\ (UnloadDisable \/ UnloadDrain \/ UnloadTeardown) => IInv'
<1> SUFFICES ASSUME IInv, UnloadDisable \/ UnloadDrain \/ UnloadTeardown
             PROVE  IInv'
  OBVIOUS
<1>a. pending \in PendingSort /\ NoName \in NameOrNone
  BY DEF IInv, Types, NameOrNone
<1>1. CASE UnloadDisable
  <2>a. Cleared(pending) \in PendingSort /\ Cleared(pending).state = "none"
    <3>1. Calm(pending, Cleared(pending))
      BY <1>a, PendingOpsCalm
    <3> QED
      BY <1>a, <3>1 DEF Calm, Cleared, PendingSort
  <2>b. pending' \in PendingSort /\ pending'.state = "none" /\ ~pending'.on
    BY <1>1, <2>a DEF UnloadDisable, PendingSort
  <2>c. /\ unload = "no" /\ unload' = "drain" /\ control' = FALSE
        /\ UNCHANGED <<lock, owner, inst, suspended, admitted, act, job, rst, wlanVars, peer,
                       boundVars>>
    BY <1>1 DEF UnloadDisable
  <2>d. control' \in BOOLEAN
    BY <2>c
  <2>1. Types'
    <3>1. BridgeTypes'
      BY <2>c, <2>d DEF wlanVars, boundVars, IInv, Types, BridgeTypes
    <3>2. ActorTypes' /\ JobTypes' /\ CardTypes'
      BY <2>c DEF wlanVars, boundVars, IInv, Types, ActorTypes, JobTypes, CardTypes
    <3> QED
      BY <2>b, <3>1, <3>2 DEF Types
  <2>2. RequestNamed'
    BY <2>b, <2>c, Apart DEF wlanVars, boundVars, IInv, Types, ActorTypes,
       RequestNamed, JobOfHolder, ActSort, PendingSort, Building
  <2>3. JobOfHolder' /\ ResetHolds'
    BY <2>b, <2>c, Apart DEF wlanVars, boundVars, IInv, Types, BridgeTypes,
       ActorTypes, JobTypes, CardTypes, HandleOrNone, NameOrNone, JobSort,
       RstSort, JobOfHolder, ResetHolds, Building
  <2>4. SnapshotOfReset' /\ TargetsNamed'
    BY <2>b, <2>c, Apart DEF wlanVars, boundVars, IInv, Types, BridgeTypes,
       ActorTypes, JobTypes, CardTypes, HandleOrNone, NameOrNone, JobSort,
       RstSort, JobOfHolder, ResetHolds, SnapshotOfReset, TargetsNamed,
       Building, Settled, OwnerByStep, RequestNamed
  <2>5. InstanceShape' /\ RefsBalanced'
    BY <2>b, <2>c, Apart DEF wlanVars, boundVars, IInv, Types, BridgeTypes,
       ActorTypes, JobTypes, CardTypes, HandleOrNone, NameOrNone, InstSort,
       PeerSort, JobSort, NoInst, InstanceShape, RefsBalanced, JobOfHolder,
       ResetHolds, Building, SnapshotOfReset, OwnerByStep, Settled
  <2>6. OwnerByStep'
    BY <2>b, <2>c, Apart DEF wlanVars, boundVars, IInv, Types, BridgeTypes,
       ActorTypes, JobTypes, CardTypes, HandleOrNone, NameOrNone, InstSort,
       JobSort, RstSort, NoInst, OwnerByStep, Settled, JobOfHolder, Building,
       SnapshotOfReset, ResetHolds, TargetsNamed, InstanceShape, BuildTarget
  <2>7. FailureKnown'
    BY <2>b, <2>c, Apart DEF wlanVars, boundVars, IInv, Types, BridgeTypes,
       ActorTypes, JobTypes, CardTypes, HandleOrNone, NameOrNone, JobSort,
       PendingSort, FailureKnown, JobOfHolder, Building, OwnerByStep, Settled,
       Errors
  <2>8. GateClosed'
    BY <2>b, <2>c, Apart DEF wlanVars, boundVars, IInv, Types, BridgeTypes,
       ActorTypes, JobTypes, CardTypes, HandleOrNone, NameOrNone, PendingSort,
       ActSort, RstSort, GateClosed, JobOfHolder, RequestNamed, ResetHolds,
       SnapshotOfReset, Building
  <2> QED
    BY <2>1, <2>2, <2>3, <2>4, <2>5, <2>6, <2>7, <2>8 DEF IInv
<1>2. CASE UnloadDrain
  <2>a. /\ pending' \in PendingSort /\ pending'.state = pending.state /\ pending'.on = pending.on
        /\ ~pending'.queued /\ pending'.name = pending.name
    BY <1>2, <1>a DEF UnloadDrain, PendingSort
  <2>b. /\ unload = "drain" /\ act[Worker].pc = "idle" /\ unload' = "drained"
        /\ UNCHANGED <<lock, control, owner, inst, suspended, admitted, act, job, rst, wlanVars,
                       peer, boundVars>>
    BY <1>2 DEF UnloadDrain
  <2>1. Types'
    BY <2>a, <2>b, Apart DEF wlanVars, boundVars, IInv, Types, BridgeTypes,
       ActorTypes, JobTypes, CardTypes, HandleOrNone, NameOrNone, InstSort,
       PeerSort, PendingSort, ActSort, JobSort, RstSort, Errors
  <2>2. RequestNamed'
    BY <2>a, <2>b, Apart DEF wlanVars, boundVars, IInv, Types, ActorTypes,
       RequestNamed, JobOfHolder, ActSort, PendingSort, Building
  <2>3. JobOfHolder' /\ ResetHolds'
    BY <2>a, <2>b, Apart DEF wlanVars, boundVars, IInv, Types, BridgeTypes,
       ActorTypes, JobTypes, CardTypes, HandleOrNone, NameOrNone, JobSort,
       RstSort, JobOfHolder, ResetHolds, Building
  <2>4. SnapshotOfReset' /\ TargetsNamed'
    BY <2>a, <2>b, Apart DEF wlanVars, boundVars, IInv, Types, BridgeTypes,
       ActorTypes, JobTypes, CardTypes, HandleOrNone, NameOrNone, JobSort,
       RstSort, JobOfHolder, ResetHolds, SnapshotOfReset, TargetsNamed,
       Building, Settled, OwnerByStep, RequestNamed
  <2>5. InstanceShape' /\ RefsBalanced'
    BY <2>a, <2>b, Apart DEF wlanVars, boundVars, IInv, Types, BridgeTypes,
       ActorTypes, JobTypes, CardTypes, HandleOrNone, NameOrNone, InstSort,
       PeerSort, JobSort, NoInst, InstanceShape, RefsBalanced, JobOfHolder,
       ResetHolds, Building, SnapshotOfReset, OwnerByStep, Settled
  <2>6. OwnerByStep'
    BY <2>a, <2>b, Apart DEF wlanVars, boundVars, IInv, Types, BridgeTypes,
       ActorTypes, JobTypes, CardTypes, HandleOrNone, NameOrNone, InstSort,
       JobSort, RstSort, NoInst, OwnerByStep, Settled, JobOfHolder, Building,
       SnapshotOfReset, ResetHolds, TargetsNamed, InstanceShape, BuildTarget
  <2>7. FailureKnown'
    BY <2>a, <2>b, Apart DEF wlanVars, boundVars, IInv, Types, BridgeTypes,
       ActorTypes, JobTypes, CardTypes, HandleOrNone, NameOrNone, JobSort,
       PendingSort, FailureKnown, JobOfHolder, Building, OwnerByStep, Settled,
       Errors
  <2>8. GateClosed'
    BY <2>a, <2>b, Apart DEF wlanVars, boundVars, IInv, Types, BridgeTypes,
       ActorTypes, JobTypes, CardTypes, HandleOrNone, NameOrNone, PendingSort,
       ActSort, RstSort, GateClosed, JobOfHolder, RequestNamed, ResetHolds,
       SnapshotOfReset, Building
  <2> QED
    BY <2>1, <2>2, <2>3, <2>4, <2>5, <2>6, <2>7, <2>8 DEF IInv
<1>3. CASE UnloadTeardown
  <2>a. /\ unload = "drained" /\ lock = "free" /\ lock' = "unload" /\ unload' = "done"
        /\ owner' = NoHandle /\ inst' = NoInst /\ suspended' = NoHandle
        /\ pending' = Discarded
        /\ peer' = [peer EXCEPT !.refs = @ - (IF inst.ref THEN 1 ELSE 0)
                                           - (IF suspended # NoHandle THEN 1 ELSE 0)]
        /\ UNCHANGED <<control, admitted, act, job, rst, wlanVars, boundVars>>
    BY <1>3 DEF UnloadTeardown
  <2>b. /\ job.step = "none" /\ job.phase = "none" /\ rst.pc \in {"idle", "down"}
        /\ rst.pc = "down" => rst.kind = "flr"
    BY <2>a DEF IInv, JobOfHolder, ResetHolds, Types, JobTypes, RstSort
  <2>c. pending' \in PendingSort /\ pending'.on = pending.on
        /\ (pending'.state # "none" => pending.state # "none" /\ pending'.name = pending.name)
        /\ (~pending.on /\ pending.state = "none" /\ ~pending.queued => ~pending'.queued)
    BY <2>a, DiscardEffect DEF Calm
  <2>d. peer' \in PeerSort /\ peer'.reg = peer.reg
        /\ peer'.refs = peer.refs - (IF inst.ref THEN 1 ELSE 0)
                                  - (IF suspended # NoHandle THEN 1 ELSE 0)
    <3>1. peer' = [peer EXCEPT !.refs = @ - (IF inst.ref THEN 1 ELSE 0)
                                          - (IF suspended # NoHandle THEN 1 ELSE 0)]
      BY <2>a
    <3> QED
      BY <3>1 DEF IInv, Types, BridgeTypes, PeerSort
  <2>e. /\ unload = "drained" /\ lock = "free" /\ lock' = "unload" /\ unload' = "done"
        /\ owner' = NoHandle /\ inst' = NoInst /\ suspended' = NoHandle
        /\ UNCHANGED <<control, admitted, act, job, rst, wlanVars, boundVars>>
    BY <2>a
  <2>1. Types'
    BY <2>b, <2>c, <2>d, <2>e, DeinitTyped, Apart DEF wlanVars, boundVars,
       IInv, Types, BridgeTypes, ActorTypes, JobTypes, CardTypes, HandleOrNone,
       NameOrNone, InstSort, PeerSort, PendingSort, ActSort, JobSort, RstSort,
       Errors
  <2>2. RequestNamed'
    BY <2>b, <2>c, <2>d, <2>e, DeinitTyped, Apart DEF wlanVars, boundVars,
       IInv, Types, ActorTypes, RequestNamed, JobOfHolder, ActSort,
       PendingSort, Building
  <2>3. JobOfHolder' /\ ResetHolds'
    BY <2>b, <2>c, <2>d, <2>e, DeinitTyped, Apart DEF wlanVars, boundVars,
       IInv, Types, BridgeTypes, ActorTypes, JobTypes, CardTypes, HandleOrNone,
       NameOrNone, JobSort, RstSort, JobOfHolder, ResetHolds, Building
  <2>4. SnapshotOfReset' /\ TargetsNamed'
    BY <2>b, <2>c, <2>d, <2>e, DeinitTyped, Apart DEF wlanVars, boundVars,
       IInv, Types, BridgeTypes, ActorTypes, JobTypes, CardTypes, HandleOrNone,
       NameOrNone, JobSort, RstSort, JobOfHolder, ResetHolds, SnapshotOfReset,
       TargetsNamed, Building, Settled, OwnerByStep, RequestNamed
  <2>5. InstanceShape' /\ RefsBalanced'
    BY <2>b, <2>c, <2>d, <2>e, DeinitTyped, Apart DEF wlanVars, boundVars,
       IInv, Types, BridgeTypes, ActorTypes, JobTypes, CardTypes, HandleOrNone,
       NameOrNone, InstSort, PeerSort, JobSort, NoInst, InstanceShape,
       RefsBalanced, JobOfHolder, ResetHolds, Building, SnapshotOfReset,
       OwnerByStep, Settled
  <2>6. OwnerByStep'
    BY <2>b, <2>c, <2>d, <2>e, DeinitTyped, Apart DEF wlanVars, boundVars,
       IInv, Types, BridgeTypes, ActorTypes, JobTypes, CardTypes, HandleOrNone,
       NameOrNone, InstSort, JobSort, RstSort, NoInst, OwnerByStep, Settled,
       JobOfHolder, Building, SnapshotOfReset, ResetHolds, TargetsNamed,
       InstanceShape, BuildTarget
  <2>7. FailureKnown'
    BY <2>b, <2>c, <2>d, <2>e, DeinitTyped, Apart DEF wlanVars, boundVars,
       IInv, Types, BridgeTypes, ActorTypes, JobTypes, CardTypes, HandleOrNone,
       NameOrNone, JobSort, PendingSort, FailureKnown, JobOfHolder, Building,
       OwnerByStep, Settled, Errors
  <2>8. GateClosed'
    BY <2>b, <2>c, <2>d, <2>e, DeinitTyped, Apart DEF wlanVars, boundVars,
       IInv, Types, BridgeTypes, ActorTypes, JobTypes, CardTypes, HandleOrNone,
       NameOrNone, PendingSort, ActSort, RstSort, GateClosed, JobOfHolder,
       RequestNamed, ResetHolds, SnapshotOfReset, Building
  <2> QED
    BY <2>1, <2>2, <2>3, <2>4, <2>5, <2>6, <2>7, <2>8 DEF IInv
<1> QED
  BY <1>1, <1>2, <1>3

-----------------------------------------------------------------------------
(* The environment. *)
LEMMA LinkChangePreserves ==
  ASSUME IInv, NEW h \in Handles, LinkChange(h)
  PROVE  IInv'
<1>a. ready' \in [Handles -> BOOLEAN] /\ edge' \in [Handles -> BOOLEAN]
  BY DEF LinkChange, IInv, Types, CardTypes
<1>b. UNCHANGED <<lock, control, owner, inst, suspended, pending, admitted, act, job, rst, name,
                  epoch, hw, peer, boundVars, unload>>
  BY DEF LinkChange
<1>1. Types'
  BY <1>a, <1>b, Apart DEF wlanVars, boundVars, IInv, Types, BridgeTypes,
     ActorTypes, JobTypes, CardTypes, HandleOrNone, NameOrNone, InstSort,
     PeerSort, PendingSort, ActSort, JobSort, RstSort, Errors
<1>2. RequestNamed'
  BY <1>a, <1>b, Apart DEF wlanVars, boundVars, IInv, Types, ActorTypes,
     RequestNamed, JobOfHolder, ActSort, PendingSort, Building
<1>3. JobOfHolder' /\ ResetHolds'
  BY <1>a, <1>b, Apart DEF wlanVars, boundVars, IInv, Types, BridgeTypes,
     ActorTypes, JobTypes, CardTypes, HandleOrNone, NameOrNone, JobSort,
     RstSort, JobOfHolder, ResetHolds, Building
<1>4. SnapshotOfReset' /\ TargetsNamed'
  BY <1>a, <1>b, Apart DEF wlanVars, boundVars, IInv, Types, BridgeTypes,
     ActorTypes, JobTypes, CardTypes, HandleOrNone, NameOrNone, JobSort,
     RstSort, JobOfHolder, ResetHolds, SnapshotOfReset, TargetsNamed, Building,
     Settled, OwnerByStep, RequestNamed
<1>5. InstanceShape' /\ RefsBalanced'
  BY <1>a, <1>b, Apart DEF wlanVars, boundVars, IInv, Types, BridgeTypes,
     ActorTypes, JobTypes, CardTypes, HandleOrNone, NameOrNone, InstSort,
     PeerSort, JobSort, NoInst, InstanceShape, RefsBalanced, JobOfHolder,
     ResetHolds, Building, SnapshotOfReset, OwnerByStep, Settled
<1>6. OwnerByStep'
  BY <1>a, <1>b, Apart DEF wlanVars, boundVars, IInv, Types, BridgeTypes,
     ActorTypes, JobTypes, CardTypes, HandleOrNone, NameOrNone, InstSort,
     JobSort, RstSort, NoInst, OwnerByStep, Settled, JobOfHolder, Building,
     SnapshotOfReset, ResetHolds, TargetsNamed, InstanceShape, BuildTarget
<1>7. FailureKnown'
  BY <1>a, <1>b, Apart DEF wlanVars, boundVars, IInv, Types, BridgeTypes,
     ActorTypes, JobTypes, CardTypes, HandleOrNone, NameOrNone, JobSort,
     PendingSort, FailureKnown, JobOfHolder, Building, OwnerByStep, Settled,
     Errors
<1>8. GateClosed'
  BY <1>a, <1>b, Apart DEF wlanVars, boundVars, IInv, Types, BridgeTypes,
     ActorTypes, JobTypes, CardTypes, HandleOrNone, NameOrNone, PendingSort,
     ActSort, RstSort, GateClosed, JobOfHolder, RequestNamed, ResetHolds,
     SnapshotOfReset, Building
<1> QED
  BY <1>1, <1>2, <1>3, <1>4, <1>5, <1>6, <1>7, <1>8 DEF IInv

(* A refresh touches nothing but the active flag. *)
LEMMA RefreshedTyped ==
  ASSUME IInv, inst.h # NoHandle
  PROVE  /\ Refreshed \in InstSort /\ Refreshed.h = inst.h /\ Refreshed.epoch = inst.epoch
         /\ Refreshed.published = inst.published /\ Refreshed.released = inst.released
         /\ Refreshed.work = inst.work /\ Refreshed.ref = inst.ref
<1>1. inst \in InstSort /\ inst.h \in Handles
  BY DEF IInv, Types, BridgeTypes, InstSort, HandleOrNone
<1> DEFINE b == IF inst.released THEN inst.active ELSE inst.published /\ Usable(inst.h)
<1>2. b \in BOOLEAN
  BY <1>1 DEF Usable, IInv, Types, BridgeTypes, PeerSort, CardTypes, InstSort
<1>3. Refreshed = [inst EXCEPT !.active = b]
  BY DEF Refreshed
<1> HIDE DEF b
<1> QED
  BY <1>1, <1>2, <1>3 DEF InstSort

LEMMA LinkEventPreserves ==
  ASSUME IInv, NEW h \in Handles, LinkEvent(h)
  PROVE  IInv'
<1>a. edge' \in [Handles -> BOOLEAN]
  BY DEF LinkEvent, IInv, Types, CardTypes
<1>b. UNCHANGED <<lock, control, owner, suspended, admitted, act, job, rst, name, epoch, ready,
                  hw, peer, boundVars, unload>>
  BY DEF LinkEvent
<1>c. Calm(pending, pending')
  <2>1. pending \in PendingSort /\ name[h] \in NameOrNone /\ inst.published \in BOOLEAN
    BY DEF IInv, Types, CardTypes, BridgeTypes, InstSort
  <2> QED
    BY <2>1, PendingOpsCalm DEF LinkEvent
<1>d. pending' \in PendingSort /\ pending'.on = pending.on
      /\ (pending'.state # "none" => pending.state # "none" /\ pending'.name = pending.name)
      /\ (~pending.on /\ pending.state = "none" /\ ~pending.queued => ~pending'.queued)
  BY <1>c DEF Calm
<1>e. /\ inst' \in InstSort /\ inst'.h = inst.h /\ inst'.epoch = inst.epoch
      /\ inst'.published = inst.published /\ inst'.released = inst.released
      /\ inst'.work = inst.work /\ inst'.ref = inst.ref
      /\ inst.h = NoHandle => inst' = inst
  BY RefreshedTyped, Apart DEF LinkEvent, IInv, Types, BridgeTypes
<1>1. Types'
  BY <1>a, <1>b, <1>d, <1>e, Apart DEF wlanVars, boundVars, IInv, Types,
     BridgeTypes, ActorTypes, JobTypes, CardTypes, HandleOrNone, NameOrNone,
     InstSort, PeerSort, PendingSort, ActSort, JobSort, RstSort, Errors
<1>2. RequestNamed'
  BY <1>a, <1>b, <1>d, <1>e, Apart DEF wlanVars, boundVars, IInv, Types,
     ActorTypes, RequestNamed, JobOfHolder, ActSort, PendingSort, Building
<1>3. JobOfHolder' /\ ResetHolds'
  BY <1>a, <1>b, <1>d, <1>e, Apart DEF wlanVars, boundVars, IInv, Types,
     BridgeTypes, ActorTypes, JobTypes, CardTypes, HandleOrNone, NameOrNone,
     JobSort, RstSort, JobOfHolder, ResetHolds, Building
<1>4. SnapshotOfReset' /\ TargetsNamed'
  BY <1>a, <1>b, <1>d, <1>e, Apart DEF wlanVars, boundVars, IInv, Types,
     BridgeTypes, ActorTypes, JobTypes, CardTypes, HandleOrNone, NameOrNone,
     JobSort, RstSort, JobOfHolder, ResetHolds, SnapshotOfReset, TargetsNamed,
     Building, Settled, OwnerByStep, RequestNamed
<1>5. InstanceShape' /\ RefsBalanced'
  BY <1>a, <1>b, <1>d, <1>e, Apart DEF wlanVars, boundVars, IInv, Types,
     BridgeTypes, ActorTypes, JobTypes, CardTypes, HandleOrNone, NameOrNone,
     InstSort, PeerSort, JobSort, NoInst, InstanceShape, RefsBalanced,
     JobOfHolder, ResetHolds, Building, SnapshotOfReset, OwnerByStep, Settled
<1>6. OwnerByStep'
  BY <1>a, <1>b, <1>d, <1>e, Apart DEF wlanVars, boundVars, IInv, Types,
     BridgeTypes, ActorTypes, JobTypes, CardTypes, HandleOrNone, NameOrNone,
     InstSort, JobSort, RstSort, NoInst, OwnerByStep, Settled, JobOfHolder,
     Building, SnapshotOfReset, ResetHolds, TargetsNamed, InstanceShape,
     BuildTarget
<1>7. FailureKnown'
  BY <1>a, <1>b, <1>d, <1>e, Apart DEF wlanVars, boundVars, IInv, Types,
     BridgeTypes, ActorTypes, JobTypes, CardTypes, HandleOrNone, NameOrNone,
     JobSort, PendingSort, FailureKnown, JobOfHolder, Building, OwnerByStep,
     Settled, Errors
<1>8. GateClosed'
  BY <1>a, <1>b, <1>d, <1>e, Apart DEF wlanVars, boundVars, IInv, Types,
     BridgeTypes, ActorTypes, JobTypes, CardTypes, HandleOrNone, NameOrNone,
     PendingSort, ActSort, RstSort, GateClosed, JobOfHolder, RequestNamed,
     ResetHolds, SnapshotOfReset, Building
<1> QED
  BY <1>1, <1>2, <1>3, <1>4, <1>5, <1>6, <1>7, <1>8 DEF IInv

LEMMA PeerChangePreserves ==
  ASSUME IInv, PeerChange
  PROVE  IInv'
<1>a. peer' \in PeerSort /\ peer'.reg = peer.reg /\ peer'.refs = peer.refs
  BY DEF PeerChange, IInv, Types, BridgeTypes, PeerSort
<1>b. UNCHANGED <<lock, control, owner, inst, suspended, pending, admitted, act, job, rst,
                  wlanVars, boundVars, unload>>
  BY DEF PeerChange
<1>1. Types'
  BY <1>a, <1>b, Apart DEF wlanVars, boundVars, IInv, Types, BridgeTypes,
     ActorTypes, JobTypes, CardTypes, HandleOrNone, NameOrNone, InstSort,
     PeerSort, PendingSort, ActSort, JobSort, RstSort, Errors
<1>2. RequestNamed'
  BY <1>a, <1>b, Apart DEF wlanVars, boundVars, IInv, Types, ActorTypes,
     RequestNamed, JobOfHolder, ActSort, PendingSort, Building
<1>3. JobOfHolder' /\ ResetHolds'
  BY <1>a, <1>b, Apart DEF wlanVars, boundVars, IInv, Types, BridgeTypes,
     ActorTypes, JobTypes, CardTypes, HandleOrNone, NameOrNone, JobSort,
     RstSort, JobOfHolder, ResetHolds, Building
<1>4. SnapshotOfReset' /\ TargetsNamed'
  BY <1>a, <1>b, Apart DEF wlanVars, boundVars, IInv, Types, BridgeTypes,
     ActorTypes, JobTypes, CardTypes, HandleOrNone, NameOrNone, JobSort,
     RstSort, JobOfHolder, ResetHolds, SnapshotOfReset, TargetsNamed, Building,
     Settled, OwnerByStep, RequestNamed
<1>5. InstanceShape' /\ RefsBalanced'
  BY <1>a, <1>b, Apart DEF wlanVars, boundVars, IInv, Types, BridgeTypes,
     ActorTypes, JobTypes, CardTypes, HandleOrNone, NameOrNone, InstSort,
     PeerSort, JobSort, NoInst, InstanceShape, RefsBalanced, JobOfHolder,
     ResetHolds, Building, SnapshotOfReset, OwnerByStep, Settled
<1>6. OwnerByStep'
  BY <1>a, <1>b, Apart DEF wlanVars, boundVars, IInv, Types, BridgeTypes,
     ActorTypes, JobTypes, CardTypes, HandleOrNone, NameOrNone, InstSort,
     JobSort, RstSort, NoInst, OwnerByStep, Settled, JobOfHolder, Building,
     SnapshotOfReset, ResetHolds, TargetsNamed, InstanceShape, BuildTarget
<1>7. FailureKnown'
  BY <1>a, <1>b, Apart DEF wlanVars, boundVars, IInv, Types, BridgeTypes,
     ActorTypes, JobTypes, CardTypes, HandleOrNone, NameOrNone, JobSort,
     PendingSort, FailureKnown, JobOfHolder, Building, OwnerByStep, Settled,
     Errors
<1>8. GateClosed'
  BY <1>a, <1>b, Apart DEF wlanVars, boundVars, IInv, Types, BridgeTypes,
     ActorTypes, JobTypes, CardTypes, HandleOrNone, NameOrNone, PendingSort,
     ActSort, RstSort, GateClosed, JobOfHolder, RequestNamed, ResetHolds,
     SnapshotOfReset, Building
<1> QED
  BY <1>1, <1>2, <1>3, <1>4, <1>5, <1>6, <1>7, <1>8 DEF IInv

LEMMA PeerEventPreserves ==
  ASSUME IInv, PeerEvent
  PROVE  IInv'
<1>a. peer' \in PeerSort /\ peer'.reg = peer.reg /\ peer'.refs = peer.refs
  BY DEF PeerEvent, IInv, Types, BridgeTypes, PeerSort
<1>b. UNCHANGED <<lock, control, owner, suspended, pending, admitted, act, job, rst, wlanVars,
                  boundVars, unload>>
  BY DEF PeerEvent
<1>c. /\ inst' \in InstSort /\ inst'.h = inst.h /\ inst'.epoch = inst.epoch
      /\ inst'.published = inst.published /\ inst'.released = inst.released
      /\ inst'.work = inst.work /\ inst'.ref = inst.ref
      /\ inst.h = NoHandle => inst' = inst
  BY RefreshedTyped DEF PeerEvent, IInv, Types, BridgeTypes
<1>1. Types'
  BY <1>a, <1>b, <1>c, Apart DEF wlanVars, boundVars, IInv, Types,
     BridgeTypes, ActorTypes, JobTypes, CardTypes, HandleOrNone, NameOrNone,
     InstSort, PeerSort, PendingSort, ActSort, JobSort, RstSort, Errors
<1>2. RequestNamed'
  BY <1>a, <1>b, <1>c, Apart DEF wlanVars, boundVars, IInv, Types,
     ActorTypes, RequestNamed, JobOfHolder, ActSort, PendingSort, Building
<1>3. JobOfHolder' /\ ResetHolds'
  BY <1>a, <1>b, <1>c, Apart DEF wlanVars, boundVars, IInv, Types,
     BridgeTypes, ActorTypes, JobTypes, CardTypes, HandleOrNone, NameOrNone,
     JobSort, RstSort, JobOfHolder, ResetHolds, Building
<1>4. SnapshotOfReset' /\ TargetsNamed'
  BY <1>a, <1>b, <1>c, Apart DEF wlanVars, boundVars, IInv, Types,
     BridgeTypes, ActorTypes, JobTypes, CardTypes, HandleOrNone, NameOrNone,
     JobSort, RstSort, JobOfHolder, ResetHolds, SnapshotOfReset, TargetsNamed,
     Building, Settled, OwnerByStep, RequestNamed
<1>5. InstanceShape' /\ RefsBalanced'
  BY <1>a, <1>b, <1>c, Apart DEF wlanVars, boundVars, IInv, Types,
     BridgeTypes, ActorTypes, JobTypes, CardTypes, HandleOrNone, NameOrNone,
     InstSort, PeerSort, JobSort, NoInst, InstanceShape, RefsBalanced,
     JobOfHolder, ResetHolds, Building, SnapshotOfReset, OwnerByStep, Settled
<1>6. OwnerByStep'
  BY <1>a, <1>b, <1>c, Apart DEF wlanVars, boundVars, IInv, Types,
     BridgeTypes, ActorTypes, JobTypes, CardTypes, HandleOrNone, NameOrNone,
     InstSort, JobSort, RstSort, NoInst, OwnerByStep, Settled, JobOfHolder,
     Building, SnapshotOfReset, ResetHolds, TargetsNamed, InstanceShape,
     BuildTarget
<1>7. FailureKnown'
  BY <1>a, <1>b, <1>c, Apart DEF wlanVars, boundVars, IInv, Types,
     BridgeTypes, ActorTypes, JobTypes, CardTypes, HandleOrNone, NameOrNone,
     JobSort, PendingSort, FailureKnown, JobOfHolder, Building, OwnerByStep,
     Settled, Errors
<1>8. GateClosed'
  BY <1>a, <1>b, <1>c, Apart DEF wlanVars, boundVars, IInv, Types,
     BridgeTypes, ActorTypes, JobTypes, CardTypes, HandleOrNone, NameOrNone,
     PendingSort, ActSort, RstSort, GateClosed, JobOfHolder, RequestNamed,
     ResetHolds, SnapshotOfReset, Building
<1> QED
  BY <1>1, <1>2, <1>3, <1>4, <1>5, <1>6, <1>7, <1>8 DEF IInv

LEMMA PeerUnregisterPreserves ==
  ASSUME IInv, PeerUnregister
  PROVE  IInv'
<1>a. peer.reg /\ peer' \in PeerSort /\ ~peer'.reg /\ peer'.refs = peer.refs
  BY DEF PeerUnregister, IInv, Types, BridgeTypes, PeerSort
<1>b. UNCHANGED <<lock, control, owner, suspended, pending, admitted, act, job, rst, wlanVars,
                  boundVars, unload>>
  BY DEF PeerUnregister
<1>c. /\ inst' \in InstSort /\ inst'.h = inst.h /\ inst'.epoch = inst.epoch
      /\ inst'.published = inst.published /\ inst'.ref = inst.ref
      /\ inst.h = NoHandle => inst' = inst
      /\ inst.h # NoHandle => inst'.released /\ inst'.work
  BY DEF PeerUnregister, IInv, Types, BridgeTypes, InstSort
<1>d. inst.h # NoHandle => inst.ref
  BY <1>a DEF IInv, InstanceShape
<1>1. Types'
  BY <1>a, <1>b, <1>c, <1>d, Apart DEF wlanVars, boundVars, IInv, Types,
     BridgeTypes, ActorTypes, JobTypes, CardTypes, HandleOrNone, NameOrNone,
     InstSort, PeerSort, PendingSort, ActSort, JobSort, RstSort, Errors
<1>2. RequestNamed'
  BY <1>a, <1>b, <1>c, <1>d, Apart DEF wlanVars, boundVars, IInv, Types,
     ActorTypes, RequestNamed, JobOfHolder, ActSort, PendingSort, Building
<1>3. JobOfHolder' /\ ResetHolds'
  BY <1>a, <1>b, <1>c, <1>d, Apart DEF wlanVars, boundVars, IInv, Types,
     BridgeTypes, ActorTypes, JobTypes, CardTypes, HandleOrNone, NameOrNone,
     JobSort, RstSort, JobOfHolder, ResetHolds, Building
<1>4. SnapshotOfReset' /\ TargetsNamed'
  BY <1>a, <1>b, <1>c, <1>d, Apart DEF wlanVars, boundVars, IInv, Types,
     BridgeTypes, ActorTypes, JobTypes, CardTypes, HandleOrNone, NameOrNone,
     JobSort, RstSort, JobOfHolder, ResetHolds, SnapshotOfReset, TargetsNamed,
     Building, Settled, OwnerByStep, RequestNamed
<1>5. InstanceShape' /\ RefsBalanced'
  BY <1>a, <1>b, <1>c, <1>d, Apart DEF wlanVars, boundVars, IInv, Types,
     BridgeTypes, ActorTypes, JobTypes, CardTypes, HandleOrNone, NameOrNone,
     InstSort, PeerSort, JobSort, NoInst, InstanceShape, RefsBalanced,
     JobOfHolder, ResetHolds, Building, SnapshotOfReset, OwnerByStep, Settled
<1>6. OwnerByStep'
  BY <1>a, <1>b, <1>c, <1>d, Apart DEF wlanVars, boundVars, IInv, Types,
     BridgeTypes, ActorTypes, JobTypes, CardTypes, HandleOrNone, NameOrNone,
     InstSort, JobSort, RstSort, NoInst, OwnerByStep, Settled, JobOfHolder,
     Building, SnapshotOfReset, ResetHolds, TargetsNamed, InstanceShape,
     BuildTarget
<1>7. FailureKnown'
  BY <1>a, <1>b, <1>c, <1>d, Apart DEF wlanVars, boundVars, IInv, Types,
     BridgeTypes, ActorTypes, JobTypes, CardTypes, HandleOrNone, NameOrNone,
     JobSort, PendingSort, FailureKnown, JobOfHolder, Building, OwnerByStep,
     Settled, Errors
<1>8. GateClosed'
  BY <1>a, <1>b, <1>c, <1>d, Apart DEF wlanVars, boundVars, IInv, Types,
     BridgeTypes, ActorTypes, JobTypes, CardTypes, HandleOrNone, NameOrNone,
     PendingSort, ActSort, RstSort, GateClosed, JobOfHolder, RequestNamed,
     ResetHolds, SnapshotOfReset, Building
<1> QED
  BY <1>1, <1>2, <1>3, <1>4, <1>5, <1>6, <1>7, <1>8 DEF IInv

LEMMA PeerReleaseWorkPreserves ==
  ASSUME IInv, PeerReleaseWork
  PROVE  IInv'
<1>a. inst.work /\ inst.ref /\ inst.h # NoHandle
  BY DeinitTyped DEF PeerReleaseWork, IInv, InstanceShape
<1>b. UNCHANGED <<lock, control, owner, suspended, pending, admitted, act, job, rst, wlanVars,
                  boundVars, unload>>
  BY DEF PeerReleaseWork
<1>c. /\ inst' \in InstSort /\ inst'.h = inst.h /\ inst'.epoch = inst.epoch
      /\ inst'.published = inst.published /\ inst'.released = inst.released
      /\ ~inst'.work /\ ~inst'.ref
  BY DEF PeerReleaseWork, IInv, Types, BridgeTypes, InstSort
<1>d. peer' \in PeerSort /\ peer'.reg = peer.reg /\ peer'.refs = peer.refs - 1
  BY DEF PeerReleaseWork, IInv, Types, BridgeTypes, PeerSort
<1>e. inst.released
  BY <1>a DEF IInv, InstanceShape
<1>1. Types'
  BY <1>a, <1>b, <1>c, <1>d, <1>e, Apart DEF wlanVars, boundVars, IInv,
     Types, BridgeTypes, ActorTypes, JobTypes, CardTypes, HandleOrNone,
     NameOrNone, InstSort, PeerSort, PendingSort, ActSort, JobSort, RstSort,
     Errors
<1>2. RequestNamed'
  BY <1>a, <1>b, <1>c, <1>d, <1>e, Apart DEF wlanVars, boundVars, IInv,
     Types, ActorTypes, RequestNamed, JobOfHolder, ActSort, PendingSort,
     Building
<1>3. JobOfHolder' /\ ResetHolds'
  BY <1>a, <1>b, <1>c, <1>d, <1>e, Apart DEF wlanVars, boundVars, IInv,
     Types, BridgeTypes, ActorTypes, JobTypes, CardTypes, HandleOrNone,
     NameOrNone, JobSort, RstSort, JobOfHolder, ResetHolds, Building
<1>4. SnapshotOfReset' /\ TargetsNamed'
  BY <1>a, <1>b, <1>c, <1>d, <1>e, Apart DEF wlanVars, boundVars, IInv,
     Types, BridgeTypes, ActorTypes, JobTypes, CardTypes, HandleOrNone,
     NameOrNone, JobSort, RstSort, JobOfHolder, ResetHolds, SnapshotOfReset,
     TargetsNamed, Building, Settled, OwnerByStep, RequestNamed
<1>5. InstanceShape' /\ RefsBalanced'
  BY <1>a, <1>b, <1>c, <1>d, <1>e, Apart DEF wlanVars, boundVars, IInv,
     Types, BridgeTypes, ActorTypes, JobTypes, CardTypes, HandleOrNone,
     NameOrNone, InstSort, PeerSort, JobSort, NoInst, InstanceShape,
     RefsBalanced, JobOfHolder, ResetHolds, Building, SnapshotOfReset,
     OwnerByStep, Settled
<1>6. OwnerByStep'
  BY <1>a, <1>b, <1>c, <1>d, <1>e, Apart DEF wlanVars, boundVars, IInv,
     Types, BridgeTypes, ActorTypes, JobTypes, CardTypes, HandleOrNone,
     NameOrNone, InstSort, JobSort, RstSort, NoInst, OwnerByStep, Settled,
     JobOfHolder, Building, SnapshotOfReset, ResetHolds, TargetsNamed,
     InstanceShape, BuildTarget
<1>7. FailureKnown'
  BY <1>a, <1>b, <1>c, <1>d, <1>e, Apart DEF wlanVars, boundVars, IInv,
     Types, BridgeTypes, ActorTypes, JobTypes, CardTypes, HandleOrNone,
     NameOrNone, JobSort, PendingSort, FailureKnown, JobOfHolder, Building,
     OwnerByStep, Settled, Errors
<1>8. GateClosed'
  BY <1>a, <1>b, <1>c, <1>d, <1>e, Apart DEF wlanVars, boundVars, IInv,
     Types, BridgeTypes, ActorTypes, JobTypes, CardTypes, HandleOrNone,
     NameOrNone, PendingSort, ActSort, RstSort, GateClosed, JobOfHolder,
     RequestNamed, ResetHolds, SnapshotOfReset, Building
<1> QED
  BY <1>1, <1>2, <1>3, <1>4, <1>5, <1>6, <1>7, <1>8 DEF IInv

LEMMA RenamePreserves ==
  ASSUME IInv, NEW h \in Handles, NEW n \in Names, Rename(h, n)
  PROVE  IInv'
<1>a. /\ name[h] # NoName /\ name' = [name EXCEPT ![h] = n]
      /\ pending' = PendingRenamed(pending, name')
      /\ UNCHANGED <<lock, control, owner, inst, suspended, admitted, act, job, rst, epoch,
                     ready, edge, hw, peer, boundVars, unload>>
  BY DEF Rename
<1>b. Calm(pending, pending')
  <2>1. pending \in PendingSort /\ NoName \in NameOrNone
    BY DEF IInv, Types, NameOrNone
  <2> QED
    BY <1>a, <2>1, PendingOpsCalm
<1>c. pending' \in PendingSort /\ pending'.on = pending.on
      /\ (pending'.state # "none" => pending.state # "none" /\ pending'.name = pending.name)
      /\ (~pending.on /\ pending.state = "none" /\ ~pending.queued => ~pending'.queued)
  BY <1>b DEF Calm
<1>d. /\ name' \in [Handles -> NameOrNone]
      /\ \A k \in Handles : name'[k] = NoName <=> name[k] = NoName
  BY <1>a, Apart DEF IInv, Types, CardTypes, NameOrNone
<1>e. UNCHANGED <<lock, control, owner, inst, suspended, admitted, act, job, rst, epoch, ready,
                  edge, hw, peer, boundVars, unload>>
  BY <1>a
<1>1. Types'
  BY <1>c, <1>d, <1>e, Apart DEF wlanVars, boundVars, IInv, Types,
     BridgeTypes, ActorTypes, JobTypes, CardTypes, HandleOrNone, NameOrNone,
     InstSort, PeerSort, PendingSort, ActSort, JobSort, RstSort, Errors
<1>2. RequestNamed'
  BY <1>c, <1>d, <1>e, Apart DEF wlanVars, boundVars, IInv, Types,
     ActorTypes, RequestNamed, JobOfHolder, ActSort, PendingSort, Building
<1>3. JobOfHolder' /\ ResetHolds'
  BY <1>c, <1>d, <1>e, Apart DEF wlanVars, boundVars, IInv, Types,
     BridgeTypes, ActorTypes, JobTypes, CardTypes, HandleOrNone, NameOrNone,
     JobSort, RstSort, JobOfHolder, ResetHolds, Building
<1>4. SnapshotOfReset' /\ TargetsNamed'
  BY <1>c, <1>d, <1>e, Apart DEF wlanVars, boundVars, IInv, Types,
     BridgeTypes, ActorTypes, JobTypes, CardTypes, HandleOrNone, NameOrNone,
     JobSort, RstSort, JobOfHolder, ResetHolds, SnapshotOfReset, TargetsNamed,
     Building, Settled, OwnerByStep, RequestNamed
<1>5. InstanceShape' /\ RefsBalanced'
  BY <1>c, <1>d, <1>e, Apart DEF wlanVars, boundVars, IInv, Types,
     BridgeTypes, ActorTypes, JobTypes, CardTypes, HandleOrNone, NameOrNone,
     InstSort, PeerSort, JobSort, NoInst, InstanceShape, RefsBalanced,
     JobOfHolder, ResetHolds, Building, SnapshotOfReset, OwnerByStep, Settled
<1>6. OwnerByStep'
  BY <1>c, <1>d, <1>e, PhaseOfHolder, Apart DEF wlanVars, boundVars, IInv,
     Types, BridgeTypes, ActorTypes, JobTypes, CardTypes, HandleOrNone,
     NameOrNone, InstSort, JobSort, RstSort, NoInst, OwnerByStep, Settled,
     JobOfHolder, Building, SnapshotOfReset, ResetHolds, TargetsNamed,
     InstanceShape, BuildTarget
<1>7. FailureKnown'
  BY <1>c, <1>d, <1>e, Apart DEF wlanVars, boundVars, IInv, Types,
     BridgeTypes, ActorTypes, JobTypes, CardTypes, HandleOrNone, NameOrNone,
     JobSort, PendingSort, FailureKnown, JobOfHolder, Building, OwnerByStep,
     Settled, Errors
<1>8. GateClosed'
  BY <1>c, <1>d, <1>e, Apart DEF wlanVars, boundVars, IInv, Types,
     BridgeTypes, ActorTypes, JobTypes, CardTypes, HandleOrNone, NameOrNone,
     PendingSort, ActSort, RstSort, GateClosed, JobOfHolder, RequestNamed,
     ResetHolds, SnapshotOfReset, Building
<1> QED
  BY <1>1, <1>2, <1>3, <1>4, <1>5, <1>6, <1>7, <1>8 DEF IInv

LEMMA FwHangPreserves ==
  ASSUME IInv, NEW h \in Handles, FwHang(h)
  PROVE  IInv'
<1>a. hw' \in [Handles -> BOOLEAN]
  BY DEF FwHang, IInv, Types, CardTypes
<1>b. UNCHANGED <<lock, control, owner, inst, suspended, pending, admitted, act, job, rst, name,
                  epoch, ready, edge, peer, boundVars, unload>>
  BY DEF FwHang
<1>1. Types'
  BY <1>a, <1>b, Apart DEF wlanVars, boundVars, IInv, Types, BridgeTypes,
     ActorTypes, JobTypes, CardTypes, HandleOrNone, NameOrNone, InstSort,
     PeerSort, PendingSort, ActSort, JobSort, RstSort, Errors
<1>2. RequestNamed'
  BY <1>a, <1>b, Apart DEF wlanVars, boundVars, IInv, Types, ActorTypes,
     RequestNamed, JobOfHolder, ActSort, PendingSort, Building
<1>3. JobOfHolder' /\ ResetHolds'
  BY <1>a, <1>b, Apart DEF wlanVars, boundVars, IInv, Types, BridgeTypes,
     ActorTypes, JobTypes, CardTypes, HandleOrNone, NameOrNone, JobSort,
     RstSort, JobOfHolder, ResetHolds, Building
<1>4. SnapshotOfReset' /\ TargetsNamed'
  BY <1>a, <1>b, Apart DEF wlanVars, boundVars, IInv, Types, BridgeTypes,
     ActorTypes, JobTypes, CardTypes, HandleOrNone, NameOrNone, JobSort,
     RstSort, JobOfHolder, ResetHolds, SnapshotOfReset, TargetsNamed, Building,
     Settled, OwnerByStep, RequestNamed
<1>5. InstanceShape' /\ RefsBalanced'
  BY <1>a, <1>b, Apart DEF wlanVars, boundVars, IInv, Types, BridgeTypes,
     ActorTypes, JobTypes, CardTypes, HandleOrNone, NameOrNone, InstSort,
     PeerSort, JobSort, NoInst, InstanceShape, RefsBalanced, JobOfHolder,
     ResetHolds, Building, SnapshotOfReset, OwnerByStep, Settled
<1>6. OwnerByStep'
  BY <1>a, <1>b, Apart DEF wlanVars, boundVars, IInv, Types, BridgeTypes,
     ActorTypes, JobTypes, CardTypes, HandleOrNone, NameOrNone, InstSort,
     JobSort, RstSort, NoInst, OwnerByStep, Settled, JobOfHolder, Building,
     SnapshotOfReset, ResetHolds, TargetsNamed, InstanceShape, BuildTarget
<1>7. FailureKnown'
  BY <1>a, <1>b, Apart DEF wlanVars, boundVars, IInv, Types, BridgeTypes,
     ActorTypes, JobTypes, CardTypes, HandleOrNone, NameOrNone, JobSort,
     PendingSort, FailureKnown, JobOfHolder, Building, OwnerByStep, Settled,
     Errors
<1>8. GateClosed'
  BY <1>a, <1>b, Apart DEF wlanVars, boundVars, IInv, Types, BridgeTypes,
     ActorTypes, JobTypes, CardTypes, HandleOrNone, NameOrNone, PendingSort,
     ActSort, RstSort, GateClosed, JobOfHolder, RequestNamed, ResetHolds,
     SnapshotOfReset, Building
<1> QED
  BY <1>1, <1>2, <1>3, <1>4, <1>5, <1>6, <1>7, <1>8 DEF IInv

-----------------------------------------------------------------------------
(* IInv holds when the module is loaded and every step keeps it. *)
LEMMA InitIInv == Init => IInv
<1> SUFFICES ASSUME Init PROVE IInv
  OBVIOUS
<1>a. /\ lock = "free" /\ control = TRUE /\ unload = "no" /\ owner = FirstOwner
      /\ suspended = NoHandle /\ job = NoJob /\ admitted = NoDev
      /\ rst = [pc |-> "idle", h |-> NoHandle, kind |-> "none"]
      /\ act = [a \in Actors |-> Idle]
  BY DEF Init
<1>b. /\ inst \in InstSort /\ inst.h = FirstOwner /\ inst.epoch = 0 /\ inst.published
      /\ inst.ref /\ ~inst.work /\ ~inst.released
  BY Apart DEF Init, NoInst, InstSort, HandleOrNone
<1>c. peer \in PeerSort /\ peer.reg /\ peer.refs = 1
  BY DEF Init, PeerSort
<1>d. pending \in PendingSort /\ pending.state = "none" /\ pending.on
  BY DEF Init, PendingSort, NameOrNone
<1>e. act \in [Actors -> ActSort] /\ \A a \in Actors : act[a].pc = "idle"
  <2>1. Idle \in ActSort /\ Idle.pc = "idle"
    BY DEF ActSort, Idle, NameOrNone, Errors
  <2> QED
    BY <1>a, <2>1
<1>f. job \in JobSort /\ job.step = "none" /\ job.phase = "none" /\ job.ret = "0"
      /\ rst \in RstSort /\ rst.pc = "idle"
  BY <1>a DEF NoJob, JobSort, RstSort, HandleOrNone, NameOrNone, Errors
<1>g. /\ CardTypes /\ epoch[FirstOwner] = 0 /\ name[FirstOwner] # NoName
  BY Apart DEF Init, CardTypes, NameOrNone
<1>h. control \in BOOLEAN /\ admitted \in HandleOrNone \X Nat
  BY <1>a DEF NoDev, HandleOrNone
<1>1. Types
  BY <1>a, <1>b, <1>c, <1>d, <1>e, <1>f, <1>g, <1>h, Apart DEF Types, BridgeTypes, ActorTypes,
     JobTypes, HandleOrNone
<1>2. RequestNamed /\ JobOfHolder /\ ResetHolds /\ SnapshotOfReset /\ TargetsNamed
  BY <1>a, <1>d, <1>e, <1>f, Apart DEF RequestNamed, JobOfHolder, ResetHolds, SnapshotOfReset,
     TargetsNamed
<1>3. InstanceShape /\ RefsBalanced
  BY <1>a, <1>b, <1>c, <1>f, Apart DEF InstanceShape, RefsBalanced
<1>4. OwnerByStep /\ FailureKnown
  BY <1>a, <1>b, <1>f, <1>g DEF OwnerByStep, Settled, FailureKnown
<1>5. GateClosed
  BY <1>a, <1>d DEF GateClosed
<1> QED
  BY <1>1, <1>2, <1>3, <1>4, <1>5 DEF IInv

LEMMA NextIInv == IInv /\ [Next]_vars => IInv'
<1> SUFFICES ASSUME IInv, [Next]_vars PROVE IInv'
  OBVIOUS
<1>1. CASE \E w \in Writers : Interrupted(w) \/ \E n \in Names : Write(w, n)
  BY <1>1, InterruptedPreserves, WritePreserves
<1>2. CASE \E a \in Actors : Acquire(a) \/ RequestStep(a)
  BY <1>2, AcquirePreserves, ResolvePreserves, DeferPreserves, PutPreserves DEF RequestStep
<1>3. CASE WorkStart \/ Post
  BY <1>3, WorkStartPreserves, PostPreserves
<1>4. CASE Transaction
  BY <1>4, TransactionPreserves
<1>5. CASE \/ \E h \in Handles, kind \in {"flr", "reload"} :
                ResetSuspend(h, kind) \/ ResetRefused(h, kind)
           \/ ResetStep \/ ResetFail
  BY <1>5, ResetPreserves
<1>6. CASE \E h \in Handles : CardRemove(h) \/ \E n \in Names : CardAdd(h, n)
  BY <1>6, CardRemovePreserves, CardAddPreserves
<1>7. CASE UnloadDisable \/ UnloadDrain \/ UnloadTeardown
  BY <1>7, UnloadPreserves
<1>8. CASE \E h \in Handles : LinkChange(h) \/ LinkEvent(h) \/ FwHang(h)
  BY <1>8, LinkChangePreserves, LinkEventPreserves, FwHangPreserves
<1>9. CASE \E h \in Handles, n \in Names : Rename(h, n)
  BY <1>9, RenamePreserves
<1>10. CASE PeerChange \/ PeerEvent \/ PeerUnregister \/ PeerReleaseWork
  BY <1>10, PeerChangePreserves, PeerEventPreserves, PeerUnregisterPreserves,
     PeerReleaseWorkPreserves
<1>11. CASE UNCHANGED vars
  <2>1. Types'
    BY <1>11, Apart DEF vars, wlanVars, boundVars, IInv, Types, BridgeTypes,
       ActorTypes, JobTypes, CardTypes, HandleOrNone, NameOrNone, InstSort,
       PeerSort, PendingSort, ActSort, JobSort, RstSort, Errors
  <2>2. RequestNamed'
    BY <1>11, Apart DEF vars, wlanVars, boundVars, IInv, Types, ActorTypes,
       RequestNamed, JobOfHolder, ActSort, PendingSort, Building
  <2>3. JobOfHolder' /\ ResetHolds'
    BY <1>11, Apart DEF vars, wlanVars, boundVars, IInv, Types, BridgeTypes,
       ActorTypes, JobTypes, CardTypes, HandleOrNone, NameOrNone, JobSort,
       RstSort, JobOfHolder, ResetHolds, Building
  <2>4. SnapshotOfReset' /\ TargetsNamed'
    BY <1>11, Apart DEF vars, wlanVars, boundVars, IInv, Types, BridgeTypes,
       ActorTypes, JobTypes, CardTypes, HandleOrNone, NameOrNone, JobSort,
       RstSort, JobOfHolder, ResetHolds, SnapshotOfReset, TargetsNamed,
       Building, Settled, OwnerByStep, RequestNamed
  <2>5. InstanceShape' /\ RefsBalanced'
    BY <1>11, Apart DEF vars, wlanVars, boundVars, IInv, Types, BridgeTypes,
       ActorTypes, JobTypes, CardTypes, HandleOrNone, NameOrNone, InstSort,
       PeerSort, JobSort, NoInst, InstanceShape, RefsBalanced, JobOfHolder,
       ResetHolds, Building, SnapshotOfReset, OwnerByStep, Settled
  <2>6. OwnerByStep'
    BY <1>11, Apart DEF vars, wlanVars, boundVars, IInv, Types, BridgeTypes,
       ActorTypes, JobTypes, CardTypes, HandleOrNone, NameOrNone, InstSort,
       JobSort, RstSort, NoInst, OwnerByStep, Settled, JobOfHolder, Building,
       SnapshotOfReset, ResetHolds, TargetsNamed, InstanceShape, BuildTarget
  <2>7. FailureKnown'
    BY <1>11, Apart DEF vars, wlanVars, boundVars, IInv, Types, BridgeTypes,
       ActorTypes, JobTypes, CardTypes, HandleOrNone, NameOrNone, JobSort,
       PendingSort, FailureKnown, JobOfHolder, Building, OwnerByStep, Settled,
       Errors
  <2>8. GateClosed'
    BY <1>11, Apart DEF vars, wlanVars, boundVars, IInv, Types, BridgeTypes,
       ActorTypes, JobTypes, CardTypes, HandleOrNone, NameOrNone, PendingSort,
       ActSort, RstSort, GateClosed, JobOfHolder, RequestNamed, ResetHolds,
       SnapshotOfReset, Building
  <2> QED
    BY <2>1, <2>2, <2>3, <2>4, <2>5, <2>6, <2>7, <2>8 DEF IInv
<1> QED
  BY <1>1, <1>2, <1>3, <1>4, <1>5, <1>6, <1>7, <1>8, <1>9, <1>10, <1>11 DEF Next

LEMMA IInvInvariant == Spec => []IInv
BY InitIInv, NextIInv, PTL DEF Spec

-----------------------------------------------------------------------------
(* Every variable stays within its type; in particular the peer's count of *)
(* references is never driven below zero.                                  *)
THEOREM TypeCorrect == Spec => []TypeOK
<1>1. IInv => TypeOK
  <2> SUFFICES ASSUME IInv PROVE TypeOK
    OBVIOUS
  <2>1. peer.refs \in Nat
    BY DEF IInv, RefsBalanced
  <2>2. peer \in [reg : BOOLEAN, ready : BOOLEAN, edge : BOOLEAN, refs : Nat]
    BY <2>1 DEF IInv, Types, BridgeTypes, PeerSort
  <2> QED
    BY <2>2 DEF TypeOK, IInv, Types, BridgeTypes, ActorTypes, JobTypes, CardTypes, InstSort,
       PendingSort, ActSort, JobSort, RstSort
<1> QED
  BY <1>1, IInvInvariant, PTL

(* Whatever the interleaving of switches, resets, hotplug and unload, the  *)
(* references on the peer are those of the instance, the suspended-owner   *)
(* snapshot and the transaction, no more and no fewer.                     *)
THEOREM ReferencesBalance == Spec => []RefsBalanced
<1>1. IInv => RefsBalanced
  BY DEF IInv
<1> QED
  BY <1>1, IInvInvariant, PTL

(* Outside a transaction bridge_owner and the one instance agree, on the   *)
(* netdev the handle has now.                                              *)
THEOREM OwnerKeepsInstance == Spec => []OwnerHasInstance
<1>1. IInv => OwnerHasInstance
  BY DEF IInv, OwnerByStep, Settled, OwnerHasInstance
<1> QED
  BY <1>1, IInvInvariant, PTL

(* A request that reports an error leaves the owner it found; one that     *)
(* lost it leaves neither owner nor request.                               *)
THEOREM FailureKeepsOwner == Spec => []FailedSwitchKeepsOwner
<1>1. IInv => FailedSwitchKeepsOwner
  BY DEF IInv, FailureKnown, FailedSwitchKeepsOwner
<1> QED
  BY <1>1, IInvInvariant, PTL

(* After the drain of moal_bridge_pending_cleanup no work is or becomes    *)
(* scheduled, and after the teardown nothing of the bridge is left.        *)
THEOREM UnloadStaysQuiet == Spec => []UnloadQuiet
<1>1. IInv => UnloadQuiet
  <2> SUFFICES ASSUME IInv PROVE UnloadQuiet
    OBVIOUS
  <2>1. unload \in {"drained", "done"} =>
          act[Worker].pc = "idle" /\ ~pending.queued /\ pending.state = "none"
    BY DEF IInv, GateClosed
  <2>2. ASSUME unload = "done"
        PROVE  owner = NoHandle /\ inst.h = NoHandle /\ peer.refs = 0
    <3>1. /\ owner = NoHandle /\ suspended = NoHandle /\ lock = "unload"
          /\ job.step = "none" /\ job.phase = "none"
      BY <2>2 DEF IInv, GateClosed, JobOfHolder
    <3>2. inst.h = NoHandle /\ ~inst.ref
      BY <3>1, DeinitTyped DEF IInv, OwnerByStep, Settled, InstanceShape
    <3> QED
      BY <3>1, <3>2, Apart DEF IInv, RefsBalanced
  <2> QED
    BY <2>1, <2>2 DEF UnloadQuiet
<1> QED
  BY <1>1, IInvInvariant, PTL
=============================================================================
