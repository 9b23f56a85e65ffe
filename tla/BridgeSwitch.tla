---------------------------- MODULE BridgeSwitch ----------------------------
(***************************************************************************)
(* The runtime bridge switch (moal_bridge.c): bridge_iface writers, the    *)
(* retained ("deferred") request and its worker, the transactional         *)
(* teardown / init / validate / rollback, and the reset, card and module   *)
(* paths that suspend, resume, discard or forget the bridge owner.         *)
(*                                                                         *)
(* Everything that changes the owner runs under AddRemoveCardSem and       *)
(* bridge_lifecycle_lock, which are always taken together here: one `lock'.*)
(* A step of its holder is one RTNL section or one stretch without RTNL;   *)
(* netdevice events run under RTNL and so fall between two such steps.     *)
(* Every operation on bridge_pending is one section of its spinlock and is *)
(* a function from the old to the new request record.                      *)
(*                                                                         *)
(* A handle has one STA interface; running, associated and carrier are one *)
(* `ready' flag, and the notification of a change follows the change.      *)
(***************************************************************************)
EXTENDS Integers, FiniteSets

CONSTANTS
  Handles,      \* moal_handle of a card
  Names,        \* interface names
  Writers,      \* processes writing the bridge_iface parameter
  Worker,       \* bridge_pending_work
  NoHandle, NoName,
  FirstOwner,   \* the handle bridged when the model starts
  AutoBridge,   \* handles whose bridge_mode binds the bridge when the card is added
  Scenarios,    \* sets of disturbances that may meet in one behaviour
  MaxWrites,    \* bound: bridge_iface writes
  MaxRebuilds   \* bound: resets and card additions

ASSUME SwitchAssumption ==
  /\ FirstOwner \in Handles /\ AutoBridge \subseteq Handles
  /\ NoHandle \notin Handles /\ NoName \notin Names
  /\ Worker \notin Writers
  /\ Writers \cap {"free", "reset", "card", "unload"} = {}
  /\ Worker \notin {"free", "reset", "card", "unload"}
  /\ Cardinality(Handles) <= Cardinality(Names)
  /\ MaxWrites \in Nat /\ MaxRebuilds \in Nat
  /\ Scenarios # {}
  /\ UNION Scenarios \subseteq {"link_down", "peer_down", "peer_gone", "rename", "no_memory",
                       "fw_hang", "flr", "reload", "reset_fail", "hotplug", "unload"}

Actors == Writers \cup {Worker}

VARIABLES
  lock,       \* holder of AddRemoveCardSem and bridge_lifecycle_lock
  control,    \* bridge_runtime_control_ready
  owner,      \* bridge_owner
  inst,       \* the only struct moal_bridge (bridge_instance_active)
  suspended,  \* bridge_suspended_owner.handle, NoHandle when not valid
  pending,    \* bridge_pending, its event flag and admission gate, its work item
  admitted,   \* history: the netdevice that bore the retained name at admission
  act,        \* every actor's progress, argument, generation and result
  job,        \* the lock holder's transaction
  rst,        \* the reset path in progress
  name, epoch, ready, edge, hw,   \* per handle: the STA netdev and the card
  peer,       \* the peer netdev and its reference count
  faults,     \* the scenario of this behaviour
  writes, rebuilds, unload

wlanVars == <<name, epoch, ready, edge, hw>>
boundVars == <<writes, rebuilds, faults>>
vars == <<lock, control, owner, inst, suspended, pending, admitted, act, job, rst,
          wlanVars, peer, boundVars, unload>>

NoInst == [h |-> NoHandle, epoch |-> 0, published |-> FALSE, active |-> FALSE,
           released |-> FALSE, work |-> FALSE, ref |-> FALSE]
Idle   == [pc |-> "idle", name |-> NoName, gen |-> 0, ret |-> "0"]
NoJob  == [step |-> "none", phase |-> "none", tgt |-> NoHandle, old |-> NoHandle,
           snapName |-> NoName, snapGen |-> 0, snapSet |-> FALSE, ret |-> "0"]

\* The handle whose netdev bears the name n (find_target, __dev_get_by_name).
Bearers(names, n) == {h \in Handles : names[h] = n}
Dev(h) == <<h, epoch[h]>>
NoDev  == <<NoHandle, 0>>

\* moal_bridge_dev_ready of both ends and media_connected.
Usable(h) == ready[h] /\ peer.ready

-----------------------------------------------------------------------------
(* bridge_pending: one operator per section of bridge_pending_lock.         *)

PendingMatches(P, n, g) == P.state # "none" /\ P.gen = g /\ P.name = n

Cleared(P) ==
  [P EXCEPT !.state = "none", !.name = NoName, !.gen = @ + 1, !.during = FALSE]

\* Mutants of pending_set: no recheck after admission; no admission gate.
PendingSetNoRecheck(P, n) ==
  IF P.on THEN [P EXCEPT !.state = "waiting", !.name = n, !.gen = @ + 1, !.during = FALSE] ELSE P
PendingSetUngated(P, n) ==
  [P EXCEPT !.state = "waiting", !.name = n, !.gen = @ + 1, !.during = FALSE, !.queued = TRUE]

PendingSet(P, n) ==
  IF P.on
    THEN [P EXCEPT !.state = "waiting", !.name = n, !.gen = @ + 1,
                   !.during = FALSE, !.queued = TRUE]
    ELSE P

PendingClearIf(P, n, g) == IF PendingMatches(P, n, g) THEN Cleared(P) ELSE P

\* Mutant: the terminal cancellation is forgotten.
PendingCancelNone(P) == P

PendingCancelAll(P) == IF P.state # "none" THEN Cleared(P) ELSE P

PendingBeginAttempt(P) == [P EXCEPT !.state = "switching", !.during = FALSE]

\* Only an edge seen while switching schedules the work again.
PendingRestoreWaiting(P, n, g) ==
  IF P.state = "switching" /\ P.gen = g /\ P.name = n
    THEN [P EXCEPT !.state = "waiting", !.during = FALSE,
                   !.queued = @ \/ (P.during /\ P.on)]
    ELSE P

PendingKick(P) ==
  [P EXCEPT !.queued = @ \/ (P.on /\ P.state = "waiting")]

\* NETDEV_UP / NETDEV_CHANGE of the interface named n.
PendingReadiness(P, n, published) ==
  IF P.on /\ published /\ P.state # "none" /\ P.name = n
    THEN [P EXCEPT !.queued = @ \/ P.state = "waiting",
                   !.during = @ \/ P.state = "switching"]
    ELSE P

\* NETDEV_CHANGENAME: the retained name no longer resolves.
PendingRenamed(P, names) ==
  IF P.on /\ P.state # "none" /\ Bearers(names, P.name) = {} THEN Cleared(P) ELSE P

\* NETDEV_UNREGISTER of the interface named n.
PendingUnregistered(P, n) ==
  IF P.on /\ P.state # "none" /\ P.name = n THEN Cleared(P) ELSE P

-----------------------------------------------------------------------------
Init ==
  /\ lock = "free" /\ control = TRUE /\ unload = "no"
  /\ owner = FirstOwner
  /\ name \in [Handles -> Names]
  /\ \A g, h \in Handles : name[g] = name[h] => g = h
  /\ epoch = [h \in Handles |-> 0]
  /\ ready = [h \in Handles |-> h = FirstOwner]
  /\ edge = [h \in Handles |-> FALSE]
  /\ hw = [h \in Handles |-> TRUE]
  /\ inst = [NoInst EXCEPT !.h = FirstOwner, !.published = TRUE, !.active = TRUE, !.ref = TRUE]
  /\ peer = [reg |-> TRUE, ready |-> TRUE, edge |-> FALSE, refs |-> 1]
  /\ suspended = NoHandle
  /\ pending = [state |-> "none", name |-> NoName, gen |-> 0, during |-> FALSE,
                queued |-> FALSE, on |-> TRUE]
  /\ admitted = NoDev
  /\ act = [a \in Actors |-> Idle]
  /\ job = NoJob
  /\ rst = [pc |-> "idle", h |-> NoHandle, kind |-> "none"]
  /\ faults \in Scenarios /\ writes = 0 /\ rebuilds = 0

-----------------------------------------------------------------------------
(* Callers of moal_bridge_switch_iface_request.                             *)

Write(w, n) ==
  /\ act[w].pc = "idle" /\ control /\ writes < MaxWrites
  /\ act' = [act EXCEPT ![w] = [pc |-> "lock", name |-> n, gen |-> 0, ret |-> "0"]]
  /\ writes' = writes + 1
  /\ UNCHANGED <<lock, control, owner, inst, suspended, pending, admitted, job, rst, wlanVars,
                 peer, rebuilds, faults, unload>>

\* A signal ends the writer's down_interruptible (-ERESTARTSYS).
Interrupted(w) ==
  /\ act[w].pc = "lock"
  /\ act' = [act EXCEPT ![w] = Idle]
  /\ UNCHANGED <<lock, control, owner, inst, suspended, pending, admitted, job, rst, wlanVars,
                 peer, boundVars, unload>>

\* moal_bridge_pending_work_fn up to the request.
WorkStart ==
  /\ act[Worker].pc = "idle" /\ pending.queued
  /\ LET P == [pending EXCEPT !.queued = FALSE] IN
       IF P.state = "waiting"
         THEN /\ pending' = PendingBeginAttempt(P)
              /\ act' = [act EXCEPT ![Worker] = [pc |-> IF control THEN "lock" ELSE "post",
                           name |-> P.name, gen |-> P.gen,
                           ret |-> IF control THEN "0" ELSE "EAGAIN"]]
         ELSE pending' = P /\ UNCHANGED act
  /\ UNCHANGED <<lock, control, owner, inst, suspended, admitted, job, rst, wlanVars, peer,
                 boundVars, unload>>

Return(a, ret) ==
  act' = [act EXCEPT ![a] = IF a = Worker THEN [@ EXCEPT !.pc = "post", !.ret = ret] ELSE Idle]

\* The checks between the semaphore and RTNL.
Refusal(a) ==
  IF ~control THEN "ESHUTDOWN"
  ELSE IF a = Worker /\ ~PendingMatches(pending, act[a].name, act[a].gen) THEN "ECANCELED"
  ELSE IF owner = NoHandle THEN (IF a = Worker THEN "EAGAIN" ELSE "ENODEV")
  ELSE "0"

Acquire(a) ==
  /\ act[a].pc = "lock" /\ lock = "free"
  /\ IF Refusal(a) # "0"
       THEN Return(a, Refusal(a)) /\ UNCHANGED <<lock, job>>
       ELSE /\ lock' = a
            /\ act' = [act EXCEPT ![a].pc = "held"]
            /\ job' = [NoJob EXCEPT !.step = "rtnl", !.snapName = pending.name,
                         !.snapGen = pending.gen, !.snapSet = pending.state # "none"]
  /\ UNCHANGED <<control, owner, inst, suspended, pending, admitted, rst, wlanVars, peer,
                 boundVars, unload>>

\* Mutant: an exit path forgets the semaphore.
ReleaseNoUp(a, ret) == UNCHANGED lock /\ job' = NoJob /\ Return(a, ret)

\* mutex_unlock, up(&AddRemoveCardSem), return.
Release(a, ret) ==
  /\ lock' = "free" /\ job' = NoJob
  /\ Return(a, ret)

\* The RTNL section of the request: generation recheck, cancellation by the
\* active name, find_target, the peer snapshot and the link sample.
Resolve(a) ==
  LET n       == act[a].name
      same    == name[owner] = n
      found   == Bearers(name, n)
      peerOk  == ~inst.released /\ inst.active /\ peer.reg /\ peer.ready
      Hold(step, tgt, ret) ==
        /\ peer' = [peer EXCEPT !.refs = @ + 1]
        /\ job' = [job EXCEPT !.step = step, !.tgt = tgt, !.old = owner, !.ret = ret]
        /\ UNCHANGED <<lock, act, pending>>
      Fail(ret) == Release(a, ret) /\ UNCHANGED <<pending, peer>>
  IN
  /\ lock = a /\ job.step = "rtnl"
  /\ IF a = Worker /\ ~PendingMatches(pending, n, act[a].gen) THEN Fail("ECANCELED")
     ELSE IF same /\ a # Worker /\ job.snapSet /\ PendingMatches(pending, job.snapName, job.snapGen)
       THEN /\ pending' = PendingClearIf(pending, job.snapName, job.snapGen)
            /\ Release(a, "0") /\ UNCHANGED peer
     ELSE IF found = {} THEN Fail(IF a = Worker THEN "ESTALE" ELSE "ENODEV")
     ELSE \E h \in found :
       IF ~hw[h] THEN Fail("EBUSY")
       ELSE IF ~peerOk
         THEN Fail(IF ready[h] /\ inst.released THEN (IF a = Worker THEN "EAGAIN" ELSE "ENODEV")
                                                ELSE "ENETDOWN")
       ELSE IF ~ready[h]
         THEN Hold(IF a # Worker /\ ~same THEN "defer" ELSE "put", h, "ENETDOWN")
       ELSE Hold(IF same THEN "put" ELSE "teardown", h, "0")
  /\ UNCHANGED <<control, owner, inst, suspended, admitted, rst, wlanVars, boundVars, unload>>

\* The writer's request is retained after RTNL is dropped.
Defer(a) ==
  /\ lock = a /\ job.step = "defer"
  /\ pending' = PendingSet(pending, act[a].name)
  /\ admitted' = IF Bearers(name, act[a].name) = {} THEN NoDev
                  ELSE Dev(CHOOSE h \in Bearers(name, act[a].name) : TRUE)
  /\ job' = [job EXCEPT !.step = "put", !.ret = IF pending.on THEN "0" ELSE "ESHUTDOWN"]
  /\ UNCHANGED <<lock, control, owner, inst, suspended, act, rst, wlanVars, peer, boundVars, unload>>

\* Mutant: the transaction's peer reference leaks.
PutLeak(a) ==
  /\ lock = a /\ job.step = "put"
  /\ Release(a, job.ret)
  /\ UNCHANGED <<control, owner, inst, suspended, pending, admitted, rst, wlanVars, peer, boundVars, unload>>

\* out_peer: dev_put of the transaction's own reference.
Put(a) ==
  /\ lock = a /\ job.step = "put"
  /\ peer' = [peer EXCEPT !.refs = @ - 1]
  /\ Release(a, job.ret)
  /\ UNCHANGED <<control, owner, inst, suspended, pending, admitted, rst, wlanVars, boundVars, unload>>

\* Mutant: completion clears whatever request is retained by now.
PostBlind ==
  /\ act[Worker].pc = "post"
  /\ act' = [act EXCEPT ![Worker] = Idle]
  /\ pending' = IF act[Worker].ret = "0" THEN PendingCancelAll(pending)
                ELSE PendingRestoreWaiting(pending, act[Worker].name, act[Worker].gen)
  /\ UNCHANGED <<lock, control, owner, inst, suspended, admitted, job, rst, wlanVars, peer,
                 boundVars, unload>>

\* The worker after its request: complete, retain or cancel its generation.
Post ==
  LET n == act[Worker].name  g == act[Worker].gen  ret == act[Worker].ret IN
  /\ act[Worker].pc = "post"
  /\ act' = [act EXCEPT ![Worker] = Idle]
  /\ pending' = IF ~PendingMatches(pending, n, g) THEN pending
                ELSE IF ret = "0" THEN PendingClearIf(pending, n, g)
                ELSE IF pending.state = "waiting" THEN pending
                ELSE IF ret \in {"ESTALE", "EIO"} THEN PendingClearIf(pending, n, g)
                ELSE PendingRestoreWaiting(pending, n, g)
  /\ UNCHANGED <<lock, control, owner, inst, suspended, admitted, job, rst, wlanVars, peer,
                 boundVars, unload>>

-----------------------------------------------------------------------------
(* __moal_bridge_deinit_locked and __moal_bridge_init_locked.  The release  *)
(* work is flushed by the deinit: the instance's reference goes exactly once.*)

\* Mutants: the reference the release work already dropped is dropped again;
\* the release work of the replayed UNREGISTER and the deinit both drop it.
RefsAfterDeinitBlind == peer.refs - 1
RefsAfterDeinitTwice == peer.refs - 2

RefsAfterDeinit == peer.refs - (IF inst.ref THEN 1 ELSE 0)

\* Mutant: bridge_owner still points at the torn-down handle.
TeardownKeepsOwner ==
  /\ lock \in Actors /\ job.step = "teardown"
  /\ inst' = NoInst
  /\ peer' = [peer EXCEPT !.refs = RefsAfterDeinit]
  /\ job' = [job EXCEPT !.step = "hold", !.phase = "switch"]
  /\ UNCHANGED <<lock, control, owner, suspended, pending, admitted, act, rst, wlanVars, boundVars, unload>>

Teardown ==
  /\ lock \in Actors /\ job.step = "teardown"
  /\ inst' = NoInst /\ owner' = NoHandle
  /\ peer' = [peer EXCEPT !.refs = RefsAfterDeinit]
  /\ job' = [job EXCEPT !.step = "hold", !.phase = "switch"]
  /\ UNCHANGED <<lock, control, suspended, pending, admitted, act, rst, wlanVars, boundVars, unload>>

Unlock == lock' = "free" /\ job' = NoJob
ResetOver == rst' = [pc |-> "idle", h |-> NoHandle, kind |-> "none"]
BuildTarget == IF job.phase = "rollback" THEN job.old ELSE job.tgt

\* A failed init: the switch turns to its rollback, a lost rollback and a lost
\* resume cancel the retained request, a failed load leaves no bridge.
InitFailed(ret, i, refs) ==
  /\ inst' = i
  /\ \/ /\ job.phase = "switch"
        /\ job' = [job EXCEPT !.step = "hold", !.phase = "rollback", !.ret = ret]
        /\ peer' = [peer EXCEPT !.refs = refs]
        /\ UNCHANGED <<lock, pending, rst, hw>>
     \/ /\ job.phase = "rollback"
        /\ job' = [job EXCEPT !.step = "put", !.ret = "EIO"]
        /\ pending' = PendingCancelAll(pending)
        /\ peer' = [peer EXCEPT !.refs = refs]
        /\ UNCHANGED <<lock, rst, hw>>
     \/ /\ job.phase = "resume"
        /\ pending' = PendingCancelAll(pending)
        /\ peer' = [peer EXCEPT !.refs = refs - 1]
        /\ hw' = [hw EXCEPT ![rst.h] = FALSE]
        /\ Unlock /\ ResetOver
     \/ /\ job.phase = "load"
        /\ peer' = [peer EXCEPT !.refs = refs]
        /\ Unlock /\ UNCHANGED <<pending, rst, hw>>
  /\ UNCHANGED <<control, owner, suspended, admitted, act, name, epoch, ready, edge, boundVars, unload>>

\* The instance guard, the wlan netdev, the peer reference, the threads.
HoldPeer ==
  /\ job.step = "hold"
  /\ \/ inst.h # NoHandle /\ InitFailed("EBUSY", inst, peer.refs)
     \/ inst.h = NoHandle /\ (name[BuildTarget] = NoName \/ ~peer.reg)
          /\ InitFailed("ENODEV", inst, peer.refs)
     \/ inst.h = NoHandle /\ "no_memory" \in faults /\ InitFailed("ENOMEM", inst, peer.refs)
     \/ /\ inst.h = NoHandle /\ name[BuildTarget] # NoName /\ peer.reg
        /\ peer' = [peer EXCEPT !.refs = @ + 1]
        /\ job' = [job EXCEPT !.step = "register"]
        /\ UNCHANGED <<lock, control, owner, inst, suspended, pending, admitted, act, rst, wlanVars,
                       boundVars, unload>>

\* Capture and notifiers: from here on the instance sees the peer's events.
Register ==
  /\ job.step = "register"
  /\ inst' = [NoInst EXCEPT !.h = BuildTarget, !.epoch = epoch[BuildTarget], !.ref = TRUE]
  /\ job' = [job EXCEPT !.step = "publish"]
  /\ UNCHANGED <<lock, control, owner, suspended, pending, admitted, act, rst, wlanVars, peer,
                 boundVars, unload>>

\* The final RTNL section of the init; a resumed or loaded bridge becomes the
\* owner at once, a switched one is validated first.
Publish ==
  LET h == BuildTarget IN
  /\ job.step = "publish"
  /\ \/ inst.released /\ InitFailed("ENODEV", NoInst, RefsAfterDeinit)
     \/ ~inst.released /\ ~peer.reg /\ InitFailed("ENETDOWN", NoInst, RefsAfterDeinit)
     \/ /\ ~inst.released /\ peer.reg
        /\ inst' = [inst EXCEPT !.published = TRUE, !.active = Usable(h)]
        /\ \/ /\ job.phase \in {"switch", "rollback"}
              /\ job' = [job EXCEPT !.step = "validate"]
              /\ UNCHANGED <<lock, owner, pending, peer, rst>>
           \/ /\ job.phase = "resume"
              /\ owner' = h /\ pending' = PendingKick(pending)
              /\ peer' = [peer EXCEPT !.refs = @ - 1]
              /\ Unlock /\ ResetOver
           \/ /\ job.phase = "load"
              /\ owner' = h /\ pending' = PendingKick(pending)
              /\ Unlock /\ UNCHANGED <<peer, rst>>
        /\ UNCHANGED <<control, suspended, admitted, act, wlanVars, boundVars, unload>>

\* moal_bridge_validate_binding_locked under RTNL, then the commit, the turn
\* to rollback, the restored owner or the terminal loss.
BindingValid(h) ==
  /\ hw[h] /\ inst.h = h /\ inst.epoch = epoch[h] /\ ~inst.released
  /\ ready[h] /\ peer.reg /\ peer.ready
  /\ inst.published /\ inst.active

Commit(a) ==
  /\ lock = a /\ job.step = "validate" /\ job.phase = "switch"
  /\ BindingValid(job.tgt)
  /\ owner' = job.tgt
  /\ pending' = IF a # Worker /\ job.snapSet
                  THEN PendingClearIf(pending, job.snapName, job.snapGen) ELSE pending
  /\ job' = [job EXCEPT !.step = "put", !.ret = "0"]
  /\ UNCHANGED <<lock, control, inst, suspended, admitted, act, rst, wlanVars, peer, boundVars, unload>>

\* Mutant: the rollback does not republish the owner.
RolledBackUnowned(a) ==
  /\ lock = a /\ job.step = "validate" /\ job.phase = "rollback"
  /\ BindingValid(job.old)
  /\ job' = [job EXCEPT !.step = "put"]
  /\ UNCHANGED <<lock, control, owner, inst, suspended, pending, admitted, act, rst, wlanVars, peer,
                 boundVars, unload>>

RolledBack(a) ==
  /\ lock = a /\ job.step = "validate" /\ job.phase = "rollback"
  /\ BindingValid(job.old)
  /\ owner' = job.old
  /\ pending' = IF a = Worker THEN PendingRestoreWaiting(pending, act[a].name, act[a].gen)
                              ELSE PendingKick(pending)
  /\ job' = [job EXCEPT !.step = "put"]
  /\ UNCHANGED <<lock, control, inst, suspended, admitted, act, rst, wlanVars, peer, boundVars, unload>>

Invalid ==
  /\ job.step = "validate" /\ ~BindingValid(BuildTarget)
  /\ InitFailed(IF hw[BuildTarget] THEN "ENETDOWN" ELSE "EBUSY", NoInst, RefsAfterDeinit)

Transaction ==
  Teardown \/ HoldPeer \/ Register \/ Publish \/ Invalid \/ \E a \in Actors : Commit(a) \/ RolledBack(a)

-----------------------------------------------------------------------------
(* Reset paths.  "reload" is woal_request_fw_reload: one section of the     *)
(* semaphore, the netdevs rebuilt or kept.  "flr" is the PCI reset: the     *)
(* semaphore is free between reset_prepare and reset_done.                  *)

ResetConcerns(h, kind) == owner # NoHandle /\ (kind = "reload" \/ owner = h)

\* moal_bridge_suspend_owner*: pin the peer, deinit, forget the owner.
ResetSuspend(h, kind) ==
  /\ lock = "free" /\ rst.pc = "idle" /\ kind \in faults /\ unload # "done"
  /\ rebuilds < MaxRebuilds /\ name[h] # NoName
  /\ ResetConcerns(h, kind) => ~inst.released /\ peer.reg
  /\ IF ResetConcerns(h, kind)
       THEN /\ suspended' = owner /\ owner' = NoHandle /\ inst' = NoInst
            /\ peer' = [peer EXCEPT !.refs = RefsAfterDeinit + 1]
       ELSE UNCHANGED <<suspended, owner, inst, peer>>
  /\ lock' = "reset"
  /\ hw' = [hw EXCEPT ![h] = FALSE]
  /\ rst' = [pc |-> "destroy", h |-> h, kind |-> kind]
  /\ rebuilds' = rebuilds + 1
  /\ UNCHANGED <<control, pending, admitted, act, job, name, epoch, ready, edge, writes, faults, unload>>

\* The peer is gone, so nothing is suspended (-ENODEV): a reload stops before
\* it did any harm, the FLR paths give the card up and deinit its bridge.
ResetRefused(h, kind) ==
  /\ lock = "free" /\ rst.pc = "idle" /\ kind \in faults /\ unload # "done"
  /\ rebuilds < MaxRebuilds /\ name[h] # NoName
  /\ ResetConcerns(h, kind) /\ (inst.released \/ ~peer.reg)
  /\ rebuilds' = rebuilds + 1
  /\ IF kind = "flr"
       THEN /\ hw' = [hw EXCEPT ![h] = FALSE]
            /\ owner' = NoHandle /\ inst' = NoInst
            /\ peer' = [peer EXCEPT !.refs = RefsAfterDeinit]
       ELSE UNCHANGED <<hw, owner, inst, peer>>
  /\ UNCHANGED <<lock, control, suspended, pending, admitted, act, job, rst, name, epoch, ready, edge,
                 writes, faults, unload>>

\* Mutant: the netdev goes without cancelling the request for it.
ResetDestroyKeepsRequest ==
  /\ rst.pc = "destroy" /\ lock = "reset"
  /\ name' = [name EXCEPT ![rst.h] = NoName]
  /\ ready' = [ready EXCEPT ![rst.h] = FALSE] /\ edge' = [edge EXCEPT ![rst.h] = FALSE]
  /\ rst' = [rst EXCEPT !.pc = "down"]
  /\ lock' = IF rst.kind = "flr" THEN "free" ELSE lock
  /\ UNCHANGED <<control, owner, inst, suspended, pending, admitted, act, job, epoch, hw, peer,
                 boundVars, unload>>

\* moal_bridge_pending_invalidate_handle, then the netdev is unregistered.
ResetDestroy ==
  LET h == rst.h IN
  /\ rst.pc = "destroy" /\ lock = "reset"
  /\ pending' = PendingUnregistered(PendingClearIf(pending, name[h], pending.gen), name[h])
  /\ name' = [name EXCEPT ![h] = NoName]
  /\ ready' = [ready EXCEPT ![h] = FALSE] /\ edge' = [edge EXCEPT ![h] = FALSE]
  /\ rst' = [rst EXCEPT !.pc = "down"]
  /\ lock' = IF rst.kind = "flr" THEN "free" ELSE lock
  /\ UNCHANGED <<control, owner, inst, suspended, admitted, act, job, epoch, hw, peer, boundVars, unload>>

\* The recreated netdev is a new one, under whatever free name it gets.
ResetRebuild(n) ==
  /\ rst.pc = "down" /\ unload # "done"
  /\ lock = IF rst.kind = "flr" THEN "free" ELSE "reset"
  /\ Bearers(name, n) = {}
  /\ lock' = "reset"
  /\ name' = [name EXCEPT ![rst.h] = n]
  /\ epoch' = [epoch EXCEPT ![rst.h] = @ + 1]
  /\ hw' = [hw EXCEPT ![rst.h] = TRUE]
  /\ rst' = [rst EXCEPT !.pc = "rebuilt"]
  /\ UNCHANGED <<control, owner, inst, suspended, pending, admitted, act, job, ready, edge, peer,
                 boundVars, unload>>

\* With wifi_hal_flag a reload keeps every netdev.
ResetKeep ==
  /\ rst.pc = "destroy" /\ rst.kind = "reload" /\ lock = "reset"
  /\ hw' = [hw EXCEPT ![rst.h] = TRUE]
  /\ rst' = [rst EXCEPT !.pc = "rebuilt"]
  /\ UNCHANGED <<lock, control, owner, inst, suspended, pending, admitted, act, job, name, epoch,
                 ready, edge, peer, boundVars, unload>>

\* moal_bridge_resume_owner: the snapshot is consumed, its peer reference is
\* dropped by the end of the init.
ResetResume ==
  /\ rst.pc = "rebuilt" /\ lock = "reset"
  /\ IF suspended = NoHandle
       THEN Unlock /\ ResetOver /\ UNCHANGED suspended
       ELSE /\ suspended' = NoHandle
            /\ job' = [NoJob EXCEPT !.step = "hold", !.phase = "resume", !.tgt = suspended]
            /\ rst' = [rst EXCEPT !.pc = "resume"]
            /\ UNCHANGED lock
  /\ UNCHANGED <<control, owner, inst, pending, admitted, act, wlanVars, peer, boundVars, unload>>

\* Mutants: a reset that suspended nobody cancels another owner's request; the
\* snapshot's peer reference leaks.
DiscardedBlind == PendingCancelAll(pending)
RefsAfterDiscardLeak == peer.refs

\* moal_bridge_discard_suspended_owner, effective only when one is suspended.
Discarded == IF suspended # NoHandle THEN PendingCancelAll(pending) ELSE pending
RefsAfterDiscard == peer.refs - (IF suspended # NoHandle THEN 1 ELSE 0)

\* A terminal failure, also of the second half of a PCI reset: the snapshot is
\* discarded; the card's own bridge was suspended, so the closing
\* moal_bridge_deinit finds nothing to do.  The reload path cancels the
\* request in any case.
ResetFail ==
  /\ "reset_fail" \in faults /\ rst.pc \in {"destroy", "down", "rebuilt"}
  /\ lock = IF rst.kind = "flr" /\ rst.pc = "down" THEN "free" ELSE "reset"
  /\ pending' = IF rst.kind = "reload" THEN PendingCancelAll(pending) ELSE Discarded
  /\ suspended' = NoHandle
  /\ peer' = [peer EXCEPT !.refs = RefsAfterDiscard]
  /\ hw' = [hw EXCEPT ![rst.h] = FALSE]
  /\ Unlock /\ ResetOver
  /\ UNCHANGED <<control, owner, inst, admitted, act, name, epoch, ready, edge, boundVars, unload>>

ResetStep == ResetDestroy \/ ResetKeep \/ ResetResume \/ \E n \in Names : ResetRebuild(n)

-----------------------------------------------------------------------------
(* Cards and the module.                                                    *)

\* woal_remove_card: moal_bridge_forget_handle, then the netdev goes.  A PCI
\* reset in progress finds no handle any more.
CardRemove(h) ==
  LET lost  == owner = h \/ suspended = h
      P     == PendingClearIf(pending, name[h], pending.gen) IN
  /\ "hotplug" \in faults /\ lock = "free" /\ unload = "no"
  /\ name[h] # NoName \/ rst.h = h
  /\ pending' = PendingUnregistered(IF lost THEN PendingCancelAll(P) ELSE P, name[h])
  /\ peer' = [peer EXCEPT !.refs = IF owner = h THEN RefsAfterDeinit
                                   ELSE IF suspended = h THEN RefsAfterDiscard ELSE @]
  /\ IF owner = h THEN owner' = NoHandle /\ inst' = NoInst ELSE UNCHANGED <<owner, inst>>
  /\ suspended' = IF suspended = h THEN NoHandle ELSE suspended
  /\ IF rst.h = h THEN ResetOver ELSE UNCHANGED rst
  /\ name' = [name EXCEPT ![h] = NoName]
  /\ ready' = [ready EXCEPT ![h] = FALSE] /\ edge' = [edge EXCEPT ![h] = FALSE]
  /\ hw' = [hw EXCEPT ![h] = FALSE]
  /\ UNCHANGED <<lock, control, admitted, act, job, epoch, boundVars, unload>>

\* The card's firmware comes up and bridge_mode asks for moal_bridge_init.
CardAdd(h, n) ==
  /\ "hotplug" \in faults /\ lock = "free" /\ unload = "no" /\ rebuilds < MaxRebuilds
  /\ name[h] = NoName /\ rst.h # h /\ Bearers(name, n) = {}
  /\ name' = [name EXCEPT ![h] = n] /\ epoch' = [epoch EXCEPT ![h] = @ + 1]
  /\ hw' = [hw EXCEPT ![h] = TRUE]
  /\ rebuilds' = rebuilds + 1
  /\ IF h \in AutoBridge
       THEN lock' = "card" /\ job' = [NoJob EXCEPT !.step = "hold", !.phase = "load", !.tgt = h]
       ELSE UNCHANGED <<lock, job>>
  /\ UNCHANGED <<control, owner, inst, suspended, pending, admitted, act, rst, ready, edge, peer,
                 writes, faults, unload>>

\* woal_cleanup_module: no more control, admission closed, request destroyed.
UnloadDisable ==
  /\ "unload" \in faults /\ unload = "no"
  /\ control' = FALSE
  /\ pending' = [Cleared(pending) EXCEPT !.on = FALSE]
  /\ unload' = "drain"
  /\ UNCHANGED <<lock, owner, inst, suspended, admitted, act, job, rst, wlanVars, peer, boundVars>>

\* cancel_work_sync.
UnloadDrain ==
  /\ unload = "drain" /\ act[Worker].pc = "idle"
  /\ pending' = [pending EXCEPT !.queued = FALSE]
  /\ unload' = "drained"
  /\ UNCHANGED <<lock, control, owner, inst, suspended, admitted, act, job, rst, wlanVars, peer, boundVars>>

\* down(&AddRemoveCardSem), discard, deinit of every handle.
UnloadTeardown ==
  /\ unload = "drained" /\ lock = "free"
  /\ lock' = "unload"
  /\ owner' = NoHandle /\ inst' = NoInst /\ suspended' = NoHandle
  /\ pending' = Discarded
  /\ peer' = [peer EXCEPT !.refs = @ - (IF inst.ref THEN 1 ELSE 0)
                                    - (IF suspended # NoHandle THEN 1 ELSE 0)]
  /\ unload' = "done"
  /\ UNCHANGED <<control, admitted, act, job, rst, wlanVars, boundVars>>

-----------------------------------------------------------------------------
(* The environment: link changes and the notifications that follow them.    *)

LinkChange(h) ==
  /\ name[h] # NoName
  /\ IF ready[h] THEN "link_down" \in faults ELSE hw[h]
  /\ ready' = [ready EXCEPT ![h] = ~@] /\ edge' = [edge EXCEPT ![h] = TRUE]
  /\ UNCHANGED <<lock, control, owner, inst, suspended, pending, admitted, act, job, rst, name, epoch,
                 hw, peer, boundVars, unload>>

\* The instance's view of its two ends after an UP or CHANGE of one of them.
Refreshed == [inst EXCEPT !.active = IF inst.released THEN @ ELSE inst.published /\ Usable(inst.h)]

\* moal_bridge_netdev_event for a wlan netdev; delivered to the registered
\* instance only.
LinkEvent(h) ==
  /\ edge[h]
  /\ edge' = [edge EXCEPT ![h] = FALSE]
  /\ pending' = PendingReadiness(pending, name[h], inst.published)
  /\ inst' = IF inst.h = h THEN Refreshed ELSE inst
  /\ UNCHANGED <<lock, control, owner, suspended, admitted, act, job, rst, name, epoch, ready, hw, peer,
                 boundVars, unload>>

PeerChange ==
  /\ peer.reg
  /\ peer.ready => "peer_down" \in faults
  /\ peer' = [peer EXCEPT !.ready = ~@, !.edge = TRUE]
  /\ UNCHANGED <<lock, control, owner, inst, suspended, pending, admitted, act, job, rst, wlanVars,
                 boundVars, unload>>

PeerEvent ==
  /\ peer.edge
  /\ peer' = [peer EXCEPT !.edge = FALSE]
  /\ inst' = IF inst.h # NoHandle THEN Refreshed ELSE inst
  /\ UNCHANGED <<lock, control, owner, suspended, pending, admitted, act, job, rst, wlanVars, boundVars, unload>>

\* NETDEV_UNREGISTER of the peer: capture removed, release work scheduled.
PeerUnregister ==
  /\ "peer_gone" \in faults /\ peer.reg
  /\ peer' = [peer EXCEPT !.reg = FALSE, !.ready = FALSE, !.edge = FALSE]
  /\ inst' = IF inst.h = NoHandle THEN inst
             ELSE [inst EXCEPT !.active = FALSE, !.released = TRUE, !.work = TRUE]
  /\ UNCHANGED <<lock, control, owner, suspended, pending, admitted, act, job, rst, wlanVars, boundVars, unload>>

\* moal_bridge_peer_release_work drops the instance's peer reference.
PeerReleaseWork ==
  /\ inst.work
  /\ inst' = [inst EXCEPT !.work = FALSE, !.ref = FALSE]
  /\ peer' = [peer EXCEPT !.refs = @ - 1]
  /\ UNCHANGED <<lock, control, owner, suspended, pending, admitted, act, job, rst, wlanVars, boundVars, unload>>

\* NETDEV_CHANGENAME, seen by the module-lifetime notifier.
Rename(h, n) ==
  /\ "rename" \in faults /\ name[h] # NoName /\ Bearers(name, n) = {}
  /\ name' = [name EXCEPT ![h] = n]
  /\ pending' = PendingRenamed(pending, name')
  /\ UNCHANGED <<lock, control, owner, inst, suspended, admitted, act, job, rst, epoch, ready, edge, hw,
                 peer, boundVars, unload>>

\* driver_status / surprise_removed raised outside the semaphore.
FwHang(h) ==
  /\ "fw_hang" \in faults /\ hw[h]
  /\ hw' = [hw EXCEPT ![h] = FALSE]
  /\ UNCHANGED <<lock, control, owner, inst, suspended, pending, admitted, act, job, rst, name, epoch,
                 ready, edge, peer, boundVars, unload>>

-----------------------------------------------------------------------------
RequestStep(a) == Resolve(a) \/ Defer(a) \/ Put(a)

Next ==
  \/ \E w \in Writers : Interrupted(w) \/ \E n \in Names : Write(w, n)
  \/ \E a \in Actors : Acquire(a) \/ RequestStep(a)
  \/ WorkStart \/ Post
  \/ Transaction
  \/ \E h \in Handles, kind \in {"flr", "reload"} : ResetSuspend(h, kind) \/ ResetRefused(h, kind)
  \/ ResetStep \/ ResetFail
  \/ \E h \in Handles : CardRemove(h) \/ \E n \in Names : CardAdd(h, n)
  \/ UnloadDisable \/ UnloadDrain \/ UnloadTeardown
  \/ \E h \in Handles : LinkChange(h) \/ LinkEvent(h) \/ FwHang(h)
  \/ \E h \in Handles, n \in Names : Rename(h, n)
  \/ PeerChange \/ PeerEvent \/ PeerUnregister \/ PeerReleaseWork

\* Work items run, the holder of the lock proceeds, notifications arrive; the
\* semaphore serves its waiters in order, hence strong fairness for Acquire
\* and for the second half of a PCI reset.
Fairness ==
  /\ WF_vars(WorkStart) /\ WF_vars(Post) /\ WF_vars(Transaction)
  /\ \A a \in Actors : SF_vars(Acquire(a)) /\ WF_vars(RequestStep(a))
  /\ SF_vars(ResetStep) /\ WF_vars(PeerReleaseWork) /\ WF_vars(PeerEvent)
  /\ \A h \in Handles : WF_vars(LinkEvent(h))
  /\ WF_vars(UnloadDrain) /\ SF_vars(UnloadTeardown)

Spec     == Init /\ [][Next]_vars
FairSpec == Spec /\ Fairness

-----------------------------------------------------------------------------
Errors == {"0", "EAGAIN", "EBUSY", "ECANCELED", "EIO", "ENETDOWN", "ENODEV", "ENOMEM",
           "ESHUTDOWN", "ESTALE"}
HandleOrNone == Handles \cup {NoHandle}
NameOrNone   == Names \cup {NoName}

TypeOK ==
  /\ lock \in Actors \cup {"free", "reset", "card", "unload"}
  /\ control \in BOOLEAN
  /\ owner \in HandleOrNone /\ suspended \in HandleOrNone
  /\ inst \in [h : HandleOrNone, epoch : Nat, published : BOOLEAN, active : BOOLEAN,
                released : BOOLEAN, work : BOOLEAN, ref : BOOLEAN]
  /\ pending \in [state : {"none", "waiting", "switching"}, name : NameOrNone, gen : Nat,
                   during : BOOLEAN, queued : BOOLEAN, on : BOOLEAN]
  /\ admitted \in HandleOrNone \X Nat
  /\ act \in [Actors -> [pc : {"idle", "lock", "held", "post"}, name : NameOrNone, gen : Nat,
                          ret : Errors]]
  /\ job \in [step : {"none", "rtnl", "defer", "teardown", "hold", "register", "publish",
                       "validate", "put"},
               phase : {"none", "switch", "rollback", "resume", "load"},
               tgt : HandleOrNone, old : HandleOrNone,
               snapName : NameOrNone, snapGen : Nat, snapSet : BOOLEAN, ret : Errors]
  /\ rst \in [pc : {"idle", "destroy", "down", "rebuilt", "resume"}, h : HandleOrNone,
               kind : {"none", "flr", "reload"}]
  /\ name \in [Handles -> NameOrNone] /\ epoch \in [Handles -> Nat]
  /\ ready \in [Handles -> BOOLEAN] /\ edge \in [Handles -> BOOLEAN] /\ hw \in [Handles -> BOOLEAN]
  /\ peer \in [reg : BOOLEAN, ready : BOOLEAN, edge : BOOLEAN, refs : Nat]
  /\ faults \in Scenarios /\ writes \in Nat /\ rebuilds \in Nat
  /\ unload \in {"no", "drain", "drained", "done"}

\* Exactly the parties that took the peer's reference still hold it: the
\* instance, the suspended-owner snapshot and a transaction between its
\* dev_hold and dev_put (moal_bridge_switch_iface_request, suspend, resume).
\* An unbalanced path would leak the peer netdev or free it under the bridge.
RefsBalanced ==
  LET txRef == IF job.phase = "resume" \/ (lock \in Actors /\ job.step \notin {"none", "rtnl"})
                 THEN 1 ELSE 0
      newRef == IF job.step = "register" THEN 1 ELSE 0
  IN peer.refs = (IF inst.ref THEN 1 ELSE 0) + (IF suspended # NoHandle THEN 1 ELSE 0) + txRef + newRef

\* Outside a transaction bridge_owner names the handle that holds the one
\* published instance, bound to that handle's current netdev.
OwnerHasInstance ==
  job.step \in {"none", "rtnl", "defer"} =>
    /\ owner = inst.h
    /\ owner # NoHandle => inst.published /\ inst.epoch = epoch[owner] /\ name[owner] # NoName

\* The rollback contract: a request that reports an error leaves the owner it
\* found, and one that lost it (-EIO) leaves neither owner nor request.
FailedSwitchKeepsOwner ==
  lock \in Actors /\ job.step = "put" =>
    /\ job.ret \notin {"0", "EIO"} => owner = job.old
    /\ job.ret = "EIO" => owner = NoHandle /\ pending.state = "none"

\* "Terminal reset/reload failure or other terminal no-owner teardown clears
\* all pending state": no request outlives the last owner.
NoOrphanRequest ==
  lock = "free" /\ owner = NoHandle /\ suspended = NoHandle => pending.state = "none"

\* After the drain of moal_bridge_pending_cleanup no work can be scheduled, and
\* after the teardown nothing of the bridge is left.
UnloadQuiet ==
  /\ unload \in {"drained", "done"} =>
       act[Worker].pc = "idle" /\ ~pending.queued /\ pending.state = "none"
  /\ unload = "done" => owner = NoHandle /\ inst.h = NoHandle /\ peer.refs = 0

\* "a same-name recreated netdev cannot inherit it": the worker commits to the
\* very netdev that bore the name when the request was retained.
NoInheritance ==
  [][lock = Worker /\ owner' # owner /\ owner' = job.tgt /\ admitted # NoDev
       => Dev(job.tgt) = admitted]_vars

\* A pending request "remains until it completes, is replaced, is explicitly
\* cancelled by writing the active interface, or the target is unregistered",
\* and "a failed immediate switch leaves the previously committed pending
\* request unchanged": one retained for an existing netdev disappears only when
\* it is applied, its name is gone, a writer names the active interface or
\* completes a switch, no owner is left, or the module goes.
LostOnlyForCause ==
  [][pending.state # "none" /\ pending'.state = "none" /\ admitted # NoDev =>
       \/ owner' # NoHandle /\ name'[owner'] = pending.name
       \/ Bearers(name', pending.name) = {}
       \/ owner' = NoHandle
       \/ lock \in Writers /\ (owner' # owner \/ name[owner] = act[lock].name)
       \/ ~control']_vars

\* Every write and every work item comes to an end.
RequestsEnd == \A a \in Actors : act[a].pc = "lock" ~> act[a].pc = "idle"

\* An unregistered peer is let go of: netdev_wait_allrefs can finish.
PeerLetGo == ~peer.reg ~> peer.refs = 0

\* The target, the owner and the peer are all fit for the retained request.
Fulfillable ==
  /\ pending.state = "waiting" /\ lock = "free" /\ owner # NoHandle /\ inst.active /\ peer.ready
  /\ \E h \in Bearers(name, pending.name) : ready[h] /\ hw[h] /\ ~edge[h]
  /\ control

\* "is applied automatically when that target is ready": a fulfillable request
\* does not wait for ever.
AppliedWhenReady == []<>~Fulfillable
=============================================================================
