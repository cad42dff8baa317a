------------------------ MODULE IdentityOwner_proofs ------------------------
(***************************************************************************)
(* An identity is used by one node at a time, and a node is removed only   *)
(* when it has nothing left, for any number of nodes, identities, crashes  *)
(* and failed calls, provided that                                         *)
(*   - users never change the identity of a node (FixedNames),             *)
(*   - only the node itself asks for an identity with the name of a node   *)
(*     (SafeNames), and                                                    *)
(*   - the calls of Hoprd::update_status succeed.                          *)
(* Each hypothesis is needed: TLC finds a violation without it.            *)
(***************************************************************************)
EXTENDS IdentityLock_proofs

StatusesWritten == "update_status" \notin Lossy

NodeInv(h) == ObjectInv(h) /\ OwnerInv(h) /\ DeletionInv(h)

\* The types that the steps below use.
LEMMA Types ==
  ASSUME TypeOK
  PROVE  /\ TasksOK /\ StateOK /\ ObjectsOK
         /\ \A h \in Hoprds : /\ hoprd[h] \in HoprdObjects
                              /\ hoprd[h].uid \in Nat /\ hoprd[h].phase \in Phases
                              /\ task[h].self.uid \in Nat
                              /\ Exists(h) => hoprd[h].identity_name \in Wish[h]
                              /\ task[h].pc # "idle" => task[h].self.identity_name \in Wish[h]
         /\ \A h \in Hoprds : \A k \in Kinds : sub[h][k] \in Nat
         /\ \A h \in Hoprds : Wish[h] \subseteq Identities
         /\ \A i \in Identities : identity[i] \in [phase : {"Ready", "InUse"}, node : Hoprds \cup {NoName}]
BY WishAssumption DEF TypeOK, ObjectsOK, TasksOK, StateOK, HoprdObjects, Snapshots

\* A step that does not touch node g, nor an identity that g holds or gets, keeps the invariant of g.
LEMMA OtherNode ==
  ASSUME TypeOK, NEW g \in Hoprds, NodeInv(g),
         hoprd'[g] = hoprd[g], task'[g] = task[g], sub'[g] = sub[g], mount'[g] = mount[g],
         operator' = operator,
         \A i \in Identities : identity'[i] = identity[i] \/ (identity[i].node # g /\ identity'[i].node # g)
  PROVE  NodeInv(g)'
<1> USE Types DEF Exists, Finalized, Terminating, Live
<1>1. ObjectInv(g)'
  BY DEF NodeInv, ObjectInv
<1>2. \A i \in Identities : identity[i].node = g => identity'[i] = identity[i]
  OBVIOUS
<1>3. OwnerInv(g)'
  <2> USE DEF OwnerInv, Owns
  <2>0. OwnerInv(g)
    BY DEF NodeInv
  <2>1. \A i \in Identities : identity'[i].node = g => i \in Wish[g]
    BY <2>0
  <2>2. Live(g, sub[g]["deployment"])' => mount'[g] \in Wish[g] /\ identity'[mount'[g]] = [phase |-> "InUse", node |-> g]
    BY <1>2, <2>0
  <2>3. (Finalized(g)' /\ hoprd'[g].phase # "Deleting")
          => identity'[hoprd'[g].identity_name] = [phase |-> "InUse", node |-> g]
    BY <1>2, <2>0
  <2>4. task'[g].pc \in Holding => identity'[task'[g].self.identity_name] = [phase |-> "InUse", node |-> g]
    BY <1>2, <2>0 DEF Holding, ModifySteps
  <2>5. task'[g].pc \in {"init", "lock", "ready", "claim"} => ~Finalized(g)'
    BY <2>0
  <2>6. \A i \in operator'.todo : identity'[i].node = g => ~Finalized(g)' /\ ~Live(g, sub[g]["deployment"])'
    BY <1>2, <2>0 DEF StateOK
  <2> QED BY <2>1, <2>2, <2>3, <2>4, <2>5, <2>6
<1>4. DeletionInv(g)'
  BY DEF NodeInv, DeletionInv
<1> QED BY <1>1, <1>3, <1>4 DEF NodeInv
-----------------------------------------------------------------------------
(***************************************************************************)
(* Steps of the task of a node that leave the identities alone.            *)
(***************************************************************************)

Starting == {"init", "lock", "ready", "claim"}
Clean == {"unlock", "uncount", "notify", "unfinalize"}

\* What such a step may do to the object and its subresources...
ObjectStep(h) ==
  /\ hoprd'[h].uid = hoprd[h].uid
  /\ hoprd'[h].life # "absent" => hoprd[h].life # "absent" /\ hoprd'[h].identity_name \in Wish[h]
  /\ /\ hoprd'[h].life \in {"finalized", "terminating"} /\ hoprd'[h].phase # "Deleting"
     /\ ~Finalized(h) \/ hoprd[h].phase = "Deleting"
     => task[h].pc \in Holding
  /\ \A k \in Kinds : sub'[h][k] \in {0, sub[h][k], task[h].self.uid}
  /\ \/ sub'[h]["deployment"] \in {0, sub[h]["deployment"]} /\ mount'[h] = mount[h]
     \/ sub'[h]["deployment"] = 0
     \/ task[h].pc \in Holding /\ mount'[h] = task[h].self.identity_name

\* ... and to the task.
PcStep(h) ==
  /\ task[h].pc # "idle"
  /\ \/ task'[h].pc = "idle" /\ task'[h].self.uid = 0
     \/ task'[h].self = task[h].self
  /\ task'[h].pc \in Holding => task'[h].self = task[h].self /\ Owns(h, task[h].self.identity_name)
  /\ task'[h].pc \in Starting => hoprd'[h].life \notin {"finalized", "terminating"}
  /\ task'[h].pc \in DeleteSteps => hoprd'[h].life = "terminating"
  /\ task'[h].pc \in DeleteSteps \ {"deleting"} => hoprd'[h].phase = "Deleting"
  /\ task'[h].pc \in DeleteSteps \ {"deleting", "rm_ingress"} => sub'[h]["ingress"] = 0
  /\ task'[h].pc \in DeleteSteps \ {"deleting", "rm_ingress", "rm_service"} => sub'[h]["service"] = 0
  /\ task'[h].pc \in DeleteSteps \ {"deleting", "rm_ingress", "rm_service", "rm_deployment"}
       => sub'[h]["deployment"] = 0
  /\ task'[h].pc \in Clean => \A i \in Identities : identity[i].node # h

\* Such a step keeps the invariant of its node.
LEMMA TaskStep ==
  ASSUME TypeOK, FixedNames, NEW h \in Hoprds, NodeInv(h), ObjectStep(h), PcStep(h),
         UNCHANGED <<identity, operator>>
  PROVE  NodeInv(h)'
<1> USE Types DEF Exists, Finalized, Terminating, Live
<1>0. ObjectInv(h) /\ OwnerInv(h) /\ DeletionInv(h)
  BY DEF NodeInv
<1>a. "deployment" \in Kinds /\ operator.pc = "up" /\ operator.todo = {}
  BY <1>0 DEF Kinds, ObjectInv, PcStep
<1>1. ObjectInv(h)'
  <2>1. hoprd'[h].life # "absent" => hoprd'[h].uid > 0
    BY <1>0 DEF ObjectInv, ObjectStep
  <2>2. \A k \in Kinds : sub'[h][k] <= hoprd'[h].uid
    BY <1>0 DEF ObjectInv, ObjectStep
  <2>3. task'[h].self.uid <= hoprd'[h].uid
    BY <1>0 DEF ObjectInv, ObjectStep, PcStep
  <2> QED BY <1>a, <2>1, <2>2, <2>3 DEF ObjectInv
<1>2. OwnerInv(h)'
  <2> USE DEF Owns
  <2>1. \A i \in Identities : identity'[i].node = h => i \in Wish[h]
    BY <1>0 DEF OwnerInv
  <2>2. (hoprd'[h].life # "absent" /\ hoprd'[h].uid = sub'[h]["deployment"])
          => mount'[h] \in Wish[h] /\ identity'[mount'[h]] = [phase |-> "InUse", node |-> h]
    <3> SUFFICES ASSUME hoprd'[h].life # "absent", hoprd'[h].uid = sub'[h]["deployment"]
                 PROVE  mount'[h] \in Wish[h] /\ identity[mount'[h]] = [phase |-> "InUse", node |-> h]
      OBVIOUS
    <3>1. sub'[h]["deployment"] # 0
      BY <1>0 DEF ObjectInv, ObjectStep
    <3>2. CASE sub'[h]["deployment"] = sub[h]["deployment"] /\ mount'[h] = mount[h]
      BY <1>0, <3>2 DEF OwnerInv, ObjectStep
    <3>3. CASE task[h].pc \in Holding /\ mount'[h] = task[h].self.identity_name
      BY <1>0, <3>3 DEF OwnerInv, PcStep
    <3> QED BY <3>1, <3>2, <3>3 DEF ObjectStep
  <2>3. (hoprd'[h].life \in {"finalized", "terminating"} /\ hoprd'[h].phase # "Deleting")
          => identity'[hoprd'[h].identity_name] = [phase |-> "InUse", node |-> h]
    <3> SUFFICES ASSUME hoprd'[h].life \in {"finalized", "terminating"}, hoprd'[h].phase # "Deleting"
                 PROVE  identity[hoprd'[h].identity_name] = [phase |-> "InUse", node |-> h]
      OBVIOUS
    <3>1. hoprd'[h].identity_name \in Wish[h] /\ hoprd[h].life # "absent"
      BY DEF ObjectStep
    <3>2. CASE task[h].pc \in Holding
      BY <1>0, <3>1, <3>2 DEF OwnerInv, FixedNames, PcStep
    <3>3. CASE task[h].pc \notin Holding
      <4>1. Finalized(h) /\ hoprd[h].phase # "Deleting"
        BY <3>3 DEF ObjectStep
      <4> QED BY <1>0, <3>1, <4>1 DEF OwnerInv, FixedNames
    <3> QED BY <3>2, <3>3
  <2>4. task'[h].pc \in Holding => identity'[task'[h].self.identity_name] = [phase |-> "InUse", node |-> h]
    BY DEF PcStep
  <2>5. task'[h].pc \in {"init", "lock", "ready", "claim"} => hoprd'[h].life \notin {"finalized", "terminating"}
    BY DEF PcStep, Starting
  <2> QED BY <1>a, <2>1, <2>2, <2>3, <2>4, <2>5 DEF OwnerInv
<1>3. DeletionInv(h)'
  BY DEF DeletionInv, PcStep, Clean
<1> QED BY <1>1, <1>2, <1>3 DEF NodeInv
\* A patch of the object of h touches no other object, and none at all when there is no object.
LEMMA PatchEffect ==
  ASSUME TypeOK, NEW h \in Hoprds, NEW o, Patch(h, o)
  PROVE  /\ \A g \in Hoprds : g # h => hoprd'[g] = hoprd[g]
         /\ Exists(h) => hoprd'[h] = o
         /\ ~Exists(h) => hoprd'[h] = hoprd[h]
BY Types DEF Patch, ObjectsOK

\* Hoprd::update_status, when it does not fail, changes the phase of an object and nothing that the
\* invariant of its node reads besides.
LEMMA StatusEffect ==
  ASSUME TypeOK, StatusesWritten, NEW h \in Hoprds, NEW phase \in Phases, UpdateStatus(h, phase)
  PROVE  /\ \A g \in Hoprds : g # h => hoprd'[g] = hoprd[g]
         /\ hoprd'[h].uid = hoprd[h].uid /\ hoprd'[h].life = hoprd[h].life
         /\ hoprd'[h].identity_name = hoprd[h].identity_name
         /\ Exists(h) => hoprd'[h].phase = phase
         /\ ~Exists(h) => hoprd'[h].phase = hoprd[h].phase
<1> DEFINE o == [hoprd[h] EXCEPT !.phase = phase, !.observed = task[h].self.gen]
<1>1. Patch(h, o)
  BY DEF UpdateStatus, StatusesWritten, Lose
<1>2. o.uid = hoprd[h].uid /\ o.life = hoprd[h].life /\ o.identity_name = hoprd[h].identity_name /\ o.phase = phase
  BY Types DEF HoprdObjects
<1> HIDE DEF o
<1> QED BY <1>1, <1>2, PatchEffect DEF Exists

\* Steps that write the status, by the phase written and the step that follows.
LEMMA StatusStep ==
  ASSUME TypeOK, FixedNames, StatusesWritten, NEW h \in Hoprds, NodeInv(h),
         create_init(h) \/ set_running_status(h) \/ recover(h) \/ reject_change(h)
           \/ await_modified(h) \/ delete_begin(h)
  PROVE  ObjectStep(h) /\ PcStep(h) /\ UNCHANGED <<identity, operator, sub, mount>>
         /\ \A g \in Hoprds : g # h => hoprd'[g] = hoprd[g] /\ task'[g] = task[g]
<1> USE Types DEF Exists, Finalized, Terminating
<1>0. OwnerInv(h) /\ DeletionInv(h)
  BY DEF NodeInv
<1>1. \A g \in Hoprds : g # h => task'[g] = task[g]
  BY DEF create_init, set_running_status, recover, reject_change, await_modified, delete_begin,
         TasksOK, Goto, End
<1>2. UNCHANGED <<identity, operator, sub, mount>>
  BY DEF create_init, set_running_status, recover, reject_change, await_modified, delete_begin
<1>3. \A g \in Hoprds : g # h => hoprd'[g] = hoprd[g]
  BY StatusEffect DEF create_init, set_running_status, recover, reject_change, await_modified, delete_begin, Phases
<1>4. /\ hoprd'[h].uid = hoprd[h].uid /\ hoprd'[h].life = hoprd[h].life
      /\ hoprd'[h].identity_name = hoprd[h].identity_name
  BY StatusEffect DEF create_init, set_running_status, recover, reject_change, await_modified, delete_begin, Phases
<1>5. CASE create_init(h)
  <2>1. task[h].pc = "init" /\ task'[h].pc = "lock" /\ task'[h].self = task[h].self
    BY <1>5, GotoEffect DEF create_init, At
  <2> QED BY <1>0, <1>1, <1>2, <1>3, <1>4, <2>1
      DEF OwnerInv, ObjectStep, PcStep, Starting, Holding, DeleteSteps, ModifySteps, Clean
<1>6. CASE set_running_status(h) \/ recover(h) \/ reject_change(h) \/ await_modified(h)
  <2>1. task[h].pc \in Holding /\ task[h].pc \notin DeleteSteps
    BY <1>6 DEF set_running_status, recover, reject_change, await_modified, At, Holding, ModifySteps, DeleteSteps
  <2>2. \/ task'[h].pc = "idle" /\ task'[h].self.uid = 0
        \/ task'[h].pc \in {"db", "annotate"} /\ task'[h].self = task[h].self
    BY <1>6, GotoEffect, EndEffect DEF set_running_status, recover, reject_change, await_modified
  <2> QED BY <1>0, <1>1, <1>2, <1>3, <1>4, <2>1, <2>2
      DEF OwnerInv, ObjectStep, PcStep, Starting, Holding, DeleteSteps, ModifySteps, Clean
<1>7. CASE delete_begin(h)
  <2>1. task[h].pc = "deleting" /\ task'[h].pc = "rm_ingress" /\ task'[h].self = task[h].self
    BY <1>7, GotoEffect DEF delete_begin, At
  <2>2. hoprd[h].life = "terminating"
    BY <1>0, <2>1 DEF DeletionInv, DeleteSteps
  <2>3. hoprd'[h].phase = "Deleting"
    BY <1>7, <2>2, StatusEffect DEF delete_begin, Phases
  <2> QED BY <1>0, <1>1, <1>2, <1>3, <1>4, <2>1, <2>2, <2>3
      DEF OwnerInv, ObjectStep, PcStep, Starting, Holding, DeleteSteps, ModifySteps, Clean
<1> QED BY <1>5, <1>6, <1>7
\* Steps that change neither the object nor its subresources: the write lock, the counts of the pool,
\* the reads and the notification.
LEMMA QuietStep ==
  ASSUME TypeOK, MutexInv, SafeNames, NEW h \in Hoprds, \A g \in Hoprds : NodeInv(g),
         lock_identity(h) \/ get_ready_identity(h) \/ count_lock(h) \/ get_identity(h)
           \/ unlock_pool(h) \/ count_unlock(h) \/ notify_deletion_to_cluster(h)
  PROVE  ObjectStep(h) /\ PcStep(h) /\ UNCHANGED <<identity, operator, sub, mount, hoprd>>
         /\ \A g \in Hoprds : g # h => task'[g] = task[g]
<1> USE Types DEF Exists, Finalized, Terminating
<1>0. OwnerInv(h) /\ DeletionInv(h)
  BY DEF NodeInv
<1>1. \A g \in Hoprds : g # h => task'[g] = task[g]
  BY DEF lock_identity, get_ready_identity, count_lock, get_identity, unlock_pool, count_unlock,
         notify_deletion_to_cluster, TasksOK, Goto, End
<1>2. UNCHANGED <<identity, operator, sub, mount, hoprd>>
  BY DEF lock_identity, get_ready_identity, count_lock, get_identity, unlock_pool, count_unlock,
         notify_deletion_to_cluster
<1>3. ObjectStep(h)
  BY <1>2 DEF ObjectStep
<1>4. CASE lock_identity(h)
  <2>1. task[h].pc = "lock" /\ task'[h].pc = "ready" /\ task'[h].self = task[h].self
    BY <1>4, GotoEffect DEF lock_identity, At
  <2> QED BY <1>0, <1>1, <1>2, <1>3, <2>1
      DEF OwnerInv, PcStep, Starting, Holding, DeleteSteps, ModifySteps, Clean
<1>5. CASE get_ready_identity(h)
  <2> DEFINE i == task[h].self.identity_name
  <2>1. task[h].pc = "ready" /\ i \in Wish[h] /\ i \in Identities
    BY <1>5 DEF get_ready_identity, At
  <2>2. \/ task'[h].pc = "claim" /\ task'[h].self = task[h].self
        \/ task'[h].pc = "finalizer" /\ task'[h].self = task[h].self
           /\ identity[i].phase = "InUse" /\ identity[i].node = i
        \/ task'[h].pc = "idle" /\ task'[h].self.uid = 0
    BY <1>5, GotoEffect, EndEffect DEF get_ready_identity, ready_identity
  <2>3. identity[i].phase = "InUse" /\ identity[i].node = i => Owns(h, i)
    <3> SUFFICES ASSUME identity[i].phase = "InUse", identity[i].node = i PROVE Owns(h, i)
      OBVIOUS
    <3>1. i \in Hoprds
      BY <2>1, NamesAssumption
    <3>2. i = h
      BY <2>1, <3>1 DEF SafeNames
    <3> QED BY <2>1, <3>2 DEF Owns
  <2> QED BY <1>0, <1>1, <1>2, <1>3, <2>1, <2>2, <2>3
      DEF OwnerInv, PcStep, Starting, Holding, DeleteSteps, ModifySteps, Clean
<1>6. CASE count_lock(h)
  <2>1. task[h].pc = "count" /\ task'[h].pc = "finalizer" /\ task'[h].self = task[h].self
    BY <1>6, GotoEffect DEF count_lock, At
  <2> QED BY <1>0, <1>1, <1>2, <1>3, <2>1
      DEF OwnerInv, PcStep, Starting, Holding, DeleteSteps, ModifySteps, Clean
<1>7. CASE get_identity(h)
  <2>1. task[h].pc = "get_identity"
    BY <1>7 DEF get_identity, At
  <2>2. identity[task[h].self.identity_name].phase = "InUse"
    BY <1>0, <2>1 DEF OwnerInv, Owns, Holding
  <2>3. \/ task'[h].pc = "release" /\ task'[h].self = task[h].self
        \/ task'[h].pc = "idle" /\ task'[h].self.uid = 0
    BY <1>7, <2>2, GotoEffect, EndEffect DEF get_identity
  <2> QED BY <1>0, <1>1, <1>2, <1>3, <2>1, <2>3
      DEF OwnerInv, DeletionInv, PcStep, Starting, Holding, DeleteSteps, ModifySteps, Clean
<1>8. CASE unlock_pool(h) \/ count_unlock(h) \/ notify_deletion_to_cluster(h)
  <2>1. task[h].pc \in {"unlock", "uncount", "notify"}
    BY <1>8 DEF unlock_pool, count_unlock, notify_deletion_to_cluster, At
  <2>2. \/ task'[h].pc \in {"uncount", "notify", "unfinalize"} /\ task'[h].self = task[h].self
        \/ task'[h].pc = "idle" /\ task'[h].self.uid = 0
    BY <1>8, GotoEffect, EndEffect DEF unlock_pool, count_unlock, notify_deletion_to_cluster
  <2> QED BY <1>0, <1>1, <1>2, <1>3, <2>1, <2>2
      DEF OwnerInv, DeletionInv, PcStep, Starting, Holding, DeleteSteps, ModifySteps, Clean
<1> QED BY <1>4, <1>5, <1>6, <1>7, <1>8

\* Steps that patch the object itself.
LEMMA PatchStep ==
  ASSUME TypeOK, NEW h \in Hoprds, NodeInv(h),
         add_finalizer(h) \/ default_delete_database(h) \/ update_last_configuration(h) \/ delete_finalizer(h)
  PROVE  ObjectStep(h) /\ PcStep(h) /\ UNCHANGED <<identity, operator, sub, mount>>
         /\ \A g \in Hoprds : g # h => hoprd'[g] = hoprd[g] /\ task'[g] = task[g]
<1> USE Types DEF Exists, Finalized, Terminating
<1>0. OwnerInv(h) /\ DeletionInv(h)
  BY DEF NodeInv
<1>1. \A g \in Hoprds : g # h => task'[g] = task[g]
  BY DEF add_finalizer, default_delete_database, update_last_configuration, delete_finalizer,
         TasksOK, Goto, End
<1>2. UNCHANGED <<identity, operator, sub, mount>>
  BY DEF add_finalizer, default_delete_database, update_last_configuration, delete_finalizer
<1>3. \A g \in Hoprds : g # h => hoprd'[g] = hoprd[g]
  BY PatchEffect DEF add_finalizer, default_delete_database, update_last_configuration, delete_finalizer
<1>4. CASE add_finalizer(h)
  <2>1. task[h].pc = "finalizer" /\ task'[h].pc = "ingress" /\ task'[h].self = task[h].self
    BY <1>4, GotoEffect DEF add_finalizer, At
  <2>2. /\ hoprd'[h].uid = hoprd[h].uid /\ hoprd'[h].identity_name = hoprd[h].identity_name
        /\ hoprd'[h].life # "absent" => hoprd[h].life # "absent"
    BY <1>4, PatchEffect DEF add_finalizer, HoprdObjects
  <2> QED BY <1>0, <1>1, <1>2, <1>3, <2>1, <2>2
      DEF OwnerInv, ObjectStep, PcStep, Starting, Holding, DeleteSteps, ModifySteps, Clean
<1>5. CASE default_delete_database(h) \/ update_last_configuration(h)
  <2>1. task[h].pc \in {"db", "annotate"} /\ task'[h].pc = "idle" /\ task'[h].self.uid = 0
    BY <1>5, EndEffect DEF default_delete_database, update_last_configuration, At
  <2>2. /\ hoprd'[h].uid = hoprd[h].uid /\ hoprd'[h].identity_name = hoprd[h].identity_name
        /\ hoprd'[h].life = hoprd[h].life
    <3>1. ASSUME NEW g, NEW d, NEW n,
                 Patch(h, [hoprd[h] EXCEPT !.db = d, !.gen = g]) \/ Patch(h, [hoprd[h] EXCEPT !.last = n])
          PROVE  /\ hoprd'[h].uid = hoprd[h].uid /\ hoprd'[h].identity_name = hoprd[h].identity_name
                 /\ hoprd'[h].life = hoprd[h].life
      <4>1. hoprd'[h] \in {hoprd[h], [hoprd[h] EXCEPT !.db = d, !.gen = g], [hoprd[h] EXCEPT !.last = n]}
        BY <3>1, PatchEffect
      <4> QED BY <4>1 DEF HoprdObjects
    <3> QED BY <1>5, <3>1 DEF default_delete_database, update_last_configuration
  <2> QED BY <1>0, <1>1, <1>2, <1>3, <2>1, <2>2
      DEF OwnerInv, ObjectStep, PcStep, Starting, Holding, DeleteSteps, ModifySteps, Clean
<1>6. CASE delete_finalizer(h)
  <2>1. task[h].pc = "unfinalize" /\ task'[h].pc = "idle" /\ task'[h].self.uid = 0
    BY <1>6, EndEffect DEF delete_finalizer, At
  <2>2. hoprd[h].life = "terminating"
    BY <1>0, <2>1 DEF DeletionInv, DeleteSteps
  <2>3. hoprd'[h] = hoprd[h] \/ hoprd'[h] = Gone(hoprd[h].uid)
    BY <1>6, <2>2, PatchEffect DEF delete_finalizer
  <2>4. hoprd'[h].uid = hoprd[h].uid /\ (hoprd'[h] = hoprd[h] \/ hoprd'[h].life = "absent")
    BY <2>3 DEF Gone
  <2> QED BY <1>0, <1>1, <1>2, <1>3, <2>1, <2>2, <2>4
      DEF OwnerInv, ObjectStep, PcStep, Starting, Holding, DeleteSteps, ModifySteps, Clean
<1> QED BY <1>4, <1>5, <1>6

\* Steps that create, change or delete a subresource.
LEMMA SubresourceStep ==
  ASSUME TypeOK, NEW h \in Hoprds, NodeInv(h),
         (create_subresource(h) /\ ~Die) \/ modify_deployment(h) \/ delete_subresource(h)
  PROVE  ObjectStep(h) /\ PcStep(h) /\ UNCHANGED <<identity, operator, hoprd>>
         /\ \A g \in Hoprds : g # h => sub'[g] = sub[g] /\ mount'[g] = mount[g] /\ task'[g] = task[g]
<1> USE Types DEF Exists, Finalized, Terminating
<1>0. OwnerInv(h) /\ DeletionInv(h)
  BY DEF NodeInv
<1>1. CASE create_subresource(h) /\ ~Die
  <2>1. PICK k \in Kinds :
          /\ task[h].pc = k
          /\ \/ /\ sub' = [sub EXCEPT ![h][k] = task[h].self.uid]
                /\ mount' = IF k = "deployment" THEN [mount EXCEPT ![h] = task[h].self.identity_name] ELSE mount
                /\ Goto(h, AfterCreate[k])
             \/ End(h) /\ UNCHANGED <<sub, mount>>
    BY <1>1 DEF create_subresource, Built, Remount, At
  <2>2. UNCHANGED <<identity, operator, hoprd>>
    BY <1>1 DEF create_subresource, Built, Remount
  <2>3. \A g \in Hoprds : g # h => sub'[g] = sub[g] /\ mount'[g] = mount[g] /\ task'[g] = task[g]
    BY <2>1 DEF Goto, End, StateOK, TasksOK
  <2>4. /\ \A j \in Kinds : sub'[h][j] \in {sub[h][j], task[h].self.uid}
        /\ \/ sub'[h]["deployment"] = sub[h]["deployment"] /\ mount'[h] = mount[h]
           \/ mount'[h] = task[h].self.identity_name
    BY <2>1 DEF StateOK, Kinds
  <2>5. task[h].pc \in Holding
    BY <2>1 DEF Kinds, Holding
  <2>6. \/ task'[h].pc = "idle" /\ task'[h].self.uid = 0
        \/ task'[h].pc \in {"service", "deployment", "run"} /\ task'[h].self = task[h].self
    BY <2>1, GotoEffect, EndEffect DEF AfterCreate, Kinds
  <2> QED BY <1>0, <2>1, <2>2, <2>3, <2>4, <2>5, <2>6
      DEF OwnerInv, ObjectStep, PcStep, Starting, Holding, DeleteSteps, ModifySteps, Clean, Kinds
<1>2. CASE modify_deployment(h)
  <2>1. task[h].pc = "redeploy" /\ UNCHANGED <<identity, operator, hoprd, sub>>
    BY <1>2 DEF modify_deployment, Remount, At
  <2>2. \/ task'[h].pc = "idle" /\ task'[h].self.uid = 0
        \/ task'[h].pc = "rewait" /\ task'[h].self = task[h].self
    BY <1>2, GotoEffect, EndEffect DEF modify_deployment, Remount
  <2>3. \A g \in Hoprds : g # h => mount'[g] = mount[g] /\ task'[g] = task[g]
    BY <1>2 DEF modify_deployment, Remount, Goto, End, StateOK, TasksOK
  <2>4. mount'[h] \in {mount[h], task[h].self.identity_name}
    BY <1>2 DEF modify_deployment, Remount, StateOK
  <2> QED BY <1>0, <2>1, <2>2, <2>3, <2>4
      DEF OwnerInv, ObjectStep, PcStep, Starting, Holding, DeleteSteps, ModifySteps, Clean, Kinds
<1>3. CASE delete_subresource(h)
  <2>1. PICK k \in Kinds :
          /\ Removing(h, k)
          /\ \/ Drop(h, k) /\ Goto(h, AfterRemove[k])
             \/ End(h) /\ UNCHANGED <<sub, mount>>
    BY <1>3 DEF delete_subresource
  <2>2. UNCHANGED <<identity, operator, hoprd>>
    BY <1>3 DEF delete_subresource
  <2>3. \A g \in Hoprds : g # h => sub'[g] = sub[g] /\ mount'[g] = mount[g] /\ task'[g] = task[g]
    BY <2>1 DEF Drop, Goto, End, StateOK, TasksOK
  <2>4. /\ \A j \in Kinds : sub'[h][j] \in {sub[h][j], 0}
        /\ mount'[h] = mount[h] \/ sub'[h]["deployment"] = 0
    BY <2>1 DEF Drop, StateOK, Kinds
  <2>5. \/ k = "ingress" /\ task[h].pc = "rm_ingress"
        \/ k = "service" /\ task[h].pc = "rm_service"
        \/ k = "deployment" /\ task[h].pc = "rm_deployment"
    BY <2>1 DEF Removing, At, Kinds
  <2>6. \/ task'[h].pc = "idle" /\ task'[h].self.uid = 0
        \/ task'[h].pc = AfterRemove[k] /\ task'[h].self = task[h].self /\ sub'[h][k] = 0
    BY <2>1, GotoEffect, EndEffect DEF Drop, StateOK
  <2>7. ObjectStep(h)
    BY <2>2, <2>4 DEF ObjectStep, Kinds
  <2>8. PcStep(h)
    BY <1>0, <2>2, <2>4, <2>5, <2>6
    DEF OwnerInv, DeletionInv, PcStep, AfterRemove, Starting, Holding, DeleteSteps, ModifySteps, Clean, Kinds
  <2> QED BY <2>2, <2>3, <2>7, <2>8
<1> QED BY <1>1, <1>2, <1>3
-----------------------------------------------------------------------------
(***************************************************************************)
(* Steps that give or take an identity, start a task or restart.           *)
(***************************************************************************)

\* The claim of an identity takes it from nobody.
LEMMA ClaimStep ==
  ASSUME TypeOK, MutexInv, NEW h \in Hoprds, \A g \in Hoprds : NodeInv(g), claim_identity(h)
  PROVE  \A g \in Hoprds : NodeInv(g)'
<1> USE Types DEF Exists, Finalized, Terminating, Live
<1> DEFINE i == task[h].self.identity_name
<1>0. OwnerInv(h) /\ DeletionInv(h) /\ ObjectInv(h)
  BY DEF NodeInv
<1>1. /\ task[h].pc = "claim" /\ i \in Wish[h] /\ i \in Identities
      /\ identity[i].node = NoName /\ operator.pc = "up" /\ operator.todo = {}
  BY <1>0 DEF claim_identity, At, MutexInv, ObjectInv
<1>2. UNCHANGED <<hoprd, sub, mount, operator>>
  BY DEF claim_identity
<1>3. CASE End(h) /\ UNCHANGED identity
  <2>1. task'[h].pc = "idle" /\ task'[h].self.uid = 0 /\ \A g \in Hoprds : g # h => task'[g] = task[g]
    BY <1>3, EndEffect
  <2>2. ObjectInv(h)'
    BY <1>0, <1>2, <2>1 DEF ObjectInv
  <2>3. OwnerInv(h)'
    BY <1>0, <1>1, <1>2, <1>3, <2>1 DEF OwnerInv, Owns, Holding, ModifySteps
  <2>4. DeletionInv(h)'
    BY <1>2, <1>3, <2>1 DEF DeletionInv, DeleteSteps
  <2>5. NodeInv(h)'
    BY <2>2, <2>3, <2>4 DEF NodeInv
  <2> QED BY <1>2, <1>3, <2>1, <2>5, OtherNode
<1>4. CASE identity' = [identity EXCEPT ![i] = [phase |-> "InUse", node |-> h]] /\ Goto(h, "count")
  <2>1. /\ task'[h].pc = "count" /\ task'[h].self = task[h].self
        /\ \A g \in Hoprds : g # h => task'[g] = task[g]
    BY <1>4, GotoEffect DEF Goto, TasksOK
  <2>2. /\ identity'[i] = [phase |-> "InUse", node |-> h]
        /\ \A j \in Identities : j # i => identity'[j] = identity[j]
    BY <1>1, <1>4 DEF StateOK
  <2>3. ObjectInv(h)'
    BY <1>0, <1>1, <1>2, <2>1 DEF ObjectInv
  <2>4. OwnerInv(h)'
    <3>1. \A j \in Identities : Owns(h, j) => identity'[j] = [phase |-> "InUse", node |-> h]
      BY <2>2 DEF Owns
    <3>2. \A j \in Identities : identity'[j].node = h => j \in Wish[h]
      BY <1>0, <1>1, <2>2 DEF OwnerInv
    <3>3. (hoprd[h].life # "absent" /\ hoprd[h].uid = sub[h]["deployment"])
            => mount[h] \in Wish[h] /\ identity'[mount[h]] = [phase |-> "InUse", node |-> h]
      BY <1>0, <3>1 DEF OwnerInv
    <3>4. hoprd[h].life \notin {"finalized", "terminating"}
      BY <1>0, <1>1 DEF OwnerInv
    <3> QED BY <1>1, <1>2, <2>1, <2>2, <3>2, <3>3, <3>4 DEF OwnerInv, Owns
  <2>5. DeletionInv(h)'
    BY <1>2, <2>1 DEF DeletionInv, DeleteSteps
  <2>6. NodeInv(h)'
    BY <2>3, <2>4, <2>5 DEF NodeInv
  <2>7. ASSUME NEW g \in Hoprds, g # h PROVE NodeInv(g)'
    <3>1. \A j \in Identities : identity'[j] = identity[j] \/ (identity[j].node # g /\ identity'[j].node # g)
      BY <1>1, <2>2, <2>7, NamesAssumption
    <3> QED BY <1>2, <2>1, <2>7, <3>1, OtherNode
  <2> QED BY <2>6, <2>7
<1> QED BY <1>3, <1>4 DEF claim_identity

\* A release by the task of h takes the only identity of h, after its Deployment is gone.
LEMMA ReleaseStep ==
  ASSUME TypeOK, FixedNames, NEW h \in Hoprds, \A g \in Hoprds : NodeInv(g), release_identity(h)
  PROVE  \A g \in Hoprds : NodeInv(g)'
<1> USE Types DEF Exists, Finalized, Terminating, Live
<1> DEFINE i == task[h].self.identity_name
<1>0. OwnerInv(h) /\ DeletionInv(h) /\ ObjectInv(h)
  BY DEF NodeInv
<1>1. /\ task[h].pc = "release" /\ i \in Wish[h] /\ i \in Identities
      /\ identity[i] = [phase |-> "InUse", node |-> h] /\ operator.pc = "up" /\ operator.todo = {}
  BY <1>0 DEF release_identity, At, ObjectInv, OwnerInv, Holding, Owns
<1>2. UNCHANGED <<hoprd, sub, mount, operator>>
  BY DEF release_identity
<1>d. /\ hoprd[h].life = "terminating" /\ hoprd[h].phase = "Deleting" /\ hoprd[h].uid > 0
      /\ sub[h]["ingress"] = 0 /\ sub[h]["service"] = 0 /\ sub[h]["deployment"] = 0
  BY <1>0, <1>1 DEF DeletionInv, DeleteSteps, ObjectInv
<1>3. CASE End(h) /\ UNCHANGED identity
  <2>1. task'[h].pc = "idle" /\ task'[h].self.uid = 0 /\ \A g \in Hoprds : g # h => task'[g] = task[g]
    BY <1>3, EndEffect
  <2>2. ObjectInv(h)'
    BY <1>0, <1>2, <2>1 DEF ObjectInv
  <2>3. OwnerInv(h)'
    BY <1>0, <1>1, <1>2, <1>d, <1>3, <2>1 DEF OwnerInv, Owns, Holding, ModifySteps
  <2>4. DeletionInv(h)'
    BY <1>2, <1>3, <2>1 DEF DeletionInv, DeleteSteps
  <2>5. NodeInv(h)'
    BY <2>2, <2>3, <2>4 DEF NodeInv
  <2> QED BY <1>2, <1>3, <2>1, <2>5, OtherNode
<1>4. CASE identity' = [identity EXCEPT ![i] = Free] /\ Goto(h, "unlock")
  <2>1. /\ task'[h].pc = "unlock" /\ task'[h].self = task[h].self
        /\ \A g \in Hoprds : g # h => task'[g] = task[g]
    BY <1>4, GotoEffect DEF Goto, TasksOK
  <2>2. /\ identity'[i].node = NoName
        /\ \A j \in Identities : j # i => identity'[j] = identity[j]
    BY <1>1, <1>4 DEF StateOK, Free
  <2>3. \A j \in Identities : identity'[j].node # h
    BY <1>0, <1>1, <2>2, NamesAssumption DEF OwnerInv, FixedNames
  <2>4. ObjectInv(h)'
    BY <1>0, <1>1, <1>2, <2>1 DEF ObjectInv
  <2>5. OwnerInv(h)'
    BY <1>1, <1>2, <1>d, <2>1, <2>3 DEF OwnerInv, Holding, ModifySteps
  <2>6. DeletionInv(h)'
    BY <1>2, <1>d, <2>1, <2>3 DEF DeletionInv, DeleteSteps
  <2>7. NodeInv(h)'
    BY <2>4, <2>5, <2>6 DEF NodeInv
  <2>8. ASSUME NEW g \in Hoprds, g # h PROVE NodeInv(g)'
    <3>1. \A j \in Identities : identity'[j] = identity[j] \/ (identity[j].node # g /\ identity'[j].node # g)
      BY <1>1, <2>2, <2>8, NamesAssumption
    <3> QED BY <1>2, <2>1, <2>8, <3>1, OtherNode
  <2> QED BY <2>7, <2>8
<1> QED BY <1>3, <1>4 DEF release_identity
\* A reconciliation starts to modify or to delete only what still holds its identity.
LEMMA ReconcileStep ==
  ASSUME TypeOK, NEW h \in Hoprds, NodeInv(h), operator.pc = "up", Exists(h), first_step(hoprd[h]) # "idle",
         task' = [task EXCEPT ![h] = [pc |-> first_step(hoprd[h]), self |-> Snapshot(hoprd[h])]],
         UNCHANGED <<hoprd, identity, sub, mount, operator>>
  PROVE  NodeInv(h)'
<1> USE Types DEF Exists, Finalized, Terminating, Live
<1>0. OwnerInv(h) /\ DeletionInv(h) /\ ObjectInv(h)
  BY DEF NodeInv
<1>1. /\ task'[h].pc = first_step(hoprd[h]) /\ task'[h].self.uid = hoprd[h].uid
      /\ task'[h].self.identity_name = hoprd[h].identity_name
  BY DEF Snapshot, TasksOK
<1>2. /\ task'[h].pc \in {"init", "deleting", "recover", "reject", "immutable", "redeploy"}
      /\ task'[h].pc = "init" => hoprd[h].life = "new"
      /\ task'[h].pc = "deleting" => hoprd[h].life = "terminating" /\ hoprd[h].phase # "Deleting"
      /\ task'[h].pc \in {"recover", "reject", "immutable", "redeploy"}
           => hoprd[h].life \in {"finalized", "terminating"} /\ hoprd[h].phase # "Deleting"
  <2> DEFINE a == determine_action(hoprd[h])
  <2>1. a \in {"Create", "Modify", "Delete", "NoOp", "Panic"}
    BY DEF determine_action
  <2>2. a = "Create" => hoprd[h].life = "new"
    BY DEF determine_action
  <2>3. a = "Delete" => hoprd[h].life = "terminating" /\ hoprd[h].phase # "Deleting"
    BY DEF determine_action
  <2>4. a = "Modify" => hoprd[h].life \in {"finalized", "terminating"} /\ hoprd[h].phase # "Deleting"
    BY DEF determine_action, HoprdObjects, Lives
  <2>5. modify_branch(hoprd[h]) \in {"recover", "reject", "immutable", "redeploy"}
    BY DEF modify_branch
  <2> HIDE DEF a
  <2>6. first_step(hoprd[h]) = IF a = "Create" THEN "init" ELSE IF a = "Modify" THEN modify_branch(hoprd[h])
                               ELSE IF a = "Delete" THEN "deleting" ELSE "idle"
    BY <2>1 DEF first_step, a
  <2> QED BY <1>1, <2>1, <2>2, <2>3, <2>4, <2>5, <2>6
<1>3. ObjectInv(h)'
  BY <1>0, <1>1 DEF ObjectInv
<1>4. OwnerInv(h)'
  <2>1. task'[h].pc \in Holding => Owns(h, hoprd[h].identity_name)
    BY <1>0, <1>2 DEF OwnerInv, Holding, ModifySteps, DeleteSteps
  <2>2. task'[h].pc \in {"init", "lock", "ready", "claim"} => hoprd[h].life = "new"
    BY <1>2
  <2> QED BY <1>0, <1>1, <2>1, <2>2 DEF OwnerInv, Owns
<1>5. DeletionInv(h)'
  BY <1>2 DEF DeletionInv, DeleteSteps
<1> QED BY <1>3, <1>4, <1>5 DEF NodeInv

\* The users and the garbage collector.
LEMMA ClusterStep ==
  ASSUME TypeOK, FixedNames, NEW h \in Hoprds, NodeInv(h),
         UserCreate(h) \/ UserEdit(h) \/ UserDelete(h) \/ CollectGarbage(h)
  PROVE  /\ NodeInv(h)' /\ UNCHANGED <<identity, operator, task>>
         /\ \A g \in Hoprds : g # h => hoprd'[g] = hoprd[g] /\ sub'[g] = sub[g] /\ mount'[g] = mount[g]
<1> USE Types DEF Exists, Finalized, Terminating, Live
<1>0. OwnerInv(h) /\ DeletionInv(h) /\ ObjectInv(h)
  BY DEF NodeInv
<1>1. UNCHANGED <<identity, operator, task>>
  BY DEF UserCreate, UserEdit, UserDelete, CollectGarbage
<1>2. \A g \in Hoprds : g # h => hoprd'[g] = hoprd[g] /\ sub'[g] = sub[g] /\ mount'[g] = mount[g]
  BY DEF UserCreate, UserEdit, UserDelete, CollectGarbage, Drop, ObjectsOK, StateOK
<1>3. CASE UserCreate(h)
  <2>1. /\ hoprd[h].life = "absent" /\ hoprd'[h].life = "new" /\ hoprd'[h].uid = hoprd[h].uid + 1
        /\ UNCHANGED <<sub, mount>>
    BY <1>3 DEF UserCreate, ObjectsOK
  <2>2. ObjectInv(h)'
    BY <1>0, <1>1, <2>1 DEF ObjectInv
  <2>3. hoprd'[h].uid # sub[h]["deployment"]
    BY <1>0, <2>1 DEF ObjectInv, Kinds
  <2>4. OwnerInv(h)'
    BY <1>0, <1>1, <2>1, <2>3 DEF OwnerInv, Owns
  <2>5. DeletionInv(h)'
    BY <1>0, <1>1, <2>1 DEF DeletionInv, DeleteSteps
  <2> QED BY <1>1, <1>2, <2>2, <2>4, <2>5 DEF NodeInv
<1>4. CASE UserEdit(h)
  <2>1. /\ hoprd[h].life \in {"new", "finalized"} /\ hoprd'[h].life = hoprd[h].life
        /\ hoprd'[h].uid = hoprd[h].uid /\ hoprd'[h].phase = hoprd[h].phase
        /\ hoprd'[h].identity_name \in Wish[h] /\ UNCHANGED <<sub, mount>>
    <3>1. PICK i \in Wish[h] : \E a \in {i, hoprd[h].last} :
            hoprd' = [hoprd EXCEPT ![h] = [@ EXCEPT !.identity_name = i, !.gen = hoprd[h].gen + 1, !.last = a]]
      BY <1>4 DEF UserEdit
    <3>2. PICK a : hoprd' = [hoprd EXCEPT ![h] = [@ EXCEPT !.identity_name = i, !.gen = hoprd[h].gen + 1, !.last = a]]
      BY <3>1
    <3>3. hoprd'[h] = [hoprd[h] EXCEPT !.identity_name = i, !.gen = hoprd[h].gen + 1, !.last = a]
      BY <3>2 DEF ObjectsOK
    <3>4. /\ hoprd'[h].life = hoprd[h].life /\ hoprd'[h].uid = hoprd[h].uid
          /\ hoprd'[h].phase = hoprd[h].phase /\ hoprd'[h].identity_name = i
      BY <3>3 DEF HoprdObjects
    <3> QED BY <1>4, <3>4 DEF UserEdit
  <2>2. ObjectInv(h)'
    BY <1>0, <1>1, <2>1 DEF ObjectInv
  <2>3. hoprd'[h].identity_name = hoprd[h].identity_name
    BY <2>1 DEF FixedNames
  <2>4. OwnerInv(h)'
    BY <1>0, <1>1, <2>1, <2>3 DEF OwnerInv, Owns
  <2>5. DeletionInv(h)'
    BY <1>0, <1>1, <2>1 DEF DeletionInv, DeleteSteps
  <2> QED BY <1>1, <1>2, <2>2, <2>4, <2>5 DEF NodeInv
<1>5. CASE UserDelete(h)
  <2>1. /\ hoprd'[h].uid = hoprd[h].uid /\ UNCHANGED <<sub, mount>>
        /\ \/ hoprd[h].life = "new" /\ hoprd'[h].life = "absent"
           \/ /\ hoprd[h].life = "finalized" /\ hoprd'[h].life = "terminating"
              /\ hoprd'[h].phase = hoprd[h].phase /\ hoprd'[h].identity_name = hoprd[h].identity_name
    BY <1>5 DEF UserDelete, Gone, ObjectsOK, HoprdObjects
  <2>2. ObjectInv(h)'
    BY <1>0, <1>1, <2>1 DEF ObjectInv
  <2>3. OwnerInv(h)'
    BY <1>0, <1>1, <2>1 DEF OwnerInv, Owns
  <2>4. DeletionInv(h)'
    BY <1>0, <1>1, <2>1 DEF DeletionInv, DeleteSteps
  <2> QED BY <1>1, <1>2, <2>2, <2>3, <2>4 DEF NodeInv
<1>6. CASE CollectGarbage(h)
  <2>1. /\ UNCHANGED hoprd
        /\ \A k \in Kinds : sub'[h][k] \in {0, sub[h][k]}
        /\ sub'[h]["deployment"] = 0 \/ mount'[h] = mount[h]
    BY <1>6 DEF CollectGarbage, Drop, StateOK, Kinds
  <2>2. ObjectInv(h)'
    BY <1>0, <1>1, <2>1 DEF ObjectInv
  <2>3. OwnerInv(h)'
    <3>1. hoprd[h].life # "absent" /\ hoprd[h].uid = sub'[h]["deployment"]
            => sub'[h]["deployment"] = sub[h]["deployment"] /\ mount'[h] = mount[h]
      BY <1>0, <2>1 DEF ObjectInv, Kinds
    <3> QED BY <1>0, <1>1, <2>1, <3>1 DEF OwnerInv, Owns
  <2>4. DeletionInv(h)'
    BY <1>0, <1>1, <2>1 DEF DeletionInv, DeleteSteps, Kinds
  <2> QED BY <1>1, <1>2, <2>2, <2>3, <2>4 DEF NodeInv
<1> QED BY <1>3, <1>4, <1>5, <1>6

\* Crash and restart: sync_identities releases only what belongs to no object.
LEMMA RestartStep ==
  ASSUME TypeOK, NEW h \in Hoprds, NodeInv(h),
         Die \/ start_controllers \/ sync_uncount \/ sync_identity_pools \/ \E i \in Identities : sync_release(i)
  PROVE  NodeInv(h)'
<1> USE Types DEF Exists, Finalized, Terminating, Live
<1>0. OwnerInv(h) /\ DeletionInv(h) /\ ObjectInv(h)
  BY DEF NodeInv
<1>1. CASE Die
  <2>1. /\ task'[h].pc = "idle" /\ task'[h].self.uid = 0 /\ UNCHANGED <<hoprd, identity, sub, mount>>
        /\ operator'.pc = "down" /\ operator'.todo = {}
    BY <1>1, DieEffect
  <2>2. ObjectInv(h)'
    BY <1>0, <2>1 DEF ObjectInv
  <2>3. OwnerInv(h)'
    BY <1>0, <2>1 DEF OwnerInv, Owns, Holding, ModifySteps
  <2>4. DeletionInv(h)'
    BY <2>1 DEF DeletionInv, DeleteSteps
  <2> QED BY <2>2, <2>3, <2>4 DEF NodeInv
<1>2. CASE start_controllers
  <2>1. /\ UNCHANGED <<hoprd, identity, sub, mount, task>> /\ operator.pc = "down" /\ operator'.pc = "sync"
        /\ \A i \in operator'.todo : identity[i].node = h => hoprd[h].life = "absent"
    BY <1>2 DEF start_controllers
  <2>2. ObjectInv(h)'
    BY <1>0, <2>1 DEF ObjectInv
  <2>3. OwnerInv(h)'
    BY <1>0, <2>1 DEF OwnerInv, Owns
  <2>4. DeletionInv(h)'
    BY <1>0, <2>1 DEF DeletionInv
  <2> QED BY <2>2, <2>3, <2>4 DEF NodeInv
<1>3. CASE sync_uncount \/ sync_identity_pools
  <2>1. /\ UNCHANGED <<hoprd, identity, sub, mount, task>> /\ operator.pc \in {"sync", "uncount"}
        /\ operator'.todo = operator.todo
        /\ operator'.pc = "sync" \/ (operator'.pc = "up" /\ operator'.todo = {})
    BY <1>3 DEF sync_uncount, sync_identity_pools, StateOK
  <2>2. ObjectInv(h)'
    BY <1>0, <2>1 DEF ObjectInv
  <2>3. OwnerInv(h)'
    BY <1>0, <2>1 DEF OwnerInv, Owns
  <2>4. DeletionInv(h)'
    BY <1>0, <2>1 DEF DeletionInv
  <2> QED BY <2>2, <2>3, <2>4 DEF NodeInv
<1>4. ASSUME NEW i \in Identities, sync_release(i) PROVE NodeInv(h)'
  <2>1. /\ UNCHANGED <<hoprd, sub, mount, task>> /\ operator.pc = "sync" /\ i \in operator.todo
        /\ operator'.pc = "uncount" /\ operator'.todo = operator.todo \ {i}
        /\ identity'[i].node = NoName /\ \A j \in Identities : j # i => identity'[j] = identity[j]
    BY <1>4 DEF sync_release, Free, StateOK
  <2>2. task[h].pc = "idle"
    BY <1>0, <2>1 DEF ObjectInv
  <2>3. ObjectInv(h)'
    BY <1>0, <2>1 DEF ObjectInv
  <2>4. OwnerInv(h)'
    <3>1. \A j \in Identities : identity'[j].node = h => identity'[j] = identity[j]
      BY <2>1, NamesAssumption
    <3>2. \A j \in Identities : /\ Owns(h, j)
                                /\ Finalized(h) \/ Live(h, sub[h]["deployment"])
                                => identity'[j] = [phase |-> "InUse", node |-> h]
      BY <1>0, <2>1 DEF OwnerInv, Owns
    <3>3. \A j \in Identities : identity'[j].node = h => j \in Wish[h]
      BY <1>0, <3>1 DEF OwnerInv
    <3>4. Live(h, sub[h]["deployment"])
            => mount[h] \in Wish[h] /\ identity'[mount[h]] = [phase |-> "InUse", node |-> h]
      BY <1>0, <3>2 DEF OwnerInv
    <3>5. Finalized(h) /\ hoprd[h].phase # "Deleting"
            => identity'[hoprd[h].identity_name] = [phase |-> "InUse", node |-> h]
      BY <1>0, <3>2 DEF OwnerInv
    <3>6. \A j \in operator'.todo : identity'[j].node = h => ~Finalized(h) /\ ~Live(h, sub[h]["deployment"])
      BY <1>0, <2>1, <3>1 DEF OwnerInv, StateOK
    <3> QED BY <2>1, <2>2, <3>3, <3>4, <3>5, <3>6 DEF OwnerInv, Owns, Holding, ModifySteps
  <2>5. DeletionInv(h)'
    BY <2>1, <2>2 DEF DeletionInv, DeleteSteps
  <2> QED BY <2>3, <2>4, <2>5 DEF NodeInv
<1> QED BY <1>1, <1>2, <1>3, <1>4
-----------------------------------------------------------------------------
(***************************************************************************)
(* The theorems.                                                           *)
(***************************************************************************)

\* Every step keeps the invariant of every node.
LEMMA HolderStep ==
  ASSUME TypeOK, MutexInv, HolderInv, FixedNames, SafeNames, StatusesWritten, [Next]_vars
  PROVE  HolderInv'
<1>0. \A g \in Hoprds : NodeInv(g)
  BY DEF HolderInv, NodeInv
<1> SUFFICES \A g \in Hoprds : NodeInv(g)'
  BY DEF HolderInv, NodeInv
<1>1. ASSUME NEW h \in Hoprds, UserCreate(h) \/ UserEdit(h) \/ UserDelete(h) \/ CollectGarbage(h)
      PROVE  \A g \in Hoprds : NodeInv(g)'
  BY <1>0, <1>1, ClusterStep, OtherNode
<1>2. ASSUME Die \/ start_controllers \/ sync_uncount \/ sync_identity_pools
               \/ \E i \in Identities : sync_release(i)
      PROVE  \A g \in Hoprds : NodeInv(g)'
  BY <1>0, <1>2, RestartStep
<1>3. CASE UNCHANGED vars
  BY <1>0, <1>3, OtherNode DEF vars
<1>4. ASSUME NEW h \in Hoprds, reconciler(h)
      PROVE  \A g \in Hoprds : NodeInv(g)'
  <2>1. CASE /\ operator.pc = "up" /\ Exists(h) /\ first_step(hoprd[h]) # "idle"
             /\ task' = [task EXCEPT ![h] = [pc |-> first_step(hoprd[h]), self |-> Snapshot(hoprd[h])]]
             /\ UNCHANGED <<hoprd, identity, sub, mount, operator>>
    <3>1. NodeInv(h)'
      BY <1>0, <2>1, ReconcileStep
    <3>2. \A g \in Hoprds : g # h => task'[g] = task[g]
      BY <2>1, Types DEF TasksOK
    <3> QED BY <1>0, <2>1, <3>1, <3>2, OtherNode
  <2> QED BY <1>2, <1>3, <1>4, <2>1 DEF reconciler
<1>5. ASSUME NEW h \in Hoprds,
             create_init(h) \/ set_running_status(h) \/ recover(h) \/ reject_change(h)
               \/ await_modified(h) \/ delete_begin(h)
      PROVE  \A g \in Hoprds : NodeInv(g)'
  BY <1>0, <1>5, StatusStep, TaskStep, OtherNode
<1>6. ASSUME NEW h \in Hoprds,
             lock_identity(h) \/ get_ready_identity(h) \/ count_lock(h) \/ get_identity(h)
               \/ unlock_pool(h) \/ count_unlock(h) \/ notify_deletion_to_cluster(h)
      PROVE  \A g \in Hoprds : NodeInv(g)'
  BY <1>0, <1>6, QuietStep, TaskStep, OtherNode
<1>7. ASSUME NEW h \in Hoprds,
             add_finalizer(h) \/ default_delete_database(h) \/ update_last_configuration(h) \/ delete_finalizer(h)
      PROVE  \A g \in Hoprds : NodeInv(g)'
  BY <1>0, <1>7, PatchStep, TaskStep, OtherNode
<1>8. ASSUME NEW h \in Hoprds, create_subresource(h) \/ modify_deployment(h) \/ delete_subresource(h)
      PROVE  \A g \in Hoprds : NodeInv(g)'
  <2>1. CASE Die
    BY <1>2, <2>1
  <2>2. CASE ~Die
    BY <1>0, <1>8, <2>2, SubresourceStep, TaskStep, OtherNode
  <2> QED BY <2>1, <2>2
<1>9. ASSUME NEW h \in Hoprds, claim_identity(h) \/ release_identity(h)
      PROVE  \A g \in Hoprds : NodeInv(g)'
  BY <1>0, <1>9, ClaimStep, ReleaseStep
<1> QED BY <1>1, <1>2, <1>3, <1>4, <1>5, <1>6, <1>7, <1>8, <1>9 DEF Next, Crash

\* In every reachable state the holders of the identities are the ones HolderInv says.
THEOREM HoldersKnown ==
  ASSUME FixedNames, SafeNames, StatusesWritten
  PROVE  Spec => [](TypeOK /\ MutexInv /\ HolderInv)
<1>1. Init => HolderInv
  <2> SUFFICES ASSUME Init, NEW h \in Hoprds PROVE ObjectInv(h) /\ OwnerInv(h) /\ DeletionInv(h)
    BY DEF HolderInv
  <2>1. /\ hoprd[h].life = "absent" /\ hoprd[h].uid = 0 /\ task[h].pc = "idle" /\ task[h].self.uid = 0
        /\ \A k \in Kinds : sub[h][k] = 0
        /\ operator.pc = "up" /\ operator.todo = {}
        /\ \A i \in Identities : identity[i].node = NoName
    BY IdleType DEF Init, Gone, Free
  <2> QED BY <2>1, NamesAssumption
      DEF ObjectInv, OwnerInv, DeletionInv, Exists, Finalized, Terminating, Live, Holding, ModifySteps, DeleteSteps
<1>2. TypeOK /\ MutexInv /\ HolderInv /\ [Next]_vars => HolderInv'
  BY HolderStep
<1> QED BY <1>1, <1>2, Mutex, PTL DEF Spec

\* No two Deployments of existing nodes ever mount the same identity (Hoprd::lock_identity).
THEOREM OneUser ==
  ASSUME FixedNames, SafeNames, StatusesWritten
  PROVE  Spec => []ExclusiveUse
<1>1. HolderInv => ExclusiveUse
  <2> SUFFICES ASSUME HolderInv, NEW g \in Hoprds, NEW h \in Hoprds, NEW i \in Identities, Uses(g, i), Uses(h, i)
               PROVE  g = h
    BY DEF ExclusiveUse
  <2>1. identity[i] = [phase |-> "InUse", node |-> g] /\ identity[i] = [phase |-> "InUse", node |-> h]
    BY DEF HolderInv, OwnerInv, Owns, Uses
  <2>2. identity[i].node = g /\ identity[i].node = h
    BY <2>1
  <2> QED BY <2>2
<1> QED BY <1>1, HoldersKnown, PTL

\* The identity that a Deployment of an existing node mounts is InUse by that node (IdentityHoprd::unlock).
THEOREM UsedIsLocked ==
  ASSUME FixedNames, SafeNames, StatusesWritten
  PROVE  Spec => []UsedIdentityIsLocked
<1>1. HolderInv => UsedIdentityIsLocked
  BY DEF HolderInv, OwnerInv, Owns, UsedIdentityIsLocked, Uses
<1> QED BY <1>1, HoldersKnown, PTL

\* Hoprd::delete removes the finalizer only when the node has no subresource and no identity left.
THEOREM RemovalIsClean ==
  ASSUME FixedNames, SafeNames, StatusesWritten
  PROVE  Spec => RemovedClean
<1> DEFINE Cleans == \A h \in Hoprds :
                       Finalized(h) /\ ~Finalized(h)' =>
                         /\ \A k \in Kinds : sub[h][k] = 0
                         /\ \A i \in Identities : identity[i].node # h
<1>1. TypeOK /\ MutexInv /\ HolderInv /\ [Next]_vars => [Cleans]_vars
  <2> SUFFICES ASSUME TypeOK, MutexInv, HolderInv, [Next]_vars, NEW h \in Hoprds, Finalized(h), ~Finalized(h)'
               PROVE  /\ \A k \in Kinds : sub[h][k] = 0
                      /\ \A i \in Identities : identity[i].node # h
    OBVIOUS
  <2> USE Types DEF Exists, Finalized, Terminating
  <2>0. \A g \in Hoprds : NodeInv(g)
    BY DEF HolderInv, NodeInv
  <2>1. CASE task[h].pc = "unfinalize"
    BY <2>0, <2>1 DEF NodeInv, DeletionInv, DeleteSteps, Kinds
  <2>2. CASE task[h].pc # "unfinalize"
    <3>1. hoprd'[h].life \notin {"finalized", "terminating"} /\ hoprd[h].life \in {"finalized", "terminating"}
      OBVIOUS
    <3>2. ASSUME NEW g \in Hoprds,
                 create_init(g) \/ set_running_status(g) \/ recover(g) \/ reject_change(g)
                   \/ await_modified(g) \/ delete_begin(g)
          PROVE  FALSE
      <4>1. hoprd'[h].life = hoprd[h].life
        BY <3>2, StatusEffect DEF create_init, set_running_status, recover, reject_change,
             await_modified, delete_begin, Phases
      <4> QED BY <3>1, <4>1
    <3>3. ASSUME NEW g \in Hoprds,
                 add_finalizer(g) \/ default_delete_database(g) \/ update_last_configuration(g)
          PROVE  FALSE
      <4>1. CASE g # h
        BY <2>0, <3>1, <3>3, <4>1, PatchStep
      <4>2. ASSUME NEW n, NEW d, NEW m,
                   \/ Patch(h, [hoprd[h] EXCEPT !.db = d, !.gen = n])
                   \/ Patch(h, [hoprd[h] EXCEPT !.last = m])
                   \/ Patch(h, [hoprd[h] EXCEPT !.life = IF @ = "new" THEN "finalized" ELSE @])
            PROVE  hoprd'[h].life = hoprd[h].life
        <5>1. \/ hoprd'[h] = [hoprd[h] EXCEPT !.db = d, !.gen = n]
              \/ hoprd'[h] = [hoprd[h] EXCEPT !.last = m]
              \/ hoprd'[h] = [hoprd[h] EXCEPT !.life = IF @ = "new" THEN "finalized" ELSE @]
          BY <3>1, <4>2, PatchEffect
        <5> QED BY <3>1, <5>1 DEF HoprdObjects
      <4>3. CASE g = h
        BY <3>1, <3>3, <4>2, <4>3 DEF add_finalizer, default_delete_database, update_last_configuration
      <4> QED BY <4>1, <4>3
    <3>4. ASSUME NEW g \in Hoprds, delete_finalizer(g) PROVE FALSE
      <4>1. g # h
        BY <2>2, <3>4 DEF delete_finalizer, At
      <4> QED BY <2>0, <3>1, <3>4, <4>1, PatchStep
    <3>5. ASSUME NEW g \in Hoprds, UserCreate(g) \/ UserEdit(g) \/ UserDelete(g) PROVE FALSE
      <4>1. g = h
        BY <2>0, <3>1, <3>5, ClusterStep
      <4>2. CASE UserCreate(h)
        BY <3>1, <4>2 DEF UserCreate
      <4>3. CASE UserEdit(h)
        BY <3>1, <4>3 DEF UserEdit, ObjectsOK, HoprdObjects
      <4>4. CASE UserDelete(h)
        BY <3>1, <4>4 DEF UserDelete, ObjectsOK, HoprdObjects
      <4> QED BY <3>5, <4>1, <4>2, <4>3, <4>4
    <3>6. UNCHANGED hoprd
      BY <3>2, <3>3, <3>4, <3>5
      DEF Next, CollectGarbage, reconciler, lock_identity, get_ready_identity, claim_identity, count_lock,
          create_subresource, Built, Remount, modify_deployment, delete_subresource, get_identity, release_identity,
          unlock_pool, count_unlock, notify_deletion_to_cluster, Crash, Die, start_controllers,
          sync_release, sync_uncount, sync_identity_pools, vars
    <3> QED BY <3>1, <3>6
  <2> QED BY <2>1, <2>2
<1> QED BY <1>1, HoldersKnown, PTL DEF Spec, RemovedClean

-----------------------------------------------------------------------------
(***************************************************************************)
(* The count of the pool.                                                  *)
(***************************************************************************)

\* The patch of the pool does not fail.
CountsWritten == "pool" \notin Lossy

\* As long as the operator has not crashed, the counts are off by the locks and unlocks under way.
AccountInv ==
  budget.crashes = MaxCrashes =>
    /\ operator.pc = "up" /\ pool = cache
    /\ IsFiniteSet(Claimed) /\ IsFiniteSet(Released)
    /\ cache + Cardinality(Claimed) - Cardinality(Released) = Cardinality(Held)

Unlocking == {"unlock", "uncount"}

LEMMA HeldFinite == ASSUME NEW S \in SUBSET Identities PROVE IsFiniteSet(S)
BY FiniteAssumption, FS_Subset

\* Steps that count nothing.
LEMMA NothingCounted ==
  ASSUME AccountInv, UNCHANGED <<pool, cache, identity, operator>>, budget'.crashes = budget.crashes,
         \A g \in Hoprds : task'[g].pc # task[g].pc =>
           \/ {task'[g].pc, task[g].pc} \cap ({"count"} \cup Unlocking) = {}
           \/ {task'[g].pc, task[g].pc} \subseteq Unlocking
  PROVE  AccountInv'
<1>1. Claimed' = Claimed /\ Released' = Released
  BY DEF Claimed, Released, Unlocking
<1>2. Held' = Held
  BY DEF Held
<1> QED BY <1>1, <1>2 DEF AccountInv

\* A crash is counted.
LEMMA CrashCounted ==
  ASSUME TypeOK, Die
  PROVE  AccountInv'
<1>1. budget'.crashes # MaxCrashes
  BY BoundsAssumption DEF TypeOK, Budgets, Die
<1> QED BY <1>1 DEF AccountInv

LEMMA AccountStep ==
  ASSUME CountsWritten, TypeOK, MutexInv, HolderInv, AccountInv, [Next]_vars
  PROVE  AccountInv'
<1>0. /\ TasksOK /\ StateOK /\ ObjectsOK /\ budget \in Budgets
      /\ \A h \in Hoprds : task[h].pc # "idle" => task[h].self.identity_name \in Identities
  BY WishAssumption DEF TypeOK, TasksOK
<1>a. \A call : Lose(call) => budget'.crashes = budget.crashes
  BY <1>0 DEF Lose, Budgets
<1>1. CASE Die
  BY <1>1, CrashCounted
<1>2. ASSUME NEW h \in Hoprds, UserCreate(h) \/ UserEdit(h) \/ UserDelete(h) \/ CollectGarbage(h)
      PROVE  AccountInv'
  <2>1. UNCHANGED <<pool, cache, identity, operator, task>> /\ budget'.crashes = budget.crashes
    BY <1>0, <1>2 DEF UserCreate, UserEdit, UserDelete, CollectGarbage, Budgets
  <2> QED BY <2>1, NothingCounted
<1>3. ASSUME NEW h \in Hoprds, reconciler(h) PROVE AccountInv'
  <2>1. CASE /\ task' = [task EXCEPT ![h] = [pc |-> first_step(hoprd[h]), self |-> Snapshot(hoprd[h])]]
             /\ UNCHANGED <<identity, pool, cache, operator, budget>>
    <3>1. first_step(hoprd[h]) \notin {"count", "unlock", "uncount"} /\ task[h].pc = "idle"
      BY <1>0, <1>3, FirstStep DEF reconciler, ObjectsOK, Exists, Entries
    <3>2. task'[h].pc = first_step(hoprd[h]) /\ \A g \in Hoprds : g # h => task'[g] = task[g]
      BY <1>0, <2>1 DEF TasksOK
    <3> QED BY <2>1, <3>1, <3>2, NothingCounted DEF Unlocking
  <2>2. CASE UNCHANGED vars
    BY <2>2, NothingCounted DEF vars
  <2> QED BY <1>1, <1>3, <2>1, <2>2 DEF reconciler
<1>4. ASSUME NEW h \in Hoprds, ~Die,
             \/ create_init(h) \/ lock_identity(h) \/ get_ready_identity(h) \/ add_finalizer(h)
             \/ create_subresource(h) \/ set_running_status(h) \/ default_delete_database(h)
             \/ recover(h) \/ reject_change(h) \/ modify_deployment(h) \/ await_modified(h)
             \/ update_last_configuration(h) \/ delete_begin(h) \/ delete_subresource(h) \/ get_identity(h)
             \/ unlock_pool(h) \/ notify_deletion_to_cluster(h) \/ delete_finalizer(h)
      PROVE  AccountInv'
  <2>1. UNCHANGED <<pool, cache, identity, operator>>
    BY <1>4 DEF create_init, lock_identity, get_ready_identity, add_finalizer, create_subresource,
         set_running_status, default_delete_database, recover, reject_change, modify_deployment,
         await_modified, update_last_configuration, delete_begin, delete_subresource, get_identity,
         unlock_pool, notify_deletion_to_cluster, delete_finalizer
  <2>2. budget'.crashes = budget.crashes
    BY <1>4, <1>a DEF create_init, lock_identity, get_ready_identity, add_finalizer, create_subresource,
         set_running_status, default_delete_database, recover, reject_change, modify_deployment,
         await_modified, update_last_configuration, delete_begin, delete_subresource, get_identity,
         unlock_pool, notify_deletion_to_cluster, delete_finalizer, UpdateStatus
  <2>3. /\ \A g \in Hoprds : g # h => task'[g].pc = task[g].pc
        /\ \/ {task'[h].pc, task[h].pc} \cap ({"count"} \cup Unlocking) = {}
           \/ {task'[h].pc, task[h].pc} \subseteq Unlocking
    <3>1. CASE unlock_pool(h)
      BY <1>0, <3>1, GotoEffect DEF unlock_pool, At, Unlocking
    <3>2. CASE create_subresource(h)
      <4>1. \A k \in Kinds : k \notin {"count", "unlock", "uncount"} /\ AfterCreate[k] \notin {"count", "unlock", "uncount"}
        BY DEF Kinds, AfterCreate
      <4> QED BY <1>0, <1>4, <3>2, <4>1, GotoEffect, EndEffect DEF create_subresource, At, Unlocking
    <3>3. CASE delete_subresource(h)
      <4>1. \A k \in Kinds : AfterRemove[k] \notin {"count", "unlock", "uncount"}
        BY DEF Kinds, AfterRemove
      <4>2. task[h].pc \in {"rm_ingress", "rm_service", "rm_deployment"}
        BY <3>3 DEF delete_subresource, Removing, At, Kinds
      <4> QED BY <1>0, <3>3, <4>1, <4>2, GotoEffect, EndEffect DEF delete_subresource, Unlocking
    <3>4. CASE ~unlock_pool(h) /\ ~create_subresource(h) /\ ~delete_subresource(h)
      <4>1. task[h].pc \notin {"count", "unlock", "uncount"}
        BY <1>4, <3>4 DEF create_init, lock_identity, get_ready_identity, add_finalizer,
         set_running_status, default_delete_database, recover, reject_change, modify_deployment,
         await_modified, update_last_configuration, delete_begin, get_identity,
         notify_deletion_to_cluster, delete_finalizer, At
      <4>2. End(h) \/ \E pc \in Steps \ {"count", "unlock", "uncount"} : Goto(h, pc)
        BY <1>4, <3>4 DEF create_init, lock_identity, get_ready_identity, add_finalizer,
         set_running_status, default_delete_database, recover, reject_change, modify_deployment,
         await_modified, update_last_configuration, delete_begin, get_identity,
         notify_deletion_to_cluster, delete_finalizer, Steps, CreateSteps, ModifySteps, DeleteSteps
      <4> QED BY <1>0, <4>1, <4>2, GotoEffect, EndEffect DEF Unlocking
    <3> QED BY <3>1, <3>2, <3>3, <3>4
  <2> QED BY <2>1, <2>2, <2>3, NothingCounted
<1>5. ASSUME NEW h \in Hoprds, claim_identity(h) PROVE AccountInv'
  <2> DEFINE i == task[h].self.identity_name
  <2>0. task[h].pc = "claim" /\ i \in Identities /\ UNCHANGED <<pool, cache, operator>>
    BY <1>0, <1>5 DEF claim_identity, At
  <2>1. CASE End(h) /\ UNCHANGED identity /\ Lose("claim")
    BY <1>0, <1>a, <2>0, <2>1, EndEffect, NothingCounted DEF Unlocking
  <2>2. CASE /\ identity' = [identity EXCEPT ![i] = [phase |-> "InUse", node |-> h]]
             /\ Goto(h, "count") /\ UNCHANGED budget
    <3>1. task'[h].pc = "count" /\ \A g \in Hoprds : g # h => task'[g].pc = task[g].pc
      BY <1>0, <2>2, GotoEffect
    <3>2. Claimed' = Claimed \cup {h} /\ h \notin Claimed /\ Released' = Released
      BY <2>0, <3>1 DEF Claimed, Released
    <3>3. Held' = Held \cup {i} /\ i \notin Held
      <4>1. identity[i].node = NoName
        BY <2>0 DEF MutexInv
      <4>2. \A j \in Identities : identity'[j].node = IF j = i THEN h ELSE identity[j].node
        BY <1>0, <2>0, <2>2 DEF StateOK
      <4> QED BY <2>0, <4>1, <4>2, NamesAssumption DEF Held
    <3> HIDE DEF i
    <3>4. IsFiniteSet(Held) /\ Cardinality(Held') = Cardinality(Held) + 1
      <4>1. IsFiniteSet(Held)
        BY HeldFinite DEF Held
      <4> QED BY <3>3, <4>1, FS_AddElement
    <3> SUFFICES ASSUME budget.crashes = MaxCrashes
                 PROVE  /\ operator.pc = "up" /\ pool = cache
                        /\ IsFiniteSet(Claimed') /\ IsFiniteSet(Released)
                        /\ cache + Cardinality(Claimed') - Cardinality(Released) = Cardinality(Held')
      BY <2>0, <2>2, <3>2 DEF AccountInv
    <3>5. IsFiniteSet(Claimed') /\ Cardinality(Claimed') = Cardinality(Claimed) + 1
      BY <3>2, FS_AddElement DEF AccountInv
    <3>6. Cardinality(Claimed) \in Nat /\ Cardinality(Released) \in Nat /\ Cardinality(Held) \in Nat /\ cache \in Int
      BY <1>0, <3>4, FS_CardinalityType DEF AccountInv, StateOK
    <3> QED BY <3>4, <3>5, <3>6 DEF AccountInv
  <2> QED BY <1>5, <2>1, <2>2 DEF claim_identity
<1>6. ASSUME NEW h \in Hoprds, release_identity(h) PROVE AccountInv'
  <2> DEFINE i == task[h].self.identity_name
  <2>0. task[h].pc = "release" /\ i \in Identities /\ UNCHANGED <<pool, cache, operator>>
    BY <1>0, <1>6 DEF release_identity, At
  <2>1. CASE End(h) /\ UNCHANGED identity /\ Lose("release")
    BY <1>0, <1>a, <2>0, <2>1, EndEffect, NothingCounted DEF Unlocking
  <2>2. CASE identity' = [identity EXCEPT ![i] = Free] /\ Goto(h, "unlock") /\ UNCHANGED budget
    <3>1. task'[h].pc = "unlock" /\ \A g \in Hoprds : g # h => task'[g].pc = task[g].pc
      BY <1>0, <2>2, GotoEffect
    <3>2. Claimed' = Claimed /\ Released' = Released \cup {h} /\ h \notin Released
      BY <2>0, <3>1 DEF Claimed, Released
    <3>3. Held' = Held \ {i} /\ i \in Held
      <4>1. identity[i].node = h
        <5>1. OwnerInv(h)
          BY DEF HolderInv
        <5>2. Owns(h, i)
          BY <2>0, <5>1 DEF OwnerInv, Holding
        <5> QED BY <5>2 DEF Owns
      <4>2. \A j \in Identities : identity'[j].node = IF j = i THEN NoName ELSE identity[j].node
        BY <1>0, <2>0, <2>2 DEF StateOK, Free
      <4> QED BY <2>0, <4>1, <4>2, NamesAssumption DEF Held
    <3> HIDE DEF i
    <3>4. IsFiniteSet(Held) /\ Cardinality(Held') = Cardinality(Held) - 1
      <4>1. IsFiniteSet(Held)
        BY HeldFinite DEF Held
      <4> QED BY <3>3, <4>1, FS_RemoveElement
    <3> SUFFICES ASSUME budget.crashes = MaxCrashes
                 PROVE  /\ operator.pc = "up" /\ pool = cache
                        /\ IsFiniteSet(Claimed) /\ IsFiniteSet(Released')
                        /\ cache + Cardinality(Claimed) - Cardinality(Released') = Cardinality(Held')
      BY <2>0, <2>2, <3>2 DEF AccountInv
    <3>5. IsFiniteSet(Released') /\ Cardinality(Released') = Cardinality(Released) + 1
      BY <3>2, FS_AddElement DEF AccountInv
    <3>6. Cardinality(Claimed) \in Nat /\ Cardinality(Released) \in Nat /\ Cardinality(Held) \in Nat /\ cache \in Int
      BY <1>0, <3>4, FS_CardinalityType DEF AccountInv, StateOK
    <3> QED BY <3>4, <3>5, <3>6 DEF AccountInv
  <2> QED BY <1>6, <2>1, <2>2 DEF release_identity
<1>7. ASSUME NEW h \in Hoprds, count_lock(h) \/ count_unlock(h) PROVE AccountInv'
  <2>0. UNCHANGED <<identity, operator, budget>>
    BY <1>7 DEF count_lock, count_unlock, UpdatePool, CountsWritten, Lose
  <2>1. Held' = Held
    BY <2>0 DEF Held
  <2> SUFFICES ASSUME budget.crashes = MaxCrashes
               PROVE  /\ operator.pc = "up" /\ pool' = cache'
                      /\ IsFiniteSet(Claimed') /\ IsFiniteSet(Released')
                      /\ cache' + Cardinality(Claimed') - Cardinality(Released') = Cardinality(Held)
    BY <2>0, <2>1 DEF AccountInv
  <2>2. Cardinality(Claimed) \in Nat /\ Cardinality(Released) \in Nat /\ cache \in Int
    BY <1>0, FS_CardinalityType DEF AccountInv, StateOK
  <2>3. CASE count_lock(h)
    <3>1. pool' = cache' /\ cache' = cache + 1 /\ task[h].pc = "count"
      BY <2>3 DEF count_lock, At, UpdatePool, CountsWritten, Lose
    <3>2. task'[h].pc = "finalizer" /\ \A g \in Hoprds : g # h => task'[g].pc = task[g].pc
      BY <1>0, <2>3, GotoEffect DEF count_lock
    <3>3. Claimed' = Claimed \ {h} /\ h \in Claimed /\ Released' = Released
      BY <3>1, <3>2 DEF Claimed, Released
    <3>4. IsFiniteSet(Claimed') /\ Cardinality(Claimed') = Cardinality(Claimed) - 1
      BY <3>3, FS_RemoveElement DEF AccountInv
    <3> QED BY <2>2, <3>1, <3>3, <3>4 DEF AccountInv
  <2>4. CASE count_unlock(h)
    <3>1. pool' = cache' /\ cache' = cache - 1 /\ task[h].pc = "uncount"
      BY <1>0, <2>4 DEF count_unlock, At, UpdatePool, CountsWritten, Lose, StateOK
    <3>2. task'[h].pc = "notify" /\ \A g \in Hoprds : g # h => task'[g].pc = task[g].pc
      BY <1>0, <2>4, GotoEffect DEF count_unlock
    <3>3. Claimed' = Claimed /\ Released' = Released \ {h} /\ h \in Released
      BY <3>1, <3>2 DEF Claimed, Released
    <3>4. IsFiniteSet(Released') /\ Cardinality(Released') = Cardinality(Released) - 1
      BY <3>3, FS_RemoveElement DEF AccountInv
    <3> QED BY <2>2, <3>1, <3>3, <3>4 DEF AccountInv
  <2> QED BY <1>7, <2>3, <2>4
<1>8. ASSUME start_controllers \/ sync_uncount \/ sync_identity_pools \/ \E i \in Identities : sync_release(i)
      PROVE  AccountInv'
  <2>1. operator.pc # "up" /\ budget'.crashes = budget.crashes
    BY <1>8, <1>a DEF start_controllers, sync_uncount, sync_identity_pools, sync_release, UpdatePool
  <2> QED BY <2>1 DEF AccountInv
<1>9. CASE UNCHANGED vars
  BY <1>9, NothingCounted DEF vars
<1> QED BY <1>1, <1>2, <1>3, <1>4, <1>5, <1>6, <1>7, <1>8, <1>9 DEF Next, Crash

\* Until the operator crashes, the count of locked identities, in the pool and in the cache, follows the
\* identities: no lock or unlock is counted twice or lost, whatever other call fails.
THEOREM LocksCounted ==
  ASSUME FixedNames, SafeNames, StatusesWritten, CountsWritten
  PROVE  Spec => []LocksAccounted
<1>1. Init => AccountInv
  <2> SUFFICES ASSUME Init PROVE AccountInv
    OBVIOUS
  <2>1. Claimed = {} /\ Released = {}
    BY IdleType DEF Init, Claimed, Released
  <2>2. Held = {}
    BY DEF Init, Held, Free
  <2> QED BY <2>1, <2>2, FS_EmptySet DEF Init, AccountInv
<1>2. TypeOK /\ MutexInv /\ HolderInv /\ AccountInv /\ [Next]_vars => AccountInv'
  BY AccountStep
<1>3. AccountInv => LocksAccounted
  BY DEF AccountInv, LocksAccounted
<1> QED BY <1>1, <1>2, <1>3, HoldersKnown, PTL DEF Spec

=============================================================================
