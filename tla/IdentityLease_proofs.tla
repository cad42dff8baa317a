------------------------ MODULE IdentityLease_proofs ------------------------
(***************************************************************************)
(* The operator implements IdentityLease, under the hypotheses of          *)
(* IdentityOwner_proofs: a step of IdentityLock leases an identity, starts *)
(* or stops a node, takes an identity back, or is a stutter.               *)
(***************************************************************************)
EXTENDS IdentityOwner_proofs

\* A node that runs with an identity has it, and has no other.
LEMMA UserHolds ==
  ASSUME TypeOK, HolderInv, NEW h \in Hoprds
  PROVE  /\ User[h] = NoName \/ (User[h] \in Wish[h] /\ identity[User[h]].node = h)
         /\ User[h] # NoName => Live(h, sub[h]["deployment"])
<1>0. Live(h, sub[h]["deployment"]) => mount[h] \in Wish[h] /\ identity[mount[h]] = [phase |-> "InUse", node |-> h]
  BY DEF HolderInv, OwnerInv, Owns
<1>1. Live(h, sub[h]["deployment"]) => mount[h] \in Wish[h] /\ identity[mount[h]].node = h
  BY <1>0
<1> QED BY <1>1 DEF User

\* A step of one node that leaves the identities alone starts it, stops it or is not seen.
LEMMA NodeStep ==
  ASSUME TypeOK, TypeOK', HolderInv, HolderInv', FixedNames, NEW h \in Hoprds,
         UNCHANGED identity,
         \A g \in Hoprds : g # h => hoprd'[g] = hoprd[g] /\ sub'[g] = sub[g] /\ mount'[g] = mount[g]
  PROVE  [Leases!Next]_(Leases!vars)
<1>1. UNCHANGED Holder
  BY DEF Holder
<1>2. \A g \in Hoprds : g # h => User'[g] = User[g]
  BY DEF User, Live, Exists
<1>3. User = [g \in Hoprds |-> User[g]] /\ User' = [g \in Hoprds |-> User'[g]]
  BY DEF User
<1>4. User' = [User EXCEPT ![h] = User'[h]]
  BY <1>2, <1>3
<1>5. User[h] = NoName \/ (User[h] \in Wish[h] /\ identity[User[h]].node = h)
  BY UserHolds
<1>6. User'[h] = NoName \/ (User'[h] \in Wish[h] /\ identity'[User'[h]].node = h)
  <2>0. Live(h, sub[h]["deployment"])'
          => mount'[h] \in Wish[h] /\ identity'[mount'[h]] = [phase |-> "InUse", node |-> h]
    BY DEF HolderInv, OwnerInv, Owns
  <2>1. Live(h, sub[h]["deployment"])' => mount'[h] \in Wish[h] /\ identity'[mount'[h]].node = h
    BY <2>0
  <2> QED BY <2>1 DEF User
<1>7. CASE User'[h] = NoName
  <2>1. Leases!Stop(h)
    BY <1>1, <1>4, <1>7 DEF Leases!Stop
  <2> QED BY <2>1 DEF Leases!Next
<1>8. CASE User'[h] # NoName
  <2>1. User'[h] \in Wish[h] /\ User'[h] \in Identities /\ Holder[User'[h]] = h
    BY <1>6, <1>8, WishAssumption DEF Holder
  <2>2. User[h] \in {NoName, User'[h]}
    BY <1>5, <2>1 DEF FixedNames
  <2>3. Leases!Start(h, User'[h])
    BY <1>1, <1>4, <2>1, <2>2 DEF Leases!Start
  <2> QED BY <2>1, <2>3 DEF Leases!Next
<1> QED BY <1>7, <1>8

\* A step that changes no identity, object or subresource is not seen.
LEMMA HiddenStep ==
  ASSUME UNCHANGED <<identity, hoprd, sub, mount>>
  PROVE  UNCHANGED Leases!vars
BY DEF Leases!vars, Holder, User, Live, Exists

\* claim_identity leases an identity that nobody has.
LEMMA LeaseStep ==
  ASSUME TypeOK, MutexInv, NEW h \in Hoprds, claim_identity(h)
  PROVE  [Leases!Next]_(Leases!vars)
<1> DEFINE i == task[h].self.identity_name
<1>1. UNCHANGED <<hoprd, sub, mount>>
  BY DEF claim_identity
<1>2. UNCHANGED User
  BY <1>1 DEF User, Live, Exists
<1>3. CASE UNCHANGED identity
  BY <1>1, <1>3, HiddenStep
<1>4. CASE identity' = [identity EXCEPT ![i] = [phase |-> "InUse", node |-> h]]
  <2>1. i \in Identities /\ identity[i].node = NoName
    BY Types DEF claim_identity, At, MutexInv
  <2>2. Holder[i] = NoName /\ Holder' = [Holder EXCEPT ![i] = h]
    BY <1>4, <2>1, Types DEF Holder, StateOK
  <2>3. Leases!Lease(h, i)
    BY <1>2, <2>2 DEF Leases!Lease
  <2> QED BY <2>1, <2>3 DEF Leases!Next
<1> QED BY <1>3, <1>4 DEF claim_identity

\* An identity that becomes free while no node runs with it is taken back.
LEMMA FreeStep ==
  ASSUME TypeOK, NEW i \in Identities, UNCHANGED <<hoprd, sub, mount>>,
         identity' = [identity EXCEPT ![i] = Free],
         \A g \in Hoprds : User[g] # i
  PROVE  [Leases!Next]_(Leases!vars)
<1>1. UNCHANGED User
  BY DEF User, Live, Exists
<1>2. Holder' = [Holder EXCEPT ![i] = NoName]
  BY Types DEF Holder, StateOK, Free
<1>3. Leases!Return(i)
  BY <1>1, <1>2 DEF Leases!Return
<1> QED BY <1>3 DEF Leases!Next

\* unlock takes the identity of a node whose Deployment is gone.
LEMMA UnlockStep ==
  ASSUME TypeOK, HolderInv, NEW h \in Hoprds, release_identity(h)
  PROVE  [Leases!Next]_(Leases!vars)
<1> DEFINE i == task[h].self.identity_name
<1>1. UNCHANGED <<hoprd, sub, mount>>
  BY DEF release_identity
<1>2. CASE UNCHANGED identity
  BY <1>1, <1>2, HiddenStep
<1>3. CASE identity' = [identity EXCEPT ![i] = Free]
  <2>1. task[h].pc = "release" /\ i \in Identities
    BY Types DEF release_identity, At
  <2>o. identity[i] = [phase |-> "InUse", node |-> h]
    BY <2>1 DEF HolderInv, OwnerInv, Owns, Holding
  <2>2. identity[i].node = h
    BY <2>o
  <2>3. hoprd[h].uid > 0 /\ sub[h]["deployment"] = 0
    BY <2>1 DEF HolderInv, ObjectInv, DeletionInv, DeleteSteps, Terminating, Exists
  <2>4. ~Live(h, sub[h]["deployment"])
    BY <2>3, Types DEF Live
  <2>5. ASSUME NEW g \in Hoprds PROVE User[g] # i
    BY <2>1, <2>2, <2>4, UserHolds, NamesAssumption
  <2> QED BY <1>1, <1>3, <2>1, <2>5, FreeStep
<1> QED BY <1>2, <1>3 DEF release_identity

\* sync_identities takes the identity of a node that no longer exists.
LEMMA SyncStep ==
  ASSUME TypeOK, HolderInv, NEW i \in Identities, sync_release(i)
  PROVE  [Leases!Next]_(Leases!vars)
<1>1. UNCHANGED <<hoprd, sub, mount>> /\ identity' = [identity EXCEPT ![i] = Free] /\ i \in operator.todo
  BY DEF sync_release
<1>2. ASSUME NEW g \in Hoprds PROVE User[g] # i
  <2>1. identity[i].node = g => ~Live(g, sub[g]["deployment"])
    BY <1>1 DEF HolderInv, OwnerInv
  <2> QED BY <2>1, UserHolds, NamesAssumption
<1> QED BY <1>1, <1>2, FreeStep

-----------------------------------------------------------------------------
\* Every step of the operator is a step of the abstract specification or a stutter.
LEMMA StepSimulation ==
  ASSUME TypeOK, TypeOK', MutexInv, HolderInv, HolderInv', FixedNames, SafeNames, StatusesWritten, [Next]_vars
  PROVE  [Leases!Next]_(Leases!vars)
<1>0. \A g \in Hoprds : NodeInv(g)
  BY DEF HolderInv, NodeInv
<1>1. ASSUME NEW h \in Hoprds, UserCreate(h) \/ UserEdit(h) \/ UserDelete(h) \/ CollectGarbage(h)
      PROVE  [Leases!Next]_(Leases!vars)
  <2>1. /\ UNCHANGED identity
        /\ \A g \in Hoprds : g # h => hoprd'[g] = hoprd[g] /\ sub'[g] = sub[g] /\ mount'[g] = mount[g]
    BY <1>0, <1>1, ClusterStep
  <2> QED BY <2>1, NodeStep
<1>2. CASE Die \/ start_controllers \/ sync_uncount \/ sync_identity_pools
  <2>1. UNCHANGED <<identity, hoprd, sub, mount>>
    BY <1>2 DEF Die, start_controllers, sync_uncount, sync_identity_pools
  <2> QED BY <2>1, HiddenStep
<1>3. CASE UNCHANGED vars
  <2>1. UNCHANGED <<identity, hoprd, sub, mount>>
    BY <1>3 DEF vars
  <2> QED BY <2>1, HiddenStep
<1>4. ASSUME NEW h \in Hoprds, reconciler(h)
      PROVE  [Leases!Next]_(Leases!vars)
  <2>1. CASE UNCHANGED <<hoprd, identity, sub, mount>>
    BY <2>1, HiddenStep
  <2> QED BY <1>2, <1>3, <1>4, <2>1 DEF reconciler
<1>5. ASSUME NEW h \in Hoprds,
             create_init(h) \/ set_running_status(h) \/ recover(h) \/ reject_change(h)
               \/ await_modified(h) \/ delete_begin(h)
      PROVE  [Leases!Next]_(Leases!vars)
  <2>1. UNCHANGED <<identity, sub, mount>> /\ \A g \in Hoprds : g # h => hoprd'[g] = hoprd[g]
    BY <1>0, <1>5, StatusStep
  <2> QED BY <2>1, NodeStep
<1>6. ASSUME NEW h \in Hoprds,
             lock_identity(h) \/ get_ready_identity(h) \/ count_lock(h) \/ get_identity(h)
               \/ unlock_pool(h) \/ count_unlock(h) \/ notify_deletion_to_cluster(h)
      PROVE  [Leases!Next]_(Leases!vars)
  <2>1. UNCHANGED <<identity, hoprd, sub, mount>>
    BY <1>0, <1>6, QuietStep
  <2> QED BY <2>1, HiddenStep
<1>7. ASSUME NEW h \in Hoprds,
             add_finalizer(h) \/ default_delete_database(h) \/ update_last_configuration(h) \/ delete_finalizer(h)
      PROVE  [Leases!Next]_(Leases!vars)
  <2>1. UNCHANGED <<identity, sub, mount>> /\ \A g \in Hoprds : g # h => hoprd'[g] = hoprd[g]
    BY <1>0, <1>7, PatchStep
  <2> QED BY <2>1, NodeStep
<1>8. ASSUME NEW h \in Hoprds, create_subresource(h) \/ modify_deployment(h) \/ delete_subresource(h)
      PROVE  [Leases!Next]_(Leases!vars)
  <2>1. CASE Die
    BY <1>2, <2>1
  <2>2. CASE ~Die
    <3>1. /\ UNCHANGED <<identity, hoprd>>
          /\ \A g \in Hoprds : g # h => sub'[g] = sub[g] /\ mount'[g] = mount[g]
      BY <1>0, <1>8, <2>2, SubresourceStep
    <3> QED BY <3>1, NodeStep
  <2> QED BY <2>1, <2>2
<1>9. ASSUME NEW h \in Hoprds, claim_identity(h) \/ release_identity(h)
      PROVE  [Leases!Next]_(Leases!vars)
  BY <1>9, LeaseStep, UnlockStep
<1>10. ASSUME NEW i \in Identities, sync_release(i)
       PROVE  [Leases!Next]_(Leases!vars)
  BY <1>10, SyncStep
<1> QED BY <1>1, <1>2, <1>3, <1>4, <1>5, <1>6, <1>7, <1>8, <1>9, <1>10 DEF Next, Crash

\* The operator implements IdentityLease: lock_identity and unlock, with sync_identities after a crash,
\* lease each identity to one node at a time and take it back only when no Deployment mounts it.
THEOREM Implements ==
  ASSUME FixedNames, SafeNames, StatusesWritten
  PROVE  Spec => LeaseSpec
<1>1. Init => Leases!Init
  BY DEF Init, Leases!Init, Holder, User, Live, Exists, Gone, Free
<1>2. /\ TypeOK /\ MutexInv /\ HolderInv /\ TypeOK' /\ HolderInv' /\ [Next]_vars
      => [Leases!Next]_(Leases!vars)
  BY StepSimulation
<1> QED BY <1>1, <1>2, HoldersKnown, PTL DEF Spec, LeaseSpec, Leases!Spec
=============================================================================
