------------------------- MODULE IdentityLock_proofs -------------------------
(***************************************************************************)
(* Proofs about IdentityLock, for any number of nodes and identities and   *)
(* any bounds on creations, edits, crashes and failures.                   *)
(***************************************************************************)
EXTENDS IdentityLock, FiniteSetTheorems, TLAPS

\* The entry points of the three handlers.
Entries == {"init", "recover", "reject", "immutable", "redeploy", "deleting"}

\* A reconciliation starts at the first step of create, modify or delete, or not at all; delete is
\* for terminating objects, create for new ones, and a Deleting object is left alone.
LEMMA FirstStep ==
  ASSUME NEW o \in HoprdObjects, o.life # "absent"
  PROVE  /\ first_step(o) \in Entries \cup {"idle"}
         /\ first_step(o) = "init" => o.life = "new"
         /\ first_step(o) = "deleting" => o.life = "terminating"
         /\ first_step(o) \in ModifySteps \cup {"deleting"}
              => o.life \in {"finalized", "terminating"} /\ o.phase # "Deleting"
<1> USE DEF first_step, determine_action, HoprdObjects, Lives, Phases, Entries, ModifySteps
<1>1. CASE o.life = "terminating" /\ o.phase \notin {"None", "Deleting"}
  BY <1>1
<1>2. CASE ~(o.life = "terminating" /\ o.phase \notin {"None", "Deleting"}) /\ o.life = "new"
  BY <1>2
<1>3. CASE ~(o.life = "terminating" /\ o.phase \notin {"None", "Deleting"}) /\ o.life # "new"
  <2>1. CASE o.phase \in {"None", "Deleting"}
    BY <1>3, <2>1
  <2>2. CASE o.phase = "Failed"
    BY <1>3, <2>2 DEF modify_branch
  <2>3. CASE o.phase \in {"Initializing", "Running"}
    <3>1. first_step(o) = IF o.observed < o.gen THEN modify_branch(o) ELSE "idle"
      BY <1>3, <2>3
    <3>2. modify_branch(o) \in {"reject", "immutable", "redeploy"}
      BY <2>3 DEF modify_branch
    <3> QED BY <1>3, <2>3, <3>1, <3>2
  <2> QED BY <2>1, <2>2, <2>3
<1> QED BY <1>1, <1>2, <1>3

-----------------------------------------------------------------------------
(***************************************************************************)
(* Type correctness.                                                       *)
(***************************************************************************)

\* A failed call leaves the budget well formed.
LEMMA LoseType ==
  ASSUME budget \in Budgets, NEW call, Lose(call)
  PROVE  budget' \in Budgets
BY BoundsAssumption DEF Budgets, Lose

\* A patch keeps the objects well formed when the patched object is.
LEMMA PatchType ==
  ASSUME ObjectsOK, NEW h \in Hoprds, NEW o \in HoprdObjects,
         Exists(h) => o.life = "absent" \/ o.identity_name \in Wish[h],
         Patch(h, o)
  PROVE  ObjectsOK'
BY DEF ObjectsOK, Patch, Exists

\* So does a patch of the status.
LEMMA StatusType ==
  ASSUME ObjectsOK, budget \in Budgets, NEW h \in Hoprds, task[h].self \in Snapshots,
         NEW p \in Phases, UpdateStatus(h, p)
  PROVE  ObjectsOK' /\ budget' \in Budgets
<1>1. CASE Lose("update_status") /\ UNCHANGED hoprd
  BY <1>1, LoseType DEF ObjectsOK, Exists
<1>2. CASE /\ Patch(h, [hoprd[h] EXCEPT !.phase = p, !.observed = task[h].self.gen])
           /\ UNCHANGED budget
  <2> DEFINE o == [hoprd[h] EXCEPT !.phase = p, !.observed = task[h].self.gen]
  <2>1. hoprd[h] \in HoprdObjects /\ task[h].self.gen \in Nat
    BY DEF ObjectsOK, Snapshots
  <2>2. o \in HoprdObjects /\ o.identity_name = hoprd[h].identity_name
    BY <2>1 DEF HoprdObjects
  <2>3. Exists(h) => o.identity_name \in Wish[h]
    BY <2>2 DEF ObjectsOK
  <2> HIDE DEF o
  <2> QED BY <1>2, <2>2, <2>3, PatchType DEF o
<1> QED BY <1>1, <1>2 DEF UpdateStatus

\* Snapshots are made of well-formed objects.
LEMMA SnapshotType ==
  ASSUME NEW o \in HoprdObjects
  PROVE  Snapshot(o) \in Snapshots /\ Snapshot(o).identity_name = o.identity_name /\ Snapshot(o).uid = o.uid
BY DEF Snapshot, Snapshots, HoprdObjects

\* An object that does not exist is well formed.
LEMMA GoneType ==
  ASSUME NEW uid \in Nat
  PROVE  Gone(uid) \in HoprdObjects /\ Gone(uid).life = "absent" /\ Gone(uid).uid = uid
         /\ Gone(uid).phase = "None"
BY DEF Gone, HoprdObjects, Lives, Phases

\* So is a task that does not run.
LEMMA IdleType == Idle \in [pc : Steps, self : Snapshots] /\ Idle.pc = "idle" /\ Idle.self.uid = 0
<1>1. Gone(0) \in HoprdObjects /\ Gone(0).uid = 0 BY GoneType
<1>2. Snapshot(Gone(0)) \in Snapshots /\ Snapshot(Gone(0)).uid = 0 BY <1>1, SnapshotType
<1> QED BY <1>2 DEF Idle, Steps

\* The end of a task keeps the tasks well formed.
LEMMA EndType ==
  ASSUME TasksOK, NEW h \in Hoprds, End(h)
  PROVE  TasksOK'
BY IdleType DEF TasksOK, End

\* So does a move to another step.
LEMMA GotoType ==
  ASSUME TasksOK, NEW h \in Hoprds, NEW pc \in Steps, task[h].pc # "idle", Goto(h, pc)
  PROVE  TasksOK'
BY DEF TasksOK, Goto

\* A crash keeps every variable well formed.
LEMMA DieType ==
  ASSUME TypeOK, Die
  PROVE  TypeOK'
<1>1. TasksOK'
  BY IdleType DEF TasksOK, Die
<1>2. budget' \in Budgets
  <2>1. budget \in Budgets BY DEF TypeOK
  <2> QED BY <2>1, BoundsAssumption DEF Die, Budgets
<1>3. operator' \in [pc : {"down", "sync", "uncount", "up"}, todo : SUBSET Identities]
  BY DEF Die
<1> QED BY <1>1, <1>2, <1>3 DEF TypeOK, Die, ObjectsOK, StateOK, Exists

\* An update of the pool keeps the counts integers.
LEMMA PoolType ==
  ASSUME StateOK, budget \in Budgets, NEW d \in Int, UpdatePool(d)
  PROVE  pool' \in Int /\ cache' \in Int /\ budget' \in Budgets
BY LoseType DEF UpdatePool, StateOK

\* Every action keeps every variable well formed.
LEMMA TypeStep == TypeOK /\ [Next]_vars => TypeOK'
<1> SUFFICES ASSUME TypeOK, [Next]_vars PROVE TypeOK'
  OBVIOUS
<1>0. ObjectsOK /\ TasksOK /\ StateOK /\ budget \in Budgets
  BY DEF TypeOK
<1> USE NamesAssumption, WishAssumption
<1>1. ASSUME NEW h \in Hoprds, UserCreate(h) \/ UserEdit(h) \/ UserDelete(h) \/ CollectGarbage(h)
      PROVE  TypeOK'
  <2>1. CASE UserCreate(h)
    <3>1. PICK i \in Wish[h], db \in {"unset", "set"}, a \in Identities \cup {NoName} :
            hoprd' = [hoprd EXCEPT ![h] =
                   [life |-> "new", uid |-> @.uid + 1, phase |-> "None", gen |-> 1, observed |-> 0,
                    identity_name |-> i, last |-> a, db |-> db]]
      BY <2>1, DatabasesAssumption DEF UserCreate
    <3>2. ObjectsOK'
      BY <1>0, <3>1 DEF ObjectsOK, HoprdObjects, Lives, Phases, Exists
    <3> QED BY <1>0, <2>1, <3>2 DEF TypeOK, UserCreate, TasksOK, StateOK
  <2>2. CASE UserEdit(h)
    <3>1. PICK i \in Wish[h] : \E a \in {i, hoprd[h].last} :
            hoprd' = [hoprd EXCEPT ![h] =
                        [@ EXCEPT !.identity_name = i, !.gen = hoprd[h].gen + 1, !.last = a]]
      BY <2>2 DEF UserEdit
    <3>2. PICK a \in {i, hoprd[h].last} :
            hoprd' = [hoprd EXCEPT ![h] =
                        [@ EXCEPT !.identity_name = i, !.gen = hoprd[h].gen + 1, !.last = a]]
      BY <3>1
    <3> DEFINE o == [hoprd[h] EXCEPT !.identity_name = i, !.gen = hoprd[h].gen + 1, !.last = a]
    <3>3. hoprd[h] \in HoprdObjects
      BY <1>0 DEF ObjectsOK
    <3>4. hoprd[h].gen + 1 \in Nat
      BY <3>3 DEF HoprdObjects
    <3>5. o \in HoprdObjects /\ o.identity_name = i
      BY <3>3, <3>4 DEF HoprdObjects
    <3>6. hoprd' = [hoprd EXCEPT ![h] = o]
      BY <3>2
    <3> HIDE DEF o
    <3>7. ObjectsOK'
      BY <1>0, <3>5, <3>6 DEF ObjectsOK, Exists
    <3>8. budget' \in Budgets
      BY <1>0, <2>2, BoundsAssumption DEF UserEdit, Budgets
    <3> QED BY <1>0, <2>2, <3>7, <3>8 DEF TypeOK, UserEdit, TasksOK, StateOK
  <2>3. CASE UserDelete(h)
    <3>1. hoprd[h] \in HoprdObjects /\ hoprd[h].uid \in Nat
      BY <1>0 DEF ObjectsOK, HoprdObjects
    <3>2. ObjectsOK'
      <4>1. CASE hoprd' = [hoprd EXCEPT ![h] = Gone(@.uid)]
        BY <1>0, <3>1, <4>1, GoneType DEF ObjectsOK, Exists
      <4>2. CASE /\ hoprd[h].life = "finalized"
                 /\ hoprd' = [hoprd EXCEPT ![h] = [@ EXCEPT !.life = "terminating"]]
        <5>1. [hoprd[h] EXCEPT !.life = "terminating"] \in HoprdObjects
          BY <3>1 DEF HoprdObjects, Lives
        <5>2. [hoprd[h] EXCEPT !.life = "terminating"].identity_name = hoprd[h].identity_name
          BY <3>1 DEF HoprdObjects
        <5> QED BY <1>0, <4>2, <5>1, <5>2 DEF ObjectsOK, Exists
      <4> QED BY <2>3, <4>1, <4>2 DEF UserDelete
    <3> QED BY <1>0, <2>3, <3>2 DEF TypeOK, UserDelete, TasksOK, StateOK
  <2>4. CASE CollectGarbage(h)
    BY <1>0, <2>4 DEF TypeOK, CollectGarbage, Drop, ObjectsOK, TasksOK, StateOK, Exists, Kinds
  <2> QED BY <1>1, <2>1, <2>2, <2>3, <2>4
<1>2. ASSUME NEW h \in Hoprds, reconciler(h)
      PROVE  TypeOK'
  <2>1. hoprd[h] \in HoprdObjects
    BY <1>0 DEF ObjectsOK
  <2>2. CASE /\ first_step(hoprd[h]) # "idle"
             /\ task' = [task EXCEPT ![h] = [pc |-> first_step(hoprd[h]), self |-> Snapshot(hoprd[h])]]
             /\ UNCHANGED <<hoprd, identity, pool, cache, writer, sub, mount, operator, budget>>
    <3>1. first_step(hoprd[h]) \in Steps
      BY <2>1, <1>2, FirstStep DEF reconciler, Exists, Entries, Steps, CreateSteps, ModifySteps, DeleteSteps
    <3>2. hoprd[h].identity_name \in Wish[h]
      BY <1>0, <1>2 DEF reconciler, ObjectsOK
    <3>3. TasksOK'
      BY <1>0, <2>1, <2>2, <3>1, <3>2, SnapshotType DEF TasksOK
    <3> QED BY <1>0, <2>2, <3>3 DEF TypeOK, ObjectsOK, StateOK, Exists
  <2>3. CASE UNCHANGED vars
    BY <1>0, <2>3 DEF TypeOK, vars, ObjectsOK, TasksOK, StateOK, Exists
  <2>4. CASE Die
    BY <2>4, DieType
  <2> QED BY <1>2, <2>2, <2>3, <2>4 DEF reconciler
<1>3. ASSUME NEW h \in Hoprds, create_init(h)
      PROVE  TypeOK'
  <2>1. ObjectsOK' /\ budget' \in Budgets
    BY <1>0, <1>3, StatusType DEF create_init, TasksOK, Phases
  <2>2. TasksOK'
    BY <1>0, <1>3, EndType, GotoType DEF create_init, At, Steps, CreateSteps, ModifySteps, DeleteSteps
  <2> QED BY <1>0, <1>3, <2>1, <2>2 DEF TypeOK, create_init, StateOK
<1>4. ASSUME NEW h \in Hoprds, lock_identity(h)
      PROVE  TypeOK'
  <2>1. TasksOK'
    BY <1>0, <1>4, EndType, GotoType DEF lock_identity, At, Steps, CreateSteps, ModifySteps, DeleteSteps
  <2> QED BY <1>0, <1>4, <2>1, LoseType DEF TypeOK, lock_identity, ObjectsOK, StateOK, Exists
<1>5. ASSUME NEW h \in Hoprds, get_ready_identity(h)
      PROVE  TypeOK'
  <2>1. TasksOK'
    BY <1>0, <1>5, EndType, GotoType DEF get_ready_identity, At, Steps, CreateSteps, ModifySteps, DeleteSteps
  <2> QED BY <1>0, <1>5, <2>1, LoseType DEF TypeOK, get_ready_identity, ObjectsOK, StateOK, Exists
<1>6. ASSUME NEW h \in Hoprds, claim_identity(h)
      PROVE  TypeOK'
  <2>1. TasksOK'
    BY <1>0, <1>6, EndType, GotoType DEF claim_identity, At, Steps, CreateSteps, ModifySteps, DeleteSteps
  <2>2. task[h].self.identity_name \in Identities
    BY <1>0, <1>6 DEF claim_identity, At, TasksOK
  <2>3. identity' \in [Identities -> [phase : {"Ready", "InUse"}, node : Hoprds \cup {NoName}]]
    <3>1. [phase |-> "InUse", node |-> h] \in [phase : {"Ready", "InUse"}, node : Hoprds \cup {NoName}]
      OBVIOUS
    <3>2. identity \in [Identities -> [phase : {"Ready", "InUse"}, node : Hoprds \cup {NoName}]]
      BY <1>0 DEF StateOK
    <3> QED BY <1>6, <2>2, <3>1, <3>2 DEF claim_identity
  <2>4. budget' \in Budgets
    BY <1>0, <1>6, LoseType DEF claim_identity
  <2> QED BY <1>0, <1>6, <2>1, <2>3, <2>4 DEF TypeOK, claim_identity, ObjectsOK, StateOK, Exists
<1>7. ASSUME NEW h \in Hoprds, count_lock(h)
      PROVE  TypeOK'
  <2>1. TasksOK'
    BY <1>0, <1>7, GotoType DEF count_lock, At, Steps, CreateSteps, ModifySteps, DeleteSteps
  <2> QED BY <1>0, <1>7, <2>1, PoolType DEF TypeOK, count_lock, ObjectsOK, StateOK, Exists
<1>8. ASSUME NEW h \in Hoprds, add_finalizer(h)
      PROVE  TypeOK'
  <2> DEFINE o == [hoprd[h] EXCEPT !.life = IF @ = "new" THEN "finalized" ELSE @]
  <2>1. hoprd[h] \in HoprdObjects /\ task[h].self \in Snapshots
    BY <1>0 DEF ObjectsOK, TasksOK
  <2>2. o \in HoprdObjects /\ (o.life = "absent" \/ o.identity_name = hoprd[h].identity_name)
    BY <2>1, GoneType DEF HoprdObjects, Snapshots, Lives
  <2> HIDE DEF o
  <2>3. ObjectsOK'
    <3>1. CASE UNCHANGED hoprd
      BY <1>0, <3>1 DEF ObjectsOK, Exists
    <3>2. CASE Patch(h, o)
      <4>1. Exists(h) => o.life = "absent" \/ o.identity_name \in Wish[h]
        BY <1>0, <2>2 DEF ObjectsOK
      <4> QED BY <1>0, <2>2, <3>2, <4>1, PatchType
    <3> QED BY <1>8, <3>1, <3>2 DEF add_finalizer, o
  <2>4. TasksOK'
    BY <1>0, <1>8, EndType, GotoType DEF add_finalizer, At, Steps, CreateSteps, ModifySteps, DeleteSteps
  <2>5. budget' \in Budgets
    BY <1>0, <1>8, LoseType DEF add_finalizer
  <2> QED BY <1>0, <1>8, <2>3, <2>4, <2>5 DEF TypeOK, add_finalizer, StateOK
<1>9. ASSUME NEW h \in Hoprds, create_subresource(h)
      PROVE  TypeOK'
  <2>1. PICK k \in Kinds : At(h, k)
    BY <1>9 DEF create_subresource, Built, Remount
  <2>2. CASE Die
    BY <2>2, DieType
  <2>3. CASE ~Die
    <3>1. AfterCreate[k] \in Steps /\ task[h].pc # "idle"
      BY <2>1 DEF AfterCreate, Kinds, Steps, CreateSteps, At
    <3>2. task[h].self.uid \in Nat /\ task[h].self.identity_name \in Identities
      BY <1>0, <3>1 DEF TasksOK, Snapshots
    <3>3. TasksOK'
      <4>1. CASE End(h)
        BY <1>0, <4>1, EndType
      <4>2. CASE \E kk \in Kinds : At(h, kk) /\ Goto(h, AfterCreate[kk])
        <5>1. PICK kk \in Kinds : At(h, kk) /\ Goto(h, AfterCreate[kk])
          BY <4>2
        <5>2. AfterCreate[kk] \in Steps
          BY <5>1 DEF AfterCreate, Kinds, Steps, CreateSteps
        <5> QED BY <1>0, <3>1, <5>1, <5>2, GotoType
      <4> QED BY <1>9, <2>3, <4>1, <4>2 DEF create_subresource, Built, Remount
    <3>4. budget' \in Budgets
      BY <1>0, <1>9, <2>3, LoseType DEF create_subresource, Built, Remount
    <3>5. sub' \in [Hoprds -> [Kinds -> Nat]] /\ mount' \in [Hoprds -> Identities \cup {NoName}]
      <4>1. CASE UNCHANGED <<sub, mount>>
        BY <1>0, <4>1 DEF StateOK
      <4>2. CASE \E kk \in Kinds :
                   /\ sub' = [sub EXCEPT ![h][kk] = task[h].self.uid]
                   /\ mount' = IF kk = "deployment"
                                THEN [mount EXCEPT ![h] = task[h].self.identity_name] ELSE mount
        BY <1>0, <3>2, <4>2 DEF StateOK
      <4> QED BY <1>9, <2>3, <4>1, <4>2 DEF create_subresource, Built, Remount
    <3> QED BY <1>0, <1>9, <2>3, <3>3, <3>4, <3>5 DEF TypeOK, create_subresource, Built, Remount, ObjectsOK, StateOK, Exists
  <2> QED BY <2>2, <2>3
<1>10. ASSUME NEW h \in Hoprds, set_running_status(h)
      PROVE  TypeOK'
  <2>1. ObjectsOK' /\ budget' \in Budgets
    BY <1>0, <1>10, StatusType, LoseType DEF set_running_status, TasksOK, Phases, ObjectsOK, Exists
  <2>2. TasksOK'
    BY <1>0, <1>10, EndType, GotoType DEF set_running_status, At, Steps, CreateSteps
  <2> QED BY <1>0, <1>10, <2>1, <2>2 DEF TypeOK, set_running_status, StateOK
<1>11. ASSUME NEW h \in Hoprds, default_delete_database(h)
      PROVE  TypeOK'
  <2> DEFINE o == [hoprd[h] EXCEPT !.db = "set", !.gen = IF hoprd[h].db = "unset" THEN @ + 1 ELSE @]
  <2>1. hoprd[h] \in HoprdObjects /\ task[h].self \in Snapshots
    BY <1>0 DEF ObjectsOK, TasksOK
  <2>0. hoprd[h].gen \in Nat /\ hoprd[h].gen + 1 \in Nat
    BY <2>1 DEF HoprdObjects
  <2>2. o \in HoprdObjects /\ (o.life = "absent" \/ o.identity_name = hoprd[h].identity_name)
    BY <2>1, <2>0, GoneType DEF HoprdObjects, Snapshots, Lives
  <2> HIDE DEF o
  <2>3. ObjectsOK'
    <3>1. CASE UNCHANGED hoprd
      BY <1>0, <3>1 DEF ObjectsOK, Exists
    <3>2. CASE Patch(h, o)
      <4>1. Exists(h) => o.life = "absent" \/ o.identity_name \in Wish[h]
        BY <1>0, <2>2 DEF ObjectsOK
      <4> QED BY <1>0, <2>2, <3>2, <4>1, PatchType
    <3> QED BY <1>11, <3>1, <3>2 DEF default_delete_database, o
  <2>4. TasksOK'
    BY <1>0, <1>11, EndType, GotoType DEF default_delete_database, At, Steps, CreateSteps, ModifySteps, DeleteSteps
  <2>5. budget' \in Budgets
    BY <1>0, <1>11, LoseType DEF default_delete_database
  <2> QED BY <1>0, <1>11, <2>3, <2>4, <2>5 DEF TypeOK, default_delete_database, StateOK
<1>12. ASSUME NEW h \in Hoprds, recover(h)
      PROVE  TypeOK'
  <2>1. ObjectsOK' /\ budget' \in Budgets
    BY <1>0, <1>12, StatusType DEF recover, TasksOK, Phases
  <2>2. TasksOK'
    BY <1>0, <1>12, EndType, GotoType DEF recover, At, Steps, CreateSteps, ModifySteps, DeleteSteps
  <2> QED BY <1>0, <1>12, <2>1, <2>2 DEF TypeOK, recover, StateOK
<1>13. ASSUME NEW h \in Hoprds, reject_change(h)
      PROVE  TypeOK'
  <2>1. ObjectsOK' /\ budget' \in Budgets
    BY <1>0, <1>13, StatusType DEF reject_change, TasksOK, Phases
  <2>2. TasksOK'
    BY <1>0, <1>13, EndType, GotoType DEF reject_change, At, Steps, CreateSteps, ModifySteps, DeleteSteps
  <2> QED BY <1>0, <1>13, <2>1, <2>2 DEF TypeOK, reject_change, StateOK
<1>14. ASSUME NEW h \in Hoprds, modify_deployment(h)
      PROVE  TypeOK'
  <2>1. TasksOK'
    BY <1>0, <1>14, EndType, GotoType DEF modify_deployment, Remount, At, Steps, ModifySteps
  <2>2. task[h].self.identity_name \in Identities
    BY <1>0, <1>14 DEF modify_deployment, Remount, At, TasksOK
  <2>3. mount' \in [Hoprds -> Identities \cup {NoName}] /\ budget' \in Budgets
    BY <1>0, <1>14, <2>2, LoseType DEF TypeOK, modify_deployment, Remount, StateOK
  <2> QED BY <1>0, <1>14, <2>1, <2>3 DEF TypeOK, modify_deployment, Remount, ObjectsOK, StateOK, Exists
<1>15. ASSUME NEW h \in Hoprds, await_modified(h)
      PROVE  TypeOK'
  <2>1. ObjectsOK' /\ budget' \in Budgets
    BY <1>0, <1>15, StatusType, LoseType DEF await_modified, TasksOK, Phases, ObjectsOK, Exists
  <2>2. TasksOK'
    BY <1>0, <1>15, GotoType DEF await_modified, At, Steps, ModifySteps
  <2> QED BY <1>0, <1>15, <2>1, <2>2 DEF TypeOK, await_modified, StateOK
<1>16. ASSUME NEW h \in Hoprds, update_last_configuration(h)
      PROVE  TypeOK'
  <2> DEFINE o == [hoprd[h] EXCEPT !.last = task[h].self.identity_name]
  <2>1. hoprd[h] \in HoprdObjects /\ task[h].self \in Snapshots
    BY <1>0 DEF ObjectsOK, TasksOK
  <2>2. o \in HoprdObjects /\ (o.life = "absent" \/ o.identity_name = hoprd[h].identity_name)
    BY <2>1, GoneType DEF HoprdObjects, Snapshots, Lives
  <2> HIDE DEF o
  <2>3. ObjectsOK'
    <3>1. CASE UNCHANGED hoprd
      BY <1>0, <3>1 DEF ObjectsOK, Exists
    <3>2. CASE Patch(h, o)
      <4>1. Exists(h) => o.life = "absent" \/ o.identity_name \in Wish[h]
        BY <1>0, <2>2 DEF ObjectsOK
      <4> QED BY <1>0, <2>2, <3>2, <4>1, PatchType
    <3> QED BY <1>16, <3>1, <3>2 DEF update_last_configuration, o
  <2>4. TasksOK'
    BY <1>0, <1>16, EndType, GotoType DEF update_last_configuration, At, Steps, CreateSteps, ModifySteps, DeleteSteps
  <2>5. budget' \in Budgets
    BY <1>0, <1>16, LoseType DEF update_last_configuration
  <2> QED BY <1>0, <1>16, <2>3, <2>4, <2>5 DEF TypeOK, update_last_configuration, StateOK
<1>17. ASSUME NEW h \in Hoprds, delete_begin(h)
      PROVE  TypeOK'
  <2>1. ObjectsOK' /\ budget' \in Budgets
    BY <1>0, <1>17, StatusType DEF delete_begin, TasksOK, Phases
  <2>2. TasksOK'
    BY <1>0, <1>17, EndType, GotoType DEF delete_begin, At, Steps, CreateSteps, ModifySteps, DeleteSteps
  <2> QED BY <1>0, <1>17, <2>1, <2>2 DEF TypeOK, delete_begin, StateOK
<1>18. ASSUME NEW h \in Hoprds, delete_subresource(h)
      PROVE  TypeOK'
  <2>1. PICK k \in Kinds :
          /\ Removing(h, k)
          /\ \/ Drop(h, k) /\ Goto(h, AfterRemove[k]) /\ UNCHANGED budget
             \/ Lose("delete") /\ End(h) /\ UNCHANGED <<sub, mount>>
    BY <1>18 DEF delete_subresource
  <2>2. AfterRemove[k] \in Steps /\ task[h].pc # "idle"
    BY <2>1 DEF AfterRemove, Removing, At, Kinds, Steps, DeleteSteps
  <2>3. TasksOK'
    BY <1>0, <2>1, <2>2, EndType, GotoType
  <2>4. sub' \in [Hoprds -> [Kinds -> Nat]] /\ mount' \in [Hoprds -> Identities \cup {NoName}]
    <3>1. CASE UNCHANGED <<sub, mount>>
      BY <1>0, <3>1 DEF StateOK
    <3>2. CASE Drop(h, k)
      BY <1>0, <3>2 DEF Drop, StateOK
    <3> QED BY <2>1, <3>1, <3>2
  <2>5. budget' \in Budgets
    BY <1>0, <2>1, LoseType
  <2> QED BY <1>0, <1>18, <2>3, <2>4, <2>5 DEF TypeOK, delete_subresource, ObjectsOK, StateOK, Exists
<1>19. ASSUME NEW h \in Hoprds, get_identity(h)
      PROVE  TypeOK'
  <2>1. TasksOK'
    BY <1>0, <1>19, EndType, GotoType DEF get_identity, At, Steps, CreateSteps, ModifySteps, DeleteSteps
  <2> QED BY <1>0, <1>19, <2>1, LoseType DEF TypeOK, get_identity, ObjectsOK, StateOK, Exists
<1>20. ASSUME NEW h \in Hoprds, release_identity(h)
      PROVE  TypeOK'
  <2>1. TasksOK'
    BY <1>0, <1>20, EndType, GotoType DEF release_identity, At, Steps, CreateSteps, ModifySteps, DeleteSteps
  <2>2. task[h].self.identity_name \in Identities
    BY <1>0, <1>20 DEF release_identity, At, TasksOK
  <2>3. identity' \in [Identities -> [phase : {"Ready", "InUse"}, node : Hoprds \cup {NoName}]]
    BY <1>0, <1>20, <2>2 DEF TypeOK, release_identity, StateOK, Free
  <2>4. budget' \in Budgets
    BY <1>0, <1>20, LoseType DEF release_identity
  <2> QED BY <1>0, <1>20, <2>1, <2>3, <2>4 DEF TypeOK, release_identity, ObjectsOK, StateOK, Exists
<1>21. ASSUME NEW h \in Hoprds, unlock_pool(h)
      PROVE  TypeOK'
  <2>1. TasksOK'
    BY <1>0, <1>21, EndType, GotoType DEF unlock_pool, At, Steps, CreateSteps, ModifySteps, DeleteSteps
  <2> QED BY <1>0, <1>21, <2>1, LoseType DEF TypeOK, unlock_pool, ObjectsOK, StateOK, Exists
<1>22. ASSUME NEW h \in Hoprds, count_unlock(h)
      PROVE  TypeOK'
  <2>1. TasksOK'
    BY <1>0, <1>22, GotoType DEF count_unlock, At, Steps, CreateSteps, ModifySteps, DeleteSteps
  <2> QED BY <1>0, <1>22, <2>1, PoolType DEF TypeOK, count_unlock, ObjectsOK, StateOK, Exists
<1>23. ASSUME NEW h \in Hoprds, notify_deletion_to_cluster(h)
      PROVE  TypeOK'
  <2>1. TasksOK'
    BY <1>0, <1>23, EndType, GotoType DEF notify_deletion_to_cluster, At, Steps, CreateSteps, ModifySteps, DeleteSteps
  <2> QED BY <1>0, <1>23, <2>1, LoseType DEF TypeOK, notify_deletion_to_cluster, ObjectsOK, StateOK, Exists
<1>24. ASSUME NEW h \in Hoprds, delete_finalizer(h)
      PROVE  TypeOK'
  <2> DEFINE o == IF Terminating(h) THEN Gone(hoprd[h].uid) ELSE [hoprd[h] EXCEPT !.life = "new"]
  <2>1. hoprd[h] \in HoprdObjects /\ task[h].self \in Snapshots
    BY <1>0 DEF ObjectsOK, TasksOK
  <2>2. o \in HoprdObjects /\ (o.life = "absent" \/ o.identity_name = hoprd[h].identity_name)
    BY <2>1, GoneType DEF HoprdObjects, Snapshots, Lives
  <2> HIDE DEF o
  <2>3. ObjectsOK'
    <3>1. CASE UNCHANGED hoprd
      BY <1>0, <3>1 DEF ObjectsOK, Exists
    <3>2. CASE Patch(h, o)
      <4>1. Exists(h) => o.life = "absent" \/ o.identity_name \in Wish[h]
        BY <1>0, <2>2 DEF ObjectsOK
      <4> QED BY <1>0, <2>2, <3>2, <4>1, PatchType
    <3> QED BY <1>24, <3>1, <3>2 DEF delete_finalizer, o
  <2>4. TasksOK'
    BY <1>0, <1>24, EndType, GotoType DEF delete_finalizer, At, Steps, CreateSteps, ModifySteps, DeleteSteps
  <2>5. budget' \in Budgets
    BY <1>0, <1>24, LoseType DEF delete_finalizer
  <2> QED BY <1>0, <1>24, <2>3, <2>4, <2>5 DEF TypeOK, delete_finalizer, StateOK
<1>25. ASSUME Crash \/ start_controllers \/ sync_uncount \/ sync_identity_pools
      PROVE  TypeOK'
  <2>1. CASE Crash
    BY <2>1, DieType DEF Crash
  <2>2. CASE start_controllers
    BY <1>0, <2>2 DEF TypeOK, start_controllers, Held, ObjectsOK, TasksOK, StateOK, Exists
  <2>3. CASE sync_uncount
    <3>1. pool' \in Int /\ cache' \in Int /\ budget' \in Budgets
      BY <1>0, <2>3, PoolType DEF sync_uncount
    <3> QED BY <1>0, <2>3, <3>1 DEF TypeOK, sync_uncount, ObjectsOK, TasksOK, StateOK, Exists
  <2>4. CASE sync_identity_pools
    <3>1. Cardinality(Held) \in Nat
      BY FiniteAssumption, FS_Subset, FS_CardinalityType DEF Held
    <3>2. pool' \in Int /\ cache' \in Int /\ budget' \in Budgets
      BY <1>0, <2>4, <3>1, LoseType DEF TypeOK, sync_identity_pools, StateOK
    <3> QED BY <1>0, <2>4, <3>2 DEF TypeOK, sync_identity_pools, ObjectsOK, TasksOK, StateOK, Exists
  <2> QED BY <1>25, <2>1, <2>2, <2>3, <2>4
<1>26. ASSUME NEW i \in Identities, sync_release(i)
      PROVE  TypeOK'
  BY <1>0, <1>26 DEF TypeOK, sync_release, Free, ObjectsOK, TasksOK, StateOK, Exists
<1>27. CASE UNCHANGED vars
  BY <1>0, <1>27 DEF TypeOK, vars, ObjectsOK, TasksOK, StateOK, Exists
<1> QED BY <1>1, <1>2, <1>3, <1>4, <1>5, <1>6, <1>7, <1>8, <1>9, <1>10, <1>11, <1>12, <1>13, <1>14, <1>15, <1>16, <1>17, <1>18, <1>19, <1>20, <1>21, <1>22, <1>23, <1>24, <1>25, <1>26, <1>27 DEF Next

\* Every reachable state is well typed.
THEOREM TypeCorrect == Spec => []TypeOK
<1>1. Init => TypeOK
  BY NamesAssumption, BoundsAssumption, GoneType, IdleType
  DEF Init, TypeOK, ObjectsOK, TasksOK, StateOK, Free, Budgets, Kinds, Exists
<1>2. TypeOK /\ [Next]_vars => TypeOK'
  BY TypeStep
<1> QED BY <1>1, <1>2, PTL DEF Spec

-----------------------------------------------------------------------------
(***************************************************************************)
(* The write lock of ContextData.state.                                    *)
(***************************************************************************)

\* The effect of Goto and End on the program counters and snapshots.
LEMMA GotoEffect ==
  ASSUME TasksOK, NEW h \in Hoprds, NEW pc, Goto(h, pc)
  PROVE  /\ task'[h].pc = pc
         /\ \A g \in Hoprds : task'[g].self = task[g].self
         /\ \A g \in Hoprds : g # h => task'[g].pc = task[g].pc
BY DEF TasksOK, Goto

\* A task that has ended holds nothing, and no other task moves.
LEMMA EndEffect ==
  ASSUME TasksOK, NEW h \in Hoprds, End(h)
  PROVE  /\ task'[h].pc = "idle"
         /\ task'[h].self.uid = 0
         /\ \A g \in Hoprds : g # h => task'[g] = task[g]
BY IdleType DEF TasksOK, End

\* After a crash no task runs, and the API server is as it was.
LEMMA DieEffect ==
  ASSUME Die
  PROVE  /\ \A g \in Hoprds : task'[g].pc = "idle" /\ task'[g].self.uid = 0
         /\ UNCHANGED <<hoprd, identity, pool, sub, mount>>
         /\ operator'.pc = "down" /\ operator'.todo = {}
BY IdleType DEF Die

\* Every action keeps the write lock exclusive and claims only identities that are Ready.
LEMMA MutexStep == TypeOK /\ MutexInv /\ [Next]_vars => MutexInv'
<1> SUFFICES ASSUME TypeOK, MutexInv, [Next]_vars PROVE MutexInv'
  OBVIOUS
<1>0. TasksOK /\ StateOK /\ ObjectsOK
  BY DEF TypeOK
<1> USE NamesAssumption, WishAssumption
\* Steps that leave the identities alone, and do not enter the write lock.
<1>1. ASSUME UNCHANGED identity,
             \A g \in Hoprds : task'[g].pc \in Critical =>
                /\ task[g].pc \in Critical
                /\ task'[g].pc = "claim" => task[g].pc = "claim"
                /\ task'[g].self = task[g].self,
             \A g \in Hoprds : task[g].pc \in Critical /\ task'[g].pc \in Critical => writer' = writer
      PROVE  MutexInv'
  BY <1>1 DEF MutexInv, Critical
<1>2. ASSUME NEW h \in Hoprds, UserCreate(h) \/ UserEdit(h) \/ UserDelete(h) \/ CollectGarbage(h)
      PROVE  MutexInv'
  BY <1>1, <1>2 DEF UserCreate, UserEdit, UserDelete, CollectGarbage
<1>3. ASSUME Die PROVE MutexInv'
  BY <1>1, <1>3, DieEffect DEF Critical
<1>4. ASSUME NEW h \in Hoprds, reconciler(h) PROVE MutexInv'
  <2>1. CASE /\ task' = [task EXCEPT ![h] = [pc |-> first_step(hoprd[h]), self |-> Snapshot(hoprd[h])]]
             /\ UNCHANGED <<identity, writer>>
    <3>1. first_step(hoprd[h]) \notin Critical
      BY <1>0, <1>4, FirstStep DEF reconciler, ObjectsOK, Exists, Entries, Critical
    <3> QED BY <1>0, <1>1, <2>1, <3>1 DEF TasksOK
  <2>2. CASE UNCHANGED vars
    BY <1>1, <2>2 DEF vars
  <2> QED BY <1>3, <1>4, <2>1, <2>2 DEF reconciler
<1>5. ASSUME NEW h \in Hoprds,
             \/ create_init(h) \/ set_running_status(h) \/ default_delete_database(h)
             \/ recover(h) \/ reject_change(h) \/ modify_deployment(h) \/ await_modified(h)
             \/ update_last_configuration(h) \/ delete_begin(h) \/ get_identity(h)
             \/ notify_deletion_to_cluster(h) \/ delete_finalizer(h) \/ add_finalizer(h)
      PROVE  MutexInv'
  <2>1. UNCHANGED <<identity, writer>>
    BY <1>5 DEF create_init, set_running_status, default_delete_database, recover, reject_change,
         modify_deployment, Remount, await_modified, update_last_configuration, delete_begin, get_identity,
         notify_deletion_to_cluster, delete_finalizer, add_finalizer
  <2>2. End(h) \/ \E pc \in Steps \ Critical : Goto(h, pc)
    BY <1>5 DEF create_init, set_running_status, default_delete_database, recover, reject_change,
         modify_deployment, Remount, await_modified, update_last_configuration, delete_begin, get_identity,
         notify_deletion_to_cluster, delete_finalizer, add_finalizer,
         Steps, CreateSteps, ModifySteps, DeleteSteps, Critical
  <2> QED BY <1>0, <1>1, <2>1, <2>2, GotoEffect, EndEffect DEF Critical
<1>6. ASSUME NEW h \in Hoprds, create_subresource(h) PROVE MutexInv'
  <2>1. CASE Die BY <1>3, <2>1
  <2>2. CASE ~Die
    <3>1. UNCHANGED <<identity, writer>> /\ (End(h) \/ \E k \in Kinds : Goto(h, AfterCreate[k]))
      BY <1>6, <2>2 DEF create_subresource, Built, Remount
    <3>2. \A k \in Kinds : AfterCreate[k] \notin Critical
      BY DEF Kinds, AfterCreate, Critical
    <3> QED BY <1>0, <1>1, <3>1, <3>2, GotoEffect, EndEffect DEF Critical
  <2> QED BY <2>1, <2>2
<1>7. ASSUME NEW h \in Hoprds, delete_subresource(h) PROVE MutexInv'
  <2>1. UNCHANGED <<identity, writer>> /\ (End(h) \/ \E k \in Kinds : Goto(h, AfterRemove[k]))
    BY <1>7 DEF delete_subresource
  <2>2. \A k \in Kinds : AfterRemove[k] \notin Critical
    BY DEF Kinds, AfterRemove, Critical
  <2> QED BY <1>0, <1>1, <2>1, <2>2, GotoEffect, EndEffect DEF Critical
<1>8. ASSUME NEW h \in Hoprds, lock_identity(h) \/ unlock_pool(h) PROVE MutexInv'
  BY <1>0, <1>8, GotoEffect DEF lock_identity, unlock_pool, MutexInv, Critical
<1>9. ASSUME NEW h \in Hoprds, get_ready_identity(h) PROVE MutexInv'
  BY <1>0, <1>9, GotoEffect, EndEffect DEF get_ready_identity, At, MutexInv, Critical
<1>10. ASSUME NEW h \in Hoprds, claim_identity(h) PROVE MutexInv'
  <2>1. task[h].pc = "claim" /\ writer = h /\ \A g \in Hoprds : g # h => task[g].pc \notin Critical
    BY <1>10 DEF claim_identity, At, MutexInv, Critical
  <2>2. CASE End(h) /\ UNCHANGED identity
    BY <1>0, <1>1, <2>1, <2>2, EndEffect DEF Critical
  <2>3. CASE /\ identity' = [identity EXCEPT ![task[h].self.identity_name] = [phase |-> "InUse", node |-> h]]
             /\ Goto(h, "count")
             /\ UNCHANGED writer
    <3>1. task[h].self.identity_name \in Identities
      BY <1>0, <2>1 DEF TasksOK
    <3>2. \A i \in Identities : identity'[i].phase = "Ready" <=> identity'[i].node = NoName
      BY <1>0, <2>3, <3>1 DEF StateOK, MutexInv
    <3>3. \A g \in Hoprds : task'[g].pc \in Critical => g = h
      BY <1>0, <2>1, <2>3, GotoEffect
    <3>4. task'[h].pc = "count" /\ writer' = h
      BY <1>0, <2>1, <2>3, GotoEffect
    <3> QED BY <3>2, <3>3, <3>4 DEF MutexInv, Critical
  <2> QED BY <1>10, <2>2, <2>3 DEF claim_identity
<1>11. ASSUME NEW h \in Hoprds, count_lock(h) \/ count_unlock(h) PROVE MutexInv'
  <2>1. \A g \in Hoprds : g # h => task[g].pc \notin Critical
    BY <1>11 DEF count_lock, count_unlock, At, MutexInv, Critical
  <2> QED BY <1>0, <1>1, <1>11, <2>1, GotoEffect DEF count_lock, count_unlock, Critical
<1>12. ASSUME NEW h \in Hoprds, release_identity(h) PROVE MutexInv'
  <2>1. CASE End(h) /\ UNCHANGED <<identity, writer>>
    BY <1>0, <1>1, <2>1, EndEffect DEF Critical
  <2>2. CASE /\ identity' = [identity EXCEPT ![task[h].self.identity_name] = Free]
             /\ Goto(h, "unlock")
             /\ UNCHANGED writer
    <3>1. task[h].self.identity_name \in Identities
      BY <1>0, <1>12 DEF release_identity, At, TasksOK
    <3>2. \A i \in Identities : /\ identity'[i].phase = "Ready" <=> identity'[i].node = NoName
                                /\ identity[i].phase = "Ready" => identity'[i].phase = "Ready"
      BY <1>0, <2>2, <3>1 DEF StateOK, MutexInv, Free
    <3>3. \A g \in Hoprds : task'[g].pc \in Critical => task'[g].pc = task[g].pc /\ task'[g].self = task[g].self
      BY <1>0, <2>2, GotoEffect DEF Critical
    <3>4. \A g \in Hoprds : task[g].pc = "claim" => task[g].self.identity_name \in Identities
      BY <1>0 DEF TasksOK
    <3>5. \A g \in Hoprds : task'[g].pc \in Critical => writer' = g
      BY <2>2, <3>3 DEF MutexInv
    <3>6. \A g \in Hoprds : task'[g].pc = "claim" => identity'[task'[g].self.identity_name].phase = "Ready"
      <4> SUFFICES ASSUME NEW g \in Hoprds, task'[g].pc = "claim"
                   PROVE  identity'[task'[g].self.identity_name].phase = "Ready"
        OBVIOUS
      <4>1. task[g].pc = "claim" /\ task'[g].self = task[g].self
        BY <3>3 DEF Critical
      <4>2. identity[task[g].self.identity_name].phase = "Ready"
        BY <4>1 DEF MutexInv
      <4> QED BY <3>2, <3>4, <4>1, <4>2
    <3> QED BY <3>2, <3>5, <3>6 DEF MutexInv
  <2> QED BY <1>12, <2>1, <2>2 DEF release_identity
<1>13. ASSUME start_controllers \/ sync_uncount \/ sync_identity_pools \/ UNCHANGED vars
       PROVE  MutexInv'
  BY <1>1, <1>13 DEF start_controllers, sync_uncount, sync_identity_pools, vars
<1>14. ASSUME NEW i \in Identities, sync_release(i) PROVE MutexInv'
  BY <1>0, <1>14 DEF sync_release, Free, StateOK, MutexInv
<1> QED
  BY <1>2, <1>3, <1>4, <1>5, <1>6, <1>7, <1>8, <1>9, <1>10, <1>11, <1>12, <1>13, <1>14 DEF Next, Crash

\* The write lock excludes in every reachable state.
THEOREM Mutex == Spec => [](TypeOK /\ MutexInv)
<1>1. Init => MutexInv
  BY NamesAssumption, IdleType DEF Init, MutexInv, Critical, Free
<1> QED BY <1>1, TypeCorrect, MutexStep, PTL DEF Spec

\* An identity never passes from one node to another without being Ready in between, for any names,
\* edits, crashes and failed calls: the write lock covers the listing and the claim.
THEOREM NoStolenLock == Spec => LockNeverStolen
<1> DEFINE Keeps == \A i \in Identities :
                      identity[i].node # NoName /\ identity'[i].node # NoName
                        => identity'[i].node = identity[i].node
<1>1. TypeOK /\ MutexInv /\ [Next]_vars => [Keeps]_vars
  <2> SUFFICES ASSUME TypeOK, MutexInv, [Next]_vars PROVE Keeps
    OBVIOUS
  <2>0. StateOK /\ TasksOK
    BY DEF TypeOK
  <2>1. CASE UNCHANGED identity
    BY <2>1
  <2>2. ASSUME NEW h \in Hoprds, claim_identity(h), ~UNCHANGED identity PROVE Keeps
    <3>1. task[h].pc = "claim"
      BY <2>2 DEF claim_identity, At
    <3>2. identity[task[h].self.identity_name].node = NoName
      BY <2>0, <3>1, WishAssumption DEF MutexInv, TasksOK
    <3> QED BY <2>0, <2>2, <3>2 DEF claim_identity, StateOK
  <2>3. ASSUME NEW h \in Hoprds, release_identity(h), ~UNCHANGED identity PROVE Keeps
    BY <2>0, <2>3 DEF release_identity, Free, StateOK
  <2>4. ASSUME NEW i \in Identities, sync_release(i) PROVE Keeps
    BY <2>0, <2>4 DEF sync_release, Free, StateOK
  <2> QED
    BY <2>1, <2>2, <2>3, <2>4
    DEF Next, UserCreate, UserEdit, UserDelete, CollectGarbage, reconciler, create_init, lock_identity,
        get_ready_identity, count_lock, add_finalizer, create_subresource, Built, Remount, set_running_status,
        default_delete_database, recover, reject_change, modify_deployment, await_modified,
        update_last_configuration, delete_begin, delete_subresource, get_identity, unlock_pool,
        count_unlock, notify_deletion_to_cluster, delete_finalizer, Crash, Die, start_controllers,
        sync_uncount, sync_identity_pools, vars
<1> QED BY <1>1, Mutex, PTL DEF Spec, LockNeverStolen
=============================================================================
