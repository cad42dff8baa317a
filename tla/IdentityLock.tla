---------------------------- MODULE IdentityLock ----------------------------
(***************************************************************************)
(* The reconciliation of Hoprd nodes and the lock each node holds on an    *)
(* identity of its IdentityPool (hoprd_controller.rs, hoprd_resource.rs,   *)
(* the unlock half of identity_hoprd_resource.rs, context_data.rs).        *)
(*                                                                         *)
(* The API server keeps the Hoprd objects, the status of the identities    *)
(* and the lock count of the pool.  The operator keeps a copy of the pool  *)
(* behind a write lock (ContextData.state) and runs one task per Hoprd; a  *)
(* task is cut at its API calls, so that tasks, users, the garbage         *)
(* collector of Kubernetes and crashes interleave between any two calls.   *)
(* A call whose failure the code unwraps is a crash before the call.       *)
(***************************************************************************)
EXTENDS Integers, FiniteSets

CONSTANTS
  Hoprds,       \* names of Hoprd nodes
  Identities,   \* names of identities of one pool; may share names with Hoprds
  NoName,       \* no name at all: Option::None
  Wish,         \* the values users give to spec.identity_name of each node
  Databases,    \* the states users give to spec.deleteDatabase: "unset", or "set" (to false)
  Lossy,        \* the API calls that may fail
  MaxCreations, \* how often users create each node
  MaxEdits,     \* how often users edit the spec of a node
  MaxCrashes,   \* how often the operator process dies
  MaxFailures   \* how many API calls fail

ASSUME NamesAssumption == NoName \notin Hoprds \cup Identities

ASSUME WishAssumption == Wish \in [Hoprds -> SUBSET Identities]

ASSUME DatabasesAssumption == Databases \subseteq {"unset", "set"}

ASSUME BoundsAssumption ==
  /\ MaxCreations \in Nat
  /\ MaxEdits \in Nat
  /\ MaxCrashes \in Nat
  /\ MaxFailures \in Nat

ASSUME FiniteAssumption == IsFiniteSet(Identities)

VARIABLES
  hoprd,     \* the Hoprd objects on the API server
  identity,  \* the status of the IdentityHoprd objects
  pool,      \* status.locked of the IdentityPool object
  cache,     \* status.locked of the pool in ContextData.state
  writer,    \* the task that holds the write lock of ContextData.state
  task,      \* the reconciliation of each Hoprd
  sub,       \* the subresources of each Hoprd: uid of their owner, 0 if absent
  mount,     \* the identity the Deployment of each Hoprd mounts
  operator,  \* the operator process: starting, up or down
  budget     \* what is left of the bounds

vars == <<hoprd, identity, pool, cache, writer, task, sub, mount, operator, budget>>

-----------------------------------------------------------------------------
Phases == {"None", "Initializing", "Running", "Failed", "Deleting"}

Kinds == {"ingress", "service", "deployment"}

CreateSteps == {"init", "lock", "ready", "claim", "count", "finalizer",
                "ingress", "service", "deployment", "run", "db"}

ModifySteps == {"recover", "reject", "immutable", "annotate", "redeploy", "rewait"}

DeleteSteps == {"deleting", "rm_ingress", "rm_service", "rm_deployment",
                "get_identity", "release", "unlock", "uncount", "notify", "unfinalize"}

\* The life of an object: absent, new (no finalizer yet), finalized, and terminating (finalized, with a
\* deletionTimestamp).  An object marked for deletion without a finalizer is already gone.
Lives == {"absent", "new", "finalized", "terminating"}

\* An object that does not exist; its uid is the last one handed out.
Gone(uid) == [life |-> "absent", uid |-> uid, phase |-> "None", gen |-> 0, observed |-> 0,
              identity_name |-> NoName, last |-> NoName, db |-> "unset"]

Exists(h) == hoprd[h].life # "absent"

Finalized(h) == hoprd[h].life \in {"finalized", "terminating"}

Terminating(h) == hoprd[h].life = "terminating"

\* Mutant: the identity is taken from the last applied configuration.
Snapshot_of_annotation(o) == [uid |-> o.uid, gen |-> o.gen, identity_name |-> o.last, db |-> o.db]

\* The fields of the reconciled object that the handlers read after an await.
Snapshot(o) == [uid |-> o.uid, gen |-> o.gen, identity_name |-> o.identity_name, db |-> o.db]

Idle == [pc |-> "idle", self |-> Snapshot(Gone(0))]

Free == [phase |-> "Ready", node |-> NoName]

\* The identities with a node name in their status.
Held == {i \in Identities : identity[i].node # NoName}

Init ==
  /\ hoprd = [h \in Hoprds |-> Gone(0)]
  /\ identity = [i \in Identities |-> Free]
  /\ pool = 0
  /\ cache = 0
  /\ writer = NoName
  /\ task = [h \in Hoprds |-> Idle]
  /\ sub = [h \in Hoprds |-> [k \in Kinds |-> 0]]
  /\ mount = [h \in Hoprds |-> NoName]
  /\ operator = [pc |-> "up", todo |-> {}]
  /\ budget = [edits |-> MaxEdits, crashes |-> MaxCrashes, failures |-> MaxFailures]

-----------------------------------------------------------------------------
(***************************************************************************)
(* The users and the cluster around the operator.                          *)
(***************************************************************************)

\* A Hoprd is applied: with the annotation of kubectl apply or without it (Helm, kubectl create),
\* with deleteDatabase unset or not.
UserCreate(h) ==
  /\ ~Exists(h)
  /\ hoprd[h].uid < MaxCreations
  /\ \E i \in Wish[h], db \in Databases : \E a \in {i, NoName} :
       hoprd' = [hoprd EXCEPT ![h] =
                   [life |-> "new", uid |-> @.uid + 1, phase |-> "None", gen |-> 1, observed |-> 0,
                    identity_name |-> i, last |-> a, db |-> db]]
  /\ UNCHANGED <<identity, pool, cache, writer, task, sub, mount, operator, budget>>

\* The spec is edited; kubectl apply also rewrites the last-applied annotation.
UserEdit(h) ==
  /\ hoprd[h].life \in {"new", "finalized"}
  /\ budget.edits > 0
  /\ budget' = [budget EXCEPT !.edits = @ - 1]
  /\ \E i \in Wish[h] : \E a \in {i, hoprd[h].last} :
       hoprd' = [hoprd EXCEPT ![h] = [@ EXCEPT !.identity_name = i, !.gen = hoprd[h].gen + 1, !.last = a]]
  /\ UNCHANGED <<identity, pool, cache, writer, task, sub, mount, operator>>

\* Kubernetes removes an object at once unless a finalizer holds it.
UserDelete(h) ==
  /\ \/ /\ hoprd[h].life = "new"
        /\ hoprd' = [hoprd EXCEPT ![h] = Gone(@.uid)]
     \/ /\ hoprd[h].life = "finalized"
        /\ hoprd' = [hoprd EXCEPT ![h] = [@ EXCEPT !.life = "terminating"]]
  /\ UNCHANGED <<identity, pool, cache, writer, task, sub, mount, operator, budget>>

Live(h, uid) == Exists(h) /\ hoprd[h].uid = uid

\* A subresource disappears; the Deployment takes its mount with it.
Drop(h, k) ==
  /\ sub' = [sub EXCEPT ![h][k] = 0]
  /\ mount' = IF k = "deployment" THEN [mount EXCEPT ![h] = NoName] ELSE mount

\* The garbage collector removes a subresource whose owner is gone.
CollectGarbage(h) ==
  /\ \E k \in Kinds : sub[h][k] # 0 /\ ~Live(h, sub[h][k]) /\ Drop(h, k)
  /\ UNCHANGED <<hoprd, identity, pool, cache, writer, task, operator, budget>>

-----------------------------------------------------------------------------
(***************************************************************************)
(* What the handlers do to the API server.                                 *)
(***************************************************************************)

\* The call fails.
Lose(call) ==
  /\ call \in Lossy
  /\ budget.failures > 0
  /\ budget' = [budget EXCEPT !.failures = @ - 1]

\* A patch goes by name: it fails when there is no such object, and hits whatever object has the name.
Patch(h, o) == hoprd' = IF Exists(h) THEN [hoprd EXCEPT ![h] = o] ELSE hoprd

\* Hoprd::update_status writes the phase and the generation of the snapshot; an error is only logged.
UpdateStatus(h, phase) ==
  \/ /\ Patch(h, [hoprd[h] EXCEPT !.phase = phase, !.observed = task[h].self.gen])
     /\ UNCHANGED budget
  \/ Lose("update_status") /\ UNCHANGED hoprd

Goto(h, pc) == task' = [task EXCEPT ![h].pc = pc]

End(h) == task' = [task EXCEPT ![h] = Idle]

\* IdentityPool::update_status(Locked | Unlocked), applied to the cached pool under the write lock;
\* when the patch fails neither the object nor the cache changes.
UpdatePool(d) ==
  \/ pool' = cache + d /\ cache' = cache + d /\ UNCHANGED budget
  \/ Lose("pool") /\ UNCHANGED <<pool, cache>>

\* The process dies: the tasks and the cached pool are gone, the API server stays.
Die ==
  /\ budget.crashes > 0
  /\ budget' = [budget EXCEPT !.crashes = @ - 1]
  /\ operator' = [pc |-> "down", todo |-> {}]
  /\ task' = [h \in Hoprds |-> Idle]
  /\ writer' = NoName
  /\ cache' = 0
  /\ UNCHANGED <<hoprd, identity, pool, sub, mount>>

-----------------------------------------------------------------------------
(***************************************************************************)
(* hoprd_controller: one reconciliation at a time for each object.         *)
(***************************************************************************)

\* Mutant: a Failed node is left alone until its user repairs it.
determine_action_failed(o) ==
  IF o.phase = "Failed" THEN "NoOp"
  ELSE IF o.life = "terminating" /\ o.phase \notin {"None", "Deleting"} THEN "Delete"
  ELSE IF o.life = "new" THEN "Create"
  ELSE IF o.phase = "None" THEN "Panic"
  ELSE IF o.phase # "Deleting" /\ o.observed < o.gen THEN "Modify" ELSE "NoOp"

determine_action(o) ==
  IF o.life = "terminating" /\ o.phase \notin {"None", "Deleting"} THEN "Delete"
  ELSE IF o.life = "new" THEN "Create"
  ELSE CASE o.phase = "None"     -> "Panic"   \* status.unwrap() of an object without status
         [] o.phase = "Failed"   -> "Modify"
         [] o.phase = "Deleting" -> "NoOp"
         [] OTHER -> IF o.observed < o.gen THEN "Modify" ELSE "NoOp"

\* The branch that Hoprd::modify takes.
modify_branch(o) ==
  CASE o.phase = "Failed"         -> "recover"
    [] o.last = NoName            -> "reject"
    [] o.last # o.identity_name   -> "immutable"
    [] OTHER                      -> "redeploy"

first_step(o) ==
  CASE determine_action(o) = "Create" -> "init"
    [] determine_action(o) = "Modify" -> modify_branch(o)
    [] determine_action(o) = "Delete" -> "deleting"
    [] OTHER                          -> "idle"

reconciler(h) ==
  /\ operator.pc = "up"
  /\ task[h].pc = "idle"
  /\ Exists(h)
  /\ \/ /\ first_step(hoprd[h]) # "idle"
        /\ task' = [task EXCEPT ![h] = [pc |-> first_step(hoprd[h]), self |-> Snapshot(hoprd[h])]]
        /\ UNCHANGED <<hoprd, identity, pool, cache, writer, sub, mount, operator, budget>>
     \/ determine_action(hoprd[h]) = "NoOp" /\ UNCHANGED vars
     \/ determine_action(hoprd[h]) = "Panic" /\ Die

At(h, pc) == task[h].pc = pc

-----------------------------------------------------------------------------
(***************************************************************************)
(* Hoprd::create.                                                          *)
(***************************************************************************)

create_init(h) ==
  /\ At(h, "init")
  /\ UpdateStatus(h, "Initializing")
  /\ Goto(h, "lock")
  /\ UNCHANGED <<identity, pool, cache, writer, sub, mount, operator>>

\* Mutant: the state is locked for reading only.
lock_identity_shared(h) ==
  /\ At(h, "lock")
  /\ writer' = h
  /\ Goto(h, "ready")
  /\ UNCHANGED <<hoprd, identity, pool, cache, sub, mount, operator, budget>>

lock_identity(h) ==
  /\ At(h, "lock")
  /\ writer = NoName
  /\ writer' = h
  /\ Goto(h, "ready")
  /\ UNCHANGED <<hoprd, identity, pool, cache, sub, mount, operator, budget>>

\* Mutant: an identity in use by anyone is taken as recovered.
ready_identity_anyone(i) == identity[i].phase \in {"Ready", "InUse"}

\* Ready, or in use by a node that has the name of the identity.
ready_identity(i) ==
  \/ identity[i].phase = "Ready"
  \/ identity[i].phase = "InUse" /\ identity[i].node = i

\* The identity is listed: claimed next if Ready, taken as recovered if InUse, refused otherwise.
get_ready_identity(h) ==
  /\ At(h, "ready")
  /\ LET i == task[h].self.identity_name IN
     \/ /\ ready_identity(i) /\ identity[i].phase = "Ready"
        /\ Goto(h, "claim")
        /\ UNCHANGED writer
     \/ /\ ready_identity(i) /\ identity[i].phase # "Ready"
        /\ Goto(h, "finalizer")
        /\ writer' = NoName
     \/ /\ ~ready_identity(i)
        /\ End(h)
        /\ writer' = NoName
  /\ UNCHANGED <<hoprd, identity, pool, cache, sub, mount, operator, budget>>

\* IdentityHoprd::update_phase(InUse, hoprd); an error ends the reconciliation.
claim_identity(h) ==
  /\ At(h, "claim")
  /\ \/ /\ identity' = [identity EXCEPT ![task[h].self.identity_name] = [phase |-> "InUse", node |-> h]]
        /\ Goto(h, "count")
        /\ UNCHANGED <<writer, budget>>
     \/ /\ Lose("claim")
        /\ End(h)
        /\ writer' = NoName
        /\ UNCHANGED identity
  /\ UNCHANGED <<hoprd, pool, cache, sub, mount, operator>>

\* Mutant: the guard of the state outlives lock_identity.
count_lock_held(h) ==
  /\ At(h, "count")
  /\ UpdatePool(1)
  /\ Goto(h, "finalizer")
  /\ UNCHANGED <<hoprd, identity, writer, sub, mount, operator>>

count_lock(h) ==
  /\ At(h, "count")
  /\ UpdatePool(1)
  /\ writer' = NoName
  /\ Goto(h, "finalizer")
  /\ UNCHANGED <<hoprd, identity, sub, mount, operator>>

\* add_finalizer only logs an error.
add_finalizer(h) ==
  /\ At(h, "finalizer")
  /\ \/ Patch(h, [hoprd[h] EXCEPT !.life = IF @ = "new" THEN "finalized" ELSE @]) /\ UNCHANGED budget
     \/ Lose("add_finalizer") /\ UNCHANGED hoprd
  /\ Goto(h, "ingress")
  /\ UNCHANGED <<identity, pool, cache, writer, sub, mount, operator>>

\* build_deployment_spec: the Deployment mounts the volume of identity i.
Remount(h, i) == [mount EXCEPT ![h] = i]

\* A subresource is created, owned by the object of the snapshot.
Built(h, k) ==
  /\ sub' = [sub EXCEPT ![h][k] = task[h].self.uid]
  /\ mount' = IF k = "deployment" THEN Remount(h, task[h].self.identity_name) ELSE mount

AfterCreate == [ingress |-> "service", service |-> "deployment", deployment |-> "run"]

\* create_ingress, create_service, create_deployment: a POST, refused when the name is taken;
\* the error of create_service is unwrapped.
create_subresource(h) ==
  \E k \in Kinds :
    /\ At(h, k)
    /\ \/ /\ sub[h][k] = 0
          /\ Built(h, k)
          /\ Goto(h, AfterCreate[k])
          /\ UNCHANGED <<hoprd, identity, pool, cache, writer, operator, budget>>
       \/ /\ k # "service"
          /\ sub[h][k] # 0
          /\ End(h)
          /\ UNCHANGED <<hoprd, identity, pool, cache, writer, sub, mount, operator, budget>>
       \/ /\ k # "service"
          /\ Lose("create")
          /\ End(h)
          /\ UNCHANGED <<hoprd, identity, pool, cache, writer, sub, mount, operator>>
       \/ k = "service" /\ sub[h][k] # 0 /\ Die

\* wait_deployment gives up and its error ends the reconciliation, or the node is Running.
set_running_status(h) ==
  /\ At(h, "run")
  /\ \/ Lose("wait") /\ End(h) /\ UNCHANGED hoprd
     \/ UpdateStatus(h, "Running") /\ (IF task[h].self.db = "unset" THEN Goto(h, "db") ELSE End(h))
  /\ UNCHANGED <<identity, pool, cache, writer, sub, mount, operator>>

\* The patch that sets an unset spec.deleteDatabase: a change of the spec, hence of the generation.
default_delete_database(h) ==
  /\ At(h, "db")
  /\ \/ Patch(h, [hoprd[h] EXCEPT !.db = "set", !.gen = IF hoprd[h].db = "unset" THEN @ + 1 ELSE @])
        /\ UNCHANGED budget
     \/ Lose("db") /\ UNCHANGED hoprd
  /\ End(h)
  /\ UNCHANGED <<identity, pool, cache, writer, sub, mount, operator>>

-----------------------------------------------------------------------------
(***************************************************************************)
(* Hoprd::modify.                                                          *)
(***************************************************************************)

\* A Failed node is taken back to Running without a look at what was changed.
recover(h) ==
  /\ At(h, "recover")
  /\ UpdateStatus(h, "Running")
  /\ End(h)
  /\ UNCHANGED <<identity, pool, cache, writer, sub, mount, operator>>

\* No annotation to compare with, or a changed immutable field.
reject_change(h) ==
  /\ \/ At(h, "reject") /\ End(h)
     \/ At(h, "immutable") /\ Goto(h, "annotate")
  /\ UpdateStatus(h, "Failed")
  /\ UNCHANGED <<identity, pool, cache, writer, sub, mount, operator>>

\* modify_deployment: the identity of the spec goes into the pod template; an error in reading the
\* identity or the Deployment ends the task.
modify_deployment(h) ==
  /\ At(h, "redeploy")
  /\ \/ /\ sub[h]["deployment"] # 0
        /\ mount' = Remount(h, task[h].self.identity_name)
        /\ Goto(h, "rewait")
        /\ UNCHANGED budget
     \/ /\ sub[h]["deployment"] = 0
        /\ End(h)
        /\ UNCHANGED <<mount, budget>>
     \/ Lose("get") /\ End(h) /\ UNCHANGED mount
  /\ UNCHANGED <<hoprd, identity, pool, cache, writer, sub, operator>>

\* wait_deployment of a modification: its failure is only logged.
await_modified(h) ==
  /\ At(h, "rewait")
  /\ \/ UpdateStatus(h, "Running")
     \/ Lose("wait") /\ UNCHANGED hoprd
  /\ Goto(h, "annotate")
  /\ UNCHANGED <<identity, pool, cache, writer, sub, mount, operator>>

\* The spec of the snapshot becomes the last applied configuration, rejected or not.
update_last_configuration(h) ==
  /\ At(h, "annotate")
  /\ \/ Patch(h, [hoprd[h] EXCEPT !.last = task[h].self.identity_name]) /\ UNCHANGED budget
     \/ Lose("annotate") /\ UNCHANGED hoprd
  /\ End(h)
  /\ UNCHANGED <<identity, pool, cache, writer, sub, mount, operator>>

-----------------------------------------------------------------------------
(***************************************************************************)
(* Hoprd::delete.  Every error after the first step ends the task with the *)
(* object in phase Deleting.                                               *)
(***************************************************************************)

delete_begin(h) ==
  /\ At(h, "deleting")
  /\ UpdateStatus(h, "Deleting")
  /\ Goto(h, "rm_ingress")
  /\ UNCHANGED <<identity, pool, cache, writer, sub, mount, operator>>

\* Mutant: the Deployment is left to the garbage collector.
AfterRemove_early == [ingress |-> "rm_service", service |-> "get_identity", deployment |-> "get_identity"]

AfterRemove == [ingress |-> "rm_service", service |-> "rm_deployment", deployment |-> "get_identity"]

Removing(h, k) == At(h, [ingress |-> "rm_ingress", service |-> "rm_service",
                         deployment |-> "rm_deployment"][k])

\* delete_ingress, delete_service, delete_depoyment: by name, found or not.
delete_subresource(h) ==
  /\ \E k \in Kinds :
       /\ Removing(h, k)
       /\ \/ Drop(h, k) /\ Goto(h, AfterRemove[k]) /\ UNCHANGED budget
          \/ Lose("delete") /\ End(h) /\ UNCHANGED <<sub, mount>>
  /\ UNCHANGED <<hoprd, identity, pool, cache, writer, operator>>

\* get_identity, by the identity_name of the spec; unlock goes on only if it reads InUse.
get_identity(h) ==
  /\ At(h, "get_identity")
  /\ \/ /\ Goto(h, IF identity[task[h].self.identity_name].phase = "InUse" THEN "release" ELSE "notify")
        /\ UNCHANGED budget
     \/ Lose("get") /\ End(h)
  /\ UNCHANGED <<hoprd, identity, pool, cache, writer, sub, mount, operator>>

\* Mutant: the error of the patch is only logged.
release_identity_logged(h) ==
  /\ At(h, "release")
  /\ \/ identity' = [identity EXCEPT ![task[h].self.identity_name] = Free] /\ UNCHANGED budget
     \/ Lose("release") /\ UNCHANGED identity
  /\ Goto(h, "unlock")
  /\ UNCHANGED <<hoprd, pool, cache, writer, sub, mount, operator>>

\* unlock: update_phase(Ready, None), outside the write lock and whoever holds the identity now.
release_identity(h) ==
  /\ At(h, "release")
  /\ \/ /\ identity' = [identity EXCEPT ![task[h].self.identity_name] = Free]
        /\ Goto(h, "unlock")
        /\ UNCHANGED budget
     \/ Lose("release") /\ End(h) /\ UNCHANGED identity
  /\ UNCHANGED <<hoprd, pool, cache, writer, sub, mount, operator>>

unlock_pool(h) ==
  /\ At(h, "unlock")
  /\ writer = NoName
  /\ writer' = h
  /\ Goto(h, "uncount")
  /\ UNCHANGED <<hoprd, identity, pool, cache, sub, mount, operator, budget>>

count_unlock(h) ==
  /\ At(h, "uncount")
  /\ UpdatePool(-1)
  /\ writer' = NoName
  /\ Goto(h, "notify")
  /\ UNCHANGED <<hoprd, identity, sub, mount, operator>>

\* The owning ClusterHoprd, which is outside this module, is told of the deletion.
notify_deletion_to_cluster(h) ==
  /\ At(h, "notify")
  /\ \/ Goto(h, "unfinalize") /\ UNCHANGED budget
     \/ Lose("notify") /\ End(h)
  /\ UNCHANGED <<hoprd, identity, pool, cache, writer, sub, mount, operator>>

\* Without its finalizer an object marked for deletion is gone.
delete_finalizer(h) ==
  /\ At(h, "unfinalize")
  /\ \/ Patch(h, IF Terminating(h) THEN Gone(hoprd[h].uid) ELSE [hoprd[h] EXCEPT !.life = "new"])
        /\ UNCHANGED budget
     \/ Lose("delete_finalizer") /\ UNCHANGED hoprd
  /\ End(h)
  /\ UNCHANGED <<identity, pool, cache, writer, sub, mount, operator>>

-----------------------------------------------------------------------------
(***************************************************************************)
(* The process: crash and start_controllers.                               *)
(***************************************************************************)

Crash == operator.pc # "down" /\ Die

\* Mutant: every identity in use is unlocked, not only those of missing nodes.
start_controllers_all ==
  /\ operator.pc = "down"
  /\ cache' = pool
  /\ operator' = [pc |-> "sync", todo |-> Held]
  /\ UNCHANGED <<hoprd, identity, pool, writer, task, sub, mount, budget>>

\* ContextData::new caches the pool; sync_identities lists the identities and then the nodes.
start_controllers ==
  /\ operator.pc = "down"
  /\ cache' = pool
  /\ operator' = [pc |-> "sync", todo |-> {i \in Held : ~Exists(identity[i].node)}]
  /\ UNCHANGED <<hoprd, identity, pool, writer, task, sub, mount, budget>>

\* sync_identities unlocks an identity whose node was not listed: the phase first...
sync_release(i) ==
  /\ operator.pc = "sync"
  /\ i \in operator.todo
  /\ operator' = [pc |-> "uncount", todo |-> operator.todo \ {i}]
  /\ identity' = [identity EXCEPT ![i] = Free]
  /\ UNCHANGED <<hoprd, pool, cache, writer, task, sub, mount, budget>>

\* ... and then the count of the pool.
sync_uncount ==
  /\ operator.pc = "uncount"
  /\ UpdatePool(-1)
  /\ operator' = [operator EXCEPT !.pc = "sync"]
  /\ UNCHANGED <<hoprd, identity, writer, task, sub, mount>>

\* sync_identity_pools repairs the status of the object but caches the pool as it was listed.
sync_identity_pools ==
  /\ operator.pc = "sync"
  /\ operator.todo = {}
  /\ \/ pool' = Cardinality(Held) /\ UNCHANGED budget
     \/ pool # Cardinality(Held) /\ Lose("pool") /\ UNCHANGED pool
  /\ cache' = pool
  /\ operator' = [operator EXCEPT !.pc = "up"]
  /\ UNCHANGED <<hoprd, identity, writer, task, sub, mount>>

Next ==
  \/ \E h \in Hoprds :
       \/ UserCreate(h) \/ UserEdit(h) \/ UserDelete(h) \/ CollectGarbage(h)
       \/ reconciler(h)
       \/ create_init(h) \/ lock_identity(h) \/ get_ready_identity(h) \/ claim_identity(h)
       \/ count_lock(h) \/ add_finalizer(h) \/ create_subresource(h)
       \/ set_running_status(h) \/ default_delete_database(h)
       \/ recover(h) \/ reject_change(h) \/ modify_deployment(h) \/ await_modified(h)
       \/ update_last_configuration(h)
       \/ delete_begin(h) \/ delete_subresource(h) \/ get_identity(h) \/ release_identity(h)
       \/ unlock_pool(h) \/ count_unlock(h) \/ notify_deletion_to_cluster(h) \/ delete_finalizer(h)
  \/ Crash
  \/ start_controllers
  \/ \E i \in Identities : sync_release(i)
  \/ sync_uncount
  \/ sync_identity_pools

Spec == Init /\ [][Next]_vars

(***************************************************************************)
(* The controllers keep running: a started task goes on, an object that    *)
(* needs work is reconciled, a waiting writer of the FIFO RwLock is served *)
(* (strong fairness), Kubernetes collects garbage.  Users owe nothing and  *)
(* nothing has to fail or crash.                                           *)
(***************************************************************************)
Acquire(h) == lock_identity(h) \/ unlock_pool(h)

Proceed(h) ==
  \/ reconciler(h)
  \/ create_init(h) \/ get_ready_identity(h) \/ claim_identity(h) \/ count_lock(h)
  \/ add_finalizer(h) \/ create_subresource(h) \/ set_running_status(h) \/ default_delete_database(h)
  \/ recover(h) \/ reject_change(h) \/ modify_deployment(h) \/ await_modified(h)
  \/ update_last_configuration(h)
  \/ delete_begin(h) \/ delete_subresource(h) \/ get_identity(h) \/ release_identity(h)
  \/ count_unlock(h) \/ notify_deletion_to_cluster(h) \/ delete_finalizer(h)

FairSpec ==
  /\ Spec
  /\ \A h \in Hoprds : WF_vars(Proceed(h)) /\ SF_vars(Acquire(h)) /\ WF_vars(CollectGarbage(h))
  /\ WF_vars(start_controllers \/ sync_uncount \/ sync_identity_pools
             \/ \E i \in Identities : sync_release(i))

-----------------------------------------------------------------------------
(***************************************************************************)
(* Properties.                                                             *)
(***************************************************************************)

Budgets == [edits : 0..MaxEdits, crashes : 0..MaxCrashes, failures : 0..MaxFailures]

HoprdObjects ==
  [life : Lives, uid : Nat, phase : Phases, gen : Nat, observed : Nat,
   identity_name : Identities \cup {NoName}, last : Identities \cup {NoName}, db : {"unset", "set"}]

Snapshots == [uid : Nat, gen : Nat, identity_name : Identities \cup {NoName},
              db : {"unset", "set"}]

Steps == {"idle"} \cup CreateSteps \cup ModifySteps \cup DeleteSteps

ObjectsOK ==
  /\ hoprd \in [Hoprds -> HoprdObjects]
  /\ \A h \in Hoprds : Exists(h) => hoprd[h].identity_name \in Wish[h]

TasksOK ==
  /\ task \in [Hoprds -> [pc : Steps, self : Snapshots]]
  /\ \A h \in Hoprds : task[h].pc # "idle" => task[h].self.identity_name \in Wish[h]

StateOK ==
  /\ identity \in [Identities -> [phase : {"Ready", "InUse"}, node : Hoprds \cup {NoName}]]
  /\ pool \in Int
  /\ cache \in Int
  /\ writer \in Hoprds \cup {NoName}
  /\ sub \in [Hoprds -> [Kinds -> Nat]]
  /\ mount \in [Hoprds -> Identities \cup {NoName}]
  /\ operator \in [pc : {"down", "sync", "uncount", "up"}, todo : SUBSET Identities]

\* Every variable has its type; an object, and a task that runs, name an identity the users gave.
TypeOK == ObjectsOK /\ TasksOK /\ StateOK /\ budget \in Budgets

\* Users never change the identity of a node, and only the node itself asks for an identity that has
\* the name of a node.
FixedNames == \A h \in Hoprds : \A i, j \in Wish[h] : i = j
SafeNames  == \A h \in Hoprds : Wish[h] \cap Hoprds \subseteq {h}

\* The Deployment of an existing node mounts identity i.
Uses(h, i) == Live(h, sub[h]["deployment"]) /\ mount[h] = i

\* lock_identity gives an identity to one node at a time: no two Deployments of existing nodes mount
\* the same identity (and its volume), whatever tasks, deletions, restarts and crashes interleave.
ExclusiveUse ==
  \A g, h \in Hoprds : \A i \in Identities : Uses(g, i) /\ Uses(h, i) => g = h

\* As long as the Deployment of an existing node is there, the identity it mounts is InUse by that
\* node: neither unlock, a second reconciliation nor sync_identities releases it early.
UsedIdentityIsLocked ==
  \A h \in Hoprds : \A i \in Identities : Uses(h, i) => identity[i] = [phase |-> "InUse", node |-> h]

\* The write lock held from the listing of an identity to the patch of its status makes the claim
\* atomic: no step takes an identity from one node and gives it to another.
LockNeverStolen ==
  [][\A i \in Identities :
       identity[i].node # NoName /\ identity'[i].node # NoName => identity'[i].node = identity[i].node]_vars

\* "If and only if all subresources are deleted, the finalizer is removed": the step of Hoprd::delete
\* that lets Kubernetes drop the object leaves no subresource and no identity locked by the node.
RemovedClean ==
  [][\A h \in Hoprds :
       Finalized(h) /\ ~Finalized(h)' =>
         /\ \A k \in Kinds : sub[h][k] = 0
         /\ \A i \in Identities : identity[i].node # h]_vars

Claimed  == {h \in Hoprds : task[h].pc = "count"}
Released == {h \in Hoprds : task[h].pc \in {"unlock", "uncount"}}

\* The cached pool counts the identities in use, up to the lock and unlock operations under way, and
\* the pool object agrees with the cache: whichever call fails, as long as it is not the patch of the pool
\* itself, no lock or unlock is counted twice or lost between the patch of the identity and that of the
\* pool.  A crash between the two breaks it until sync_identity_pools has run.
LocksAccounted ==
  budget.crashes = MaxCrashes =>
    /\ pool = cache
    /\ cache + Cardinality(Claimed) - Cardinality(Released) = Cardinality(Held)

\* Without failures and crashes, a node marked for deletion is removed in the end, whatever task was
\* under way when it was marked.
DeletionCompletes == \A h \in Hoprds : Terminating(h) ~> ~Exists(h)

\* Without failures and crashes, a node that does not compete for its identity gets it and runs,
\* unless it is deleted before.
NodeStarts ==
  \A h \in Hoprds : Exists(h) ~> (hoprd[h].phase = "Running" \/ ~Exists(h) \/ Terminating(h))

-----------------------------------------------------------------------------
(***************************************************************************)
(* The inductive invariants behind the theorems of IdentityLock_proofs.    *)
(***************************************************************************)

\* The steps inside the write lock, and those at which a node holds the identity of its snapshot.
Critical == {"ready", "claim", "count", "uncount"}

Holding == {"count", "finalizer", "ingress", "service", "deployment", "run", "db", "deleting",
            "rm_ingress", "rm_service", "rm_deployment", "get_identity", "release"} \cup ModifySteps

Owns(h, i) == identity[i] = [phase |-> "InUse", node |-> h]

\* The write lock excludes; an identity is Ready exactly when nobody holds it, and is still Ready when
\* it is claimed.
MutexInv ==
  /\ \A h \in Hoprds : task[h].pc \in Critical => writer = h
  /\ \A i \in Identities : identity[i].phase = "Ready" <=> identity[i].node = NoName
  /\ \A h \in Hoprds : task[h].pc = "claim" => identity[task[h].self.identity_name].phase = "Ready"

\* What is true of a Hoprd object, its subresources and the state of the operator.
ObjectInv(h) ==
  /\ Exists(h) => hoprd[h].uid > 0
  /\ \A k \in Kinds : sub[h][k] <= hoprd[h].uid
  /\ task[h].self.uid <= hoprd[h].uid
  /\ operator.pc # "up" => task[h].pc = "idle"
  /\ operator.pc = "up" => operator.todo = {}

\* Which identities a node holds: while it has a Deployment, while it has a finalizer and is not
\* being deleted, and at the steps of Holding.
OwnerInv(h) ==
  /\ \A i \in Identities : identity[i].node = h => i \in Wish[h]
  /\ Live(h, sub[h]["deployment"]) => mount[h] \in Wish[h] /\ Owns(h, mount[h])
  /\ Finalized(h) /\ hoprd[h].phase # "Deleting" => Owns(h, hoprd[h].identity_name)
  /\ task[h].pc \in Holding => Owns(h, task[h].self.identity_name)
  /\ task[h].pc \in {"init", "lock", "ready", "claim"} => ~Finalized(h)
  /\ \A i \in operator.todo :
       identity[i].node = h => ~Finalized(h) /\ ~Live(h, sub[h]["deployment"])

\* How far a deletion has come.
DeletionInv(h) ==
  /\ task[h].pc \in DeleteSteps => Terminating(h)
  /\ task[h].pc \in DeleteSteps \ {"deleting"} => hoprd[h].phase = "Deleting"
  /\ task[h].pc \in DeleteSteps \ {"deleting", "rm_ingress"} => sub[h]["ingress"] = 0
  /\ task[h].pc \in DeleteSteps \ {"deleting", "rm_ingress", "rm_service"} => sub[h]["service"] = 0
  /\ task[h].pc \in DeleteSteps \ {"deleting", "rm_ingress", "rm_service", "rm_deployment"}
       => sub[h]["deployment"] = 0
  /\ task[h].pc \in {"unlock", "uncount", "notify", "unfinalize"}
       => \A i \in Identities : identity[i].node # h

HolderInv == \A h \in Hoprds : ObjectInv(h) /\ OwnerInv(h) /\ DeletionInv(h)

-----------------------------------------------------------------------------
(***************************************************************************)
(* The abstract specification that the operator implements.                *)
(***************************************************************************)

Holder == [i \in Identities |-> identity[i].node]

User == [h \in Hoprds |-> IF Live(h, sub[h]["deployment"]) THEN mount[h] ELSE NoName]

Leases == INSTANCE IdentityLease WITH holder <- Holder, user <- User

\* The status of the identities is a lease: each is given to one node at a time, a Deployment is created
\* only with the identity its node has been given, and an identity is taken back, by unlock or by
\* sync_identities, only when no Deployment of an existing node mounts it.
LeaseSpec == Leases!Spec
=============================================================================
