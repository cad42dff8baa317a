------------------------------ MODULE PoolLife ------------------------------
(***************************************************************************)
(* The life of an IdentityPool and of its identities, and how the nodes    *)
(* that lock the identities run into it (identity_pool_resource.rs,        *)
(* identity_hoprd_resource.rs, their controllers and helpers, and          *)
(* context_data.rs).  IdentityLock has a fixed set of identities and cuts  *)
(* the reconciliation of a Hoprd into its calls; here pool and identities  *)
(* come and go, and of a Hoprd only its steps on an identity are kept.     *)
(*                                                                         *)
(* Each object has one task, cut where another actor can see the           *)
(* difference: at its writes, and at the reads it decides on.  A section   *)
(* under the write lock of ContextData.state that makes one write is one   *)
(* action.  A failure the code unwraps is a crash before the call.         *)
(***************************************************************************)
EXTENDS Integers, FiniteSets

CONSTANTS
  Identities,   \* names of the identities of the pool
  Hoprds,       \* names of the nodes; none is the name of an identity
  NoNode,       \* no node: Option::None
  Funding,      \* whether a new pool asks for funding: the values to try
  Lossy,        \* the API calls that may fail
  MaxPools,     \* how often the pool is created
  MaxCreations, \* how often each identity is created
  MaxTrouble    \* how many edits, crashes and failed calls there are in all

ASSUME NamesAssumption ==
  /\ NoNode \notin Hoprds /\ Identities \cap Hoprds = {} /\ "pool" \notin Identities
  /\ IsFiniteSet(Identities)

ASSUME FundingAssumption == Funding \subseteq BOOLEAN

ASSUME BoundsAssumption == MaxPools \in Nat /\ MaxCreations \in Nat /\ MaxTrouble \in Nat

VARIABLES
  pool,      \* the IdentityPool object
  helper,    \* the subresources of the pool: uid of their owner, 0 if absent
  cache,     \* the pool in ContextData.state
  ptask,     \* the reconciliation of the pool
  identity,  \* the IdentityHoprd objects
  pvc,       \* the volume claim of each identity
  itask,     \* the reconciliation of each identity
  node,      \* how far each Hoprd has come with its identity
  operator,  \* the operator process
  odd,       \* history: the objects (identities, "pool") that met a race the README lists
  trouble    \* how many edits and how many faults (crashes, failed calls) there have been

vars == <<pool, helper, cache, ptask, identity, pvc, itask, node, operator, odd, trouble>>

-----------------------------------------------------------------------------
\* phase "None" stands for an object without status.
NoStatus == [observed |-> 0, phase |-> "None", size |-> 0, locked |-> 0]

NoPool(uid) == [life |-> "absent", uid |-> uid, gen |-> 0, last |-> "same", funding |-> FALSE,
                status |-> NoStatus]

Gone(uid) == [life |-> "absent", uid |-> uid, gen |-> 0, observed |-> 0, phase |-> "None",
              node |-> NoNode, pool |-> "own", last |-> "same", owner |-> 0]

NoVolume == [owner |-> 0, dying |-> FALSE]

Uncached == [present |-> FALSE, gen |-> 0, status |-> NoStatus]

Cached(p) == [present |-> TRUE, gen |-> p.gen, status |-> p.status]

Listed == IF pool.life = "absent" THEN Uncached ELSE Cached(pool)

\* The fields of the reconciled object that its handlers read after an await.
PoolSnapshot(p) == [uid |-> p.uid, gen |-> p.gen, funding |-> p.funding, status |-> p.status]

Snapshot(o) == [uid |-> o.uid, gen |-> o.gen, pool |-> o.pool]

PoolIdle == [pc |-> "idle", self |-> PoolSnapshot(NoPool(0))]

Idle == [pc |-> "idle", self |-> Snapshot(Gone(0))]

\* gen and own are what the node knows of its identity: generation, and that its spec names the pool.
Out == [pc |-> "absent", id |-> NoNode, gen |-> 0, own |-> TRUE]

Fetched(n, o) == [n EXCEPT !.gen = o.gen, !.own = (o.pool = "own")]

PoolExists == pool.life # "absent"

Exists(i) == identity[i].life # "absent"

Terminating(i) == identity[i].life = "terminating"

Mounted(i) == \E h \in Hoprds : node[h].pc = "in" /\ node[h].id = i

\* The write lock is taken over several calls only by lock_identity.
Unlocked == \A h \in Hoprds : node[h].pc \notin {"claim", "count"}

Init ==
  /\ pool = NoPool(0)
  /\ helper = [k \in {"monitor", "rbac", "cron"} |-> 0]
  /\ cache = Uncached
  /\ ptask = PoolIdle
  /\ identity = [i \in Identities |-> Gone(0)]
  /\ pvc = [i \in Identities |-> NoVolume]
  /\ itask = [i \in Identities |-> Idle]
  /\ node = [h \in Hoprds |-> Out]
  /\ operator = [pc |-> "up", todo |-> {}]
  /\ odd = {}
  /\ trouble = [edits |-> 0, faults |-> 0]

-----------------------------------------------------------------------------
(***************************************************************************)
(* The users and the cluster around the operator.                          *)
(***************************************************************************)

Spend(kind) ==
  /\ trouble.edits + trouble.faults < MaxTrouble
  /\ trouble' = [trouble EXCEPT ![kind] = @ + 1]

UserCreatePool ==
  /\ ~PoolExists
  /\ pool.uid < MaxPools
  /\ \E f \in Funding :
       pool' = [NoPool(pool.uid + 1) EXCEPT !.life = "new", !.gen = 1, !.funding = f]
  /\ odd' = IF ptask.pc = "idle" /\ helper["cron"] = 0 /\ ~cache.present THEN odd ELSE odd \cup {"pool"}
  /\ UNCHANGED <<helper, cache, ptask, identity, pvc, itask, node, operator, trouble>>

\* The last-applied annotation has the immutable fields of the spec, others, or is missing.  It is first
\* looked at after an edit, so that it is chosen then.
UserEditPool ==
  /\ pool.life \in {"new", "finalized"}
  /\ Spend("edits")
  /\ \E f \in BOOLEAN, l \in {"same", "differs", "none"} :
       pool' = [pool EXCEPT !.gen = @ + 1, !.last = l, !.funding = f]
  /\ UNCHANGED <<helper, cache, ptask, identity, pvc, itask, node, operator, odd>>

\* Kubernetes removes an object at once unless a finalizer holds it.
UserDeletePool ==
  /\ \/ pool.life = "new" /\ pool' = NoPool(pool.uid)
     \/ pool.life = "finalized" /\ pool' = [pool EXCEPT !.life = "terminating"]
  /\ UNCHANGED <<helper, cache, ptask, identity, pvc, itask, node, operator, odd, trouble>>

\* A task works on an object with the name of identity i.
Busy(i) == itask[i].pc # "idle" \/ \E h \in Hoprds : node[h].id = i /\ node[h].pc \in {"claim", "release"}

UserCreate(i) ==
  /\ ~Exists(i)
  /\ identity[i].uid < MaxCreations
  /\ identity' = [identity EXCEPT ![i] = [Gone(@.uid + 1) EXCEPT !.life = "new", !.gen = 1]]
  /\ odd' = IF Busy(i) THEN odd \cup {i} ELSE odd
  /\ UNCHANGED <<pool, helper, cache, ptask, pvc, itask, node, operator, trouble>>

\* The spec may name another pool, which does not exist; the annotation agrees with it on that or not.
UserEdit(i) ==
  /\ identity[i].life \in {"new", "finalized"}
  /\ Spend("edits")
  /\ \E p \in {"own", "other"}, l \in {"same", "differs"} :
       identity' = [identity EXCEPT ![i] = [@ EXCEPT !.gen = identity[i].gen + 1, !.pool = p, !.last = l]]
  /\ UNCHANGED <<pool, helper, cache, ptask, pvc, itask, node, operator, odd>>

Marked(i) == [identity EXCEPT ![i] = IF @.life = "new" THEN Gone(@.uid) ELSE [@ EXCEPT !.life = "terminating"]]

UserDelete(i) ==
  /\ identity[i].life \in {"new", "finalized"}
  /\ identity' = Marked(i)
  /\ UNCHANGED <<pool, helper, cache, ptask, pvc, itask, node, operator, odd, trouble>>

\* The owner of identity i is gone, so that the garbage collector deletes the identity.
CollectIdentity(i) ==
  /\ identity[i].life \in {"new", "finalized"}
  /\ identity[i].owner # 0
  /\ ~(PoolExists /\ pool.uid = identity[i].owner)
  /\ identity' = Marked(i)
  /\ UNCHANGED <<pool, helper, cache, ptask, pvc, itask, node, operator, odd, trouble>>

\* A claim marked for deletion, or whose owner is gone, goes once nobody mounts it.
CollectVolume(i) ==
  /\ pvc[i].owner # 0
  /\ pvc[i].dying \/ ~(Exists(i) /\ identity[i].uid = pvc[i].owner)
  /\ ~Mounted(i)
  /\ pvc' = [pvc EXCEPT ![i] = NoVolume]
  /\ UNCHANGED <<pool, helper, cache, ptask, identity, itask, node, operator, odd, trouble>>

CollectHelpers ==
  /\ \E k \in DOMAIN helper :
       /\ helper[k] # 0 /\ ~(PoolExists /\ pool.uid = helper[k])
       /\ helper' = [helper EXCEPT ![k] = 0]
  /\ UNCHANGED <<pool, cache, ptask, identity, pvc, itask, node, operator, odd, trouble>>

-----------------------------------------------------------------------------
(***************************************************************************)
(* What the handlers do to the API server and to the cached pool.          *)
(***************************************************************************)

\* The call fails.
Lose(call) == call \in Lossy /\ Spend("faults")

\* Nodes lose their task when the process dies: a node without finalizer is created anew, one that was
\* being created waits for its deletion, one in phase Deleting is left alone ever after.
Crashed(n) ==
  CASE n.pc \in {"claim", "count", "locked"}    -> [n EXCEPT !.pc = "wait"]
    [] n.pc = "held"                            -> [n EXCEPT !.pc = "stuck"]
    [] n.pc \in {"get", "release", "uncount"}   -> [n EXCEPT !.pc = "wedged"]
    [] OTHER                                    -> n

Die ==
  /\ Spend("faults")
  /\ operator' = [pc |-> "down", todo |-> {}]
  /\ cache' = Uncached
  /\ ptask' = PoolIdle
  /\ itask' = [i \in Identities |-> Idle]
  /\ node' = [h \in Hoprds |-> Crashed(node[h])]
  /\ UNCHANGED <<pool, helper, identity, pvc, odd>>

Size(op) == CASE op = "IdentityCreated" -> 1 [] op = "IdentityDeleted" -> -1 [] OTHER -> 0

Locks(op) == CASE op = "Locked" -> 1 [] op = "Unlocked" -> -1 [] OTHER -> 0

Counting == {"IdentityCreated", "IdentityDeleted", "Locked", "Unlocked"}

\* The status that IdentityPool::update_status writes for an object with status s and generation gen.
update_status(s, gen, op) ==
  LET size == s.size + Size(op)
      locked == s.locked + Locks(op)
  IN [observed |-> gen, size |-> size, locked |-> locked,
      phase |-> IF op \notin Counting THEN op ELSE IF size >= locked THEN "Ready" ELSE "OutOfSync"]

PoolStep(next, self) == ptask' = IF next = "idle" THEN PoolIdle ELSE [pc |-> next, self |-> self]

\* The pool's own task writes from its snapshot; an error is only logged and leaves the snapshot.
UpdateOwnStatus(op, next) ==
  LET s == update_status(ptask.self.status, ptask.self.gen, op) IN
  \/ /\ PoolExists
     /\ pool' = [pool EXCEPT !.status = s]
     /\ PoolStep(next, [ptask.self EXCEPT !.status = s])
     /\ UNCHANGED trouble
  \/ ~PoolExists /\ PoolStep(next, ptask.self) /\ UNCHANGED <<pool, trouble>>
  \/ PoolExists /\ Lose("status") /\ PoolStep(next, ptask.self) /\ UNCHANGED pool

\* Under the write lock the cached pool is written; when the patch fails nothing changes.
CountPool(op) ==
  LET s == update_status(cache.status, cache.gen, op) IN
  \/ PoolExists /\ pool' = [pool EXCEPT !.status = s] /\ cache' = [cache EXCEPT !.status = s] /\ UNCHANGED trouble
  \/ ~PoolExists /\ UNCHANGED <<pool, cache, trouble>>
  \/ PoolExists /\ Lose("count") /\ UNCHANGED <<pool, cache>>

\* IdentityHoprd::update_phase, by name: the object may be gone, or another one.
Phased(i, phase, n, gen) ==
  [identity EXCEPT ![i] = [@ EXCEPT !.phase = phase, !.node = n, !.observed = gen]]

-----------------------------------------------------------------------------
(***************************************************************************)
(* identity_pool_controller and IdentityPool.                              *)
(***************************************************************************)

pool_action(p) ==
  CASE p.life = "terminating"          -> "Delete"
    [] p.life = "new"                  -> "Create"
    [] p.status.phase = "None"         -> "Panic"   \* status.unwrap() of a pool without status
    [] p.status.phase = "OutOfSync"    -> "Sync"
    [] OTHER -> IF p.status.observed < p.gen THEN "Modify" ELSE "NoOp"

\* changed_inmutable_fields, of an annotation that can be parsed.
pool_rejected(p) == p.last = "differs"

\* The first step of IdentityPool::modify; without the annotation, and in other phases, it only logs.
pool_modify(p) ==
  CASE p.status.phase = "Ready" /\ pool_rejected(p) -> "reject"
    [] p.status.phase = "Ready" /\ p.last = "same"  -> "cron"
    [] p.status.phase = "Failed"                    -> "recover"
    [] OTHER                                        -> "idle"

\* IdentityPool::delete goes on only when the status counts no identity and no lock.
pool_delete(p) ==
  CASE p.status.phase = "None"                          -> "panic"
    [] p.status.size = 0 /\ p.status.locked = 0         -> "rm_monitor"
    [] OTHER                                            -> "idle"

pool_step(p) ==
  CASE pool_action(p) = "Create" -> "wallet"
    [] pool_action(p) = "Modify" -> pool_modify(p)
    [] pool_action(p) = "Delete" -> pool_delete(p)
    [] pool_action(p) = "Panic"  -> "panic"
    [] OTHER                     -> "idle"

pool_reconciler ==
  /\ operator.pc = "up"
  /\ ptask.pc = "idle"
  /\ PoolExists
  /\ \/ /\ pool_step(pool) \notin {"idle", "panic"}
        /\ ptask' = [pc |-> pool_step(pool), self |-> PoolSnapshot(pool)]
        /\ UNCHANGED <<pool, helper, cache, identity, pvc, itask, node, operator, odd, trouble>>
     \/ pool_step(pool) = "panic" /\ Die

PoolGoto(pc) == ptask' = [ptask EXCEPT !.pc = pc]

\* The secret with its key is found or the reconciliation ends.
check_wallet ==
  /\ ptask.pc = "wallet"
  /\ \/ PoolGoto("finalizer") /\ UNCHANGED trouble
     \/ Lose("wallet") /\ ptask' = PoolIdle
  /\ UNCHANGED <<pool, helper, cache, identity, pvc, itask, node, operator, odd>>

\* add_finalizer only logs an error.
add_pool_finalizer ==
  /\ ptask.pc = "finalizer"
  /\ \/ /\ pool' = IF pool.life = "new" THEN [pool EXCEPT !.life = "finalized"] ELSE pool
        /\ UNCHANGED trouble
     \/ Lose("add_finalizer") /\ UNCHANGED pool
  /\ PoolGoto("monitor")
  /\ UNCHANGED <<helper, cache, identity, pvc, itask, node, operator, odd>>

\* A POST whose error ends the reconciliation; the object, or a part of the three of create_rbac, may be
\* there all the same.
create_helper(k, next) ==
  /\ ptask.pc = k
  /\ \/ /\ helper[k] = 0
        /\ helper' = [helper EXCEPT ![k] = ptask.self.uid]
        /\ PoolGoto(next)
        /\ UNCHANGED trouble
     \/ helper[k] # 0 /\ ptask' = PoolIdle /\ UNCHANGED <<helper, trouble>>
     \/ /\ helper[k] = 0 /\ Lose("helper")
        /\ helper' \in {helper, [helper EXCEPT ![k] = ptask.self.uid]}
        /\ ptask' = PoolIdle
  /\ UNCHANGED <<pool, cache, identity, pvc, itask, node, operator, odd>>

create_service_monitor == create_helper("monitor", "rbac")

create_rbac == create_helper("rbac", "create_cron")

\* create_cron_job unwraps its POST.
create_cron_job ==
  /\ ptask.pc = "create_cron"
  /\ \/ /\ ~ptask.self.funding \/ helper["cron"] = 0
        /\ helper' = IF ptask.self.funding THEN [helper EXCEPT !["cron"] = ptask.self.uid] ELSE helper
        /\ PoolGoto("initialized")
        /\ UNCHANGED <<pool, cache, identity, pvc, itask, node, operator, odd, trouble>>
     \/ ptask.self.funding /\ helper["cron"] # 0 /\ Die

pool_initialized ==
  /\ ptask.pc = "initialized"
  /\ UpdateOwnStatus("Initialized", "ready")
  /\ UNCHANGED <<helper, cache, identity, pvc, itask, node, operator, odd>>

pool_ready ==
  /\ ptask.pc = "ready"
  /\ UpdateOwnStatus("Ready", "add")
  /\ UNCHANGED <<helper, cache, identity, pvc, itask, node, operator, odd>>

\* The pool is cached as the task knows it, after it has become Ready for everybody else.
add_identity_pool ==
  /\ ptask.pc = "add"
  /\ Unlocked
  /\ cache' = Cached(ptask.self)
  /\ ptask' = PoolIdle
  /\ UNCHANGED <<pool, helper, identity, pvc, itask, node, operator, odd, trouble>>

\* Mutant: the cron job of a pool that no longer wants funding stays.
modify_cron_job_keep ==
  /\ ptask.pc = "cron"
  /\ helper' = [helper EXCEPT !["cron"] = IF ptask.self.funding /\ @ = 0 THEN ptask.self.uid ELSE @]
  /\ PoolGoto("applied")
  /\ UNCHANGED <<pool, cache, identity, pvc, itask, node, operator, odd, trouble>>

\* apply_modification: the cron job comes, stays or goes with spec.funding.
modify_cron_job ==
  /\ ptask.pc = "cron"
  /\ \/ /\ helper' = [helper EXCEPT !["cron"] = IF ~ptask.self.funding THEN 0
                                                ELSE IF @ = 0 THEN ptask.self.uid ELSE @]
        /\ PoolGoto("applied")
        /\ UNCHANGED trouble
     \/ Lose("get_cron") /\ ptask' = PoolIdle /\ UNCHANGED helper
  /\ UNCHANGED <<pool, cache, identity, pvc, itask, node, operator, odd>>

\* The end of a modification; neither takes the write lock nor touches the cache.  A pool that recovers
\* from Failed becomes Ready without applying its spec.
modify_pool ==
  /\ \/ ptask.pc = "applied" /\ UpdateOwnStatus("Ready", "idle") /\ UNCHANGED odd
     \/ ptask.pc = "reject" /\ UpdateOwnStatus("Failed", "idle") /\ UNCHANGED odd
     \/ ptask.pc = "recover" /\ UpdateOwnStatus("Ready", "idle") /\ odd' = odd \cup {"pool"}
  /\ UNCHANGED <<helper, cache, identity, pvc, itask, node, operator>>

\* The helper goes, if it is the pool's to delete, or the reconciliation ends.
delete_helper(k, doomed, next) ==
  /\ \/ helper' = [helper EXCEPT ![k] = IF doomed THEN 0 ELSE @] /\ PoolGoto(next) /\ UNCHANGED trouble
     \/ Lose("helper") /\ ptask' = PoolIdle /\ UNCHANGED helper
  /\ UNCHANGED <<pool, cache, identity, pvc, itask, node, operator, odd>>

delete_service_monitor == ptask.pc = "rm_monitor" /\ delete_helper("monitor", TRUE, "rm_rbac")

\* Name and namespace are handed over in the wrong order, so that nothing is found.
delete_rbac == ptask.pc = "rm_rbac" /\ delete_helper("rbac", FALSE, "rm_cron")

delete_cron_job == ptask.pc = "rm_cron" /\ delete_helper("cron", ptask.self.funding, "unfinalize")

delete_pool_finalizer ==
  /\ ptask.pc = "unfinalize"
  /\ \/ /\ pool' = IF pool.life = "terminating" THEN NoPool(pool.uid) ELSE pool
        /\ PoolGoto("remove")
        /\ UNCHANGED trouble
     \/ Lose("delete_finalizer") /\ ptask' = PoolIdle /\ UNCHANGED pool
  /\ UNCHANGED <<helper, cache, identity, pvc, itask, node, operator, odd>>

remove_identity_pool ==
  /\ ptask.pc = "remove"
  /\ Unlocked
  /\ cache' = Uncached
  /\ ptask' = PoolIdle
  /\ UNCHANGED <<pool, helper, identity, pvc, itask, node, operator, odd, trouble>>

-----------------------------------------------------------------------------
(***************************************************************************)
(* identity_hoprd_controller and IdentityHoprd.                            *)
(***************************************************************************)

determine_action(o) ==
  CASE o.life = "terminating"   -> "Delete"
    [] o.life = "new"           -> "Create"
    [] o.observed < o.gen       -> "Modify"
    [] OTHER                    -> "NoOp"

\* changed_inmutable_fields, or an annotation that is missing.
rejected(o) == o.last = "differs"

modify(o) ==
  CASE o.phase \in {"Ready", "InUse"} /\ rejected(o) -> "reject"
    [] o.phase = "Failed"                           -> "recover"
    [] OTHER                                        -> "idle"

\* Mutant: the phase is not looked at.
delete_any(o) == IF o.phase = "None" THEN "bare" ELSE "rm_pvc"

\* Mutant: an identity that has not become Ready, or has failed, is not deleted.
delete_ready(o) ==
  CASE o.phase = "None"  -> "bare"
    [] o.phase = "Ready" -> "rm_pvc"
    [] OTHER             -> "idle"

delete(o) ==
  CASE o.phase = "None"  -> "bare"
    [] o.phase = "InUse" -> "idle"
    [] OTHER             -> "rm_pvc"

first_step(o) ==
  CASE determine_action(o) = "Create" -> "check"
    [] determine_action(o) = "Modify" -> modify(o)
    [] determine_action(o) = "Delete" -> delete(o)
    [] OTHER                          -> "idle"

reconciler(i) ==
  /\ operator.pc = "up"
  /\ itask[i].pc = "idle"
  /\ Exists(i)
  /\ first_step(identity[i]) # "idle"
  /\ itask' = [itask EXCEPT ![i] = [pc |-> first_step(identity[i]), self |-> Snapshot(identity[i])]]
  /\ UNCHANGED <<pool, helper, cache, ptask, identity, pvc, node, operator, odd, trouble>>

At(i, pc) == itask[i].pc = pc

Goto(i, pc) == itask' = [itask EXCEPT ![i].pc = pc]

End(i) == itask' = [itask EXCEPT ![i] = Idle]

\* The pool that the spec of the snapshot names exists.
PoolFound(i) == PoolExists /\ itask[i].self.pool = "own"

\* Mutant: the pool is looked at with the wrong phase.
check_initialized(i) ==
  /\ At(i, "check")
  /\ LET ok == PoolFound(i) /\ pool.status.phase = "Initialized" /\ pvc[i] = NoVolume IN
       (ok /\ Goto(i, "finalizer")) \/ (~ok /\ End(i))
  /\ UNCHANGED <<pool, helper, cache, ptask, identity, pvc, node, operator, odd, trouble>>

\* check_identity_pool and check_pvc: the pool is Ready and no claim has the name of the identity.
check(i) ==
  /\ At(i, "check")
  /\ LET ok == PoolFound(i) /\ pool.status.phase = "Ready" /\ pvc[i] = NoVolume IN
       (ok /\ Goto(i, "finalizer")) \/ (~ok /\ End(i))
  /\ UNCHANGED <<pool, helper, cache, ptask, identity, pvc, node, operator, odd, trouble>>

\* add_finalizer only logs an error.
add_finalizer(i) ==
  /\ At(i, "finalizer")
  /\ \/ /\ identity' = [identity EXCEPT ![i].life = IF @ = "new" THEN "finalized" ELSE @]
        /\ UNCHANGED <<odd, trouble>>
     \/ Lose("add_finalizer") /\ odd' = odd \cup {i} /\ UNCHANGED identity
  /\ Goto(i, "owner")
  /\ UNCHANGED <<pool, helper, cache, ptask, pvc, node, operator>>

\* The pool is fetched and unwrapped; an error of the patch is dropped.
add_owner_reference(i) ==
  /\ At(i, "owner")
  /\ \/ /\ PoolFound(i)
        /\ \/ /\ identity' = IF Exists(i) THEN [identity EXCEPT ![i].owner = pool.uid] ELSE identity
              /\ UNCHANGED trouble
           \/ Lose("owner") /\ UNCHANGED identity
        /\ Goto(i, "pvc")
        /\ UNCHANGED <<pool, helper, cache, ptask, pvc, node, operator, odd>>
     \/ ~PoolFound(i) /\ Die

\* Mutant: an error of the POST is only logged.
create_pvc_logged(i) ==
  /\ At(i, "pvc")
  /\ \/ /\ pvc' = IF pvc[i] = NoVolume THEN [pvc EXCEPT ![i].owner = itask[i].self.uid] ELSE pvc
        /\ UNCHANGED trouble
     \/ Lose("pvc") /\ UNCHANGED pvc
  /\ Goto(i, "init")
  /\ UNCHANGED <<pool, helper, cache, ptask, identity, node, operator, odd>>

create_pvc(i) ==
  /\ At(i, "pvc")
  /\ \/ /\ pvc[i] = NoVolume
        /\ pvc' = [pvc EXCEPT ![i].owner = itask[i].self.uid]
        /\ Goto(i, "init")
        /\ UNCHANGED trouble
     \/ pvc[i] # NoVolume /\ End(i) /\ UNCHANGED <<pvc, trouble>>
     \/ Lose("pvc") /\ End(i) /\ UNCHANGED pvc
  /\ UNCHANGED <<pool, helper, cache, ptask, identity, node, operator, odd>>

\* update_phase(phase, None) and then `next`; its error ends the reconciliation.
UpdatePhase(i, phase, next) ==
  \/ /\ Exists(i)
     /\ identity' = Phased(i, phase, NoNode, itask[i].self.gen)
     /\ IF next = "idle" THEN End(i) ELSE Goto(i, next)
     /\ UNCHANGED trouble
  \/ ~Exists(i) /\ End(i) /\ UNCHANGED <<identity, trouble>>
  \/ Exists(i) /\ Lose("phase") /\ End(i) /\ UNCHANGED identity

create_initialized(i) ==
  /\ At(i, "init")
  /\ UpdatePhase(i, "Initialized", "count")
  /\ UNCHANGED <<pool, helper, cache, ptask, pvc, node, operator, odd>>

\* The identity is counted if the pool is cached by now; otherwise it stays Initialized.
count_created(i) ==
  /\ At(i, "count")
  /\ Unlocked
  /\ \/ /\ cache.present
        /\ CountPool("IdentityCreated")
        /\ Goto(i, "ready")
        /\ UNCHANGED <<helper, ptask, identity, pvc, node, operator, odd>>
     \/ /\ ~cache.present /\ PoolExists
        /\ End(i)
        /\ odd' = odd \cup {i}
        /\ UNCHANGED <<pool, helper, cache, ptask, identity, pvc, node, operator, trouble>>
     \/ ~cache.present /\ ~PoolExists /\ Die

create_ready(i) ==
  /\ At(i, "ready")
  /\ \/ /\ PoolExists
        /\ UpdatePhase(i, "Ready", "idle")
        /\ UNCHANGED <<pool, helper, cache, ptask, pvc, node, operator, odd>>
     \/ ~PoolExists /\ Die

\* IdentityHoprd::modify writes Failed, or Ready from Failed, and no node whoever holds the identity.
modify_identity(i) ==
  /\ \/ At(i, "reject") /\ UpdatePhase(i, "Failed", "idle")
     \/ At(i, "recover") /\ UpdatePhase(i, "Ready", "idle")
  /\ odd' = IF identity[i].phase = "InUse" THEN odd \cup {i} ELSE odd
  /\ UNCHANGED <<pool, helper, cache, ptask, pvc, node, operator>>

\* The claim is deleted; update_phase(Deleting) before it writes nothing.
delete_pvc(i) ==
  /\ At(i, "rm_pvc")
  /\ \/ /\ pvc' = IF pvc[i] = NoVolume THEN pvc ELSE [pvc EXCEPT ![i].dying = TRUE]
        /\ Goto(i, "await_pvc")
        /\ UNCHANGED trouble
     \/ Lose("rm_pvc") /\ End(i) /\ UNCHANGED pvc
  /\ UNCHANGED <<pool, helper, cache, ptask, identity, node, operator, odd>>

\* Mutant: the deletion of the claim is not awaited.
count_deleted_early(i) ==
  /\ At(i, "await_pvc")
  /\ Unlocked
  /\ \/ cache.present /\ itask[i].self.pool = "own" /\ CountPool("IdentityDeleted")
     \/ ~(cache.present /\ itask[i].self.pool = "own") /\ UNCHANGED <<pool, cache, trouble>>
  /\ Goto(i, "unfinalize")
  /\ UNCHANGED <<helper, ptask, identity, pvc, node, operator, odd>>

\* Mutant: the pool goes on counting the identity.
count_deleted_never(i) ==
  /\ At(i, "await_pvc")
  /\ pvc[i] = NoVolume
  /\ Goto(i, "unfinalize")
  /\ UNCHANGED <<pool, helper, cache, ptask, identity, pvc, node, operator, odd, trouble>>

\* Once the claim is gone, the pool counts one identity less, if it is cached.
count_deleted(i) ==
  /\ At(i, "await_pvc")
  /\ pvc[i] = NoVolume
  /\ Unlocked
  /\ \/ cache.present /\ itask[i].self.pool = "own" /\ CountPool("IdentityDeleted")
     \/ ~(cache.present /\ itask[i].self.pool = "own") /\ UNCHANGED <<pool, cache, trouble>>
  /\ Goto(i, "unfinalize")
  /\ UNCHANGED <<helper, ptask, identity, pvc, node, operator, odd>>

\* The pool is fetched for its event and unwrapped, and the finalizer goes.
delete_finalizer(i) ==
  /\ At(i, "unfinalize") \/ At(i, "bare")
  /\ \/ /\ At(i, "bare") \/ PoolFound(i)
        /\ \/ identity' = [identity EXCEPT ![i] = Gone(@.uid)] /\ UNCHANGED trouble
           \/ Lose("delete_finalizer") /\ UNCHANGED identity
        /\ End(i)
        /\ UNCHANGED <<pool, helper, cache, ptask, pvc, node, operator, odd>>
     \/ At(i, "unfinalize") /\ ~PoolFound(i) /\ Die

-----------------------------------------------------------------------------
(***************************************************************************)
(* The steps of a Hoprd on its identity.                                   *)
(***************************************************************************)

NodeGoto(h, pc) == node' = [node EXCEPT ![h].pc = pc]

UserCreateNode(h) ==
  /\ node[h].pc = "absent"
  /\ \E i \in Identities : node' = [node EXCEPT ![h] = [Out EXCEPT !.pc = "wait", !.id = i]]
  /\ UNCHANGED <<pool, helper, cache, ptask, identity, pvc, itask, operator, odd, trouble>>

\* Without its finalizer a node goes at once, and add_finalizer only logs that it found none.  Nothing reads
\* the node between lock_identity and add_finalizer, so that "locked" stands for every step in between; what
\* its task still creates has no owner and is collected, and a panic of it is a Crash.  From then on the
\* node stays for delete_deployment, which begins when its task is over.
UserDeleteNode(h) ==
  /\ node[h].pc \in {"wait", "locked"}
  /\ node' = [node EXCEPT ![h] = Out]
  /\ UNCHANGED <<pool, helper, cache, ptask, identity, pvc, itask, operator, odd, trouble>>

\* lock_identity takes the write lock and get_ready_identity lists the identities of the cached pool:
\* those whose owner it is, deleted or not.  Without a Ready identity the lock is given back at once.
lock_identity(h) ==
  /\ operator.pc = "up"
  /\ node[h].pc = "wait"
  /\ Unlocked
  /\ cache.present
  /\ LET i == node[h].id IN
       /\ Exists(i) /\ identity[i].owner # 0 /\ identity[i].phase = "Ready"
       /\ node' = [node EXCEPT ![h] = [Fetched(@, identity[i]) EXCEPT !.pc = "claim"]]
  /\ UNCHANGED <<pool, helper, cache, ptask, identity, pvc, itask, operator, odd, trouble>>

\* update_phase(InUse, hoprd), for an identity that may be terminating by now.
claim_identity(h) ==
  /\ node[h].pc = "claim"
  /\ LET i == node[h].id IN
     \/ /\ Exists(i)
        /\ identity' = Phased(i, "InUse", h, node[h].gen)
        /\ odd' = IF Terminating(i) THEN odd \cup {i} ELSE odd
        /\ NodeGoto(h, "count")
        /\ UNCHANGED trouble
     \/ ~Exists(i) /\ NodeGoto(h, "wait") /\ UNCHANGED <<identity, odd, trouble>>
     \/ Lose("phase") /\ NodeGoto(h, "wait") /\ UNCHANGED <<identity, odd>>
  /\ UNCHANGED <<pool, helper, cache, ptask, pvc, itask, operator>>

count_lock(h) ==
  /\ node[h].pc = "count"
  /\ CountPool("Locked")
  /\ NodeGoto(h, "locked")
  /\ UNCHANGED <<helper, ptask, identity, pvc, itask, operator, odd>>

\* get_identity_pool fetches the pool that the spec of the identity names and unwraps it.
NodePoolFound(h) == PoolExists /\ node[h].own

\* The pool is fetched for its event, and the node gets its finalizer.
finalize_node(h) ==
  /\ node[h].pc = "locked"
  /\ \/ /\ NodePoolFound(h)
        /\ NodeGoto(h, "held")
        /\ UNCHANGED <<pool, helper, cache, ptask, identity, pvc, itask, operator, odd, trouble>>
     \/ ~NodePoolFound(h) /\ Die

\* The pool is fetched again; the Deployment is the last of the subresources.
create_deployment(h) ==
  /\ node[h].pc = "held"
  /\ \/ /\ NodePoolFound(h)
        /\ (NodeGoto(h, "in") /\ UNCHANGED trouble) \/ (Lose("create") /\ NodeGoto(h, "stuck"))
        /\ UNCHANGED <<pool, helper, cache, ptask, identity, pvc, itask, operator, odd>>
     \/ ~NodePoolFound(h) /\ Die

\* Hoprd::delete up to the removal of the Deployment.
delete_deployment(h) ==
  /\ operator.pc = "up"
  /\ node[h].pc \in {"in", "stuck"}
  /\ NodeGoto(h, "get")
  /\ UNCHANGED <<pool, helper, cache, ptask, identity, pvc, itask, operator, odd, trouble>>

\* get_identity: an identity that is missing or not InUse is not unlocked; unlock unwraps its status.
get_identity(h) ==
  /\ node[h].pc = "get"
  /\ LET i == node[h].id IN
     \/ /\ ~Exists(i) \/ identity[i].phase # "None"
        /\ node' = [node EXCEPT ![h] = IF Exists(i) /\ identity[i].phase = "InUse"
                                      THEN [Fetched(@, identity[i]) EXCEPT !.pc = "release"] ELSE Out]
        /\ UNCHANGED <<pool, helper, cache, ptask, identity, pvc, itask, operator, odd, trouble>>
     \/ Exists(i) /\ identity[i].phase = "None" /\ Die

\* unlock: update_phase(Ready, None); its error leaves the node in phase Deleting.
release_identity(h) ==
  /\ node[h].pc = "release"
  /\ LET i == node[h].id IN
     \/ /\ Exists(i)
        /\ identity' = Phased(i, "Ready", NoNode, node[h].gen)
        /\ NodeGoto(h, "uncount")
        /\ UNCHANGED trouble
     \/ ~Exists(i) /\ NodeGoto(h, "wedged") /\ UNCHANGED <<identity, trouble>>
     \/ Lose("phase") /\ NodeGoto(h, "wedged") /\ UNCHANGED identity
  /\ UNCHANGED <<pool, helper, cache, ptask, pvc, itask, operator, odd>>

\* The cached pool is unwrapped, and the pool object fetched for its event.
count_unlock(h) ==
  /\ node[h].pc = "uncount"
  /\ Unlocked
  /\ \/ /\ cache.present /\ NodePoolFound(h)
        /\ CountPool("Unlocked")
        /\ node' = [node EXCEPT ![h] = Out]
        /\ UNCHANGED <<helper, ptask, identity, pvc, itask, operator, odd>>
     \/ ~(cache.present /\ NodePoolFound(h)) /\ Die

-----------------------------------------------------------------------------
(***************************************************************************)
(* The process: crash and start_controllers.                               *)
(***************************************************************************)

Crash == operator.pc # "down" /\ Die

Held == {i \in Identities : identity[i].node # NoNode}

\* ContextData::new; sync_identities lists the identities with a node and then the nodes.
start_controllers ==
  /\ operator.pc = "down"
  /\ cache' = Listed
  /\ operator' = [pc |-> "sync", todo |-> {i \in Held : node[identity[i].node].pc = "absent"}]
  /\ UNCHANGED <<pool, helper, ptask, identity, pvc, itask, node, odd, trouble>>

\* An identity whose node is gone is unlocked; without its pool the process dies after the first patch.
sync_identities(i) ==
  /\ operator.pc = "sync"
  /\ i \in operator.todo
  /\ identity' = Phased(i, "Ready", NoNode, identity[i].gen)
  /\ \/ /\ cache.present /\ PoolExists /\ identity[i].pool = "own"
        /\ operator' = [operator EXCEPT !.todo = @ \ {i}]
        /\ CountPool("Unlocked")
     \/ /\ ~(cache.present /\ PoolExists /\ identity[i].pool = "own")
        /\ Spend("faults")
        /\ operator' = [pc |-> "down", todo |-> {}]
        /\ cache' = Uncached
        /\ UNCHANGED pool
  /\ UNCHANGED <<helper, ptask, pvc, itask, node, odd>>

\* The status of the pool is repaired, but the pool is cached as it was listed.
sync_identity_pools ==
  /\ operator.pc = "sync"
  /\ operator.todo = {}
  /\ operator' = [operator EXCEPT !.pc = "up"]
  /\ cache' = Listed
  /\ LET own == {i \in Identities : Exists(i) /\ identity[i].pool = "own"}
         size == Cardinality(own)
         locked == Cardinality(own \cap Held)
         s == pool.status
     IN pool' = IF s.phase # "None" /\ (s.size # size \/ s.locked # locked)
                THEN [pool EXCEPT !.status = [s EXCEPT !.size = size, !.locked = locked, !.phase = "Ready"]]
                ELSE pool
  /\ UNCHANGED <<helper, ptask, identity, pvc, itask, node, odd, trouble>>

PoolNext ==
  \/ pool_reconciler \/ check_wallet \/ add_pool_finalizer
  \/ create_service_monitor \/ create_rbac \/ create_cron_job \/ pool_initialized \/ pool_ready \/ add_identity_pool
  \/ modify_cron_job \/ modify_pool
  \/ delete_service_monitor \/ delete_rbac \/ delete_cron_job \/ delete_pool_finalizer \/ remove_identity_pool

IdentityNext(i) ==
  \/ reconciler(i) \/ check(i) \/ add_finalizer(i) \/ add_owner_reference(i) \/ create_pvc(i)
  \/ create_initialized(i) \/ count_created(i) \/ create_ready(i) \/ modify_identity(i)
  \/ delete_pvc(i) \/ count_deleted(i) \/ delete_finalizer(i)

NodeNext(h) ==
  \/ lock_identity(h) \/ claim_identity(h) \/ count_lock(h) \/ finalize_node(h) \/ create_deployment(h)
  \/ get_identity(h) \/ release_identity(h) \/ count_unlock(h)

StartNext ==
  \/ start_controllers
  \/ \E i \in Identities : sync_identities(i)
  \/ sync_identity_pools

Next ==
  \/ UserCreatePool \/ UserEditPool \/ UserDeletePool \/ CollectHelpers
  \/ PoolNext
  \/ \E i \in Identities :
       \/ UserCreate(i) \/ UserEdit(i) \/ UserDelete(i) \/ CollectIdentity(i) \/ CollectVolume(i)
       \/ IdentityNext(i)
  \/ \E h \in Hoprds : UserCreateNode(h) \/ UserDeleteNode(h) \/ delete_deployment(h) \/ NodeNext(h)
  \/ Crash
  \/ StartNext

Spec == Init /\ [][Next]_vars

(***************************************************************************)
(* The controllers keep running, Kubernetes collects garbage, and a waiter *)
(* for the FIFO write lock is served (strong fairness).  Users owe nothing *)
(* and nothing has to fail or crash.                                       *)
(***************************************************************************)
FairSpec ==
  /\ Spec
  /\ SF_vars(PoolNext) /\ WF_vars(StartNext) /\ WF_vars(CollectHelpers)
  /\ \A i \in Identities : SF_vars(IdentityNext(i)) /\ WF_vars(CollectVolume(i)) /\ WF_vars(CollectIdentity(i))
  /\ \A h \in Hoprds : SF_vars(NodeNext(h))

-----------------------------------------------------------------------------
(***************************************************************************)
(* Properties.                                                             *)
(***************************************************************************)

Lives == {"absent", "new", "finalized", "terminating"}

Statuses == [observed : Nat, size : Int, locked : Int,
             phase : {"None", "Initialized", "Ready", "OutOfSync", "Failed"}]

Pools == [life : Lives, uid : Nat, gen : Nat, last : {"same", "differs", "none"}, funding : BOOLEAN,
          status : Statuses]

Objects == [life : Lives, uid : Nat, gen : Nat, observed : Nat, owner : Nat, node : Hoprds \cup {NoNode},
            phase : {"None", "Initialized", "Ready", "InUse", "Failed"},
            pool : {"own", "other"}, last : {"same", "differs"}]

PoolSteps == {"idle", "wallet", "finalizer", "monitor", "rbac", "create_cron", "initialized", "ready", "add",
              "cron", "applied", "reject", "recover", "rm_monitor", "rm_rbac", "rm_cron", "unfinalize", "remove"}

Steps == {"idle", "check", "finalizer", "owner", "pvc", "init", "count", "ready", "reject", "recover",
          "bare", "rm_pvc", "await_pvc", "unfinalize"}

NodeSteps == {"absent", "wait", "claim", "count", "locked", "held", "in", "stuck", "get", "release", "uncount",
              "wedged"}

\* Every variable has its type.
TypeOK ==
  /\ pool \in Pools
  /\ helper \in [{"monitor", "rbac", "cron"} -> Nat]
  /\ cache \in [present : BOOLEAN, gen : Nat, status : Statuses]
  /\ ptask \in [pc : PoolSteps, self : [uid : Nat, gen : Nat, funding : BOOLEAN, status : Statuses]]
  /\ identity \in [Identities -> Objects]
  /\ pvc \in [Identities -> [owner : Nat, dying : BOOLEAN]]
  /\ itask \in [Identities -> [pc : Steps, self : [uid : Nat, gen : Nat, pool : {"own", "other"}]]]
  /\ node \in [Hoprds -> [pc : NodeSteps, id : Identities \cup {NoNode}, gen : Nat, own : BOOLEAN]]
  /\ operator \in [pc : {"down", "sync", "up"}, todo : SUBSET Identities]
  /\ odd \subseteq Identities \cup {"pool"}

Faultless == trouble.faults = 0

\* An identity that lock_identity may hand out, or that is handed out, or that comes back from Failed with
\* the next edit, has a volume claim of its own that nobody is deleting, whatever call of
\* IdentityHoprd::create failed and wherever the operator crashed: no node is given an identity whose data
\* is missing, or is that of a predecessor of the same name.
ReadyHasVolume ==
  \A i \in Identities \ odd :
    identity[i].life = "finalized" /\ identity[i].phase \in {"Ready", "InUse", "Failed"}
      => pvc[i] = [owner |-> identity[i].uid, dying |-> FALSE]

\* The identity that a node is being deployed with is the node's and keeps its volume, although the user may
\* delete or edit it meanwhile: IdentityHoprd::delete turns an identity that is InUse away, but decides on
\* the phase it was reconciled with, which lock_identity may have overtaken.
UsedIsWhole ==
  \A h \in Hoprds : LET i == node[h].id IN
    node[h].pc \in {"locked", "held", "in"} /\ i \notin odd
      => /\ identity[i].life \in {"finalized", "terminating"}
         /\ identity[i].phase = "InUse" /\ identity[i].node = h
         /\ pvc[i] = [owner |-> identity[i].uid, dying |-> FALSE]

Counted == {i \in Identities :
              /\ identity[i].phase \in {"Ready", "InUse", "Failed"} \/ itask[i].pc = "ready"
              /\ ~(itask[i].pc = "unfinalize" /\ itask[i].self.pool = "own")}

\* The size in the cached pool, which every IdentityCreated, IdentityDeleted, Locked and Unlocked writes to
\* the pool, follows the identities through their creations and deletions, although the tasks of pool,
\* identities and nodes each write the whole status: no creation or deletion is lost or counted twice.
\* The pool object may fall behind, since the task of the pool writes the size of its snapshot (README).
SizeExact ==
  Faultless /\ odd \cap Identities = {} /\ cache.present /\ PoolExists
    => cache.status.size = Cardinality(Counted)

\* A pool that is Ready with its last generation observed has its funding cron job exactly if its spec
\* asks for one, however edits, deletions and the status writes of locks interleave with
\* apply_modification.  A fault may break this (README): the generation can be marked observed by a lock.
FundingFollows ==
  Faultless /\ "pool" \notin odd /\ pool.life = "finalized" /\ ptask.pc = "idle"
    /\ pool.status.phase = "Ready" /\ pool.status.observed = pool.gen
    => (helper["cron"] = pool.uid <=> pool.funding)

\* IdentityHoprd::delete lets an identity go only after its claim is gone from the cluster, and never while
\* a node holds it, in spite of its unfinished and repeated attempts.
RemovedWhole ==
  [][\A i \in Identities \ odd :
       Exists(i) /\ ~Exists(i)' /\ identity[i].phase # "None" =>
         pvc[i] = NoVolume /\ identity[i].phase # "InUse"]_vars

\* A deleted identity goes, whatever phase it was deleted in and wherever the operator crashed, unless a
\* node still holds or mounts it, or the pool that its spec names is missing (its task then panics).
DeletionCompletes ==
  \A i \in Identities :
    Terminating(i) ~> (\/ ~Exists(i) \/ identity[i].phase = "InUse" \/ Mounted(i)
                       \/ ~PoolExists \/ identity[i].pool = "other")

\* An identity of a pool that stays Ready becomes Ready itself, unless it is deleted, names another pool, or
\* meets a fault or one of the races that the README lists.
IdentityServed ==
  \A i \in Identities :
    (Exists(i) /\ Faultless /\ i \notin odd) ~>
      (\/ ~Exists(i) \/ Terminating(i) \/ identity[i].phase \in {"Ready", "InUse", "Failed"}
       \/ ~Faultless \/ i \in odd \/ identity[i].pool = "other" \/ pool.life # "finalized"
       \/ pool.status.phase # "Ready")
=============================================================================
