-------------------------- MODULE PoolLife_proofs --------------------------
(***************************************************************************)
(* Proofs about PoolLife, for any identities and nodes, any number of      *)
(* creations, and whatever calls fail and wherever the operator crashes:   *)
(* identity, volume claim, the task of the identity and the node that      *)
(* holds it stay together, except for the races that `odd' records.        *)
(* After them, what holds until the first fault: the cron job of the pool  *)
(* follows its spec, and the cached size follows the identities.           *)
(***************************************************************************)
EXTENDS PoolLife, TLAPS, FiniteSetTheorems

-----------------------------------------------------------------------------
(***************************************************************************)
(* The inductive invariant.                                                *)
(***************************************************************************)

\* The claim of identity i is its own, and nobody is deleting it.
Good(i) == pvc[i] = [owner |-> identity[i].uid, dying |-> FALSE]

\* The steps of a node at which it holds its identity.
Using == {"count", "locked", "held", "in", "stuck", "get", "release"}

\* The steps of a node that a crash interrupts.
Running == {"claim", "count", "locked", "held", "get", "release", "uncount"}

Finalized == {"finalized", "terminating"}

\* An object gets its phase after its finalizer, and its claim before its phase.
ObjectInv(i) ==
  LET o == identity[i] IN
  /\ o.life \in {"absent", "new"} => o.phase = "None"
  /\ o.phase = "InUse" <=> o.node # NoNode
  /\ o.life = "finalized" /\ o.phase # "None" => Good(i)
  /\ o.phase = "InUse" => Good(i)

\* What the task of the identity has found, or has done, still holds.
TaskInv(i) ==
  LET o == identity[i]  pc == itask[i].pc IN
  /\ pc # "idle" => itask[i].self.uid = o.uid
  /\ pc \in {"check", "finalizer"} => o.life \in {"new", "absent"}
  /\ pc \in {"owner", "pvc", "init"} => o.life \in Finalized \cup {"absent"} /\ o.phase = "None"
  /\ pc = "init" /\ o.life # "absent" => Good(i)
  /\ pc \in {"count", "ready"} => o.life \in Finalized /\ o.phase = "Initialized" /\ Good(i)
  /\ pc \in {"reject", "recover"} => o.life \in Finalized /\ o.phase \in {"Ready", "InUse", "Failed"}
  /\ pc = "bare" => o.life = "terminating" /\ o.phase = "None"
  /\ pc \in {"rm_pvc", "await_pvc", "unfinalize"} =>
       o.life = "terminating" /\ o.phase \in {"Initialized", "Ready", "Failed"}
  /\ pc = "unfinalize" => pvc[i] = NoVolume

\* A node holds its identity alone, and one that is about to claim it will not take it from another.
HolderInv(h) ==
  LET i == node[h].id  o == identity[i] IN
  i \notin odd =>
    /\ node[h].pc = "claim" => o.life = "absent" \/ o.phase \in {"Ready", "Failed"}
    /\ node[h].pc \in Using => o.life \in Finalized /\ o.phase = "InUse" /\ o.node = h

\* The write lock is held over several calls by one node at most.
LockInv == \A h, k \in Hoprds : node[h].pc \in {"claim", "count"} /\ node[k].pc \in {"claim", "count"} => h = k

\* Nothing runs in an operator that is down or starting, and sync_identities frees only what nobody holds.
UpInv ==
  /\ operator.pc # "up" => /\ \A i \in Identities : itask[i].pc = "idle"
                           /\ \A h \in Hoprds : node[h].pc \notin Running
  /\ operator.pc = "sync" =>
       \A i \in operator.todo \ odd :
         /\ identity[i].life \in Finalized /\ identity[i].phase = "InUse"
         /\ \A h \in Hoprds : node[h].id = i => node[h].pc \notin Using

WholeInv ==
  /\ \A i \in Identities \ odd : ObjectInv(i) /\ TaskInv(i)
  /\ \A h \in Hoprds : HolderInv(h)
  /\ LockInv
  /\ UpInv

-----------------------------------------------------------------------------
(***************************************************************************)
(* Types.                                                                  *)
(***************************************************************************)

Caches == [present : BOOLEAN, gen : Nat, status : Statuses]

PoolSelves == [uid : Nat, gen : Nat, funding : BOOLEAN, status : Statuses]

PoolTasks == [pc : PoolSteps, self : PoolSelves]

Claims == [owner : Nat, dying : BOOLEAN]

Selves == [uid : Nat, gen : Nat, pool : {"own", "other"}]

Tasks == [pc : Steps, self : Selves]

Nodes == [pc : NodeSteps, id : Identities \cup {NoNode}, gen : Nat, own : BOOLEAN]

Operators == [pc : {"down", "sync", "up"}, todo : SUBSET Identities]

PoolTyped == /\ pool \in Pools /\ helper \in [{"monitor", "rbac", "cron"} -> Nat]
             /\ cache \in Caches /\ ptask \in PoolTasks

IdentityTyped == /\ identity \in [Identities -> Objects] /\ pvc \in [Identities -> Claims]
                 /\ itask \in [Identities -> Tasks] /\ node \in [Hoprds -> Nodes]
                 /\ operator \in Operators /\ odd \subseteq Identities \cup {"pool"}
                 /\ \A h \in Hoprds : node[h].pc # "absent" => node[h].id \in Identities

Typed == PoolTyped /\ IdentityTyped

LEMMA TypeParts == Typed => TypeOK
BY DEF TypeOK, Typed, PoolTyped, IdentityTyped, Caches, PoolSelves, PoolTasks, Claims, Selves, Tasks, Nodes,
       Operators

LEMMA NoStatusTyped == NoStatus \in Statuses
BY DEF NoStatus, Statuses

LEMMA NoPoolTyped ==
  ASSUME NEW u \in Nat
  PROVE  NoPool(u) \in Pools
BY NoStatusTyped DEF NoPool, Pools, Lives

LEMMA UncachedTyped == Uncached \in Caches
BY NoStatusTyped DEF Uncached, Caches

LEMMA CachedTyped ==
  ASSUME NEW p, p.gen \in Nat, p.status \in Statuses
  PROVE  Cached(p) \in Caches
BY DEF Cached, Caches

LEMMA PoolSnapshotTyped ==
  ASSUME NEW p \in Pools, NEW pc \in PoolSteps
  PROVE  [pc |-> pc, self |-> PoolSnapshot(p)] \in PoolTasks
<1>1. PoolSnapshot(p) \in PoolSelves
  BY DEF PoolSnapshot, PoolSelves, Pools
<1> QED BY <1>1 DEF PoolTasks

LEMMA PoolIdleTyped == PoolIdle \in PoolTasks
<1>1. NoPool(0) \in Pools
  BY NoPoolTyped
<1> QED BY <1>1, PoolSnapshotTyped DEF PoolIdle, PoolSteps

LEMMA PoolGotoTyped ==
  ASSUME ptask \in PoolTasks, NEW pc \in PoolSteps, PoolGoto(pc)
  PROVE  ptask' \in PoolTasks
BY DEF PoolTasks, PoolGoto

LEMMA StatusTyped ==
  ASSUME NEW s \in Statuses, NEW gen \in Nat, NEW op \in Counting \cup {"Initialized", "Ready", "Failed"}
  PROVE  update_status(s, gen, op) \in Statuses
<1> DEFINE a == s.size + Size(op)
           b == s.locked + Locks(op)
           p == IF op \notin Counting THEN op ELSE IF a >= b THEN "Ready" ELSE "OutOfSync"
<1>1. Size(op) \in Int /\ Locks(op) \in Int
  BY DEF Size, Locks
<1>2. a \in Int /\ b \in Int
  BY <1>1 DEF Statuses
<1>3. p \in {"None", "Initialized", "Ready", "OutOfSync", "Failed"}
  BY DEF Counting
<1>4. update_status(s, gen, op) = [observed |-> gen, size |-> a, locked |-> b, phase |-> p]
  BY DEF update_status
<1> HIDE DEF a, b, p
<1> QED BY <1>2, <1>3, <1>4 DEF Statuses

\* A node that the crash leaves alone, or puts back to wait, or to wait for its deletion.
LEMMA CrashedFacts ==
  ASSUME NEW n \in Nodes
  PROVE  /\ Crashed(n) \in Nodes /\ Crashed(n).id = n.id /\ Crashed(n).pc \notin Running
         /\ Crashed(n).pc = "absent" <=> n.pc = "absent"
         /\ Crashed(n).pc \in Using => n.pc \in Using
<1>1. \A c \in {"wait", "stuck", "wedged"} :
        [n EXCEPT !.pc = c] \in Nodes /\ [n EXCEPT !.pc = c].pc = c /\ [n EXCEPT !.pc = c].id = n.id
  BY DEF Nodes, NodeSteps
<1> QED BY <1>1 DEF Crashed, Running, Using

LEMMA DieTyped == ASSUME Typed, Die PROVE Typed'
<1>1. cache' \in Caches /\ ptask' \in PoolTasks
  BY UncachedTyped, PoolIdleTyped DEF Die
<1>2. Idle \in Tasks
  BY DEF Idle, Snapshot, Gone, Tasks, Selves, Steps
<1>3. itask' \in [Identities -> Tasks]
  BY <1>2 DEF Die
<1>5. /\ node' \in [Hoprds -> Nodes]
      /\ \A h \in Hoprds : node'[h].pc # "absent" => node'[h].id \in Identities
  BY CrashedFacts DEF Die, Typed, IdentityTyped
<1>6. operator' \in Operators
  BY DEF Die, Operators
<1> QED BY <1>1, <1>3, <1>5, <1>6 DEF Die, Typed, PoolTyped, IdentityTyped

LEMMA OwnStatusTyped ==
  ASSUME Typed, NEW op \in {"Initialized", "Ready", "Failed"}, NEW next \in PoolSteps, UpdateOwnStatus(op, next)
  PROVE  pool' \in Pools /\ ptask' \in PoolTasks
<1> DEFINE s == update_status(ptask.self.status, ptask.self.gen, op)
<1>0. pool \in Pools /\ ptask \in PoolTasks /\ ptask.self \in PoolSelves
  BY DEF Typed, PoolTyped, PoolTasks
<1>1. s \in Statuses
  BY <1>0, StatusTyped DEF PoolSelves
<1>2. UpdateOwnStatus(op, next) =>
        /\ pool' = pool \/ pool' = [pool EXCEPT !.status = s]
        /\ PoolStep(next, ptask.self) \/ PoolStep(next, [ptask.self EXCEPT !.status = s])
  BY DEF UpdateOwnStatus
<1> HIDE DEF s
<1>3. pool' \in Pools
  BY <1>0, <1>1, <1>2 DEF Pools
<1>4. [ptask.self EXCEPT !.status = s] \in PoolSelves
  BY <1>0, <1>1 DEF PoolSelves
<1>5. \A x \in PoolSelves : [pc |-> next, self |-> x] \in PoolTasks
  BY DEF PoolTasks
<1>6. ptask' \in PoolTasks
  BY <1>0, <1>2, <1>4, <1>5, PoolIdleTyped DEF PoolStep
<1> QED BY <1>3, <1>6

LEMMA CountTyped ==
  ASSUME Typed, NEW op \in Counting, CountPool(op)
  PROVE  pool' \in Pools /\ cache' \in Caches
<1> DEFINE s == update_status(cache.status, cache.gen, op)
<1>0. pool \in Pools /\ cache \in Caches
  BY DEF Typed, PoolTyped
<1>1. s \in Statuses
  BY <1>0, StatusTyped DEF Caches
<1>2. \/ pool' = pool /\ cache' = cache
      \/ pool' = [pool EXCEPT !.status = s] /\ cache' = [cache EXCEPT !.status = s]
  BY DEF CountPool
<1> HIDE DEF s
<1>3. [pool EXCEPT !.status = s] \in Pools
  BY <1>0, <1>1 DEF Pools
<1>4. [cache EXCEPT !.status = s] \in Caches
  BY <1>0, <1>1 DEF Caches
<1> QED BY <1>0, <1>2, <1>3, <1>4

\* The steps of the task of an identity, and of a node.
LEMMA GotoFacts ==
  ASSUME itask \in [Identities -> Tasks], NEW i \in Identities, NEW pc \in Steps, Goto(i, pc)
  PROVE  /\ itask' \in [Identities -> Tasks] /\ itask'[i].pc = pc /\ itask'[i].self = itask[i].self
         /\ \A j \in Identities : j # i => itask'[j] = itask[j]
BY DEF Goto, Tasks

LEMMA IdleFacts == Idle \in Tasks /\ Idle.pc = "idle"
BY DEF Idle, Snapshot, Gone, Tasks, Selves, Steps

LEMMA EndFacts ==
  ASSUME itask \in [Identities -> Tasks], NEW i \in Identities, End(i)
  PROVE  /\ itask' \in [Identities -> Tasks] /\ itask'[i].pc = "idle"
         /\ \A j \in Identities : j # i => itask'[j] = itask[j]
BY IdleFacts DEF End

LEMMA NodeGotoFacts ==
  ASSUME node \in [Hoprds -> Nodes], NEW h \in Hoprds, NEW pc \in NodeSteps, NodeGoto(h, pc)
  PROVE  /\ node' \in [Hoprds -> Nodes] /\ node'[h].pc = pc /\ node'[h].id = node[h].id
         /\ \A k \in Hoprds : k # h => node'[k] = node[k]
BY DEF NodeGoto, Nodes

LEMMA OutFacts == Out \in Nodes /\ Out.pc = "absent" /\ Out.id = NoNode
BY DEF Out, Nodes, NodeSteps

LEMMA NodeOutFacts ==
  ASSUME node \in [Hoprds -> Nodes], NEW h \in Hoprds, node' = [node EXCEPT ![h] = Out]
  PROVE  /\ node' \in [Hoprds -> Nodes] /\ node'[h].pc = "absent" /\ node'[h].id = NoNode
         /\ \A k \in Hoprds : k # h => node'[k] = node[k]
BY OutFacts

LEMMA FetchedFacts ==
  ASSUME NEW n \in Nodes, NEW o \in Objects, NEW pc \in NodeSteps
  PROVE  LET m == [Fetched(n, o) EXCEPT !.pc = pc] IN m \in Nodes /\ m.pc = pc /\ m.id = n.id
<1>1. o.gen \in Nat /\ (o.pool = "own") \in BOOLEAN
  BY DEF Objects
<1> DEFINE b == (o.pool = "own")
<1>2. Fetched(n, o) = [n EXCEPT !.gen = o.gen, !.own = b] /\ b \in BOOLEAN
  BY DEF Fetched
<1> HIDE DEF b
<1> QED BY <1>1, <1>2 DEF Nodes

LEMMA NodeFetchedFacts ==
  ASSUME node \in [Hoprds -> Nodes], NEW h \in Hoprds, NEW o \in Objects, NEW pc \in NodeSteps,
         node' = [node EXCEPT ![h] = [Fetched(node[h], o) EXCEPT !.pc = pc]]
  PROVE  /\ node' \in [Hoprds -> Nodes] /\ node'[h].pc = pc /\ node'[h].id = node[h].id
         /\ \A k \in Hoprds : k # h => node'[k] = node[k]
<1> DEFINE m == [Fetched(node[h], o) EXCEPT !.pc = pc]
<1>1. m \in Nodes /\ m.pc = pc /\ m.id = node[h].id
  BY FetchedFacts
<1> HIDE DEF m
<1>2. node' = [node EXCEPT ![h] = m]
  BY DEF m
<1> QED BY <1>1, <1>2

\* update_phase, deletion and creation of an identity.
Kinds == {"None", "Initialized", "Ready", "InUse", "Failed"}

LEMMA PhasedFacts ==
  ASSUME identity \in [Identities -> Objects], NEW i \in Identities, NEW ph \in Kinds,
         NEW n \in Hoprds \cup {NoNode}, NEW g \in Nat, identity' = Phased(i, ph, n, g)
  PROVE  /\ identity' \in [Identities -> Objects]
         /\ identity'[i].phase = ph /\ identity'[i].node = n
         /\ identity'[i].life = identity[i].life /\ identity'[i].uid = identity[i].uid
         /\ \A j \in Identities : j # i => identity'[j] = identity[j]
<1> DEFINE o == [identity[i] EXCEPT !.phase = ph, !.node = n, !.observed = g]
<1>1. identity' = [identity EXCEPT ![i] = o]
  BY DEF Phased
<1>2. identity[i] \in Objects
  OBVIOUS
<1>3. o \in Objects /\ o.phase = ph /\ o.node = n /\ o.life = identity[i].life /\ o.uid = identity[i].uid
  BY <1>2 DEF Objects, Kinds
<1> HIDE DEF o
<1> QED BY <1>1, <1>3

LEMMA GoneFacts ==
  ASSUME NEW u \in Nat
  PROVE  /\ Gone(u) \in Objects /\ Gone(u).life = "absent" /\ Gone(u).uid = u /\ Gone(u).phase = "None"
         /\ Gone(u).node = NoNode
BY DEF Gone, Objects, Lives

LEMMA RemovedFacts ==
  ASSUME identity \in [Identities -> Objects], NEW i \in Identities,
         identity' = [identity EXCEPT ![i] = Gone(@.uid)]
  PROVE  /\ identity' \in [Identities -> Objects]
         /\ identity'[i].life = "absent" /\ identity'[i].uid = identity[i].uid
         /\ identity'[i].phase = "None" /\ identity'[i].node = NoNode
         /\ \A j \in Identities : j # i => identity'[j] = identity[j]
<1>1. identity[i].uid \in Nat
  BY DEF Objects
<1> QED BY <1>1, GoneFacts

LEMMA MarkedFacts ==
  ASSUME identity \in [Identities -> Objects], NEW i \in Identities, identity' = Marked(i),
         identity[i].life \in {"new", "finalized"}
  PROVE  /\ identity' \in [Identities -> Objects] /\ identity'[i].uid = identity[i].uid
         /\ identity[i].life = "new" =>
              identity'[i].life = "absent" /\ identity'[i].phase = "None" /\ identity'[i].node = NoNode
         /\ identity[i].life = "finalized" =>
              /\ identity'[i].life = "terminating"
              /\ identity'[i].phase = identity[i].phase /\ identity'[i].node = identity[i].node
         /\ \A j \in Identities : j # i => identity'[j] = identity[j]
<1>1. identity[i] \in Objects /\ identity[i].uid \in Nat
  BY DEF Objects
<1> DEFINE o == [identity[i] EXCEPT !.life = "terminating"]
<1>2. /\ o \in Objects /\ o.life = "terminating" /\ o.uid = identity[i].uid
      /\ o.phase = identity[i].phase /\ o.node = identity[i].node
  BY <1>1 DEF Objects, Lives
<1>3. identity' = [identity EXCEPT ![i] = IF identity[i].life = "new" THEN Gone(identity[i].uid) ELSE o]
  BY DEF Marked
<1> HIDE DEF o
<1> QED BY <1>1, <1>2, <1>3, GoneFacts

LEMMA CreatedFacts ==
  ASSUME identity \in [Identities -> Objects], NEW i \in Identities,
         identity' = [identity EXCEPT ![i] = [Gone(@.uid + 1) EXCEPT !.life = "new", !.gen = 1]]
  PROVE  /\ identity' \in [Identities -> Objects]
         /\ identity'[i].life = "new" /\ identity'[i].phase = "None" /\ identity'[i].node = NoNode
         /\ \A j \in Identities : j # i => identity'[j] = identity[j]
<1>1. identity[i].uid + 1 \in Nat
  BY DEF Objects
<1> DEFINE g == Gone(identity[i].uid + 1)
           o == [g EXCEPT !.life = "new", !.gen = 1]
<1>2. g \in Objects /\ g.phase = "None" /\ g.node = NoNode
  BY <1>1, GoneFacts
<1>3. identity' = [identity EXCEPT ![i] = o]
  OBVIOUS
<1> HIDE DEF g
<1>4. o \in Objects /\ o.life = "new" /\ o.phase = "None" /\ o.node = NoNode
  BY <1>2 DEF Objects, Lives
<1> HIDE DEF o
<1> QED BY <1>3, <1>4

\* An edit of the spec, or the owner reference.
Untouched(i) ==
  /\ identity'[i].life = identity[i].life /\ identity'[i].uid = identity[i].uid
  /\ identity'[i].phase = identity[i].phase /\ identity'[i].node = identity[i].node

LEMMA EditedFacts ==
  ASSUME identity \in [Identities -> Objects], NEW i \in Identities,
         NEW p \in {"own", "other"}, NEW l \in {"same", "differs"},
         identity' = [identity EXCEPT ![i] = [@ EXCEPT !.gen = identity[i].gen + 1, !.pool = p, !.last = l]]
  PROVE  /\ identity' \in [Identities -> Objects] /\ Untouched(i)
         /\ \A j \in Identities : j # i => identity'[j] = identity[j]
<1> DEFINE g == identity[i].gen + 1
           o == [identity[i] EXCEPT !.gen = g, !.pool = p, !.last = l]
<1>1. identity[i] \in Objects /\ g \in Nat
  BY DEF Objects
<1>3. identity' = [identity EXCEPT ![i] = o]
  OBVIOUS
<1> HIDE DEF g
<1>2. /\ o \in Objects /\ o.life = identity[i].life /\ o.uid = identity[i].uid
      /\ o.phase = identity[i].phase /\ o.node = identity[i].node
  BY <1>1 DEF Objects
<1> HIDE DEF o
<1> QED BY <1>2, <1>3 DEF Untouched

LEMMA OwnedFacts ==
  ASSUME identity \in [Identities -> Objects], NEW i \in Identities, NEW u \in Nat,
         identity' = [identity EXCEPT ![i].owner = u]
  PROVE  /\ identity' \in [Identities -> Objects] /\ Untouched(i)
         /\ \A j \in Identities : j # i => identity'[j] = identity[j]
BY DEF Untouched, Objects

LEMMA FinalizedFacts ==
  ASSUME identity \in [Identities -> Objects], NEW i \in Identities,
         identity' = [identity EXCEPT ![i].life = IF @ = "new" THEN "finalized" ELSE @]
  PROVE  /\ identity' \in [Identities -> Objects]
         /\ identity'[i].life = (IF identity[i].life = "new" THEN "finalized" ELSE identity[i].life)
         /\ identity'[i].uid = identity[i].uid
         /\ identity'[i].phase = identity[i].phase /\ identity'[i].node = identity[i].node
         /\ \A j \in Identities : j # i => identity'[j] = identity[j]
BY DEF Objects, Lives

LEMMA TypeInit == Init => Typed
<1> SUFFICES ASSUME Init PROVE Typed
  OBVIOUS
<1>1. pool \in Pools /\ cache \in Caches /\ ptask \in PoolTasks
  BY NoPoolTyped, UncachedTyped, PoolIdleTyped DEF Init
<1>2. helper \in [{"monitor", "rbac", "cron"} -> Nat]
  BY DEF Init
<1>3. identity \in [Identities -> Objects]
  BY GoneFacts DEF Init
<1>4. NoVolume \in Claims
  BY DEF NoVolume, Claims
<1>5. /\ pvc \in [Identities -> Claims] /\ itask \in [Identities -> Tasks] /\ node \in [Hoprds -> Nodes]
      /\ \A h \in Hoprds : node[h].pc # "absent" => node[h].id \in Identities
  BY <1>4, IdleFacts, OutFacts DEF Init
<1>6. operator \in Operators /\ odd = {}
  BY DEF Init, Operators
<1> QED BY <1>1, <1>2, <1>3, <1>5, <1>6 DEF Typed, PoolTyped, IdentityTyped

\* The steps of the pool and of its users.
PoolSide == UserCreatePool \/ UserEditPool \/ UserDeletePool \/ CollectHelpers \/ PoolNext

LEMMA PoolSideFrame ==
  ASSUME PoolSide, ~Die
  PROVE  UNCHANGED <<identity, pvc, itask, node, operator>> /\ odd' \in {odd, odd \cup {"pool"}}
<1>1. CASE UserCreatePool
  BY <1>1 DEF UserCreatePool
<1>2. CASE UserEditPool \/ UserDeletePool \/ CollectHelpers
  BY <1>2 DEF UserEditPool, UserDeletePool, CollectHelpers
<1>3. CASE pool_reconciler \/ check_wallet \/ add_pool_finalizer
  BY <1>3 DEF pool_reconciler, check_wallet, add_pool_finalizer
<1>4. CASE create_service_monitor \/ create_rbac \/ create_cron_job
  BY <1>4 DEF create_service_monitor, create_rbac, create_cron_job, create_helper
<1>5. CASE pool_initialized \/ pool_ready \/ add_identity_pool \/ modify_cron_job
  BY <1>5 DEF pool_initialized, pool_ready, add_identity_pool, modify_cron_job
<1>6. CASE modify_pool
  BY <1>6 DEF modify_pool
<1>7. CASE delete_service_monitor \/ delete_rbac \/ delete_cron_job \/ delete_pool_finalizer
           \/ remove_identity_pool
  BY <1>7 DEF delete_service_monitor, delete_rbac, delete_cron_job, delete_helper, delete_pool_finalizer,
              remove_identity_pool
<1> QED BY <1>1, <1>2, <1>3, <1>4, <1>5, <1>6, <1>7 DEF PoolSide, PoolNext

LEMMA PoolSideTyped ==
  ASSUME Typed, PoolSide
  PROVE  Typed'
<1>0. /\ pool \in Pools /\ helper \in [{"monitor", "rbac", "cron"} -> Nat]
      /\ cache \in Caches /\ ptask \in PoolTasks /\ IdentityTyped
      /\ pool.uid \in Nat /\ pool.gen \in Nat /\ pool.status \in Statuses
      /\ ptask.self.uid \in Nat /\ ptask.self.gen \in Nat /\ ptask.self.status \in Statuses
  BY DEF Typed, PoolTyped, Pools, PoolTasks, PoolSelves
<1>1. CASE Die
  BY <1>1, DieTyped
<1> SUFFICES ASSUME ~Die PROVE PoolTyped'
  <2>1. ~Die => IdentityTyped'
    BY <1>0, PoolSideFrame DEF IdentityTyped
  <2> QED BY <1>1, <2>1 DEF Typed
<1>2. CASE UserCreatePool
  <2>1. PICK f \in Funding : pool' = [NoPool(pool.uid + 1) EXCEPT !.life = "new", !.gen = 1, !.funding = f]
    BY <1>2 DEF UserCreatePool
  <2>2. f \in BOOLEAN /\ NoPool(pool.uid + 1) \in Pools
    BY <1>0, NoPoolTyped, FundingAssumption
  <2>3. \A p \in Pools : [p EXCEPT !.life = "new", !.gen = 1, !.funding = f] \in Pools
    BY <2>2 DEF Pools, Lives
  <2> QED BY <1>0, <1>2, <2>1, <2>2, <2>3 DEF UserCreatePool, PoolTyped
<1>3. CASE UserEditPool
  <2>1. PICK f \in BOOLEAN, l \in {"same", "differs", "none"} :
          pool' = [pool EXCEPT !.gen = @ + 1, !.last = l, !.funding = f]
    BY <1>3 DEF UserEditPool
  <2>2. \A g \in Nat : [pool EXCEPT !.gen = g, !.last = l, !.funding = f] \in Pools
    BY <1>0 DEF Pools
  <2>3. pool.gen + 1 \in Nat
    BY <1>0
  <2> QED BY <1>0, <1>3, <2>1, <2>2, <2>3 DEF UserEditPool, PoolTyped
<1>4. CASE UserDeletePool
  <2>1. [pool EXCEPT !.life = "terminating"] \in Pools /\ NoPool(pool.uid) \in Pools
    BY <1>0, NoPoolTyped DEF Pools, Lives
  <2> QED BY <1>0, <1>4, <2>1 DEF UserDeletePool, PoolTyped
<1>5. CASE CollectHelpers
  BY <1>0, <1>5 DEF CollectHelpers, PoolTyped
<1>6. CASE pool_reconciler
  <2>1. pool_step(pool) \in PoolSteps \cup {"panic"}
    BY DEF pool_step, pool_modify, pool_delete, PoolSteps
  <2>2. ptask' \in PoolTasks
    BY <1>0, <1>6, <2>1, PoolSnapshotTyped DEF pool_reconciler
  <2> QED BY <1>0, <1>6, <2>2 DEF pool_reconciler, PoolTyped
<1>7. CASE check_wallet
  BY <1>0, <1>7, PoolGotoTyped, PoolIdleTyped DEF check_wallet, PoolTyped, PoolSteps
<1>8. CASE add_pool_finalizer
  <2>1. [pool EXCEPT !.life = "finalized"] \in Pools
    BY <1>0 DEF Pools, Lives
  <2> QED BY <1>0, <1>8, <2>1, PoolGotoTyped DEF add_pool_finalizer, PoolTyped, PoolSteps
<1>9. ASSUME NEW k \in {"monitor", "rbac", "cron"}, NEW next \in PoolSteps, create_helper(k, next)
      PROVE  PoolTyped'
  <2>1. helper' \in [{"monitor", "rbac", "cron"} -> Nat]
    BY <1>0, <1>9 DEF create_helper
  <2>2. ptask' \in PoolTasks
    BY <1>0, <1>9, PoolGotoTyped, PoolIdleTyped DEF create_helper
  <2> QED BY <1>0, <1>9, <2>1, <2>2 DEF create_helper, PoolTyped
<1>10. CASE create_service_monitor \/ create_rbac
  BY <1>9, <1>10 DEF create_service_monitor, create_rbac, PoolSteps
<1>11. CASE create_cron_job
  <2>1. helper' \in [{"monitor", "rbac", "cron"} -> Nat]
    BY <1>0, <1>11 DEF create_cron_job
  <2> QED BY <1>0, <1>11, <2>1, PoolGotoTyped DEF create_cron_job, PoolTyped, PoolSteps
<1>12. CASE pool_initialized \/ pool_ready \/ modify_pool
  <2>1. {"ready", "add", "idle"} \subseteq PoolSteps
    BY DEF PoolSteps
  <2>2. PICK op \in {"Initialized", "Ready", "Failed"}, next \in {"ready", "add", "idle"} : UpdateOwnStatus(op, next)
    BY <1>12 DEF pool_initialized, pool_ready, modify_pool
  <2>3. pool' \in Pools /\ ptask' \in PoolTasks
    BY <2>1, <2>2, OwnStatusTyped
  <2> QED BY <1>0, <1>12, <2>3 DEF pool_initialized, pool_ready, modify_pool, PoolTyped
<1>13. CASE add_identity_pool
  <2>1. Cached(ptask.self) \in Caches
    BY <1>0, CachedTyped
  <2> QED BY <1>0, <1>13, <2>1, PoolIdleTyped DEF add_identity_pool, PoolTyped
<1>14. CASE modify_cron_job
  <2>1. helper' \in [{"monitor", "rbac", "cron"} -> Nat]
    BY <1>0, <1>14 DEF modify_cron_job
  <2> QED BY <1>0, <1>14, <2>1, PoolGotoTyped, PoolIdleTyped DEF modify_cron_job, PoolTyped, PoolSteps
<1>15. ASSUME NEW k \in {"monitor", "rbac", "cron"}, NEW doomed, NEW next \in PoolSteps,
              delete_helper(k, doomed, next)
       PROVE  PoolTyped'
  <2>1. helper' \in [{"monitor", "rbac", "cron"} -> Nat]
    BY <1>0, <1>15 DEF delete_helper
  <2>2. ptask' \in PoolTasks
    BY <1>0, <1>15, PoolGotoTyped, PoolIdleTyped DEF delete_helper
  <2> QED BY <1>0, <1>15, <2>1, <2>2 DEF delete_helper, PoolTyped
<1>16. CASE delete_service_monitor \/ delete_rbac \/ delete_cron_job
  BY <1>15, <1>16 DEF delete_service_monitor, delete_rbac, delete_cron_job, PoolSteps
<1>17. CASE delete_pool_finalizer
  <2>1. NoPool(pool.uid) \in Pools
    BY <1>0, NoPoolTyped
  <2> QED BY <1>0, <1>17, <2>1, PoolGotoTyped, PoolIdleTyped DEF delete_pool_finalizer, PoolTyped, PoolSteps
<1>18. CASE remove_identity_pool
  BY <1>0, <1>18, UncachedTyped, PoolIdleTyped DEF remove_identity_pool, PoolTyped
<1> QED BY <1>2, <1>3, <1>4, <1>5, <1>6, <1>7, <1>8, <1>10, <1>11, <1>12, <1>13, <1>14, <1>16, <1>17, <1>18
        DEF PoolSide, PoolNext

\* The steps of the identities, of the nodes, and of the start of the operator.
LEMMA IdentitySideTyped ==
  ASSUME Typed, NEW i \in Identities,
         \/ UserCreate(i) \/ UserEdit(i) \/ UserDelete(i) \/ CollectIdentity(i) \/ CollectVolume(i)
         \/ IdentityNext(i)
  PROVE  Typed'
<1>0. /\ identity \in [Identities -> Objects] /\ pvc \in [Identities -> Claims]
      /\ itask \in [Identities -> Tasks] /\ PoolTyped /\ IdentityTyped
      /\ pool.uid \in Nat /\ itask[i].self.gen \in Nat /\ itask[i].self.uid \in Nat
      /\ NoVolume \in Claims
  BY DEF Typed, IdentityTyped, PoolTyped, Pools, Tasks, Selves, NoVolume, Claims
<1>1. CASE Die
  BY <1>1, DieTyped
<1>2. CASE UserCreate(i)
  <2>1. identity' \in [Identities -> Objects]
    BY <1>0, <1>2, CreatedFacts DEF UserCreate
  <2>2. odd' \subseteq Identities \cup {"pool"}
    BY <1>0, <1>2 DEF UserCreate, IdentityTyped
  <2> QED BY <1>0, <1>2, <2>1, <2>2 DEF UserCreate, Typed, PoolTyped, IdentityTyped
<1>3. CASE UserEdit(i)
  BY <1>0, <1>3, EditedFacts DEF UserEdit, Typed, PoolTyped, IdentityTyped
<1>4. CASE UserDelete(i) \/ CollectIdentity(i)
  BY <1>0, <1>4, MarkedFacts DEF UserDelete, CollectIdentity, Typed, PoolTyped, IdentityTyped
<1>5. CASE CollectVolume(i)
  BY <1>0, <1>5 DEF CollectVolume, Typed, PoolTyped, IdentityTyped
<1>6. CASE reconciler(i)
  <2>1. first_step(identity[i]) \in Steps
    BY DEF first_step, modify, delete, Steps
  <2>2. Snapshot(identity[i]) \in Selves
    BY <1>0 DEF Snapshot, Objects, Selves
  <2>3. [pc |-> first_step(identity[i]), self |-> Snapshot(identity[i])] \in Tasks
    BY <2>1, <2>2 DEF Tasks
  <2> QED BY <1>0, <1>6, <2>3 DEF reconciler, Typed, PoolTyped, IdentityTyped
<1>7. CASE check(i)
  BY <1>0, <1>7, GotoFacts, EndFacts DEF check, Typed, PoolTyped, IdentityTyped, Steps
<1>8. CASE add_finalizer(i)
  BY <1>0, <1>8, GotoFacts, FinalizedFacts DEF add_finalizer, Typed, PoolTyped, IdentityTyped, Steps
<1>9. CASE add_owner_reference(i) /\ ~Die
  BY <1>0, <1>9, GotoFacts, OwnedFacts DEF add_owner_reference, Typed, PoolTyped, IdentityTyped, Steps
<1>10. CASE create_pvc(i)
  <2>1. pvc' \in [Identities -> Claims]
    BY <1>0, <1>10 DEF create_pvc, Claims
  <2> QED BY <1>0, <1>10, <2>1, GotoFacts, EndFacts DEF create_pvc, Typed, PoolTyped, IdentityTyped, Steps
<1>11. ASSUME NEW ph \in {"Initialized", "Ready", "Failed"}, NEW next \in Steps, UpdatePhase(i, ph, next)
       PROVE  identity' \in [Identities -> Objects] /\ itask' \in [Identities -> Tasks]
  <2>1. identity' \in [Identities -> Objects]
    BY <1>0, <1>11, PhasedFacts DEF UpdatePhase, Kinds
  <2>2. itask' \in [Identities -> Tasks]
    BY <1>0, <1>11, GotoFacts, EndFacts DEF UpdatePhase
  <2> QED BY <2>1, <2>2
<1>12. CASE create_initialized(i) \/ (create_ready(i) /\ ~Die) \/ modify_identity(i)
  <2>1. "count" \in Steps /\ "idle" \in Steps
    BY DEF Steps
  <2> QED BY <1>0, <1>11, <1>12, <2>1
          DEF create_initialized, create_ready, modify_identity, Typed, PoolTyped, IdentityTyped
<1>13. CASE (count_created(i) /\ ~Die) \/ count_deleted(i)
  <2>1. pool' \in Pools /\ cache' \in Caches
    BY <1>0, <1>13, CountTyped DEF count_created, count_deleted, PoolTyped, Counting
  <2>2. itask' \in [Identities -> Tasks]
    BY <1>0, <1>13, GotoFacts, EndFacts DEF count_created, count_deleted, Steps
  <2>3. odd' \subseteq Identities \cup {"pool"}
    BY <1>0, <1>13 DEF count_created, count_deleted, IdentityTyped
  <2> QED BY <1>0, <1>13, <2>1, <2>2, <2>3 DEF count_created, count_deleted, Typed, PoolTyped, IdentityTyped
<1>14. CASE delete_pvc(i)
  <2>1. pvc' \in [Identities -> Claims]
    BY <1>0, <1>14 DEF delete_pvc, Claims
  <2> QED BY <1>0, <1>14, <2>1, GotoFacts, EndFacts DEF delete_pvc, Typed, PoolTyped, IdentityTyped, Steps
<1>15. CASE delete_finalizer(i) /\ ~Die
  BY <1>0, <1>15, RemovedFacts, EndFacts DEF delete_finalizer, Typed, PoolTyped, IdentityTyped
<1> QED BY <1>1, <1>2, <1>3, <1>4, <1>5, <1>6, <1>7, <1>8, <1>9, <1>10, <1>12, <1>13, <1>14, <1>15
        DEF IdentityNext

LEMMA NodeSideTyped ==
  ASSUME Typed, NEW h \in Hoprds, UserCreateNode(h) \/ UserDeleteNode(h) \/ delete_deployment(h) \/ NodeNext(h)
  PROVE  Typed'
<1>0. /\ identity \in [Identities -> Objects] /\ node \in [Hoprds -> Nodes] /\ PoolTyped /\ IdentityTyped
      /\ node[h].gen \in Nat /\ h \in Hoprds \cup {NoNode}
      /\ node[h].pc # "absent" => node[h].id \in Identities /\ identity[node[h].id] \in Objects
  BY DEF Typed, IdentityTyped, Nodes
<1>1. CASE Die
  BY <1>1, DieTyped
<1>2. CASE UserCreateNode(h)
  <2>1. \A i \in Identities : LET n == [Out EXCEPT !.pc = "wait", !.id = i] IN n \in Nodes /\ n.id = i
    BY OutFacts DEF Nodes, NodeSteps
  <2>2. /\ node' \in [Hoprds -> Nodes]
        /\ \A k \in Hoprds : node'[k].pc # "absent" => node'[k].id \in Identities
    BY <1>0, <1>2, <2>1 DEF UserCreateNode, IdentityTyped
  <2> QED BY <1>0, <1>2, <2>2 DEF UserCreateNode, Typed, PoolTyped, IdentityTyped
<1>3. CASE UserDeleteNode(h)
  BY <1>0, <1>3, NodeOutFacts DEF UserDeleteNode, Typed, PoolTyped, IdentityTyped
<1>4. CASE delete_deployment(h)
  BY <1>0, <1>4, NodeGotoFacts DEF delete_deployment, Typed, PoolTyped, IdentityTyped, NodeSteps
<1>5. CASE lock_identity(h)
  <2>1. /\ node[h].pc = "wait" /\ node[h] \in Nodes
        /\ node' = [node EXCEPT ![h] = [Fetched(node[h], identity[node[h].id]) EXCEPT !.pc = "claim"]]
    BY <1>0, <1>5 DEF lock_identity
  <2>2. /\ node' \in [Hoprds -> Nodes]
        /\ \A k \in Hoprds : node'[k].pc # "absent" => node'[k].id \in Identities
    <3>1. identity[node[h].id] \in Objects /\ "claim" \in NodeSteps
      BY <1>0, <2>1 DEF NodeSteps
    <3>2. /\ node' \in [Hoprds -> Nodes] /\ node'[h].id = node[h].id
          /\ \A k \in Hoprds : k # h => node'[k] = node[k]
      BY <1>0, <2>1, <3>1, NodeFetchedFacts
    <3> QED BY <1>0, <2>1, <3>2 DEF IdentityTyped
  <2> QED BY <1>0, <1>5, <2>2 DEF lock_identity, Typed, PoolTyped, IdentityTyped
<1>6. CASE claim_identity(h)
  <2>1. identity' \in [Identities -> Objects]
    BY <1>0, <1>6, PhasedFacts DEF claim_identity, Kinds
  <2>2. /\ node' \in [Hoprds -> Nodes]
        /\ \A k \in Hoprds : node'[k].pc # "absent" => node'[k].id \in Identities
    BY <1>0, <1>6, NodeGotoFacts DEF claim_identity, IdentityTyped, NodeSteps
  <2>3. odd' \subseteq Identities \cup {"pool"}
    BY <1>0, <1>6 DEF claim_identity, IdentityTyped
  <2> QED BY <1>0, <1>6, <2>1, <2>2, <2>3 DEF claim_identity, Typed, PoolTyped, IdentityTyped
<1>7. CASE count_lock(h)
  <2>1. pool' \in Pools /\ cache' \in Caches
    BY <1>7, CountTyped DEF count_lock, Counting
  <2> QED BY <1>0, <1>7, <2>1, NodeGotoFacts DEF count_lock, Typed, PoolTyped, IdentityTyped, NodeSteps
<1>8. CASE (finalize_node(h) \/ create_deployment(h)) /\ ~Die
  <2>1. /\ node' \in [Hoprds -> Nodes]
        /\ \A k \in Hoprds : node'[k].pc # "absent" => node'[k].id \in Identities
    BY <1>0, <1>8, NodeGotoFacts DEF finalize_node, create_deployment, IdentityTyped, NodeSteps
  <2> QED BY <1>0, <1>8, <2>1 DEF finalize_node, create_deployment, Typed, PoolTyped, IdentityTyped
<1>9. CASE get_identity(h) /\ ~Die
  <2>1. /\ node' = [node EXCEPT ![h] = Out]
           \/ node' = [node EXCEPT ![h] = [Fetched(node[h], identity[node[h].id]) EXCEPT !.pc = "release"]]
        /\ node[h] \in Nodes /\ identity[node[h].id] \in Objects /\ node[h].id \in Identities
    BY <1>0, <1>9 DEF get_identity
  <2>2. /\ node' \in [Hoprds -> Nodes]
        /\ \A k \in Hoprds : node'[k].pc # "absent" => node'[k].id \in Identities
    BY <1>0, <2>1, NodeFetchedFacts, NodeOutFacts DEF IdentityTyped, NodeSteps
  <2> QED BY <1>0, <1>9, <2>2 DEF get_identity, Typed, PoolTyped, IdentityTyped
<1>10. CASE release_identity(h)
  <2>1. identity' \in [Identities -> Objects]
    BY <1>0, <1>10, PhasedFacts DEF release_identity, Kinds
  <2>2. /\ node' \in [Hoprds -> Nodes]
        /\ \A k \in Hoprds : node'[k].pc # "absent" => node'[k].id \in Identities
    BY <1>0, <1>10, NodeGotoFacts DEF release_identity, IdentityTyped, NodeSteps
  <2> QED BY <1>0, <1>10, <2>1, <2>2 DEF release_identity, Typed, PoolTyped, IdentityTyped
<1>11. CASE count_unlock(h) /\ ~Die
  <2>1. pool' \in Pools /\ cache' \in Caches
    BY <1>11, CountTyped DEF count_unlock, Counting
  <2>2. /\ node' \in [Hoprds -> Nodes]
        /\ \A k \in Hoprds : node'[k].pc # "absent" => node'[k].id \in Identities
    BY <1>0, <1>11, NodeOutFacts DEF count_unlock, IdentityTyped
  <2> QED BY <1>0, <1>11, <2>1, <2>2 DEF count_unlock, Typed, PoolTyped, IdentityTyped
<1> QED BY <1>1, <1>2, <1>3, <1>4, <1>5, <1>6, <1>7, <1>8, <1>9, <1>10, <1>11 DEF NodeNext

LEMMA StartTyped ==
  ASSUME Typed, StartNext
  PROVE  Typed'
<1>0. /\ identity \in [Identities -> Objects] /\ operator \in Operators /\ PoolTyped /\ IdentityTyped
      /\ pool \in Pools /\ pool.gen \in Nat /\ pool.status \in Statuses
  BY DEF Typed, IdentityTyped, PoolTyped, Pools
<1>1. Listed \in Caches
  BY <1>0, UncachedTyped, CachedTyped DEF Listed
<1>2. CASE start_controllers
  <2>1. operator' \in Operators
    BY <1>2 DEF start_controllers, Operators, Held
  <2> QED BY <1>0, <1>1, <1>2, <2>1 DEF start_controllers, Typed, PoolTyped, IdentityTyped
<1>3. ASSUME NEW i \in Identities, sync_identities(i) PROVE Typed'
  <2>1. identity' \in [Identities -> Objects]
    <3>1. identity[i].gen \in Nat
      BY <1>0 DEF Objects
    <3> QED BY <1>0, <1>3, <3>1, PhasedFacts DEF sync_identities, Kinds
  <2>2. operator' \in Operators
    BY <1>0, <1>3 DEF sync_identities, Operators
  <2>3. pool' \in Pools /\ cache' \in Caches
    BY <1>0, <1>3, CountTyped, UncachedTyped DEF sync_identities, Counting
  <2> QED BY <1>0, <1>3, <2>1, <2>2, <2>3 DEF sync_identities, Typed, PoolTyped, IdentityTyped
<1>4. CASE sync_identity_pools
  <2>1. operator' \in Operators
    BY <1>0, <1>4 DEF sync_identity_pools, Operators
  <2> DEFINE own == {i \in Identities : Exists(i) /\ identity[i].pool = "own"}
             size == Cardinality(own)
             locked == Cardinality(own \cap Held)
             s == pool.status
             t == [s EXCEPT !.size = size, !.locked = locked, !.phase = "Ready"]
  <2>2. size \in Int /\ locked \in Int
    <3>1. own \subseteq Identities /\ own \cap Held \subseteq Identities
      OBVIOUS
    <3> HIDE DEF own
    <3>2. size \in Nat /\ locked \in Nat
      BY <3>1, NamesAssumption, FS_Subset, FS_CardinalityType
    <3> QED BY <3>2
  <2>3. pool' = pool \/ pool' = [pool EXCEPT !.status = t]
    BY <1>4 DEF sync_identity_pools
  <2> HIDE DEF size, locked
  <2>4. t \in Statuses
    BY <1>0, <2>2 DEF Statuses
  <2> HIDE DEF t
  <2>5. pool' \in Pools
    BY <1>0, <2>3, <2>4 DEF Pools
  <2> QED BY <1>0, <1>1, <1>4, <2>1, <2>5 DEF sync_identity_pools, Typed, PoolTyped, IdentityTyped
<1> QED BY <1>2, <1>3, <1>4 DEF StartNext

LEMMA TypeNext == Typed /\ [Next]_vars => Typed'
<1> SUFFICES ASSUME Typed, [Next]_vars PROVE Typed'
  OBVIOUS
<1>1. CASE PoolSide
  BY <1>1, PoolSideTyped
<1>2. CASE Crash
  BY <1>2, DieTyped DEF Crash
<1>3. CASE UNCHANGED vars
  BY <1>3 DEF vars, Typed, PoolTyped, IdentityTyped
<1> QED BY <1>1, <1>2, <1>3, IdentitySideTyped, NodeSideTyped, StartTyped DEF Next, PoolSide

\* Every variable keeps its type, whatever calls fail and wherever the operator crashes.
THEOREM TypeCorrect == Spec => []TypeOK
BY TypeInit, TypeNext, TypeParts, PTL DEF Spec

-----------------------------------------------------------------------------
(***************************************************************************)
(* What a step leaves alone.                                               *)
(***************************************************************************)

LEMMA IdentityKept ==
  ASSUME NEW j \in Identities, ObjectInv(j), TaskInv(j), Untouched(j), pvc'[j] = pvc[j], itask'[j] = itask[j]
  PROVE  ObjectInv(j)' /\ TaskInv(j)'
<1>1. Good(j)' <=> Good(j)
  BY DEF Good, Untouched
<1>2. ObjectInv(j)'
  BY <1>1 DEF ObjectInv, Untouched
<1>3. TaskInv(j)'
  BY <1>1 DEF TaskInv, Untouched
<1> QED BY <1>2, <1>3

LEMMA HolderKept ==
  ASSUME NEW h \in Hoprds, HolderInv(h), odd \subseteq odd', node'[h].pc = node[h].pc, node'[h].id = node[h].id,
         node[h].pc # "absent" => Untouched(node[h].id)
  PROVE  HolderInv(h)'
BY DEF HolderInv, Untouched, Using

\* A step on identity i.
LEMMA IdentityFrame ==
  ASSUME Typed, WholeInv, NEW i \in Identities, UNCHANGED <<node, operator>>, odd \subseteq odd',
         \A j \in Identities : j # i => identity'[j] = identity[j] /\ pvc'[j] = pvc[j] /\ itask'[j] = itask[j],
         i \notin odd' => ObjectInv(i)' /\ TaskInv(i)' /\ \A h \in Hoprds : node[h].id = i => HolderInv(h)',
         operator.pc # "up" =>
           /\ itask'[i].pc = "idle"
           /\ i \notin odd' /\ identity[i].life \in Finalized =>
                identity'[i].life \in Finalized /\ identity'[i].phase = identity[i].phase
  PROVE  WholeInv'
<1>0. /\ \A j \in Identities \ odd : ObjectInv(j) /\ TaskInv(j)
      /\ \A h \in Hoprds : HolderInv(h)
      /\ LockInv /\ UpInv
      /\ \A h \in Hoprds : node[h].pc # "absent" => node[h].id \in Identities
      /\ operator.todo \in SUBSET Identities
  BY DEF WholeInv, Typed, IdentityTyped, Operators
<1>1. ASSUME NEW j \in Identities, j # i PROVE Untouched(j)
  BY <1>1 DEF Untouched
<1>2. ASSUME NEW j \in Identities \ odd' PROVE ObjectInv(j)' /\ TaskInv(j)'
  <2>1. CASE j = i
    BY <1>2, <2>1
  <2>2. CASE j # i
    BY <1>0, <1>1, <1>2, <2>2, IdentityKept
  <2> QED BY <2>1, <2>2
<1>3. ASSUME NEW h \in Hoprds PROVE HolderInv(h)'
  <2>1. CASE node[h].id = i /\ i \notin odd'
    BY <2>1
  <2>2. CASE node[h].id = i /\ i \in odd'
    BY <2>2 DEF HolderInv
  <2>3. CASE node[h].id # i
    BY <1>0, <1>1, <2>3, HolderKept
  <2> QED BY <2>1, <2>2, <2>3
<1>4. LockInv'
  BY <1>0 DEF LockInv
<1>5. UpInv'
  <2>1. ASSUME operator.pc # "up"
        PROVE  /\ \A j \in Identities : itask'[j].pc = "idle"
               /\ \A h \in Hoprds : node'[h].pc \notin Running
    BY <1>0, <2>1 DEF UpInv
  <2>2. ASSUME operator.pc = "sync", NEW j \in operator.todo \ odd'
        PROVE  identity'[j].life \in Finalized /\ identity'[j].phase = "InUse"
    BY <1>0, <2>2 DEF UpInv
  <2>3. ASSUME operator.pc = "sync", NEW j \in operator.todo \ odd', NEW h \in Hoprds, node'[h].id = j
        PROVE  node'[h].pc \notin Using
    BY <1>0, <2>3 DEF UpInv
  <2> QED BY <2>1, <2>2, <2>3 DEF UpInv
<1> QED BY <1>2, <1>3, <1>4, <1>5 DEF WholeInv

\* A step that changes neither identities nor nodes.
LEMMA NothingTouched ==
  ASSUME Typed, WholeInv, UNCHANGED <<identity, pvc, itask, node, operator>>, odd \subseteq odd'
  PROVE  WholeInv'
<1>0. /\ \A j \in Identities \ odd : ObjectInv(j) /\ TaskInv(j)
      /\ \A h \in Hoprds : HolderInv(h)
      /\ LockInv /\ UpInv
  BY DEF WholeInv
<1>1. \A j : Untouched(j)
  BY DEF Untouched
<1>2. \A j \in Identities \ odd' : ObjectInv(j)' /\ TaskInv(j)'
  BY <1>0, <1>1, IdentityKept
<1>3. \A h \in Hoprds : HolderInv(h)'
  BY <1>0, <1>1, HolderKept
<1>4. LockInv' /\ UpInv'
  BY <1>0 DEF LockInv, UpInv
<1> QED BY <1>2, <1>3, <1>4 DEF WholeInv

\* A step of node h that leaves the identities alone.
LEMMA NodeFrame ==
  ASSUME Typed, WholeInv, NEW h \in Hoprds, UNCHANGED <<identity, pvc, itask, operator, odd>>,
         \A k \in Hoprds : k # h => node'[k] = node[k],
         HolderInv(h)',
         node'[h].pc \in {"claim", "count"} => Unlocked \/ node[h].pc \in {"claim", "count"},
         operator.pc = "up" \/ node'[h].pc \notin Running \cup Using
  PROVE  WholeInv'
<1>0. /\ \A j \in Identities \ odd : ObjectInv(j) /\ TaskInv(j)
      /\ \A k \in Hoprds : HolderInv(k)
      /\ LockInv /\ UpInv
  BY DEF WholeInv
<1>1. \A j : Untouched(j)
  BY DEF Untouched
<1>2. \A j \in Identities \ odd' : ObjectInv(j)' /\ TaskInv(j)'
  BY <1>0, <1>1, IdentityKept
<1>3. \A k \in Hoprds : HolderInv(k)'
  BY <1>0, <1>1, HolderKept
<1>4. LockInv'
  BY <1>0 DEF LockInv, Unlocked
<1>5. UpInv'
  BY <1>0 DEF UpInv
<1> QED BY <1>2, <1>3, <1>4, <1>5 DEF WholeInv

LEMMA WholeInit == Init => WholeInv
<1> SUFFICES ASSUME Init PROVE WholeInv
  OBVIOUS
<1>1. \A i \in Identities : /\ identity[i].phase = "None" /\ identity[i].node = NoNode
                            /\ itask[i].pc = "idle"
  BY GoneFacts, IdleFacts DEF Init
<1>2. \A h \in Hoprds : node[h].pc = "absent"
  BY OutFacts DEF Init
<1>3. \A i \in Identities : ObjectInv(i) /\ TaskInv(i)
  BY <1>1 DEF ObjectInv, TaskInv
<1>4. \A h \in Hoprds : HolderInv(h)
  BY <1>2 DEF HolderInv, Using
<1>5. LockInv
  BY <1>2 DEF LockInv
<1>6. UpInv
  BY DEF Init, UpInv
<1> QED BY <1>3, <1>4, <1>5, <1>6 DEF WholeInv

LEMMA WholeDie ==
  ASSUME Typed, WholeInv, Die
  PROVE  WholeInv'
<1>0. /\ \A j \in Identities \ odd : ObjectInv(j) /\ TaskInv(j)
      /\ \A h \in Hoprds : HolderInv(h)
      /\ UNCHANGED <<identity, pvc, odd>> /\ operator'.pc = "down"
  BY DEF WholeInv, Die
<1>1. \A j \in Identities : itask'[j].pc = "idle"
  BY IdleFacts DEF Die
<1>2. ASSUME NEW h \in Hoprds
      PROVE  /\ node'[h].id = node[h].id /\ node'[h].pc \notin Running
             /\ node'[h].pc \in Using => node[h].pc \in Using
  <2>1. node'[h] = Crashed(node[h]) /\ node[h] \in Nodes
    BY DEF Die, Typed, IdentityTyped
  <2> QED BY <2>1, CrashedFacts
<1>3. ASSUME NEW j \in Identities \ odd' PROVE ObjectInv(j)' /\ TaskInv(j)'
  <2>1. ObjectInv(j)'
    BY <1>0 DEF ObjectInv, Good
  <2>2. TaskInv(j)'
    BY <1>1 DEF TaskInv
  <2> QED BY <2>1, <2>2
<1>4. ASSUME NEW h \in Hoprds PROVE HolderInv(h)'
  BY <1>0, <1>2 DEF HolderInv, Running
<1>5. LockInv'
  BY <1>2 DEF LockInv, Running
<1>6. UpInv'
  BY <1>0, <1>1, <1>2 DEF UpInv
<1> QED BY <1>3, <1>4, <1>5, <1>6 DEF WholeInv

-----------------------------------------------------------------------------
(***************************************************************************)
(* The steps of an identity.                                               *)
(***************************************************************************)

\* Nobody holds an identity that is not InUse.
LEMMA NoHolder ==
  ASSUME WholeInv, NEW i \in Identities \ odd, NEW h \in Hoprds, node[h].id = i
  PROVE  /\ identity[i].phase # "InUse" => node[h].pc \notin Using
         /\ identity[i].phase \in {"None", "Initialized"} /\ identity[i].life # "absent" => node[h].pc # "claim"
BY DEF WholeInv, HolderInv

\* The task of an identity runs only in an operator that is up.
LEMMA TaskMeansUp ==
  ASSUME WholeInv, NEW i \in Identities, itask[i].pc # "idle"
  PROVE  operator.pc = "up"
BY DEF WholeInv, UpInv

LEMMA WholeUsers ==
  ASSUME Typed, WholeInv, NEW i \in Identities,
         \/ UserCreate(i) \/ UserEdit(i) \/ UserDelete(i) \/ CollectIdentity(i) \/ CollectVolume(i)
  PROVE  WholeInv'
<1>0. /\ identity \in [Identities -> Objects] /\ pvc \in [Identities -> Claims]
      /\ itask \in [Identities -> Tasks]
      /\ i \notin odd => ObjectInv(i) /\ TaskInv(i)
      /\ \A h \in Hoprds : HolderInv(h)
      /\ operator.pc # "up" => itask[i].pc = "idle"
  BY DEF Typed, IdentityTyped, WholeInv, UpInv
<1>1. CASE UserCreate(i)
  <2>1. /\ UNCHANGED <<pvc, itask, node, operator>> /\ odd \subseteq odd' /\ identity[i].life = "absent"
        /\ i \notin odd' => ~Busy(i)
    BY <1>1 DEF UserCreate, Exists
  <2>2. /\ identity'[i].life = "new" /\ identity'[i].phase = "None" /\ identity'[i].node = NoNode
        /\ \A j \in Identities : j # i => identity'[j] = identity[j]
    BY <1>0, <1>1, CreatedFacts DEF UserCreate
  <2>3. ASSUME i \notin odd' PROVE ObjectInv(i)' /\ TaskInv(i)' /\ \A h \in Hoprds : node[h].id = i => HolderInv(h)'
    <3>1. i \notin odd /\ itask[i].pc = "idle" /\ \A h \in Hoprds : node[h].id = i => node[h].pc # "claim"
      BY <2>1, <2>3 DEF Busy
    <3>2. \A h \in Hoprds : node[h].id = i => node[h].pc \notin Using
      BY <1>0, <2>1, <3>1 DEF HolderInv, Finalized
    <3>3. ObjectInv(i)' /\ TaskInv(i)'
      BY <2>1, <2>2, <3>1 DEF ObjectInv, TaskInv
    <3> QED BY <2>1, <3>1, <3>2, <3>3 DEF HolderInv
  <2> QED BY <1>0, <2>1, <2>2, <2>3, IdentityFrame DEF Finalized
<1>2. CASE UserEdit(i)
  <2>1. UNCHANGED <<pvc, itask, node, operator, odd>>
    BY <1>2 DEF UserEdit
  <2>2. Untouched(i) /\ \A j \in Identities : j # i => identity'[j] = identity[j]
    BY <1>0, <1>2, EditedFacts DEF UserEdit
  <2>3. ASSUME i \notin odd' PROVE ObjectInv(i)' /\ TaskInv(i)' /\ \A h \in Hoprds : node[h].id = i => HolderInv(h)'
    BY <1>0, <2>1, <2>2, <2>3, IdentityKept, HolderKept
  <2> QED BY <1>0, <2>1, <2>2, <2>3, IdentityFrame DEF Untouched
<1>3. CASE UserDelete(i) \/ CollectIdentity(i)
  <2>1. /\ UNCHANGED <<pvc, itask, node, operator, odd>> /\ identity[i].life \in {"new", "finalized"}
        /\ identity' = Marked(i)
    BY <1>3 DEF UserDelete, CollectIdentity
  <2>2. /\ identity'[i].uid = identity[i].uid
        /\ identity[i].life = "new" =>
              identity'[i].life = "absent" /\ identity'[i].phase = "None" /\ identity'[i].node = NoNode
        /\ identity[i].life = "finalized" =>
              /\ identity'[i].life = "terminating"
              /\ identity'[i].phase = identity[i].phase /\ identity'[i].node = identity[i].node
        /\ \A j \in Identities : j # i => identity'[j] = identity[j]
    BY <1>0, <2>1, MarkedFacts
  <2>3. ASSUME i \notin odd' PROVE ObjectInv(i)' /\ TaskInv(i)' /\ \A h \in Hoprds : node[h].id = i => HolderInv(h)'
    <3>1. Good(i)' <=> Good(i)
      BY <2>1, <2>2 DEF Good
    <3>2. ObjectInv(i)'
      BY <1>0, <2>1, <2>2, <2>3, <3>1 DEF ObjectInv
    <3>3. identity[i].life = "new" => identity[i].phase = "None"
      BY <1>0, <2>1, <2>3 DEF ObjectInv
    <3>4. TaskInv(i)'
      BY <1>0, <2>1, <2>2, <2>3, <3>1, <3>3 DEF TaskInv, Finalized
    <3>5. \A h \in Hoprds : node[h].id = i => HolderInv(h)'
      BY <1>0, <2>1, <2>2, <2>3, <3>3 DEF HolderInv, Finalized
    <3> QED BY <3>2, <3>4, <3>5
  <2> QED BY <1>0, <2>1, <2>2, <2>3, IdentityFrame DEF Finalized
<1>4. CASE CollectVolume(i)
  <2>1. /\ UNCHANGED <<identity, itask, node, operator, odd>> /\ pvc[i].owner # 0
        /\ pvc[i].dying \/ identity[i].life = "absent" \/ identity[i].uid # pvc[i].owner
        /\ pvc'[i] = NoVolume /\ \A j \in Identities : j # i => pvc'[j] = pvc[j]
    BY <1>0, <1>4 DEF CollectVolume, Exists
  <2>2. Good(i) => identity[i].life = "absent"
    BY <2>1 DEF Good
  <2>3. ASSUME i \notin odd' PROVE ObjectInv(i)' /\ TaskInv(i)' /\ \A h \in Hoprds : node[h].id = i => HolderInv(h)'
    <3>1. ObjectInv(i)'
      BY <1>0, <2>1, <2>2, <2>3 DEF ObjectInv
    <3>2. TaskInv(i)'
      BY <1>0, <2>1, <2>2, <2>3 DEF TaskInv, Finalized
    <3>3. \A h \in Hoprds : node[h].id = i => HolderInv(h)'
      BY <1>0, <2>1, HolderKept DEF Untouched
    <3> QED BY <3>1, <3>2, <3>3
  <2> QED BY <1>0, <2>1, <2>3, IdentityFrame
<1> QED BY <1>1, <1>2, <1>3, <1>4

\* The steps of the task that touch neither the object nor its claim.
LEMMA WholeMoves ==
  ASSUME Typed, WholeInv, NEW i \in Identities, ~Die,
         reconciler(i) \/ check(i) \/ count_created(i) \/ count_deleted(i)
  PROVE  WholeInv'
<1>0. /\ identity \in [Identities -> Objects] /\ pvc \in [Identities -> Claims]
      /\ itask \in [Identities -> Tasks]
      /\ i \notin odd => ObjectInv(i) /\ TaskInv(i)
      /\ \A h \in Hoprds : HolderInv(h)
  BY DEF Typed, IdentityTyped, WholeInv
<1>1. /\ UNCHANGED <<identity, pvc, node, operator>> /\ odd \subseteq odd' /\ operator.pc = "up"
  BY TaskMeansUp DEF reconciler, check, count_created, count_deleted, At
<1>2. /\ \A j \in Identities : j # i => itask'[j] = itask[j]
      /\ \/ itask'[i].pc = "idle"
         \/ /\ itask[i].pc = "idle" /\ itask'[i].pc = first_step(identity[i]) /\ identity[i].life # "absent"
            /\ itask'[i].self.uid = identity[i].uid /\ first_step(identity[i]) # "idle"
         \/ itask[i].pc = "check" /\ itask'[i].pc = "finalizer" /\ itask'[i].self = itask[i].self
         \/ itask[i].pc = "count" /\ itask'[i].pc = "ready" /\ itask'[i].self = itask[i].self
         \/ /\ itask[i].pc = "await_pvc" /\ itask'[i].pc = "unfinalize" /\ itask'[i].self = itask[i].self
            /\ pvc[i] = NoVolume
  <2>0. {"finalizer", "ready", "unfinalize"} \subseteq Steps
    BY DEF Steps
  <2>1. CASE reconciler(i)
    <3>1. itask' = [itask EXCEPT ![i] = [pc |-> first_step(identity[i]), self |-> Snapshot(identity[i])]]
      BY <2>1 DEF reconciler
    <3>2. Snapshot(identity[i]).uid = identity[i].uid
      BY DEF Snapshot
    <3> QED BY <1>0, <2>1, <3>1, <3>2 DEF reconciler, Exists
  <2>2. CASE check(i)
    BY <1>0, <2>0, <2>2, GotoFacts, EndFacts DEF check, At
  <2>3. CASE count_created(i)
    BY <1>0, <2>0, <2>3, GotoFacts, EndFacts DEF count_created, At
  <2>4. CASE count_deleted(i)
    BY <1>0, <2>0, <2>4, GotoFacts DEF count_deleted, At
  <2> QED BY <2>1, <2>2, <2>3, <2>4
<1>3. /\ first_step(identity[i]) \in {"check", "reject", "recover", "bare", "rm_pvc", "idle"}
      /\ first_step(identity[i]) = "check" => identity[i].life = "new"
      /\ first_step(identity[i]) \in {"reject", "recover"} => identity[i].phase \in {"Ready", "InUse", "Failed"}
      /\ first_step(identity[i]) = "bare" => identity[i].life = "terminating" /\ identity[i].phase = "None"
      /\ first_step(identity[i]) = "rm_pvc" =>
           identity[i].life = "terminating" /\ identity[i].phase \in {"Initialized", "Ready", "Failed"}
  <2>1. identity[i].phase \in {"None", "Initialized", "Ready", "InUse", "Failed"}
    BY <1>0 DEF Objects
  <2> QED BY <2>1 DEF first_step, determine_action, modify, delete
<1>4. ASSUME i \notin odd' PROVE ObjectInv(i)' /\ TaskInv(i)' /\ \A h \in Hoprds : node[h].id = i => HolderInv(h)'
  <2>1. i \notin odd /\ ObjectInv(i) /\ TaskInv(i)
    BY <1>0, <1>1, <1>4
  <2>2. Good(i)' <=> Good(i)
    BY <1>1 DEF Good
  <2>3. ObjectInv(i)'
    BY <1>1, <2>1, <2>2 DEF ObjectInv
  <2>4. identity[i].phase \in {"Ready", "InUse", "Failed"} => identity[i].life \in Finalized
    <3>1. identity[i].life \in {"absent", "new", "finalized", "terminating"}
      BY <1>0 DEF Objects, Lives
    <3> QED BY <2>1, <3>1 DEF ObjectInv, Finalized
  <2>5. TaskInv(i)'
    BY <1>1, <1>2, <1>3, <2>1, <2>2, <2>4 DEF TaskInv
  <2>6. \A h \in Hoprds : node[h].id = i => HolderInv(h)'
    BY <1>0, <1>1, HolderKept DEF Untouched
  <2> QED BY <2>3, <2>5, <2>6
<1> QED BY <1>1, <1>2, <1>4, IdentityFrame

\* The steps of the task that write the claim.
LEMMA OwnerSet ==
  ASSUME NEW u, NEW f
  PROVE  [[owner |-> 0, dying |-> f] EXCEPT !.owner = u] = [owner |-> u, dying |-> f]
OBVIOUS

LEMMA NewClaim ==
  ASSUME NEW u
  PROVE  [NoVolume EXCEPT !.owner = u] = [owner |-> u, dying |-> FALSE]
BY OwnerSet DEF NoVolume

LEMMA WholeClaims ==
  ASSUME Typed, WholeInv, NEW i \in Identities, create_pvc(i) \/ delete_pvc(i)
  PROVE  WholeInv'
<1>0. /\ identity \in [Identities -> Objects] /\ pvc \in [Identities -> Claims]
      /\ itask \in [Identities -> Tasks]
      /\ i \notin odd => ObjectInv(i) /\ TaskInv(i)
      /\ \A h \in Hoprds : HolderInv(h)
      /\ {"init", "await_pvc"} \subseteq Steps
  BY DEF Typed, IdentityTyped, WholeInv, Steps
<1>1. UNCHANGED <<identity, node, operator, odd>> /\ operator.pc = "up"
  BY TaskMeansUp DEF create_pvc, delete_pvc, At
<1>2. /\ \A j \in Identities : j # i => itask'[j] = itask[j] /\ pvc'[j] = pvc[j]
      /\ \/ itask'[i].pc = "idle" /\ pvc' = pvc
         \/ /\ itask[i].pc = "pvc" /\ itask'[i].pc = "init" /\ itask'[i].self = itask[i].self
            /\ pvc'[i] = [owner |-> itask[i].self.uid, dying |-> FALSE]
         \/ itask[i].pc = "rm_pvc" /\ itask'[i].pc = "await_pvc" /\ itask'[i].self = itask[i].self
  <2>1. CASE create_pvc(i)
    <3>1. pvc[i] = NoVolume /\ pvc' = [pvc EXCEPT ![i].owner = itask[i].self.uid] =>
            /\ pvc'[i] = [owner |-> itask[i].self.uid, dying |-> FALSE]
            /\ \A j \in Identities : j # i => pvc'[j] = pvc[j]
      BY <1>0, NewClaim
    <3> QED BY <1>0, <2>1, <3>1, GotoFacts, EndFacts DEF create_pvc, At
  <2>2. CASE delete_pvc(i)
    BY <1>0, <2>2, GotoFacts, EndFacts DEF delete_pvc, At
  <2> QED BY <2>1, <2>2
<1>3. ASSUME i \notin odd' PROVE ObjectInv(i)' /\ TaskInv(i)' /\ \A h \in Hoprds : node[h].id = i => HolderInv(h)'
  <2>1. ObjectInv(i) /\ TaskInv(i)
    BY <1>0, <1>1, <1>3
  <2>2. itask[i].pc = "pvc" => itask[i].self.uid = identity[i].uid
    BY <2>1 DEF TaskInv
  <2>3. ASSUME itask'[i].pc = "idle", pvc' = pvc PROVE ObjectInv(i)' /\ TaskInv(i)'
    BY <1>1, <2>1, <2>3 DEF ObjectInv, TaskInv, Good
  <2>4. ASSUME itask[i].pc = "pvc", itask'[i].pc = "init", itask'[i].self = itask[i].self,
               pvc'[i] = [owner |-> itask[i].self.uid, dying |-> FALSE]
        PROVE  ObjectInv(i)' /\ TaskInv(i)'
    <3>1. Good(i)'
      BY <1>1, <2>2, <2>4 DEF Good
    <3> QED BY <1>1, <2>1, <2>4, <3>1 DEF ObjectInv, TaskInv
  <2>5. ASSUME itask[i].pc = "rm_pvc", itask'[i].pc = "await_pvc", itask'[i].self = itask[i].self
        PROVE  ObjectInv(i)' /\ TaskInv(i)'
    <3>1. identity[i].life = "terminating" /\ identity[i].phase \in {"Initialized", "Ready", "Failed"}
      BY <2>1, <2>5 DEF TaskInv
    <3> QED BY <1>1, <2>1, <2>5, <3>1 DEF ObjectInv, TaskInv
  <2>6. \A h \in Hoprds : node[h].id = i => HolderInv(h)'
    BY <1>0, <1>1, HolderKept DEF Untouched
  <2> QED BY <1>2, <2>3, <2>4, <2>5, <2>6
<1> QED BY <1>1, <1>2, <1>3, IdentityFrame

LEMMA UpdatePhaseFacts ==
  ASSUME identity \in [Identities -> Objects], itask \in [Identities -> Tasks], NEW i \in Identities,
         NEW ph \in {"Initialized", "Ready", "Failed"}, NEW next \in {"idle", "count"}, UpdatePhase(i, ph, next)
  PROVE  /\ \A j \in Identities : j # i => identity'[j] = identity[j] /\ itask'[j] = itask[j]
         /\ \/ identity' = identity /\ itask'[i].pc = "idle"
            \/ /\ identity[i].life # "absent"
               /\ identity'[i].phase = ph /\ identity'[i].node = NoNode
               /\ identity'[i].life = identity[i].life /\ identity'[i].uid = identity[i].uid
               /\ itask'[i].pc = next /\ (next = "count" => itask'[i].self = itask[i].self)
<1>1. itask[i].self.gen \in Nat /\ "count" \in Steps /\ NoNode \in Hoprds \cup {NoNode} /\ ph \in Kinds
  BY DEF Tasks, Selves, Steps, Kinds
<1>2. CASE /\ Exists(i) /\ identity' = Phased(i, ph, NoNode, itask[i].self.gen)
           /\ IF next = "idle" THEN End(i) ELSE Goto(i, next)
  <2>1. /\ identity'[i].phase = ph /\ identity'[i].node = NoNode
        /\ identity'[i].life = identity[i].life /\ identity'[i].uid = identity[i].uid
        /\ \A j \in Identities : j # i => identity'[j] = identity[j]
    BY <1>1, <1>2, PhasedFacts
  <2>2. /\ itask'[i].pc = next /\ (next = "count" => itask'[i].self = itask[i].self)
        /\ \A j \in Identities : j # i => itask'[j] = itask[j]
    BY <1>1, <1>2, GotoFacts, EndFacts
  <2> QED BY <1>2, <2>1, <2>2 DEF Exists
<1>3. CASE identity' = identity /\ End(i)
  BY <1>3, EndFacts
<1> QED BY <1>2, <1>3 DEF UpdatePhase

\* The steps of the task that write the object.
LEMMA WholeObjects ==
  ASSUME Typed, WholeInv, NEW i \in Identities, ~Die,
         \/ add_finalizer(i) \/ add_owner_reference(i) \/ create_initialized(i) \/ create_ready(i)
         \/ modify_identity(i) \/ delete_finalizer(i)
  PROVE  WholeInv'
<1>0. /\ identity \in [Identities -> Objects] /\ itask \in [Identities -> Tasks]
      /\ i \notin odd => ObjectInv(i) /\ TaskInv(i)
      /\ \A h \in Hoprds : HolderInv(h)
      /\ {"owner", "pvc"} \subseteq Steps /\ identity[i].life \in {"absent", "new", "finalized", "terminating"}
      /\ pool.uid \in Nat
  BY DEF Typed, IdentityTyped, PoolTyped, WholeInv, Steps, Objects, Lives, Pools
<1>1. UNCHANGED <<pvc, node, operator>> /\ odd \subseteq odd' /\ operator.pc = "up"
  BY TaskMeansUp DEF add_finalizer, add_owner_reference, create_initialized, create_ready, modify_identity,
                     delete_finalizer, At
<1> SUFFICES /\ \A j \in Identities : j # i => identity'[j] = identity[j] /\ itask'[j] = itask[j]
             /\ i \notin odd' => /\ ObjectInv(i)' /\ TaskInv(i)'
                                /\ \A h \in Hoprds : node[h].id = i => HolderInv(h)'
  BY <1>1, IdentityFrame
<1>2. CASE add_finalizer(i)
  <2>1. /\ itask[i].pc = "finalizer" /\ itask'[i].pc = "owner" /\ itask'[i].self = itask[i].self
        /\ \A j \in Identities : j # i => itask'[j] = itask[j]
    BY <1>0, <1>2, GotoFacts DEF add_finalizer, At
  <2>2. CASE identity' = [identity EXCEPT ![i].life = IF @ = "new" THEN "finalized" ELSE @]
    <3>1. /\ identity'[i].life = (IF identity[i].life = "new" THEN "finalized" ELSE identity[i].life)
          /\ identity'[i].uid = identity[i].uid
          /\ identity'[i].phase = identity[i].phase /\ identity'[i].node = identity[i].node
          /\ \A j \in Identities : j # i => identity'[j] = identity[j]
      BY <1>0, <2>2, FinalizedFacts
    <3>2. ASSUME i \notin odd' PROVE ObjectInv(i)' /\ TaskInv(i)' /\ \A h \in Hoprds : node[h].id = i => HolderInv(h)'
      <4>1. ObjectInv(i) /\ TaskInv(i) /\ i \notin odd
        BY <1>0, <1>1, <3>2
      <4>2. identity[i].life \in {"new", "absent"} /\ identity[i].phase = "None"
        BY <2>1, <4>1 DEF ObjectInv, TaskInv
      <4>3. ObjectInv(i)' /\ TaskInv(i)'
        BY <2>1, <3>1, <4>1, <4>2 DEF ObjectInv, TaskInv, Finalized
      <4>4. \A h \in Hoprds : node[h].id = i => HolderInv(h)'
        BY <1>0, <1>1, <3>1, <4>1, <4>2 DEF HolderInv, Finalized
      <4> QED BY <4>3, <4>4
    <3> QED BY <2>1, <3>1, <3>2
  <2>3. CASE identity' = identity /\ i \in odd'
    BY <2>1, <2>3
  <2> QED BY <1>2, <2>2, <2>3 DEF add_finalizer
<1>3. CASE add_owner_reference(i)
  <2>1. /\ itask[i].pc = "owner" /\ itask'[i].pc = "pvc" /\ itask'[i].self = itask[i].self
        /\ \A j \in Identities : j # i => itask'[j] = itask[j]
    BY <1>0, <1>3, GotoFacts DEF add_owner_reference, At
  <2>2. Untouched(i) /\ \A j \in Identities : j # i => identity'[j] = identity[j]
    <3>1. identity' = identity => Untouched(i) /\ \A j \in Identities : j # i => identity'[j] = identity[j]
      BY DEF Untouched
    <3> QED BY <1>0, <1>3, <3>1, OwnedFacts DEF add_owner_reference
  <2>3. ASSUME i \notin odd' PROVE ObjectInv(i)' /\ TaskInv(i)' /\ \A h \in Hoprds : node[h].id = i => HolderInv(h)'
    <3>1. ObjectInv(i) /\ TaskInv(i)
      BY <1>0, <1>1, <2>3
    <3>2. ObjectInv(i)'
      BY <1>1, <2>2, <3>1 DEF ObjectInv, Untouched, Good
    <3>3. TaskInv(i)'
      BY <2>1, <2>2, <3>1 DEF TaskInv, Untouched
    <3>4. \A h \in Hoprds : node[h].id = i => HolderInv(h)'
      BY <1>0, <1>1, <2>2, HolderKept
    <3> QED BY <3>2, <3>3, <3>4
  <2> QED BY <2>1, <2>2, <2>3
<1>4. CASE create_initialized(i)
  <2>1. itask[i].pc = "init" /\ UpdatePhase(i, "Initialized", "count") /\ odd' = odd
    BY <1>4 DEF create_initialized, At
  <2>2. /\ \A j \in Identities : j # i => identity'[j] = identity[j] /\ itask'[j] = itask[j]
        /\ \/ identity' = identity /\ itask'[i].pc = "idle"
           \/ /\ identity[i].life # "absent"
              /\ identity'[i].phase = "Initialized" /\ identity'[i].node = NoNode
              /\ identity'[i].life = identity[i].life /\ identity'[i].uid = identity[i].uid
              /\ itask'[i].pc = "count" /\ itask'[i].self = itask[i].self
    BY <1>0, <2>1, UpdatePhaseFacts
  <2>3. ASSUME i \notin odd' PROVE ObjectInv(i)' /\ TaskInv(i)' /\ \A h \in Hoprds : node[h].id = i => HolderInv(h)'
    <3>1. ObjectInv(i) /\ TaskInv(i) /\ i \notin odd
      BY <1>0, <1>1, <2>3
    <3>2. /\ identity[i].phase = "None" /\ identity[i].life \in Finalized \cup {"absent"}
          /\ identity[i].life # "absent" => Good(i)
      BY <2>1, <3>1 DEF TaskInv
    <3>3. identity'[i].uid = identity[i].uid => (Good(i)' <=> Good(i))
      BY <1>1 DEF Good
    <3>4. ObjectInv(i)'
      BY <2>2, <3>1, <3>2, <3>3 DEF ObjectInv, Finalized
    <3>5. TaskInv(i)'
      BY <2>1, <2>2, <3>1, <3>2, <3>3 DEF TaskInv
    <3>6. \A h \in Hoprds : node[h].id = i => HolderInv(h)'
      BY <1>0, <1>1, <2>2, <3>1, <3>2 DEF HolderInv
    <3> QED BY <3>4, <3>5, <3>6
  <2> QED BY <2>2, <2>3
<1>5. CASE create_ready(i)
  <2>1. itask[i].pc = "ready" /\ UpdatePhase(i, "Ready", "idle") /\ odd' = odd
    BY <1>5 DEF create_ready, At
  <2>2. /\ \A j \in Identities : j # i => identity'[j] = identity[j] /\ itask'[j] = itask[j]
        /\ itask'[i].pc = "idle"
        /\ \/ identity' = identity
           \/ /\ identity'[i].phase = "Ready" /\ identity'[i].node = NoNode
              /\ identity'[i].life = identity[i].life /\ identity'[i].uid = identity[i].uid
    BY <1>0, <2>1, UpdatePhaseFacts
  <2>3. ASSUME i \notin odd' PROVE ObjectInv(i)' /\ TaskInv(i)' /\ \A h \in Hoprds : node[h].id = i => HolderInv(h)'
    <3>1. ObjectInv(i) /\ TaskInv(i) /\ i \notin odd
      BY <1>0, <1>1, <2>3
    <3>2. identity[i].phase = "Initialized" /\ identity[i].life \in Finalized /\ Good(i)
      BY <2>1, <3>1 DEF TaskInv
    <3>3. Good(i)'
      BY <1>1, <2>2, <3>2 DEF Good
    <3>4. ObjectInv(i)' /\ TaskInv(i)'
      BY <2>2, <3>1, <3>2, <3>3 DEF ObjectInv, TaskInv, Finalized
    <3>5. \A h \in Hoprds : node[h].id = i => HolderInv(h)'
      BY <1>0, <1>1, <2>2, <3>1, <3>2 DEF HolderInv, Finalized
    <3> QED BY <3>4, <3>5
  <2> QED BY <2>2, <2>3
<1>6. CASE modify_identity(i)
  <2>1. /\ itask[i].pc \in {"reject", "recover"}
        /\ \E ph \in {"Ready", "Failed"} : UpdatePhase(i, ph, "idle")
        /\ odd' = IF identity[i].phase = "InUse" THEN odd \cup {i} ELSE odd
    BY <1>6 DEF modify_identity, At
  <2>2. /\ \A j \in Identities : j # i => identity'[j] = identity[j] /\ itask'[j] = itask[j]
        /\ itask'[i].pc = "idle"
        /\ \/ identity' = identity
           \/ /\ identity'[i].phase \in {"Ready", "Failed"} /\ identity'[i].node = NoNode
              /\ identity'[i].life = identity[i].life /\ identity'[i].uid = identity[i].uid
    BY <1>0, <2>1, UpdatePhaseFacts
  <2>3. ASSUME i \notin odd' PROVE ObjectInv(i)' /\ TaskInv(i)' /\ \A h \in Hoprds : node[h].id = i => HolderInv(h)'
    <3>1. ObjectInv(i) /\ TaskInv(i) /\ i \notin odd /\ identity[i].phase # "InUse"
      BY <1>0, <1>1, <2>1, <2>3
    <3>2. identity[i].phase \in {"Ready", "Failed"} /\ identity[i].life \in Finalized
      BY <2>1, <3>1 DEF TaskInv
    <3>3. identity[i].life = "finalized" => Good(i)'
      BY <1>1, <2>2, <3>1, <3>2 DEF Good, ObjectInv
    <3>4. ObjectInv(i)' /\ TaskInv(i)'
      BY <2>2, <3>1, <3>2, <3>3 DEF ObjectInv, TaskInv, Finalized
    <3>5. \A h \in Hoprds : node[h].id = i => HolderInv(h)'
      BY <1>0, <1>1, <2>2, <3>1, <3>2 DEF HolderInv, Finalized
    <3> QED BY <3>4, <3>5
  <2> QED BY <2>2, <2>3
<1>7. CASE delete_finalizer(i)
  <2>1. /\ itask[i].pc \in {"unfinalize", "bare"} /\ itask'[i].pc = "idle" /\ odd' = odd
        /\ \A j \in Identities : j # i => itask'[j] = itask[j]
        /\ identity' = identity \/ identity' = [identity EXCEPT ![i] = Gone(@.uid)]
    BY <1>0, <1>7, EndFacts DEF delete_finalizer, At
  <2>2. CASE identity' = identity
    <3>1. ASSUME i \notin odd' PROVE ObjectInv(i)' /\ TaskInv(i)'
      BY <1>0, <1>1, <2>1, <2>2, <3>1 DEF ObjectInv, TaskInv, Good
    <3>2. \A h \in Hoprds : node[h].id = i => HolderInv(h)'
      BY <1>0, <1>1, <2>2, HolderKept DEF Untouched
    <3> QED BY <2>1, <2>2, <3>1, <3>2
  <2>3. CASE identity' = [identity EXCEPT ![i] = Gone(@.uid)]
    <3>1. /\ identity'[i].life = "absent" /\ identity'[i].uid = identity[i].uid
          /\ identity'[i].phase = "None" /\ identity'[i].node = NoNode
          /\ \A j \in Identities : j # i => identity'[j] = identity[j]
      BY <1>0, <2>3, RemovedFacts
    <3>2. ASSUME i \notin odd' PROVE ObjectInv(i)' /\ TaskInv(i)' /\ \A h \in Hoprds : node[h].id = i => HolderInv(h)'
      <4>1. i \notin odd /\ identity[i].phase # "InUse"
        BY <1>0, <1>1, <2>1, <3>2 DEF TaskInv
      <4>2. ObjectInv(i)' /\ TaskInv(i)'
        BY <2>1, <3>1 DEF ObjectInv, TaskInv
      <4>3. \A h \in Hoprds : node[h].id = i => HolderInv(h)'
        BY <1>0, <1>1, <3>1, <4>1 DEF HolderInv
      <4> QED BY <4>2, <4>3
    <3> QED BY <2>1, <3>1, <3>2
  <2> QED BY <2>1, <2>2, <2>3
<1> QED BY <1>2, <1>3, <1>4, <1>5, <1>6, <1>7

-----------------------------------------------------------------------------
(***************************************************************************)
(* The steps of a node.                                                    *)
(***************************************************************************)

\* What a node does between its calls runs only in an operator that is up.
LEMMA NodeMeansUp ==
  ASSUME WholeInv, NEW h \in Hoprds, node[h].pc \in Running
  PROVE  operator.pc = "up"
BY DEF WholeInv, UpInv

\* The steps that leave the identity alone.
LEMMA WholeNodeMoves ==
  ASSUME Typed, WholeInv, NEW h \in Hoprds, ~Die,
         \/ UserCreateNode(h) \/ UserDeleteNode(h) \/ delete_deployment(h) \/ lock_identity(h) \/ count_lock(h)
         \/ finalize_node(h) \/ create_deployment(h) \/ get_identity(h) \/ count_unlock(h)
  PROVE  WholeInv'
<1>0. /\ node \in [Hoprds -> Nodes] /\ identity \in [Identities -> Objects]
      /\ node[h].pc # "absent" => node[h].id \in Identities
      /\ HolderInv(h)
      /\ {"wait", "claim", "locked", "held", "in", "stuck", "get", "release"} \subseteq NodeSteps
  BY DEF Typed, IdentityTyped, WholeInv, NodeSteps
<1>1. UNCHANGED <<identity, pvc, itask, operator, odd>>
  BY DEF UserCreateNode, UserDeleteNode, delete_deployment, lock_identity, count_lock, finalize_node,
         create_deployment, get_identity, count_unlock
<1>2. CASE UserCreateNode(h) \/ UserDeleteNode(h) \/ count_unlock(h)
  <2>1. node'[h].pc \in {"absent", "wait"} /\ \A k \in Hoprds : k # h => node'[k] = node[k]
    <3>1. ASSUME NEW i \in Identities PROVE [Out EXCEPT !.pc = "wait", !.id = i].pc = "wait"
      BY DEF Out
    <3>2. CASE UserCreateNode(h)
      <4>1. PICK i \in Identities : node' = [node EXCEPT ![h] = [Out EXCEPT !.pc = "wait", !.id = i]]
        BY <3>2 DEF UserCreateNode
      <4> QED BY <1>0, <3>1, <4>1
    <3>3. CASE node' = [node EXCEPT ![h] = Out]
      BY <1>0, <3>3, NodeOutFacts
    <3> QED BY <1>2, <3>2, <3>3 DEF UserDeleteNode, count_unlock
  <2>2. HolderInv(h)'
    BY <2>1 DEF HolderInv, Using
  <2> QED BY <1>1, <2>1, <2>2, NodeFrame DEF Running, Using
<1>3. CASE delete_deployment(h) \/ count_lock(h) \/ finalize_node(h) \/ create_deployment(h)
  <2>1. /\ node[h].pc \in Using /\ node'[h].pc \in Using \ {"count"} /\ node'[h].id = node[h].id
        /\ \A k \in Hoprds : k # h => node'[k] = node[k]
    BY <1>0, <1>3, NodeGotoFacts DEF delete_deployment, count_lock, finalize_node, create_deployment, Using
  <2>2. operator.pc = "up"
    BY <1>3, NodeMeansUp DEF delete_deployment, count_lock, finalize_node, create_deployment, Running
  <2>3. HolderInv(h)'
    BY <1>0, <1>1, <2>1 DEF HolderInv, Using
  <2> QED BY <1>1, <2>1, <2>2, <2>3, NodeFrame DEF Using
<1>4. CASE lock_identity(h)
  <2>1. /\ node'[h].pc = "claim" /\ node'[h].id = node[h].id /\ identity[node[h].id].phase = "Ready"
        /\ \A k \in Hoprds : k # h => node'[k] = node[k]
    <3>1. /\ node[h].pc = "wait" /\ identity[node[h].id].phase = "Ready"
          /\ node' = [node EXCEPT ![h] = [Fetched(node[h], identity[node[h].id]) EXCEPT !.pc = "claim"]]
      BY <1>4 DEF lock_identity
    <3>2. identity[node[h].id] \in Objects
      BY <1>0, <3>1
    <3> QED BY <1>0, <3>1, <3>2, NodeFetchedFacts
  <2>2. HolderInv(h)'
    BY <1>1, <2>1 DEF HolderInv, Using
  <2> QED BY <1>1, <1>4, <2>1, <2>2, NodeFrame DEF lock_identity
<1>5. CASE get_identity(h)
  <2>1. node[h].pc = "get" /\ operator.pc = "up"
    BY <1>5, NodeMeansUp DEF get_identity, Running
  <2>2. /\ node'[h].pc = "absent" \/ (node'[h].pc = "release" /\ node'[h].id = node[h].id)
        /\ \A k \in Hoprds : k # h => node'[k] = node[k]
    <3>1. CASE node' = [node EXCEPT ![h] = Out]
      BY <1>0, <3>1, NodeOutFacts
    <3>2. CASE node' = [node EXCEPT ![h] = [Fetched(node[h], identity[node[h].id]) EXCEPT !.pc = "release"]]
      BY <1>0, <2>1, <3>2, NodeFetchedFacts
    <3> QED BY <1>5, <3>1, <3>2 DEF get_identity
  <2>3. HolderInv(h)'
    BY <1>0, <1>1, <2>1, <2>2 DEF HolderInv, Using
  <2> QED BY <1>1, <2>1, <2>2, <2>3, NodeFrame
<1> QED BY <1>2, <1>3, <1>4, <1>5

\* A step of node h on its identity.
LEMMA NodeIdentityFrame ==
  ASSUME Typed, WholeInv, NEW h \in Hoprds, NEW i \in Identities, node[h].id = i, UNCHANGED <<pvc, itask, operator>>,
         operator.pc = "up", odd \subseteq odd',
         \A k \in Hoprds : k # h => node'[k] = node[k],
         node'[h].id = i,
         \A j \in Identities : j # i => identity'[j] = identity[j],
         node'[h].pc \in {"claim", "count"} => node[h].pc \in {"claim", "count"},
         i \notin odd' => ObjectInv(i)' /\ TaskInv(i)' /\ \A k \in Hoprds : node[k].id = i => HolderInv(k)'
  PROVE  WholeInv'
<1>0. /\ \A j \in Identities \ odd : ObjectInv(j) /\ TaskInv(j)
      /\ \A k \in Hoprds : HolderInv(k)
      /\ LockInv
      /\ \A k \in Hoprds : node[k].pc # "absent" => node[k].id \in Identities
  BY DEF WholeInv, Typed, IdentityTyped
<1>1. ASSUME NEW j \in Identities, j # i PROVE Untouched(j)
  BY <1>1 DEF Untouched
<1>2. ASSUME NEW j \in Identities \ odd' PROVE ObjectInv(j)' /\ TaskInv(j)'
  <2>1. CASE j = i
    BY <1>2, <2>1
  <2>2. CASE j # i
    BY <1>0, <1>1, <1>2, <2>2, IdentityKept
  <2> QED BY <2>1, <2>2
<1>3. ASSUME NEW k \in Hoprds PROVE HolderInv(k)'
  <2>1. CASE node[k].id = i /\ i \notin odd'
    BY <2>1
  <2>2. CASE node[k].id = i /\ i \in odd'
    BY <2>2 DEF HolderInv
  <2>3. CASE node[k].id # i
    BY <1>0, <1>1, <2>3, HolderKept
  <2> QED BY <2>1, <2>2, <2>3
<1>4. LockInv'
  BY <1>0 DEF LockInv
<1>5. UpInv'
  BY DEF UpInv
<1> QED BY <1>2, <1>3, <1>4, <1>5 DEF WholeInv


\* The steps that write the phase of the identity.
LEMMA WholeLocks ==
  ASSUME Typed, WholeInv, NEW h \in Hoprds, claim_identity(h) \/ release_identity(h)
  PROVE  WholeInv'
<1>0. /\ node \in [Hoprds -> Nodes] /\ identity \in [Identities -> Objects]
      /\ node[h].id \in Identities /\ node[h].gen \in Nat /\ node[h].pc \in {"claim", "release"}
      /\ \A k \in Hoprds : HolderInv(k)
      /\ {"wait", "count", "uncount", "wedged"} \subseteq NodeSteps
      /\ operator.pc = "up"
      /\ LockInv
  <2>1. node[h].pc \in {"claim", "release"} /\ node[h].pc \in Running
    BY DEF claim_identity, release_identity, Running
  <2>2. node \in [Hoprds -> Nodes] /\ node[h].gen \in Nat
    BY DEF Typed, IdentityTyped, Nodes
  <2> QED BY <2>1, <2>2, NodeMeansUp DEF Typed, IdentityTyped, WholeInv, NodeSteps
<1> DEFINE i == node[h].id
<1>1. UNCHANGED <<pvc, itask, operator>> /\ odd \subseteq odd'
  BY DEF claim_identity, release_identity
<1>2. PICK j \in Identities : j = i
  BY <1>0
<1>3. CASE UNCHANGED <<identity, odd>> /\ \E pc \in {"wait", "wedged"} : NodeGoto(h, pc)
  <2>1. node'[h].pc \in {"wait", "wedged"} /\ \A k \in Hoprds : k # h => node'[k] = node[k]
    BY <1>0, <1>3, NodeGotoFacts
  <2>2. HolderInv(h)'
    BY <2>1 DEF HolderInv, Using
  <2> QED BY <1>1, <1>3, <2>1, <2>2, NodeFrame DEF Running, Using
<1>4. ASSUME j \notin odd'
      PROVE  ObjectInv(j) /\ TaskInv(j) /\ j \notin odd /\ HolderInv(h)
  BY <1>0, <1>1, <1>4 DEF WholeInv
<1>5. CASE /\ claim_identity(h) /\ Exists(j) /\ identity' = Phased(j, "InUse", h, node[h].gen)
           /\ odd' = (IF Terminating(j) THEN odd \cup {j} ELSE odd) /\ NodeGoto(h, "count")
  <2>1. /\ identity'[j].phase = "InUse" /\ identity'[j].node = h
        /\ identity'[j].life = identity[j].life /\ identity'[j].uid = identity[j].uid
        /\ \A k \in Identities : k # j => identity'[k] = identity[k]
    BY <1>0, <1>5, PhasedFacts DEF Kinds
  <2>2. /\ node[h].pc = "claim" /\ node'[h].pc = "count" /\ node'[h].id = j
        /\ \A k \in Hoprds : k # h => node'[k] = node[k]
    BY <1>0, <1>2, <1>5, NodeGotoFacts DEF claim_identity
  <2>3. ASSUME j \notin odd' PROVE ObjectInv(j)' /\ TaskInv(j)' /\ \A k \in Hoprds : node[k].id = j => HolderInv(k)'
    <3>1. ObjectInv(j) /\ TaskInv(j) /\ j \notin odd /\ identity[j].life # "absent" /\ identity[j].life # "terminating"
      BY <1>4, <1>5, <2>3 DEF Exists, Terminating
    <3>2. identity[j].phase \in {"Ready", "Failed"}
      BY <1>2, <1>4, <2>2, <2>3, <3>1 DEF HolderInv
    <3>3. identity[j].life = "finalized"
      <4>1. identity[j].life \in {"absent", "new", "finalized", "terminating"}
        BY <1>0 DEF Objects, Lives
      <4> QED BY <3>1, <3>2, <4>1 DEF ObjectInv
    <3>4. Good(j)'
      BY <1>1, <2>1, <3>1, <3>2, <3>3 DEF Good, ObjectInv
    <3>5. ObjectInv(j)'
      BY <2>1, <3>3, <3>4, NamesAssumption DEF ObjectInv
    <3>6. TaskInv(j)'
      BY <1>1, <2>1, <3>1, <3>2, <3>3, <3>4 DEF TaskInv, Finalized
    <3>7. ASSUME NEW k \in Hoprds, node[k].id = j PROVE HolderInv(k)'
      <4>1. CASE k = h
        BY <2>1, <2>2, <3>3, <4>1 DEF HolderInv, Finalized
      <4>2. CASE k # h
        <5>1. HolderInv(k) /\ node[k].pc # "claim"
          BY <1>0, <2>2, <4>2 DEF LockInv
        <5>2. node[k].pc \notin Using
          BY <3>1, <3>2, <3>7, <5>1 DEF HolderInv
        <5> QED BY <2>2, <4>2, <5>1, <5>2 DEF HolderInv
      <4> QED BY <4>1, <4>2
    <3> QED BY <3>5, <3>6, <3>7
  <2> QED BY <1>0, <1>1, <1>2, <2>1, <2>2, <2>3, NodeIdentityFrame
<1>6. CASE /\ release_identity(h) /\ Exists(j) /\ identity' = Phased(j, "Ready", NoNode, node[h].gen)
           /\ NodeGoto(h, "uncount")
  <2>1. /\ identity'[j].phase = "Ready" /\ identity'[j].node = NoNode
        /\ identity'[j].life = identity[j].life /\ identity'[j].uid = identity[j].uid
        /\ \A k \in Identities : k # j => identity'[k] = identity[k]
    BY <1>0, <1>6, PhasedFacts DEF Kinds
  <2>2. /\ node[h].pc = "release" /\ node'[h].pc = "uncount" /\ node'[h].id = j
        /\ \A k \in Hoprds : k # h => node'[k] = node[k]
    BY <1>0, <1>2, <1>6, NodeGotoFacts DEF release_identity
  <2>3. ASSUME j \notin odd' PROVE ObjectInv(j)' /\ TaskInv(j)' /\ \A k \in Hoprds : node[k].id = j => HolderInv(k)'
    <3>1. ObjectInv(j) /\ TaskInv(j) /\ j \notin odd
      BY <1>4, <2>3
    <3>2. identity[j].phase = "InUse" /\ identity[j].node = h /\ identity[j].life \in Finalized
      BY <1>2, <1>4, <2>2, <2>3 DEF HolderInv, Using
    <3>3. Good(j)'
      BY <1>1, <2>1, <3>1, <3>2 DEF Good, ObjectInv
    <3>4. ObjectInv(j)'
      BY <2>1, <3>2, <3>3 DEF ObjectInv, Finalized
    <3>5. TaskInv(j)'
      BY <1>1, <2>1, <3>1, <3>2, <3>3 DEF TaskInv
    <3>6. ASSUME NEW k \in Hoprds, node[k].id = j PROVE HolderInv(k)'
      <4>1. CASE k = h
        BY <2>2, <4>1 DEF HolderInv, Using
      <4>2. CASE k # h
        <5>1. node[k].pc \notin Using
          BY <1>0, <3>1, <3>2, <3>6, <4>2 DEF HolderInv
        <5> QED BY <2>1, <2>2, <3>6, <4>2, <5>1 DEF HolderInv
      <4> QED BY <4>1, <4>2
    <3> QED BY <3>4, <3>5, <3>6
  <2> QED BY <1>0, <1>1, <1>2, <2>1, <2>2, <2>3, NodeIdentityFrame
<1>7. CASE claim_identity(h)
  BY <1>2, <1>3, <1>5, <1>7 DEF claim_identity
<1>8. CASE release_identity(h)
  BY <1>2, <1>3, <1>6, <1>8 DEF release_identity
<1> QED BY <1>7, <1>8

-----------------------------------------------------------------------------
(***************************************************************************)
(* The start of the operator.                                              *)
(***************************************************************************)

LEMMA WholeStart ==
  ASSUME Typed, WholeInv, StartNext
  PROVE  WholeInv'
<1>0. /\ \A j \in Identities \ odd : ObjectInv(j) /\ TaskInv(j)
      /\ \A h \in Hoprds : HolderInv(h)
      /\ LockInv /\ UpInv
      /\ identity \in [Identities -> Objects] /\ operator \in Operators
      /\ \A h \in Hoprds : node[h].pc # "absent" => node[h].id \in Identities
  BY DEF WholeInv, Typed, IdentityTyped
<1>1. CASE start_controllers
  <2>1. /\ UNCHANGED <<identity, pvc, itask, node, odd>> /\ operator.pc = "down" /\ operator'.pc = "sync"
        /\ operator'.todo = {i \in Held : node[identity[i].node].pc = "absent"}
    BY <1>1 DEF start_controllers
  <2>2. \A j : Untouched(j)
    BY <2>1 DEF Untouched
  <2>3. \A j \in Identities \ odd' : ObjectInv(j)' /\ TaskInv(j)'
    BY <1>0, <2>1, <2>2, IdentityKept
  <2>4. \A h \in Hoprds : HolderInv(h)'
    BY <1>0, <2>1, <2>2, HolderKept
  <2>5. ASSUME NEW i \in operator'.todo \ odd'
        PROVE  /\ identity[i].life \in Finalized /\ identity[i].phase = "InUse"
               /\ \A h \in Hoprds : node[h].id = i => node[h].pc \notin Using
    <3>1. i \in Identities \ odd /\ identity[i].node # NoNode /\ node[identity[i].node].pc = "absent"
      BY <2>1, <2>5 DEF Held
    <3>2. identity[i].life \in {"absent", "new", "finalized", "terminating"}
      BY <1>0, <3>1 DEF Objects, Lives
    <3>3. identity[i].life \in Finalized /\ identity[i].phase = "InUse"
      BY <1>0, <3>1, <3>2 DEF ObjectInv, Finalized
    <3>4. \A h \in Hoprds : node[h].id = i => node[h].pc \notin Using
      BY <1>0, <3>1 DEF HolderInv, Using
    <3> QED BY <3>3, <3>4
  <2>6. LockInv' /\ UpInv'
    BY <1>0, <2>1, <2>5 DEF LockInv, UpInv
  <2> QED BY <2>3, <2>4, <2>6 DEF WholeInv
<1>2. ASSUME NEW i \in Identities, sync_identities(i) PROVE WholeInv'
  <2>1. /\ UNCHANGED <<pvc, itask, node, odd>> /\ operator.pc = "sync" /\ i \in operator.todo
        /\ operator' = [pc |-> "down", todo |-> {}] \/ operator' = [operator EXCEPT !.todo = @ \ {i}]
    BY <1>2 DEF sync_identities
  <2>2. operator'.pc \in {"sync", "down"} /\ (operator'.pc = "sync" => operator'.todo = operator.todo \ {i})
    BY <1>0, <2>1 DEF Operators
  <2>3. /\ identity'[i].phase = "Ready" /\ identity'[i].node = NoNode
        /\ identity'[i].life = identity[i].life /\ identity'[i].uid = identity[i].uid
        /\ \A j \in Identities : j # i => identity'[j] = identity[j]
    <3>1. identity[i].gen \in Nat
      BY <1>0 DEF Objects
    <3> QED BY <1>0, <1>2, <3>1, PhasedFacts DEF sync_identities, Kinds
  <2>4. ASSUME i \notin odd
        PROVE  /\ identity[i].life \in Finalized /\ identity[i].phase = "InUse"
               /\ \A h \in Hoprds : node[h].id = i => node[h].pc \notin Using
    BY <1>0, <2>1, <2>4 DEF UpInv
  <2>5. \A j \in Identities : itask[j].pc = "idle" /\ (j # i => Untouched(j))
    BY <1>0, <2>1, <2>3 DEF UpInv, Untouched
  <2>6. ASSUME NEW j \in Identities \ odd' PROVE ObjectInv(j)' /\ TaskInv(j)'
    <3>1. CASE j # i
      BY <1>0, <2>1, <2>5, <2>6, <3>1, IdentityKept
    <3>2. CASE j = i
      <4>1. ObjectInv(i) /\ Good(i)' /\ i \notin odd
        BY <1>0, <2>1, <2>3, <2>4, <2>6, <3>2 DEF Good, ObjectInv
      <4>2. ObjectInv(i)'
        BY <2>3, <2>4, <4>1 DEF ObjectInv, Finalized
      <4>3. TaskInv(i)'
        BY <2>1, <2>5 DEF TaskInv
      <4> QED BY <3>2, <4>2, <4>3
    <3> QED BY <3>1, <3>2
  <2>7. ASSUME NEW h \in Hoprds PROVE HolderInv(h)'
    <3>1. CASE node[h].id # i
      BY <1>0, <2>1, <2>5, <3>1, HolderKept
    <3>2. CASE node[h].id = i
      BY <2>1, <2>3, <2>4, <3>2 DEF HolderInv
    <3> QED BY <3>1, <3>2
  <2>8. LockInv' /\ UpInv'
    <3>1. LockInv'
      BY <1>0, <2>1 DEF LockInv
    <3>2. /\ \A j \in Identities : itask'[j].pc = "idle"
          /\ \A h \in Hoprds : node'[h].pc \notin Running
      BY <1>0, <2>1 DEF UpInv
    <3>3. ASSUME operator'.pc = "sync", NEW j \in operator'.todo \ odd'
          PROVE  /\ identity'[j].life \in Finalized /\ identity'[j].phase = "InUse"
                 /\ \A h \in Hoprds : node'[h].id = j => node'[h].pc \notin Using
      <4>1. j \in operator.todo \ odd /\ j # i /\ j \in Identities
        BY <1>0, <2>1, <2>2, <3>3 DEF Operators
      <4> QED BY <1>0, <2>1, <2>3, <4>1 DEF UpInv
    <3> QED BY <2>2, <3>1, <3>2, <3>3 DEF UpInv
  <2> QED BY <2>6, <2>7, <2>8 DEF WholeInv
<1>3. CASE sync_identity_pools
  <2>1. UNCHANGED <<identity, pvc, itask, node, odd>> /\ operator'.pc = "up"
    BY <1>0, <1>3 DEF sync_identity_pools, Operators
  <2>2. \A j : Untouched(j)
    BY <2>1 DEF Untouched
  <2>3. \A j \in Identities \ odd' : ObjectInv(j)' /\ TaskInv(j)'
    BY <1>0, <2>1, <2>2, IdentityKept
  <2>4. \A h \in Hoprds : HolderInv(h)'
    BY <1>0, <2>1, <2>2, HolderKept
  <2>5. LockInv' /\ UpInv'
    BY <1>0, <2>1 DEF LockInv, UpInv
  <2> QED BY <2>3, <2>4, <2>5 DEF WholeInv
<1> QED BY <1>1, <1>2, <1>3 DEF StartNext


-----------------------------------------------------------------------------
(***************************************************************************)
(* The theorems.                                                           *)
(***************************************************************************)

LEMMA WholeNext == Typed /\ WholeInv /\ [Next]_vars => WholeInv'
<1> SUFFICES ASSUME Typed, WholeInv, [Next]_vars PROVE WholeInv'
  OBVIOUS
<1>1. CASE Die
  BY <1>1, WholeDie
<1>2. CASE PoolSide /\ ~Die
  BY <1>2, PoolSideFrame, NothingTouched
<1>3. ASSUME NEW i \in Identities, ~Die,
             \/ UserCreate(i) \/ UserEdit(i) \/ UserDelete(i) \/ CollectIdentity(i) \/ CollectVolume(i)
             \/ IdentityNext(i)
      PROVE  WholeInv'
  BY <1>3, WholeUsers, WholeMoves, WholeClaims, WholeObjects DEF IdentityNext
<1>4. ASSUME NEW h \in Hoprds, ~Die,
             UserCreateNode(h) \/ UserDeleteNode(h) \/ delete_deployment(h) \/ NodeNext(h)
      PROVE  WholeInv'
  BY <1>4, WholeNodeMoves, WholeLocks DEF NodeNext
<1>5. CASE StartNext
  BY <1>5, WholeStart
<1>6. CASE UNCHANGED vars
  BY <1>6, NothingTouched DEF vars
<1> QED BY <1>1, <1>2, <1>3, <1>4, <1>5, <1>6 DEF Next, PoolSide, Crash

\* Identity, volume claim, task and node stay together through every crash, failed call and interleaving.
THEOREM WholeInvariant == Spec => [](Typed /\ WholeInv)
<1>1. Init => Typed /\ WholeInv
  BY TypeInit, WholeInit
<1>2. Typed /\ WholeInv /\ [Next]_vars => (Typed /\ WholeInv)'
  BY TypeNext, WholeNext
<1> QED BY <1>1, <1>2, PTL DEF Spec

\* An identity that lock_identity may hand out, or that is handed out, has a claim of its own that nobody
\* deletes, whatever call of IdentityHoprd::create fails and wherever the operator crashes.
THEOREM ReadyVolume == Spec => []ReadyHasVolume
<1>1. WholeInv => ReadyHasVolume
  BY DEF WholeInv, ObjectInv, Good, ReadyHasVolume
<1> QED BY <1>1, WholeInvariant, PTL

\* The identity that a node is deployed with is the node's alone and keeps its claim, although the user may
\* delete or edit it, and other nodes may lock, meanwhile.
THEOREM UsedWhole == Spec => []UsedIsWhole
<1>1. ASSUME Typed, WholeInv PROVE UsedIsWhole
  <2> SUFFICES ASSUME NEW h \in Hoprds, node[h].pc \in {"locked", "held", "in"}, node[h].id \notin odd
               PROVE  /\ identity[node[h].id].life \in {"finalized", "terminating"}
                      /\ identity[node[h].id].phase = "InUse" /\ identity[node[h].id].node = h
                      /\ pvc[node[h].id] = [owner |-> identity[node[h].id].uid, dying |-> FALSE]
    BY DEF UsedIsWhole
  <2>1. node[h].id \in Identities \ odd
    BY <1>1 DEF Typed, IdentityTyped
  <2>2. HolderInv(h) /\ ObjectInv(node[h].id)
    BY <1>1, <2>1 DEF WholeInv
  <2>3. /\ identity[node[h].id].life \in Finalized
        /\ identity[node[h].id].phase = "InUse" /\ identity[node[h].id].node = h
    BY <2>1, <2>2 DEF HolderInv, Using
  <2>4. Good(node[h].id)
    BY <2>2, <2>3 DEF ObjectInv
  <2> QED BY <2>3, <2>4 DEF Finalized, Good
<1> QED BY <1>1, WholeInvariant, PTL

\* A step by which identity i goes.
LEMMA WhoRemoves ==
  ASSUME Typed, WholeInv, [Next]_vars, NEW i \in Identities, Exists(i), identity'[i].life = "absent"
  PROVE  \/ identity[i].life = "new"
         \/ itask[i].pc \in {"unfinalize", "bare"}
<1> SUFFICES ASSUME identity[i].life # "new", itask[i].pc \notin {"unfinalize", "bare"}
             PROVE  FALSE
  OBVIOUS
<1>0. identity \in [Identities -> Objects] /\ itask \in [Identities -> Tasks] /\ identity[i].life # "absent"
  BY DEF Typed, IdentityTyped, Exists
<1>1. identity'[i] # identity[i]
  BY <1>0
<1>2. ~Die /\ ~PoolSide /\ ~UNCHANGED vars
  BY <1>1, PoolSideFrame DEF Die, vars
<1>3. ASSUME NEW j \in Identities, UserCreate(j) \/ UserEdit(j) PROVE FALSE
  BY <1>0, <1>3, CreatedFacts, EditedFacts DEF UserCreate, UserEdit, Untouched
<1>4. ASSUME NEW j \in Identities, UserDelete(j) \/ CollectIdentity(j) PROVE FALSE
  <2>1. identity[j].life \in {"new", "finalized"} /\ identity' = Marked(j)
    BY <1>4 DEF UserDelete, CollectIdentity
  <2> QED BY <1>0, <2>1, MarkedFacts
<1>5. ASSUME NEW j \in Identities,
             \/ CollectVolume(j) \/ reconciler(j) \/ check(j) \/ count_created(j) \/ create_pvc(j)
             \/ delete_pvc(j) \/ count_deleted(j)
      PROVE  FALSE
  BY <1>1, <1>2, <1>5 DEF CollectVolume, reconciler, check, count_created, create_pvc, delete_pvc, count_deleted
<1>6. ASSUME NEW j \in Identities, add_finalizer(j) PROVE FALSE
  <2>1. identity' = [identity EXCEPT ![j].life = IF @ = "new" THEN "finalized" ELSE @]
    BY <1>1, <1>6 DEF add_finalizer
  <2> QED BY <1>0, <2>1, FinalizedFacts
<1>7. ASSUME NEW j \in Identities, add_owner_reference(j) PROVE FALSE
  <2>1. identity' = [identity EXCEPT ![j].owner = pool.uid] /\ pool.uid \in Nat
    BY <1>1, <1>2, <1>7 DEF add_owner_reference, Typed, PoolTyped, Pools
  <2> QED BY <1>0, <2>1, OwnedFacts DEF Untouched
<1>8. ASSUME NEW j \in Identities, create_initialized(j) \/ create_ready(j) \/ modify_identity(j) PROVE FALSE
  <2>1. \E ph \in {"Initialized", "Ready", "Failed"}, next \in {"idle", "count"} : UpdatePhase(j, ph, next)
    BY <1>2, <1>8 DEF create_initialized, create_ready, modify_identity
  <2> QED BY <1>0, <2>1, UpdatePhaseFacts
<1>9. ASSUME NEW j \in Identities, delete_finalizer(j) PROVE FALSE
  <2>1. j # i
    BY <1>9 DEF delete_finalizer, At
  <2> QED BY <1>0, <1>1, <1>2, <1>9, <2>1, RemovedFacts DEF delete_finalizer
<1>10. ASSUME NEW h \in Hoprds,
              \/ UserCreateNode(h) \/ UserDeleteNode(h) \/ delete_deployment(h) \/ lock_identity(h)
              \/ count_lock(h) \/ finalize_node(h) \/ create_deployment(h) \/ get_identity(h) \/ count_unlock(h)
       PROVE  FALSE
  BY <1>1, <1>2, <1>10 DEF UserCreateNode, UserDeleteNode, delete_deployment, lock_identity, count_lock,
                           finalize_node, create_deployment, get_identity, count_unlock
<1>11. ASSUME NEW h \in Hoprds, claim_identity(h) \/ release_identity(h) PROVE FALSE
  <2>1. node[h].gen \in Nat /\ node[h].id \in Identities
    <3>1. node[h].gen \in Nat
      BY DEF Typed, IdentityTyped, Nodes
    <3>2. node[h].pc # "absent"
      BY <1>11 DEF claim_identity, release_identity
    <3> QED BY <3>1, <3>2 DEF Typed, IdentityTyped
  <2>2. \E ph \in Kinds, n \in Hoprds \cup {NoNode} : identity' = Phased(node[h].id, ph, n, node[h].gen)
    BY <1>1, <1>11 DEF claim_identity, release_identity, Kinds
  <2> QED BY <1>0, <2>1, <2>2, PhasedFacts
<1>12. ASSUME StartNext PROVE FALSE
  <2>1. PICK j \in Identities : sync_identities(j)
    BY <1>1, <1>12 DEF StartNext, start_controllers, sync_identity_pools
  <2>2. identity[j].gen \in Nat
    BY <1>0 DEF Objects
  <2> QED BY <1>0, <2>1, <2>2, PhasedFacts DEF sync_identities, Kinds
<1>13. ASSUME NEW j \in Identities, IdentityNext(j) PROVE FALSE
  BY <1>5, <1>6, <1>7, <1>8, <1>9, <1>13 DEF IdentityNext
<1>14. ASSUME NEW h \in Hoprds, NodeNext(h) PROVE FALSE
  BY <1>10, <1>11, <1>14 DEF NodeNext
<1> QED BY <1>2, <1>3, <1>4, <1>5, <1>10, <1>12, <1>13, <1>14 DEF Next, PoolSide, Crash

\* IdentityHoprd::delete lets an identity go only after its claim is gone from the cluster, and never while a
\* node holds it, in spite of its unfinished and repeated attempts.
THEOREM DeletedWhole == Spec => RemovedWhole
<1>1. ASSUME Typed, WholeInv, [Next]_vars, NEW i \in Identities \ odd, Exists(i), ~Exists(i)',
             identity[i].phase # "None"
      PROVE  pvc[i] = NoVolume /\ identity[i].phase # "InUse"
  <2>1. ObjectInv(i) /\ TaskInv(i) /\ identity'[i].life = "absent"
    BY <1>1 DEF WholeInv, Exists
  <2>2. itask[i].pc \in {"unfinalize", "bare"}
    BY <1>1, <2>1, WhoRemoves DEF ObjectInv
  <2> QED BY <1>1, <2>1, <2>2 DEF TaskInv
<1>2. Typed /\ WholeInv /\ [Next]_vars =>
        [\A i \in Identities \ odd : Exists(i) /\ ~Exists(i)' /\ identity[i].phase # "None" =>
           pvc[i] = NoVolume /\ identity[i].phase # "InUse"]_vars
  BY <1>1
<1> QED BY <1>2, WholeInvariant, PTL DEF Spec, RemovedWhole

-----------------------------------------------------------------------------
(***************************************************************************)
(* The pool of an operator that meets no fault: what its task, its cached  *)
(* copy and its cron job know of its spec.                                 *)
(***************************************************************************)

\* The steps of IdentityPool::create, up to the cron job and after it, and of IdentityPool::delete.
Preparing == {"wallet", "finalizer", "monitor", "rbac", "create_cron"}

Making == Preparing \cup {"initialized", "ready", "add"}

Removing == {"rm_monitor", "rm_rbac", "rm_cron", "unfinalize"}

\* The cron job is there exactly if f, the funding that somebody knows of, says so.
Follows(f) == helper["cron"] = pool.uid <=> f

\* The pool has met nothing that a predecessor left.
Clean == Faultless /\ ("pool" \notin odd \/ MaxPools <= 1)

\* Nothing has crashed, the lock is held only to count in a cached pool, and before the first pool there
\* is nothing of a pool.
QuietInv ==
  /\ trouble \in [edits : Nat, faults : Nat]
  /\ Faultless =>
       /\ operator.pc = "up"
       /\ ~Unlocked => cache.present
       /\ pool.uid = 0 => ~PoolExists /\ ptask.pc = "idle" /\ helper["cron"] = 0 /\ ~cache.present

\* The task of the pool and the cache lag behind the generation of the pool, in this order, and what they
\* know of an old generation they know rightly.
KnownInv ==
  /\ pool.status.observed <= pool.gen
  /\ ptask.pc # "idle" =>
       /\ ptask.self.uid = pool.uid /\ ptask.self.gen <= pool.gen
       /\ ptask.self.gen = pool.gen => ptask.self.funding = pool.funding
       /\ cache.present => cache.gen <= ptask.self.gen
  /\ cache.present => cache.gen <= pool.gen

\* The steps of creation and deletion, and the cached copy, come in their order.
StageInv ==
  /\ pool.life = "new" => ptask.pc \in {"idle", "wallet", "finalizer"}
  /\ pool.life = "new" \/ ptask.pc \in Preparing => pool.status.phase = "None" /\ helper["cron"] = 0
  /\ ptask.pc = "initialized" => pool.status.phase = "None"
  /\ pool.life = "new" \/ ptask.pc \in Making => ~cache.present
  /\ ptask.pc \in Removing => pool.life = "terminating"
  /\ ptask.pc # "remove"

\* The cron job agrees with the generation that was applied last.
CronInv ==
  /\ pool.uid # 0 /\ helper["cron"] \in {0, pool.uid}
  /\ ptask.pc \in {"initialized", "ready", "add", "applied"} => Follows(ptask.self.funding)
  /\ ptask.pc = "add" => pool.status.observed = ptask.self.gen
  /\ cache.present /\ cache.gen = pool.gen /\ pool.life = "finalized" => Follows(pool.funding)
  /\ "pool" \notin odd /\ pool.life = "finalized" /\ ptask.pc = "idle"
       /\ pool.status.phase = "Ready" /\ pool.status.observed = pool.gen
     => Follows(pool.funding)

PoolInv == QuietInv /\ (Clean /\ PoolExists => KnownInv /\ StageInv /\ CronInv)

\* What a step does to the account of faults.
LEMMA TroubleStep ==
  ASSUME [Next]_vars
  PROVE  UNCHANGED trouble \/ Spend("edits") \/ Spend("faults")
<1>0. Die => Spend("faults")
  BY DEF Die
<1>1. \A c : Lose(c) => Spend("faults")
  BY DEF Lose
<1>2. ASSUME NEW op, NEW next, UpdateOwnStatus(op, next) PROVE UNCHANGED trouble \/ Spend("faults")
  BY <1>1, <1>2 DEF UpdateOwnStatus
<1>3. ASSUME NEW op, CountPool(op) PROVE UNCHANGED trouble \/ Spend("faults")
  BY <1>1, <1>3 DEF CountPool
<1>4. ASSUME NEW i, NEW ph, NEW next, UpdatePhase(i, ph, next) PROVE UNCHANGED trouble \/ Spend("faults")
  BY <1>1, <1>4 DEF UpdatePhase
<1>5. CASE UserCreatePool \/ UserEditPool \/ UserDeletePool \/ CollectHelpers
  BY <1>5 DEF UserCreatePool, UserEditPool, UserDeletePool, CollectHelpers
<1>6. CASE PoolNext
  <2>1. CASE pool_reconciler \/ check_wallet \/ add_pool_finalizer \/ create_service_monitor \/ create_rbac
             \/ create_cron_job
    BY <1>0, <1>1, <2>1 DEF pool_reconciler, check_wallet, add_pool_finalizer, create_service_monitor,
                            create_rbac, create_helper, create_cron_job
  <2>2. CASE pool_initialized \/ pool_ready \/ add_identity_pool \/ modify_cron_job \/ modify_pool
    BY <1>1, <1>2, <2>2 DEF pool_initialized, pool_ready, add_identity_pool, modify_cron_job, modify_pool
  <2>3. CASE delete_service_monitor \/ delete_rbac \/ delete_cron_job \/ delete_pool_finalizer
             \/ remove_identity_pool
    BY <1>1, <2>3 DEF delete_service_monitor, delete_rbac, delete_cron_job, delete_helper,
                      delete_pool_finalizer, remove_identity_pool
  <2> QED BY <1>6, <2>1, <2>2, <2>3 DEF PoolNext
<1>7. ASSUME NEW i \in Identities,
             \/ UserCreate(i) \/ UserEdit(i) \/ UserDelete(i) \/ CollectIdentity(i) \/ CollectVolume(i)
             \/ IdentityNext(i)
      PROVE  UNCHANGED trouble \/ Spend("edits") \/ Spend("faults")
  <2>1. CASE UserCreate(i) \/ UserEdit(i) \/ UserDelete(i) \/ CollectIdentity(i) \/ CollectVolume(i)
    BY <2>1 DEF UserCreate, UserEdit, UserDelete, CollectIdentity, CollectVolume
  <2>2. CASE reconciler(i) \/ check(i) \/ add_finalizer(i) \/ add_owner_reference(i) \/ create_pvc(i)
    BY <1>0, <1>1, <2>2 DEF reconciler, check, add_finalizer, add_owner_reference, create_pvc
  <2>3. CASE create_initialized(i) \/ count_created(i) \/ create_ready(i) \/ modify_identity(i)
    BY <1>0, <1>3, <1>4, <2>3 DEF create_initialized, count_created, create_ready, modify_identity
  <2>4. CASE delete_pvc(i) \/ count_deleted(i) \/ delete_finalizer(i)
    BY <1>0, <1>1, <1>3, <2>4 DEF delete_pvc, count_deleted, delete_finalizer
  <2> QED BY <1>7, <2>1, <2>2, <2>3, <2>4 DEF IdentityNext
<1>8. ASSUME NEW h \in Hoprds, UserCreateNode(h) \/ UserDeleteNode(h) \/ delete_deployment(h) \/ NodeNext(h)
      PROVE  UNCHANGED trouble \/ Spend("faults")
  BY <1>0, <1>1, <1>3, <1>8 DEF UserCreateNode, UserDeleteNode, delete_deployment, NodeNext, lock_identity,
       claim_identity, count_lock, finalize_node, create_deployment, get_identity, release_identity, count_unlock
<1>9. CASE StartNext
  BY <1>3, <1>9 DEF StartNext, start_controllers, sync_identities, sync_identity_pools
<1> QED BY <1>0, <1>5, <1>6, <1>7, <1>8, <1>9 DEF Next, Crash, vars

\* A step after which there still has been no fault.
LEMMA NoFault ==
  ASSUME QuietInv, [Next]_vars
  PROVE  /\ trouble' \in [edits : Nat, faults : Nat]
         /\ Faultless' => /\ Faultless /\ ~Die /\ ~StartNext /\ \A c : ~Lose(c)
                          /\ operator.pc = "up"
<1>1. /\ Spend("edits") => trouble' \in [edits : Nat, faults : Nat] /\ trouble'.faults = trouble.faults
      /\ Spend("faults") => trouble' \in [edits : Nat, faults : Nat] /\ trouble'.faults # 0
  BY DEF QuietInv, Spend
<1>2. Faultless' => Faultless
  BY <1>1, TroubleStep DEF Faultless
<1>3. Faultless' => ~Die /\ \A c : ~Lose(c)
  BY <1>1 DEF Faultless, Die, Lose
<1>4. Faultless' => operator.pc = "up"
  BY <1>2 DEF QuietInv
<1>5. Faultless' => ~StartNext
  BY <1>4 DEF StartNext, start_controllers, sync_identities, sync_identity_pools
<1> QED BY <1>1, <1>2, <1>3, <1>4, <1>5, TroubleStep DEF QuietInv

\* Identities and nodes touch the pool only to count in its cached copy.
LEMMA Counts ==
  ASSUME Typed, QuietInv, [Next]_vars, Faultless', ~PoolSide
  PROVE  /\ UNCHANGED <<helper, ptask, operator>> /\ ("pool" \in odd' <=> "pool" \in odd)
         /\ UNCHANGED <<pool, cache>> \/ (cache.present /\ \E op \in Counting : CountPool(op))
         /\ ~Unlocked' => cache.present
<1>0. Faultless /\ ~Die /\ ~StartNext /\ ~Crash /\ (\A c : ~Lose(c)) /\ (~Unlocked => cache.present)
  BY NoFault DEF Crash, QuietInv
<1>1. "pool" \notin Identities
  BY NamesAssumption
<1>2. {"IdentityCreated", "IdentityDeleted", "Locked", "Unlocked"} \subseteq Counting
  BY DEF Counting
<1>3. node \in [Hoprds -> Nodes]
  BY DEF Typed, IdentityTyped
<1>4. ASSUME NEW i \in Identities,
             UserCreate(i) \/ UserEdit(i) \/ UserDelete(i) \/ CollectIdentity(i) \/ CollectVolume(i)
      PROVE  UNCHANGED <<helper, ptask, operator, pool, cache, node>> /\ ("pool" \in odd' <=> "pool" \in odd)
  BY <1>1, <1>4 DEF UserCreate, UserEdit, UserDelete, CollectIdentity, CollectVolume
<1>5. ASSUME NEW i \in Identities,
             \/ reconciler(i) \/ check(i) \/ add_finalizer(i) \/ add_owner_reference(i) \/ create_pvc(i)
             \/ create_initialized(i) \/ create_ready(i) \/ modify_identity(i) \/ delete_pvc(i)
             \/ delete_finalizer(i)
      PROVE  UNCHANGED <<helper, ptask, operator, pool, cache, node>> /\ ("pool" \in odd' <=> "pool" \in odd)
  BY <1>0, <1>1, <1>5 DEF reconciler, check, add_finalizer, add_owner_reference, create_pvc,
       create_initialized, create_ready, modify_identity, delete_pvc, delete_finalizer
<1>6. ASSUME NEW i \in Identities, count_created(i) \/ count_deleted(i)
      PROVE  /\ UNCHANGED <<helper, ptask, operator, node>> /\ ("pool" \in odd' <=> "pool" \in odd)
             /\ UNCHANGED <<pool, cache>> \/ (cache.present /\ \E op \in Counting : CountPool(op))
  BY <1>0, <1>1, <1>2, <1>6 DEF count_created, count_deleted
<1>7. UNCHANGED node => (~Unlocked' => cache.present)
  BY <1>0 DEF Unlocked
<1>8. ASSUME NEW h \in Hoprds, UserCreateNode(h) \/ UserDeleteNode(h) \/ delete_deployment(h) \/ NodeNext(h)
      PROVE  /\ UNCHANGED <<helper, ptask, operator>> /\ ("pool" \in odd' <=> "pool" \in odd)
             /\ UNCHANGED <<pool, cache>> \/ (cache.present /\ \E op \in Counting : CountPool(op))
             /\ ~Unlocked' => cache.present
  <2>0. node[h].pc \in {"claim", "count"} => cache.present
    BY <1>0 DEF Unlocked
  <2>1. CASE \/ UserCreateNode(h) \/ UserDeleteNode(h) \/ delete_deployment(h) \/ finalize_node(h)
             \/ create_deployment(h) \/ get_identity(h) \/ release_identity(h) \/ lock_identity(h)
    <3>1. UNCHANGED <<helper, ptask, operator, pool, cache, odd>>
      BY <1>0, <2>1 DEF UserCreateNode, UserDeleteNode, delete_deployment, finalize_node,
           create_deployment, get_identity, release_identity, lock_identity
    <3>2. (\E k \in Hoprds \ {h} : node'[k] # node[k]) => FALSE
      BY <1>0, <1>3, <2>1 DEF UserCreateNode, UserDeleteNode, delete_deployment, finalize_node,
           create_deployment, get_identity, release_identity, lock_identity, NodeGoto
    <3>3. CASE lock_identity(h)
      BY <3>1, <3>3 DEF lock_identity
    <3>4. CASE ~lock_identity(h)
      <4>0. {"in", "stuck", "get", "held", "uncount", "wedged", "release", "absent", "wait"} \subseteq NodeSteps
        BY DEF NodeSteps
      <4>1. CASE UserDeleteNode(h)
        <5>1. node'[h].pc = "absent"
          BY <1>3, <4>1, NodeOutFacts DEF UserDeleteNode
        <5> QED BY <1>0, <3>1, <3>2, <5>1 DEF Unlocked
      <4>2. CASE UserCreateNode(h)
        <5>1. PICK i \in Identities : node' = [node EXCEPT ![h] = [Out EXCEPT !.pc = "wait", !.id = i]]
          BY <4>2 DEF UserCreateNode
        <5>2. node'[h].pc = "wait"
          BY <1>3, <5>1 DEF Out
        <5> QED BY <1>0, <3>1, <3>2, <5>2 DEF Unlocked
      <4>3. CASE delete_deployment(h) \/ finalize_node(h) \/ create_deployment(h) \/ release_identity(h)
        <5>1. \E c \in {"in", "stuck", "get", "held", "uncount", "wedged"} : NodeGoto(h, c)
          BY <1>0, <4>3 DEF delete_deployment, finalize_node, create_deployment, release_identity
        <5>2. node'[h].pc \in {"in", "stuck", "get", "held", "uncount", "wedged"}
          BY <1>3, <4>0, <5>1, NodeGotoFacts
        <5> QED BY <1>0, <3>1, <3>2, <5>2 DEF Unlocked
      <4>4. CASE get_identity(h)
        <5>1. \/ node' = [node EXCEPT ![h] = Out]
              \/ node' = [node EXCEPT ![h] = [Fetched(node[h], identity[node[h].id]) EXCEPT !.pc = "release"]]
          BY <1>0, <4>4 DEF get_identity
        <5>2. identity[node[h].id] \in Objects
          BY <4>4 DEF get_identity, Typed, IdentityTyped
        <5>3. node'[h].pc \in {"absent", "release"}
          BY <1>3, <4>0, <5>1, <5>2, NodeOutFacts, NodeFetchedFacts
        <5> QED BY <1>0, <3>1, <3>2, <5>3 DEF Unlocked
      <4> QED BY <2>1, <3>4, <4>1, <4>2, <4>3, <4>4
    <3> QED BY <3>3, <3>4
  <2>2. CASE claim_identity(h)
    <3>1. node[h].id \in Identities
      BY <2>2 DEF claim_identity, Typed, IdentityTyped
    <3> QED BY <1>0, <1>1, <2>0, <2>2, <3>1 DEF claim_identity
  <2>3. CASE count_lock(h) \/ count_unlock(h)
    BY <1>0, <1>2, <2>0, <2>3 DEF count_lock, count_unlock
  <2> QED BY <1>8, <2>1, <2>2, <2>3 DEF NodeNext
<1>9. UNCHANGED vars => UNCHANGED <<helper, ptask, operator, pool, cache, node, odd>>
  BY DEF vars
<1> QED BY <1>0, <1>4, <1>5, <1>6, <1>7, <1>8, <1>9 DEF Next, PoolSide, IdentityNext

LEMMA PoolFields ==
  ASSUME Typed
  PROVE  /\ pool \in Pools /\ pool.uid \in Nat /\ pool.gen \in Nat /\ pool.status \in Statuses
         /\ pool.status.observed \in Nat /\ pool.status.size \in Int
         /\ ptask \in PoolTasks /\ ptask.self \in PoolSelves /\ ptask.self.uid \in Nat /\ ptask.self.gen \in Nat
         /\ ptask.self.funding \in BOOLEAN /\ pool.funding \in BOOLEAN
         /\ ptask.self.status \in Statuses /\ ptask.self.status.size \in Int
         /\ cache \in Caches /\ cache.gen \in Nat /\ cache.present \in BOOLEAN /\ cache.status \in Statuses
         /\ cache.status.size \in Int
         /\ helper \in [{"monitor", "rbac", "cron"} -> Nat]
BY DEF Typed, PoolTyped, Pools, PoolTasks, PoolSelves, Caches, Statuses

LEMMA StatusFacts ==
  ASSUME NEW s, NEW gen, NEW op
  PROVE  /\ update_status(s, gen, op).observed = gen
         /\ update_status(s, gen, op).size = s.size + Size(op)
         /\ op \in {"Initialized", "Ready", "Failed"} => update_status(s, gen, op).phase = op
BY DEF update_status, Counting

\* A count in the cached pool.
LEMMA CountFacts ==
  ASSUME Typed, NEW op \in Counting, CountPool(op), \A c : ~Lose(c)
  PROVE  /\ pool'.life = pool.life /\ pool'.uid = pool.uid /\ pool'.gen = pool.gen /\ pool'.funding = pool.funding
         /\ cache'.present = cache.present /\ cache'.gen = cache.gen
         /\ ~PoolExists => UNCHANGED <<pool, cache>>
         /\ PoolExists => /\ pool'.status.observed = cache.gen
                          /\ cache'.status.size = cache.status.size + Size(op)
<1> DEFINE s == update_status(cache.status, cache.gen, op)
<1>0. pool \in Pools /\ cache \in Caches
  BY PoolFields
<1>1. s.observed = cache.gen /\ s.size = cache.status.size + Size(op)
  BY StatusFacts
<1>2. \/ PoolExists /\ pool' = [pool EXCEPT !.status = s] /\ cache' = [cache EXCEPT !.status = s]
      \/ ~PoolExists /\ UNCHANGED <<pool, cache>>
  BY DEF CountPool
<1> HIDE DEF s
<1> QED BY <1>0, <1>1, <1>2 DEF Pools, Caches

\* A status that the task of the pool writes from its snapshot.
LEMMA OwnStatusFacts ==
  ASSUME Typed, NEW op \in {"Initialized", "Ready", "Failed"}, NEW next \in PoolSteps, UpdateOwnStatus(op, next),
         \A c : ~Lose(c), PoolExists
  PROVE  /\ pool'.life = pool.life /\ pool'.uid = pool.uid /\ pool'.gen = pool.gen /\ pool'.funding = pool.funding
         /\ pool'.status.observed = ptask.self.gen /\ pool'.status.phase = op
         /\ ptask'.pc = next
         /\ next # "idle" => /\ ptask'.self.uid = ptask.self.uid /\ ptask'.self.gen = ptask.self.gen
                             /\ ptask'.self.funding = ptask.self.funding
                             /\ ptask'.self.status.size = ptask.self.status.size
         /\ pool'.status.size = ptask.self.status.size
<1> DEFINE s == update_status(ptask.self.status, ptask.self.gen, op)
           me == [ptask.self EXCEPT !.status = s]
<1>0. pool \in Pools /\ ptask \in PoolTasks /\ ptask.self \in PoolSelves /\ ptask.self.status.size \in Int
  BY PoolFields
<1>1. Size(op) = 0
  BY DEF Size
<1>2. s.observed = ptask.self.gen /\ s.size = ptask.self.status.size /\ s.phase = op
  BY <1>0, <1>1, StatusFacts
<1>3. pool' = [pool EXCEPT !.status = s] /\ PoolStep(next, me)
  BY DEF UpdateOwnStatus
<1>4. /\ me.uid = ptask.self.uid /\ me.gen = ptask.self.gen /\ me.funding = ptask.self.funding /\ me.status = s
  BY <1>0 DEF PoolSelves
<1> HIDE DEF s, me
<1>5. next # "idle" => ptask' = [pc |-> next, self |-> me]
  BY <1>3 DEF PoolStep
<1>6. ptask'.pc = next
  BY <1>3, <1>5 DEF PoolStep, PoolIdle
<1>7. next # "idle" => ptask'.self = me
  BY <1>5
<1> QED BY <1>0, <1>2, <1>3, <1>4, <1>6, <1>7 DEF Pools

LEMMA PoolGotoFacts ==
  ASSUME ptask \in PoolTasks, NEW pc \in PoolSteps, PoolGoto(pc)
  PROVE  ptask'.pc = pc /\ ptask'.self = ptask.self
BY DEF PoolGoto, PoolTasks

LEMMA PoolIdleFacts == PoolIdle.pc = "idle"
BY DEF PoolIdle

\* What every step of the pool's side does to the identity of the object, and to the cache.
LEMMA PoolSideFacts ==
  ASSUME Typed, PoolSide, ~Die
  PROVE  /\ ~UserCreatePool => pool'.uid = pool.uid /\ (pool'.life # "absent" => PoolExists)
         /\ UserCreatePool => pool'.uid = pool.uid + 1 /\ UNCHANGED <<cache, ptask, helper>>
         /\ ~add_identity_pool /\ ~remove_identity_pool => UNCHANGED cache
         /\ add_identity_pool => cache'.present
         /\ remove_identity_pool => Unlocked /\ ~cache'.present
         /\ ptask.pc = "idle" /\ ~PoolExists => UserCreatePool \/ (CollectHelpers /\ UNCHANGED ptask)
<1>0. pool \in Pools /\ pool.uid \in Nat /\ ptask \in PoolTasks
  BY PoolFields
<1>a. ASSUME NEW u \in Nat PROVE NoPool(u).uid = u /\ NoPool(u).life = "absent" /\ NoPool(u) \in Pools
  BY NoPoolTyped DEF NoPool
<1>b. ASSUME UserCreatePool PROVE pool'.uid = pool.uid + 1
  <2>1. PICK f \in Funding : pool' = [NoPool(pool.uid + 1) EXCEPT !.life = "new", !.gen = 1, !.funding = f]
    BY <1>b DEF UserCreatePool
  <2>2. NoPool(pool.uid + 1) \in Pools /\ NoPool(pool.uid + 1).uid = pool.uid + 1
    BY <1>0, <1>a
  <2> QED BY <2>1, <2>2 DEF Pools
<1>1. CASE UserCreatePool
  <2>1. ~add_identity_pool /\ ~remove_identity_pool
    BY <1>0, <1>1, <1>b DEF add_identity_pool, remove_identity_pool
  <2> QED BY <1>1, <1>b, <2>1 DEF UserCreatePool
<1>2. CASE UserEditPool
  <2>1. PICK f \in BOOLEAN, l \in {"same", "differs", "none"} :
          pool' = [pool EXCEPT !.gen = @ + 1, !.last = l, !.funding = f]
    BY <1>2 DEF UserEditPool
  <2>2. pool'.uid = pool.uid /\ pool'.gen = pool.gen + 1 /\ PoolExists /\ ~UserCreatePool
    BY <1>0, <1>2, <2>1 DEF Pools, UserEditPool, PoolExists, UserCreatePool
  <2>3. pool' # pool
    BY <1>0, <2>2 DEF Pools
  <2> QED BY <1>2, <2>2, <2>3 DEF UserEditPool, PoolExists, add_identity_pool, remove_identity_pool
<1>3. CASE UserDeletePool
  <2>1. pool'.uid = pool.uid /\ pool' # pool /\ PoolExists
    BY <1>0, <1>3, <1>a DEF UserDeletePool, Pools, PoolExists
  <2> QED BY <1>3, <2>1 DEF UserDeletePool, UserCreatePool, add_identity_pool, remove_identity_pool
<1>4. CASE CollectHelpers \/ add_identity_pool \/ remove_identity_pool
  <2>1. pool' = pool
    BY <1>4 DEF CollectHelpers, add_identity_pool, remove_identity_pool
  <2>2. ~UserCreatePool
    BY <1>0, <1>b, <2>1
  <2>3. add_identity_pool \/ remove_identity_pool => ptask.pc # "idle"
    BY DEF add_identity_pool, remove_identity_pool
  <2>4. Cached(ptask.self).present /\ ~Uncached.present
    BY DEF Cached, Uncached
  <2> QED BY <1>4, <2>1, <2>2, <2>3, <2>4 DEF CollectHelpers, add_identity_pool, remove_identity_pool, PoolExists
<1>5. CASE PoolNext /\ ~add_identity_pool /\ ~remove_identity_pool
  <2>a. ASSUME pool_reconciler
        PROVE  UNCHANGED cache /\ (ptask.pc # "idle" \/ PoolExists)
    BY <2>a DEF pool_reconciler
  <2>b. ASSUME check_wallet \/ add_pool_finalizer \/ create_service_monitor \/ create_rbac \/ create_cron_job
        PROVE  UNCHANGED cache /\ (ptask.pc # "idle" \/ PoolExists)
    BY <2>b DEF check_wallet, add_pool_finalizer, create_service_monitor, create_rbac, create_helper,
                create_cron_job
  <2>c. ASSUME pool_initialized \/ pool_ready \/ modify_cron_job \/ modify_pool
        PROVE  UNCHANGED cache /\ (ptask.pc # "idle" \/ PoolExists)
    BY <2>c DEF pool_initialized, pool_ready, modify_cron_job, modify_pool
  <2>d. ASSUME delete_service_monitor \/ delete_rbac \/ delete_cron_job \/ delete_pool_finalizer
        PROVE  UNCHANGED cache /\ (ptask.pc # "idle" \/ PoolExists)
    BY <2>d DEF delete_service_monitor, delete_rbac, delete_cron_job, delete_helper, delete_pool_finalizer
  <2>1. UNCHANGED cache /\ (ptask.pc # "idle" \/ PoolExists)
    BY <1>5, <2>a, <2>b, <2>c, <2>d DEF PoolNext
  <2> DEFINE Written == \/ pool' = pool \/ pool' = NoPool(pool.uid)
                        \/ PoolExists /\ pool' = [pool EXCEPT !.life = "finalized"]
                        \/ PoolExists /\ \E s : pool' = [pool EXCEPT !.status = s]
  <2>e. ASSUME pool_reconciler \/ check_wallet \/ create_service_monitor \/ create_rbac \/ create_cron_job
               \/ modify_cron_job \/ delete_service_monitor \/ delete_rbac \/ delete_cron_job
        PROVE  Written
    BY <2>e DEF pool_reconciler, check_wallet, create_service_monitor, create_rbac, create_helper,
         create_cron_job, modify_cron_job, delete_service_monitor, delete_rbac, delete_cron_job, delete_helper
  <2>f. ASSUME add_pool_finalizer \/ delete_pool_finalizer PROVE Written
    BY <2>f DEF add_pool_finalizer, delete_pool_finalizer, PoolExists
  <2>g. ASSUME NEW op, NEW next, UpdateOwnStatus(op, next) PROVE Written
    BY <2>g DEF UpdateOwnStatus
  <2>h. ASSUME pool_initialized \/ pool_ready \/ modify_pool PROVE Written
    BY <2>g, <2>h DEF pool_initialized, pool_ready, modify_pool
  <2>2. Written
    BY <1>5, <2>e, <2>f, <2>h DEF PoolNext
  <2>3. pool'.uid = pool.uid /\ (pool'.life # "absent" => PoolExists)
    BY <1>0, <1>a, <2>2 DEF Pools, PoolExists
  <2>4. ~UserCreatePool
    BY <1>0, <1>b, <2>3
  <2> QED BY <1>5, <2>1, <2>3, <2>4
<1> QED BY <1>1, <1>2, <1>3, <1>4, <1>5 DEF PoolSide

LEMMA QuietNext == ASSUME Typed, QuietInv, [Next]_vars PROVE QuietInv'
<1>0. trouble' \in [edits : Nat, faults : Nat]
  BY NoFault
<1> SUFFICES ASSUME Faultless'
             PROVE  /\ operator'.pc = "up"
                    /\ ~Unlocked' => cache'.present
                    /\ pool'.uid = 0 => pool'.life = "absent" /\ ptask'.pc = "idle" /\ helper'["cron"] = 0
                                        /\ ~cache'.present
  BY <1>0 DEF QuietInv, PoolExists
<1>1. /\ Faultless /\ ~Die /\ operator.pc = "up" /\ (\A c : ~Lose(c))
      /\ ~Unlocked => cache.present
      /\ pool.uid = 0 => ~PoolExists /\ ptask.pc = "idle" /\ helper["cron"] = 0 /\ ~cache.present
  BY NoFault DEF QuietInv
<1>2. pool.uid \in Nat /\ helper \in [{"monitor", "rbac", "cron"} -> Nat]
  BY PoolFields
<1>3. CASE PoolSide
  <2>1. UNCHANGED <<node, operator>>
    BY <1>1, <1>3, PoolSideFrame
  <2>2. ~Unlocked' => cache'.present
    BY <1>1, <1>3, <2>1, PoolSideFacts DEF Unlocked
  <2>3. ASSUME pool'.uid = 0
        PROVE  pool'.life = "absent" /\ ptask'.pc = "idle" /\ helper'["cron"] = 0 /\ ~cache'.present
    <3>1. pool.uid = 0 /\ ~UserCreatePool
      BY <1>1, <1>2, <1>3, <2>3, PoolSideFacts
    <3>2. CollectHelpers /\ UNCHANGED ptask
      BY <1>1, <1>3, <3>1, PoolSideFacts
    <3>3. UNCHANGED <<pool, cache>> /\ helper'["cron"] = 0
      BY <1>1, <1>2, <3>1, <3>2 DEF CollectHelpers
    <3> QED BY <1>1, <3>1, <3>2, <3>3 DEF PoolExists
  <2> QED BY <1>1, <2>1, <2>2, <2>3
<1>4. CASE ~PoolSide
  <2>1. /\ UNCHANGED <<helper, ptask, operator>> /\ (~Unlocked' => cache.present)
        /\ UNCHANGED <<pool, cache>> \/ (cache.present /\ \E op \in Counting : CountPool(op))
    BY <1>4, Counts
  <2>2. pool'.uid = pool.uid /\ cache'.present = cache.present /\ pool'.life = pool.life
    BY <1>1, <2>1, CountFacts
  <2> QED BY <1>1, <2>1, <2>2 DEF PoolExists
<1> QED BY <1>3, <1>4

\* Steps of the identities and the nodes.
LEMMA FollowCounts ==
  ASSUME Typed, KnownInv, StageInv, CronInv, PoolExists, \A c : ~Lose(c),
         UNCHANGED <<helper, ptask>>, "pool" \in odd' <=> "pool" \in odd,
         UNCHANGED <<pool, cache>> \/ (cache.present /\ \E op \in Counting : CountPool(op))
  PROVE  KnownInv' /\ StageInv' /\ CronInv'
<1>0. pool.gen \in Nat /\ cache.gen \in Nat /\ ptask.self.gen \in Nat /\ pool.status.observed \in Nat
  BY PoolFields
<1>1. CASE UNCHANGED <<pool, cache>>
  BY <1>1 DEF KnownInv, StageInv, CronInv, Follows
<1>2. ASSUME cache.present, NEW op \in Counting, CountPool(op) PROVE KnownInv' /\ StageInv' /\ CronInv'
  <2>1. /\ pool'.life = pool.life /\ pool'.uid = pool.uid /\ pool'.gen = pool.gen /\ pool'.funding = pool.funding
        /\ cache'.present = cache.present /\ cache'.gen = cache.gen /\ pool'.status.observed = cache.gen
    BY <1>2, CountFacts
  <2>2. pool.life # "new" /\ ptask.pc \notin Making
    BY <1>2 DEF StageInv
  <2>3. KnownInv'
    BY <1>0, <1>2, <2>1 DEF KnownInv
  <2>4. StageInv'
    BY <1>2, <2>1, <2>2 DEF StageInv, Making
  <2>5. CronInv'
    BY <1>2, <2>1, <2>2 DEF CronInv, Making, Follows
  <2> QED BY <2>3, <2>4, <2>5
<1> QED BY <1>1, <1>2

\* The users, and the garbage collector.
LEMMA FollowUsers ==
  ASSUME Typed, PoolInv, Clean', Clean, PoolExists', UserCreatePool \/ UserEditPool \/ UserDeletePool \/ CollectHelpers
  PROVE  KnownInv' /\ StageInv' /\ CronInv'
<1>0. /\ pool \in Pools /\ pool.uid \in Nat /\ pool.gen \in Nat /\ cache.gen \in Nat /\ ptask.self.gen \in Nat
      /\ pool.status.observed \in Nat /\ helper \in [{"monitor", "rbac", "cron"} -> Nat]
  BY PoolFields
<1>1. CASE UserCreatePool
  <2>1. PICK f \in Funding : pool' = [NoPool(pool.uid + 1) EXCEPT !.life = "new", !.gen = 1, !.funding = f]
    BY <1>1 DEF UserCreatePool
  <2>2. NoPool(pool.uid + 1) \in Pools /\ NoPool(pool.uid + 1).status = NoStatus
        /\ NoPool(pool.uid + 1).uid # 0
    BY <1>0, NoPoolTyped DEF NoPool
  <2>3. pool'.life = "new" /\ pool'.gen = 1 /\ pool'.status = NoStatus /\ pool'.uid # 0
    BY <2>1, <2>2 DEF Pools
  <2>4. NoStatus.observed = 0 /\ NoStatus.phase = "None"
    BY DEF NoStatus
  <2>5. UNCHANGED <<helper, cache, ptask>>
    BY <1>1 DEF UserCreatePool
  <2>6. ptask.pc = "idle" /\ helper["cron"] = 0 /\ ~cache.present
    <3>1. CASE "pool" \notin odd'
      BY <1>1, <3>1 DEF UserCreatePool
    <3>2. CASE MaxPools <= 1
      <4>0. pool.uid < MaxPools
        BY <1>1 DEF UserCreatePool
      <4>1. pool.uid = 0
        BY <1>0, <3>2, <4>0, BoundsAssumption
      <4> QED BY <4>1 DEF PoolInv, QuietInv, Clean
    <3> QED BY <3>1, <3>2 DEF Clean
  <2>7. KnownInv'
    BY <2>3, <2>4, <2>5, <2>6 DEF KnownInv
  <2>8. StageInv'
    BY <2>3, <2>4, <2>5, <2>6 DEF StageInv, Preparing, Making, Removing
  <2>9. CronInv'
    BY <2>3, <2>4, <2>5, <2>6 DEF CronInv
  <2> QED BY <2>7, <2>8, <2>9
<1> SUFFICES ASSUME KnownInv, StageInv, CronInv, PoolExists, UserEditPool \/ UserDeletePool \/ CollectHelpers
             PROVE  KnownInv' /\ StageInv' /\ CronInv'
  <2>1. UserEditPool \/ UserDeletePool \/ CollectHelpers => PoolExists
    BY DEF UserEditPool, UserDeletePool, CollectHelpers, PoolExists
  <2> QED BY <1>1, <2>1 DEF PoolInv
<1>2. CASE UserEditPool
  <2>1. PICK f \in BOOLEAN, l \in {"same", "differs", "none"} :
          pool' = [pool EXCEPT !.gen = @ + 1, !.last = l, !.funding = f]
    BY <1>2 DEF UserEditPool
  <2>2. /\ pool'.life = pool.life /\ pool'.uid = pool.uid /\ pool'.gen = pool.gen + 1 /\ pool'.status = pool.status
        /\ UNCHANGED <<helper, cache, ptask, odd>>
    BY <1>0, <1>2, <2>1 DEF Pools, UserEditPool
  <2>3. KnownInv'
    BY <1>0, <2>2 DEF KnownInv
  <2>4. StageInv'
    BY <2>2 DEF StageInv
  <2>5. CronInv'
    BY <1>0, <2>2 DEF CronInv, Follows, KnownInv
  <2> QED BY <2>3, <2>4, <2>5
<1>3. CASE UserDeletePool
  <2>1. pool' # NoPool(pool.uid)
    BY DEF PoolExists, NoPool
  <2>2. /\ pool.life = "finalized" /\ pool'.life = "terminating" /\ pool'.uid = pool.uid /\ pool'.gen = pool.gen
        /\ pool'.status = pool.status /\ pool'.funding = pool.funding
        /\ UNCHANGED <<helper, cache, ptask, odd>>
    BY <1>0, <1>3, <2>1 DEF Pools, UserDeletePool
  <2>3. KnownInv'
    BY <2>2 DEF KnownInv
  <2>4. StageInv'
    BY <2>2 DEF StageInv
  <2>5. CronInv'
    BY <2>2 DEF CronInv, Follows
  <2> QED BY <2>3, <2>4, <2>5
<1>4. CASE CollectHelpers
  <2>1. UNCHANGED <<pool, cache, ptask, odd>>
    BY <1>4 DEF CollectHelpers
  <2>2. helper'["cron"] = helper["cron"]
    BY <1>0, <1>4 DEF CollectHelpers, CronInv
  <2> QED BY <2>1, <2>2 DEF KnownInv, StageInv, CronInv, Follows
<1> QED BY <1>2, <1>3, <1>4

\* The start of a reconciliation.
LEMMA PoolStepFacts ==
  ASSUME pool_step(pool) \notin {"idle", "panic"}
  PROVE  /\ pool_step(pool) \in {"wallet", "reject", "cron", "recover", "rm_monitor"}
         /\ pool_step(pool) = "wallet" => pool.life = "new"
         /\ pool_step(pool) = "rm_monitor" => pool.life = "terminating"
         /\ pool_step(pool) \in {"reject", "cron", "recover"} => pool.life # "new"
BY DEF pool_step, pool_action, pool_modify, pool_delete

\* IdentityPool::create.
LEMMA FollowCreate ==
  ASSUME Typed, KnownInv, StageInv, CronInv, PoolExists, PoolExists', ~Die, \A c : ~Lose(c),
         \/ pool_reconciler \/ check_wallet \/ add_pool_finalizer
         \/ create_service_monitor \/ create_rbac \/ create_cron_job \/ pool_initialized \/ pool_ready
         \/ add_identity_pool
  PROVE  KnownInv' /\ StageInv' /\ CronInv'
<1>0. /\ pool \in Pools /\ pool.uid \in Nat /\ pool.gen \in Nat /\ cache.gen \in Nat /\ ptask.self.gen \in Nat
      /\ pool.status.observed \in Nat /\ helper \in [{"monitor", "rbac", "cron"} -> Nat] /\ ptask \in PoolTasks
  BY PoolFields
<1>a. {"finalizer", "monitor", "rbac", "create_cron", "initialized", "ready", "add"} \subseteq PoolSteps
  BY DEF PoolSteps
<1>1. CASE pool_reconciler
  <2>1. /\ ptask.pc = "idle" /\ pool_step(pool) \notin {"idle", "panic"}
        /\ ptask' = [pc |-> pool_step(pool), self |-> PoolSnapshot(pool)]
        /\ UNCHANGED <<pool, helper, cache, odd>>
    BY <1>1 DEF pool_reconciler
  <2>2. /\ ptask'.pc = pool_step(pool) /\ ptask'.self.uid = pool.uid /\ ptask'.self.gen = pool.gen
        /\ ptask'.self.funding = pool.funding
    BY <2>1 DEF PoolSnapshot
  <2>3. KnownInv'
    BY <1>0, <2>1, <2>2 DEF KnownInv
  <2>4. StageInv'
    BY <2>1, <2>2, PoolStepFacts DEF StageInv, Preparing, Making, Removing
  <2>5. CronInv'
    BY <2>1, <2>2, PoolStepFacts DEF CronInv, Follows
  <2> QED BY <2>3, <2>4, <2>5
<1>2. CASE check_wallet
  <2>1. /\ ptask.pc = "wallet" /\ ptask'.pc = "finalizer" /\ ptask'.self = ptask.self
        /\ UNCHANGED <<pool, helper, cache, odd>>
    BY <1>0, <1>2, <1>a, PoolGotoFacts DEF check_wallet
  <2> QED BY <2>1 DEF KnownInv, StageInv, CronInv, Follows, Preparing, Making, Removing
<1>3. CASE add_pool_finalizer
  <2>1. /\ ptask.pc = "finalizer" /\ ptask'.pc = "monitor" /\ ptask'.self = ptask.self
        /\ UNCHANGED <<helper, cache, odd>>
        /\ pool' = IF pool.life = "new" THEN [pool EXCEPT !.life = "finalized"] ELSE pool
    BY <1>0, <1>3, <1>a, PoolGotoFacts DEF add_pool_finalizer
  <2>2. /\ pool'.life # "new" /\ pool'.uid = pool.uid /\ pool'.gen = pool.gen /\ pool'.status = pool.status
        /\ pool'.funding = pool.funding
    BY <1>0, <2>1 DEF Pools
  <2>3. KnownInv'
    BY <2>1, <2>2 DEF KnownInv
  <2>4. StageInv'
    BY <2>1, <2>2 DEF StageInv, Preparing, Making, Removing
  <2>5. CronInv'
    BY <2>1, <2>2 DEF CronInv, Follows, StageInv, Preparing, Making
  <2> QED BY <2>3, <2>4, <2>5
<1>4. CASE create_service_monitor \/ create_rbac
  <2>1. /\ ptask.pc \in {"monitor", "rbac"}
        /\ \/ ptask'.pc \in {"rbac", "create_cron"} /\ ptask'.self = ptask.self
           \/ ptask'.pc = "idle"
        /\ UNCHANGED <<pool, cache, odd>> /\ helper'["cron"] = helper["cron"]
    BY <1>0, <1>4, <1>a, PoolGotoFacts, PoolIdleFacts DEF create_service_monitor, create_rbac, create_helper
  <2> QED BY <2>1 DEF KnownInv, StageInv, CronInv, Follows, Preparing, Making, Removing
<1>5. CASE create_cron_job
  <2>1. /\ ptask.pc = "create_cron" /\ ptask'.pc = "initialized" /\ ptask'.self = ptask.self
        /\ UNCHANGED <<pool, cache, odd>>
        /\ helper' = IF ptask.self.funding THEN [helper EXCEPT !["cron"] = ptask.self.uid] ELSE helper
    BY <1>0, <1>5, <1>a, PoolGotoFacts DEF create_cron_job
  <2>2. helper["cron"] = 0 /\ ~cache.present /\ pool.life # "new" /\ pool.status.phase = "None"
    BY <2>1 DEF StageInv, Preparing, Making
  <2>3. ptask.self.uid = pool.uid
    BY <2>1 DEF KnownInv
  <2>4. pool.uid # 0
    BY DEF CronInv
  <2>5. Follows(ptask.self.funding)'
    BY <1>0, <2>1, <2>2, <2>3, <2>4 DEF Follows
  <2>6. helper'["cron"] \in {0, pool.uid}
    BY <1>0, <2>1, <2>2, <2>3
  <2>7. KnownInv'
    BY <2>1 DEF KnownInv
  <2>8. StageInv'
    BY <2>1, <2>2 DEF StageInv, Preparing, Making, Removing
  <2>9. CronInv'
    BY <2>1, <2>2, <2>5, <2>6 DEF CronInv
  <2> QED BY <2>7, <2>8, <2>9
<1>6. CASE pool_initialized \/ pool_ready
  <2>1. \/ ptask.pc = "initialized" /\ UpdateOwnStatus("Initialized", "ready")
        \/ ptask.pc = "ready" /\ UpdateOwnStatus("Ready", "add")
    BY <1>6 DEF pool_initialized, pool_ready
  <2>2. UNCHANGED <<helper, cache, odd>>
    BY <1>6 DEF pool_initialized, pool_ready
  <2>3. /\ pool'.life = pool.life /\ pool'.uid = pool.uid /\ pool'.gen = pool.gen /\ pool'.funding = pool.funding
        /\ pool'.status.observed = ptask.self.gen
        /\ ptask'.self.uid = ptask.self.uid /\ ptask'.self.gen = ptask.self.gen
        /\ ptask'.self.funding = ptask.self.funding
        /\ ptask.pc \in {"initialized", "ready"} /\ ptask'.pc \in {"ready", "add"}
    BY <1>a, <2>1, OwnStatusFacts
  <2>4. ~cache.present /\ pool.life # "new"
    BY <2>3 DEF StageInv, Preparing, Making
  <2>5. KnownInv'
    BY <2>2, <2>3 DEF KnownInv
  <2>6. StageInv'
    BY <2>2, <2>3, <2>4 DEF StageInv, Preparing, Making, Removing
  <2>7. CronInv'
    BY <2>2, <2>3, <2>4 DEF CronInv, Follows
  <2> QED BY <2>5, <2>6, <2>7
<1>7. CASE add_identity_pool
  <2>1. ptask.pc = "add" /\ cache' = Cached(ptask.self) /\ ptask'.pc = "idle" /\ UNCHANGED <<pool, helper, odd>>
    BY <1>7, PoolIdleFacts DEF add_identity_pool
  <2>2. cache'.present /\ cache'.gen = ptask.self.gen
    BY <2>1 DEF Cached
  <2>3. KnownInv'
    BY <2>1, <2>2 DEF KnownInv
  <2>4. StageInv'
    BY <2>1 DEF StageInv, Preparing, Making, Removing
  <2>5. CronInv'
    BY <2>1, <2>2 DEF CronInv, Follows, KnownInv
  <2> QED BY <2>3, <2>4, <2>5
<1> QED BY <1>1, <1>2, <1>3, <1>4, <1>5, <1>6, <1>7

\* IdentityPool::modify.
LEMMA FollowModify ==
  ASSUME Typed, KnownInv, StageInv, CronInv, PoolExists, \A c : ~Lose(c), modify_cron_job \/ modify_pool
  PROVE  KnownInv' /\ StageInv' /\ CronInv'
<1>0. /\ pool \in Pools /\ pool.uid \in Nat /\ pool.gen \in Nat /\ cache.gen \in Nat /\ ptask.self.gen \in Nat
      /\ pool.status.observed \in Nat /\ helper \in [{"monitor", "rbac", "cron"} -> Nat] /\ ptask \in PoolTasks
  BY PoolFields
<1>a. {"applied", "idle"} \subseteq PoolSteps
  BY DEF PoolSteps
<1>1. CASE modify_cron_job
  <2>1. /\ ptask.pc = "cron" /\ ptask'.pc = "applied" /\ ptask'.self = ptask.self
        /\ UNCHANGED <<pool, cache, odd>>
        /\ helper' = [helper EXCEPT !["cron"] = IF ~ptask.self.funding THEN 0
                                                ELSE IF @ = 0 THEN ptask.self.uid ELSE @]
    BY <1>0, <1>1, <1>a, PoolGotoFacts DEF modify_cron_job
  <2>2. ptask.self.uid = pool.uid /\ pool.uid # 0 /\ helper["cron"] \in {0, pool.uid}
    BY <2>1 DEF KnownInv, CronInv
  <2>3. helper'["cron"] = IF ptask.self.funding THEN pool.uid ELSE 0
    BY <1>0, <2>1, <2>2
  <2>4. KnownInv'
    BY <2>1 DEF KnownInv
  <2>5. StageInv'
    BY <2>1 DEF StageInv, Preparing, Making, Removing
  <2>6. CronInv'
    <3>1. Follows(ptask.self.funding)'
      BY <2>1, <2>2, <2>3 DEF Follows
    <3>2. ASSUME cache.present, cache.gen = pool.gen PROVE Follows(pool.funding)'
      <4>1. ptask.self.gen = pool.gen
        BY <1>0, <2>1, <3>2 DEF KnownInv
      <4>2. ptask.self.funding = pool.funding
        BY <2>1, <4>1 DEF KnownInv
      <4> QED BY <2>1, <2>2, <2>3, <4>2 DEF Follows
    <3> QED BY <2>1, <2>2, <2>3, <3>1, <3>2 DEF CronInv
  <2> QED BY <2>4, <2>5, <2>6
<1>2. CASE modify_pool
  <2>1. /\ UNCHANGED <<helper, cache>>
        /\ \/ ptask.pc = "applied" /\ UpdateOwnStatus("Ready", "idle") /\ UNCHANGED odd
           \/ ptask.pc = "reject" /\ UpdateOwnStatus("Failed", "idle") /\ UNCHANGED odd
           \/ ptask.pc = "recover" /\ UpdateOwnStatus("Ready", "idle") /\ odd' = odd \cup {"pool"}
    BY <1>2 DEF modify_pool
  <2>2. /\ pool'.life = pool.life /\ pool'.uid = pool.uid /\ pool'.gen = pool.gen /\ pool'.funding = pool.funding
        /\ pool'.status.observed = ptask.self.gen /\ ptask'.pc = "idle"
        /\ ptask.pc = "reject" => pool'.status.phase = "Failed"
    BY <1>a, <2>1, OwnStatusFacts
  <2>3. ptask.pc \in {"applied", "reject", "recover"} /\ pool.life # "new"
    BY <2>1 DEF StageInv
  <2>4. KnownInv'
    BY <1>0, <2>1, <2>2, <2>3 DEF KnownInv
  <2>5. StageInv'
    BY <2>1, <2>2, <2>3 DEF StageInv, Preparing, Making, Removing
  <2>6. CronInv'
    <3>1. ASSUME ptask.pc = "applied", ptask.self.gen = pool.gen PROVE Follows(pool.funding)'
      <4>1. Follows(ptask.self.funding) /\ ptask.self.funding = pool.funding
        BY <3>1 DEF CronInv, KnownInv
      <4> QED BY <2>1, <2>2, <4>1 DEF Follows
    <3>2. ptask.pc = "recover" => "pool" \in odd'
      BY <2>1
    <3>3. cache.present /\ cache.gen = pool.gen /\ pool.life = "finalized" => Follows(pool.funding)'
      BY <2>1, <2>2 DEF CronInv, Follows
    <3>4. pool.uid # 0 /\ helper["cron"] \in {0, pool.uid}
      BY DEF CronInv
    <3> QED BY <2>1, <2>2, <2>3, <3>1, <3>2, <3>3, <3>4 DEF CronInv
  <2> QED BY <2>4, <2>5, <2>6
<1> QED BY <1>1, <1>2

\* IdentityPool::delete.
LEMMA FollowDelete ==
  ASSUME Typed, KnownInv, StageInv, CronInv, PoolExists, PoolExists', \A c : ~Lose(c),
         \/ delete_service_monitor \/ delete_rbac \/ delete_cron_job \/ delete_pool_finalizer
         \/ remove_identity_pool
  PROVE  KnownInv' /\ StageInv' /\ CronInv'
<1>0. helper \in [{"monitor", "rbac", "cron"} -> Nat] /\ ptask \in PoolTasks
  BY PoolFields
<1>a. {"rm_rbac", "rm_cron", "unfinalize"} \subseteq PoolSteps
  BY DEF PoolSteps
<1>1. ~remove_identity_pool
  BY DEF remove_identity_pool, StageInv
<1>2. ~delete_pool_finalizer
  <2>1. ptask.pc = "unfinalize" => pool.life = "terminating"
    BY DEF StageInv, Removing
  <2> QED BY <2>1 DEF delete_pool_finalizer, PoolExists, NoPool
<1>3. CASE delete_service_monitor \/ delete_rbac \/ delete_cron_job
  <2>1. ptask.pc \in Removing /\ UNCHANGED <<pool, cache, odd>>
    BY <1>3 DEF delete_service_monitor, delete_rbac, delete_cron_job, delete_helper, Removing
  <2>2. ptask'.pc \in {"rm_rbac", "rm_cron", "unfinalize"} /\ ptask'.self = ptask.self
    BY <1>0, <1>3, <1>a, PoolGotoFacts DEF delete_service_monitor, delete_rbac, delete_cron_job, delete_helper
  <2>3. helper'["cron"] \in {0, helper["cron"]}
    BY <1>0, <1>3 DEF delete_service_monitor, delete_rbac, delete_cron_job, delete_helper
  <2>4. pool.life = "terminating"
    BY <2>1 DEF StageInv
  <2>5. KnownInv'
    BY <2>1, <2>2 DEF KnownInv, Removing
  <2>6. StageInv'
    BY <2>1, <2>2, <2>4 DEF StageInv, Preparing, Making, Removing
  <2>7. CronInv'
    BY <2>1, <2>2, <2>3, <2>4 DEF CronInv, Removing
  <2> QED BY <2>5, <2>6, <2>7
<1> QED BY <1>1, <1>2, <1>3

LEMMA PoolInvNext == Typed /\ PoolInv /\ [Next]_vars => PoolInv'
<1> SUFFICES ASSUME Typed, PoolInv, [Next]_vars PROVE PoolInv'
  OBVIOUS
<1>1. QuietInv /\ QuietInv'
  BY QuietNext DEF PoolInv
<1> SUFFICES ASSUME Clean', PoolExists' PROVE KnownInv' /\ StageInv' /\ CronInv'
  BY <1>1 DEF PoolInv
<1>2. Faultless' /\ Faultless /\ ~Die /\ ~StartNext /\ \A c : ~Lose(c)
  BY <1>1, NoFault DEF Clean
<1>3. CASE PoolSide
  <2>1. Clean
    BY <1>2, <1>3, PoolSideFrame DEF Clean
  <2>2. CASE UserCreatePool \/ UserEditPool \/ UserDeletePool \/ CollectHelpers
    BY <2>1, <2>2, FollowUsers
  <2>3. CASE PoolNext /\ ~UserCreatePool
    <3>1. PoolExists
      BY <1>2, <1>3, <2>3, PoolSideFacts DEF PoolExists
    <3>2. KnownInv /\ StageInv /\ CronInv
      BY <2>1, <3>1 DEF PoolInv
    <3> QED BY <1>2, <2>3, <3>1, <3>2, FollowCreate, FollowModify, FollowDelete DEF PoolNext
  <2> QED BY <1>3, <2>2, <2>3 DEF PoolSide
<1>4. CASE ~PoolSide
  <2>1. /\ UNCHANGED <<helper, ptask>> /\ ("pool" \in odd' <=> "pool" \in odd)
        /\ UNCHANGED <<pool, cache>> \/ (cache.present /\ \E op \in Counting : CountPool(op))
    BY <1>1, <1>2, <1>4, Counts
  <2>2. PoolExists
    BY <1>2, <2>1, CountFacts DEF PoolExists
  <2>3. KnownInv /\ StageInv /\ CronInv
    BY <1>2, <2>1, <2>2 DEF PoolInv, Clean
  <2> QED BY <1>2, <2>1, <2>2, <2>3, FollowCounts
<1> QED BY <1>3, <1>4

LEMMA PoolInvInit == Init => PoolInv
<1> SUFFICES ASSUME Init PROVE PoolInv
  OBVIOUS
<1>1. pool.uid = 0 /\ ~PoolExists /\ ptask.pc = "idle" /\ helper["cron"] = 0 /\ ~cache.present
  BY PoolIdleFacts DEF Init, NoPool, PoolExists, Uncached
<1>2. Unlocked
  BY OutFacts DEF Init, Unlocked
<1> QED BY <1>1, <1>2 DEF Init, PoolInv, QuietInv

\* Without faults, a pool that is Ready with its last generation observed has its funding cron job exactly if
\* its spec asks for one: neither a lock that marks the generation of the cached pool as observed, nor an edit
\* during apply_modification, nor a deletion and re-creation hides an edit of spec.funding.
THEOREM FundingApplied == Spec => []FundingFollows
<1>1. Typed /\ PoolInv => FundingFollows
  BY DEF PoolInv, Clean, PoolExists, CronInv, Follows, FundingFollows
<1>2. Init => Typed /\ PoolInv
  BY TypeInit, PoolInvInit
<1>3. Typed /\ PoolInv /\ [Next]_vars => (Typed /\ PoolInv)'
  BY TypeNext, PoolInvNext
<1> QED BY <1>1, <1>2, <1>3, PTL DEF Spec

-----------------------------------------------------------------------------
(***************************************************************************)
(* The size of the pool.                                                   *)
(***************************************************************************)

\* The pool is created once: no identity outlives its pool.
OnePool == MaxPools <= 1

\* Identity i is counted.
IsCounted(i) ==
  /\ identity[i].phase \in {"Ready", "InUse", "Failed"} \/ itask[i].pc = "ready"
  /\ ~(itask[i].pc = "unfinalize" /\ itask[i].self.pool = "own")

\* Only the task that creates it finds an identity that is Initialized.
MakingInv(i) == identity[i].phase = "Initialized" => itask[i].pc \in {"count", "ready"}

\* Before the pool is cached no identity is counted, and from then on the cached size is exact.
SizeInv ==
  Faultless /\ odd \cap Identities = {} =>
    /\ \A i \in Identities : MakingInv(i)
    /\ pool.uid = 0 \/ (PoolExists /\ ~cache.present) => Counted = {}
    /\ PoolExists /\ ~cache.present =>
         pool.status.size = 0 /\ (ptask.pc # "idle" => ptask.self.status.size = 0)
    /\ PoolExists /\ cache.present => cache.status.size = Cardinality(Counted)

LEMMA CountedIs == Counted = {i \in Identities : IsCounted(i)} /\ Counted' = {i \in Identities : IsCounted(i)'}
BY DEF Counted, IsCounted

\* A step on identity i.
LEMMA OneCounted ==
  ASSUME NEW i \in Identities,
         \A j \in Identities : j # i => identity'[j].phase = identity[j].phase /\ itask'[j] = itask[j]
  PROVE  /\ (IsCounted(i)' <=> IsCounted(i)) => Counted' = Counted
         /\ ~IsCounted(i) /\ IsCounted(i)' => i \notin Counted /\ Counted' = Counted \cup {i}
         /\ IsCounted(i) /\ ~IsCounted(i)' => i \in Counted /\ Counted' = Counted \ {i}
         /\ \A j \in Identities : j # i /\ MakingInv(j) => MakingInv(j)'
<1>1. \A j \in Identities : j # i => (IsCounted(j)' <=> IsCounted(j))
  BY DEF IsCounted
<1>2. \A j \in Identities : j # i /\ MakingInv(j) => MakingInv(j)'
  BY DEF MakingInv
<1> QED BY <1>1, <1>2, CountedIs

LEMMA OddGrows == ASSUME [Next]_vars PROVE odd \subseteq odd'
<1>1. CASE Die
  BY <1>1 DEF Die
<1>2. CASE PoolSide /\ ~Die
  BY <1>2, PoolSideFrame
<1>3. ASSUME NEW i \in Identities, ~Die,
             \/ UserCreate(i) \/ UserEdit(i) \/ UserDelete(i) \/ CollectIdentity(i) \/ CollectVolume(i)
             \/ IdentityNext(i)
      PROVE  odd \subseteq odd'
  BY <1>3 DEF UserCreate, UserEdit, UserDelete, CollectIdentity, CollectVolume, IdentityNext, reconciler, check,
       add_finalizer, add_owner_reference, create_pvc, create_initialized, count_created, create_ready,
       modify_identity, delete_pvc, count_deleted, delete_finalizer
<1>4. ASSUME NEW h \in Hoprds, ~Die,
             UserCreateNode(h) \/ UserDeleteNode(h) \/ delete_deployment(h) \/ NodeNext(h)
      PROVE  odd \subseteq odd'
  BY <1>4 DEF UserCreateNode, UserDeleteNode, delete_deployment, NodeNext, lock_identity, claim_identity,
       count_lock, finalize_node, create_deployment, get_identity, release_identity, count_unlock
<1>5. CASE StartNext \/ UNCHANGED vars
  BY <1>5 DEF StartNext, start_controllers, sync_identities, sync_identity_pools, vars
<1> QED BY <1>1, <1>2, <1>3, <1>4, <1>5 DEF Next, PoolSide, Crash

\* What users and garbage collector do is not counted.
LEMMA UncountedUsers ==
  ASSUME Typed, NEW i \in Identities \ odd', i \notin odd, ObjectInv(i), TaskInv(i), MakingInv(i),
         UserCreate(i) \/ UserEdit(i) \/ UserDelete(i) \/ CollectIdentity(i) \/ CollectVolume(i)
  PROVE  Counted' = Counted /\ UNCHANGED <<pool, cache>> /\ \A j \in Identities : MakingInv(j) => MakingInv(j)'
<1>0. identity \in [Identities -> Objects] /\ itask \in [Identities -> Tasks]
  BY DEF Typed, IdentityTyped
<1>1. UNCHANGED <<pool, cache, itask>>
  BY DEF UserCreate, UserEdit, UserDelete, CollectIdentity, CollectVolume
<1> SUFFICES /\ \A j \in Identities : j # i => identity'[j].phase = identity[j].phase
             /\ identity'[i].phase = identity[i].phase
  BY <1>1, OneCounted DEF IsCounted, MakingInv
<1>2. CASE UserCreate(i)
  <2>1. identity[i].phase = "None"
    BY <1>2 DEF UserCreate, Exists, ObjectInv
  <2> QED BY <1>0, <1>2, <2>1, CreatedFacts DEF UserCreate
<1>3. CASE UserEdit(i)
  BY <1>0, <1>3, EditedFacts DEF UserEdit, Untouched
<1>4. CASE UserDelete(i) \/ CollectIdentity(i)
  <2>1. identity' = Marked(i) /\ identity[i].life \in {"new", "finalized"}
    BY <1>4 DEF UserDelete, CollectIdentity
  <2>2. identity[i].life = "new" => identity[i].phase = "None"
    BY DEF ObjectInv
  <2> QED BY <1>0, <2>1, <2>2, MarkedFacts
<1>5. CASE CollectVolume(i)
  BY <1>5 DEF CollectVolume
<1> QED BY <1>2, <1>3, <1>4, <1>5

LEMMA FirstSteps ==
  ASSUME NEW o, first_step(o) # "idle"
  PROVE  first_step(o) \in {"check", "reject", "recover", "bare", "rm_pvc"}
BY DEF first_step, determine_action, modify, delete

\* The steps of the task of an identity that are not counted.
LEMMA UncountedSteps ==
  ASSUME Typed, NEW i \in Identities \ odd', i \notin odd, ObjectInv(i), TaskInv(i), MakingInv(i),
         ~Die, \A c : ~Lose(c),
         \/ reconciler(i) \/ check(i) \/ add_finalizer(i) \/ add_owner_reference(i) \/ create_pvc(i)
         \/ create_initialized(i) \/ create_ready(i) \/ modify_identity(i) \/ delete_pvc(i)
         \/ delete_finalizer(i)
  PROVE  Counted' = Counted /\ UNCHANGED <<pool, cache>> /\ \A j \in Identities : MakingInv(j) => MakingInv(j)'
<1>0. identity \in [Identities -> Objects] /\ itask \in [Identities -> Tasks] /\ pool.uid \in Nat
  BY PoolFields DEF Typed, IdentityTyped
<1>1. UNCHANGED <<pool, cache>>
  BY DEF reconciler, check, add_finalizer, add_owner_reference, create_pvc, create_initialized, create_ready,
       modify_identity, delete_pvc, delete_finalizer
<1>2. {"finalizer", "owner", "pvc", "init", "await_pvc"} \subseteq Steps
  BY DEF Steps
<1> SUFFICES /\ \A j \in Identities : j # i => identity'[j].phase = identity[j].phase /\ itask'[j] = itask[j]
             /\ IsCounted(i)' <=> IsCounted(i)
             /\ MakingInv(i)'
  BY <1>1, OneCounted
<1>3. CASE reconciler(i)
  <2>1. /\ itask[i].pc = "idle" /\ UNCHANGED identity
        /\ itask' = [itask EXCEPT ![i] = [pc |-> first_step(identity[i]), self |-> Snapshot(identity[i])]]
    BY <1>3 DEF reconciler
  <2>2. first_step(identity[i]) \in {"check", "reject", "recover", "bare", "rm_pvc"}
    BY <1>3, FirstSteps DEF reconciler
  <2>3. /\ itask'[i].pc \in {"check", "reject", "recover", "bare", "rm_pvc"}
        /\ \A j \in Identities : j # i => itask'[j] = itask[j]
    BY <1>0, <2>1, <2>2
  <2> QED BY <2>1, <2>3 DEF IsCounted, MakingInv
<1>4. CASE check(i) \/ create_pvc(i) \/ delete_pvc(i)
  <2>1. /\ itask[i].pc \in {"check", "pvc", "rm_pvc"} /\ UNCHANGED identity
        /\ Goto(i, "finalizer") \/ Goto(i, "init") \/ Goto(i, "await_pvc") \/ End(i)
    BY <1>4 DEF check, create_pvc, delete_pvc, At
  <2>2. /\ itask'[i].pc \in {"finalizer", "init", "await_pvc", "idle"}
        /\ \A j \in Identities : j # i => itask'[j] = itask[j]
    BY <1>0, <1>2, <2>1, GotoFacts, EndFacts
  <2> QED BY <2>1, <2>2 DEF IsCounted, MakingInv
<1>5. CASE add_finalizer(i) \/ add_owner_reference(i)
  <2>1. /\ itask[i].pc \in {"finalizer", "owner"}
        /\ Goto(i, "owner") \/ Goto(i, "pvc")
        /\ \/ identity' = [identity EXCEPT ![i].life = IF @ = "new" THEN "finalized" ELSE @]
           \/ identity' = [identity EXCEPT ![i].owner = pool.uid]
           \/ identity' = identity
    BY <1>5 DEF add_finalizer, add_owner_reference, At
  <2>2. itask'[i].pc \in {"owner", "pvc"} /\ \A j \in Identities : j # i => itask'[j] = itask[j]
    BY <1>0, <1>2, <2>1, GotoFacts
  <2>3. /\ identity'[i].phase = identity[i].phase
        /\ \A j \in Identities : j # i => identity'[j] = identity[j]
    BY <1>0, <2>1, FinalizedFacts, OwnedFacts DEF Untouched
  <2> QED BY <2>1, <2>2, <2>3 DEF IsCounted, MakingInv
<1>6. CASE create_initialized(i)
  <2>1. itask[i].pc = "init" /\ UpdatePhase(i, "Initialized", "count")
    BY <1>6 DEF create_initialized, At
  <2>2. identity[i].phase = "None"
    BY <2>1 DEF TaskInv
  <2> QED BY <1>0, <2>1, <2>2, UpdatePhaseFacts DEF IsCounted, MakingInv
<1>7. CASE create_ready(i) \/ modify_identity(i)
  <2>1. /\ itask[i].pc \in {"ready", "reject", "recover"}
        /\ UpdatePhase(i, "Ready", "idle") \/ UpdatePhase(i, "Failed", "idle")
    BY <1>7 DEF create_ready, modify_identity, At
  <2>2. Exists(i) /\ IsCounted(i)
    BY <2>1 DEF TaskInv, Finalized, Exists, IsCounted
  <2>3. /\ itask'[i].pc = "idle" /\ identity'[i].phase \in {"Ready", "Failed"}
        /\ \A j \in Identities : j # i => identity'[j] = identity[j] /\ itask'[j] = itask[j]
    <3>1. ASSUME NEW ph \in {"Ready", "Failed"}, UpdatePhase(i, ph, "idle")
          PROVE  /\ itask'[i].pc = "idle" /\ identity'[i].phase = ph
                 /\ \A j \in Identities : j # i => identity'[j] = identity[j] /\ itask'[j] = itask[j]
      <4>1. /\ Exists(i) /\ identity' = Phased(i, ph, NoNode, itask[i].self.gen) /\ End(i)
        BY <2>2, <3>1 DEF UpdatePhase
      <4>2. itask[i].self.gen \in Nat /\ ph \in Kinds /\ NoNode \in Hoprds \cup {NoNode}
        BY <1>0 DEF Tasks, Selves, Kinds
      <4> QED BY <1>0, <4>1, <4>2, PhasedFacts, EndFacts
    <3> QED BY <2>1, <3>1
  <2> QED BY <2>2, <2>3 DEF IsCounted, MakingInv
<1>8. CASE delete_finalizer(i)
  <2>1. /\ itask[i].pc = "bare" \/ (itask[i].pc = "unfinalize" /\ itask[i].self.pool = "own")
        /\ identity' = [identity EXCEPT ![i] = Gone(@.uid)] /\ End(i)
    BY <1>8 DEF delete_finalizer, At, PoolFound
  <2>2. itask[i].pc = "bare" => identity[i].phase = "None"
    BY DEF TaskInv
  <2>3. /\ itask'[i].pc = "idle" /\ identity'[i].phase = "None"
        /\ \A j \in Identities : j # i => identity'[j] = identity[j] /\ itask'[j] = itask[j]
    BY <1>0, <2>1, RemovedFacts, EndFacts
  <2> QED BY <2>1, <2>2, <2>3 DEF IsCounted, MakingInv
<1> QED BY <1>3, <1>4, <1>5, <1>6, <1>7, <1>8

\* The steps of the task of an identity that are counted.
LEMMA CountedSteps ==
  ASSUME Typed, NEW i \in Identities \ odd', ObjectInv(i), TaskInv(i), MakingInv(i), ~Die, \A c : ~Lose(c),
         count_created(i) \/ count_deleted(i)
  PROVE  /\ \A j \in Identities : MakingInv(j) => MakingInv(j)'
         /\ \/ Counted' = Counted /\ UNCHANGED <<pool, cache>>
            \/ cache.present /\ CountPool("IdentityCreated") /\ i \notin Counted /\ Counted' = Counted \cup {i}
            \/ cache.present /\ CountPool("IdentityDeleted") /\ i \in Counted /\ Counted' = Counted \ {i}
            \/ ~cache.present /\ Counted' \subseteq Counted /\ UNCHANGED <<pool, cache>>
<1>0. identity \in [Identities -> Objects] /\ itask \in [Identities -> Tasks]
  BY DEF Typed, IdentityTyped
<1>1. {"ready", "unfinalize"} \subseteq Steps
  BY DEF Steps
<1>2. CASE count_created(i)
  <2>1. itask[i].pc = "count" /\ cache.present /\ CountPool("IdentityCreated") /\ Goto(i, "ready") /\ UNCHANGED identity
    BY <1>2 DEF count_created, At
  <2>2. itask'[i].pc = "ready" /\ \A j \in Identities : j # i => itask'[j] = itask[j]
    BY <1>0, <1>1, <2>1, GotoFacts
  <2>3. identity[i].phase = "Initialized"
    BY <2>1 DEF TaskInv
  <2>4. ~IsCounted(i) /\ IsCounted(i)' /\ MakingInv(i)'
    BY <2>1, <2>2, <2>3 DEF IsCounted, MakingInv
  <2> QED BY <2>1, <2>2, <2>4, OneCounted
<1>3. CASE count_deleted(i)
  <2>1. itask[i].pc = "await_pvc" /\ Goto(i, "unfinalize") /\ UNCHANGED identity
    BY <1>3 DEF count_deleted, At
  <2>2. /\ itask'[i].pc = "unfinalize" /\ itask'[i].self = itask[i].self
        /\ \A j \in Identities : j # i => itask'[j] = itask[j]
    BY <1>0, <1>1, <2>1, GotoFacts
  <2>3. identity[i].phase \in {"Ready", "Failed"}
    BY <2>1 DEF TaskInv, MakingInv
  <2>4. IsCounted(i) /\ (IsCounted(i)' <=> itask[i].self.pool # "own") /\ MakingInv(i)'
    BY <2>1, <2>2, <2>3 DEF IsCounted, MakingInv
  <2>5. \A j \in Identities : j # i => identity'[j].phase = identity[j].phase /\ itask'[j] = itask[j]
    BY <2>1, <2>2
  <2>6. \/ cache.present /\ itask[i].self.pool = "own" /\ CountPool("IdentityDeleted")
        \/ ~(cache.present /\ itask[i].self.pool = "own") /\ UNCHANGED <<pool, cache>>
    BY <1>3 DEF count_deleted
  <2> QED BY <2>4, <2>5, <2>6, OneCounted
<1> QED BY <1>2, <1>3

\* A lock or an unlock does not change whether its identity is counted.
LEMMA UncountedNodes ==
  ASSUME Typed, WholeInv, NEW h \in Hoprds, odd \cap Identities = {}, ~Die, \A c : ~Lose(c),
         ~Unlocked => cache.present,
         UserCreateNode(h) \/ UserDeleteNode(h) \/ delete_deployment(h) \/ NodeNext(h)
  PROVE  /\ Counted' = Counted /\ \A j \in Identities : MakingInv(j) => MakingInv(j)'
         /\ UNCHANGED <<pool, cache>> \/ (cache.present /\ \E op \in {"Locked", "Unlocked"} : CountPool(op))
<1>0. identity \in [Identities -> Objects] /\ node \in [Hoprds -> Nodes]
  BY DEF Typed, IdentityTyped
<1>1. UNCHANGED itask
  BY DEF UserCreateNode, UserDeleteNode, delete_deployment, NodeNext, lock_identity, claim_identity,
       count_lock, finalize_node, create_deployment, get_identity, release_identity, count_unlock
<1>2. node[h].pc \in {"claim", "count"} => cache.present
  BY DEF Unlocked
<1>3. UNCHANGED <<pool, cache>> \/ (cache.present /\ \E op \in {"Locked", "Unlocked"} : CountPool(op))
  BY <1>2 DEF UserCreateNode, UserDeleteNode, delete_deployment, NodeNext, lock_identity, claim_identity,
       count_lock, finalize_node, create_deployment, get_identity, release_identity, count_unlock
<1>4. CASE UNCHANGED identity
  BY <1>1, <1>3, <1>4 DEF Counted, MakingInv
<1>5. CASE ~UNCHANGED identity
  <2>1. \/ /\ node[h].pc = "claim" /\ Exists(node[h].id)
           /\ identity' = Phased(node[h].id, "InUse", h, node[h].gen)
        \/ /\ node[h].pc = "release" /\ Exists(node[h].id)
           /\ identity' = Phased(node[h].id, "Ready", NoNode, node[h].gen)
    BY <1>5 DEF UserCreateNode, UserDeleteNode, delete_deployment, NodeNext, lock_identity, claim_identity,
         count_lock, finalize_node, create_deployment, get_identity, release_identity, count_unlock
  <2>2. node[h].id \in Identities /\ node[h].gen \in Nat
    <3>1. node[h].id \in Identities
      BY <2>1 DEF Typed, IdentityTyped
    <3>2. node[h].gen \in Nat
      BY <1>0 DEF Nodes
    <3> QED BY <3>1, <3>2
  <2>a. PICK i \in Identities : i = node[h].id
    BY <2>2
  <2>b. PICK g \in Nat : g = node[h].gen
    BY <2>2
  <2>3. identity[i].phase \in {"Ready", "Failed", "InUse"}
    <3>1. HolderInv(h) /\ i \notin odd
      BY DEF WholeInv
    <3> QED BY <2>1, <2>a, <3>1 DEF HolderInv, Using, Exists
  <2>4. /\ identity'[i].phase \in {"Ready", "InUse"}
        /\ \A j \in Identities : j # i => identity'[j] = identity[j]
    <3>1. "InUse" \in Kinds /\ "Ready" \in Kinds /\ h \in Hoprds \cup {NoNode} /\ NoNode \in Hoprds \cup {NoNode}
      BY DEF Kinds
    <3>2. CASE identity' = Phased(i, "InUse", h, g)
      BY <1>0, <3>1, <3>2, PhasedFacts
    <3>3. CASE identity' = Phased(i, "Ready", NoNode, g)
      BY <1>0, <3>1, <3>3, PhasedFacts
    <3> QED BY <2>1, <2>a, <2>b, <3>2, <3>3
  <2>5. (IsCounted(i)' <=> IsCounted(i)) /\ MakingInv(i)'
    BY <1>1, <2>3, <2>4 DEF IsCounted, MakingInv
  <2>6. \A j \in Identities : j # i => (MakingInv(j) => MakingInv(j)') /\ (IsCounted(j)' <=> IsCounted(j))
    BY <1>1, <2>4 DEF IsCounted, MakingInv
  <2> QED BY <1>1, <1>3, <2>4, <2>5, <2>6, OneCounted
<1> QED BY <1>4, <1>5

\* What a step of an identity or a node does to the count.
LEMMA SizeSteps ==
  ASSUME Typed, WholeInv, QuietInv, [Next]_vars, ~PoolSide, Faultless', odd' \cap Identities = {},
         \A i \in Identities : MakingInv(i)
  PROVE  /\ \A i \in Identities : MakingInv(i)'
         /\ \/ /\ Counted' = Counted
               /\ UNCHANGED <<pool, cache>> \/ (cache.present /\ \E op \in {"Locked", "Unlocked"} : CountPool(op))
            \/ /\ cache.present /\ CountPool("IdentityCreated")
               /\ \E i \in Identities : i \notin Counted /\ Counted' = Counted \cup {i}
            \/ /\ cache.present /\ CountPool("IdentityDeleted")
               /\ \E i \in Identities : i \in Counted /\ Counted' = Counted \ {i}
            \/ ~cache.present /\ Counted' \subseteq Counted /\ UNCHANGED <<pool, cache>>
<1>0. ~Die /\ ~StartNext /\ ~Crash /\ (\A c : ~Lose(c)) /\ (~Unlocked => cache.present)
  BY NoFault DEF Crash, QuietInv
<1>1. odd \cap Identities = {}
  BY OddGrows
<1>2. \A i \in Identities : i \notin odd /\ i \notin odd' /\ ObjectInv(i) /\ TaskInv(i)
  BY <1>1 DEF WholeInv
<1>3. ASSUME NEW i \in Identities,
             UserCreate(i) \/ UserEdit(i) \/ UserDelete(i) \/ CollectIdentity(i) \/ CollectVolume(i)
      PROVE  (\A j \in Identities : MakingInv(j)') /\ Counted' = Counted /\ UNCHANGED <<pool, cache>>
  BY <1>2, <1>3, UncountedUsers
<1>4. ASSUME NEW i \in Identities,
             \/ reconciler(i) \/ check(i) \/ add_finalizer(i) \/ add_owner_reference(i) \/ create_pvc(i)
             \/ create_initialized(i) \/ create_ready(i) \/ modify_identity(i) \/ delete_pvc(i)
             \/ delete_finalizer(i)
      PROVE  (\A j \in Identities : MakingInv(j)') /\ Counted' = Counted /\ UNCHANGED <<pool, cache>>
  BY <1>0, <1>2, <1>4, UncountedSteps
<1>5. ASSUME NEW i \in Identities, count_created(i) \/ count_deleted(i)
      PROVE  /\ \A j \in Identities : MakingInv(j)'
             /\ \/ Counted' = Counted /\ UNCHANGED <<pool, cache>>
                \/ cache.present /\ CountPool("IdentityCreated") /\ i \notin Counted /\ Counted' = Counted \cup {i}
                \/ cache.present /\ CountPool("IdentityDeleted") /\ i \in Counted /\ Counted' = Counted \ {i}
                \/ ~cache.present /\ Counted' \subseteq Counted /\ UNCHANGED <<pool, cache>>
  BY <1>0, <1>2, <1>5, CountedSteps
<1>6. ASSUME NEW h \in Hoprds, UserCreateNode(h) \/ UserDeleteNode(h) \/ delete_deployment(h) \/ NodeNext(h)
      PROVE  /\ (\A j \in Identities : MakingInv(j)') /\ Counted' = Counted
             /\ UNCHANGED <<pool, cache>> \/ (cache.present /\ \E op \in {"Locked", "Unlocked"} : CountPool(op))
  BY <1>0, <1>1, <1>6, UncountedNodes
<1>7. ASSUME UNCHANGED vars
      PROVE  (\A j \in Identities : MakingInv(j)') /\ Counted' = Counted /\ UNCHANGED <<pool, cache>>
  BY <1>7 DEF vars, MakingInv, Counted
<1> QED BY <1>0, <1>3, <1>4, <1>5, <1>6, <1>7 DEF Next, PoolSide, IdentityNext

\* A pool that is not cached yet has counted nothing.
LEMMA EmptyKept ==
  ASSUME Typed, PoolSide, ~Die, \A c : ~Lose(c), PoolExists, PoolExists',
         ~UserCreatePool, ~add_identity_pool, ~remove_identity_pool,
         pool.status.size = 0, ptask.pc # "idle" => ptask.self.status.size = 0
  PROVE  pool'.status.size = 0 /\ (ptask'.pc # "idle" => ptask'.self.status.size = 0)
<1>0. pool \in Pools /\ ptask \in PoolTasks
  BY PoolFields
<1>a. PoolSteps = {"idle", "wallet", "finalizer", "monitor", "rbac", "create_cron", "initialized", "ready", "add",
                   "cron", "applied", "reject", "recover", "rm_monitor", "rm_rbac", "rm_cron", "unfinalize",
                   "remove"}
  BY DEF PoolSteps
<1>1. CASE UserEditPool
  <2>1. PICK f \in BOOLEAN, l \in {"same", "differs", "none"} :
          pool' = [pool EXCEPT !.gen = @ + 1, !.last = l, !.funding = f]
    BY <1>1 DEF UserEditPool
  <2> QED BY <1>0, <1>1, <2>1 DEF UserEditPool, Pools
<1>2. CASE UserDeletePool
  <2>1. pool' # NoPool(pool.uid)
    BY DEF PoolExists, NoPool
  <2> QED BY <1>0, <1>2, <2>1 DEF UserDeletePool, Pools
<1>3. CASE CollectHelpers
  BY <1>3 DEF CollectHelpers
<1>4. CASE pool_reconciler
  <2>1. ptask' = [pc |-> pool_step(pool), self |-> PoolSnapshot(pool)] /\ UNCHANGED pool
    BY <1>4 DEF pool_reconciler
  <2>2. PoolSnapshot(pool).status = pool.status
    BY DEF PoolSnapshot
  <2> QED BY <2>1, <2>2
<1>5. CASE check_wallet \/ add_pool_finalizer
  <2>1. ptask.pc # "idle" /\ (PoolGoto("finalizer") \/ PoolGoto("monitor"))
    BY <1>5 DEF check_wallet, add_pool_finalizer
  <2>2. pool' = pool \/ pool' = [pool EXCEPT !.life = "finalized"]
    BY <1>5 DEF check_wallet, add_pool_finalizer
  <2> QED BY <1>0, <1>a, <2>1, <2>2, PoolGotoFacts DEF Pools
<1>6. CASE create_service_monitor \/ create_rbac \/ create_cron_job \/ modify_cron_job
  <2>1. /\ ptask.pc # "idle" /\ UNCHANGED pool
        /\ \/ PoolGoto("rbac") \/ PoolGoto("create_cron") \/ PoolGoto("initialized") \/ PoolGoto("applied")
           \/ ptask' = PoolIdle
    BY <1>6 DEF create_service_monitor, create_rbac, create_helper, create_cron_job, modify_cron_job
  <2> QED BY <1>0, <1>a, <2>1, PoolGotoFacts, PoolIdleFacts
<1>7. CASE pool_initialized \/ pool_ready \/ modify_pool
  <2>1. /\ ptask.pc # "idle"
        /\ \E op \in {"Initialized", "Ready", "Failed"}, next \in {"ready", "add", "idle"} : UpdateOwnStatus(op, next)
    BY <1>7 DEF pool_initialized, pool_ready, modify_pool
  <2> QED BY <1>a, <2>1, OwnStatusFacts
<1>8. CASE delete_service_monitor \/ delete_rbac \/ delete_cron_job
  <2>1. /\ ptask.pc # "idle" /\ UNCHANGED pool
        /\ PoolGoto("rm_rbac") \/ PoolGoto("rm_cron") \/ PoolGoto("unfinalize")
    BY <1>8 DEF delete_service_monitor, delete_rbac, delete_cron_job, delete_helper
  <2> QED BY <1>0, <1>a, <2>1, PoolGotoFacts
<1>9. CASE delete_pool_finalizer
  <2>1. /\ ptask.pc # "idle" /\ PoolGoto("remove")
        /\ pool' = pool \/ pool' = NoPool(pool.uid)
    BY <1>9 DEF delete_pool_finalizer
  <2>2. pool' # NoPool(pool.uid)
    BY DEF PoolExists, NoPool
  <2> QED BY <1>0, <1>a, <2>1, <2>2, PoolGotoFacts
<1> QED BY <1>1, <1>2, <1>3, <1>4, <1>5, <1>6, <1>7, <1>8, <1>9 DEF PoolSide, PoolNext

LEMMA SizeNext ==
  ASSUME OnePool, Typed, WholeInv, PoolInv, SizeInv, [Next]_vars
  PROVE  SizeInv'
<1> SUFFICES ASSUME Faultless', odd' \cap Identities = {}
             PROVE  /\ \A i \in Identities : MakingInv(i)'
                    /\ pool'.uid = 0 \/ (PoolExists' /\ ~cache'.present) => Counted' = {}
                    /\ PoolExists' /\ ~cache'.present =>
                         pool'.status.size = 0 /\ (ptask'.pc # "idle" => ptask'.self.status.size = 0)
                    /\ PoolExists' /\ cache'.present => cache'.status.size = Cardinality(Counted')
  BY DEF SizeInv
<1>1. Faultless /\ ~Die /\ \A c : ~Lose(c)
  BY NoFault DEF PoolInv
<1>2. odd \cap Identities = {}
  BY OddGrows
<1>3. /\ \A i \in Identities : MakingInv(i)
      /\ pool.uid = 0 \/ (PoolExists /\ ~cache.present) => Counted = {}
      /\ PoolExists /\ ~cache.present =>
           pool.status.size = 0 /\ (ptask.pc # "idle" => ptask.self.status.size = 0)
      /\ PoolExists /\ cache.present => cache.status.size = Cardinality(Counted)
  BY <1>1, <1>2 DEF SizeInv
<1>4. PoolExists => StageInv
  BY <1>1 DEF PoolInv, Clean, OnePool
<1>5. /\ pool.uid = 0 => ~PoolExists /\ ptask.pc = "idle" /\ ~cache.present
  BY <1>1 DEF PoolInv, QuietInv
<1>6. pool \in Pools /\ pool.uid \in Nat /\ cache.status.size \in Int
  BY PoolFields
<1>7. CASE PoolSide
  <2>1. UNCHANGED <<identity, itask>>
    BY <1>1, <1>7, PoolSideFrame
  <2>2. Counted' = Counted /\ \A i \in Identities : MakingInv(i)'
    BY <1>3, <2>1 DEF Counted, MakingInv
  <2>3. CASE UserCreatePool
    <3>1. pool.uid < MaxPools /\ UNCHANGED <<cache, ptask>>
      BY <2>3 DEF UserCreatePool
    <3>2. pool.uid = 0
      BY <1>6, <3>1, BoundsAssumption DEF OnePool
    <3>3. pool'.status.size = 0
      <4>1. PICK f \in Funding : pool' = [NoPool(pool.uid + 1) EXCEPT !.life = "new", !.gen = 1, !.funding = f]
        BY <2>3 DEF UserCreatePool
      <4>2. NoPool(pool.uid + 1) \in Pools /\ NoPool(pool.uid + 1).status = NoStatus /\ NoStatus.size = 0
        BY <1>6, NoPoolTyped DEF NoPool, NoStatus
      <4> QED BY <4>1, <4>2 DEF Pools
    <3> QED BY <1>3, <1>5, <2>2, <3>1, <3>2, <3>3
  <2>4. CASE ~UserCreatePool
    <3>1. pool'.uid = pool.uid /\ (PoolExists' => PoolExists)
      BY <1>1, <1>7, <2>4, PoolSideFacts DEF PoolExists
    <3>2. CASE add_identity_pool
      <4>1. ptask.pc = "add" /\ cache' = Cached(ptask.self)
        BY <3>2 DEF add_identity_pool
      <4>2. cache'.present /\ cache'.status.size = ptask.self.status.size
        BY <4>1 DEF Cached
      <4>3. PoolExists => ~cache.present
        BY <1>4, <4>1 DEF StageInv, Making
      <4>4. PoolExists => Counted = {} /\ ptask.self.status.size = 0
        BY <1>3, <4>1, <4>3
      <4> QED BY <1>3, <2>2, <3>1, <4>2, <4>4, FS_EmptySet
    <3>3. CASE remove_identity_pool
      <4>1. ptask.pc = "remove"
        BY <3>3 DEF remove_identity_pool
      <4>2. ~PoolExists
        BY <1>4, <4>1 DEF StageInv
      <4> QED BY <1>3, <2>2, <3>1, <4>2
    <3>4. CASE ~add_identity_pool /\ ~remove_identity_pool
      <4>1. UNCHANGED cache
        BY <1>1, <1>7, <3>4, PoolSideFacts
      <4>2. PoolExists' /\ ~cache.present =>
              pool'.status.size = 0 /\ (ptask'.pc # "idle" => ptask'.self.status.size = 0)
        BY <1>1, <1>3, <1>7, <2>4, <3>1, <3>4, EmptyKept
      <4> QED BY <1>3, <2>2, <3>1, <4>1, <4>2
    <3> QED BY <3>2, <3>3, <3>4
  <2> QED BY <2>3, <2>4
<1>8. CASE ~PoolSide
  <2>1. UNCHANGED ptask
    BY <1>8, Counts DEF PoolInv
  <2>2. IsFiniteSet(Counted) /\ Cardinality(Counted) \in Nat
    BY NamesAssumption, FS_Subset, FS_CardinalityType DEF Counted
  <2>3. ASSUME NEW op \in Counting, CountPool(op), cache.present
        PROVE  /\ pool'.uid = pool.uid /\ (PoolExists' <=> PoolExists) /\ cache'.present
               /\ PoolExists => cache'.status.size = cache.status.size + Size(op)
    BY <1>1, <2>3, CountFacts DEF PoolExists
  <2>4. /\ \A op \in {"Locked", "Unlocked"} : op \in Counting /\ Size(op) = 0
        /\ "IdentityCreated" \in Counting /\ Size("IdentityCreated") = 1
        /\ "IdentityDeleted" \in Counting /\ Size("IdentityDeleted") = -1
    BY DEF Counting, Size
  <2>5. \A i \in Identities : MakingInv(i)'
    BY <1>3, <1>8, SizeSteps DEF PoolInv
  <2>6. CASE Counted' = Counted /\ UNCHANGED <<pool, cache>>
    BY <1>3, <2>1, <2>5, <2>6 DEF PoolExists
  <2>7. ASSUME Counted' = Counted, cache.present, NEW op \in {"Locked", "Unlocked"}, CountPool(op)
        PROVE  SizeInv'
    <3>1. /\ pool'.uid = pool.uid /\ (PoolExists' <=> PoolExists) /\ cache'.present
          /\ PoolExists => cache'.status.size = cache.status.size
      BY <1>6, <2>3, <2>4, <2>7
    <3> QED BY <1>3, <1>5, <2>5, <2>7, <3>1 DEF SizeInv
  <2>8. ASSUME cache.present, CountPool("IdentityCreated"), NEW i \in Identities, i \notin Counted,
               Counted' = Counted \cup {i}
        PROVE  SizeInv'
    <3>1. Cardinality(Counted') = Cardinality(Counted) + 1
      BY <2>2, <2>8, FS_AddElement
    <3> QED BY <1>3, <1>5, <2>3, <2>4, <2>5, <2>8, <3>1 DEF SizeInv
  <2>9. ASSUME cache.present, CountPool("IdentityDeleted"), NEW i \in Identities, i \in Counted,
               Counted' = Counted \ {i}
        PROVE  SizeInv'
    <3>1. Cardinality(Counted') = Cardinality(Counted) - 1
      BY <2>2, <2>9, FS_RemoveElement
    <3>2. /\ pool'.uid = pool.uid /\ (PoolExists' <=> PoolExists) /\ cache'.present
          /\ PoolExists => cache'.status.size = cache.status.size - 1
      BY <1>6, <2>3, <2>4, <2>9
    <3> QED BY <1>3, <1>5, <2>5, <2>9, <3>1, <3>2 DEF SizeInv
  <2>10. CASE ~cache.present /\ Counted' \subseteq Counted /\ UNCHANGED <<pool, cache>>
    BY <1>3, <2>1, <2>5, <2>10 DEF PoolExists
  <2>11. \/ /\ Counted' = Counted
            /\ UNCHANGED <<pool, cache>> \/ (cache.present /\ \E op \in {"Locked", "Unlocked"} : CountPool(op))
         \/ /\ cache.present /\ CountPool("IdentityCreated")
            /\ \E i \in Identities : i \notin Counted /\ Counted' = Counted \cup {i}
         \/ /\ cache.present /\ CountPool("IdentityDeleted")
            /\ \E i \in Identities : i \in Counted /\ Counted' = Counted \ {i}
         \/ ~cache.present /\ Counted' \subseteq Counted /\ UNCHANGED <<pool, cache>>
    BY <1>3, <1>8, SizeSteps DEF PoolInv
  <2>12. ASSUME SizeInv'
         PROVE  /\ pool'.uid = 0 \/ (PoolExists' /\ ~cache'.present) => Counted' = {}
                /\ PoolExists' /\ ~cache'.present =>
                     pool'.status.size = 0 /\ (ptask'.pc # "idle" => ptask'.self.status.size = 0)
                /\ PoolExists' /\ cache'.present => cache'.status.size = Cardinality(Counted')
    BY <2>12 DEF SizeInv
  <2> QED BY <2>5, <2>6, <2>7, <2>8, <2>9, <2>10, <2>11, <2>12
<1> QED BY <1>7, <1>8

\* Without faults, and for a pool that is created once, the cached size is the number of identities that are
\* counted, however creations, deletions, edits and locks of any number of identities interleave with the
\* status writes of the pool's own task: no creation or deletion is lost or counted twice.
THEOREM SizeIsExact == ASSUME OnePool PROVE Spec => []SizeExact
<1>1. Init => Typed /\ WholeInv /\ PoolInv
  BY TypeInit, WholeInit, PoolInvInit
<1>2. Init => SizeInv
  <2> SUFFICES ASSUME Init PROVE SizeInv
    OBVIOUS
  <2>1. \A i \in Identities : identity[i].phase = "None" /\ itask[i].pc = "idle"
    BY GoneFacts, IdleFacts DEF Init
  <2>2. Counted = {} /\ \A i \in Identities : MakingInv(i)
    BY <2>1 DEF Counted, MakingInv
  <2>3. ~PoolExists
    BY DEF Init, NoPool, PoolExists
  <2> QED BY <2>2, <2>3 DEF SizeInv
<1>3. Typed /\ WholeInv /\ PoolInv /\ SizeInv /\ [Next]_vars => (Typed /\ WholeInv /\ PoolInv /\ SizeInv)'
  BY TypeNext, WholeNext, PoolInvNext, SizeNext
<1>4. SizeInv => SizeExact
  BY DEF SizeInv, SizeExact
<1> QED BY <1>1, <1>2, <1>3, <1>4, PTL DEF Spec

=============================================================================
