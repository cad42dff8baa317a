------------------------ MODULE ClusterScale_proofs ------------------------
(***************************************************************************)
(* Proofs about ClusterScale, for any number of nodes, any replicas and    *)
(* any number of edits, deletions, failed calls and crashes:               *)
(* get_next_free_node returns the first free number whatever holes there   *)
(* are, the count is exact and a quiet cluster is scaled but for what      *)
(* `odd` notes; and in a cluster that nobody disturbs the count, the       *)
(* numbers of the nodes and the spec stay together at every step.          *)
(***************************************************************************)
EXTENDS ClusterScale, TLAPS, FiniteSetTheorems, WellFoundedInduction

-----------------------------------------------------------------------------
(***************************************************************************)
(* get_next_free_node.                                                     *)
(***************************************************************************)

LEMMA MinExists ==
  ASSUME NEW S \in SUBSET Nat, S # {}
  PROVE  \E m \in S : \A x \in S : m <= x
<1>1. PICK m \in S : \A x \in S : ~(<<x, m>> \in OpToRel(<, Nat))
  BY NatLessThanWellFounded, WFMin
<1>2. \A x \in S : ~(x < m)
  BY <1>1 DEF OpToRel
<1> QED BY <1>2

LEMMA MaxExists ==
  ASSUME NEW b \in Nat, NEW S \in SUBSET (0 .. b), S # {}
  PROVE  \E m \in S : \A x \in S : x <= m
<1> DEFINE T == {b - x : x \in S}
<1>1. \A x \in S : b - x \in Nat
  OBVIOUS
<1>2. T \in SUBSET Nat /\ T # {}
  BY <1>1
<1>3. PICK t \in T : \A x \in T : t <= x
  BY <1>2, MinExists
<1>4. PICK m \in S : t = b - m
  BY <1>3
<1>5. \A x \in S : b - m <= b - x
  BY <1>3, <1>4
<1> QED BY <1>4, <1>5

LEMMA CountUpTo ==
  ASSUME NEW k \in Nat
  PROVE  IsFiniteSet(1 .. k) /\ Cardinality(1 .. k) = k
BY FS_Interval

\* A node whose place in the sorted list is its number has all the smaller numbers before it.
LEMMA PlacedMeansFull ==
  ASSUME NEW S \in SUBSET Numbers, NEW v \in S, v \notin Misplaced(S)
  PROVE  1 .. (v - 1) \subseteq S
<1> DEFINE A == {u \in S : u < v}
<1>1. v \in Nat /\ v - 1 \in Nat
  BY ReplicasAssumption DEF Numbers
<1>2. Cardinality(A) = v - 1
  BY DEF Misplaced
<1>3. A \subseteq 1 .. (v - 1)
  <2> SUFFICES ASSUME NEW u \in S, u < v PROVE u \in 1 .. (v - 1)
    OBVIOUS
  <2>1. u \in Nat /\ u >= 1
    BY ReplicasAssumption DEF Numbers
  <2> QED BY <1>1, <2>1
<1> HIDE DEF A
<1>4. A = 1 .. (v - 1)
  BY <1>1, <1>2, <1>3, CountUpTo, FS_Subset
<1> QED BY <1>4 DEF A

\* A set of numbers without a gap.
LEMMA NoGapMeansPrefix ==
  ASSUME NEW T \in SUBSET Numbers, \A v \in T : 1 .. (v - 1) \subseteq T
  PROVE  Cardinality(T) \in Nat /\ T = 1 .. Cardinality(T)
<1>1. CASE T = {}
  BY <1>1, FS_EmptySet
<1>2. CASE T # {}
  <2>1. T \in SUBSET (0 .. MaxNode) /\ MaxNode \in Nat
    BY ReplicasAssumption DEF Numbers
  <2>2. PICK m \in T : \A x \in T : x <= m
    BY <1>2, <2>1, MaxExists
  <2>3. m \in Nat /\ m >= 1 /\ \A x \in T : x \in Nat /\ x >= 1
    BY ReplicasAssumption DEF Numbers
  <2>4. T = 1 .. m
    <3>1. 1 .. (m - 1) \subseteq T
      OBVIOUS
    <3>2. \A x \in 1 .. m : x \in 1 .. (m - 1) \/ x = m
      BY <2>3
    <3>3. 1 .. m \subseteq T
      BY <3>1, <3>2
    <3>4. T \subseteq 1 .. m
      BY <2>2, <2>3
    <3> QED BY <3>3, <3>4
  <2> QED BY <2>3, <2>4, CountUpTo
<1> QED BY <1>1, <1>2

\* The number that get_next_free_node returns is free, and every smaller one is taken.
LEMMA FirstFree ==
  ASSUME NEW S \in SUBSET Numbers
  PROVE  LET n == get_next_free_node(S) IN n \in Nat /\ n >= 1 /\ n \notin S /\ 1 .. (n - 1) \subseteq S
<1>0. \A x \in S : x \in Nat /\ x >= 1
  BY ReplicasAssumption DEF Numbers
<1>1. CASE Misplaced(S) = {}
  <2>1. \A v \in S : 1 .. (v - 1) \subseteq S
    BY <1>1, PlacedMeansFull
  <2>2. Cardinality(S) \in Nat /\ S = 1 .. Cardinality(S)
    BY <2>1, NoGapMeansPrefix
  <2>3. get_next_free_node(S) = Cardinality(S) + 1
    BY <1>1 DEF get_next_free_node
  <2> QED BY <2>2, <2>3
<1>2. CASE Misplaced(S) # {}
  <2> DEFINE T == {u \in S : \A v \in Misplaced(S) : u < v}
  <2>1. PICK w \in Misplaced(S) : \A v \in Misplaced(S) : w <= v
    <3>1. Misplaced(S) \in SUBSET Nat
      BY <1>0 DEF Misplaced
    <3> QED BY <1>2, <3>1, MinExists
  <2>2. w \in S /\ w \in Nat /\ Cardinality({u \in S : u < w}) # w - 1
    BY <1>0, <2>1 DEF Misplaced
  <2>3. T = {u \in S : u < w}
    <3>1. \A v \in Misplaced(S) : v \in Nat
      BY <1>0 DEF Misplaced
    <3>2. \A u \in S : (\A v \in Misplaced(S) : u < v) <=> u < w
      BY <1>0, <2>1, <2>2, <3>1
    <3> QED BY <3>2
  <2>4. ASSUME NEW v \in T PROVE 1 .. (v - 1) \subseteq T
    <3>1. v \in S /\ v \notin Misplaced(S) /\ v < w /\ v \in Nat
      BY <1>0, <2>1, <2>3
    <3>2. 1 .. (v - 1) \subseteq S
      BY <3>1, PlacedMeansFull
    <3> QED BY <2>2, <2>3, <3>1, <3>2
  <2>5. Cardinality(T) \in Nat /\ T = 1 .. Cardinality(T)
    <3>1. T \in SUBSET Numbers
      OBVIOUS
    <3> HIDE DEF T
    <3> QED BY <2>4, <3>1, NoGapMeansPrefix
  <2>6. get_next_free_node(S) = 1 + Cardinality(T)
    BY <1>2 DEF get_next_free_node
  <2>7. Cardinality(T) # w - 1
    BY <2>2, <2>3
  <2>8. T \subseteq S /\ \A u \in S : u < w => u \in T
    BY <2>3
  <2>9. w \notin T
    BY <2>2, <2>3
  <2> HIDE DEF T
  <2>10. Cardinality(T) + 1 \notin S
    BY <1>0, <2>2, <2>5, <2>7, <2>8, <2>9
  <2> QED BY <2>5, <2>6, <2>8, <2>10
<1> QED BY <1>1, <1>2

\* Without a gap it is the one after the last.
LEMMA NextAfterLast ==
  ASSUME NEW S \in SUBSET Numbers, NEW k \in Nat, S = 1 .. k
  PROVE  get_next_free_node(S) = k + 1
<1> DEFINE n == get_next_free_node(S)
<1>1. n \in Nat /\ n >= 1 /\ n \notin S /\ 1 .. (n - 1) \subseteq S
  BY FirstFree
<1> HIDE DEF n
<1>2. n > k
  BY <1>1
<1>3. n <= k + 1
  <2> SUFFICES ASSUME n > k + 1 PROVE FALSE
    BY <1>1
  <2>1. k + 1 \in 1 .. (n - 1)
    BY <1>1
  <2> QED BY <1>1, <2>1
<1>4. n = k + 1
  BY <1>1, <1>2, <1>3
<1> QED BY <1>4 DEF n

-----------------------------------------------------------------------------
(***************************************************************************)
(* Types.                                                                  *)
(***************************************************************************)

Clusters == [life : {"absent", "new", "finalized", "terminating"}, gen : Nat, replicas : Replicas,
             pool : Pools, last : Pools \cup {NoPool}, status : Statuses]

Selves == [replicas : Replicas, current : Nat, pool : Pools]

\* The steps that write the status, and all steps.
Updates == {"init", "created", "recover", "reject", "immutable", "modified", "check",
            "scaling", "settled", "counted", "deleting"}

AllSteps == Updates \cup {"idle", "finalizer", "apply", "annotate", "create", "post", "await", "remove", "erase",
                          "gone", "list", "next", "gone_next", "unfinalize"}

Tasks == [pc : AllSteps, self : Selves, node : 0 .. MaxNode, todo : SUBSET Numbers]

Budgets == [edits : Nat, kills : Nat, crashes : Nat, failures : Nat]

Nodes == [Numbers -> Alive \cup {"absent", "terminating"}]

Dyings == [Numbers -> {"no", "notify", "update", "unfinalize", "wedged"}]

Drafts == [0 .. MaxNode -> Statuses]

Typed == /\ cluster \in Clusters /\ node \in Nodes /\ dying \in Dyings
         /\ task \in Tasks /\ draft \in Drafts /\ budget \in Budgets

LEMMA UpdateSteps == DOMAIN AfterUpdate = Updates /\ Steps = AllSteps
<1>1. DOMAIN AfterUpdate = Updates
  BY DEF AfterUpdate, Updates
<1> QED BY <1>1 DEF Steps, AllSteps

OddTyped == odd \subseteq {"count", "scale"}

LEMMA TypeParts == TypeOK <=> Typed /\ OddTyped
BY UpdateSteps DEF TypeOK, OddTyped, Typed, Clusters, Selves, Tasks, Budgets, Nodes, Dyings, Drafts

\* The next step is the same before and after a step of somebody else.
LEMMA AfterUpdateIn ==
  ASSUME NEW pc \in Updates
  PROVE  AfterUpdate[pc] \in {"created", "idle", "annotate", "check", "create", "remove", "settled", "list"}
BY DEF AfterUpdate, Updates

LEMMA NoDraftTyped == NoDraft \in Statuses /\ NoStatus \in Statuses
BY DEF NoDraft, NoStatus, Statuses, Phases

\* A status that update_status computes: the generation, the count, and the phase.
LEMMA NewStatusFields ==
  ASSUME cluster \in Clusters,
         NEW ph \in {"Initialized", "NotScaled", "Scaling", "Failed", "Ready", "Deleting",
                     "NodeCreated", "NodeDeleted"}
  PROVE  LET s == NewStatus(ph)  c == cluster.status.current IN
         /\ s \in Statuses /\ s # NoDraft /\ s.phase \in Phases \ {"None"}
         /\ s.observed = cluster.gen
         /\ s.current = CASE ph = "NodeCreated" -> c + 1
                          [] ph = "NodeDeleted" -> IF c > 0 THEN c - 1 ELSE 0
                          [] OTHER -> c
         /\ ph \notin {"NodeCreated", "NodeDeleted"} => s.phase = ph
         /\ ph \in {"NodeCreated", "NodeDeleted"} =>
              s.phase = IF s.current = cluster.replicas THEN "Ready" ELSE "NotScaled"
<1> DEFINE c == cluster.status.current
           n == CASE ph = "NodeCreated" -> c + 1
                  [] ph = "NodeDeleted" -> IF c > 0 THEN c - 1 ELSE 0
                  [] OTHER -> c
           q == IF ph \notin {"NodeCreated", "NodeDeleted"} THEN ph
                ELSE IF n = cluster.replicas THEN "Ready" ELSE "NotScaled"
<1>1. c \in Nat /\ cluster.gen \in Nat
  BY DEF Clusters, Statuses
<1>2. n \in Nat
  BY <1>1
<1>3. q \in Phases \ {"None"}
  BY DEF Phases
<1>4. NewStatus(ph) = [observed |-> cluster.gen, current |-> n, phase |-> q]
  BY DEF NewStatus
<1>5. /\ q # "Nothing"
      /\ ph \notin {"NodeCreated", "NodeDeleted"} => q = ph
      /\ ph \in {"NodeCreated", "NodeDeleted"} => q = IF n = cluster.replicas THEN "Ready" ELSE "NotScaled"
  BY DEF Phases
<1>6. n = CASE ph = "NodeCreated" -> c + 1
            [] ph = "NodeDeleted" -> IF c > 0 THEN c - 1 ELSE 0
            [] OTHER -> c
  OBVIOUS
<1> HIDE DEF n, q
<1>7. NewStatus(ph) \in Statuses
  BY <1>1, <1>2, <1>3, <1>4 DEF Statuses
<1>8. NewStatus(ph).phase = q /\ NewStatus(ph).current = n /\ NewStatus(ph).observed = cluster.gen
  BY <1>4
<1>9. NoDraft.phase = "Nothing"
  BY DEF NoDraft
<1> QED BY <1>3, <1>5, <1>6, <1>7, <1>8, <1>9

LEMMA WrittenIn ==
  Written \in {"Initialized", "NotScaled", "Scaling", "Failed", "Ready", "Deleting", "NodeCreated"}
BY DEF Written, Scale

LEMMA LoseTyped ==
  ASSUME budget \in Budgets, NEW call, Lose(call)
  PROVE  budget' \in Budgets
BY DEF Budgets, Lose

LEMMA EndTyped ==
  ASSUME task \in Tasks
  PROVE  Idle(task.self) \in Tasks /\ Idle(task.self).pc = "idle" /\ Idle(task.self).self = task.self
<1>1. task.self \in Selves
  BY DEF Tasks
<1>2. "idle" \in AllSteps
  BY DEF AllSteps
<1>3. 0 \in 0 .. MaxNode
  BY ReplicasAssumption
<1> QED BY <1>1, <1>2, <1>3 DEF Idle, Tasks

LEMMA GotoTyped ==
  ASSUME task \in Tasks, NEW pc \in AllSteps, Goto(pc)
  PROVE  /\ task' \in Tasks /\ task'.pc = pc /\ task'.self = task.self
         /\ task'.node = task.node /\ task'.todo = task.todo
BY DEF Tasks, Goto

LEMMA TaskTyped ==
  ASSUME task \in Tasks, NEW pc \in AllSteps, NEW n \in 0 .. MaxNode, NEW S \in SUBSET Numbers
  PROVE  /\ LET t == [task EXCEPT !.pc = pc, !.node = n] IN
            /\ t \in Tasks /\ t.pc = pc /\ t.node = n /\ t.self = task.self /\ t.todo = task.todo
         /\ LET t == [task EXCEPT !.pc = pc, !.todo = S] IN
            /\ t \in Tasks /\ t.pc = pc /\ t.node = task.node /\ t.self = task.self /\ t.todo = S
         /\ LET t == [task EXCEPT !.pc = pc, !.node = n, !.todo = S] IN
            /\ t \in Tasks /\ t.pc = pc /\ t.node = n /\ t.self = task.self /\ t.todo = S
BY DEF Tasks

LEMMA DieTyped ==
  ASSUME Typed, Die
  PROVE  Typed'
<1>1. budget' \in Budgets
  BY DEF Typed, Die, Budgets
<1>2. task' \in Tasks
  BY EndTyped DEF Typed, Die
<1>3. draft' \in Drafts
  BY NoDraftTyped DEF Die, Drafts
<1>4. dying' \in Dyings
  BY DEF Typed, Die, Dyings
<1> QED BY <1>1, <1>2, <1>3, <1>4 DEF Typed, Die

LEMMA GetTyped ==
  ASSUME Typed, NEW w \in 0 .. MaxNode, update_status_get(w, IF w = 0 THEN Written ELSE "NodeDeleted")
  PROVE  Typed'
<1>1. CASE Exists
  <2>1. \A ph \in {"Initialized", "NotScaled", "Scaling", "Failed", "Ready", "Deleting",
                   "NodeCreated", "NodeDeleted"} : NewStatus(ph) \in Statuses
    BY NewStatusFields DEF Typed
  <2>2. NewStatus(IF w = 0 THEN Written ELSE "NodeDeleted") \in Statuses
    BY <2>1, WrittenIn
  <2>3. draft' \in Drafts
    BY <1>1, <2>2 DEF update_status_get, Typed, Drafts
  <2> QED BY <1>1, <2>3 DEF update_status_get, Typed
<1>2. CASE ~Exists
  BY <1>2, DieTyped DEF update_status_get
<1> QED BY <1>1, <1>2

LEMMA PatchTyped ==
  ASSUME Typed, NEW w \in 0 .. MaxNode, NEW ph, update_status_patch(w, ph)
  PROVE  cluster' \in Clusters /\ draft' \in Drafts /\ budget' \in Budgets
<1>1. draft[w] \in Statuses /\ cluster \in Clusters
  BY DEF Typed, Drafts
<1>2. [cluster EXCEPT !.status = draft[w]] \in Clusters
  BY <1>1 DEF Clusters
<1>3. draft' \in Drafts
  BY NoDraftTyped DEF Typed, Drafts, update_status_patch
<1>4. budget' \in Budgets
  BY LoseTyped DEF Typed, update_status_patch
<1> QED BY <1>1, <1>2, <1>3, <1>4 DEF update_status_patch

LEMMA DeletedTyped ==
  ASSUME node \in Nodes, NEW n \in Numbers, Deleted(n)
  PROVE  /\ node' \in Nodes /\ node'[n] = (IF node[n] = "new" THEN "absent" ELSE "terminating")
         /\ \A m \in Numbers : m # n => node'[m] = node[m]
BY DEF Nodes, Deleted

LEMMA SnapshotTyped ==
  ASSUME cluster \in Clusters, NEW pc \in AllSteps
  PROVE  LET t == [Idle(Snapshot(cluster)) EXCEPT !.pc = pc] IN
         /\ t \in Tasks /\ t.pc = pc /\ t.self.replicas = cluster.replicas
         /\ t.self.current = cluster.status.current /\ t.self.pool = cluster.pool
<1>1. Snapshot(cluster) \in Selves
  BY DEF Clusters, Statuses, Snapshot, Selves
<1>2. /\ Snapshot(cluster).replicas = cluster.replicas
      /\ Snapshot(cluster).current = cluster.status.current /\ Snapshot(cluster).pool = cluster.pool
  BY DEF Snapshot
<1>3. 0 \in 0 .. MaxNode
  BY ReplicasAssumption
<1> QED BY <1>1, <1>2, <1>3 DEF Idle, Tasks

LEMMA FirstSteps ==
  first_step(cluster) \in {"finalizer", "recover", "reject", "immutable", "apply", "deleting", "scaling", "idle"}
BY DEF first_step, modify_branch, determine_action

LEMMA TypeInit == Init => Typed
<1> SUFFICES ASSUME Init PROVE Typed
  OBVIOUS
<1>1. cluster \in Clusters
  <2>1. PICK r \in Replicas, p \in Pools, t \in Tools :
          cluster = [life |-> "new", gen |-> 1, replicas |-> r, pool |-> p,
                     last |-> Annotation(t, p, NoPool), status |-> NoStatus]
    BY DEF Init
  <2>2. Annotation(t, p, NoPool) \in Pools \cup {NoPool}
    BY DEF Annotation
  <2> QED BY <2>1, <2>2, NoDraftTyped DEF Clusters
<1>2. node \in Nodes /\ dying \in Dyings
  BY DEF Init, Nodes, Dyings
<1>3. draft \in Drafts
  BY NoDraftTyped DEF Init, Drafts
<1>4. budget \in Budgets
  BY BudgetAssumption DEF Init, Budgets
<1>5. task \in Tasks
  <2>1. Snapshot(cluster) \in Selves
    BY <1>1 DEF Clusters, Statuses, Snapshot, Selves
  <2>2. 0 \in 0 .. MaxNode /\ "idle" \in AllSteps
    BY ReplicasAssumption DEF AllSteps
  <2> QED BY <2>1, <2>2 DEF Init, Idle, Tasks
<1> QED BY <1>1, <1>2, <1>3, <1>4, <1>5 DEF Typed

LEMMA TypeNext == Typed /\ [Next]_vars => Typed'
<1> SUFFICES ASSUME Typed, [Next]_vars PROVE Typed'
  OBVIOUS
<1>0. /\ cluster \in Clusters /\ node \in Nodes /\ dying \in Dyings
      /\ task \in Tasks /\ draft \in Drafts /\ budget \in Budgets
  BY DEF Typed
<1> USE DEF Typed
<1>1. CASE UserEdit
  <2>1. budget' \in Budgets
    BY <1>0, <1>1 DEF UserEdit, Budgets
  <2>2. PICK r \in Replicas, p \in Pools, t \in Tools :
          cluster' = [cluster EXCEPT !.replicas = r, !.pool = p, !.last = Annotation(t, p, @), !.gen = @ + 1]
    BY <1>1 DEF UserEdit
  <2>3. \A a \in Pools \cup {NoPool}, g \in Nat :
          [cluster EXCEPT !.replicas = r, !.pool = p, !.last = a, !.gen = g] \in Clusters
    BY <1>0 DEF Clusters
  <2>4. Annotation(t, p, cluster.last) \in Pools \cup {NoPool} /\ cluster.gen + 1 \in Nat
    BY <1>0 DEF Annotation, Clusters
  <2>5. cluster' \in Clusters
    BY <2>2, <2>3, <2>4
  <2> QED BY <1>0, <1>1, <2>1, <2>5 DEF UserEdit
<1>2. CASE UserDelete
  BY <1>0, <1>2 DEF UserDelete, Clusters
<1>3. ASSUME NEW n \in Numbers, UserKill(n) PROVE Typed'
  <2>1. budget' \in Budgets
    BY <1>0, <1>3 DEF UserKill, Budgets
  <2> QED BY <1>0, <1>3, <2>1, DeletedTyped DEF UserKill
<1>4. ASSUME NEW n \in Numbers, CollectGarbage(n) PROVE Typed'
  BY <1>0, <1>4, DeletedTyped DEF CollectGarbage
<1>5. ASSUME NEW n \in Numbers, NodeStarts(n) PROVE Typed'
  BY <1>0, <1>5 DEF NodeStarts, Nodes, Alive
<1>6. CASE Crash
  BY <1>6, DieTyped DEF Crash
<1>7. CASE reconciler
  <2>1. CASE determine_action(cluster) = "Panic" /\ Die
    BY <2>1, DieTyped
  <2>2. CASE /\ task' = [Idle(Snapshot(cluster)) EXCEPT !.pc = first_step(cluster)]
             /\ UNCHANGED <<cluster, node, dying, draft, odd, budget>>
    <3>1. first_step(cluster) \in AllSteps
      BY FirstSteps DEF AllSteps, Updates
    <3> QED BY <1>0, <2>2, <3>1, SnapshotTyped
  <2> QED BY <1>7, <2>1, <2>2 DEF reconciler
<1>8. CASE add_finalizer
  <2>1. task' \in Tasks
    BY <1>0, <1>8, GotoTyped DEF add_finalizer, AllSteps, Updates
  <2>2. budget' \in Budgets
    BY <1>0, <1>8, LoseTyped DEF add_finalizer
  <2>3. cluster' \in Clusters
    BY <1>0, <1>8 DEF add_finalizer, Clusters
  <2> QED BY <1>0, <1>8, <2>1, <2>2, <2>3 DEF add_finalizer
<1>9. CASE update_status
  <2>1. CASE update_status_get(0, Written)
    <3>1. 0 \in 0 .. MaxNode
      BY ReplicasAssumption
    <3> QED BY <2>1, <3>1, GetTyped
  <2>2. CASE /\ update_status_patch(0, Written)
             /\ IF AfterUpdate[task.pc] = "idle" THEN End ELSE Goto(AfterUpdate[task.pc])
             /\ UNCHANGED <<node, dying>>
    <3>1. cluster' \in Clusters /\ draft' \in Drafts /\ budget' \in Budgets
      BY <2>2, PatchTyped, ReplicasAssumption
    <3>2. AfterUpdate[task.pc] \in AllSteps
      BY <1>9, AfterUpdateIn, UpdateSteps DEF update_status, AllSteps, Updates
    <3>3. task' \in Tasks
      BY <1>0, <2>2, <3>2, EndTyped, GotoTyped DEF End
    <3> QED BY <1>0, <2>2, <3>1, <3>3
  <2> QED BY <1>9, <2>1, <2>2 DEF update_status
<1>10. CASE appply_modification
  <2>1. task' \in Tasks
    BY <1>0, <1>10, GotoTyped, EndTyped DEF appply_modification, AllSteps, Updates, End
  <2>2. budget' \in Budgets
    BY <1>0, <1>10, LoseTyped DEF appply_modification
  <2> QED BY <1>0, <1>10, <2>1, <2>2 DEF appply_modification
<1>11. CASE update_last_configuration
  <2>1. task' \in Tasks
    BY <1>0, <1>11, EndTyped DEF update_last_configuration, End
  <2>2. budget' \in Budgets
    BY <1>0, <1>11, LoseTyped DEF update_last_configuration
  <2>3. task.self.pool \in Pools
    BY <1>0 DEF Tasks, Selves
  <2>4. cluster' \in Clusters
    BY <1>0, <1>11, <2>3 DEF update_last_configuration, Clusters
  <2> QED BY <1>0, <1>11, <2>1, <2>2, <2>4 DEF update_last_configuration
<1>12. CASE create_node
  <2> DEFINE n == get_next_free_node(Existing)
  <2>1. /\ n \in Numbers /\ task' = [task EXCEPT !.pc = "post", !.node = n, !.todo = Existing]
        /\ UNCHANGED <<cluster, node, dying, draft, budget>>
    BY <1>12 DEF create_node
  <2> HIDE DEF n
  <2>2. n \in 0 .. MaxNode /\ "post" \in AllSteps /\ Existing \in SUBSET Numbers
    BY <2>1, ReplicasAssumption DEF Numbers, AllSteps, Existing
  <2> QED BY <1>0, <2>1, <2>2, TaskTyped
<1>23. CASE create_hoprd_resource
  <2>1. task' \in Tasks
    BY <1>0, <1>23, GotoTyped, EndTyped DEF create_hoprd_resource, AllSteps, End
  <2>2. budget' \in Budgets
    BY <1>0, <1>23, LoseTyped DEF create_hoprd_resource
  <2>3. node' \in Nodes
    BY <1>0, <1>23 DEF create_hoprd_resource, Nodes, Alive
  <2> QED BY <1>0, <1>23, <2>1, <2>2, <2>3 DEF create_hoprd_resource
<1>13. CASE await_node
  <2>1. task' \in Tasks
    BY <1>0, <1>13, GotoTyped, EndTyped DEF await_node, AllSteps, Updates, End
  <2>2. budget' \in Budgets
    BY <1>0, <1>13, LoseTyped DEF await_node
  <2> QED BY <1>0, <1>13, <2>1, <2>2 DEF await_node
<1>14. CASE delete_node
  <2>1. CASE task.self.current \in Existing
    <3>1. task.self.current \in Numbers
      BY <2>1 DEF Existing
    <3>2. task.self.current \in 0 .. MaxNode /\ "erase" \in AllSteps
      BY <3>1, ReplicasAssumption DEF Numbers, AllSteps
    <3>3. task' = [task EXCEPT !.pc = "erase", !.node = task.self.current]
      BY <1>14, <2>1 DEF delete_node
    <3> QED BY <1>0, <1>14, <3>2, <3>3, TaskTyped DEF delete_node
  <2>2. CASE task.self.current \notin Existing
    BY <1>0, <1>14, <2>2, EndTyped DEF delete_node, End
  <2> QED BY <2>1, <2>2
<1>24. CASE erase_node
  <2>1. CASE Die
    BY <2>1, DieTyped
  <2>2. CASE Deleted(task.node) /\ Goto("gone") /\ UNCHANGED <<cluster, dying, draft, budget>>
    <3>1. node' \in Nodes
      BY <1>0, <2>2 DEF Deleted, Nodes
    <3> QED BY <1>0, <2>2, <3>1, GotoTyped DEF AllSteps
  <2> QED BY <1>24, <2>1, <2>2 DEF erase_node
<1>15. CASE await_deleted
  BY <1>0, <1>15, EndTyped DEF await_deleted, End
<1>16. CASE delete_nodes
  <2>0. UNCHANGED <<cluster, dying, draft>>
    BY <1>16 DEF delete_nodes
  <2>1. CASE task' = [task EXCEPT !.pc = "next", !.todo = Existing] /\ UNCHANGED <<node, budget>>
    <3>1. task' \in Tasks
      BY <1>0, <2>1 DEF Tasks, AllSteps, Existing
    <3> QED BY <1>0, <2>0, <2>1, <3>1
  <2>2. ASSUME NEW n \in task.todo, n \in Existing, Deleted(n),
               task' = [task EXCEPT !.pc = "gone_next", !.node = n, !.todo = @ \ {n}], UNCHANGED budget
        PROVE  Typed'
    <3>1. n \in Numbers
      BY <2>2 DEF Existing
    <3>2. task' \in Tasks
      <4>1. n \in 0 .. MaxNode /\ "gone_next" \in AllSteps
        BY <3>1, ReplicasAssumption DEF Numbers, AllSteps
      <4>2. task.todo \ {n} \in SUBSET Numbers
        BY <1>0 DEF Tasks
      <4> QED BY <1>0, <2>2, <4>1, <4>2, TaskTyped
    <3> QED BY <1>0, <2>0, <2>2, <3>1, <3>2, DeletedTyped
  <2>3. CASE Goto("unfinalize") /\ UNCHANGED node /\ (UNCHANGED budget \/ Lose("delete"))
    BY <1>0, <2>0, <2>3, GotoTyped, LoseTyped DEF AllSteps
  <2>4. CASE Goto("next") /\ UNCHANGED <<node, budget>>
    BY <1>0, <2>0, <2>4, GotoTyped DEF AllSteps
  <2> QED BY <1>16, <2>1, <2>2, <2>3, <2>4 DEF delete_nodes
<1>17. CASE delete_finalizer
  <2>1. task' \in Tasks
    BY <1>0, <1>17, EndTyped DEF delete_finalizer, End
  <2>2. budget' \in Budgets
    BY <1>0, <1>17, LoseTyped DEF delete_finalizer
  <2>3. cluster' \in Clusters
    BY <1>0, <1>17 DEF delete_finalizer, Clusters
  <2> QED BY <1>0, <1>17, <2>1, <2>2, <2>3 DEF delete_finalizer
<1>18. ASSUME NEW n \in Numbers, node_delete(n) PROVE Typed'
  BY <1>0, <1>18 DEF node_delete, Leave, Dyings
<1>19. ASSUME NEW n \in Numbers, notify_deletion_to_cluster(n) PROVE Typed'
  <2>1. dying' \in Dyings
    BY <1>0, <1>19 DEF notify_deletion_to_cluster, Leave, Dyings
  <2>2. budget' \in Budgets
    BY <1>0, <1>19, LoseTyped DEF notify_deletion_to_cluster
  <2> QED BY <1>0, <1>19, <2>1, <2>2 DEF notify_deletion_to_cluster
<1>20. ASSUME NEW n \in Numbers, node_deleted(n) PROVE Typed'
  <2>1. n \in 0 .. MaxNode /\ n # 0
    BY ReplicasAssumption DEF Numbers
  <2>2. CASE update_status_get(n, "NodeDeleted")
    BY <2>1, <2>2, GetTyped
  <2>3. CASE update_status_patch(n, "NodeDeleted") /\ Leave(n, "unfinalize") /\ UNCHANGED <<node, task>>
    <3>1. dying' \in Dyings
      BY <1>0, <2>3 DEF Leave, Dyings
    <3> QED BY <1>0, <2>1, <2>3, <3>1, PatchTyped
  <2> QED BY <1>20, <2>2, <2>3 DEF node_deleted
<1>21. ASSUME NEW n \in Numbers, node_delete_finalizer(n) PROVE Typed'
  <2>1. dying' \in Dyings
    BY <1>0, <1>21 DEF node_delete_finalizer, Leave, Dyings
  <2>2. budget' \in Budgets
    BY <1>0, <1>21, LoseTyped DEF node_delete_finalizer
  <2>3. node' \in Nodes
    BY <1>0, <1>21 DEF node_delete_finalizer, Nodes
  <2> QED BY <1>0, <1>21, <2>1, <2>2, <2>3 DEF node_delete_finalizer
<1>22. CASE UNCHANGED vars
  BY <1>0, <1>22 DEF vars
<1> QED BY <1>1, <1>2, <1>3, <1>4, <1>5, <1>6, <1>7, <1>8, <1>9, <1>10, <1>11, <1>12, <1>13, <1>14, <1>15,
           <1>16, <1>17, <1>18, <1>19, <1>20, <1>21, <1>22, <1>23, <1>24 DEF Next, Task, Deletion

\* The history only grows.
LEMMA OddGrows ==
  ASSUME [Next]_vars
  PROVE  odd \subseteq odd' /\ odd' \subseteq odd \cup {"count", "scale"}
<1>1. ASSUME Die PROVE odd \subseteq odd' /\ odd' \subseteq odd \cup {"count", "scale"}
  BY <1>1 DEF Die
<1>2. ASSUME NEW w, NEW ph, update_status_get(w, ph) \/ update_status_patch(w, ph)
      PROVE  odd \subseteq odd' /\ odd' \subseteq odd \cup {"count", "scale"}
  BY <1>1, <1>2 DEF update_status_get, update_status_patch, Note
<1>3. CASE update_status \/ \E n \in Numbers : node_deleted(n)
  BY <1>2, <1>3 DEF update_status, node_deleted
<1>4. CASE reconciler \/ Crash \/ erase_node
  BY <1>1, <1>4 DEF reconciler, Crash, erase_node
<1>5. CASE create_hoprd_resource \/ await_node \/ delete_node \/ \E n \in Numbers : UserKill(n)
  BY <1>5 DEF create_hoprd_resource, await_node, delete_node, UserKill, Note
<1>6. CASE \/ add_finalizer \/ appply_modification \/ update_last_configuration \/ create_node
           \/ await_deleted \/ delete_nodes \/ delete_finalizer \/ UserEdit \/ UserDelete \/ UNCHANGED vars
  BY <1>6 DEF add_finalizer, appply_modification, update_last_configuration, create_node, await_deleted,
              delete_nodes, delete_finalizer, UserEdit, UserDelete, vars
<1>7. CASE \E n \in Numbers : \/ node_delete(n) \/ notify_deletion_to_cluster(n) \/ node_delete_finalizer(n)
                               \/ NodeStarts(n) \/ CollectGarbage(n)
  BY <1>7 DEF node_delete, notify_deletion_to_cluster, node_delete_finalizer, NodeStarts, CollectGarbage
<1> QED BY <1>3, <1>4, <1>5, <1>6, <1>7 DEF Next, Task, Deletion

\* Every variable keeps its type, whatever calls fail and whoever interferes.
THEOREM TypeCorrect == Spec => []TypeOK
<1>1. Init => OddTyped
  BY DEF Init, OddTyped
<1>2. OddTyped /\ [Next]_vars => OddTyped'
  BY OddGrows DEF OddTyped
<1> QED BY <1>1, <1>2, TypeInit, TypeNext, TypeParts, PTL DEF Spec

\* Between the list and the POST: the number is the first that was free in the list.
ListInv ==
  task.pc = "post" =>
    task.node \in Numbers /\ task.node \notin task.todo /\ 1 .. (task.node - 1) \subseteq task.todo

LEMMA ListNext ==
  ASSUME Typed, ListInv, [Next]_vars
  PROVE  ListInv'
<1>0. task \in Tasks
  BY DEF Typed
<1>1. CASE task' = task
  BY <1>1 DEF ListInv
<1>2. CASE create_node
  <2> DEFINE n == get_next_free_node(Existing)
  <2>1. n \in Numbers /\ task' = [task EXCEPT !.pc = "post", !.node = n, !.todo = Existing]
    BY <1>2 DEF create_node
  <2>2. Existing \in SUBSET Numbers
    BY DEF Existing
  <2>3. n \notin Existing /\ 1 .. (n - 1) \subseteq Existing
    BY <2>2, FirstFree
  <2> HIDE DEF n
  <2>4. task'.node = n /\ task'.todo = Existing
    BY <1>0, <2>1 DEF Tasks
  <2> QED BY <2>1, <2>3, <2>4 DEF ListInv
<1>3. CASE task'.pc # "post"
  BY <1>3 DEF ListInv
<1>4. ASSUME Die PROVE task'.pc # "post"
  BY <1>4 DEF Die, Idle
<1>5. CASE update_status
  <2>1. AfterUpdate[task.pc] # "post"
    BY <1>5, UpdateSteps, AfterUpdateIn DEF update_status
  <2>2. CASE update_status_get(0, Written)
    BY <1>1, <1>3, <1>4, <2>2 DEF update_status_get
  <2>3. CASE IF AfterUpdate[task.pc] = "idle" THEN End ELSE Goto(AfterUpdate[task.pc])
    BY <1>0, <1>3, <2>1, <2>3 DEF End, Goto, Idle, Tasks
  <2> QED BY <1>5, <2>2, <2>3 DEF update_status
<1>6. CASE reconciler
  <2>1. first_step(cluster) # "post"
    BY FirstSteps
  <2> QED BY <1>3, <1>4, <1>6, <2>1 DEF reconciler, Idle
<1>7. CASE \/ add_finalizer \/ appply_modification \/ update_last_configuration \/ create_hoprd_resource
           \/ await_node \/ await_deleted \/ delete_node \/ delete_nodes \/ delete_finalizer \/ erase_node
  <2>1. (\A pc : Goto(pc) => task'.pc = pc) /\ (End => task'.pc = "idle")
    BY <1>0 DEF Goto, End, Idle, Tasks
  <2>5. ASSUME NEW m, task' = [task EXCEPT !.pc = "erase", !.node = m] PROVE task'.pc # "post"
    BY <1>0, <2>5 DEF Tasks
  <2>6. ASSUME NEW S, task' = [task EXCEPT !.pc = "next", !.todo = S] PROVE task'.pc # "post"
    BY <1>0, <2>6 DEF Tasks
  <2>7. ASSUME NEW m, NEW S, task' = [task EXCEPT !.pc = "gone_next", !.node = m, !.todo = S]
        PROVE  task'.pc # "post"
    BY <1>0, <2>7 DEF Tasks
  <2>2. CASE delete_nodes
    BY <1>3, <2>1, <2>2, <2>6, <2>7 DEF delete_nodes
  <2>3. CASE add_finalizer \/ appply_modification \/ update_last_configuration \/ create_hoprd_resource
    BY <1>3, <2>1, <2>3
    DEF add_finalizer, appply_modification, update_last_configuration, create_hoprd_resource
  <2>4. CASE await_node \/ await_deleted \/ delete_node \/ delete_finalizer \/ erase_node
    BY <1>3, <1>4, <2>1, <2>4, <2>5 DEF await_node, await_deleted, delete_node, delete_finalizer, erase_node
  <2> QED BY <1>7, <2>2, <2>3, <2>4
<1>8. CASE \E n \in Numbers : Deletion(n)
  BY <1>1, <1>3, <1>4, <1>8 DEF Deletion, node_delete, notify_deletion_to_cluster, node_deleted,
                                node_delete_finalizer, update_status_get
<1>9. CASE \/ UserEdit \/ UserDelete \/ UNCHANGED vars
           \/ \E n \in Numbers : NodeStarts(n) \/ UserKill(n) \/ CollectGarbage(n)
  BY <1>1, <1>9 DEF UserEdit, UserDelete, vars, NodeStarts, UserKill, CollectGarbage
<1>10. CASE Crash
  BY <1>3, <1>4, <1>10 DEF Crash
<1> QED BY <1>2, <1>5, <1>6, <1>7, <1>8, <1>9, <1>10 DEF Next, Task

\* create_node gives a new node the first number that is free in its list, with whatever holes other
\* deletions have left; nodes of the list may go before the POST.
THEOREM FirstGapIsFilled == Spec => FirstGapFilled
<1>1. Typed /\ ListInv /\ [Next]_vars =>
        [\A n \in Numbers : node[n] = "absent" /\ node'[n] = "new"
           => n \notin task.todo /\ 1..(n - 1) \subseteq task.todo]_vars
  <2> SUFFICES ASSUME Typed, ListInv, Next, NEW n \in Numbers, node[n] = "absent", node'[n] = "new"
               PROVE  n \notin task.todo /\ 1..(n - 1) \subseteq task.todo
    OBVIOUS
  <2>0. node \in [Numbers -> {"new", "starting", "up", "absent", "terminating"}]
    BY DEF Typed, Nodes, Alive
  <2>1. node' # node
    OBVIOUS
  <2>2. ~\E m : Deleted(m)
    BY <2>0 DEF Deleted
  <2>3. ~\E m \in Numbers : NodeStarts(m)
    BY <2>0 DEF NodeStarts
  <2>4. ~\E m \in Numbers : node_delete_finalizer(m)
    BY <2>0 DEF node_delete_finalizer
  <2>5. ~Die
    BY <2>1 DEF Die
  <2>6. create_hoprd_resource
    <3>1. ~\E m \in Numbers : UserKill(m) \/ CollectGarbage(m)
      BY <2>2 DEF UserKill, CollectGarbage
    <3>2. ~\E m \in Numbers : node_delete(m) \/ notify_deletion_to_cluster(m) \/ node_deleted(m)
      BY <2>1, <2>5 DEF node_delete, notify_deletion_to_cluster, node_deleted, update_status_get
    <3>3. ~delete_node /\ ~delete_nodes /\ ~create_node /\ ~erase_node
      BY <2>1, <2>2, <2>5 DEF delete_node, delete_nodes, create_node, erase_node
    <3>4. /\ ~reconciler /\ ~add_finalizer /\ ~update_status /\ ~appply_modification
          /\ ~update_last_configuration /\ ~await_node /\ ~await_deleted /\ ~delete_finalizer
      BY <2>1, <2>5 DEF reconciler, add_finalizer, update_status, update_status_get, appply_modification,
                        update_last_configuration, await_node, await_deleted, delete_finalizer
    <3>5. ~UserEdit /\ ~UserDelete /\ ~Crash
      BY <2>1, <2>5 DEF UserEdit, UserDelete, Crash
    <3> QED BY <2>3, <2>4, <3>1, <3>2, <3>3, <3>4, <3>5 DEF Next, Task, Deletion
  <2>7. task.pc = "post" /\ n = task.node
    BY <2>0, <2>1, <2>6 DEF create_hoprd_resource
  <2> QED BY <2>7 DEF ListInv
<1>2. Init => ListInv
  BY DEF Init, Idle, ListInv
<1>3. Typed /\ ListInv /\ [Next]_vars => ListInv'
  BY ListNext
<1> QED BY <1>1, <1>2, <1>3, TypeInit, TypeNext, PTL DEF Spec, FirstGapFilled

-----------------------------------------------------------------------------
(***************************************************************************)
(* The count and the phase, whoever interferes and whatever fails.         *)
(***************************************************************************)

Count == cluster.status.current
Phase == cluster.status.phase

Live == cluster.life \in {"new", "finalized"}

\* update_status of the task and of the deletion of a node: the read, and the patch of what it computed.
TaskReads ==
  /\ task.pc \in Updates /\ draft[0] = NoDraft /\ draft' = [draft EXCEPT ![0] = NewStatus(Written)]
  /\ Note("scale", ReadyUnchecked(0, Written))
  /\ UNCHANGED <<cluster, node, dying, task>>

TaskWrites ==
  /\ task.pc \in Updates /\ update_status_patch(0, Written)
  /\ task'.pc = AfterUpdate[task.pc] /\ task'.self = task.self
  /\ UNCHANGED <<node, dying>>

NodeReads(n) ==
  /\ dying[n] = "update" /\ draft[n] = NoDraft /\ draft' = [draft EXCEPT ![n] = NewStatus("NodeDeleted")]
  /\ odd \subseteq odd'
  /\ UNCHANGED <<cluster, node, dying, task>>

NodeWrites(n) ==
  /\ dying[n] = "update" /\ update_status_patch(n, "NodeDeleted") /\ Leave(n, "unfinalize")
  /\ UNCHANGED <<node, task>>

Begins ==
  /\ task.pc = "idle" /\ first_step(cluster) # "idle"
  /\ task' = [Idle(Snapshot(cluster)) EXCEPT !.pc = first_step(cluster)]
  /\ UNCHANGED <<cluster, node, dying, draft, odd>>

Erases ==
  /\ task.pc = "erase" /\ node[task.node] # "absent" /\ Deleted(task.node) /\ Goto("gone")
  /\ odd' = odd \cup (IF node[task.node] = "new" THEN {"count", "scale"} ELSE {})
                \cup (IF dying[task.node] = "unfinalize" THEN {"scale"} ELSE {})
  /\ UNCHANGED <<cluster, dying, draft>>

\* The steps of the task between its calls of update_status.
TaskMoves ==
  \/ Begins \/ add_finalizer \/ appply_modification \/ update_last_configuration
  \/ create_node \/ create_hoprd_resource \/ await_node
  \/ delete_node \/ Erases \/ await_deleted \/ delete_nodes \/ delete_finalizer

NodeMoves(n) ==
  \/ node_delete(n) \/ notify_deletion_to_cluster(n) \/ node_delete_finalizer(n)
  \/ NodeStarts(n) \/ UserKill(n) \/ CollectGarbage(n)

\* Every step is one of these.
LEMMA StepKinds ==
  ASSUME Typed, [Next]_vars
  PROVE  \/ Die \/ TaskReads \/ TaskWrites \/ TaskMoves \/ UserEdit \/ UserDelete \/ UNCHANGED vars
         \/ \E n \in Numbers : NodeReads(n) \/ NodeWrites(n) \/ NodeMoves(n)
<1>0. task \in Tasks
  BY DEF Typed
<1>1. CASE update_status
  <2>1. task.pc \in Updates
    BY <1>1, UpdateSteps DEF update_status
  <2>2. CASE update_status_get(0, Written)
    BY <2>1, <2>2 DEF update_status_get, TaskReads
  <2>3. CASE /\ update_status_patch(0, Written)
             /\ IF AfterUpdate[task.pc] = "idle" THEN End ELSE Goto(AfterUpdate[task.pc])
             /\ UNCHANGED <<node, dying>>
    <3>1. AfterUpdate[task.pc] \in AllSteps
      BY <2>1, AfterUpdateIn DEF AllSteps, Updates
    <3>2. task'.pc = AfterUpdate[task.pc] /\ task'.self = task.self
      BY <1>0, <2>3, <3>1, GotoTyped, EndTyped DEF End
    <3> QED BY <2>1, <2>3, <3>2 DEF TaskWrites
  <2> QED BY <1>1, <2>2, <2>3 DEF update_status
<1>2. ASSUME NEW n \in Numbers, node_deleted(n) PROVE Die \/ NodeReads(n) \/ NodeWrites(n)
  <2>1. CASE update_status_get(n, "NodeDeleted")
    BY <1>2, <2>1 DEF node_deleted, update_status_get, NodeReads, Note
  <2> QED BY <1>2, <2>1 DEF node_deleted, NodeWrites
<1>3. CASE reconciler
  BY <1>3 DEF reconciler, TaskMoves, Begins
<1>4. CASE erase_node
  BY <1>4 DEF erase_node, TaskMoves, Erases
<1> QED BY <1>1, <1>2, <1>3, <1>4 DEF Next, Task, Deletion, TaskMoves, NodeMoves, Crash

\* The forms in which a step writes the task.
LEMMA TaskForms ==
  ASSUME task \in Tasks
  PROVE  /\ \A pc : Goto(pc) => task'.pc = pc /\ task'.self = task.self /\ task'.node = task.node
         /\ End => task'.pc = "idle" /\ task'.self = task.self
         /\ \A n : task' = [task EXCEPT !.pc = "erase", !.node = n] =>
              task'.pc = "erase" /\ task'.self = task.self /\ task'.node = n
         /\ \A n, S : task' = [task EXCEPT !.pc = "post", !.node = n, !.todo = S] =>
              task'.pc = "post" /\ task'.self = task.self /\ task'.node = n
         /\ \A S : task' = [task EXCEPT !.pc = "next", !.todo = S] => task'.pc = "next"
         /\ \A n, S : task' = [task EXCEPT !.pc = "gone_next", !.node = n, !.todo = S] =>
              task'.pc = "gone_next" /\ task'.node = n
<1>1. \A pc : Goto(pc) => task'.pc = pc /\ task'.self = task.self /\ task'.node = task.node
  BY DEF Goto, Tasks
<1>2. End => task'.pc = "idle" /\ task'.self = task.self
  BY DEF End, Idle
<1>3. ASSUME NEW n, task' = [task EXCEPT !.pc = "erase", !.node = n]
      PROVE  task'.pc = "erase" /\ task'.self = task.self /\ task'.node = n
  BY <1>3 DEF Tasks
<1>4. ASSUME NEW n, NEW S, task' = [task EXCEPT !.pc = "post", !.node = n, !.todo = S]
      PROVE  task'.pc = "post" /\ task'.self = task.self /\ task'.node = n
  BY <1>4 DEF Tasks
<1>5. ASSUME NEW S, task' = [task EXCEPT !.pc = "next", !.todo = S] PROVE task'.pc = "next"
  BY <1>5 DEF Tasks
<1>6. ASSUME NEW n, NEW S, task' = [task EXCEPT !.pc = "gone_next", !.node = n, !.todo = S]
      PROVE  task'.pc = "gone_next" /\ task'.node = n
  BY <1>6 DEF Tasks
<1> QED BY <1>1, <1>2, <1>3, <1>4, <1>5, <1>6

LEMMA DeleteNodesMoves ==
  ASSUME task \in Tasks, delete_nodes
  PROVE  /\ task.pc \in {"list", "next", "gone_next"} /\ task'.pc \in {"next", "gone_next", "unfinalize"}
         /\ task'.pc = "gone_next" => task'.node \in Numbers
         /\ node' = node \/ \E n \in Numbers : Deleted(n)
         /\ UNCHANGED <<cluster, dying, draft, odd>>
<1>1. \A n \in task.todo : n \in Numbers
  BY DEF Tasks
<1>2. task.pc \in {"list", "next", "gone_next"} /\ UNCHANGED <<cluster, dying, draft, odd>>
  BY DEF delete_nodes
<1> DEFINE Goal == /\ task'.pc \in {"next", "gone_next", "unfinalize"}
                   /\ task'.pc = "gone_next" => task'.node \in Numbers
                   /\ node' = node \/ \E n \in Numbers : Deleted(n)
<1>3. ASSUME NEW n \in task.todo, n \in Existing, Deleted(n),
             task' = [task EXCEPT !.pc = "gone_next", !.node = n, !.todo = @ \ {n}], UNCHANGED budget
      PROVE  Goal
  BY <1>1, <1>3, TaskForms
<1>4. ASSUME task' = [task EXCEPT !.pc = "next", !.todo = Existing], node' = node PROVE Goal
  BY <1>4, TaskForms
<1>5. ASSUME Goto("unfinalize") \/ Goto("next"), node' = node PROVE Goal
  <2>1. task'.pc \in {"unfinalize", "next"}
    BY <1>5 DEF Goto, Tasks
  <2> QED BY <1>5, <2>1
<1> HIDE DEF Goal
<1>6. Goal
  BY <1>3, <1>4, <1>5 DEF delete_nodes
<1> QED BY <1>2, <1>6 DEF Goal

\* Where the steps of the task between its calls of update_status lead.
LEMMA TaskMovesTable ==
  ASSUME Typed, TaskMoves
  PROVE  /\ draft' = draft /\ task.pc \notin Updates
         /\ \/ Begins /\ task.pc = "idle" /\ task'.pc = first_step(cluster)
            \/ add_finalizer /\ task.pc = "finalizer" /\ task'.pc = "init" /\ task'.self = task.self
            \/ appply_modification /\ task.pc = "apply" /\ task'.pc \in {"modified", "idle"}
            \/ update_last_configuration /\ task.pc = "annotate" /\ task'.pc = "idle"
            \/ create_node /\ task.pc = "create" /\ task'.pc = "post" /\ task'.node \in Numbers
            \/ /\ create_hoprd_resource /\ task.pc = "post" /\ task'.pc \in {"await", "idle"}
               /\ task'.pc = "await" => task'.node = task.node
            \/ /\ await_node /\ task.pc = "await" /\ task'.pc \in {"counted", "idle"}
               /\ task'.pc = "counted" => task'.node = task.node
            \/ /\ delete_node /\ task.pc = "remove" /\ task'.pc \in {"erase", "idle"}
               /\ task'.pc = "erase" => task'.node \in Numbers
            \/ Erases /\ task.pc = "erase" /\ task'.pc = "gone" /\ task'.node = task.node
            \/ await_deleted /\ task.pc = "gone" /\ task'.pc = "idle"
            \/ /\ delete_nodes /\ task.pc \in {"list", "next", "gone_next"}
               /\ task'.pc \in {"next", "gone_next", "unfinalize"} /\ (task'.pc = "gone_next" => task'.node \in Numbers)
            \/ delete_finalizer /\ task.pc = "unfinalize" /\ task'.pc = "idle"
<1>0. task \in Tasks
  BY DEF Typed
<1>1. CASE Begins
  <2>1. task'.pc = first_step(cluster)
    BY <1>1 DEF Begins, Idle
  <2> QED BY <1>1, <2>1 DEF Begins, Updates
<1>2. CASE add_finalizer \/ appply_modification \/ update_last_configuration \/ await_deleted \/ delete_finalizer
  BY <1>0, <1>2, TaskForms
  DEF add_finalizer, appply_modification, update_last_configuration, await_deleted, delete_finalizer, Updates
<1>3. CASE create_node
  BY <1>0, <1>3, TaskForms DEF create_node, Updates
<1>4. CASE create_hoprd_resource \/ await_node \/ Erases
  BY <1>0, <1>4, TaskForms DEF create_hoprd_resource, await_node, Erases, Updates
<1>5. CASE delete_node
  <2>1. \A n \in Existing : n \in Numbers
    BY DEF Existing
  <2> QED BY <1>0, <1>5, <2>1, TaskForms DEF delete_node, Updates
<1>6. CASE delete_nodes
  BY <1>0, <1>6, DeleteNodesMoves DEF Updates
<1> QED BY <1>1, <1>2, <1>3, <1>4, <1>5, <1>6 DEF TaskMoves

LEMMA NodeMovesFrame ==
  ASSUME NEW n \in Numbers, NodeMoves(n)
  PROVE  UNCHANGED <<cluster, task, draft>>
BY DEF NodeMoves, node_delete, notify_deletion_to_cluster, node_delete_finalizer, NodeStarts, UserKill, CollectGarbage

\* What a step does to the object: it is not live again, and its spec is only edited.
LEMMA ClusterMoves ==
  ASSUME Typed, [Next]_vars
  PROVE  /\ Live' => Live
         /\ cluster'.life = "new" => cluster.life = "new"
         /\ UserEdit \/ (cluster'.gen = cluster.gen /\ cluster'.replicas = cluster.replicas)
         /\ \/ cluster'.status = cluster.status
            \/ TaskWrites \/ \E n \in Numbers : NodeWrites(n)
<1>0. cluster \in Clusters
  BY DEF Typed
<1>1. CASE cluster' = cluster
  BY <1>1 DEF Live
<1>2. ASSUME NEW w, NEW ph, update_status_patch(w, ph)
      PROVE  cluster'.life = cluster.life /\ cluster'.gen = cluster.gen /\ cluster'.replicas = cluster.replicas
  <2>1. cluster' = cluster \/ cluster' = [cluster EXCEPT !.status = draft[w]]
    BY <1>2 DEF update_status_patch
  <2> QED BY <1>0, <2>1 DEF Clusters
<1>3. CASE TaskWrites \/ \E n \in Numbers : NodeWrites(n)
  BY <1>2, <1>3 DEF TaskWrites, NodeWrites, Live
<1>4. CASE UserEdit
  <2>1. PICK r \in Replicas, p \in Pools, t \in Tools :
          cluster' = [cluster EXCEPT !.replicas = r, !.pool = p, !.last = Annotation(t, p, @), !.gen = @ + 1]
    BY <1>4 DEF UserEdit
  <2>2. cluster'.life = cluster.life /\ cluster'.status = cluster.status
    BY <1>0, <2>1 DEF Clusters
  <2> QED BY <1>4, <2>2 DEF Live
<1>5. CASE UserDelete
  BY <1>0, <1>5 DEF UserDelete, Live, Clusters
<1>6. CASE add_finalizer \/ update_last_configuration \/ delete_finalizer
  BY <1>0, <1>6 DEF add_finalizer, update_last_configuration, delete_finalizer, Live, Clusters
<1>7. TaskMoves => cluster' = cluster \/ add_finalizer \/ update_last_configuration \/ delete_finalizer
  BY DEF TaskMoves, Begins, appply_modification, create_node, create_hoprd_resource, await_node, delete_node,
         Erases, await_deleted, delete_nodes
<1>8. Die \/ TaskReads \/ UNCHANGED vars \/ (\E n \in Numbers : NodeReads(n) \/ NodeMoves(n)) => cluster' = cluster
  BY NodeMovesFrame DEF Die, TaskReads, NodeReads, vars
<1> QED BY <1>1, <1>3, <1>4, <1>5, <1>6, <1>7, <1>8, StepKinds

\* What each call of update_status writes, and where it leads.
LEMMA UpdateTable ==
  ASSUME task.pc \in Updates
  PROVE  \/ task.pc = "init" /\ Written = "Initialized" /\ AfterUpdate[task.pc] = "created"
         \/ /\ task.pc = "created" /\ AfterUpdate[task.pc] = "idle"
            /\ Written = Scale(task.self.replicas > 0)
         \/ task.pc = "recover" /\ Written = "Ready" /\ AfterUpdate[task.pc] = "idle"
         \/ task.pc = "reject" /\ Written = "Failed" /\ AfterUpdate[task.pc] = "idle"
         \/ task.pc = "immutable" /\ Written = "Failed" /\ AfterUpdate[task.pc] = "annotate"
         \/ task.pc = "modified" /\ Written = "Ready" /\ AfterUpdate[task.pc] = "check"
         \/ /\ task.pc = "check" /\ AfterUpdate[task.pc] = "annotate"
            /\ Written = Scale(task.self.replicas # task.self.current)
         \/ /\ task.pc = "scaling" /\ Written = "Scaling"
            /\ AfterUpdate[task.pc] = IF task.self.replicas > task.self.current THEN "create"
                                      ELSE IF task.self.replicas < task.self.current THEN "remove" ELSE "settled"
         \/ task.pc = "settled" /\ Written = "Ready" /\ AfterUpdate[task.pc] = "idle"
         \/ task.pc = "counted" /\ Written = "NodeCreated" /\ AfterUpdate[task.pc] = "idle"
         \/ task.pc = "deleting" /\ Written = "Deleting" /\ AfterUpdate[task.pc] = "list"
BY DEF Updates, Written, AfterUpdate

-----------------------------------------------------------------------------
\* A node that Hoprd::delete works on is there.
DyingFlow == \A n \in Numbers : dying[n] # "no" => node[n] = "terminating"

\* Which statuses are under way.
DraftFlow ==
  /\ \A n \in Numbers : draft[n] # NoDraft => dying[n] = "update" /\ draft[n].phase \in {"Ready", "NotScaled"}
  /\ draft[0] # NoDraft => /\ task.pc \in Updates
                           /\ draft[0].phase = "Scaling" => task.pc = "scaling"
                           /\ draft[0].phase = "Deleting" => task.pc = "deleting"

\* ClusterHoprd::delete runs for a deleted object only.
LifeFlow == task.pc \in {"deleting", "list", "next", "gone_next", "unfinalize"} \/ Phase = "Deleting" => ~Live

\* No status is ahead of the spec.
GenFlow == cluster.status.observed <= cluster.gen /\ \A w \in 0 .. MaxNode : draft[w].observed <= cluster.gen

TaskFlow ==
  /\ task.pc \in {"post", "await", "counted", "erase", "gone", "gone_next"} => task.node \in Numbers
  /\ task.pc = "settled" => task.self.replicas = task.self.current

\* Until ClusterHoprd::create has ended there is no node.
Fresh == {"finalizer", "init", "created"}

FreshFlow ==
  /\ cluster.life = "new" => task.pc \in Fresh \cup {"idle"}
  /\ cluster.life = "new" \/ task.pc \in Fresh => Existing = {} /\ Count = 0 /\ draft[0].current = 0
  /\ task.pc \in Fresh => task.self.current = 0

Flow == DyingFlow /\ DraftFlow /\ LifeFlow /\ GenFlow /\ TaskFlow /\ FreshFlow

LEMMA DraftIndex == 0 \in 0 .. MaxNode /\ Numbers \subseteq 0 .. MaxNode /\ 0 \notin Numbers
BY ReplicasAssumption DEF Numbers

\* What a crash, a read and a patch leave.
LEMMA DieEffect ==
  ASSUME Typed, Die
  PROVE  /\ task'.pc = "idle" /\ task'.self = task.self /\ \A w \in 0 .. MaxNode : draft'[w] = NoDraft
         /\ \A n \in Numbers : dying'[n] = (IF dying[n] = "no" THEN "no" ELSE "wedged")
         /\ UNCHANGED <<cluster, node>>
BY DEF Die, Idle

LEMMA ReadEffect ==
  ASSUME Typed, NEW w \in 0 .. MaxNode, NEW s, draft' = [draft EXCEPT ![w] = s]
  PROVE  draft'[w] = s /\ \A v \in 0 .. MaxNode : v # w => draft'[v] = draft[v]
BY DEF Typed, Drafts

LEMMA PatchEffect ==
  ASSUME Typed, NEW w \in 0 .. MaxNode, NEW ph, update_status_patch(w, ph)
  PROVE  /\ draft[w] # NoDraft /\ draft'[w] = NoDraft
         /\ \A v \in 0 .. MaxNode : v # w => draft'[v] = draft[v]
         /\ cluster'.gen = cluster.gen /\ cluster'.replicas = cluster.replicas /\ cluster'.life = cluster.life
         /\ \/ /\ Exists /\ cluster'.status = draft[w]
               /\ odd' = odd \cup (IF draft[w].current # NewStatus(ph).current THEN {"count"} ELSE {})
            \/ ~Exists /\ cluster' = cluster
            \/ /\ cluster' = cluster
               /\ odd' = odd \cup {"scale"}
                             \cup (IF cluster.status.current # NewStatus(ph).current THEN {"count"} ELSE {})
<1>0. cluster \in Clusters
  BY DEF Typed
<1>1. draft[w] # NoDraft /\ draft' = [draft EXCEPT ![w] = NoDraft]
  BY DEF update_status_patch
<1>2. draft'[w] = NoDraft /\ \A v \in 0 .. MaxNode : v # w => draft'[v] = draft[v]
  BY <1>1, ReadEffect
<1>3. CASE /\ cluster' = (IF Exists THEN [cluster EXCEPT !.status = draft[w]] ELSE cluster)
           /\ Note("count", draft[w].current # NewStatus(ph).current)
  <2>1. CASE Exists
    <3>1. cluster' = [cluster EXCEPT !.status = draft[w]]
      BY <1>3, <2>1
    <3>2. /\ cluster'.status = draft[w] /\ cluster'.gen = cluster.gen /\ cluster'.replicas = cluster.replicas
          /\ cluster'.life = cluster.life
      BY <1>0, <3>1 DEF Clusters
    <3> QED BY <1>1, <1>2, <1>3, <2>1, <3>2 DEF Note
  <2>2. CASE ~Exists
    BY <1>1, <1>2, <1>3, <2>2
  <2> QED BY <2>1, <2>2
<1>4. CASE /\ odd' = odd \cup {"scale"}
                         \cup (IF cluster.status.current # NewStatus(ph).current THEN {"count"} ELSE {})
           /\ UNCHANGED cluster
  BY <1>1, <1>2, <1>4
<1> QED BY <1>3, <1>4 DEF update_status_patch

LEMMA FlowInit == Init => Flow
<1> SUFFICES ASSUME Init PROVE Flow
  OBVIOUS
<1>1. /\ cluster.life = "new" /\ cluster.gen = 1 /\ cluster.status = NoStatus /\ task.pc = "idle"
      /\ \A n \in Numbers : dying[n] = "no" /\ node[n] = "absent"
      /\ \A w \in 0 .. MaxNode : draft[w] = NoDraft
  BY DEF Init, Idle
<1>2. /\ Count = 0 /\ Phase = "None" /\ cluster.status.observed = 0 /\ Existing = {}
      /\ NoDraft.current = 0 /\ NoDraft.observed = 0
  BY <1>1 DEF Count, Phase, NoStatus, NoDraft, Existing
<1> QED BY <1>1, <1>2, DraftIndex DEF Flow, DyingFlow, DraftFlow, LifeFlow, GenFlow, TaskFlow, FreshFlow, Fresh

\* Nobody but node_delete_finalizer makes a node that is terminating go.
LEMMA DyingFlowNext ==
  ASSUME Typed, Flow, [Next]_vars
  PROVE  DyingFlow'
<1>0. node \in Nodes /\ dying \in Dyings /\ task \in Tasks /\ DyingFlow
  BY DEF Typed, Flow
<1>1. CASE UNCHANGED <<node, dying>>
  BY <1>0, <1>1 DEF DyingFlow
<1>2. ASSUME NEW n \in Numbers, Deleted(n), UNCHANGED dying PROVE DyingFlow'
  BY <1>0, <1>2, DeletedTyped DEF DyingFlow
<1>3. CASE Die
  BY <1>0, <1>3, DieEffect DEF DyingFlow
<1>4. ASSUME NEW n \in Numbers, NodeWrites(n) PROVE DyingFlow'
  BY <1>0, <1>4 DEF NodeWrites, Leave, Dyings, DyingFlow
<1>5. ASSUME NEW n \in Numbers, NodeMoves(n) PROVE DyingFlow'
  <2>1. CASE UserKill(n) \/ CollectGarbage(n)
    BY <1>2, <2>1 DEF UserKill, CollectGarbage
  <2>2. CASE NodeStarts(n)
    BY <1>0, <2>2 DEF NodeStarts, Nodes, DyingFlow
  <2>3. CASE node_delete(n) \/ notify_deletion_to_cluster(n)
    BY <1>0, <2>3 DEF node_delete, notify_deletion_to_cluster, Leave, Dyings, DyingFlow
  <2>4. CASE node_delete_finalizer(n)
    <3>1. CASE node' = [node EXCEPT ![n] = "absent"] /\ Leave(n, "no")
      BY <1>0, <3>1 DEF Leave, Dyings, Nodes, DyingFlow
    <3>2. CASE Leave(n, "wedged") /\ UNCHANGED node
      BY <1>0, <2>4, <3>2 DEF node_delete_finalizer, Leave, Dyings, DyingFlow
    <3> QED BY <2>4, <3>1, <3>2 DEF node_delete_finalizer
  <2> QED BY <1>5, <2>1, <2>2, <2>3, <2>4 DEF NodeMoves
<1>6. CASE create_hoprd_resource
  <2>1. dying' = dying /\ (node' = node \/ (node[task.node] = "absent" /\ node' = [node EXCEPT ![task.node] = "new"]))
    BY <1>6 DEF create_hoprd_resource
  <2> QED BY <1>0, <1>1, <2>1 DEF DyingFlow, Nodes
<1>7. CASE Erases
  <2>1. task.node \in Numbers
    BY <1>7 DEF Erases, Flow, TaskFlow
  <2> QED BY <1>2, <1>7, <2>1 DEF Erases
<1>8. CASE delete_nodes
  BY <1>0, <1>1, <1>2, <1>8, DeleteNodesMoves
<1>9. TaskMoves => UNCHANGED <<node, dying>> \/ create_hoprd_resource \/ Erases \/ delete_nodes
  BY DEF TaskMoves, Begins, add_finalizer, appply_modification, update_last_configuration, create_node,
         await_node, delete_node, await_deleted, delete_finalizer
<1>10. TaskReads \/ TaskWrites \/ UserEdit \/ UserDelete \/ UNCHANGED vars \/ (\E n \in Numbers : NodeReads(n))
         => UNCHANGED <<node, dying>>
  BY DEF TaskReads, TaskWrites, UserEdit, UserDelete, vars, NodeReads
<1> QED BY <1>1, <1>3, <1>4, <1>5, <1>6, <1>7, <1>8, <1>9, <1>10, StepKinds

\* A status that is computed has the phase of its step.
LEMMA WrittenPhases ==
  ASSUME cluster \in Clusters, task.pc \in Updates
  PROVE  LET s == NewStatus(Written) IN
         /\ s.observed = cluster.gen /\ s.phase \in Phases
         /\ s.phase = "Scaling" => task.pc = "scaling"
         /\ s.phase = "Deleting" => task.pc = "deleting"
         /\ s.current = (IF task.pc = "counted" THEN Count + 1 ELSE Count)
         /\ s.phase = "Ready" => Written = "Ready" \/ s.current = cluster.replicas
<1>1. Written = "NodeCreated" <=> task.pc = "counted"
  BY UpdateTable DEF Scale
<1>2. (Written = "Scaling" => task.pc = "scaling") /\ (Written = "Deleting" => task.pc = "deleting")
  BY UpdateTable DEF Scale
<1> QED BY <1>1, <1>2, WrittenIn, NewStatusFields DEF Count

LEMMA DraftFlowNext ==
  ASSUME Typed, Flow, [Next]_vars
  PROVE  DraftFlow'
<1>0. dying \in Dyings /\ draft \in Drafts /\ cluster \in Clusters /\ DraftFlow
  BY DEF Typed, Flow
<1>1. CASE Die
  BY <1>1, DieEffect, DraftIndex DEF DraftFlow
<1>2. CASE TaskReads
  <2>1. draft'[0] = NewStatus(Written) /\ \A n \in Numbers : draft'[n] = draft[n]
    BY <1>2, ReadEffect, DraftIndex DEF TaskReads
  <2> QED BY <1>0, <1>2, <2>1, WrittenPhases DEF TaskReads, DraftFlow
<1>3. CASE TaskWrites
  <2>1. draft'[0] = NoDraft /\ (\A n \in Numbers : draft'[n] = draft[n]) /\ dying' = dying
    BY <1>3, PatchEffect, DraftIndex DEF TaskWrites
  <2> QED BY <1>0, <2>1 DEF DraftFlow
<1>4. ASSUME NEW n \in Numbers, NodeReads(n) PROVE DraftFlow'
  <2>1. draft'[n] = NewStatus("NodeDeleted") /\ \A v \in 0 .. MaxNode : v # n => draft'[v] = draft[v]
    BY <1>4, ReadEffect, DraftIndex DEF NodeReads
  <2>2. NewStatus("NodeDeleted").phase \in {"Ready", "NotScaled"}
    BY <1>0, NewStatusFields
  <2>3. \A v \in Numbers : v # n => draft'[v] = draft[v]
    BY <2>1, DraftIndex
  <2>4. draft'[0] = draft[0]
    BY <2>1, DraftIndex
  <2> QED BY <1>0, <1>4, <2>1, <2>2, <2>3, <2>4 DEF NodeReads, DraftFlow
<1>5. ASSUME NEW n \in Numbers, NodeWrites(n) PROVE DraftFlow'
  <2>1. draft'[n] = NoDraft /\ \A v \in 0 .. MaxNode : v # n => draft'[v] = draft[v]
    BY <1>5, PatchEffect, DraftIndex DEF NodeWrites
  <2>2. task' = task /\ \A v \in Numbers : v # n => dying'[v] = dying[v] /\ draft'[v] = draft[v]
    BY <1>0, <1>5, <2>1, DraftIndex DEF NodeWrites, Leave, Dyings
  <2>3. draft'[0] = draft[0]
    BY <2>1, DraftIndex
  <2> QED BY <1>0, <2>1, <2>2, <2>3 DEF DraftFlow
<1>6. ASSUME NEW n \in Numbers, NodeMoves(n) PROVE DraftFlow'
  <2>1. \A m \in Numbers : dying[m] = "update" => dying'[m] = "update"
    BY <1>0, <1>6 DEF NodeMoves, node_delete, notify_deletion_to_cluster, node_delete_finalizer, NodeStarts,
                      UserKill, CollectGarbage, Leave, Dyings
  <2> QED BY <1>0, <1>6, <2>1, NodeMovesFrame DEF DraftFlow
<1>7. CASE TaskMoves
  <2>1. draft' = draft /\ task.pc \notin Updates
    BY <1>7, TaskMovesTable
  <2>2. dying' = dying
    BY <1>7 DEF TaskMoves, Begins, add_finalizer, appply_modification, update_last_configuration, create_node,
                create_hoprd_resource, await_node, delete_node, Erases, await_deleted, delete_nodes, delete_finalizer
  <2> QED BY <1>0, <2>1, <2>2 DEF DraftFlow
<1>8. CASE UserEdit \/ UserDelete \/ UNCHANGED vars
  BY <1>0, <1>8 DEF UserEdit, UserDelete, vars, DraftFlow
<1> QED BY <1>1, <1>2, <1>3, <1>4, <1>5, <1>6, <1>7, <1>8, StepKinds

\* Who changes the task.
LEMMA WhoMoves ==
  ASSUME Typed, [Next]_vars
  PROVE  task' = task \/ Die \/ TaskWrites \/ TaskMoves
<1>1. \A n \in Numbers : NodeReads(n) \/ NodeWrites(n) \/ NodeMoves(n) => task' = task
  BY NodeMovesFrame DEF NodeReads, NodeWrites
<1> QED BY <1>1, StepKinds DEF TaskReads, UserEdit, UserDelete, vars

LEMMA LifeFlowNext ==
  ASSUME Typed, Flow, [Next]_vars
  PROVE  LifeFlow'
<1> DEFINE Deleters == {"deleting", "list", "next", "gone_next", "unfinalize"}
<1>0. LifeFlow /\ DraftFlow /\ (Live' => Live)
  BY ClusterMoves DEF Flow
<1>1. task'.pc \in Deleters => ~Live'
  <2>1. CASE task' = task \/ Die
    BY <1>0, <2>1, DieEffect DEF LifeFlow
  <2>2. CASE TaskWrites
    BY <1>0, <2>2, UpdateTable DEF TaskWrites, LifeFlow
  <2>3. CASE TaskMoves
    <3>1. first_step(cluster) \in Deleters => ~Live
      BY DEF first_step, determine_action, modify_branch, Live
    <3> QED BY <1>0, <2>3, <3>1, TaskMovesTable DEF LifeFlow
  <2> QED BY <2>1, <2>2, <2>3, WhoMoves
<1>2. Phase' = "Deleting" => ~Live'
  <2>1. CASE cluster'.status = cluster.status
    BY <1>0, <2>1 DEF Phase, LifeFlow
  <2>2. CASE TaskWrites
    <3>1. cluster'.status = cluster.status \/ (cluster'.status = draft[0] /\ draft[0] # NoDraft)
      BY <2>2, PatchEffect, DraftIndex DEF TaskWrites
    <3> QED BY <1>0, <2>1, <3>1 DEF Phase, LifeFlow, DraftFlow
  <2>3. ASSUME NEW n \in Numbers, NodeWrites(n) PROVE Phase' = "Deleting" => ~Live'
    <3>1. cluster'.status = cluster.status \/ (cluster'.status = draft[n] /\ draft[n] # NoDraft)
      BY <2>3, PatchEffect, DraftIndex DEF NodeWrites
    <3> QED BY <1>0, <2>1, <3>1 DEF Phase, DraftFlow
  <2> QED BY <2>1, <2>2, <2>3, ClusterMoves
<1> QED BY <1>1, <1>2 DEF LifeFlow

LEMMA GenFlowNext ==
  ASSUME Typed, Flow, [Next]_vars
  PROVE  GenFlow'
<1>0. /\ GenFlow /\ cluster \in Clusters /\ cluster.gen \in Nat /\ cluster.status.observed \in Nat
      /\ draft \in Drafts /\ (\A w \in 0 .. MaxNode : draft[w].observed \in Nat) /\ NoDraft.observed = 0
  BY DEF Typed, Flow, Clusters, Statuses, Drafts, NoDraft
<1>1. CASE Die
  BY <1>0, <1>1, DieEffect DEF GenFlow
<1>2. ASSUME NEW w \in 0 .. MaxNode, NEW s, draft' = [draft EXCEPT ![w] = s], s.observed = cluster.gen, cluster' = cluster
      PROVE  GenFlow'
  <2>1. draft'[w] = s /\ \A v \in 0 .. MaxNode : v # w => draft'[v] = draft[v]
    BY <1>2, ReadEffect
  <2> QED BY <1>0, <1>2, <2>1 DEF GenFlow
<1>3. CASE TaskReads
  BY <1>0, <1>2, <1>3, WrittenPhases, DraftIndex DEF TaskReads
<1>4. ASSUME NEW n \in Numbers, NodeReads(n) PROVE GenFlow'
  <2>1. NewStatus("NodeDeleted").observed = cluster.gen
    BY <1>0, NewStatusFields
  <2> QED BY <1>2, <1>4, <2>1, DraftIndex DEF NodeReads
<1>5. ASSUME NEW w \in 0 .. MaxNode, NEW ph, update_status_patch(w, ph) PROVE GenFlow'
  <2>1. /\ cluster'.gen = cluster.gen /\ (cluster'.status = draft[w] \/ cluster'.status = cluster.status)
        /\ \A v \in 0 .. MaxNode : draft'[v] = draft[v] \/ draft'[v] = NoDraft
    BY <1>5, PatchEffect
  <2> QED BY <1>0, <2>1 DEF GenFlow
<1>6. CASE draft' = draft /\ cluster'.status = cluster.status /\ cluster'.gen = cluster.gen
  BY <1>0, <1>6 DEF GenFlow
<1>7. CASE UserEdit
  <2>1. PICK r \in Replicas, p \in Pools, t \in Tools :
          cluster' = [cluster EXCEPT !.replicas = r, !.pool = p, !.last = Annotation(t, p, @), !.gen = @ + 1]
    BY <1>7 DEF UserEdit
  <2>2. cluster'.gen = cluster.gen + 1 /\ cluster'.status = cluster.status /\ draft' = draft
    BY <1>0, <1>7, <2>1 DEF UserEdit, Clusters
  <2> QED BY <1>0, <2>2 DEF GenFlow
<1>8. ASSUME TaskMoves \/ UserDelete \/ UNCHANGED vars \/ \E n \in Numbers : NodeMoves(n)
      PROVE  draft' = draft /\ cluster'.status = cluster.status /\ cluster'.gen = cluster.gen
  <2>1. CASE UNCHANGED vars \/ \E n \in Numbers : NodeMoves(n)
    BY <2>1, NodeMovesFrame DEF vars
  <2>2. CASE UserDelete
    BY <1>0, <2>2 DEF UserDelete, Clusters
  <2>3. CASE TaskMoves
    <3>1. CASE add_finalizer \/ update_last_configuration \/ delete_finalizer
      BY <1>0, <3>1 DEF add_finalizer, update_last_configuration, delete_finalizer, Clusters
    <3>2. cluster' = cluster \/ add_finalizer \/ update_last_configuration \/ delete_finalizer
      BY <2>3 DEF TaskMoves, Begins, appply_modification, create_node, create_hoprd_resource, await_node,
                  delete_node, Erases, await_deleted, delete_nodes
    <3> QED BY <2>3, <3>1, <3>2, TaskMovesTable
  <2> QED BY <1>8, <2>1, <2>2, <2>3
<1> QED BY <1>1, <1>3, <1>4, <1>5, <1>6, <1>7, <1>8, StepKinds, DraftIndex DEF TaskWrites, NodeWrites

LEMMA TaskFlowNext ==
  ASSUME Typed, Flow, [Next]_vars
  PROVE  TaskFlow'
<1>0. TaskFlow /\ task \in Tasks
  BY DEF Flow, Typed
<1>1. CASE task' = task
  BY <1>0, <1>1 DEF TaskFlow
<1>2. CASE Die
  BY <1>2, DieEffect DEF TaskFlow
<1>3. CASE TaskWrites
  <2>1. task.self.replicas \in Nat /\ task.self.current \in Nat
    <3>1. task.self \in Selves /\ \A r \in Replicas : r \in Nat
      BY <1>0, ReplicasAssumption DEF Tasks
    <3> QED BY <3>1 DEF Selves
  <2>2. AfterUpdate[task.pc] \in {"created", "idle", "annotate", "check", "create", "remove", "settled", "list"}
    BY <1>3, AfterUpdateIn DEF TaskWrites
  <2>3. AfterUpdate[task.pc] = "settled" => task.self.replicas = task.self.current
    BY <1>3, <2>1, UpdateTable DEF TaskWrites
  <2> QED BY <1>3, <2>2, <2>3 DEF TaskWrites, TaskFlow
<1>4. CASE TaskMoves
  BY <1>0, <1>4, TaskMovesTable, FirstSteps DEF TaskFlow
<1> QED BY <1>1, <1>2, <1>3, <1>4, WhoMoves

LEMMA FreshFlowNext ==
  ASSUME Typed, Flow, [Next]_vars
  PROVE  FreshFlow'
<1>0. /\ FreshFlow /\ DyingFlow /\ DraftFlow /\ cluster \in Clusters /\ task \in Tasks /\ node \in Nodes
      /\ (cluster'.life = "new" => cluster.life = "new")
      /\ NoDraft.current = 0
  BY ClusterMoves DEF Flow, Typed, NoDraft
<1>1. /\ task'.pc \in Fresh => task.pc \in Fresh \/ (task.pc = "idle" /\ cluster.life = "new")
      /\ cluster'.life = "new" => task'.pc \in Fresh \cup {"idle"}
      /\ task'.pc \in Fresh => task'.self.current = 0
  <2>1. CASE task' = task \/ Die
    BY <1>0, <2>1, DieEffect DEF FreshFlow, Fresh
  <2>2. CASE TaskWrites
    BY <1>0, <2>2, UpdateTable DEF TaskWrites, FreshFlow, Fresh
  <2>3. CASE Begins
    <3>1. /\ first_step(cluster) = "finalizer" <=> cluster.life = "new"
          /\ first_step(cluster) \in {"finalizer", "recover", "reject", "immutable", "apply", "deleting", "scaling", "idle"}
      BY FirstSteps DEF first_step, determine_action, modify_branch
    <3>2. task'.pc = first_step(cluster) /\ task'.self.current = Count
      BY <2>3 DEF Begins, Idle, Snapshot, Count
    <3> QED BY <1>0, <2>3, <3>1, <3>2 DEF Begins, FreshFlow, Fresh
  <2>4. CASE TaskMoves /\ ~Begins
    BY <1>0, <2>4, TaskMovesTable DEF FreshFlow, Fresh
  <2> QED BY <2>1, <2>2, <2>3, <2>4, WhoMoves
<1>2. ASSUME cluster'.life = "new" \/ task'.pc \in Fresh
      PROVE  Existing' = {} /\ Count' = 0 /\ draft'[0].current = 0
  <2>1. /\ cluster.life = "new" \/ task.pc \in Fresh
        /\ Existing = {} /\ Count = 0 /\ draft[0].current = 0
        /\ task.pc \in Fresh \cup {"idle"} /\ task'.pc \in Fresh \cup {"idle"}
    BY <1>0, <1>1, <1>2 DEF FreshFlow
  <2>2. \A n \in Numbers : node[n] = "absent" /\ dying[n] = "no"
    BY <1>0, <2>1 DEF Existing, DyingFlow
  <2>3. CASE Die
    BY <1>0, <2>1, <2>3, DieEffect, DraftIndex DEF Existing, Count
  <2>4. CASE TaskReads
    <3>1. draft'[0] = NewStatus(Written) /\ cluster' = cluster /\ node' = node
      BY <2>4, ReadEffect, DraftIndex DEF TaskReads
    <3>2. NewStatus(Written).current = Count
      BY <1>0, <2>1, <2>4, WrittenPhases DEF TaskReads, Fresh
    <3> QED BY <2>1, <3>1, <3>2 DEF Existing, Count
  <2>5. CASE TaskWrites
    <3>1. /\ draft'[0] = NoDraft /\ (cluster'.status = draft[0] \/ cluster'.status = cluster.status) /\ node' = node
      BY <2>5, PatchEffect, DraftIndex DEF TaskWrites
    <3> QED BY <1>0, <2>1, <3>1 DEF Existing, Count
  <2>6. ~\E n \in Numbers : NodeReads(n) \/ NodeWrites(n)
    BY <2>2 DEF NodeReads, NodeWrites
  <2>7. ASSUME NEW n \in Numbers, NodeMoves(n)
        PROVE  Existing' = {} /\ Count' = 0 /\ draft'[0].current = 0
    BY <2>1, <2>2, <2>7 DEF NodeMoves, node_delete, notify_deletion_to_cluster, node_delete_finalizer,
                            NodeStarts, UserKill, CollectGarbage, Alive
  <2>8. CASE TaskMoves \/ UserEdit \/ UserDelete \/ UNCHANGED vars
    <3>1. node' = node
      <4>1. TaskMoves => Begins \/ add_finalizer
        BY <2>1, TaskMovesTable DEF Fresh
      <4> QED BY <2>8, <4>1 DEF Begins, add_finalizer, UserEdit, UserDelete, vars
    <3>2. draft' = draft
      BY <2>8, TaskMovesTable DEF UserEdit, UserDelete, vars
    <3>3. cluster'.status = cluster.status
      <4>1. TaskMoves => Begins \/ add_finalizer
        BY <2>1, TaskMovesTable DEF Fresh
      <4>2. Begins \/ UNCHANGED vars => cluster' = cluster
        BY DEF Begins, vars
      <4>3. add_finalizer => cluster'.status = cluster.status
        BY <1>0 DEF add_finalizer, Clusters
      <4>4. UserDelete => cluster'.status = cluster.status
        BY <1>0 DEF UserDelete, Clusters
      <4>5. ASSUME UserEdit PROVE cluster'.status = cluster.status
        <5>1. PICK r \in Replicas, p \in Pools, t \in Tools :
                cluster' = [cluster EXCEPT !.replicas = r, !.pool = p, !.last = Annotation(t, p, @), !.gen = @ + 1]
          BY <4>5 DEF UserEdit
        <5> QED BY <1>0, <5>1 DEF Clusters
      <4> QED BY <2>8, <4>1, <4>2, <4>3, <4>4, <4>5
    <3> QED BY <2>1, <3>1, <3>2, <3>3 DEF Existing, Count
  <2> QED BY <2>3, <2>4, <2>5, <2>6, <2>7, <2>8, StepKinds
<1> QED BY <1>1, <1>2 DEF FreshFlow

LEMMA FlowNext == Typed /\ Flow /\ [Next]_vars => Flow'
BY DyingFlowNext, DraftFlowNext, LifeFlowNext, GenFlowNext, TaskFlowNext, FreshFlowNext DEF Flow

-----------------------------------------------------------------------------
(***************************************************************************)
(* The count.                                                              *)
(***************************************************************************)

\* The nodes that the count stands for: a node is added when it has been awaited, and subtracted when it is
\* at its last step.
Counted == {n \in Existing : dying[n] # "unfinalize" /\ ~Uncounted(n)}

\* The deletion of a node has been given up.
Wedged == \E n \in Numbers : dying[n] = "wedged"

CountInv ==
  Live /\ "count" \notin odd /\ ~Wedged =>
    /\ Count = Cardinality(Counted)
    /\ task.pc = "await" => node[task.node] # "terminating"
    /\ task.pc = "counted" => node[task.node] \in Alive

LEMMA CountedFinite ==
  IsFiniteSet(Counted) /\ IsFiniteSet(Counted')
<1>1. IsFiniteSet(Numbers)
  BY ReplicasAssumption, FS_Interval DEF Numbers
<1>2. Counted \subseteq Numbers
  BY DEF Counted, Existing
<1>3. Counted' \subseteq Numbers
  BY DEF Counted, Existing
<1> QED BY <1>1, <1>2, <1>3, FS_Subset

\* A deletion that has been given up stays so.
LEMMA WedgedStays ==
  ASSUME Typed, Flow, [Next]_vars, Wedged
  PROVE  Wedged'
<1>0. dying \in Dyings
  BY DEF Typed
<1>1. PICK n \in Numbers : dying[n] = "wedged"
  BY DEF Wedged
<1>2. dying'[n] = "wedged"
  <2>1. CASE Die
    BY <1>1, <2>1, DieEffect
  <2>2. ASSUME NEW m \in Numbers, NodeWrites(m) PROVE dying'[n] = "wedged"
    BY <1>0, <1>1, <2>2 DEF NodeWrites, Leave, Dyings
  <2>3. ASSUME NEW m \in Numbers, NodeMoves(m) PROVE dying'[n] = "wedged"
    <3>1. n # m \/ dying' = dying
      BY <1>1, <2>3 DEF NodeMoves, node_delete, notify_deletion_to_cluster, node_delete_finalizer, NodeStarts,
                        UserKill, CollectGarbage
    <3>2. dying' = dying \/ \E step : Leave(m, step)
      BY <2>3 DEF NodeMoves, node_delete, notify_deletion_to_cluster, node_delete_finalizer, NodeStarts,
                        UserKill, CollectGarbage
    <3> QED BY <1>0, <1>1, <3>1, <3>2 DEF Leave, Dyings
  <2>4. TaskMoves => dying' = dying
    BY DEF TaskMoves, Begins, add_finalizer, appply_modification, update_last_configuration, create_node,
           create_hoprd_resource, await_node, delete_node, Erases, await_deleted, delete_nodes, delete_finalizer
  <2>5. TaskReads \/ TaskWrites \/ UserEdit \/ UserDelete \/ UNCHANGED vars \/ (\E m \in Numbers : NodeReads(m))
          => dying' = dying
    BY DEF TaskReads, TaskWrites, UserEdit, UserDelete, vars, NodeReads
  <2> QED BY <1>1, <2>1, <2>2, <2>3, <2>4, <2>5, StepKinds
<1> QED BY <1>2 DEF Wedged

\* A step that neither writes the status nor changes the nodes that are counted.
LEMMA CountKept ==
  ASSUME Count' = Count, Count = Cardinality(Counted), \A n \in Numbers : n \in Counted' <=> n \in Counted
  PROVE  Count' = Cardinality(Counted')
<1>1. Counted \subseteq Numbers /\ Counted' \subseteq Numbers
  BY DEF Counted, Existing
<1>2. Counted' = Counted
  BY <1>1
<1> QED BY <1>2

\* A node is counted when these say so.
LEMMA CountedIff ==
  ASSUME NEW n \in Numbers
  PROVE  /\ n \in Counted <=> /\ node[n] # "absent" /\ dying[n] # "unfinalize"
                              /\ ~(task.pc \in {"await", "counted"} /\ task.node = n)
         /\ n \in Counted' <=> /\ node'[n] # "absent" /\ dying'[n] # "unfinalize"
                               /\ ~(task'.pc \in {"await", "counted"} /\ task'.node = n)
BY DEF Counted, Existing, Uncounted

LEMMA CountNext ==
  ASSUME Typed, Flow, CountInv, [Next]_vars
  PROVE  CountInv'
<1> SUFFICES ASSUME Live', "count" \notin odd', ~Wedged'
             PROVE  /\ Count' = Cardinality(Counted')
                    /\ task'.pc = "await" => node'[task'.node] # "terminating"
                    /\ task'.pc = "counted" => node'[task'.node] \in Alive
  BY DEF CountInv
<1>0. /\ Live /\ "count" \notin odd /\ Count = Cardinality(Counted)
      /\ task.pc = "await" => node[task.node] # "terminating"
      /\ task.pc = "counted" => node[task.node] \in Alive
  BY ClusterMoves, OddGrows, WedgedStays DEF CountInv
<1>1. /\ cluster \in Clusters /\ node \in Nodes /\ dying \in Dyings /\ task \in Tasks /\ Count \in Nat
      /\ node \in [Numbers -> {"new", "starting", "up", "absent", "terminating"}]
      /\ DyingFlow /\ TaskFlow /\ LifeFlow /\ Exists
  BY <1>0 DEF Typed, Flow, Clusters, Statuses, Count, Nodes, Alive, Live, Exists
<1> DEFINE Kept == \A n \in Numbers : n \in Counted' <=> n \in Counted
<1>2. CASE Die
  <2>1. /\ task.pc \notin {"await", "counted"} /\ task'.pc = "idle" /\ UNCHANGED <<cluster, node>>
        /\ \A n \in Numbers : dying'[n] = (IF dying[n] = "no" THEN "no" ELSE "wedged")
    BY <1>2, DieEffect DEF Die
  <2>2. \A n \in Numbers : dying'[n] = dying[n]
    BY <2>1 DEF Wedged
  <2>3. Kept
    BY <2>1, <2>2, CountedIff
  <2> QED BY <1>0, <2>1, <2>3, CountKept DEF Count
<1>3. CASE TaskReads \/ UNCHANGED vars \/ \E n \in Numbers : NodeReads(n)
  <2>1. UNCHANGED <<cluster, node, dying, task>>
    BY <1>3 DEF TaskReads, NodeReads, vars
  <2>2. Kept
    BY <2>1, CountedIff
  <2> QED BY <1>0, <2>1, <2>2, CountKept DEF Count
<1>4. CASE TaskWrites
  <2>1. /\ task.pc \in Updates /\ UNCHANGED <<node, dying>> /\ task'.pc = AfterUpdate[task.pc]
        /\ task'.pc \notin {"await", "counted"}
    BY <1>4, AfterUpdateIn DEF TaskWrites
  <2>2. Count' = NewStatus(Written).current
    BY <1>1, <1>4, PatchEffect, DraftIndex DEF TaskWrites, Count
  <2>3. Count' = (IF task.pc = "counted" THEN Count + 1 ELSE Count)
    BY <1>1, <2>1, <2>2, WrittenPhases
  <2>4. CASE task.pc = "counted"
    <3>1. task.node \in Numbers /\ node[task.node] \in Alive /\ dying[task.node] = "no"
      BY <1>0, <1>1, <2>4 DEF TaskFlow, DyingFlow, Alive
    <3>2. task.node \in Counted' /\ task.node \notin Counted
      BY <2>1, <2>4, <3>1, CountedIff DEF Alive
    <3>3. \A n \in Numbers : n # task.node => (n \in Counted' <=> n \in Counted)
      BY <2>1, <2>4, CountedIff
    <3>4. Counted \subseteq Numbers /\ Counted' \subseteq Numbers
      BY DEF Counted, Existing
    <3>5. Counted' = Counted \cup {task.node}
      BY <3>1, <3>2, <3>3, <3>4
    <3>6. Cardinality(Counted \cup {task.node}) = Cardinality(Counted) + 1
      BY <3>2, CountedFinite, FS_AddElement
    <3> QED BY <1>0, <2>1, <2>3, <2>4, <3>5, <3>6
  <2>5. CASE task.pc # "counted"
    <3>1. task.pc # "await"
      BY <2>1 DEF Updates
    <3>2. Kept
      BY <2>1, <2>5, <3>1, CountedIff
    <3> QED BY <1>0, <2>1, <2>3, <2>5, <3>2, CountKept
  <2> QED BY <2>4, <2>5
<1>5. ASSUME NEW m \in Numbers, NodeWrites(m)
      PROVE  /\ Count' = Cardinality(Counted')
             /\ task'.pc = "await" => node'[task'.node] # "terminating"
             /\ task'.pc = "counted" => node'[task'.node] \in Alive
  <2>1. /\ dying[m] = "update" /\ dying'[m] = "unfinalize" /\ UNCHANGED <<node, task>>
        /\ \A n \in Numbers : n # m => dying'[n] = dying[n]
    BY <1>1, <1>5 DEF NodeWrites, Leave, Dyings
  <2>2. Count' = NewStatus("NodeDeleted").current
    BY <1>1, <1>5, PatchEffect, DraftIndex DEF NodeWrites, Count
  <2>3. m \in Counted /\ m \notin Counted'
    <3>1. node[m] = "terminating"
      BY <1>1, <2>1 DEF DyingFlow
    <3>2. ~(task.pc \in {"await", "counted"} /\ task.node = m)
      BY <1>0, <3>1 DEF Alive
    <3> QED BY <2>1, <3>1, <3>2, CountedIff
  <2>4. \A n \in Numbers : n # m => (n \in Counted' <=> n \in Counted)
    BY <2>1, CountedIff
  <2>5. Counted' = Counted \ {m}
    <3>1. Counted \subseteq Numbers /\ Counted' \subseteq Numbers
      BY DEF Counted, Existing
    <3> QED BY <2>3, <2>4, <3>1
  <2>6. Cardinality(Counted \ {m}) = Cardinality(Counted) - 1 /\ Cardinality(Counted) > 0
    <3>1. Cardinality(Counted \ {m}) = Cardinality(Counted) - 1
      BY <2>3, CountedFinite, FS_RemoveElement
    <3>2. Cardinality(Counted') \in Nat
      BY CountedFinite, FS_CardinalityType
    <3> QED BY <1>0, <1>1, <2>5, <3>1, <3>2
  <2>7. Count' = Count - 1
    BY <1>0, <1>1, <2>2, <2>6, NewStatusFields DEF Count
  <2> QED BY <1>0, <2>1, <2>5, <2>6, <2>7
<1>6. CASE UserEdit \/ UserDelete
  <2>1. UNCHANGED <<node, dying, task>>
    BY <1>6 DEF UserEdit, UserDelete
  <2>2. Count' = Count
    <3>1. draft' = draft
      BY <1>6 DEF UserEdit, UserDelete
    <3>2. ~TaskWrites /\ ~\E n \in Numbers : NodeWrites(n)
      BY <3>1, PatchEffect, DraftIndex DEF TaskWrites, NodeWrites
    <3> QED BY <3>2, ClusterMoves DEF Count
  <2>3. Kept
    BY <2>1, CountedIff
  <2> QED BY <1>0, <2>1, <2>2, <2>3, CountKept
<1>7. ASSUME NEW m \in Numbers, NodeMoves(m)
      PROVE  /\ Count' = Cardinality(Counted')
             /\ task'.pc = "await" => node'[task'.node] # "terminating"
             /\ task'.pc = "counted" => node'[task'.node] \in Alive
  <2>0. UNCHANGED <<cluster, task>> /\ Count' = Count
    BY <1>7, NodeMovesFrame DEF Count
  <2>1. CASE UserKill(m)
    <3>1. /\ node[m] \in Alive /\ dying' = dying /\ ~Miscounted(m)
          /\ node'[m] = (IF node[m] = "new" THEN "absent" ELSE "terminating")
          /\ \A n \in Numbers : n # m => node'[n] = node[n]
      BY <1>1, <2>1, DeletedTyped DEF UserKill, Note
    <3>2. /\ node[m] = "new" => task.pc = "await" /\ task.node = m
          /\ node[m] # "new" => ~(task.pc \in {"await", "counted"} /\ task.node = m)
      BY <3>1 DEF Miscounted, Uncounted
    <3>3. Kept
      <4>1. m \in Counted' <=> m \in Counted
        BY <2>0, <3>1, <3>2, CountedIff DEF Alive
      <4>2. \A n \in Numbers : n # m => (n \in Counted' <=> n \in Counted)
        BY <2>0, <3>1, CountedIff
      <4> QED BY <4>1, <4>2
    <3>4. /\ task.pc = "await" => node'[task.node] # "terminating"
          /\ task.pc = "counted" => node'[task.node] \in Alive
      BY <1>0, <1>1, <3>1, <3>2 DEF TaskFlow, Alive
    <3> QED BY <1>0, <2>0, <3>3, <3>4, CountKept
  <2>2. ~CollectGarbage(m)
    BY <1>1 DEF CollectGarbage
  <2>3. CASE NodeStarts(m)
    <3>1. /\ node[m] \in {"new", "starting"} /\ node'[m] \in {"starting", "up"} /\ dying' = dying
          /\ \A n \in Numbers : n # m => node'[n] = node[n]
      BY <1>1, <2>3 DEF NodeStarts
    <3>2. Kept
      BY <2>0, <3>1, CountedIff
    <3>3. /\ task.pc = "await" => node'[task.node] # "terminating"
          /\ task.pc = "counted" => node'[task.node] \in Alive
      BY <1>0, <1>1, <3>1 DEF TaskFlow, Alive
    <3> QED BY <1>0, <2>0, <3>2, <3>3, CountKept
  <2>4. CASE node_delete(m) \/ notify_deletion_to_cluster(m)
    <3>1. node' = node /\ \A n \in Numbers : n # m => dying'[n] = dying[n]
      BY <1>1, <2>4 DEF node_delete, notify_deletion_to_cluster, Leave, Dyings
    <3>2. dying[m] # "unfinalize" /\ dying'[m] # "unfinalize"
      <4>1. cluster.status.phase # "Deleting"
        BY <1>0, <1>1 DEF LifeFlow, Phase
      <4> QED BY <1>1, <2>4, <4>1 DEF node_delete, notify_deletion_to_cluster, Leave, Dyings
    <3>3. Kept
      BY <2>0, <3>1, <3>2, CountedIff
    <3> QED BY <1>0, <2>0, <3>1, <3>3, CountKept
  <2>5. CASE node_delete_finalizer(m)
    <3>1. /\ dying[m] = "unfinalize" /\ node[m] = "terminating"
          /\ \A n \in Numbers : n # m => dying'[n] = dying[n] /\ node'[n] = node[n]
      BY <1>1, <2>5 DEF node_delete_finalizer, Leave, Dyings, DyingFlow
    <3>2. node'[m] = "absent"
      <4>1. ~Leave(m, "wedged")
        BY <1>1 DEF Leave, Dyings, Wedged
      <4> QED BY <1>1, <2>5, <4>1 DEF node_delete_finalizer
    <3>3. Kept
      BY <2>0, <3>1, <3>2, CountedIff
    <3>4. /\ task.pc = "await" => node'[task.node] # "terminating"
          /\ task.pc = "counted" => node'[task.node] \in Alive
      BY <1>0, <1>1, <3>1, <3>2 DEF TaskFlow, Alive
    <3> QED BY <1>0, <2>0, <3>3, <3>4, CountKept
  <2> QED BY <1>7, <2>1, <2>2, <2>3, <2>4, <2>5 DEF NodeMoves
<1>8. CASE TaskMoves
  <2>0. Count' = Count /\ dying' = dying
    <3>1. dying' = dying
      BY <1>8 DEF TaskMoves, Begins, add_finalizer, appply_modification, update_last_configuration, create_node,
                  create_hoprd_resource, await_node, delete_node, Erases, await_deleted, delete_nodes, delete_finalizer
    <3>2. ~TaskWrites /\ ~\E n \in Numbers : NodeWrites(n)
      <4>1. draft' = draft /\ task.pc \notin Updates
        BY <1>8, TaskMovesTable
      <4>2. ASSUME NEW n \in Numbers, NodeWrites(n) PROVE FALSE
        BY <4>1, <4>2, PatchEffect, DraftIndex DEF NodeWrites
      <4> QED BY <4>1, <4>2 DEF TaskWrites
    <3> QED BY <3>1, <3>2, ClusterMoves DEF Count
  <2>1. CASE node' = node /\ task.pc \notin {"await", "counted"} /\ task'.pc \notin {"await", "counted"}
    <3>1. Kept
      BY <2>0, <2>1, CountedIff
    <3> QED BY <1>0, <2>0, <2>1, <3>1, CountKept
  <2>2. CASE create_hoprd_resource
    <3>1. CASE task'.pc = "idle" /\ node' = node
      BY <2>1, <2>2, <3>1 DEF create_hoprd_resource
    <3>2. CASE node[task.node] = "absent" /\ node' = [node EXCEPT ![task.node] = "new"] /\ Goto("await")
      <4>1. task'.pc = "await" /\ task'.node = task.node /\ task.pc = "post" /\ task.node \in Numbers
        BY <1>1, <2>2, <3>2, TaskForms DEF create_hoprd_resource, TaskFlow
      <4>2. node'[task.node] = "new" /\ \A n \in Numbers : n # task.node => node'[n] = node[n]
        BY <1>1, <3>2, <4>1
      <4>3. Kept
        BY <2>0, <3>2, <4>1, <4>2, CountedIff
      <4> QED BY <1>0, <2>0, <4>1, <4>2, <4>3, CountKept
    <3> QED BY <1>1, <2>2, <3>1, <3>2, TaskForms DEF create_hoprd_resource
  <2>3. CASE await_node
    <3>1. task.pc = "await" /\ node' = node /\ task.node \in Numbers
      BY <1>1, <2>3 DEF await_node, TaskFlow
    <3>2. CASE Goto("counted") /\ Note("count", node[task.node] = "absent")
      <4>1. task'.pc = "counted" /\ task'.node = task.node /\ node[task.node] # "absent"
        BY <1>1, <3>2, TaskForms DEF Note
      <4>2. Kept
        BY <2>0, <3>1, <4>1, CountedIff
      <4>3. node[task.node] \in Alive
        BY <1>0, <1>1, <3>1, <4>1 DEF Alive
      <4> QED BY <1>0, <2>0, <3>1, <4>1, <4>2, <4>3, CountKept
    <3>3. CASE node[task.node] \in {"terminating", "absent"} /\ End
      <4>1. task'.pc = "idle" /\ node[task.node] = "absent"
        BY <1>0, <1>1, <3>1, <3>3, TaskForms
      <4>2. Kept
        BY <2>0, <3>1, <4>1, CountedIff
      <4> QED BY <1>0, <2>0, <4>1, <4>2, CountKept
    <3>4. ~(odd' = odd \cup {"count", "scale"})
      OBVIOUS
    <3> QED BY <2>3, <3>2, <3>3, <3>4 DEF await_node
  <2>4. CASE Erases
    <3>1. task.pc = "erase" /\ task'.pc = "gone" /\ task.node \in Numbers
      BY <1>1, <2>4, TaskForms DEF Erases, TaskFlow
    <3>2. node[task.node] # "absent" /\ node[task.node] # "new"
      BY <2>4 DEF Erases
    <3>3. node'[task.node] = "terminating" /\ \A n \in Numbers : n # task.node => node'[n] = node[n]
      BY <1>1, <2>4, <3>1, <3>2, DeletedTyped DEF Erases
    <3>4. Kept
      BY <2>0, <3>1, <3>2, <3>3, CountedIff
    <3> QED BY <1>0, <2>0, <3>1, <3>4, CountKept
  <2>5. ~delete_nodes
    BY <1>0, <1>1, DeleteNodesMoves DEF LifeFlow
  <2>6. CASE Begins
    <3>1. task'.pc = first_step(cluster) /\ task.pc = "idle" /\ node' = node
      BY <2>6 DEF Begins, Idle
    <3> QED BY <2>1, <3>1, FirstSteps
  <2>7. CASE \/ add_finalizer \/ appply_modification \/ update_last_configuration
             \/ create_node \/ delete_node \/ await_deleted \/ delete_finalizer
    <3>1. node' = node
      BY <2>7 DEF add_finalizer, appply_modification, update_last_configuration, create_node, delete_node,
                  await_deleted, delete_finalizer
    <3>2. task.pc \notin {"await", "counted"} /\ task'.pc \notin {"await", "counted"}
      <4>1. task.pc \notin {"await", "counted", "post", "idle"}
        BY <2>7 DEF add_finalizer, appply_modification, update_last_configuration, create_node, delete_node,
                    await_deleted, delete_finalizer
      <4> QED BY <1>8, <4>1, TaskMovesTable
    <3> QED BY <2>1, <3>1, <3>2
  <2> QED BY <1>8, <2>2, <2>3, <2>4, <2>5, <2>6, <2>7 DEF TaskMoves
<1> QED BY <1>2, <1>3, <1>4, <1>5, <1>6, <1>7, <1>8, StepKinds

\* status.current_nodes is the number of nodes whenever nothing is under way, with everything that a user,
\* a failed call or a crash may do; the exceptions are those that `odd` notes.
THEOREM CountIsExact == Spec => []CountExact
<1>1. Init => CountInv
  <2> SUFFICES ASSUME Init PROVE CountInv
    OBVIOUS
  <2>1. cluster.status = NoStatus /\ task.pc = "idle" /\ Existing = {}
    BY DEF Init, Idle, Existing
  <2>2. Count = 0 /\ Counted = {}
    BY <2>1 DEF Count, NoStatus, Counted
  <2> QED BY <2>1, <2>2, FS_EmptySet DEF CountInv
<1>2. Typed /\ Flow /\ CountInv /\ [Next]_vars => CountInv'
  BY CountNext
<1>3. Flow /\ CountInv => CountExact
  <2> SUFFICES ASSUME Flow, CountInv, "count" \notin odd, cluster.life = "finalized", Quiet
               PROVE  cluster.status.current = Cardinality(Existing)
    BY DEF CountExact
  <2>1. \A n \in Numbers : dying[n] = "no"
    BY DEF Quiet
  <2>2. Counted = Existing
    BY <2>1 DEF Counted, Existing, Uncounted, Quiet
  <2> QED BY <2>1, <2>2 DEF CountInv, Live, Wedged, Count
<1> QED BY <1>1, <1>2, <1>3, TypeInit, TypeNext, FlowInit, FlowNext, PTL DEF Spec

-----------------------------------------------------------------------------
(***************************************************************************)
(* The phase.                                                              *)
(***************************************************************************)

\* Somebody will still change a status that is Scaling.
Watched ==
  \/ task.pc \in {"create", "post", "await", "counted", "settled", "remove", "erase"}
  \/ \E n \in Numbers : node[n] = "terminating" /\ dying[n] # "unfinalize"

\* A status that is Ready for the generation of the spec counts its replicas, written or about to be; the
\* one that modify writes to begin with is checked in its next step.
ReadyStatus == Phase = "Ready" /\ ~(cluster.status.observed < cluster.gen) /\ task.pc # "check"
                 => Count = cluster.replicas

ReadyDraft(w) == draft[w].phase = "Ready" /\ ~(draft[w].observed < cluster.gen) /\ ~(w = 0 /\ task.pc = "modified")
                   => draft[w].current = cluster.replicas

ScaleInv ==
  Live /\ "scale" \notin odd =>
    ReadyStatus /\ (\A w \in 0 .. MaxNode : ReadyDraft(w)) /\ (Phase = "Scaling" => Watched)

\* A step that writes no status and leaves the spec alone.
LEMMA ReadyKept ==
  ASSUME ReadyStatus, \A w \in 0 .. MaxNode : ReadyDraft(w), draft' = draft,
         cluster'.status = cluster.status, cluster'.gen = cluster.gen, cluster'.replicas = cluster.replicas,
         task'.pc = task.pc \/ task.pc \notin {"check", "modified"}
  PROVE  ReadyStatus' /\ \A w \in 0 .. MaxNode : ReadyDraft(w)'
BY DEF ReadyStatus, ReadyDraft, Phase, Count

\* A status that is patched.
LEMMA ReadyPatched ==
  ASSUME Typed, ReadyStatus, \A w \in 0 .. MaxNode : ReadyDraft(w),
         NEW w \in 0 .. MaxNode, NEW ph, update_status_patch(w, ph), Exists, "scale" \notin odd',
         (w # 0 /\ task'.pc = task.pc) \/ (w = 0 /\ (task.pc = "modified" <=> task'.pc = "check"))
  PROVE  cluster'.status = draft[w] /\ ReadyStatus' /\ \A v \in 0 .. MaxNode : ReadyDraft(v)'
<1>1. /\ draft'[w] = NoDraft /\ \A v \in 0 .. MaxNode : v # w => draft'[v] = draft[v]
      /\ cluster'.gen = cluster.gen /\ cluster'.replicas = cluster.replicas
      /\ cluster'.status = draft[w]
  BY PatchEffect
<1>2. NoDraft.phase # "Ready"
  BY DEF NoDraft
<1>3. ReadyStatus'
  <2>1. ReadyDraft(w)
    OBVIOUS
  <2>2. task'.pc # "check" => ~(w = 0 /\ task.pc = "modified")
    OBVIOUS
  <2> QED BY <1>1, <2>1, <2>2 DEF ReadyStatus, ReadyDraft, Phase, Count
<1>4. ASSUME NEW v \in 0 .. MaxNode PROVE ReadyDraft(v)'
  <2>1. ReadyDraft(v)
    OBVIOUS
  <2>2. CASE v = w
    BY <1>1, <1>2, <2>2 DEF ReadyDraft
  <2>3. CASE v # w
    BY <1>1, <2>1, <2>3 DEF ReadyDraft
  <2> QED BY <2>2, <2>3
<1> QED BY <1>1, <1>3, <1>4

LEMMA ScaleNext ==
  ASSUME Typed, Flow, ScaleInv, [Next]_vars
  PROVE  ScaleInv'
<1> SUFFICES ASSUME Live', "scale" \notin odd'
             PROVE  ReadyStatus' /\ (\A w \in 0 .. MaxNode : ReadyDraft(w)') /\ (Phase' = "Scaling" => Watched')
  BY DEF ScaleInv
<1>0. Live /\ "scale" \notin odd /\ ReadyStatus /\ (\A w \in 0 .. MaxNode : ReadyDraft(w)) /\ (Phase = "Scaling" => Watched)
  BY ClusterMoves, OddGrows DEF ScaleInv
<1>1. /\ cluster \in Clusters /\ node \in Nodes /\ dying \in Dyings /\ task \in Tasks /\ draft \in Drafts
      /\ cluster.gen \in Nat /\ cluster.replicas \in Nat /\ Count \in Nat
      /\ task.self.replicas \in Nat /\ task.self.current \in Nat
      /\ DyingFlow /\ DraftFlow /\ LifeFlow /\ GenFlow /\ TaskFlow /\ FreshFlow /\ Exists
      /\ NoDraft.phase = "Nothing"
  <2>1. cluster.gen \in Nat /\ cluster.replicas \in Replicas /\ Count \in Nat
    BY DEF Typed, Clusters, Statuses, Count
  <2>2. task.self \in Selves /\ \A r \in Replicas : r \in Nat
    BY ReplicasAssumption DEF Typed, Tasks
  <2>3. task.self.replicas \in Nat /\ task.self.current \in Nat
    BY <2>2 DEF Selves
  <2> QED BY <1>0, <2>1, <2>2, <2>3 DEF Typed, Flow, Live, Exists, NoDraft
<1>2. CASE Die
  <2>1. /\ task.pc \notin Halfway /\ task'.pc = "idle" /\ UNCHANGED <<cluster, node>>
        /\ (\A w \in 0 .. MaxNode : draft'[w] = NoDraft)
        /\ \A n \in Numbers : dying'[n] \in {"no", "wedged"}
    BY <1>2, DieEffect DEF Die
  <2>2. ReadyStatus'
    BY <1>0, <2>1 DEF ReadyStatus, Phase, Count, Halfway
  <2>3. \A w \in 0 .. MaxNode : ReadyDraft(w)'
    BY <1>1, <2>1 DEF ReadyDraft
  <2>4. Phase' = "Scaling" => Watched'
    BY <1>0, <2>1 DEF Phase, Watched, Halfway
  <2> QED BY <2>2, <2>3, <2>4
<1>3. ASSUME NEW w \in 0 .. MaxNode, NEW s, draft' = [draft EXCEPT ![w] = s],
             UNCHANGED <<cluster, node, dying, task>>,
             s.phase = "Ready" /\ ~(w = 0 /\ task.pc = "modified") => s.current = cluster.replicas
      PROVE  ReadyStatus' /\ (\A v \in 0 .. MaxNode : ReadyDraft(v)') /\ (Phase' = "Scaling" => Watched')
  <2>1. draft'[w] = s /\ \A v \in 0 .. MaxNode : v # w => draft'[v] = draft[v]
    BY <1>3, ReadEffect
  <2>2. ReadyStatus' /\ (Phase' = "Scaling" => Watched')
    BY <1>0, <1>3 DEF ReadyStatus, Phase, Count, Watched
  <2>3. ASSUME NEW v \in 0 .. MaxNode PROVE ReadyDraft(v)'
    <3>1. CASE v = w
      BY <1>3, <2>1, <3>1 DEF ReadyDraft
    <3>2. CASE v # w
      BY <1>0, <1>3, <2>1, <3>2 DEF ReadyDraft
    <3> QED BY <3>1, <3>2
  <2> QED BY <2>2, <2>3
<1>4. CASE TaskReads
  <2>1. task.pc \in Updates /\ ~ReadyUnchecked(0, Written)
    BY <1>4 DEF TaskReads, Note
  <2>2. /\ NewStatus(Written).phase = "Ready" => Written = "Ready" \/ NewStatus(Written).current = cluster.replicas
        /\ Written = "Ready" => NewStatus(Written).current = Count
    <3>1. Written = "Ready" => task.pc # "counted"
      BY <2>1, UpdateTable
    <3> QED BY <1>1, <2>1, <3>1, WrittenPhases
  <2>3. Written = "Ready" /\ task.pc # "modified" => Count = cluster.replicas
    <3> SUFFICES ASSUME Written = "Ready", task.pc # "modified" PROVE Count = cluster.replicas
      OBVIOUS
    <3>1. task.pc # "recover" /\ task.self.replicas = cluster.replicas /\ task.self.current = Count
      BY <2>1 DEF ReadyUnchecked, Count
    <3>2. task.pc = "created" => task.self.current = 0
      BY <1>1 DEF FreshFlow, Fresh
    <3>3. task.pc = "settled" => task.self.replicas = task.self.current
      BY <1>1 DEF TaskFlow
    <3> QED BY <1>1, <2>1, <3>1, <3>2, <3>3, UpdateTable DEF Scale
  <2> QED BY <1>3, <1>4, <2>2, <2>3, DraftIndex DEF TaskReads
<1>5. ASSUME NEW n \in Numbers, NodeReads(n)
      PROVE  ReadyStatus' /\ (\A v \in 0 .. MaxNode : ReadyDraft(v)') /\ (Phase' = "Scaling" => Watched')
  <2>1. NewStatus("NodeDeleted").phase = "Ready" => NewStatus("NodeDeleted").current = cluster.replicas
    BY <1>1, NewStatusFields
  <2> QED BY <1>3, <1>5, <2>1, DraftIndex DEF NodeReads
<1>6. CASE TaskWrites
  <2>1. /\ task.pc \in Updates /\ update_status_patch(0, Written) /\ UNCHANGED <<node, dying>>
        /\ task'.pc = AfterUpdate[task.pc] /\ draft[0] # NoDraft
    BY <1>6, PatchEffect, DraftIndex DEF TaskWrites
  <2>2. /\ task.pc = "modified" <=> task'.pc = "check"
        /\ task.pc = "scaling" => task'.pc \in {"create", "remove", "settled"}
    BY <2>1, UpdateTable
  <2>3. cluster'.status = draft[0] /\ ReadyStatus' /\ \A v \in 0 .. MaxNode : ReadyDraft(v)'
    BY <1>0, <1>1, <2>1, <2>2, ReadyPatched, DraftIndex
  <2>4. Phase' = "Scaling" => Watched'
    BY <1>1, <2>1, <2>2, <2>3 DEF Phase, DraftFlow, Watched
  <2> QED BY <2>3, <2>4
<1>7. ASSUME NEW n \in Numbers, NodeWrites(n)
      PROVE  ReadyStatus' /\ (\A v \in 0 .. MaxNode : ReadyDraft(v)') /\ (Phase' = "Scaling" => Watched')
  <2>1. update_status_patch(n, "NodeDeleted") /\ task' = task /\ n \in 0 .. MaxNode /\ n # 0 /\ draft[n] # NoDraft
    BY <1>7, PatchEffect, DraftIndex DEF NodeWrites
  <2>2. cluster'.status = draft[n] /\ ReadyStatus' /\ \A v \in 0 .. MaxNode : ReadyDraft(v)'
    BY <1>0, <1>1, <2>1, ReadyPatched
  <2>3. Phase' # "Scaling"
    BY <1>1, <2>1, <2>2 DEF Phase, DraftFlow
  <2> QED BY <2>2, <2>3
<1>8. CASE UserEdit
  <2>1. PICK r \in Replicas, p \in Pools, t \in Tools :
          cluster' = [cluster EXCEPT !.replicas = r, !.pool = p, !.last = Annotation(t, p, @), !.gen = @ + 1]
    BY <1>8 DEF UserEdit
  <2>2. /\ cluster'.gen = cluster.gen + 1 /\ cluster'.status = cluster.status /\ UNCHANGED <<node, dying, task, draft>>
    BY <1>1, <1>8, <2>1 DEF UserEdit, Clusters
  <2>3. cluster.status.observed < cluster'.gen /\ \A w \in 0 .. MaxNode : draft[w].observed < cluster'.gen
    <3>1. cluster.status.observed \in Nat /\ \A w \in 0 .. MaxNode : draft[w].observed \in Nat
      BY <1>1 DEF Clusters, Statuses, Drafts
    <3> QED BY <1>1, <2>2, <3>1 DEF GenFlow
  <2>4. ReadyStatus' /\ \A w \in 0 .. MaxNode : ReadyDraft(w)'
    BY <2>2, <2>3 DEF ReadyStatus, ReadyDraft
  <2>5. Phase' = "Scaling" => Watched'
    BY <1>0, <2>2 DEF Phase, Watched
  <2> QED BY <2>4, <2>5
<1>9. CASE UserDelete \/ UNCHANGED vars
  <2>1. cluster' = cluster
    BY <1>1, <1>9 DEF UserDelete, Live, Clusters, vars
  <2>2. UNCHANGED <<node, dying, task, draft>>
    BY <1>9 DEF UserDelete, vars
  <2> QED BY <1>0, <2>1, <2>2, ReadyKept DEF Phase, Watched
<1>10. ASSUME NEW m \in Numbers, NodeMoves(m)
       PROVE  ReadyStatus' /\ (\A v \in 0 .. MaxNode : ReadyDraft(v)') /\ (Phase' = "Scaling" => Watched')
  <2>1. UNCHANGED <<cluster, task, draft>>
    BY <1>10, NodeMovesFrame
  <2>2. ReadyStatus' /\ \A v \in 0 .. MaxNode : ReadyDraft(v)'
    BY <1>0, <2>1, ReadyKept
  <2>3. \A n \in Numbers : node[n] = "terminating" /\ dying[n] # "unfinalize"
                             => node'[n] = "terminating" /\ dying'[n] # "unfinalize"
    <3>1. CASE UserKill(m) \/ NodeStarts(m) \/ CollectGarbage(m)
      <4>1. node[m] # "terminating" /\ dying' = dying
        BY <3>1 DEF UserKill, NodeStarts, CollectGarbage, Alive
      <4>2. \A n \in Numbers : n # m => node'[n] = node[n]
        BY <1>1, <3>1 DEF UserKill, NodeStarts, CollectGarbage, Deleted, Nodes
      <4> QED BY <4>1, <4>2
    <3>2. CASE node_delete(m) \/ notify_deletion_to_cluster(m)
      <4>1. cluster.status.phase # "Deleting"
        BY <1>0, <1>1 DEF LifeFlow, Phase
      <4> QED BY <1>1, <3>2, <4>1 DEF node_delete, notify_deletion_to_cluster, Leave, Dyings
    <3>3. CASE node_delete_finalizer(m)
      BY <1>1, <3>3 DEF node_delete_finalizer, Leave, Dyings, Nodes
    <3> QED BY <1>10, <3>1, <3>2, <3>3 DEF NodeMoves
  <2>4. Phase' = "Scaling" => Watched'
    BY <1>0, <2>1, <2>3 DEF Phase, Watched
  <2> QED BY <2>2, <2>4
<1>11. CASE TaskMoves /\ ~UserEdit
  <2>1. draft' = draft /\ task.pc \notin Updates
    BY <1>11, TaskMovesTable
  <2>2. cluster'.status = cluster.status /\ cluster'.gen = cluster.gen /\ cluster'.replicas = cluster.replicas
    <3>1. ~TaskWrites /\ ~\E n \in Numbers : NodeWrites(n)
      BY <2>1, PatchEffect, DraftIndex DEF TaskWrites, NodeWrites
    <3> QED BY <1>11, <3>1, ClusterMoves
  <2>3. ReadyStatus' /\ \A v \in 0 .. MaxNode : ReadyDraft(v)'
    BY <1>0, <2>1, <2>2, ReadyKept DEF Updates
  <2>4. dying' = dying
    BY <1>11 DEF TaskMoves, Begins, add_finalizer, appply_modification, update_last_configuration, create_node,
                 create_hoprd_resource, await_node, delete_node, Erases, await_deleted, delete_nodes, delete_finalizer
  <2>5. ASSUME Phase = "Scaling" PROVE Watched'
    <3>0. Watched
      BY <1>0, <2>5
    <3>1. CASE node' = node /\ task.pc \notin {"create", "post", "await", "remove", "erase"}
      <4>1. task.pc \notin {"counted", "settled"}
        BY <2>1 DEF Updates
      <4> QED BY <2>4, <3>0, <3>1, <4>1 DEF Watched
    <3>2. CASE create_node
      BY <1>1, <3>2, TaskForms DEF create_node, Watched
    <3>3. CASE create_hoprd_resource
      <4>1. Goto("await")
        BY <3>3 DEF create_hoprd_resource, Note
      <4> QED BY <1>1, <4>1, TaskForms DEF Watched
    <3>4. CASE await_node
      <4>1. Goto("counted")
        BY <3>4 DEF await_node, Note
      <4> QED BY <1>1, <4>1, TaskForms DEF Watched
    <3>5. CASE delete_node
      <4>1. task' = [task EXCEPT !.pc = "erase", !.node = task.self.current]
        BY <3>5 DEF delete_node, Note
      <4>2. task'.pc = "erase"
        BY <1>1, <4>1 DEF Tasks
      <4> QED BY <4>2 DEF Watched
    <3>6. CASE Erases
      <4>1. task.node \in Numbers
        BY <1>1, <3>6 DEF Erases, TaskFlow
      <4>2. node[task.node] # "new" /\ dying[task.node] # "unfinalize" /\ Deleted(task.node)
        BY <3>6 DEF Erases
      <4>3. node'[task.node] = "terminating"
        BY <1>1, <4>1, <4>2, DeletedTyped
      <4> QED BY <2>4, <4>1, <4>2, <4>3 DEF Watched
    <3>7. ~delete_nodes
      BY <1>0, <1>1, DeleteNodesMoves DEF LifeFlow
    <3>8. CASE \/ Begins \/ add_finalizer \/ appply_modification \/ update_last_configuration
               \/ await_deleted \/ delete_finalizer
      <4>1. node' = node /\ task.pc \in {"idle", "finalizer", "apply", "annotate", "gone", "unfinalize"}
        BY <3>8 DEF Begins, add_finalizer, appply_modification, update_last_configuration, await_deleted, delete_finalizer
      <4> QED BY <3>1, <4>1
    <3> QED BY <1>11, <3>2, <3>3, <3>4, <3>5, <3>6, <3>7, <3>8 DEF TaskMoves
  <2> QED BY <2>2, <2>3, <2>5 DEF Phase
<1> QED BY <1>2, <1>4, <1>5, <1>6, <1>7, <1>8, <1>9, <1>10, <1>11, StepKinds

\* A cluster is never left Scaling, and when the controller finds nothing to do for a cluster that is Ready
\* it has the nodes that its spec asks for, with everything that a user, a failed call or a crash may do;
\* the exceptions are those that `odd` notes.
THEOREM ScaledWhenQuiet == Spec => []NoOpMeansScaled
<1>1. Init => ScaleInv
  <2> SUFFICES ASSUME Init PROVE ScaleInv
    OBVIOUS
  <2>1. cluster.status = NoStatus /\ \A w \in 0 .. MaxNode : draft[w] = NoDraft
    BY DEF Init
  <2>2. Phase = "None" /\ NoDraft.phase = "Nothing"
    BY <2>1 DEF Phase, NoStatus, NoDraft
  <2> QED BY <2>1, <2>2 DEF ScaleInv, ReadyStatus, ReadyDraft
<1>2. Typed /\ Flow /\ ScaleInv /\ [Next]_vars => ScaleInv'
  BY ScaleNext
<1>3. CountExact /\ ScaleInv => NoOpMeansScaled
  <2> SUFFICES ASSUME CountExact, ScaleInv, odd = {}, cluster.life = "finalized", Quiet
               PROVE  /\ cluster.status.phase # "Scaling"
                      /\ cluster.status.phase = "Ready" /\ determine_action(cluster) = "NoOp"
                           => Cardinality(Existing) = cluster.replicas
    BY DEF NoOpMeansScaled
  <2>1. ReadyStatus /\ (Phase = "Scaling" => Watched) /\ Count = Cardinality(Existing)
    BY DEF ScaleInv, CountExact, Live, Count
  <2>2. ~Watched /\ task.pc = "idle"
    BY DEF Quiet, Watched
  <2>3. cluster.status.phase = "Ready" /\ determine_action(cluster) = "NoOp"
          => ~(cluster.status.observed < cluster.gen)
    BY DEF determine_action
  <2> QED BY <2>1, <2>2, <2>3 DEF ReadyStatus, Phase
<1> QED BY <1>1, <1>2, <1>3, CountIsExact, TypeInit, TypeNext, FlowInit, FlowNext, PTL DEF Spec

-----------------------------------------------------------------------------
(***************************************************************************)
(* A cluster that nobody disturbs: no call fails, the operator stays up,   *)
(* nobody deletes a node or edits the spec during a reconciliation, and    *)
(* wait_deployment waits for the Deployment.  The spec is edited, and the  *)
(* cluster deleted, any number of times.                                   *)
(***************************************************************************)

Calm == /\ MaxKills = 0 /\ MaxCrashes = 0 /\ MaxFailures = 0
        /\ ~EarlyReady /\ ~BusyEdits

BudgetInv == budget.kills = 0 /\ budget.crashes = 0 /\ budget.failures = 0

\* Which steps go with which life of the object.
LifeInv ==
  /\ cluster.life = "new" => task.pc \in {"idle", "finalizer"} /\ Count = 0
  /\ cluster.life = "absent" =>
       task.pc \in {"idle", "finalizer", "init"} /\ Existing = {} /\ draft[0] = NoDraft
  /\ task.pc \in {"deleting", "list", "next", "gone_next", "unfinalize"} => cluster.life = "terminating"
  /\ task.pc \in {"finalizer", "init", "created"} => Count = 0

\* The snapshot of a reconciliation is not stale.
SnapshotInv ==
  /\ task.pc # "idle" => task.self.replicas = cluster.replicas /\ task.self.pool = cluster.pool
  /\ task.pc \notin {"idle", "gone"} => task.self.current = Count
  /\ task.pc \in {"create", "post"} => task.self.current < task.self.replicas
  /\ task.pc \in {"remove", "erase"} => task.self.current > task.self.replicas
  /\ task.pc = "settled" => task.self.current = task.self.replicas

\* The phases that only a running task leaves in the status.
PhaseInv ==
  /\ cluster.life # "absent" => (Phase = "Deleting" <=> task.pc \in {"list", "next", "gone_next", "unfinalize"})
  /\ Phase = "Scaling" => task.pc \in {"create", "post", "await", "counted", "remove", "erase", "settled", "gone"}

\* The nodes are 1..current_nodes, except while one is being created or deleted.
NodesInv ==
  cluster.life # "absent" =>
    /\ task.pc \notin {"await", "counted", "gone", "next", "gone_next", "unfinalize"} => Existing = 1 .. Count
    /\ task.pc \in {"await", "counted"} => Existing = 1 .. (Count + 1) /\ task.node = Count + 1
    /\ task.pc = "post" => task.node = Count + 1 /\ task.node \in Numbers
    /\ task.pc = "erase" => task.node = Count
    /\ task.pc = "gone" =>
         /\ task.node \in Numbers
         /\ \/ /\ node[task.node] = "terminating" /\ dying[task.node] \in {"no", "notify", "update"}
               /\ Count = task.node /\ Existing = 1 .. task.node
            \/ /\ node[task.node] = "terminating" /\ dying[task.node] = "unfinalize"
               /\ Count = task.node - 1 /\ Existing = 1 .. task.node /\ Phase \in {"Ready", "NotScaled"}
            \/ /\ node[task.node] = "absent" /\ dying[task.node] = "no"
               /\ Count = task.node - 1 /\ Existing = 1 .. (task.node - 1) /\ Phase \in {"Ready", "NotScaled"}
    /\ task.pc = "next" => Existing = task.todo
    /\ task.pc = "gone_next" =>
         /\ task.node \in Numbers /\ task.node \notin task.todo /\ Existing \ {task.node} = task.todo
         /\ node[task.node] \in {"terminating", "absent"}
         /\ dying[task.node] \in {"no", "notify", "unfinalize"}
    /\ task.pc = "unfinalize" => Existing = {}

\* A node is being deleted only while the task waits for it, and has a finalizer once it is counted.
DyingInv ==
  \A n \in Numbers :
    /\ node[n] = "terminating" => task.pc \in {"gone", "gone_next"} /\ task.node = n
    /\ dying[n] # "no" => node[n] = "terminating"
    /\ node[n] = "new" => task.pc = "await" /\ task.node = n

\* A status that is about to be written is the one that would be computed now.
DraftInv ==
  /\ draft[0] # NoDraft => task.pc \in Updates /\ draft[0] = NewStatus(Written)
  /\ \A n \in Numbers : draft[n] # NoDraft => dying[n] = "update" /\ draft[n] = NewStatus("NodeDeleted")

CalmInv == BudgetInv /\ LifeInv /\ SnapshotInv /\ PhaseInv /\ NodesInv /\ DyingInv /\ DraftInv

\* Nothing fails, and only the node that the task waits for is being deleted.
LEMMA CalmFacts ==
  ASSUME Typed, CalmInv
  PROVE  /\ Count \in Nat /\ cluster.replicas \in Nat /\ MaxNode \in Nat
         /\ ~Die /\ \A call : ~Lose(call)
         /\ \A n \in Numbers : dying[n] # "no" \/ node[n] = "terminating" =>
              task.pc \in {"gone", "gone_next"} /\ task.node = n
         /\ \A n \in Numbers : draft[n] # NoDraft => task.pc = "gone" /\ task.node = n /\ dying[n] = "update"
         /\ task.pc \notin Updates => draft[0] = NoDraft
         /\ task.pc \notin Updates \cup {"gone"} => \A w \in 0 .. MaxNode : draft[w] = NoDraft
<1>1. Count \in Nat /\ cluster.replicas \in Nat /\ MaxNode \in Nat
  <2>1. cluster.replicas \in Replicas /\ cluster.status.current \in Nat
    BY DEF Typed, Clusters, Statuses
  <2>2. MaxNode \in Nat /\ \A r \in Replicas : r \in Nat
    BY ReplicasAssumption
  <2> QED BY <2>1, <2>2 DEF Count
<1>2. ~Die /\ \A call : ~Lose(call)
  BY DEF CalmInv, BudgetInv, Die, Lose
<1>3. \A n \in Numbers : dying[n] # "no" \/ node[n] = "terminating" =>
        task.pc \in {"gone", "gone_next"} /\ task.node = n
  BY DEF CalmInv, DyingInv
<1>4. \A n \in Numbers : draft[n] # NoDraft => task.pc = "gone" /\ task.node = n /\ dying[n] = "update"
  <2> SUFFICES ASSUME NEW n \in Numbers, draft[n] # NoDraft
               PROVE  task.pc = "gone" /\ task.node = n /\ dying[n] = "update"
    OBVIOUS
  <2>1. dying[n] = "update"
    BY DEF CalmInv, DraftInv
  <2>2. task.pc \in {"gone", "gone_next"} /\ task.node = n /\ node[n] = "terminating"
    BY <2>1 DEF CalmInv, DyingInv
  <2>3. n \in Existing
    BY <2>2 DEF Existing
  <2>4. cluster.life # "absent"
    BY <2>3 DEF CalmInv, LifeInv
  <2>5. task.pc # "gone_next"
    BY <2>1, <2>2, <2>4 DEF CalmInv, NodesInv
  <2> QED BY <2>1, <2>2, <2>5
<1>5. task.pc \notin Updates => draft[0] = NoDraft
  BY DEF CalmInv, DraftInv
<1>6. \A w \in 0 .. MaxNode : w = 0 \/ w \in Numbers
  BY <1>1 DEF Numbers
<1>7. task.pc \notin Updates \cup {"gone"} => \A w \in 0 .. MaxNode : draft[w] = NoDraft
  BY <1>4, <1>5, <1>6
<1> QED BY <1>1, <1>2, <1>3, <1>4, <1>5, <1>7

\* Without a status under way there is none that could be stale.
LEMMA NoDraftsInv ==
  ASSUME \A w \in 0 .. MaxNode : draft'[w] = NoDraft
  PROVE  DraftInv'
<1>1. 0 \in 0 .. MaxNode /\ Numbers \subseteq 0 .. MaxNode
  BY ReplicasAssumption DEF Numbers
<1> QED BY <1>1 DEF DraftInv

\* What update_status would write does not change with the life of the object.
LEMMA SameNewStatus ==
  ASSUME cluster'.gen = cluster.gen, cluster'.replicas = cluster.replicas, cluster'.status = cluster.status
  PROVE  \A ph : NewStatus(ph)' = NewStatus(ph)
BY DEF NewStatus

LEMMA SameWritten ==
  ASSUME task' = task
  PROVE  Written' = Written
BY DEF Written, Scale

LEMMA CalmInit == ASSUME Calm, Init PROVE CalmInv
<1>1. /\ cluster.life = "new" /\ cluster.status = NoStatus
      /\ task.pc = "idle" /\ budget.kills = 0 /\ budget.crashes = 0 /\ budget.failures = 0
  BY DEF Init, Idle, Calm
<1>2. Count = 0 /\ Phase = "None"
  BY <1>1 DEF NoStatus, Count, Phase
<1>3. Existing = {} /\ \A n \in Numbers : node[n] = "absent" /\ dying[n] = "no"
  BY DEF Init, Existing
<1>4. DraftInv
  <2>1. 0 \in 0 .. MaxNode /\ Numbers \subseteq 0 .. MaxNode
    BY ReplicasAssumption DEF Numbers
  <2> QED BY <2>1 DEF Init, DraftInv
<1>5. BudgetInv /\ LifeInv /\ SnapshotInv /\ PhaseInv /\ DyingInv
  BY <1>1, <1>2, <1>3 DEF BudgetInv, LifeInv, SnapshotInv, PhaseInv, DyingInv
<1>6. NodesInv
  BY <1>1, <1>2, <1>3 DEF NodesInv
<1> QED BY <1>4, <1>5, <1>6 DEF CalmInv

-----------------------------------------------------------------------------
\* The steps of users, and of the nodes that start.
LEMMA CalmUsers ==
  ASSUME Calm, Typed, CalmInv, Typed',
         UserEdit \/ UserDelete \/ \E n \in Numbers : NodeStarts(n) \/ UserKill(n) \/ CollectGarbage(n)
  PROVE  CalmInv'
<1>0. /\ BudgetInv /\ LifeInv /\ SnapshotInv /\ PhaseInv /\ NodesInv /\ DyingInv /\ DraftInv
      /\ cluster \in Clusters /\ node \in Nodes /\ budget \in Budgets
  BY DEF CalmInv, Typed
<1>1. CASE UserEdit
  <2>1. task.pc = "idle" /\ cluster.life \in {"new", "finalized"} /\ UNCHANGED <<node, dying, task, draft>>
    BY <1>1 DEF UserEdit, Calm
  <2>2. PICK r \in Replicas, p \in Pools, t \in Tools :
          cluster' = [cluster EXCEPT !.replicas = r, !.pool = p, !.last = Annotation(t, p, @), !.gen = @ + 1]
    BY <1>1 DEF UserEdit
  <2>3. cluster'.life = cluster.life /\ cluster'.status = cluster.status
    BY <1>0, <2>2 DEF Clusters
  <2>4. BudgetInv'
    BY <1>0, <1>1 DEF UserEdit, BudgetInv, Budgets
  <2>5. DraftInv'
    BY <2>1, CalmFacts, NoDraftsInv DEF Updates
  <2>6. Existing' = Existing
    BY <2>1 DEF Existing
  <2> QED BY <1>0, <2>1, <2>3, <2>4, <2>5, <2>6
          DEF CalmInv, LifeInv, SnapshotInv, PhaseInv, NodesInv, DyingInv, Count, Phase
<1>2. CASE UserDelete
  <2>1. UNCHANGED <<node, dying, task, draft, budget>>
    BY <1>2 DEF UserDelete
  <2>2. /\ cluster'.status = cluster.status /\ cluster'.gen = cluster.gen
        /\ cluster'.replicas = cluster.replicas /\ cluster'.pool = cluster.pool
        /\ \/ cluster.life = "new" /\ cluster'.life = "absent"
           \/ cluster.life = "finalized" /\ cluster'.life = "terminating"
    BY <1>0, <1>2 DEF UserDelete, Clusters
  <2>3. Existing' = Existing
    BY <2>1 DEF Existing
  <2>4. DraftInv'
    BY <1>0, <2>1, <2>2, SameNewStatus, SameWritten DEF DraftInv
  <2>5. LifeInv'
    <3>1. cluster.life = "new" => draft[0] = NoDraft /\ Existing = {}
      BY <1>0, CalmFacts DEF LifeInv, NodesInv, Updates
    <3> QED BY <1>0, <2>1, <2>2, <2>3, <3>1 DEF LifeInv, Count
  <2>6. BudgetInv' /\ SnapshotInv' /\ DyingInv'
    BY <1>0, <2>1, <2>2 DEF BudgetInv, SnapshotInv, DyingInv, Count
  <2>7. PhaseInv' /\ NodesInv'
    BY <1>0, <2>1, <2>2, <2>3 DEF PhaseInv, NodesInv, Count, Phase
  <2> QED BY <2>4, <2>5, <2>6, <2>7 DEF CalmInv
<1>3. ASSUME NEW n \in Numbers, NodeStarts(n) PROVE CalmInv'
  <2>1. UNCHANGED <<cluster, dying, task, draft, budget>>
    BY <1>3 DEF NodeStarts
  <2>2. /\ node[n] \in {"new", "starting"} /\ node'[n] \in {"starting", "up"}
        /\ \A m \in Numbers : m # n => node'[m] = node[m]
    BY <1>0, <1>3 DEF NodeStarts, Nodes
  <2>3. Existing' = Existing
    BY <2>2 DEF Existing
  <2>4. DraftInv'
    BY <1>0, <2>1, SameNewStatus, SameWritten DEF DraftInv
  <2>5. DyingInv'
    BY <1>0, <2>1, <2>2 DEF DyingInv
  <2>6. NodesInv'
    BY <1>0, <2>1, <2>2, <2>3 DEF NodesInv, Count, Phase
  <2> QED BY <1>0, <2>1, <2>3, <2>4, <2>5, <2>6
          DEF CalmInv, BudgetInv, LifeInv, SnapshotInv, PhaseInv, Count, Phase
<1>4. ASSUME NEW n \in Numbers, UserKill(n) PROVE CalmInv'
  BY <1>0, <1>4 DEF UserKill, BudgetInv
<1>5. ASSUME NEW n \in Numbers, CollectGarbage(n) PROVE CalmInv'
  <2>1. n \in Existing /\ cluster.life = "absent"
    BY <1>5 DEF CollectGarbage, Existing, Exists, Alive
  <2> QED BY <1>0, <2>1 DEF LifeInv
<1> QED BY <1>1, <1>2, <1>3, <1>4, <1>5

\* The steps of Hoprd::delete: the node that the task waits for goes step by step, and is subtracted once.
LEMMA CalmDeletion ==
  ASSUME Calm, Typed, CalmInv, Typed', NEW n \in Numbers, Deletion(n)
  PROVE  CalmInv'
<1>0. /\ BudgetInv /\ LifeInv /\ SnapshotInv /\ PhaseInv /\ NodesInv /\ DyingInv /\ DraftInv
      /\ cluster \in Clusters /\ node \in Nodes /\ dying \in Dyings /\ draft \in Drafts
      /\ 0 \in 0 .. MaxNode /\ n \in 0 .. MaxNode /\ n # 0
  BY ReplicasAssumption DEF CalmInv, Typed, Numbers
<1>1. /\ node[n] = "terminating" \/ dying[n] # "no"
      /\ task' = task
    BY CalmFacts DEF Deletion, node_delete, notify_deletion_to_cluster, node_deleted, node_delete_finalizer,
                     update_status_get
<1>2. /\ task.pc \in {"gone", "gone_next"} /\ task.node = n /\ node[n] = "terminating"
      /\ \A m \in Numbers : m # n => node[m] # "terminating" /\ dying[m] = "no" /\ draft[m] = NoDraft
      /\ draft[0] = NoDraft
  BY <1>0, <1>1, CalmFacts DEF DyingInv, Updates
<1>3. cluster.life # "absent" /\ n \in Existing
  BY <1>0, <1>2 DEF LifeInv, Existing
<1>4. \A w \in 0 .. MaxNode : w = 0 \/ w \in Numbers
  BY ReplicasAssumption DEF Numbers
<1>5. CASE node_delete(n)
  <2>1. /\ dying[n] = "no" /\ dying'[n] = "notify" /\ UNCHANGED <<cluster, node, task, draft, budget>>
        /\ \A m \in Numbers : m # n => dying'[m] = dying[m]
    BY <1>0, <1>5 DEF node_delete, Leave, Dyings
  <2>2. DraftInv'
    BY <1>2, <1>4, <2>1, CalmFacts, NoDraftsInv
  <2>3. Existing' = Existing
    BY <2>1 DEF Existing
  <2>4. DyingInv' /\ NodesInv'
    BY <1>0, <1>2, <1>3, <2>1, <2>3 DEF DyingInv, NodesInv, Count, Phase
  <2> QED BY <1>0, <2>1, <2>2, <2>3, <2>4
          DEF CalmInv, BudgetInv, LifeInv, SnapshotInv, PhaseInv, Count, Phase
<1>6. CASE notify_deletion_to_cluster(n)
  <2>1. /\ dying[n] = "notify" /\ UNCHANGED <<cluster, node, task, draft, budget>>
        /\ \/ dying'[n] = "update" /\ Phase # "Deleting"
           \/ dying'[n] = "unfinalize" /\ Phase = "Deleting"
        /\ \A m \in Numbers : m # n => dying'[m] = dying[m]
    BY <1>0, <1>3, <1>6, CalmFacts DEF notify_deletion_to_cluster, Leave, Dyings, Exists, Phase
  <2>2. DraftInv'
    BY <1>2, <1>4, <2>1, CalmFacts, NoDraftsInv
  <2>3. Existing' = Existing
    BY <2>1 DEF Existing
  <2>4. DyingInv' /\ NodesInv'
    BY <1>0, <1>2, <1>3, <2>1, <2>3 DEF DyingInv, NodesInv, PhaseInv, Count, Phase
  <2> QED BY <1>0, <2>1, <2>2, <2>3, <2>4
          DEF CalmInv, BudgetInv, LifeInv, SnapshotInv, PhaseInv, Count, Phase
<1>7. CASE node_deleted(n) /\ update_status_get(n, "NodeDeleted")
  <2>1. /\ dying[n] = "update" /\ draft'[n] = NewStatus("NodeDeleted")
        /\ UNCHANGED <<cluster, node, dying, task, budget>>
        /\ \A w \in 0 .. MaxNode : w # n => draft'[w] = draft[w]
    BY <1>0, <1>7, CalmFacts DEF node_deleted, update_status_get, Drafts
  <2>2. \A ph : NewStatus(ph)' = NewStatus(ph)
    BY <2>1, SameNewStatus
  <2>3. DraftInv'
    BY <1>0, <1>2, <1>4, <2>1, <2>2 DEF DraftInv, Numbers
  <2>4. Existing' = Existing
    BY <2>1 DEF Existing
  <2>5. LifeInv'
    BY <1>0, <1>3, <2>1, <2>4 DEF LifeInv, Count
  <2> QED BY <1>0, <2>1, <2>3, <2>4, <2>5
          DEF CalmInv, BudgetInv, SnapshotInv, PhaseInv, DyingInv, NodesInv, Count, Phase
<1>8. CASE node_deleted(n) /\ update_status_patch(n, "NodeDeleted") /\ Leave(n, "unfinalize") /\ UNCHANGED <<node, task>>
  <2>1. /\ dying[n] = "update" /\ dying'[n] = "unfinalize" /\ draft[n] # NoDraft /\ draft'[n] = NoDraft
        /\ UNCHANGED <<node, task, budget>> /\ cluster' = [cluster EXCEPT !.status = draft[n]]
        /\ \A w \in 0 .. MaxNode : w # n => draft'[w] = draft[w]
        /\ \A m \in Numbers : m # n => dying'[m] = dying[m]
    BY <1>0, <1>3, <1>8, CalmFacts DEF node_deleted, update_status_patch, Leave, Drafts, Dyings, Exists
  <2>2. draft[n] = NewStatus("NodeDeleted")
    BY <1>0, <2>1 DEF DraftInv
  <2>3. /\ cluster'.life = cluster.life /\ cluster'.replicas = cluster.replicas /\ cluster'.pool = cluster.pool
        /\ cluster'.status = NewStatus("NodeDeleted")
    BY <1>0, <2>1, <2>2 DEF Clusters
  <2>4. task.pc = "gone" /\ Count = n /\ Existing = 1 .. n /\ n > 0 /\ n \in Nat
    BY <1>0, <1>2, <1>3, <2>1 DEF NodesInv, Numbers
  <2>5. /\ Count' = Count - 1 /\ Phase' \in {"Ready", "NotScaled"}
    <3>1. LET t == NewStatus("NodeDeleted") IN t.current = Count - 1 /\ t.phase \in {"Ready", "NotScaled"}
      BY <1>0, <2>4, NewStatusFields DEF Count
    <3> QED BY <2>3, <3>1 DEF Count, Phase
  <2>6. DraftInv'
    BY <1>2, <1>4, <2>1, CalmFacts, NoDraftsInv
  <2>7. Existing' = Existing
    BY <2>1 DEF Existing
  <2>8. NodesInv'
    BY <1>0, <1>2, <2>1, <2>3, <2>4, <2>5, <2>7 DEF NodesInv
  <2>9. DyingInv' /\ BudgetInv'
    BY <1>0, <1>2, <2>1 DEF DyingInv, BudgetInv
  <2>10. LifeInv' /\ PhaseInv'
    BY <1>0, <1>3, <2>1, <2>3, <2>4, <2>5 DEF LifeInv, PhaseInv
  <2>11. SnapshotInv'
    BY <1>0, <2>1, <2>3, <2>4 DEF SnapshotInv
  <2> QED BY <2>6, <2>8, <2>9, <2>10, <2>11 DEF CalmInv
<1>9. CASE node_delete_finalizer(n)
  <2>1. /\ dying[n] = "unfinalize" /\ dying'[n] = "no" /\ node'[n] = "absent"
        /\ UNCHANGED <<cluster, task, draft, budget>>
        /\ \A m \in Numbers : m # n => dying'[m] = dying[m] /\ node'[m] = node[m]
    BY <1>0, <1>9, CalmFacts DEF node_delete_finalizer, Leave, Dyings, Nodes
  <2>2. DraftInv'
    BY <1>2, <1>4, <2>1, CalmFacts, NoDraftsInv
  <2>3. Existing' = Existing \ {n}
    BY <2>1 DEF Existing
  <2>4. n \in Nat /\ n > 0 /\ (1 .. n) \ {n} = 1 .. (n - 1)
    BY ReplicasAssumption DEF Numbers
  <2>5. NodesInv'
    BY <1>0, <1>2, <1>3, <2>1, <2>3, <2>4 DEF NodesInv, Count, Phase
  <2>6. DyingInv'
    BY <1>0, <1>2, <2>1 DEF DyingInv
  <2> QED BY <1>0, <1>3, <2>1, <2>2, <2>5, <2>6
          DEF CalmInv, BudgetInv, LifeInv, SnapshotInv, PhaseInv, Count, Phase
<1> QED BY <1>5, <1>6, <1>7, <1>8, <1>9 DEF Deletion, node_deleted

\* update_status of the task: the read, and the patch of what it has computed.
LEMMA UpdateStep ==
  ASSUME Typed, CalmInv, update_status
  PROVE  /\ task.pc \in Updates /\ cluster.life # "absent" /\ UNCHANGED <<node, dying, budget>>
         /\ \A n \in Numbers : draft'[n] = NoDraft
         /\ \/ draft'[0] = NewStatus(Written) /\ UNCHANGED <<cluster, task>>
            \/ /\ draft'[0] = NoDraft /\ cluster' = [cluster EXCEPT !.status = NewStatus(Written)]
               /\ IF AfterUpdate[task.pc] = "idle" THEN End ELSE Goto(AfterUpdate[task.pc])
<1>0. /\ task.pc \in Updates /\ cluster \in Clusters /\ draft \in Drafts /\ 0 \in 0 .. MaxNode
      /\ \A n \in Numbers : n # 0 /\ n \in 0 .. MaxNode
  BY UpdateSteps, ReplicasAssumption DEF update_status, Typed, Numbers
<1>1. \A n \in Numbers : draft[n] = NoDraft
  BY <1>0, CalmFacts DEF Updates
<1>2. CASE update_status_get(0, Written)
  BY <1>0, <1>1, <1>2, CalmFacts DEF update_status_get, Exists, Drafts
<1>3. CASE /\ update_status_patch(0, Written)
           /\ IF AfterUpdate[task.pc] = "idle" THEN End ELSE Goto(AfterUpdate[task.pc])
           /\ UNCHANGED <<node, dying>>
  <2>1. draft[0] # NoDraft /\ draft[0] = NewStatus(Written) /\ cluster.life # "absent"
    BY <1>3 DEF CalmInv, DraftInv, LifeInv, update_status_patch
  <2>2. draft'[0] = NoDraft /\ \A n \in Numbers : draft'[n] = draft[n]
    BY <1>0, <1>3 DEF update_status_patch, Drafts
  <2>3. cluster' = [cluster EXCEPT !.status = NewStatus(Written)] /\ UNCHANGED budget
    BY <1>3, <2>1, CalmFacts DEF update_status_patch, Exists
  <2> QED BY <1>0, <1>1, <1>3, <2>1, <2>2, <2>3
<1> QED BY <1>2, <1>3 DEF update_status

\* The calls of update_status: the status that is written agrees with the nodes and with the step.
LEMMA CalmUpdate ==
  ASSUME Calm, Typed, CalmInv, Typed', update_status
  PROVE  CalmInv'
<1>0. /\ BudgetInv /\ LifeInv /\ SnapshotInv /\ PhaseInv /\ NodesInv /\ DyingInv /\ DraftInv
      /\ cluster \in Clusters /\ task \in Tasks
      /\ Count \in Nat /\ cluster.replicas \in Nat /\ task.self.current \in Nat
  BY CalmFacts DEF CalmInv, Typed, Tasks, Selves
<1>1. /\ task.pc \in Updates /\ cluster.life # "absent" /\ UNCHANGED <<node, dying, budget>>
      /\ \A n \in Numbers : draft'[n] = NoDraft
  BY UpdateStep
<1>2. Existing' = Existing /\ BudgetInv'
  BY <1>0, <1>1 DEF Existing, BudgetInv
<1>3. CASE draft'[0] = NewStatus(Written) /\ UNCHANGED <<cluster, task>>
  <2>1. DraftInv'
    BY <1>1, <1>3, SameNewStatus, SameWritten DEF DraftInv
  <2>2. LifeInv'
    BY <1>0, <1>1, <1>2, <1>3 DEF LifeInv, Count
  <2> QED BY <1>0, <1>1, <1>2, <1>3, <2>1, <2>2
          DEF CalmInv, SnapshotInv, PhaseInv, DyingInv, NodesInv, Count, Phase
<1>4. CASE /\ draft'[0] = NoDraft /\ cluster' = [cluster EXCEPT !.status = NewStatus(Written)]
           /\ IF AfterUpdate[task.pc] = "idle" THEN End ELSE Goto(AfterUpdate[task.pc])
  <2>1. DraftInv'
    BY <1>1, <1>4 DEF DraftInv
  <2>2. /\ cluster'.life = cluster.life /\ cluster'.replicas = cluster.replicas /\ cluster'.pool = cluster.pool
        /\ cluster'.status = NewStatus(Written)
    BY <1>0, <1>4 DEF Clusters
  <2>3. /\ Count' = IF task.pc = "counted" THEN Count + 1 ELSE Count
        /\ task.pc # "counted" => Phase' = Written
        /\ task.pc = "counted" => Phase' \in {"Ready", "NotScaled"}
    <3>1. Written = "NodeCreated" <=> task.pc = "counted"
      BY <1>1, UpdateTable DEF Scale
    <3>2. Written # "NodeDeleted"
      BY WrittenIn
    <3>3. LET s == NewStatus(Written) IN
          /\ s.current = IF task.pc = "counted" THEN Count + 1 ELSE Count
          /\ task.pc # "counted" => s.phase = Written
          /\ task.pc = "counted" => s.phase \in {"Ready", "NotScaled"}
      BY <1>0, <3>1, <3>2, WrittenIn, NewStatusFields DEF Count
    <3> QED BY <2>2, <3>3 DEF Count, Phase
  <2>4. AfterUpdate[task.pc] \in AllSteps
    BY <1>1, AfterUpdateIn DEF AllSteps, Updates
  <2>5. task'.pc = AfterUpdate[task.pc] /\ task'.self = task.self
    BY <1>0, <1>4, <2>4, GotoTyped, EndTyped DEF End
  <2>6. LifeInv'
    BY <1>0, <1>1, <2>2, <2>3, <2>5, UpdateTable DEF LifeInv
  <2>7. SnapshotInv'
    BY <1>0, <1>1, <2>2, <2>3, <2>5, UpdateTable DEF SnapshotInv
  <2>8. PhaseInv'
    BY <1>0, <1>1, <2>2, <2>3, <2>5, UpdateTable DEF PhaseInv, Scale
  <2>9. NodesInv'
    BY <1>0, <1>1, <1>2, <2>2, <2>3, <2>5, UpdateTable DEF NodesInv
  <2>10. DyingInv'
    BY <1>0, <1>1, <2>5, UpdateTable DEF DyingInv
  <2> QED BY <1>2, <2>1, <2>6, <2>7, <2>8, <2>9, <2>10 DEF CalmInv
<1> QED BY <1>3, <1>4, UpdateStep

\* The steps that leave the nodes and the statuses under way alone.
LEMMA CalmMoves ==
  ASSUME Calm, Typed, CalmInv, Typed',
         \/ reconciler \/ add_finalizer \/ appply_modification \/ update_last_configuration
         \/ await_node \/ await_deleted \/ delete_finalizer
  PROVE  CalmInv'
<1>0. /\ BudgetInv /\ LifeInv /\ SnapshotInv /\ PhaseInv /\ NodesInv /\ DyingInv /\ DraftInv
      /\ cluster \in Clusters /\ task \in Tasks /\ Count \in Nat
      /\ "init" \in AllSteps /\ "modified" \in AllSteps /\ "counted" \in AllSteps
  BY CalmFacts DEF CalmInv, Typed, AllSteps, Updates
<1>1. UNCHANGED <<node, dying, draft, budget>> /\ task.pc \notin Updates
  BY CalmFacts DEF reconciler, add_finalizer, appply_modification, update_last_configuration, await_node,
                   await_deleted, delete_finalizer, Updates
<1>2. Existing' = Existing /\ BudgetInv'
  BY <1>0, <1>1 DEF Existing, BudgetInv
<1>3. DraftInv'
  <2>1. draft[0] = NoDraft
    BY <1>1, CalmFacts
  <2>2. await_deleted => \A n \in Numbers : dying[n] # "update"
    BY <1>0 DEF await_deleted, DyingInv
  <2>3. ~await_deleted => task.pc # "gone"
    BY DEF reconciler, add_finalizer, appply_modification, update_last_configuration, await_node,
           delete_finalizer
  <2>4. \A n \in Numbers : draft[n] = NoDraft
    BY <2>2, <2>3, CalmFacts
  <2> QED BY <1>1, <2>1, <2>4 DEF DraftInv
<1>4. CASE reconciler
  <2>1. /\ task.pc = "idle" /\ cluster.life # "absent" /\ cluster' = cluster
        /\ first_step(cluster) # "idle" /\ task' = [Idle(Snapshot(cluster)) EXCEPT !.pc = first_step(cluster)]
    BY <1>4, CalmFacts DEF reconciler, Exists
  <2>2. first_step(cluster) \in {"finalizer", "recover", "reject", "immutable", "apply", "deleting", "scaling"}
    BY <2>1, FirstSteps
  <2>3. /\ first_step(cluster) = "finalizer" => cluster.life = "new"
        /\ first_step(cluster) = "deleting" => cluster.life = "terminating"
        /\ cluster.life = "new" => first_step(cluster) = "finalizer"
    BY DEF first_step, determine_action, modify_branch
  <2>4. first_step(cluster) \in AllSteps
    BY <2>2 DEF AllSteps, Updates
  <2>5. /\ task'.pc = first_step(cluster) /\ task'.self.replicas = cluster.replicas
        /\ task'.self.current = Count /\ task'.self.pool = cluster.pool
    BY <1>0, <2>1, <2>4, SnapshotTyped DEF Count
  <2>6. LifeInv'
    BY <1>0, <1>1, <1>2, <2>1, <2>2, <2>3, <2>5 DEF LifeInv, Count
  <2>7. SnapshotInv' /\ PhaseInv' /\ DyingInv'
    BY <1>0, <1>1, <2>1, <2>2, <2>5 DEF SnapshotInv, PhaseInv, DyingInv, Count, Phase
  <2>8. NodesInv'
    BY <1>0, <1>1, <1>2, <2>1, <2>2, <2>5 DEF NodesInv, Count
  <2> QED BY <1>2, <1>3, <2>6, <2>7, <2>8 DEF CalmInv
<1>5. CASE add_finalizer
  <2>1. /\ task.pc = "finalizer" /\ task'.pc = "init" /\ task'.self = task.self
        /\ cluster' = [cluster EXCEPT !.life = IF @ = "new" THEN "finalized" ELSE @]
    BY <1>0, <1>5, CalmFacts, GotoTyped DEF add_finalizer
  <2>2. /\ cluster'.status = cluster.status /\ cluster'.replicas = cluster.replicas /\ cluster'.pool = cluster.pool
        /\ cluster'.life = IF cluster.life = "new" THEN "finalized" ELSE cluster.life
    BY <1>0, <2>1 DEF Clusters
  <2>3. Count' = Count /\ Phase' = Phase
    BY <2>2 DEF Count, Phase
  <2>4. LifeInv'
    BY <1>0, <1>1, <1>2, <2>1, <2>2, <2>3 DEF LifeInv
  <2>5. SnapshotInv' /\ PhaseInv' /\ DyingInv'
    BY <1>0, <1>1, <2>1, <2>2, <2>3 DEF SnapshotInv, PhaseInv, DyingInv
  <2>6. NodesInv'
    BY <1>0, <1>1, <1>2, <2>1, <2>2, <2>3 DEF NodesInv
  <2> QED BY <1>2, <1>3, <2>4, <2>5, <2>6 DEF CalmInv
<1>6. CASE appply_modification
  <2>1. task.pc = "apply" /\ task'.pc = "modified" /\ task'.self = task.self /\ cluster' = cluster
    BY <1>0, <1>6, CalmFacts, GotoTyped DEF appply_modification
  <2>2. LifeInv' /\ SnapshotInv' /\ PhaseInv' /\ DyingInv'
    BY <1>0, <1>1, <1>2, <2>1 DEF LifeInv, SnapshotInv, PhaseInv, DyingInv, Count, Phase
  <2>3. NodesInv'
    BY <1>0, <1>1, <1>2, <2>1 DEF NodesInv, Count
  <2> QED BY <1>2, <1>3, <2>2, <2>3 DEF CalmInv
<1>7. CASE update_last_configuration
  <2>1. /\ task.pc = "annotate" /\ task'.pc = "idle"
        /\ cluster' = (IF Exists THEN [cluster EXCEPT !.last = task.self.pool] ELSE cluster)
    BY <1>0, <1>7, CalmFacts, EndTyped DEF update_last_configuration, End
  <2>2. cluster'.status = cluster.status /\ cluster'.life = cluster.life
    BY <1>0, <2>1 DEF Clusters
  <2>3. Count' = Count /\ Phase' = Phase
    BY <2>2 DEF Count, Phase
  <2>4. LifeInv' /\ SnapshotInv' /\ PhaseInv' /\ DyingInv'
    BY <1>0, <1>1, <1>2, <2>1, <2>2, <2>3 DEF LifeInv, SnapshotInv, PhaseInv, DyingInv
  <2>5. NodesInv'
    BY <1>0, <1>1, <1>2, <2>1, <2>2, <2>3 DEF NodesInv
  <2> QED BY <1>2, <1>3, <2>4, <2>5 DEF CalmInv
<1>8. CASE await_node
  <2>1. task.pc = "await" /\ cluster.life # "absent" /\ Existing = 1 .. (Count + 1) /\ task.node = Count + 1
    BY <1>0, <1>8 DEF await_node, LifeInv, NodesInv
  <2>2. task.node \in Numbers /\ node[task.node] # "absent" /\ node[task.node] # "terminating"
    BY <1>0, <2>1 DEF Existing, DyingInv
  <2>3. /\ node[task.node] = "up" /\ cluster' = cluster
        /\ task'.pc = "counted" /\ task'.self = task.self /\ task'.node = task.node
    BY <1>0, <1>8, <2>2, CalmFacts, GotoTyped DEF await_node, Calm
  <2>4. LifeInv' /\ SnapshotInv' /\ PhaseInv' /\ DyingInv'
    BY <1>0, <1>1, <1>2, <2>1, <2>3 DEF LifeInv, SnapshotInv, PhaseInv, DyingInv, Count, Phase
  <2>5. NodesInv'
    BY <1>0, <1>1, <1>2, <2>1, <2>3 DEF NodesInv, Count
  <2> QED BY <1>2, <1>3, <2>4, <2>5 DEF CalmInv
<1>9. CASE await_deleted
  <2>1. task.pc = "gone" /\ node[task.node] = "absent" /\ cluster' = cluster /\ task'.pc = "idle"
    BY <1>0, <1>9, EndTyped DEF await_deleted, End
  <2>2. cluster.life # "absent" => Existing = 1 .. Count /\ Phase \in {"Ready", "NotScaled"}
    BY <1>0, <2>1 DEF NodesInv
  <2>3. cluster.life # "absent"
    BY <1>0, <2>1 DEF LifeInv
  <2>4. LifeInv' /\ SnapshotInv' /\ PhaseInv' /\ DyingInv'
    BY <1>0, <1>1, <1>2, <2>1, <2>2, <2>3 DEF LifeInv, SnapshotInv, PhaseInv, DyingInv, Count, Phase
  <2>5. NodesInv'
    BY <1>0, <1>1, <1>2, <2>1, <2>2, <2>3 DEF NodesInv, Count
  <2> QED BY <1>2, <1>3, <2>4, <2>5 DEF CalmInv
<1>10. CASE delete_finalizer
  <2>1. /\ task.pc = "unfinalize" /\ task'.pc = "idle" /\ cluster' = [cluster EXCEPT !.life = "absent"]
    BY <1>0, <1>10, CalmFacts, EndTyped DEF delete_finalizer, End
  <2>2. cluster'.status = cluster.status /\ cluster'.life = "absent" /\ cluster.life = "terminating"
    BY <1>0, <2>1 DEF Clusters, LifeInv
  <2>3. Existing = {} /\ draft'[0] = NoDraft
    BY <1>0, <1>1, <2>1, <2>2, CalmFacts DEF NodesInv
  <2>4. LifeInv' /\ SnapshotInv' /\ PhaseInv' /\ DyingInv' /\ NodesInv'
    BY <1>0, <1>1, <1>2, <2>1, <2>2, <2>3
    DEF LifeInv, SnapshotInv, PhaseInv, DyingInv, NodesInv, Count, Phase
  <2> QED BY <1>2, <1>3, <2>4 DEF CalmInv
<1> QED BY <1>4, <1>5, <1>6, <1>7, <1>8, <1>9, <1>10

\* The steps that create and delete a node: the one after the last, the last, and each of them.
LEMMA CalmNodes ==
  ASSUME Calm, Typed, CalmInv, Typed', create_node \/ create_hoprd_resource \/ delete_node \/ erase_node \/ delete_nodes
  PROVE  CalmInv'
<1>0. /\ BudgetInv /\ LifeInv /\ SnapshotInv /\ PhaseInv /\ NodesInv /\ DyingInv /\ DraftInv
      /\ task \in Tasks /\ node \in Nodes /\ Count \in Nat /\ cluster.replicas \in Nat
      /\ {"post", "await", "erase", "gone", "next", "gone_next", "unfinalize"} \subseteq AllSteps
      /\ Existing \in SUBSET Numbers /\ Numbers \subseteq 0 .. MaxNode
  BY CalmFacts, ReplicasAssumption DEF CalmInv, Typed, AllSteps, Existing, Numbers
<1>1. /\ UNCHANGED <<cluster, dying, draft, budget>>
      /\ task.pc \in {"create", "post", "remove", "erase", "list", "next", "gone_next"}
  BY CalmFacts DEF create_node, create_hoprd_resource, delete_node, erase_node, delete_nodes
<1>2. cluster.life # "absent" /\ DraftInv' /\ BudgetInv'
  BY <1>0, <1>1, CalmFacts, NoDraftsInv DEF LifeInv, BudgetInv, Updates
<1>3. Count' = Count /\ Phase' = Phase
  BY <1>1 DEF Count, Phase
<1>4. CASE create_node
  <2>1. task.pc = "create" /\ Existing = 1 .. Count
    BY <1>0, <1>2, <1>4 DEF create_node, NodesInv
  <2>2. get_next_free_node(Existing) = Count + 1
    BY <1>0, <2>1, NextAfterLast
  <2>3. /\ Count + 1 \in Numbers /\ node' = node
        /\ task' = [task EXCEPT !.pc = "post", !.node = Count + 1, !.todo = Existing]
    BY <1>4, <2>2 DEF create_node
  <2>4. task'.pc = "post" /\ task'.node = Count + 1 /\ task'.self = task.self
    BY <1>0, <2>3 DEF Tasks
  <2>5. Existing' = Existing
    BY <2>3 DEF Existing
  <2>6. DyingInv' /\ NodesInv'
    BY <1>0, <1>1, <1>2, <1>3, <2>1, <2>3, <2>4, <2>5 DEF DyingInv, NodesInv
  <2>7. LifeInv' /\ SnapshotInv' /\ PhaseInv'
    BY <1>0, <1>1, <1>2, <1>3, <2>1, <2>4 DEF LifeInv, SnapshotInv, PhaseInv
  <2> QED BY <1>2, <2>6, <2>7 DEF CalmInv
<1>7. CASE create_hoprd_resource
  <2>1. task.pc = "post" /\ Existing = 1 .. Count /\ task.node = Count + 1 /\ Count + 1 \in Numbers
    BY <1>0, <1>2, <1>7 DEF create_hoprd_resource, NodesInv
  <2>2. node' = [node EXCEPT ![Count + 1] = "new"] /\ Goto("await")
    BY <1>7, <2>1, CalmFacts DEF create_hoprd_resource
  <2>3. task'.pc = "await" /\ task'.node = Count + 1 /\ task'.self = task.self
    BY <1>0, <2>1, <2>2, GotoTyped
  <2>4. node'[Count + 1] = "new" /\ \A m \in Numbers : m # Count + 1 => node'[m] = node[m]
    BY <1>0, <2>1, <2>2 DEF Nodes
  <2>5. Existing' = 1 .. (Count + 1)
    <3>1. Existing' = Existing \cup {Count + 1}
      BY <2>1, <2>4 DEF Existing
    <3> QED BY <1>0, <2>1, <3>1
  <2>6. Count + 1 \notin Existing
    BY <1>0, <2>1
  <2>7. dying[Count + 1] = "no"
    BY <1>0, <2>1, <2>6 DEF DyingInv, Existing
  <2>8. DyingInv'
    BY <1>0, <1>1, <2>1, <2>3, <2>4, <2>7 DEF DyingInv
  <2>9. LifeInv' /\ SnapshotInv' /\ PhaseInv' /\ NodesInv'
    BY <1>0, <1>1, <1>2, <1>3, <2>1, <2>3, <2>5 DEF LifeInv, SnapshotInv, PhaseInv, NodesInv
  <2> QED BY <1>2, <2>8, <2>9 DEF CalmInv
<1>5. CASE delete_node
  <2>1. task.pc = "remove" /\ Existing = 1 .. Count /\ task.self.current = Count /\ Count > cluster.replicas
    BY <1>0, <1>2, <1>5 DEF delete_node, NodesInv, SnapshotInv
  <2>2. Count \in Existing /\ Count \in 0 .. MaxNode
    BY <1>0, <2>1
  <2>3. node' = node /\ task' = [task EXCEPT !.pc = "erase", !.node = Count]
    BY <1>5, <2>1, <2>2 DEF delete_node
  <2>4. task'.pc = "erase" /\ task'.node = Count /\ task'.self = task.self
    BY <1>0, <2>2, <2>3 DEF Tasks
  <2>5. Existing' = Existing
    BY <2>3 DEF Existing
  <2>6. DyingInv' /\ NodesInv'
    BY <1>0, <1>1, <1>2, <1>3, <2>1, <2>3, <2>4, <2>5 DEF DyingInv, NodesInv
  <2>7. LifeInv' /\ SnapshotInv' /\ PhaseInv'
    BY <1>0, <1>1, <1>2, <1>3, <2>1, <2>4 DEF LifeInv, SnapshotInv, PhaseInv
  <2> QED BY <1>2, <2>6, <2>7 DEF CalmInv
<1>8. CASE erase_node
  <2>1. task.pc = "erase" /\ Existing = 1 .. Count /\ task.node = Count /\ Count > cluster.replicas
    BY <1>0, <1>2, <1>8 DEF erase_node, NodesInv, SnapshotInv
  <2>2. Count \in Existing /\ Count \in Numbers
    BY <1>0, <2>1
  <2>3. Deleted(Count) /\ Goto("gone")
    BY <1>8, <2>1, CalmFacts DEF erase_node
  <2>4. task'.pc = "gone" /\ task'.node = Count /\ task'.self = task.self
    BY <1>0, <2>1, <2>3, GotoTyped
  <2>5. node[Count] # "new" /\ dying[Count] = "no"
    BY <1>0, <2>1, <2>2 DEF DyingInv
  <2>6. node'[Count] = "terminating" /\ \A m \in Numbers : m # Count => node'[m] = node[m]
    BY <1>0, <2>2, <2>3, <2>5, DeletedTyped
  <2>7. Existing' = Existing
    BY <2>2, <2>6 DEF Existing
  <2>8. DyingInv'
    BY <1>0, <1>1, <2>1, <2>4, <2>5, <2>6 DEF DyingInv
  <2>9. NodesInv'
    BY <1>1, <1>3, <2>1, <2>2, <2>4, <2>5, <2>6, <2>7 DEF NodesInv
  <2>10. LifeInv' /\ SnapshotInv' /\ PhaseInv'
    BY <1>0, <1>1, <1>2, <1>3, <2>1, <2>4 DEF LifeInv, SnapshotInv, PhaseInv
  <2> QED BY <1>2, <2>8, <2>9, <2>10 DEF CalmInv
<1>6. CASE delete_nodes
  <2>1. CASE task.pc = "list"
    <3>1. task' = [task EXCEPT !.pc = "next", !.todo = Existing] /\ node' = node
      BY <1>6, <2>1 DEF delete_nodes
    <3>2. task'.pc = "next" /\ task'.todo = Existing /\ task'.self = task.self
      BY <1>0, <3>1 DEF Tasks
    <3>3. Existing' = Existing
      BY <3>1 DEF Existing
    <3>4. DyingInv' /\ NodesInv'
      BY <1>0, <1>1, <2>1, <3>1, <3>2, <3>3 DEF DyingInv, NodesInv
    <3>5. LifeInv' /\ SnapshotInv' /\ PhaseInv'
      BY <1>0, <1>1, <1>2, <1>3, <2>1, <3>2 DEF LifeInv, SnapshotInv, PhaseInv
    <3> QED BY <1>2, <3>4, <3>5 DEF CalmInv
  <2>2. CASE task.pc = "next"
    <3>1. Existing = task.todo
      BY <1>0, <1>2, <2>2 DEF NodesInv
    <3>2. ASSUME NEW n \in task.todo, Deleted(n),
                 task' = [task EXCEPT !.pc = "gone_next", !.node = n, !.todo = @ \ {n}]
          PROVE  CalmInv'
      <4>1. n \in Numbers /\ n \in Existing
        BY <1>0, <3>1, <3>2
      <4>2. /\ task'.pc = "gone_next" /\ task'.node = n /\ task'.self = task.self
            /\ task'.todo = task.todo \ {n}
        BY <1>0, <3>2, <4>1 DEF Tasks
      <4>3. node[n] # "new" /\ dying[n] = "no"
        BY <1>0, <2>2, <4>1 DEF DyingInv
      <4>4. node'[n] = "terminating" /\ \A m \in Numbers : m # n => node'[m] = node[m]
        BY <1>0, <3>2, <4>1, <4>3, DeletedTyped
      <4>5. Existing' = Existing
        BY <4>1, <4>4 DEF Existing
      <4>6. DyingInv' /\ NodesInv'
        BY <1>0, <1>1, <2>2, <3>1, <4>1, <4>2, <4>3, <4>4, <4>5 DEF DyingInv, NodesInv
      <4>7. LifeInv' /\ SnapshotInv' /\ PhaseInv'
        BY <1>0, <1>1, <1>2, <1>3, <2>2, <4>2 DEF LifeInv, SnapshotInv, PhaseInv
      <4> QED BY <1>2, <4>6, <4>7 DEF CalmInv
    <3>3. ASSUME task.todo = {}, Goto("unfinalize"), UNCHANGED node PROVE CalmInv'
      <4>1. task'.pc = "unfinalize" /\ task'.self = task.self
        BY <1>0, <3>3, GotoTyped
      <4>2. Existing' = {}
        BY <3>1, <3>3 DEF Existing
      <4>3. DyingInv' /\ NodesInv'
        BY <1>0, <1>1, <2>2, <3>3, <4>1, <4>2 DEF DyingInv, NodesInv
      <4>4. LifeInv' /\ SnapshotInv' /\ PhaseInv'
        BY <1>0, <1>1, <1>2, <1>3, <2>2, <4>1 DEF LifeInv, SnapshotInv, PhaseInv
      <4> QED BY <1>2, <4>3, <4>4 DEF CalmInv
    <3> QED BY <1>6, <2>2, <3>1, <3>2, <3>3, CalmFacts DEF delete_nodes
  <2>3. CASE task.pc = "gone_next"
    <3>1. node[task.node] = "absent" /\ Goto("next") /\ node' = node
      BY <1>6, <2>3 DEF delete_nodes
    <3>2. task'.pc = "next" /\ task'.self = task.self /\ task'.todo = task.todo
      BY <1>0, <3>1, GotoTyped
    <3>3. Existing' = Existing /\ Existing = task.todo
      BY <1>0, <1>2, <2>3, <3>1 DEF Existing, NodesInv
    <3>4. DyingInv' /\ NodesInv'
      BY <1>0, <1>1, <2>3, <3>1, <3>2, <3>3 DEF DyingInv, NodesInv
    <3>5. LifeInv' /\ SnapshotInv' /\ PhaseInv'
      BY <1>0, <1>1, <1>2, <1>3, <2>3, <3>2 DEF LifeInv, SnapshotInv, PhaseInv
    <3> QED BY <1>2, <3>4, <3>5 DEF CalmInv
  <2> QED BY <1>6, <2>1, <2>2, <2>3 DEF delete_nodes
<1> QED BY <1>4, <1>5, <1>6, <1>7, <1>8

LEMMA CalmNext == Calm /\ Typed /\ CalmInv /\ [Next]_vars => CalmInv'
<1> SUFFICES ASSUME Calm, Typed, CalmInv, [Next]_vars PROVE CalmInv'
  OBVIOUS
<1>0. Typed'
  BY TypeNext
<1>1. CASE Task
  BY <1>0, <1>1, CalmUpdate, CalmMoves, CalmNodes DEF Task
<1>2. CASE \E n \in Numbers : Deletion(n)
  BY <1>0, <1>2, CalmDeletion
<1>3. CASE UserEdit \/ UserDelete \/ \E n \in Numbers : NodeStarts(n) \/ UserKill(n) \/ CollectGarbage(n)
  BY <1>0, <1>3, CalmUsers
<1>4. CASE Crash
  BY <1>4, CalmFacts DEF Crash
<1>5. CASE UNCHANGED vars
  <2>1. UNCHANGED <<cluster, node, dying, task, draft, budget>>
    BY <1>5 DEF vars
  <2>2. Existing' = Existing /\ Count' = Count /\ Phase' = Phase
    BY <2>1 DEF Existing, Count, Phase
  <2>3. DraftInv'
    BY <2>1, SameNewStatus, SameWritten DEF CalmInv, DraftInv
  <2>4. BudgetInv' /\ LifeInv' /\ SnapshotInv' /\ PhaseInv' /\ DyingInv'
    BY <2>1, <2>2 DEF CalmInv, BudgetInv, LifeInv, SnapshotInv, PhaseInv, DyingInv
  <2>5. NodesInv'
    BY <2>1, <2>2 DEF CalmInv, NodesInv
  <2> QED BY <2>3, <2>4, <2>5 DEF CalmInv
<1> QED BY <1>1, <1>2, <1>3, <1>4, <1>5 DEF Next

-----------------------------------------------------------------------------
\* In a calm cluster the nodes, their numbers, the count, the phase and the step of the task agree.
THEOREM CalmInvariant ==
  ASSUME Calm
  PROVE  Spec => [](Typed /\ CalmInv)
<1>1. Init => Typed /\ CalmInv
  BY TypeInit, CalmInit
<1>2. Typed /\ CalmInv /\ [Next]_vars => (Typed /\ CalmInv)'
  BY TypeNext, CalmNext
<1> QED BY <1>1, <1>2, PTL DEF Spec

\* The nodes of a calm cluster are numbered without a gap, in every state.
THEOREM NumberedWithoutGap ==
  ASSUME Calm
  PROVE  Spec => []NodesContiguous
<1>1. Typed /\ CalmInv => NodesContiguous
  <2> SUFFICES ASSUME Typed, CalmInv, cluster.life = "finalized"
               PROVE  \E k \in 0..MaxNode : Existing = 1..k
    BY DEF NodesContiguous
  <2>1. \E k \in Nat : Existing = 1 .. k
    <3>1. Count \in Nat /\ Count + 1 \in Nat /\ \A m \in Numbers : m \in Nat /\ m - 1 \in Nat
      BY CalmFacts DEF Numbers
    <3>2. task.pc \notin {"next", "gone_next", "unfinalize"} /\ NodesInv
      BY DEF CalmInv, LifeInv
    <3> QED BY <3>1, <3>2 DEF NodesInv
  <2>2. PICK k \in Nat : Existing = 1 .. k
    BY <2>1
  <2>3. k \in 0 .. MaxNode
    <3>1. k = 0 \/ k \in Existing
      BY <2>2
    <3> QED BY <3>1, ReplicasAssumption DEF Existing, Numbers
  <2> QED BY <2>2, <2>3
<1> QED BY <1>1, CalmInvariant, PTL

\* In a calm cluster the operator deletes a node of a live cluster only if there are more than replicas.
THEOREM SurplusOnly ==
  ASSUME Calm
  PROVE  Spec => OnlySurplusRemoved
<1>1. Typed /\ CalmInv /\ [Next]_vars =>
        [\A n \in Numbers : cluster.life = "finalized" /\ node[n] \in Alive /\ node'[n] \notin Alive
           => Cardinality(Existing) > cluster.replicas]_vars
  <2> SUFFICES ASSUME Typed, CalmInv, Next, NEW n \in Numbers,
                      cluster.life = "finalized", node[n] \in Alive, node'[n] \notin Alive
               PROVE  Cardinality(Existing) > cluster.replicas
    BY DEF vars
  <2>0. node \in Nodes /\ Count \in Nat /\ cluster.replicas \in Nat
    BY CalmFacts DEF Typed
  <2>1. node' # node /\ ~Die
    BY CalmFacts
  <2>2. erase_node
    <3>1. ~\E m \in Numbers : NodeStarts(m)
      BY <2>0 DEF NodeStarts, Nodes, Alive
    <3>2. ~\E m \in Numbers : UserKill(m) \/ CollectGarbage(m)
      BY DEF UserKill, CollectGarbage, Exists, CalmInv, BudgetInv
    <3>3. ~\E m \in Numbers : node_delete_finalizer(m)
      <4> SUFFICES ASSUME NEW m \in Numbers, node_delete_finalizer(m) PROVE FALSE
        OBVIOUS
      <4>1. node[m] = "terminating"
        BY DEF node_delete_finalizer, CalmInv, DyingInv
      <4>2. m # n
        BY <4>1 DEF Alive
      <4> QED BY <2>0, <2>1, <4>2 DEF node_delete_finalizer, Nodes
    <3>4. ~\E m \in Numbers : node_delete(m) \/ notify_deletion_to_cluster(m) \/ node_deleted(m)
      BY <2>1 DEF node_delete, notify_deletion_to_cluster, node_deleted, update_status_get
    <3>5. ~delete_nodes
      BY DEF delete_nodes, CalmInv, LifeInv
    <3>6. ~create_node /\ ~create_hoprd_resource /\ ~delete_node
      BY <2>0, <2>1 DEF create_node, create_hoprd_resource, delete_node, Nodes, Alive
    <3>7. /\ ~reconciler /\ ~add_finalizer /\ ~update_status /\ ~appply_modification
          /\ ~update_last_configuration /\ ~await_node /\ ~await_deleted /\ ~delete_finalizer
      BY <2>1 DEF reconciler, add_finalizer, update_status, update_status_get, appply_modification,
                  update_last_configuration, await_node, await_deleted, delete_finalizer
    <3>8. ~UserEdit /\ ~UserDelete /\ ~Crash
      BY <2>1 DEF UserEdit, UserDelete, Crash
    <3> QED BY <3>1, <3>2, <3>3, <3>4, <3>5, <3>6, <3>7, <3>8 DEF Next, Task, Deletion
  <2>3. Existing = 1 .. Count /\ Count > cluster.replicas
    BY <2>2 DEF erase_node, CalmInv, NodesInv, SnapshotInv
  <2> QED BY <2>0, <2>3, CountUpTo
<1> QED BY <1>1, CalmInvariant, PTL DEF Spec, OnlySurplusRemoved

\* In a calm cluster ClusterHoprd::delete removes the finalizer only when no node is left.
THEOREM NodesGoFirst ==
  ASSUME Calm
  PROVE  Spec => RemovedTogether
<1>1. Typed /\ CalmInv /\ [Next]_vars =>
        [cluster.life = "terminating" /\ cluster'.life = "absent" => Existing = {}]_vars
  <2> SUFFICES ASSUME Typed, CalmInv, Next, cluster.life = "terminating", cluster'.life = "absent"
               PROVE  Existing = {}
    BY DEF vars
  <2>0. cluster \in Clusters /\ ~Die
    BY CalmFacts DEF Typed
  <2>1. cluster' # cluster
    OBVIOUS
  <2>2. delete_finalizer
    <3>1. ~\E m \in Numbers : NodeStarts(m) \/ UserKill(m) \/ CollectGarbage(m)
      BY <2>1 DEF NodeStarts, UserKill, CollectGarbage
    <3>2. ~\E m \in Numbers : node_delete_finalizer(m) \/ node_delete(m) \/ notify_deletion_to_cluster(m)
      BY <2>1 DEF node_delete_finalizer, node_delete, notify_deletion_to_cluster
    <3>3. ~\E m \in Numbers : node_deleted(m)
      BY <2>0, <2>1 DEF node_deleted, update_status_get, update_status_patch, Clusters
    <3>4. ~update_status
      BY <2>0, <2>1 DEF update_status, update_status_get, update_status_patch, Clusters
    <3>5. ~update_last_configuration /\ ~add_finalizer
      BY <2>0 DEF update_last_configuration, add_finalizer, Clusters
    <3>6. /\ ~reconciler /\ ~appply_modification /\ ~create_node /\ ~await_node
          /\ ~create_hoprd_resource /\ ~delete_node /\ ~erase_node /\ ~await_deleted /\ ~delete_nodes
      BY <2>0, <2>1 DEF reconciler, appply_modification, create_node, create_hoprd_resource, await_node,
                        delete_node, erase_node, await_deleted, delete_nodes
    <3>7. ~UserEdit /\ ~UserDelete /\ ~Crash
      BY <2>0 DEF UserEdit, UserDelete, Crash
    <3> QED BY <3>1, <3>2, <3>3, <3>4, <3>5, <3>6, <3>7 DEF Next, Task, Deletion
  <2> QED BY <2>2 DEF delete_finalizer, CalmInv, NodesInv
<1> QED BY <1>1, CalmInvariant, PTL DEF Spec, RemovedTogether

=============================================================================
