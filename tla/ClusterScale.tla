---------------------------- MODULE ClusterScale ----------------------------
(***************************************************************************)
(* The reconciliation of one ClusterHoprd: it creates and deletes its      *)
(* Hoprd nodes one at a time, and counts them in status.current_nodes      *)
(* (cluster_controller.rs, cluster_hoprd.rs, and the notification of       *)
(* Hoprd::delete).  Node n of the cluster is the number n.                 *)
(*                                                                         *)
(* ClusterHoprd::update_status reads the object and patches the status in  *)
(* a second call.  The task of the cluster and the deletions of its nodes  *)
(* all do so, without a lock.                                              *)
(***************************************************************************)
EXTENDS Integers, FiniteSets

CONSTANTS
  Replicas,    \* the values users give to spec.replicas
  MaxNode,     \* the largest number of a node
  Pools,       \* the values users give to spec.identity_pool_name, an immutable field
  NoPool,      \* no annotation with the last applied configuration
  Tools,       \* how users write the spec: "apply" annotates the object with it, "edit" does not
  Lossy,       \* the calls that may fail: update_status, add_finalizer, annotate, create, wait, delete,
               \* notify, delete_finalizer
  EarlyReady,  \* TRUE if wait_deployment may end before the Deployment is ready: a bookmark, a disabled node
  BusyEdits,   \* TRUE if users may edit the spec while the cluster is being reconciled
  MaxEdits,    \* how often users edit the spec
  MaxKills,    \* how often users delete a node of the cluster
  MaxCrashes,  \* how often the operator dies
  MaxFailures  \* how many calls fail

ASSUME ReplicasAssumption == MaxNode \in Nat /\ Replicas \subseteq 0..MaxNode

ASSUME PoolsAssumption == NoPool \notin Pools /\ Tools \subseteq {"apply", "edit"}

ASSUME BudgetAssumption ==
  /\ BusyEdits \in BOOLEAN /\ EarlyReady \in BOOLEAN
  /\ MaxEdits \in Nat /\ MaxKills \in Nat /\ MaxCrashes \in Nat /\ MaxFailures \in Nat

VARIABLES
  cluster,  \* the ClusterHoprd object
  node,     \* the Hoprd objects of the cluster
  dying,    \* the step of Hoprd::delete that each node is at
  task,     \* the reconciliation of the cluster
  draft,    \* the status that each update_status under way has computed; 0 is the task of the cluster
  odd,      \* history: "count" if a node was miscounted, "scale" if a task left the cluster half scaled
  budget    \* what is left of the bounds

vars == <<cluster, node, dying, task, draft, odd, budget>>

Numbers == 1..MaxNode

Existing == {n \in Numbers : node[n] # "absent"}

\* The lives of a node that nobody has deleted.
Alive == {"new", "starting", "up"}

Exists == cluster.life # "absent"

NoStatus == [phase |-> "None", observed |-> 0, current |-> 0]

NoDraft == [phase |-> "Nothing", observed |-> 0, current |-> 0]

Snapshot(c) == [replicas |-> c.replicas, current |-> c.status.current, pool |-> c.pool]

\* `todo` is the list of nodes that the task works on.
Idle(self) == [pc |-> "idle", self |-> self, node |-> 0, todo |-> {}]

\* The annotation after a user wrote the spec: that of kubectl apply, or what it was.
Annotation(tool, pool, old) == IF tool = "apply" THEN pool ELSE old

\* A ClusterHoprd is created.
Init ==
  /\ \E r \in Replicas, p \in Pools, t \in Tools :
       cluster = [life |-> "new", gen |-> 1, replicas |-> r, pool |-> p, last |-> Annotation(t, p, NoPool),
                  status |-> NoStatus]
  /\ node = [n \in Numbers |-> "absent"]
  /\ dying = [n \in Numbers |-> "no"]
  /\ task = Idle(Snapshot(cluster))
  /\ draft = [w \in 0..MaxNode |-> NoDraft]
  /\ odd = {}
  /\ budget = [edits |-> MaxEdits, kills |-> MaxKills, crashes |-> MaxCrashes, failures |-> MaxFailures]

-----------------------------------------------------------------------------
(***************************************************************************)
(* The users, and the Hoprd controller as far as the cluster sees it.      *)
(***************************************************************************)

UserEdit ==
  /\ cluster.life \in {"new", "finalized"}
  /\ budget.edits > 0
  /\ BusyEdits \/ task.pc = "idle"
  /\ budget' = [budget EXCEPT !.edits = @ - 1]
  /\ \E r \in Replicas, p \in Pools, t \in Tools :
       cluster' = [cluster EXCEPT !.replicas = r, !.pool = p, !.last = Annotation(t, p, @), !.gen = @ + 1]
  /\ UNCHANGED <<node, dying, task, draft, odd>>

UserDelete ==
  /\ \/ cluster.life = "new" /\ cluster' = [cluster EXCEPT !.life = "absent"]
     \/ cluster.life = "finalized" /\ cluster' = [cluster EXCEPT !.life = "terminating"]
  /\ UNCHANGED <<node, dying, task, draft, odd, budget>>

-----------------------------------------------------------------------------
(***************************************************************************)
(* What the properties except.  The code miscounts and gets stuck in known *)
(* ways; each of them is noted in `odd` where it happens.                  *)
(***************************************************************************)

Note(what, happens) == odd' = odd \cup (IF happens THEN {what} ELSE {})

\* The task has created the node and has not counted it.
Uncounted(n) == task.pc \in {"await", "counted"} /\ task.node = n

\* The steps of rescale after it has made the cluster Scaling, and the one of modify after it has made it
\* Ready to begin with.
Halfway == {"create", "post", "await", "counted", "settled", "remove", "erase", "check"}

\* A deleted node is subtracted unless it had no finalizer, and was added unless it is still awaited.
Miscounted(n) == IF node[n] = "new" THEN ~(task.pc = "await" /\ task.node = n) ELSE Uncounted(n)

\* A deleted node is gone at once if Hoprd::create has not given it a finalizer yet.
Deleted(n) == node' = [node EXCEPT ![n] = IF @ = "new" THEN "absent" ELSE "terminating"]

\* A user deletes a node of the cluster.
UserKill(n) ==
  /\ node[n] \in Alive
  /\ budget.kills > 0
  /\ budget' = [budget EXCEPT !.kills = @ - 1]
  /\ Deleted(n)
  /\ Note("count", Miscounted(n))
  /\ UNCHANGED <<cluster, dying, task, draft>>

\* The nodes of a cluster that is gone are deleted by their owner reference.
CollectGarbage(n) ==
  /\ ~Exists
  /\ node[n] \in Alive
  /\ Deleted(n)
  /\ UNCHANGED <<cluster, dying, task, draft, odd, budget>>

\* Hoprd::create adds the finalizer; then the Deployment of the node becomes ready.
NodeStarts(n) ==
  /\ node[n] \in {"new", "starting"}
  /\ node' = [node EXCEPT ![n] = IF @ = "new" THEN "starting" ELSE "up"]
  /\ UNCHANGED <<cluster, dying, task, draft, odd, budget>>

-----------------------------------------------------------------------------
(***************************************************************************)
(* Crashes, failures and ClusterHoprd::update_status.                      *)
(***************************************************************************)

Lose(call) ==
  /\ call \in Lossy
  /\ budget.failures > 0
  /\ budget' = [budget EXCEPT !.failures = @ - 1]

\* The process dies.  A node whose deletion was under way is in phase Deleting: nobody resumes it; nobody
\* counts a node that was awaited, and nobody goes on with a cluster that was half scaled.
Die ==
  /\ budget.crashes > 0
  /\ budget' = [budget EXCEPT !.crashes = @ - 1]
  /\ task' = Idle(task.self)
  /\ draft' = [w \in 0..MaxNode |-> NoDraft]
  /\ dying' = [n \in Numbers |-> IF dying[n] = "no" THEN "no" ELSE "wedged"]
  /\ odd' = odd \cup (IF task.pc \in {"await", "counted"} THEN {"count"} ELSE {})
               \cup (IF task.pc \in Halfway THEN {"scale"} ELSE {})
  /\ UNCHANGED <<cluster, node>>

\* Mutant: a deleted node is not subtracted.
NewStatus_growing(phase) ==
  LET n == cluster.status.current + (IF phase = "NodeCreated" THEN 1 ELSE 0)
  IN [observed |-> cluster.gen, current |-> n,
      phase |-> IF phase \notin {"NodeCreated", "NodeDeleted"} THEN phase
                ELSE IF n = cluster.replicas THEN "Ready" ELSE "NotScaled"]

\* The status that update_status(phase) computes from the object it has just read.
NewStatus(phase) ==
  LET n == CASE phase = "NodeCreated" -> cluster.status.current + 1
             [] phase = "NodeDeleted" -> IF cluster.status.current > 0 THEN cluster.status.current - 1 ELSE 0
             [] OTHER                 -> cluster.status.current
  IN [observed |-> cluster.gen, current |-> n,
      phase |-> IF phase \notin {"NodeCreated", "NodeDeleted"} THEN phase
                ELSE IF n = cluster.replicas THEN "Ready" ELSE "NotScaled"]

\* The task makes the cluster Ready from a snapshot that is no longer true, or whatever the count is.
ReadyUnchecked(w, phase) ==
  /\ w = 0 /\ phase = "Ready" /\ task.pc # "modified"
  /\ \/ task.pc = "recover"
     \/ task.self.replicas # cluster.replicas
     \/ task.self.current # cluster.status.current

\* The read; its error is unwrapped.
update_status_get(w, phase) ==
  /\ draft[w] = NoDraft
  /\ \/ /\ Exists
        /\ draft' = [draft EXCEPT ![w] = NewStatus(phase)]
        /\ Note("scale", ReadyUnchecked(w, phase))
        /\ UNCHANGED <<cluster, node, dying, task, budget>>
     \/ ~Exists /\ Die

\* The patch, of the whole status; its error is only logged.  It miscounts when it is lost, or when the
\* count has changed since the read.
update_status_patch(w, phase) ==
  /\ draft[w] # NoDraft
  /\ draft' = [draft EXCEPT ![w] = NoDraft]
  /\ \/ /\ cluster' = (IF Exists THEN [cluster EXCEPT !.status = draft[w]] ELSE cluster)
        /\ Note("count", draft[w].current # NewStatus(phase).current)
        /\ UNCHANGED budget
     \/ /\ Lose("update_status")
        /\ odd' = odd \cup {"scale"}
                      \cup (IF cluster.status.current # NewStatus(phase).current THEN {"count"} ELSE {})
        /\ UNCHANGED cluster

-----------------------------------------------------------------------------
(***************************************************************************)
(* cluster_controller.                                                     *)
(***************************************************************************)

\* Mutant: only a cluster that is Scaling is rescaled.
determine_action_unscaled(c) ==
  IF c.life = "terminating" /\ c.status.phase \notin {"None", "Deleting"} THEN "Delete"
  ELSE IF c.life = "new" THEN "Create"
  ELSE IF c.status.phase = "Scaling" THEN "Rescale"
  ELSE IF c.status.phase # "Deleting" /\ c.status.observed < c.gen THEN "Modify" ELSE "NoOp"

determine_action(c) ==
  IF c.life = "terminating" /\ c.status.phase \notin {"None", "Deleting"} THEN "Delete"
  ELSE IF c.life = "new" THEN "Create"
  ELSE CASE c.status.phase = "None"                       -> "Panic"
         [] c.status.phase \in {"NotScaled", "Scaling"}   -> "Rescale"
         [] c.status.phase = "Deleting"                   -> "NoOp"
         [] OTHER -> IF c.status.observed < c.gen THEN "Modify" ELSE "NoOp"

\* The branch of ClusterHoprd::modify.
modify_branch(c) ==
  CASE c.status.phase = "Failed" -> "recover"
    [] c.last = NoPool           -> "reject"
    [] c.last # c.pool           -> "immutable"
    [] OTHER                     -> "apply"

\* A cluster that is Scaling waits for a change.
first_step(c) ==
  CASE determine_action(c) = "Create"  -> "finalizer"
    [] determine_action(c) = "Modify"  -> modify_branch(c)
    [] determine_action(c) = "Delete"  -> "deleting"
    [] determine_action(c) = "Rescale" -> IF c.status.phase = "NotScaled" THEN "scaling" ELSE "idle"
    [] OTHER                           -> "idle"

reconciler ==
  /\ task.pc = "idle"
  /\ Exists
  /\ \/ /\ first_step(cluster) # "idle"
        /\ task' = [Idle(Snapshot(cluster)) EXCEPT !.pc = first_step(cluster)]
        /\ UNCHANGED <<cluster, node, dying, draft, odd, budget>>
     \/ determine_action(cluster) = "Panic" /\ Die

Goto(pc) == task' = [task EXCEPT !.pc = pc]

End == task' = Idle(task.self)

-----------------------------------------------------------------------------
(***************************************************************************)
(* ClusterHoprd::create, modify, rescale and delete are sequences of calls *)
(* of update_status with other calls between them.                         *)
(***************************************************************************)

Scale(yes) == IF yes THEN "NotScaled" ELSE "Ready"

\* Mutant: a modified cluster is Ready, whatever its replicas.
Written_unchecked ==
  CASE task.pc = "init"                  -> "Initialized"
    [] task.pc = "created"               -> Scale(task.self.replicas > 0)
    [] task.pc \in {"reject", "immutable"} -> "Failed"
    [] task.pc = "scaling"               -> "Scaling"
    [] task.pc = "counted"               -> "NodeCreated"
    [] task.pc = "deleting"              -> "Deleting"
    [] OTHER                             -> "Ready"

\* The phase that the step writes.  What it compares comes from the snapshot.
Written ==
  CASE task.pc = "init"                  -> "Initialized"
    [] task.pc = "created"               -> Scale(task.self.replicas > 0)
    [] task.pc \in {"reject", "immutable"} -> "Failed"
    [] task.pc = "check"                 -> Scale(task.self.replicas # task.self.current)
    [] task.pc = "scaling"               -> "Scaling"
    [] task.pc = "counted"               -> "NodeCreated"
    [] task.pc = "deleting"              -> "Deleting"
    [] OTHER                             -> "Ready"

\* Mutant: a cluster that needs no node loses one.
AfterUpdate_shrinking ==
  [init |-> "created", created |-> "idle", recover |-> "idle", reject |-> "idle", immutable |-> "annotate",
   modified |-> "check", check |-> "annotate",
   scaling |-> IF task.self.replicas > task.self.current THEN "create" ELSE "remove",
   settled |-> "idle", counted |-> "idle", deleting |-> "list"]

\* Mutant: the nodes are left to the garbage collector.
AfterUpdate_leaving ==
  [init |-> "created", created |-> "idle", recover |-> "idle", reject |-> "idle", immutable |-> "annotate",
   modified |-> "check", check |-> "annotate",
   scaling |-> IF task.self.replicas > task.self.current THEN "create" ELSE "remove",
   settled |-> "idle", counted |-> "idle", deleting |-> "unfinalize"]

\* The steps of the task that write the status, and the step after each.
AfterUpdate ==
  [init     |-> "created",
   created  |-> "idle",
   recover  |-> "idle",
   reject   |-> "idle",
   immutable |-> "annotate",
   modified |-> "check",
   check    |-> "annotate",
   scaling  |-> IF task.self.replicas > task.self.current THEN "create"
                ELSE IF task.self.replicas < task.self.current THEN "remove" ELSE "settled",
   settled  |-> "idle",
   counted  |-> "idle",
   deleting |-> "list"]

update_status ==
  /\ task.pc \in DOMAIN AfterUpdate
  /\ \/ update_status_get(0, Written)
     \/ /\ update_status_patch(0, Written)
        /\ IF AfterUpdate[task.pc] = "idle" THEN End ELSE Goto(AfterUpdate[task.pc])
        /\ UNCHANGED <<node, dying>>

add_finalizer ==
  /\ task.pc = "finalizer"
  /\ \/ /\ cluster' = [cluster EXCEPT !.life = IF @ = "new" THEN "finalized" ELSE @]
        /\ UNCHANGED budget
     \/ Lose("add_finalizer") /\ UNCHANGED cluster
  /\ Goto("init")
  /\ UNCHANGED <<node, dying, draft, odd>>

\* appply_modification: every node of the list is patched and waited for; an error ends the task.
appply_modification ==
  /\ task.pc = "apply"
  /\ \/ Goto("modified") /\ UNCHANGED budget
     \/ Lose("wait") /\ End
  /\ UNCHANGED <<cluster, node, dying, draft, odd>>

update_last_configuration ==
  /\ task.pc = "annotate"
  /\ \/ cluster' = (IF Exists THEN [cluster EXCEPT !.last = task.self.pool] ELSE cluster) /\ UNCHANGED budget
     \/ Lose("annotate") /\ UNCHANGED cluster
  /\ End
  /\ UNCHANGED <<node, dying, draft, odd>>

\* The numbers whose place in the sorted list is not theirs.
Misplaced(S) == {v \in S : Cardinality({u \in S : u < v}) # v - 1}

\* Mutant: the number after the largest.
get_next_free_node_last(S) ==
  IF S = {} THEN 1 ELSE 1 + CHOOSE n \in S : \A m \in S : m <= n

\* The first index that is not the number at it, or the one after the last.
get_next_free_node(S) ==
  IF Misplaced(S) = {} THEN Cardinality(S) + 1
  ELSE 1 + Cardinality({u \in S : \A v \in Misplaced(S) : u < v})

\* create_node: the list, and the event that is sent before the node is created.
create_node ==
  /\ task.pc = "create"
  /\ get_next_free_node(Existing) \in Numbers
  /\ task' = [task EXCEPT !.pc = "post", !.node = get_next_free_node(Existing), !.todo = Existing]
  /\ UNCHANGED <<cluster, node, dying, draft, odd, budget>>

\* create_hoprd_resource: the POST.  When it fails the task ends with the cluster Scaling.  Nobody else
\* creates nodes, so that the number is still free.
create_hoprd_resource ==
  /\ task.pc = "post"
  /\ \/ /\ node[task.node] = "absent"
        /\ node' = [node EXCEPT ![task.node] = "new"]
        /\ Goto("await")
        /\ UNCHANGED <<odd, budget>>
     \/ /\ Lose("create")
        /\ End
        /\ Note("scale", TRUE)
        /\ UNCHANGED node
  /\ UNCHANGED <<cluster, dying, draft>>

\* wait_deployment: the Deployment of the node is seen ready, or its deletion is, or the watch gives up;
\* then the task ends and the node is not counted.
await_node ==
  /\ task.pc = "await"
  /\ \/ /\ EarlyReady \/ node[task.node] \in {"up", "terminating"}
        /\ Goto("counted")
        /\ Note("count", node[task.node] = "absent")
        /\ UNCHANGED budget
     \/ /\ node[task.node] \in {"terminating", "absent"}
        /\ End
        /\ Note("scale", TRUE)
        /\ UNCHANGED budget
     \/ /\ Lose("wait")
        /\ End
        /\ odd' = odd \cup {"count", "scale"}
  /\ UNCHANGED <<cluster, node, dying, draft>>

\* delete_node: the node whose number is the count of the snapshot, if there is one.
delete_node ==
  /\ task.pc = "remove"
  /\ IF task.self.current \in Existing
     THEN task' = [task EXCEPT !.pc = "erase", !.node = task.self.current] /\ UNCHANGED odd
     ELSE End /\ Note("scale", TRUE)
  /\ UNCHANGED <<cluster, node, dying, draft, budget>>

\* Mutant: the first node goes first.
erase_node_first ==
  /\ task.pc = "erase"
  /\ \E n \in Existing :
       /\ \A m \in Existing : n <= m
       /\ Deleted(n)
       /\ task' = [task EXCEPT !.pc = "gone", !.node = n]
  /\ UNCHANGED <<cluster, dying, draft, odd, budget>>

\* Its deletion; the error for a node that has gone meanwhile is unwrapped.  A node that has been
\* subtracted already, or never will be, leaves the cluster Scaling.
erase_node ==
  /\ task.pc = "erase"
  /\ \/ /\ node[task.node] # "absent"
        /\ Deleted(task.node)
        /\ Goto("gone")
        /\ odd' = odd \cup (IF node[task.node] = "new" THEN {"count", "scale"} ELSE {})
                      \cup (IF dying[task.node] = "unfinalize" THEN {"scale"} ELSE {})
        /\ UNCHANGED <<cluster, dying, draft, budget>>
     \/ node[task.node] = "absent" /\ Die

\* await_condition(is_deleted) of delete_node.
await_deleted ==
  /\ task.pc = "gone"
  /\ node[task.node] = "absent"
  /\ End
  /\ UNCHANGED <<cluster, node, dying, draft, odd, budget>>

\* delete_nodes: the nodes of the list, one after the other, each waited for.  An error, a node that is
\* gone already included, ends the loop and is dropped.
delete_nodes ==
  /\ \/ /\ task.pc = "list"
        /\ task' = [task EXCEPT !.pc = "next", !.todo = Existing]
        /\ UNCHANGED <<node, budget>>
     \/ /\ task.pc = "next"
        /\ \E n \in task.todo :
             \/ /\ n \in Existing
                /\ Deleted(n)
                /\ task' = [task EXCEPT !.pc = "gone_next", !.node = n, !.todo = @ \ {n}]
                /\ UNCHANGED budget
             \/ n \notin Existing /\ Goto("unfinalize") /\ UNCHANGED <<node, budget>>
             \/ Lose("delete") /\ Goto("unfinalize") /\ UNCHANGED node
     \/ /\ task.pc = "next"
        /\ task.todo = {}
        /\ Goto("unfinalize")
        /\ UNCHANGED <<node, budget>>
     \/ /\ task.pc = "gone_next"
        /\ node[task.node] = "absent"
        /\ Goto("next")
        /\ UNCHANGED <<node, budget>>
  /\ UNCHANGED <<cluster, dying, draft, odd>>

\* The object goes with its finalizer.
delete_finalizer ==
  /\ task.pc = "unfinalize"
  /\ \/ cluster' = [cluster EXCEPT !.life = "absent"] /\ UNCHANGED budget
     \/ Lose("delete_finalizer") /\ UNCHANGED cluster
  /\ End
  /\ UNCHANGED <<node, dying, draft, odd>>

-----------------------------------------------------------------------------
(***************************************************************************)
(* Hoprd::delete of node n.  What it does before notify_deletion_to_cluster*)
(* is the subject of IdentityLock.  An error leaves the node in phase      *)
(* Deleting, which nobody resumes.                                         *)
(***************************************************************************)

Leave(n, step) == dying' = [dying EXCEPT ![n] = step]

node_delete(n) ==
  /\ node[n] = "terminating"
  /\ dying[n] = "no"
  /\ Leave(n, "notify")
  /\ UNCHANGED <<cluster, node, task, draft, odd, budget>>

\* Mutant: the deletion of a node stops when its cluster is being deleted.
notify_deletion_to_cluster_stop(n) ==
  /\ dying[n] = "notify"
  /\ Leave(n, IF Exists /\ cluster.status.phase # "Deleting" THEN "update" ELSE "wedged")
  /\ UNCHANGED <<cluster, node, task, draft, odd, budget>>

\* A cluster that is gone or in phase Deleting is not told.
notify_deletion_to_cluster(n) ==
  /\ dying[n] = "notify"
  /\ \/ Exists /\ cluster.status.phase # "Deleting" /\ Leave(n, "update") /\ UNCHANGED budget
     \/ ~Exists /\ Leave(n, "unfinalize") /\ UNCHANGED budget
     \/ cluster.status.phase = "Deleting" /\ Leave(n, "unfinalize") /\ UNCHANGED budget
     \/ Lose("notify") /\ Leave(n, "wedged")
  /\ UNCHANGED <<cluster, node, task, draft, odd>>

node_deleted(n) ==
  /\ dying[n] = "update"
  /\ \/ update_status_get(n, "NodeDeleted")
     \/ update_status_patch(n, "NodeDeleted") /\ Leave(n, "unfinalize") /\ UNCHANGED <<node, task>>

node_delete_finalizer(n) ==
  /\ dying[n] = "unfinalize"
  /\ \/ node' = [node EXCEPT ![n] = "absent"] /\ Leave(n, "no") /\ UNCHANGED budget
     \/ Lose("delete_finalizer") /\ Leave(n, "wedged") /\ UNCHANGED node
  /\ UNCHANGED <<cluster, task, draft, odd>>

-----------------------------------------------------------------------------
Crash == Die

\* The steps of the operator.
Task ==
  \/ reconciler
  \/ add_finalizer
  \/ update_status
  \/ appply_modification
  \/ update_last_configuration
  \/ create_node
  \/ create_hoprd_resource
  \/ await_node
  \/ delete_node
  \/ erase_node
  \/ await_deleted
  \/ delete_nodes
  \/ delete_finalizer

Deletion(n) ==
  \/ node_delete(n)
  \/ notify_deletion_to_cluster(n)
  \/ node_deleted(n)
  \/ node_delete_finalizer(n)

Next ==
  \/ Task
  \/ \E n \in Numbers : Deletion(n) \/ NodeStarts(n) \/ UserKill(n) \/ CollectGarbage(n)
  \/ UserEdit
  \/ UserDelete
  \/ Crash

Spec == Init /\ [][Next]_vars

\* The runtime polls every task and requeues every object; Deployments become ready.
FairSpec ==
  /\ Spec
  /\ WF_vars(Task)
  /\ \A n \in Numbers : WF_vars(Deletion(n)) /\ WF_vars(NodeStarts(n)) /\ WF_vars(CollectGarbage(n))

-----------------------------------------------------------------------------
Phases == {"None", "Initialized", "NotScaled", "Scaling", "Failed", "Ready", "Deleting"}

Steps == DOMAIN AfterUpdate \cup
         {"idle", "finalizer", "apply", "annotate", "create", "post", "await", "remove", "erase",
          "gone", "list", "next", "gone_next", "unfinalize"}

Statuses == [phase : Phases \cup {"Nothing"}, observed : Nat, current : Nat]

\* Every variable has its type.
TypeOK ==
  /\ cluster \in [life : {"absent", "new", "finalized", "terminating"}, gen : Nat, replicas : Replicas,
                  pool : Pools, last : Pools \cup {NoPool}, status : Statuses]
  /\ node \in [Numbers -> Alive \cup {"absent", "terminating"}]
  /\ dying \in [Numbers -> {"no", "notify", "update", "unfinalize", "wedged"}]
  /\ task \in [pc : Steps, self : [replicas : Replicas, current : Nat, pool : Pools],
               node : 0..MaxNode, todo : SUBSET Numbers]
  /\ draft \in [0..MaxNode -> Statuses]
  /\ odd \subseteq {"count", "scale"}
  /\ budget \in [edits : Nat, kills : Nat, crashes : Nat, failures : Nat]

\* Nothing is under way: no reconciliation and no deletion of a node.
Quiet ==
  /\ task.pc = "idle"
  /\ \A n \in Numbers : dying[n] = "no" /\ node[n] # "terminating"

\* status.current_nodes is the number of nodes the cluster has, whenever nothing is under way: the task of
\* the cluster and the deletions of its nodes, which read and patch it without a lock, keep the count
\* together, over crashes, lost calls, nodes that users delete and specs that they edit.  The exceptions
\* are noted at Miscounted, Die, update_status_patch (a patch that is lost, or overwrites another),
\* await_node (given up, or ended for a node that has gone) and erase_node.
CountExact ==
  "count" \notin odd /\ cluster.life = "finalized" /\ Quiet => cluster.status.current = Cardinality(Existing)

\* The nodes are numbered without a gap, so that delete_node, which takes the count for the number of the
\* last node, finds it.
NodesContiguous ==
  cluster.life = "finalized" => \E k \in 0..MaxNode : Existing = 1..k

\* A new node gets the first number that was free in the list: the scan of get_next_free_node over the
\* sorted list finds it, with holes that other deletions have left.  A smaller number is free only if its
\* node was in the list and has gone since.
FirstGapFilled ==
  [][\A n \in Numbers :
       node[n] = "absent" /\ node'[n] = "new"
         => n \notin task.todo /\ 1..(n - 1) \subseteq task.todo]_vars

\* When the controller finds nothing to do for a cluster that is Ready, the cluster has the nodes that its
\* spec asks for; and it is in phase Scaling only while it is being scaled, since otherwise it would stay
\* so for ever: rescale waits for a change that no branch of determine_action reacts to.  The exceptions
\* are those of CountExact, and the tasks that end or die halfway, lose a status, find no node to delete or
\* make the cluster Ready unchecked.
NoOpMeansScaled ==
  odd = {} /\ cluster.life = "finalized" /\ Quiet =>
    /\ cluster.status.phase # "Scaling"
    /\ cluster.status.phase = "Ready" /\ determine_action(cluster) = "NoOp"
         => Cardinality(Existing) = cluster.replicas

\* The operator deletes a node of a live cluster only if there are more nodes than replicas.
OnlySurplusRemoved ==
  [][\A n \in Numbers :
       cluster.life = "finalized" /\ node[n] \in Alive /\ node'[n] \notin Alive
         => Cardinality(Existing) > cluster.replicas]_vars

\* ClusterHoprd::delete removes the finalizer of the cluster only when no node is left.
RemovedTogether ==
  [][cluster.life = "terminating" /\ cluster'.life = "absent" => Existing = {}]_vars

\* A cluster that is not deleted comes to have the nodes its last spec asks for, and stays so.
Settles ==
  <>[](cluster.life \in {"terminating", "absent"}
         \/ (Cardinality(Existing) = cluster.replicas /\ cluster.status.phase = "Ready"))

\* A deleted cluster goes, and its nodes with it.
DeletionCompletes ==
  cluster.life = "terminating" ~> cluster.life = "absent" /\ Existing = {}
=============================================================================
