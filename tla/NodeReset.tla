----------------------------- MODULE NodeReset -----------------------------
(***************************************************************************)
(* Hoprd::modify of a node that exists: enabling and disabling it, and the *)
(* reset of its database that spec.deleteDatabase asks for                 *)
(* (hoprd_controller.rs, hoprd_resource.rs, hoprd_deployment.rs).          *)
(*                                                                         *)
(* The reconciler reads the object from the watch cache of its controller, *)
(* which lags behind the API server; its task is cut at the API calls.     *)
(* Kubernetes starts and stops the pod of the Deployment and runs the Job  *)
(* that empties the volume.  Creation and deletion are in IdentityLock.    *)
(***************************************************************************)
EXTENDS Integers

CONSTANTS
  Lossy,       \* the calls that may fail, "early" and "late" for waits that end too soon, and "link" for a
               \* node whose identity is not found
  MaxEdits,    \* how often users edit the spec
  MaxCrashes,  \* how often the operator dies
  MaxFailures  \* how many calls fail

ASSUME BudgetAssumption == MaxEdits \in Nat /\ MaxCrashes \in Nat /\ MaxFailures \in Nat

VARIABLES
  hoprd,   \* the Hoprd object on the API server
  store,   \* the copy of it in the watch cache of the controller
  deploy,  \* spec.replicas of the Deployment
  pod,     \* the pod of the Deployment
  job,     \* the Job of the last reset
  task,    \* the reconciliation
  seen,    \* what the properties need to know of the past
  budget   \* what is left of the bounds

vars == <<hoprd, store, deploy, pod, job, task, seen, budget>>

-----------------------------------------------------------------------------
\* The value of an immutable field of the spec, and of the last applied configuration: its value, no
\* annotation, or text that cannot be parsed.
Fixed == {"p", "q"}
LastValues == Fixed \cup {"none", "garbled"}

Hoprds == [gen : Nat, observed : Nat, enabled : BOOLEAN, wipe : BOOLEAN, fixed : Fixed, last : LastValues,
           phase : {"Running", "Stopped", "Failed"}]

\* Option::unwrap_or(true) of spec.enabled gives the number of replicas and the phase.
Replicas(o) == IF o.enabled THEN 1 ELSE 0

RunPhase(o) == IF o.enabled THEN "Running" ELSE "Stopped"

\* The fields of the reconciled object that the handlers read after an await.
Snapshot(o) == [gen |-> o.gen, enabled |-> o.enabled, wipe |-> o.wipe, fixed |-> o.fixed]

Idle == [pc |-> "idle", self |-> [gen |-> 0, enabled |-> FALSE, wipe |-> FALSE, fixed |-> "p"]]

\* A node that Hoprd::create has brought up; deleteDatabase may have been set from the start, and create
\* does not look at it.
Init ==
  /\ hoprd \in {[gen |-> 1, observed |-> 1, enabled |-> e, wipe |-> w, fixed |-> "p", last |-> l,
                 phase |-> IF e THEN "Running" ELSE "Stopped"] :
                  e \in BOOLEAN, w \in BOOLEAN, l \in {"p", "none", "garbled"}}
  /\ store = hoprd
  /\ deploy = Replicas(hoprd)
  /\ pod = IF hoprd.enabled THEN "running" ELSE "none"
  /\ job = "none"
  /\ task = Idle
  /\ seen = [blind |-> FALSE, wiped |-> FALSE, loose |-> FALSE]
  /\ budget = [edits |-> MaxEdits, crashes |-> MaxCrashes, failures |-> MaxFailures]

-----------------------------------------------------------------------------
(***************************************************************************)
(* The users and the cluster.                                              *)
(***************************************************************************)

\* The spec is edited; kubectl apply also rewrites the annotation.
UserEdit ==
  /\ budget.edits > 0
  /\ budget' = [budget EXCEPT !.edits = @ - 1]
  /\ \E e, w \in BOOLEAN, f \in Fixed : \E l \in {f, hoprd.last} :
       /\ <<e, w, f>> # <<hoprd.enabled, hoprd.wipe, hoprd.fixed>>
       /\ hoprd' = [hoprd EXCEPT !.enabled = e, !.wipe = w, !.fixed = f, !.last = l, !.gen = @ + 1]
  /\ UNCHANGED <<store, deploy, pod, job, task, seen>>

\* The watch delivers the object.
Deliver ==
  /\ store # hoprd
  /\ store' = hoprd
  /\ UNCHANGED <<hoprd, deploy, pod, job, task, seen, budget>>

\* The ReplicaSet follows spec.replicas; a pod takes time to stop.
PodStart ==
  /\ deploy = 1 /\ pod = "none"
  /\ pod' = "running"
  /\ UNCHANGED <<hoprd, store, deploy, job, task, seen, budget>>

PodStop ==
  /\ \/ deploy = 0 /\ pod = "running" /\ pod' = "stopping"
     \/ pod = "stopping" /\ pod' = "none"
  /\ UNCHANGED <<hoprd, store, deploy, job, task, seen, budget>>

\* The Job empties the volume; when its pod fails, Kubernetes starts another one, or gives up.
JobRuns ==
  /\ job \in {"active", "retrying"}
  /\ job' = IF job = "active" THEN "succeeded" ELSE "recovered"
  /\ seen' = [seen EXCEPT !.wiped = TRUE]
  /\ UNCHANGED <<hoprd, store, deploy, pod, task, budget>>

\* The call fails, or the wait ends too soon or too late.
Lose(call) ==
  /\ call \in Lossy
  /\ budget.failures > 0
  /\ budget' = [budget EXCEPT !.failures = @ - 1]

JobFails ==
  /\ job \in {"active", "retrying"}
  /\ Lose("job")
  /\ job' \in {"retrying", "dead"}
  /\ UNCHANGED <<hoprd, store, deploy, pod, task, seen>>

-----------------------------------------------------------------------------
(***************************************************************************)
(* hoprd_controller and Hoprd::modify.                                     *)
(***************************************************************************)

At(pc) == task.pc = pc

Goto(pc) == task' = [task EXCEPT !.pc = pc]

\* The task ends, with an error or without; the object is requeued in both cases.  A Job that has not
\* finished goes on by itself.
End ==
  /\ task' = Idle
  /\ seen' = [seen EXCEPT !.loose = @ \/ job \in {"active", "retrying"}]

\* determine_action of a node with a finalizer that is not being deleted.
determine_action(o) == IF o.phase = "Failed" \/ o.observed < o.gen THEN "Modify" ELSE "NoOp"

\* An immutable field has changed since the last applied configuration, or that is not JSON.
changed_inmutable_fields(o) == o.last # o.fixed

\* The branch that Hoprd::modify takes.
modify(o) ==
  CASE o.phase = "Failed"            -> "recover"
    [] o.last = "none"               -> "reject"
    [] changed_inmutable_fields(o)   -> "immutable"
    [] OTHER                         -> "redeploy"

reconciler ==
  /\ At("idle")
  /\ \/ /\ determine_action(store) = "Modify"
        /\ task' = [pc |-> modify(store), self |-> Snapshot(store)]
     \/ determine_action(store) = "NoOp" /\ UNCHANGED task
  /\ UNCHANGED <<hoprd, store, deploy, pod, job, seen, budget>>

\* Mutant: the status is written with the generation the object has by now.
update_status_now(phase) ==
  \/ hoprd' = [hoprd EXCEPT !.phase = phase, !.observed = hoprd.gen] /\ UNCHANGED budget
  \/ Lose("update_status") /\ UNCHANGED hoprd

\* Hoprd::update_status writes the generation of the snapshot; an error is only logged.
update_status(phase) ==
  \/ hoprd' = [hoprd EXCEPT !.phase = phase, !.observed = task.self.gen] /\ UNCHANGED budget
  \/ Lose("update_status") /\ UNCHANGED hoprd

\* A Failed node is taken back to Running or Stopped; nothing of its spec is applied.
recover ==
  /\ At("recover")
  /\ update_status(RunPhase(task.self))
  /\ task' = Idle
  /\ seen' = [seen EXCEPT !.blind = TRUE]
  /\ UNCHANGED <<store, deploy, pod, job>>

\* Without an annotation to compare with the task ends; otherwise the annotation is rewritten.
reject_change ==
  /\ \/ At("reject") /\ End
     \/ At("immutable") /\ Goto("annotate") /\ UNCHANGED seen
  /\ update_status("Failed")
  /\ UNCHANGED <<store, deploy, pod, job>>

\* Mutant: the patch leaves the replicas as they are.
modify_deployment_template ==
  /\ At("redeploy")
  /\ Goto(IF task.self.wipe THEN "scale_down" ELSE "wait")
  /\ seen' = [seen EXCEPT !.blind = FALSE]
  /\ UNCHANGED <<hoprd, store, deploy, pod, job, budget>>

\* get_identity and modify_deployment: the whole spec of the Deployment, replicas included, is rebuilt.  A
\* node that no identity is linked to becomes Failed, as one whose immutable fields have changed.
modify_deployment ==
  /\ At("redeploy")
  /\ \/ /\ deploy' = Replicas(task.self)
        /\ Goto(IF task.self.wipe THEN "scale_down" ELSE "wait")
        /\ seen' = [seen EXCEPT !.blind = FALSE]
        /\ UNCHANGED budget
     \/ Lose("get") /\ End /\ UNCHANGED deploy
     \/ Lose("link") /\ Goto("immutable") /\ UNCHANGED <<deploy, seen>>
  /\ UNCHANGED <<hoprd, store, pod, job>>

\* delete_database scales down and does not wait for the pod; an error is only logged.
scale_down ==
  /\ At("scale_down")
  /\ \/ deploy' = 0 /\ UNCHANGED <<seen, budget>>
     \/ Lose("scale") /\ UNCHANGED deploy /\ seen' = [seen EXCEPT !.loose = TRUE]
  /\ Goto("job")
  /\ UNCHANGED <<hoprd, store, pod, job>>

\* job_delete_database creates a Job with a new name, which nobody owns.
create_job ==
  /\ At("job")
  /\ \/ /\ job' = "active"
        /\ seen' = [seen EXCEPT !.wiped = FALSE, !.loose = @ \/ job \in {"active", "retrying"}]
        /\ Goto("watch")
        /\ UNCHANGED budget
     \/ Lose("create") /\ End /\ UNCHANGED job
  /\ UNCHANGED <<hoprd, store, deploy, pod>>

\* The watch opens; a Job that has finished by now is delivered as Added, which the loop passes over.
open_watch ==
  /\ At("watch")
  /\ \/ Goto(IF job \in {"active", "retrying"} THEN "await" ELSE "missed") /\ UNCHANGED <<seen, budget>>
     \/ Lose("watch") /\ End
  /\ UNCHANGED <<hoprd, store, deploy, pod, job>>

\* Mutant: the Job is not waited for.
await_job_never ==
  /\ At("await")
  /\ Goto("scale_up")
  /\ UNCHANGED <<hoprd, store, deploy, pod, job, seen, budget>>

\* The loop over the events of the watch: the Job succeeds, or its first pod fails, or the watch fails, or
\* the stream ends, which counts as success.
await_job ==
  /\ \/ At("await") /\ job \in {"succeeded", "recovered"} /\ Goto("scale_up") /\ UNCHANGED <<seen, budget>>
     \/ At("await") /\ job \in {"retrying", "recovered", "dead"} /\ End /\ UNCHANGED budget
     \/ At("missed") /\ Goto("scale_up") /\ UNCHANGED budget
        /\ seen' = [seen EXCEPT !.loose = @ \/ job \notin {"succeeded", "recovered"}]
     \/ At("await") /\ job \in {"active", "retrying"} /\ Lose("late") /\ Goto("scale_up")
        /\ seen' = [seen EXCEPT !.loose = TRUE]
     \/ At("await") /\ Lose("watch") /\ End
  /\ UNCHANGED <<hoprd, store, deploy, pod, job>>

\* One replica, whether the node is enabled or not; an error is only logged.
scale_up ==
  /\ At("scale_up")
  /\ \/ deploy' = 1 /\ UNCHANGED budget
     \/ Lose("scale") /\ UNCHANGED deploy
  /\ Goto("unflag")
  /\ UNCHANGED <<hoprd, store, pod, job, seen>>

\* apply_modification takes the request back, whoever made it: a change of the spec if it is still there.
clear_flag ==
  /\ At("unflag")
  /\ \/ /\ hoprd' = [hoprd EXCEPT !.wipe = FALSE, !.gen = IF hoprd.wipe THEN @ + 1 ELSE @]
        /\ UNCHANGED budget
     \/ Lose("unflag") /\ UNCHANGED hoprd
  /\ Goto("wait")
  /\ UNCHANGED <<store, deploy, pod, job, seen>>

\* wait_deployment passes for a disabled node, when a pod is ready (the old one too), and on a bookmark;
\* when it times out the status is not written.
wait_deployment ==
  /\ At("wait")
  /\ \/ (task.self.enabled => pod # "none") /\ update_status(RunPhase(task.self))
     \/ task.self.enabled /\ "early" \in Lossy /\ update_status("Running")
     \/ task.self.enabled /\ deploy = 0 /\ UNCHANGED <<hoprd, budget>>
     \/ task.self.enabled /\ Lose("wait") /\ UNCHANGED hoprd
  /\ Goto("annotate")
  /\ UNCHANGED <<store, deploy, pod, job, seen>>

update_last_configuration ==
  /\ At("annotate")
  /\ \/ hoprd' = [hoprd EXCEPT !.last = task.self.fixed] /\ UNCHANGED budget
     \/ Lose("annotate") /\ UNCHANGED hoprd
  /\ End
  /\ UNCHANGED <<store, deploy, pod, job>>

\* The process dies and starts again; the controller lists the objects anew.
Crash ==
  /\ budget.crashes > 0
  /\ budget' = [budget EXCEPT !.crashes = @ - 1]
  /\ End
  /\ store' = hoprd
  /\ UNCHANGED <<hoprd, deploy, pod, job>>

Task ==
  \/ reconciler \/ recover \/ reject_change \/ modify_deployment \/ scale_down \/ create_job \/ open_watch
  \/ await_job \/ scale_up \/ clear_flag \/ wait_deployment \/ update_last_configuration

Next == Task \/ UserEdit \/ Deliver \/ PodStart \/ PodStop \/ JobRuns \/ JobFails \/ Crash

Spec == Init /\ [][Next]_vars

\* The runtime polls the task and requeues the object, the watch delivers, Kubernetes moves pods and Jobs.
FairSpec ==
  /\ Spec
  /\ WF_vars(Task) /\ WF_vars(Deliver) /\ WF_vars(PodStart) /\ WF_vars(PodStop) /\ WF_vars(JobRuns)

-----------------------------------------------------------------------------
(***************************************************************************)
(* Properties.                                                             *)
(***************************************************************************)

Steps == {"idle", "recover", "reject", "immutable", "redeploy", "scale_down", "job", "watch", "await",
          "missed", "scale_up", "unflag", "wait", "annotate"}

\* Every variable has its type.
TypeOK ==
  /\ hoprd \in Hoprds /\ store \in Hoprds
  /\ deploy \in 0..1
  /\ pod \in {"none", "running", "stopping"}
  /\ job \in {"none", "active", "retrying", "succeeded", "recovered", "dead"}
  /\ task \in [pc : Steps, self : [gen : Nat, enabled : BOOLEAN, wipe : BOOLEAN, fixed : Fixed]]
  /\ seen \in [blind : BOOLEAN, wiped : BOOLEAN, loose : BOOLEAN]
  /\ budget \in [edits : 0..MaxEdits, crashes : 0..MaxCrashes, failures : 0..MaxFailures]

\* When the controller has nothing to do, the Deployment and the phase are those of the spec: no edit, made
\* before, during or after a reset, is acknowledged without being applied.  The exceptions are a node
\* recovered from Failed (its spec is not looked at) and a request that could not be taken back (the reset
\* leaves one replica, enabled or not).
NoOpMeansApplied ==
  At("idle") /\ store = hoprd /\ determine_action(store) = "NoOp" /\ ~seen.blind /\ ~hoprd.wipe
    => deploy = Replicas(hoprd) /\ hoprd.phase = RunPhase(hoprd)

\* The operator takes a request back only after the Job of this reset has emptied the volume, unless it has
\* given up waiting for the Job.
ClearedMeansWiped ==
  [][hoprd.wipe /\ ~hoprd'.wipe /\ At("unflag") /\ ~seen.loose /\ budget' = budget => seen.wiped]_vars

\* No pod starts on a volume that a Job is still emptying, unless the operator has given up waiting for it.
StartsAfterJob ==
  [][pod = "none" /\ pod' = "running" => job \notin {"active", "retrying"} \/ seen.loose]_vars

\* A request to reset the database is taken back or has been carried out in the end, unless a node that was
\* Failed when it came acknowledges it unseen.
ResetServed ==
  (hoprd.wipe /\ hoprd.observed < hoprd.gen)
    ~> (~hoprd.wipe \/ (hoprd.observed = hoprd.gen /\ seen.wiped) \/ seen.blind)

\* A node left without a replica, by a reset that fails half way or a crash, gets it back: in the end the
\* Deployment is the one the spec asks for, and stays so.
NodeSettles ==
  <>[]((deploy = Replicas(hoprd) /\ hoprd.phase = RunPhase(hoprd)) \/ seen.blind \/ hoprd.wipe)
=============================================================================
