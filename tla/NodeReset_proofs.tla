-------------------------- MODULE NodeReset_proofs --------------------------
(***************************************************************************)
(* Proofs about NodeReset, for any bounds and any set of calls that fail:  *)
(* no edit is acknowledged without being applied, a request to reset the   *)
(* database is taken back only after the reset, and no pod starts while    *)
(* the Job of a reset that the operator still waits for is at work.        *)
(***************************************************************************)
EXTENDS NodeReset, TLAPS

SameSpec(o, s) == o.enabled = s.enabled /\ o.wipe = s.wipe

\* Generations only grow on their way from the API server over the watch cache to the task and back into
\* the status, and a generation determines the spec.
GenerationInv ==
  /\ hoprd.observed <= store.gen /\ store.gen <= hoprd.gen
  /\ store.gen = hoprd.gen => SameSpec(store, hoprd)
  /\ task.pc # "idle" =>
       /\ hoprd.observed <= task.self.gen /\ task.self.gen <= store.gen
       /\ task.self.gen = hoprd.gen => SameSpec(task.self, hoprd)

\* The steps of delete_database, and the one that takes the request back.
ResetSteps == {"scale_down", "job", "watch", "await", "missed", "scale_up", "unflag"}

\* A reset is made only for a snapshot that asks for it; what the task of another snapshot waits for is the
\* Deployment it has just written.
TaskInv ==
  /\ task.pc \in ResetSteps => task.self.wipe
  /\ task.pc = "wait" /\ ~task.self.wipe => deploy = Replicas(task.self)

\* A generation that counts as observed has been applied.
ObservedInv ==
  hoprd.observed = hoprd.gen /\ hoprd.phase # "Failed" =>
    /\ hoprd.phase = RunPhase(hoprd)
    /\ ~seen.blind /\ ~hoprd.wipe => deploy = Replicas(hoprd)

\* Which Job the task waits for, and what is known when it no longer does.
JobInv ==
  /\ job \in {"succeeded", "recovered"} => seen.wiped
  /\ job \in {"active", "retrying"} /\ ~seen.loose => task.pc \in {"watch", "await"} /\ deploy = 0
  /\ task.pc = "job" /\ ~seen.loose => deploy = 0
  /\ task.pc \in {"scale_up", "unflag"} /\ ~seen.loose => seen.wiped

ResetInv == GenerationInv /\ TaskInv /\ ObservedInv /\ JobInv

-----------------------------------------------------------------------------
(***************************************************************************)
(* Types.                                                                  *)
(***************************************************************************)

Budgets == [edits : 0..MaxEdits, crashes : 0..MaxCrashes, failures : 0..MaxFailures]

\* A call that fails is counted.
LEMMA LoseTyped ==
  ASSUME TypeOK, NEW call, Lose(call)
  PROVE  budget' \in Budgets
<1>1. budget \in Budgets
  BY DEF TypeOK, Budgets
<1>2. budget.failures - 1 \in 0..MaxFailures
  BY <1>1, BudgetAssumption DEF Lose, Budgets
<1> QED BY <1>1, <1>2 DEF Lose, Budgets

\* The status write of every branch keeps the object well formed.
LEMMA StatusTyped ==
  ASSUME TypeOK, NEW phase \in {"Running", "Stopped", "Failed"}, update_status(phase)
  PROVE  /\ hoprd' \in Hoprds
         /\ budget' \in Budgets
BY LoseTyped DEF TypeOK, Budgets, Hoprds, update_status

LEMMA EndTyped ==
  ASSUME TypeOK, End
  PROVE  /\ task' \in [pc : Steps, self : [gen : Nat, enabled : BOOLEAN, wipe : BOOLEAN, fixed : Fixed]]
         /\ seen' \in [blind : BOOLEAN, wiped : BOOLEAN, loose : BOOLEAN]
BY DEF TypeOK, End, Idle, Steps, Fixed

LEMMA InitTyped == Init => TypeOK
BY BudgetAssumption DEF Init, TypeOK, Hoprds, Fixed, LastValues, Replicas, Idle, Steps

LEMMA NextTyped == TypeOK /\ [Next]_vars => TypeOK'
<1> SUFFICES ASSUME TypeOK, [Next]_vars PROVE TypeOK'
  OBVIOUS
<1>1. CASE reconciler
  BY <1>1 DEF reconciler, TypeOK, Budgets, Hoprds, modify, Snapshot, Steps
<1>2. CASE recover
  BY <1>2, StatusTyped DEF recover, TypeOK, Budgets, RunPhase, Idle, Steps, Fixed
<1>3. CASE reject_change
  BY <1>3, StatusTyped, EndTyped DEF reject_change, TypeOK, Budgets, At, Goto, Steps
<1>4. CASE modify_deployment
  <2>1. deploy' \in 0..1 /\ budget' \in Budgets
    BY <1>4, LoseTyped DEF modify_deployment, TypeOK, Budgets, Replicas
  <2> QED BY <1>4, <2>1, EndTyped DEF modify_deployment, TypeOK, Budgets, At, Goto, Steps
<1>5. CASE scale_down
  <2>1. deploy' \in 0..1 /\ budget' \in Budgets
    BY <1>5, LoseTyped DEF scale_down, TypeOK, Budgets
  <2> QED BY <1>5, <2>1 DEF scale_down, TypeOK, Budgets, At, Goto, Steps
<1>6. CASE create_job
  BY <1>6, EndTyped, LoseTyped DEF create_job, TypeOK, Budgets, At, Goto, Steps
<1>7. CASE open_watch
  BY <1>7, EndTyped, LoseTyped DEF open_watch, TypeOK, Budgets, At, Goto, Steps
<1>8. CASE await_job
  BY <1>8, EndTyped, LoseTyped DEF await_job, TypeOK, Budgets, At, Goto, Steps
<1>9. CASE scale_up
  BY <1>9, LoseTyped DEF scale_up, TypeOK, Budgets, At, Goto, Steps
<1>10. CASE clear_flag
  <2>0. \A g \in Nat : [hoprd EXCEPT !.wipe = FALSE, !.gen = g] \in Hoprds
    BY DEF TypeOK, Hoprds
  <2>1. hoprd' \in Hoprds
    <3>1. hoprd.gen \in Nat /\ hoprd.gen + 1 \in Nat
      BY DEF TypeOK, Hoprds
    <3> QED BY <1>10, <2>0, <3>1 DEF clear_flag, TypeOK
  <2>2. budget' \in Budgets
    BY <1>10, LoseTyped DEF clear_flag, TypeOK, Budgets
  <2> QED BY <1>10, <2>1, <2>2 DEF clear_flag, TypeOK, Budgets, At, Goto, Steps
<1>11. CASE wait_deployment
  BY <1>11, StatusTyped, LoseTyped DEF wait_deployment, TypeOK, Budgets, RunPhase, At, Goto, Steps
<1>12. CASE update_last_configuration
  BY <1>12, EndTyped, LoseTyped DEF update_last_configuration, TypeOK, Budgets, Hoprds, LastValues, At
<1>13. CASE UserEdit
  <2>1. hoprd' \in Hoprds
    <3>1. \A e, w \in BOOLEAN, f \in Fixed, l \in LastValues, g \in Nat :
            [hoprd EXCEPT !.enabled = e, !.wipe = w, !.fixed = f, !.last = l, !.gen = g] \in Hoprds
      BY DEF TypeOK, Hoprds
    <3>2. hoprd.gen + 1 \in Nat /\ hoprd.last \in LastValues /\ Fixed \subseteq LastValues
      BY DEF TypeOK, Hoprds, LastValues
    <3>3. PICK e, w \in BOOLEAN, f \in Fixed : \E l \in {f, hoprd.last} :
            hoprd' = [hoprd EXCEPT !.enabled = e, !.wipe = w, !.fixed = f, !.last = l, !.gen = hoprd.gen + 1]
      BY <1>13, Zenon DEF UserEdit
    <3>4. PICK l \in {f, hoprd.last} :
            hoprd' = [hoprd EXCEPT !.enabled = e, !.wipe = w, !.fixed = f, !.last = l, !.gen = hoprd.gen + 1]
      BY <3>3
    <3>5. l \in LastValues
      BY <3>2, <3>4
    <3> QED BY <3>1, <3>2, <3>4, <3>5, Zenon
  <2>2. budget.edits - 1 \in 0..MaxEdits
    BY <1>13, BudgetAssumption DEF UserEdit, TypeOK
  <2>3. budget' \in Budgets
    BY <1>13, <2>2 DEF UserEdit, TypeOK, Budgets
  <2> QED BY <1>13, <2>1, <2>3 DEF UserEdit, TypeOK, Budgets
<1>14. CASE Deliver
  BY <1>14 DEF Deliver, TypeOK
<1>15. CASE PodStart \/ PodStop
  BY <1>15 DEF PodStart, PodStop, TypeOK
<1>16. CASE JobRuns \/ JobFails
  BY <1>16, LoseTyped DEF JobRuns, JobFails, TypeOK, Budgets
<1>17. CASE Crash
  BY <1>17, EndTyped, BudgetAssumption DEF Crash, TypeOK
<1>18. CASE UNCHANGED vars
  BY <1>18 DEF vars, TypeOK
<1> QED
  BY <1>1, <1>2, <1>3, <1>4, <1>5, <1>6, <1>7, <1>8, <1>9, <1>10, <1>11, <1>12, <1>13, <1>14, <1>15,
     <1>16, <1>17, <1>18 DEF Next, Task

\* Every reachable state of a node that is modified and reset is well typed.
THEOREM TypeCorrect == Spec => []TypeOK
BY InitTyped, NextTyped, PTL DEF Spec

-----------------------------------------------------------------------------
(***************************************************************************)
(* The inductive invariant.                                                *)
(***************************************************************************)

LEMMA InitReset == Init => ResetInv
BY DEF Init, ResetInv, GenerationInv, SameSpec, TaskInv, ResetSteps, ObservedInv, JobInv, Replicas, RunPhase, Idle

\* What a status write changes: phase and observed generation, together or not at all.
LEMMA StatusWrite ==
  ASSUME TypeOK, NEW phase, update_status(phase)
  PROVE  /\ hoprd'.gen = hoprd.gen /\ hoprd'.enabled = hoprd.enabled /\ hoprd'.wipe = hoprd.wipe
         /\ \/ hoprd'.observed = task.self.gen /\ hoprd'.phase = phase
            \/ hoprd'.observed = hoprd.observed /\ hoprd'.phase = hoprd.phase
BY DEF TypeOK, Hoprds, update_status

\* The next step of a task keeps its snapshot; a task that ends has none.
LEMMA NextStep ==
  ASSUME TypeOK
  PROVE  /\ \A pc : Goto(pc) => task'.pc = pc /\ task'.self = task.self
         /\ End => /\ task'.pc = "idle"
                   /\ seen'.loose = (seen.loose \/ job \in {"active", "retrying"})
                   /\ seen'.wiped = seen.wiped /\ seen'.blind = seen.blind
BY DEF TypeOK, Goto, End, Idle

\* A task writes the generation it has read, and the watch delivers what is there.
LEMMA GenerationStep ==
  ASSUME TypeOK, GenerationInv, [Next]_vars
  PROVE  GenerationInv'
<1> USE DEF TypeOK, Hoprds, GenerationInv, SameSpec
<1>1. CASE reconciler
  BY <1>1 DEF reconciler, determine_action, modify, Snapshot
<1>2. CASE recover
  BY <1>2 DEF recover, update_status, Lose, At, Idle, RunPhase
<1>3. CASE reject_change
  <2>1. task.pc # "idle" /\ (task'.pc = "idle" \/ task'.self = task.self) /\ UNCHANGED store
    BY <1>3, NextStep DEF reject_change, At
  <2>2. /\ hoprd'.gen = hoprd.gen /\ hoprd'.enabled = hoprd.enabled /\ hoprd'.wipe = hoprd.wipe
        /\ hoprd'.observed \in {hoprd.observed, task.self.gen}
    BY <1>3, StatusWrite DEF reject_change
  <2> QED BY <2>1, <2>2
<1>4. CASE modify_deployment
  BY <1>4 DEF modify_deployment, Lose, At, Goto, End, Idle, Replicas
<1>5. CASE scale_down
  BY <1>5 DEF scale_down, Lose, At, Goto
<1>6. CASE create_job
  BY <1>6 DEF create_job, Lose, At, Goto, End, Idle
<1>7. CASE open_watch
  BY <1>7 DEF open_watch, Lose, At, Goto, End, Idle
<1>8. CASE await_job
  BY <1>8 DEF await_job, Lose, At, Goto, End, Idle
<1>9. CASE scale_up
  BY <1>9 DEF scale_up, Lose, At, Goto
<1>10. CASE clear_flag
  <2>1. task.pc # "idle" /\ task'.self = task.self /\ UNCHANGED store
    BY <1>10, NextStep DEF clear_flag, At
  <2>2. hoprd'.observed = hoprd.observed /\ hoprd'.enabled = hoprd.enabled
    BY <1>10 DEF clear_flag
  <2>3. (hoprd'.gen = hoprd.gen /\ hoprd'.wipe = hoprd.wipe) \/ hoprd'.gen = hoprd.gen + 1
    BY <1>10 DEF clear_flag
  <2> QED BY <2>1, <2>2, <2>3
<1>11. CASE wait_deployment
  <2>1. task.pc # "idle" /\ task'.self = task.self /\ UNCHANGED store
    BY <1>11, NextStep DEF wait_deployment, At
  <2>2. /\ hoprd'.gen = hoprd.gen /\ hoprd'.enabled = hoprd.enabled /\ hoprd'.wipe = hoprd.wipe
        /\ hoprd'.observed \in {hoprd.observed, task.self.gen}
    BY <1>11, StatusWrite DEF wait_deployment
  <2> QED BY <2>1, <2>2
<1>12. CASE update_last_configuration
  BY <1>12 DEF update_last_configuration, Lose, At, End, Idle
<1>13. CASE UserEdit
  BY <1>13 DEF UserEdit
<1>14. CASE Deliver
  BY <1>14 DEF Deliver
<1>15. CASE PodStart \/ PodStop
  BY <1>15 DEF PodStart, PodStop
<1>16. CASE JobRuns \/ JobFails
  BY <1>16 DEF JobRuns, JobFails, Lose
<1>17. CASE Crash
  BY <1>17 DEF Crash, End, Idle
<1>18. CASE UNCHANGED vars
  BY <1>18 DEF vars
<1> QED
  BY <1>1, <1>2, <1>3, <1>4, <1>5, <1>6, <1>7, <1>8, <1>9, <1>10, <1>11, <1>12, <1>13, <1>14, <1>15, <1>16, <1>17, <1>18 DEF Next, Task

\* Only modify_deployment starts a reset or a wait.
LEMMA TaskStep ==
  ASSUME TypeOK, TaskInv, [Next]_vars
  PROVE  TaskInv'
<1> USE DEF TypeOK, Hoprds, TaskInv, ResetSteps, Replicas
<1>1. CASE reconciler
  BY <1>1 DEF reconciler, determine_action, modify, Snapshot
<1>2. CASE recover
  BY <1>2 DEF recover, update_status, Lose, At, Idle, RunPhase
<1>3. CASE reject_change
  BY <1>3 DEF reject_change, update_status, Lose, At, Goto, End, Idle
<1>4. CASE modify_deployment
  BY <1>4 DEF modify_deployment, Lose, At, Goto, End, Idle
<1>5. CASE scale_down
  BY <1>5 DEF scale_down, Lose, At, Goto
<1>6. CASE create_job
  BY <1>6 DEF create_job, Lose, At, Goto, End, Idle
<1>7. CASE open_watch
  BY <1>7 DEF open_watch, Lose, At, Goto, End, Idle
<1>8. CASE await_job
  BY <1>8 DEF await_job, Lose, At, Goto, End, Idle
<1>9. CASE scale_up
  BY <1>9 DEF scale_up, Lose, At, Goto
<1>10. CASE clear_flag
  BY <1>10 DEF clear_flag, Lose, At, Goto
<1>11. CASE wait_deployment
  BY <1>11 DEF wait_deployment, update_status, Lose, At, Goto, RunPhase
<1>12. CASE update_last_configuration
  BY <1>12 DEF update_last_configuration, Lose, At, End, Idle
<1>13. CASE UserEdit
  BY <1>13 DEF UserEdit
<1>14. CASE Deliver
  BY <1>14 DEF Deliver
<1>15. CASE PodStart \/ PodStop
  BY <1>15 DEF PodStart, PodStop
<1>16. CASE JobRuns \/ JobFails
  BY <1>16 DEF JobRuns, JobFails, Lose
<1>17. CASE Crash
  BY <1>17 DEF Crash, End, Idle
<1>18. CASE UNCHANGED vars
  BY <1>18 DEF vars
<1> QED
  BY <1>1, <1>2, <1>3, <1>4, <1>5, <1>6, <1>7, <1>8, <1>9, <1>10, <1>11, <1>12, <1>13, <1>14, <1>15, <1>16, <1>17, <1>18 DEF Next, Task

\* The Job is created after the scale-down, and left only when it is done or is given up.
LEMMA JobStep ==
  ASSUME TypeOK, JobInv, [Next]_vars
  PROVE  JobInv'
<1> USE DEF TypeOK, Hoprds, JobInv
<1>1. CASE reconciler
  <2>1. task.pc = "idle" /\ task'.pc \notin {"job", "scale_up", "unflag"}
    BY <1>1 DEF reconciler, At, modify
  <2> QED BY <1>1, <2>1 DEF reconciler
<1>2. CASE recover
  BY <1>2 DEF recover, update_status, Lose, At, Idle, RunPhase
<1>3. CASE reject_change
  BY <1>3 DEF reject_change, update_status, Lose, At, Goto, End, Idle
<1>4. CASE modify_deployment
  BY <1>4 DEF modify_deployment, Lose, At, Goto, End, Idle, Replicas
<1>5. CASE scale_down
  BY <1>5 DEF scale_down, Lose, At, Goto
<1>6. CASE create_job
  <2>1. CASE job' = "active" /\ Goto("watch") /\ seen' = [seen EXCEPT !.wiped = FALSE, !.loose = @ \/ job \in {"active", "retrying"}]
    <3>1. task'.pc = "watch" /\ task.pc = "job" /\ deploy' = deploy
      BY <1>6, <2>1, NextStep DEF create_job, At
    <3>2. seen'.loose = (seen.loose \/ job \in {"active", "retrying"})
      BY <2>1
    <3> QED BY <2>1, <3>1, <3>2
  <2>2. CASE End /\ UNCHANGED job
    BY <1>6, <2>2, NextStep DEF create_job, At
  <2> QED BY <1>6, <2>1, <2>2 DEF create_job
<1>7. CASE open_watch
  <2>1. CASE End
    BY <1>7, <2>1, NextStep DEF open_watch, At
  <2>2. CASE Goto(IF job \in {"active", "retrying"} THEN "await" ELSE "missed") /\ UNCHANGED seen
    BY <1>7, <2>2, NextStep DEF open_watch, At
  <2> QED BY <1>7, <2>1, <2>2 DEF open_watch
<1>8. CASE await_job
  <2>1. CASE End
    BY <1>8, <2>1, NextStep DEF await_job, At
  <2>2. CASE At("await") /\ job \in {"succeeded", "recovered"} /\ Goto("scale_up") /\ UNCHANGED seen
    BY <1>8, <2>2, NextStep DEF await_job, At
  <2>3. CASE Goto("scale_up") /\ seen' = [seen EXCEPT !.loose = @ \/ job \notin {"succeeded", "recovered"}]
    <3>1. seen'.loose = (seen.loose \/ job \notin {"succeeded", "recovered"}) /\ seen'.wiped = seen.wiped
      BY <2>3
    <3>2. task'.pc = "scale_up" /\ UNCHANGED <<job, deploy>>
      BY <1>8, <2>3, NextStep DEF await_job
    <3> QED BY <3>1, <3>2
  <2>4. CASE Goto("scale_up") /\ seen' = [seen EXCEPT !.loose = TRUE]
    BY <1>8, <2>4, NextStep DEF await_job
  <2> QED BY <1>8, <2>1, <2>2, <2>3, <2>4 DEF await_job
<1>9. CASE scale_up
  BY <1>9 DEF scale_up, Lose, At, Goto
<1>10. CASE clear_flag
  BY <1>10 DEF clear_flag, Lose, At, Goto
<1>11. CASE wait_deployment
  BY <1>11 DEF wait_deployment, update_status, Lose, At, Goto, RunPhase
<1>12. CASE update_last_configuration
  BY <1>12 DEF update_last_configuration, Lose, At, End, Idle
<1>13. CASE UserEdit
  BY <1>13 DEF UserEdit
<1>14. CASE Deliver
  BY <1>14 DEF Deliver
<1>15. CASE PodStart \/ PodStop
  BY <1>15 DEF PodStart, PodStop
<1>16. CASE JobRuns \/ JobFails
  BY <1>16 DEF JobRuns, JobFails, Lose
<1>17. CASE Crash
  BY <1>17 DEF Crash, End, Idle
<1>18. CASE UNCHANGED vars
  BY <1>18 DEF vars
<1> QED
  BY <1>1, <1>2, <1>3, <1>4, <1>5, <1>6, <1>7, <1>8, <1>9, <1>10, <1>11, <1>12, <1>13, <1>14, <1>15, <1>16, <1>17, <1>18 DEF Next, Task

\* A generation counts as observed only when the task that has read it has applied it: an observed generation that is
\* the current one is the one the task works on.
LEMMA ObservedStep ==
  ASSUME TypeOK, ObservedInv, GenerationInv, TaskInv, [Next]_vars
  PROVE  ObservedInv'
<1> USE DEF TypeOK, Hoprds, ObservedInv, GenerationInv, TaskInv, SameSpec, ResetSteps, Replicas, RunPhase
<1>1. CASE reconciler
  BY <1>1 DEF reconciler, determine_action, modify, Snapshot
<1>2. CASE recover
  <2>1. seen'.blind /\ task.pc # "idle"
    BY <1>2 DEF recover, At
  <2> QED BY <1>2, <2>1, StatusWrite DEF recover
<1>3. CASE reject_change
  BY <1>3 DEF reject_change, update_status, Lose, At, Goto, End, Idle
<1>4. CASE modify_deployment
  BY <1>4 DEF modify_deployment, Lose, At, Goto, End, Idle
<1>5. CASE scale_down
  BY <1>5 DEF scale_down, Lose, At, Goto
<1>6. CASE create_job
  BY <1>6 DEF create_job, Lose, At, Goto, End, Idle
<1>7. CASE open_watch
  BY <1>7 DEF open_watch, Lose, At, Goto, End, Idle
<1>8. CASE await_job
  BY <1>8 DEF await_job, Lose, At, Goto, End, Idle
<1>9. CASE scale_up
  BY <1>9 DEF scale_up, Lose, At, Goto
<1>10. CASE clear_flag
  <2>1. CASE UNCHANGED hoprd
    BY <1>10, <2>1 DEF clear_flag
  <2>2. CASE hoprd' = [hoprd EXCEPT !.wipe = FALSE, !.gen = IF hoprd.wipe THEN @ + 1 ELSE @]
    <3>1. hoprd'.observed = hoprd.observed /\ hoprd'.enabled = hoprd.enabled /\ hoprd'.phase = hoprd.phase
      BY <2>2
    <3>2. CASE hoprd.wipe
      BY <2>2, <3>1, <3>2
    <3>3. CASE ~hoprd.wipe
      BY <1>10, <2>2, <3>1, <3>3 DEF clear_flag
    <3> QED BY <3>2, <3>3
  <2> QED BY <1>10, <2>1, <2>2 DEF clear_flag
<1>11. CASE wait_deployment
  <2>1. task.pc = "wait" /\ UNCHANGED <<deploy, seen>>
    BY <1>11 DEF wait_deployment, At
  <2>2. CASE UNCHANGED hoprd
    BY <2>1, <2>2
  <2>3. CASE update_status(RunPhase(task.self))
    BY <2>1, <2>3, StatusWrite
  <2>4. CASE task.self.enabled /\ update_status("Running")
    BY <2>1, <2>4, StatusWrite
  <2> QED BY <1>11, <2>2, <2>3, <2>4 DEF wait_deployment
<1>12. CASE update_last_configuration
  BY <1>12 DEF update_last_configuration, Lose, At, End, Idle
<1>13. CASE UserEdit
  BY <1>13 DEF UserEdit
<1>14. CASE Deliver
  BY <1>14 DEF Deliver
<1>15. CASE PodStart \/ PodStop
  BY <1>15 DEF PodStart, PodStop
<1>16. CASE JobRuns \/ JobFails
  BY <1>16 DEF JobRuns, JobFails, Lose
<1>17. CASE Crash
  BY <1>17 DEF Crash, End, Idle
<1>18. CASE UNCHANGED vars
  BY <1>18 DEF vars
<1> QED
  BY <1>1, <1>2, <1>3, <1>4, <1>5, <1>6, <1>7, <1>8, <1>9, <1>10, <1>11, <1>12, <1>13, <1>14, <1>15, <1>16, <1>17, <1>18 DEF Next, Task

\* The inductive invariant of a node that is modified and reset.
THEOREM ResetInvariant == Spec => [](TypeOK /\ ResetInv)
<1>1. Init => TypeOK /\ ResetInv
  BY InitTyped, InitReset
<1>2. TypeOK /\ ResetInv /\ [Next]_vars => TypeOK' /\ ResetInv'
  BY NextTyped, GenerationStep, TaskStep, ObservedStep, JobStep DEF ResetInv
<1> QED BY <1>1, <1>2, PTL DEF Spec

-----------------------------------------------------------------------------
(***************************************************************************)
(* The properties.                                                         *)
(***************************************************************************)

\* When determine_action finds nothing to do, Deployment and phase are those of the spec, whatever was edited
\* while the watch cache lagged behind, whatever failed and whenever the operator died.
THEOREM AppliedWhenQuiet == Spec => []NoOpMeansApplied
<1>1. TypeOK /\ ResetInv => NoOpMeansApplied
  BY DEF TypeOK, Hoprds, ResetInv, GenerationInv, ObservedInv, NoOpMeansApplied, determine_action
<1> QED BY <1>1, ResetInvariant, PTL

\* apply_modification takes a request back only after the Job of this reset has emptied the volume.
THEOREM WipedBeforeCleared == Spec => ClearedMeansWiped
<1>1. ResetInv /\ [Next]_vars =>
        (hoprd.wipe /\ ~hoprd'.wipe /\ At("unflag") /\ ~seen.loose /\ budget' = budget => seen.wiped)
  BY DEF ResetInv, JobInv, At
<1> QED BY <1>1, ResetInvariant, PTL DEF Spec, ClearedMeansWiped

\* No pod starts on a volume that the Job of an awaited reset is still emptying: the scale-down comes before
\* the Job, and nothing scales up before the Job is done.
THEOREM JobBeforePod == Spec => StartsAfterJob
<1>1. TypeOK /\ ResetInv /\ [Next]_vars =>
        (pod = "none" /\ pod' = "running" => job \notin {"active", "retrying"} \/ seen.loose)
  <2> SUFFICES ASSUME TypeOK, ResetInv, [Next]_vars, pod = "none", pod' = "running"
               PROVE  job \notin {"active", "retrying"} \/ seen.loose
    OBVIOUS
  <2>1. PodStart
    BY DEF Next, Task, vars, reconciler, recover, reject_change, modify_deployment, scale_down, create_job,
           open_watch, await_job, scale_up, clear_flag, wait_deployment, update_last_configuration, UserEdit,
           Deliver, PodStop, JobRuns, JobFails, Crash
  <2> QED BY <2>1 DEF PodStart, ResetInv, JobInv
<1> QED BY <1>1, ResetInvariant, PTL DEF Spec, StartsAfterJob
=============================================================================
