# hoprd-operator: TLA+ models, checks and proofs

hoprd-operator is a Kubernetes operator (Rust, kube-rs, tokio) that runs HOPR
nodes. Users write four kinds of custom resources; four controllers in one
process reconcile them. This directory models the parts of the operator in
which several actors touch the same state, checks the models with TLC and
proves the most important results with TLAPS. `src/src/...` below is the
operator's own code; all line numbers of the model's definitions are in
`PROJECT.json` under `map`.

## 1. Inventory

### Components

| component (code) | state it keeps | operations | module |
|---|---|---|---|
| Hoprd controller (`hoprd/hoprd_controller.rs`, `hoprd_resource.rs`) | `Hoprd` objects: finalizer, status (phase, observed generation), last-applied annotation | create, modify, delete, lock_identity, notify_deletion_to_cluster | `IdentityLock`, `NodeReset` |
| Hoprd subresources (`hoprd_deployment.rs`, `hoprd_service.rs`, `hoprd_ingress.rs`) | Ingress, Service, Deployment of a node, the identity volume the Deployment mounts, its replicas, the Job of a reset | create, modify, delete by name, delete_database | `IdentityLock`, `NodeReset` |
| Nginx ports (`hoprd_ingress.rs`) | ConfigMaps `ingress-nginx-tcp` and `-udp`: port -> service | open_port, close_port, find_next_port | `IngressPorts` |
| ClusterHoprd controller (`cluster/*.rs`) | `ClusterHoprd` object: replicas, status (phase, observed generation, current_nodes) | create, modify, rescale, delete, update_status | `ClusterScale` |
| Shared state, start (`context_data.rs`, `main.rs`) | cached pools behind a tokio `RwLock` | ContextData::new, sync_identities, sync_identity_pools | `IdentityLock`, `PoolLife` |
| IdentityHoprd controller (`identity_hoprd/*.rs`) | `IdentityHoprd` object: finalizer, owner, status (phase, observed generation, node name); its volume claim | create, modify, delete, update_phase, unlock | `PoolLife`; the last two also in `IdentityLock` |
| IdentityPool controller (`identity_pool/*.rs`) | `IdentityPool` object: status (phase, observed generation, size, locked) | create, modify, delete, sync, get_ready_identity, update_status | `PoolLife`; the last two also in `IdentityLock` |
| Pool helpers (`identity_pool_{cronjob_faucet,service_account,service_monitor}.rs`) | ServiceMonitor, RBAC objects, funding CronJob of a pool | create, modify, delete | `PoolLife` |
| Conversion webhook (`webhook_server.rs`) | none | v1alpha2 <-> v1alpha3 of the four kinds | `WebhookConversion` |
| Bootstrap (`bootstrap_operator.rs`, `operator_config.rs`) | nginx Deployment ports, configuration | one read, one write at start | its port range is an assumption of `IngressPorts` |
| Events, constants, generated ServiceMonitor types, chart, metrics | - | - | not modelled: data without a protocol |

### How they interact

- Each controller runs **one reconciliation per object at a time**, but
  reconciliations of different objects run concurrently, and every `await` of an
  API call is a point where they interleave. A reconciliation works on a
  snapshot of its object; patches go by name, without a resourceVersion.
- `Hoprd::create` locks an identity: under the write lock of
  `ContextData.state` it lists the identity, patches its status to InUse and
  patches the lock count of the pool. `Hoprd::delete` releases it: the patch
  of the identity is made *outside* that lock, the patch of the count inside.
- `Hoprd::delete` of a node that belongs to a cluster calls
  `ClusterHoprd::update_status(NodeDeleted)`, which reads the cluster and
  patches its whole status in a second call; the task of the cluster does the same.
- `open_port` and `close_port` of different nodes read and write the same
  two ConfigMaps with no lock at all.
- `IdentityHoprd::create` and `delete` count in the same cached pool as the
  locks, while the task of the pool writes the whole status from a snapshot of
  its own. A deleted pool, a volume claim in use and an identity whose owner is
  gone are Kubernetes' business.
- A write through v1alpha2 passes through the webhook twice, status included, and
  the API server prunes what comes out by the schema of the version (chart `hoprd-crds`).
- Other services have ports in the two ConfigMaps too, and write them.
- Users create, edit and delete objects at any time; Kubernetes drops an object
  at once if it has no finalizer, and collects what a dropped object owned.

### What is hard here, and what correctness means

Interleavings of reconciliations between API calls; status writes whose
failure is only logged; errors that end a reconciliation half way; `unwrap`s
that end the process; a restart that has to repair what the crash left; a
phase that nobody resumes. The complete list, line by line, is under
`hazards` in `PROJECT.json`. The properties that make each part correct:

- *identity lock*: an identity is used by one node at a time, is locked as long
  as it is used, is released before its node goes, and the pool's count follows;
- *ports*: the range given to a node stays forwarded to it until it is
  closed, lies within the configured range and never hits another service;
- *pool and identities*: an identity that can be handed out has its own volume
  and keeps it while a node runs with it; the pool counts its identities, is
  funded if it asks for it, and deleted identities go;
- *reset*: a database is wiped before the request is taken back, never under a
  node that starts, and the node comes back;
- *conversion*: whichever version is used, what the user wrote is stored, and what
  is stored is served;
- *cluster*: the nodes, their numbers, `current_nodes` and the phase agree, the
  cluster comes to have the nodes it asks for and goes with them.

## 2. Modules

### `IdentityLock`

One pool in one namespace. `hoprd[h]` is the object (its life: absent, new,
finalized, terminating), `identity[i]` the identity's status, `pool` and
`cache` the field `status.locked` of the pool on the API server and in
`ContextData.state`, `writer` the holder of the write lock, `task[h]` the
reconciliation of `h` (its next call, and the snapshot it works on), `sub` and
`mount` the subresources and the identity that the Deployment mounts.

A handler is a sequence of actions, one per API call: `create_init`,
`lock_identity`, `get_ready_identity`, `claim_identity`, `count_lock`,
`add_finalizer`, `create_subresource`, `set_running_status`,
`default_delete_database` are `Hoprd::create`; `recover`, `reject_change`,
`modify_deployment`, `await_modified`, `update_last_configuration` are
`Hoprd::modify`; `delete_begin`, `delete_subresource`, `get_identity`,
`release_identity`, `unlock_pool`, `count_unlock`,
`notify_deletion_to_cluster`, `delete_finalizer` are `Hoprd::delete`.
`start_controllers`, `sync_release`, `sync_uncount`, `sync_identity_pools` are
a start of the process. A call whose name is in `Lossy` may fail, and the
action then does what the code does with that error: log it and go on, or end
the reconciliation. An error that is unwrapped, and an event that cannot be
published, is a `Crash` before the call. `determine_action` and `first_step`
decide from the object what a reconciliation does, including the `unwrap` of a
missing status (`Panic`).

Abstractions: `Running` stands for Running and Stopped; a spec is its
`identity_name` and whether `deleteDatabase` is set (the only fields that the
control flow looks at); a last-applied annotation that cannot be parsed
behaves as one with a changed field.

### `IdentityLease`

What the lock promises, in two variables: `holder`, the node each identity is
leased to, and `user`, the identity each node runs with. `Lease`, `Start`,
`Stop`, `Return`. `IdentityLock` implements it with `holder` the node name in
the status of the identity and `user` what the Deployment of an existing node
mounts (`LeaseSpec`).

### `PoolLife`

One pool, its helpers, identities and the nodes that lock them. `pool` and
`identity[i]` are the objects (life, uid, generation, status, and the outcome
of comparing the last-applied annotation), `cache` is the pool in
`ContextData.state`, `helper` and `pvc` hold the uid of their owner. `ptask` and
`itask[i]` are the reconciliations with the part of their snapshot that is read
later. Of a Hoprd only the steps on its identity are kept; `IdentityLock` has
the others. The handlers are cut at their writes and at the reads they decide
on: `check_wallet` to `add_identity_pool` is `IdentityPool::create`,
`modify_cron_job` and `modify_pool` its modify, `delete_service_monitor` to
`remove_identity_pool` its delete; `check` to `create_ready` is
`IdentityHoprd::create`, `modify_identity` its modify, `delete_pvc` to
`delete_finalizer` its delete. An unwrap of a missing status or pool is `Die`.
`odd` remembers the objects that met one of the races listed in section 3,
so that the properties can say what holds of all others; it has no influence on
any action. A user may delete a node at any time: `UserDeleteNode` is a deletion before
the finalizer (`wait`, or `locked` for all steps from `lock_identity` on, since none of
them reads the node), after which the identity stays locked until the next start;
later on the node stays for `delete_deployment`.

### `NodeReset`

`Hoprd::modify` of one node in more detail than `IdentityLock` has:
`spec.enabled`, `spec.deleteDatabase` and the Job. `store` is the object in the
watch cache of the controller, which lags behind `hoprd`; `deploy` is
`spec.replicas`, `pod` and `job` what Kubernetes makes of it. `scale_down`,
`create_job`, `open_watch`, `await_job`, `scale_up` are `delete_database`.
`modify_deployment` begins with `get_identity`: a node without a linked identity
becomes Failed (`"link"` in `Lossy`). The
records `seen.loose` (the operator no longer knows what a Job does) and
`seen.blind` (a node was taken back from Failed) are history.

### `WebhookConversion`

The conversion functions as operators on records, and around them an object that is
written through either version while the controllers write its status. The record has
every field in which the two schemas of the chart `hoprd-crds` differ, in name, place or
being required (`dnsName`, `identityName`, `service` and its ports, the v1alpha2 release
and force flags, the addresses); `payload` stands for the fields that both have.
`Specs3`, `Specs2` and `Valid2` are the schemas, `prune_v1alpha2` and `prune_v1alpha3` what
the API server drops after a conversion: `Served` is the object as a client of v1alpha2 reads
it, `Storable` what becomes of one it writes. A conversion that fails for want of a status
returns the object as far as it got, as the handler does. The status functions of the four
kinds take the generation from different places (the snapshot, a fresh get, the cache), so
that `update_status` writes any generation that the object has had. `Lenient = TRUE` lets
the API server accept a v1alpha2 status without `updateTimestamp`; with FALSE it refuses
every write through v1alpha2 once there is a status, which is a restriction of the same
model. `pruned` is history: a write through v1alpha2 came after the last one of v1alpha3.

### `IngressPorts`

`tcp` and `udp` are the two ConfigMaps, `node[h]` the step a node is at,
`copy[h]` the filtered ConfigMap that `close_port` is about to write.
`find_next_port`, `Exceeds` (the u16 check), `Opened` and `Closed` are the
code's functions. The JSON patch that replaces `/data` is refused on an empty
ConfigMap, and its error is unwrapped: a crash. `Contains` says whose entries
contain whose name, because `close_port` matches substrings. `MaxTasks`
bounds how many nodes are created or deleted at the same time.

Each ConfigMap starts with any of the `Foreign` ports, independently of the other.
`object[h]` says whether the Hoprd has its finalizer (`add_finalizer` only logs an error):
one without can go at any step of its task (`vanish`), which goes on, or be created again.
`type[h]` is `service.type`; only a ClusterIP opens and closes ports, and users may edit the
field (`edit_type`). `Others` is another service that opens or closes a port.
`Troubles` lists which of crash, lost finalizer, edit and foreign write may happen,
`MaxTrouble` how often. `stray` (nodes that went, or changed their type, without a
`close_port` since) and `raced` (ports that another service wrote while a task was about
to write what it had read) are history, for the properties.

### `ClusterScale`

One `ClusterHoprd`; node `n` is the number in its name. `node[n]` is what the
cluster sees of a node, `dying[n]` the step of its `Hoprd::delete`, `task` the
reconciliation of the cluster, `draft[w]` the status that an `update_status`
of writer `w` has computed from its read and not yet patched (0 is the
cluster's task, `n` the deletion of node `n`). `Written` and `AfterUpdate` list
the phases that the handlers write and what they do next. `create_node` (the list, and
the event after it) and `create_hoprd_resource` (the POST) are two steps, as are
`delete_node` (the get) and `erase_node` (the delete): nodes go in between. `NodeStarts` is
the Hoprd controller, seen from the cluster; `CollectGarbage` is Kubernetes. `odd` is
history: `"count"` when a node is miscounted, `"scale"` when a task leaves the cluster half
scaled or makes it Ready without looking. Each is noted at the very step where the code
goes wrong, and nowhere else; section 3 lists them.

### `MCIdentityLock`, `MCIngressPorts`

The values of function-valued constants. The other modules need none.

### The `*_proofs` modules

The theorems of section 4, one module for each of `NodeReset`, `IngressPorts`,
`ClusterScale`, `PoolLife` and `WebhookConversion`; those of `IdentityLock` are in
`IdentityLock_proofs` (types, write lock), `IdentityOwner_proofs` (who holds and
who uses an identity) and `IdentityLease_proofs` (the refinement).

Definitions introduced by a comment "Mutant" are plausible mistakes in the
definition after them. They are not used by any specification; put in the place
of the original, each makes a property of a run fail.

## 3. Runs

`tlc -workers 2 -config <run>.cfg <module>`. All runs say
`CHECK_DEADLOCK FALSE`: when users and bounds are exhausted and every object
is in its final state, nothing is left to do.

| run | instance | checks |
|---|---|---|
| `contended` | 2 nodes, each created twice, 1 identity, 1 crash, one failure of any call but a status write and the pool patch | `TypeOK`, `MutexInv`, `HolderInv`, `ExclusiveUse`, `UsedIdentityIsLocked`, `LocksAccounted`, `RemovedClean`, `LeaseSpec` |
| `edited` | 2 identities, one edit of `identity_name`, one crash, one failure of a status write or of a patch of identity or pool | `LockNeverStolen` |
| `live` | 2 nodes with an identity each, one edit, `FairSpec` | `DeletionCompletes`, `NodeStarts` |
| `ports_serial` | 3 nodes of sizes 1, 2, 2, created twice, around a port that another service may have for either protocol, one task at a time, one trouble: a crash, a lost finalizer, an edit of `service.type`, a foreign write | `PortsServed`, `PortsClosed` |
| `ports_racing` | 2 nodes of sizes 2 and 0, created twice, three ports that other services may have for either protocol, one of them out of range, two tasks at a time, one trouble | `PortsInRange`, `RefusedOnlyIfFull`, `ForeignKept` |
| `cluster_scaling` | replicas 0, 1, 3, three edits, a deletion, `FairSpec` | `NodesContiguous`, `OnlySurplusRemoved`, `RemovedTogether`, `Settles`, `DeletionCompletes` |
| `cluster_faults` | replicas 1, 2, two pools, `apply` and `edit`, an edit at any time, a node deleted by hand, a failure of any call, a crash, early readiness | `CountExact`, `NoOpMeansScaled`, `FirstGapFilled` |
| `pool_life` | 1 pool, 1 identity, 1 node, two edits, crashes or failed calls in all | `ReadyHasVolume`, `UsedIsWhole`, `FundingFollows`, `RemovedWhole` |
| `pool_live` | the identity created twice, one edit or crash, no failed call, `FairSpec` | `SizeExact`, `DeletionCompletes`, `IdentityServed` |
| `webhook` | one object of each kind, four writes, any status writes | `StoredIsV3`, `WrittenIsStored`, `ServedIsV2`, `TouchInert` |
| `node_reset` | two edits, one crash, one failed call, `FairSpec` | `NoOpMeansApplied`, `ClearedMeansWiped`, `StartsAfterJob`, `ResetServed`, `NodeSettles` |
| `identity_homonym` | 2 nodes ask for the identity named after the first | `ExclusiveUse` fails |

`TypeOK` of `IngressPorts`, `ClusterScale`, `PoolLife` and `NodeReset` holds as well
and can be added to any of their configurations.

**Bounds.** Two nodes and one identity suffice for a race for an identity;
a second creation of each node lets the subresources of an earlier object, an
identity locked by an earlier object and a task that survives its object
appear. One crash and one failed call reach every error path and every state
a restart can find; several crashes add restarts from states that a restart has
already repaired. In `IngressPorts` a u16 has 10 or 16 values, so that the end
of the range and the end of the type are near; the ports of other services
make gaps of every size at the start, in the middle and at the end; one trouble is
enough for each way in which a node or a service can lose or keep a port it should
not. Three replicas make scaling up and down take several rounds; with two replicas,
a third number and one of each fault, a hole, a stale list, an overwritten count and an
edit in the middle of a step all occur. In `PoolLife` an
identity, its pool and a node are all that meet in a race; two troubles let a
crash follow a failed call or an edit follow a rejected one, and a second
creation lets an identity meet the volume and the tasks of its predecessor. In
`NodeReset` the second edit comes during, or after, the reset that the first
asked for. Four writes of `WebhookConversion` are a creation, an edit through
each version and a touch, in any order. `MaxCreations`, `MaxEdits`, `MaxKills`,
`MaxCrashes`, `MaxFailures`, `MaxTasks`, `MaxNode`, `MaxPools`, `MaxTrouble`, `U16` and
`MaxWrites` are the names of all bounds. The proofs hold for every value of theirs.

**Fairness.** `FairSpec` of `IdentityLock`: weak fairness of each task (tokio
polls every ready task, and kube-rs requeues every object every few seconds),
strong fairness of taking the write lock (tokio's `RwLock` is FIFO, a waiting
writer cannot be overtaken for ever), weak fairness of the garbage collector
and of the start. `FairSpec` of `ClusterScale`: weak fairness of the tasks,
and of Deployments becoming ready, which is the assumption `wait_deployment`
makes of Kubernetes. `FairSpec` of `PoolLife`: strong fairness of the task of the
pool, of each identity and of each node, because each of them takes the FIFO
write lock, and weak fairness of garbage collection and of the start. Of
`NodeReset`: weak fairness of the task, of the watch, of the pods, and of a Job
that has not been given up. Users never have to act, and nothing has to fail.

### Where the code departs from what it says

One of the violations is a run (`findings` in `PROJECT.json`):

- `identity_homonym`: `get_ready_identity` (`identity_pool_resource.rs:341`)
  compares the holder of an identity with the *identity's* name. When a node
  has the name of its identity, as in the README of the operator, any other
  node that asks for this identity gets it too.

The models show the following as well. Each can be seen by changing the
constants of a run as indicated.

- `live` with `Lossy = {"delete"}` and `MaxFailures = 1`: any error in
  `Hoprd::delete` after its first step leaves the object in phase Deleting, for
  which `determine_action` (`hoprd_controller.rs:54`) says NoOp for ever:
  `DeletionCompletes` fails. A crash there does the same.
- `contended` with `"pool"` in `Lossy`, or without the guard of `LocksAccounted`
  on crashes: the identity and the count of the pool differ. At the next start
  `sync_identity_pools` (`context_data.rs:93`) repairs the object but caches the pool
  as it was listed before, and the next lock or unlock writes the wrong count back.
- `contended` with identities x and y, `EditedWish` and an edit: the immutable fields are compared
  with an annotation that `kubectl apply` rewrites together with the spec, so that
  a changed `identity_name` is deployed without a lock: `ExclusiveUse` and `RemovedClean` fail.
- `contended` with `"update_status"` and `"notify"` in `Lossy` and two failures:
  the write of phase Deleting is lost, the deletion runs twice, and its second
  `unlock` (`identity_hoprd_resource.rs:296`) releases an identity that another
  node has locked in the meantime: `UsedIdentityIsLocked` fails. A finalizer
  whose status was never written makes `determine_action` panic at every start
  (`hoprd_controller.rs:52`); `edited` takes these panics as crashes.
- `ports_serial` with `MaxTasks = 2`: free ports are read and taken in different
  calls, without a lock, so that two nodes created at the same time get the same
  range (`PortsServed`, `hoprd_ingress.rs:128`); one of two concurrent `close_port`
  writes the ports of the other back (`PortsClosed`). With a `Contains` in which the
  name of one node is the beginning of another's (node-1, node-10): closing the
  one closes the other (`PortsServed`).
- The check of `open_port` (`hoprd_ingress.rs:133`) is off by one: a range that
  ends at `port_max` is refused, which ends the process; `Fits` in
  `RefusedOnlyIfFull` therefore leaves the last port out. With `PortMax` close
  to the end of u16 the sum wraps and `PortsInRange` fails (`ports_racing` with
  `PortMax = 8` and 8 among the foreign ports).
- `IngressPorts` without `\notin stray` in `PortsClosed`: an object whose finalizer was not
  added (`resource_generics.rs:25`) goes while its ports are being opened, or later, and
  nobody closes them; `service.type` is not among the immutable fields
  (`hoprd_resource.rs:327`), so that a node edited to LoadBalancer is deleted without
  `close_port` (`hoprd_ingress.rs:109`). Its ports stay taken until a node of the same name
  is deleted as a ClusterIP.
- `ports_racing` without `raced` in `ForeignKept`: what another service writes between the
  get and the replace of `close_port` (`hoprd_ingress.rs:219`, `:232`) is undone. Without
  `tcp[p] = Other`: `get_available_ports` looks at TCP only (`:171`), so that the UDP port of a
  service that has no TCP port of that number is overwritten (`:158`).
- `cluster_faults`, the events recorded in `odd` (drop it from `CountExact` or
  `NoOpMeansScaled` to see each). Miscounted: two `update_status` interleave and one
  overwrites the other, or the patch is lost and only logged (`cluster_hoprd.rs:304`); a
  node goes before it has its finalizer, when it had been counted, or while it is
  about to be (`Miscounted`); the wait for a new node gives up, or ends early for one that has
  gone; the operator dies between the creation and the count. Left Scaling, for which
  `rescale` waits for ever (`:245`): the POST fails, the awaited node is deleted, `delete_node`
  finds no node with the number of the count (`:397`) or one that has been subtracted
  already, a crash in between. Ready without the nodes: a cluster recovered from Failed; an
  edit, or a count, that arrived after the snapshot that the decision was made from and
  is marked as observed by the fresh read of `update_status` (`:283`).
- `FirstGapFilled` is about the list that `create_node` has read. A node of the list that
  goes before the POST (`cluster_hoprd.rs:352`) leaves a smaller number free:
  `1..(n - 1) \subseteq Existing` in its place fails in `cluster_faults`.
- `PoolLife`, the races recorded in `odd` (drop `\ odd`, or `i \notin odd`, from a
  property to see each): an identity is claimed after its deletion has begun,
  since `IdentityHoprd::delete` decides on the phase it was reconciled with
  (`identity_hoprd_resource.rs:204`), and the node runs on a volume that goes
  (`UsedIsWhole`, `RemovedWhole`); a rejected edit of an identity InUse clears its
  node, and the next edit makes it Ready (`:164`, `:189`); an identity that is
  created between `update_status(Ready)` and `add_identity_pool` of its pool stays
  Initialized (`:145`), and is subtracted from the size when it is deleted; an
  identity re-created while a task still works on its predecessor; a lost
  `add_finalizer`. Of the pool: a pool recovered from Failed becomes Ready
  without applying its spec (`identity_pool_resource.rs:162`); a re-created pool
  meets the cron job or the cache entry of its predecessor.
- `PoolLife`, the size of the pool. `SizeExact` is about the cached copy; the pool object may
  fall behind it, since the task of the pool writes the size of its own snapshot
  (`identity_pool_resource.rs:207`). `IdentityPool::delete` decides on such a snapshot
  (`:218`) and does not write the phase Deleting (`:262`), so that the pool stays Ready for
  `check_identity_pool` and an identity can be created during the deletion:
  `[][PoolExists /\ ~PoolExists' /\ Faultless => Counted = {}]_vars` fails in
  `pool_live`, the pool goes under an identity. With `MaxPools = 2` the next pool of the
  name starts from size 0 while identities of the first are left (`SizeExact`).
- `PoolLife` after a fault (drop `Faultless`): a restart caches the pool with the
  generation of a pending edit, and the next lock marks the edit as observed
  (`FundingFollows`); a failed `delete_finalizer` counts an identity off twice
  (`SizeExact`); a failed call of `IdentityPool::create` after `add_finalizer` leaves a
  finalizer without a status, and the operator panics at every reconciliation
  of the pool (`identity_pool_controller.rs:49`). `delete_rbac`
  (`identity_pool_service_account.rs:24`) passes name and namespace in the wrong
  order; the garbage collector has to delete what it leaves. The deletion of an
  identity whose pool is missing unwraps an error (`identity_hoprd_resource.rs:233`),
  and the operator dies at every attempt.
- `WebhookConversion`: `spec.dnsName` is in the schema of v1alpha3 only, so that any write
  through v1alpha2, a label included, drops it (`pruned` in `WrittenIsStored`, `!.dns` in
  `TouchInert`). Without `wanted.service =>` in `WrittenIsStored`: the ports of a v1alpha2
  object without a service are lost (`webhook_server.rs:202`); such an object is served without
  the required `portsAllocation` and cannot be touched through v1alpha2 (`ServedIsV2`), and the
  operator cannot read it, as it cannot read a Hoprd without `identityName`, which v1alpha2
  allows (`Complete` in `StoredIsV3`). `add_observed_generation` (`:142`) marks the generation it
  finds as observed, so that `[][edit_v1alpha2 /\ stored.status.present /\ stored'.gen > stored.gen
  => stored'.status.observed < stored'.gen]_vars` fails: an edit made through v1alpha2 is
  not reconciled. That edits made through v1alpha3 are applied is checked where the code of
  each kind is modelled (`NoOpMeansApplied`, `FundingFollows`, `NoOpMeansScaled`, `Settles`).
- `NodeReset` without `seen.loose`: the watch is opened after the Job is created,
  the loop of `hoprd_deployment.rs:448` ignores Added and takes the end of the
  stream for success, so that the request is taken back, or the pod starts,
  before the Job has run (`ClearedMeansWiped`, `StartsAfterJob`). A pod that is
  still stopping, or was never scaled down because the patch failed, shares
  the volume with the Job. Without `~hoprd.wipe`: a disabled node whose flag could not be
  taken back keeps the replica that the reset gave it (`NoOpMeansApplied`). A
  second request made while a reset runs is erased together with the first.

## 4. Proofs

`tlapm <module>_proofs.tla` checks the theorems of a module. All are about its
`Spec`, for any sets of nodes, identities, ports and values and any bounds,
under the named assumptions of the module (a name is not the missing name,
bounds are natural numbers, the port range is one that the bootstrap accepts).
Where a theorem needs more it says so as a hypothesis on the constants; none
of these can be dropped, as the counterexamples of section 3 show, and the
run that checks the same property satisfies them. Every inductive invariant
was checked with TLC before it was proved. Each proof has one case per action, and under it
one step per part of the invariant that the action can disturb.

### `IdentityLock`

- `TypeCorrect`: `Spec => []TypeOK`.
- `Mutex`: `Spec => [](TypeOK /\ MutexInv)`, the mutual exclusion of the write lock.
- `NoStolenLock`: `Spec => LockNeverStolen`. Between the listing of an
  identity and the patch that claims it the task holds the write lock. The
  release is made outside the lock, but only ever frees. The invariant is
  `MutexInv`: who is at a critical step holds the lock; Ready and "no node" mean
  the same; an identity about to be claimed is still Ready. No hypothesis:
  this holds with edits, lost status writes, failures, crashes and homonyms.
- `HoldersKnown`, `OneUser`, `UsedIsLocked`, `RemovalIsClean`: under
  `FixedNames` (users do not change the identity of a node), `SafeNames` (only
  the node itself asks for an identity that has the name of a node) and
  `StatusesWritten` (`Hoprd::update_status` does not fail), no two nodes use one
  identity, a used identity is locked by its user, and a node is removed
  only when it has no subresource and no identity. Each hypothesis is needed:
  section 3 has the counterexample to each (edit, `identity_homonym`, lost status).
- `LocksCounted`: under the same hypotheses and `CountsWritten` (the patch of the
  pool does not fail), `Spec => []LocksAccounted`. `AccountInv` adds that the operator
  is up until it crashes and that the sets of locks and unlocks under way are
  finite. `HolderInv` is what makes a release free exactly one identity, so that
  the count goes down by one for one; `MutexInv` does the same for a claim.
- `Implements`: under the first three of these hypotheses `Spec => LeaseSpec`: every step of the
  operator leases an identity (`claim_identity`), starts a node (the Deployment is
  created), stops one (the Deployment, or the object, goes), takes an identity
  back (`release_identity`, `sync_release`), or is a stutter. `HolderInv` and
  `MutexInv` give the guards of the abstract actions: a claimed identity is
  free, a mounted one is held by its node, a released one is not mounted.

`ExclusiveUse` is not inductive: that the Deployment of `h` mounts an identity
locked by `h` depends on what its task, the annotation, the finalizer and the phase
were when it was created. `HolderInv` states for each node: `ObjectInv` (uids;
no task while the operator is down), `OwnerInv` (a node holds its identity
while it has a Deployment, while it is finalized and not being deleted, and at
every step of `Holding`; what the start is about to release is not used) and
`DeletionInv` (how far a deletion has come: phase Deleting is written before the
first subresource goes, and stays). A finalizer is only added by a task that
holds the identity, which is why a node that still has one and is not in phase
Deleting is an owner; this is also what makes a crash harmless, since
`sync_identities` releases only identities whose node does not exist. The proof
has one lemma per group of actions (`TaskStep` for steps that leave the
identities alone, `OtherNode` for the nodes that a step does not touch) and
one case per action. `contended` checks the same invariant on an instance.

### `PoolLife`

`WholeInvariant`, `ReadyVolume` (`ReadyHasVolume`), `UsedWhole` (`UsedIsWhole`),
`DeletedWhole` (`RemovedWhole`) and `TypeCorrect`, without hypotheses: with edits,
deletions, re-creations, failed calls and crashes, for every identity that met none
of the races in `odd`. `WholeInv` says of each identity what its phase tells about
its claim (`ObjectInv`: no phase without a finalizer, none but the first without a
claim of its own), what its task may still rely on (`TaskInv`: the claim exists from
`init` on; the steps of a deletion are taken only by an identity that is not InUse;
the claim is gone before `unfinalize`), of each node that it holds its identity alone,
or is about to claim one that nobody holds (`HolderInv`), that the write
lock excludes (`LockInv`), and that a start releases only what nobody holds
(`UpInv`). `UsedIsWhole` alone is not inductive: that the claim survives depends on
how far the task of the identity has come when a node claims it, and on
`sync_identities` not freeing an identity under a node that outlived a crash.

`FundingApplied` (`FundingFollows`), without hypotheses. The property speaks of a
pool at rest, but whether an edit of `spec.funding` can be missed depends on three
copies of the pool: the object, the snapshot of its task and the cached copy that
locks and identities write the status from. `PoolInv` says, until the first fault:
the write lock is held only to count in a cached pool (`QuietInv`); the generations
of object, snapshot and cache are in this order, and a snapshot of the current
generation has the current funding (`KnownInv`); the pool is not cached before it is
created, and has no cron job before that step (`StageInv`); the cron job is that of the
snapshot once applied, and that of the spec when the cache has the current generation
(`CronInv`). The last part is why a lock, which marks the generation of the cached pool
as observed, hides nothing: `apply_modification` does not renew the cache, so that its
generation is current only if no edit has come since the pool was added.

`SizeIsExact` (`SizeExact`) under `OnePool`: the pool is created once; section 3 has
the counterexample for a second pool. `SizeInv` adds that an identity is Initialized
only while its own task counts it, and that nothing is counted, in the
object or in the snapshot that `add_identity_pool` is going to cache, before the pool is
cached. The proof has two halves. `SizeSteps`: a step of an identity or a node leaves the set
of counted identities alone, or adds or takes away one and counts it (`OneCounted`,
`CountFacts`). `SizeNext`: a step of the pool's side leaves the set and the cached size alone,
caches the empty pool, or drops the cache. `FS_AddElement` and `FS_RemoveElement` of the library
turn this into the cardinality.

### `NodeReset`

`AppliedWhenQuiet` (`NoOpMeansApplied`), `WipedBeforeCleared` (`ClearedMeansWiped`),
`JobBeforePod` (`StartsAfterJob`) and `TypeCorrect`, without hypotheses. The
invariant `ResetInv` follows the generations from the object over the
lagging watch cache to the snapshot and back into the status
(`GenerationInv`), says that an observed generation has been applied
(`ObservedInv`), and at which steps which Job runs (`JobInv`).

### `IngressPorts`

- `RefusedIfFull` (`RefusedOnlyIfFull`), without hypotheses: `NextPortFree` and the
  lemmas after it show of `find_next_port` that it returns free ports and misses no gap.
- `OpensInRange` (`PortsInRange`) and `ForeignPortsKept` (`ForeignKept`) under
  `RoomAbove`: above `port_max` a u16 has room for the largest allocation, which is so
  for every configuration in the repository (9000 to 10000). Tasks may race, other services
  have any ports and write them, objects vanish: `ForeignInv` says that every copy about to
  be written and every range about to be opened respects the ports of the other services,
  but for those in `raced`.
- `NodesServed` (`PortsServed`) and `DeletedClosed` (`PortsClosed`) under `RoomAbove`
  and `Serial`: one task at a time, and no name that contains another. `SerialInv` says
  that the copy of `close_port` is not stale, which protocol is open at each step, and
  that a node outside `stray` opens ports only as an existing ClusterIP and has none left
  when it is a LoadBalancer, after `close_port`, or absent (`GoneInv`).

### `ClusterScale`

Without hypotheses, for any edits, deletions, failures and crashes:

- `FirstGapIsFilled` (`FirstGapFilled`) and `TypeCorrect`. `ListInv` says that between the
  list and the POST the task has the first number that is not in its list.
- `CountIsExact` (`CountExact`). The count differs from the number of nodes by what is under
  way: a node that is created and not yet counted, nodes that are deleted and not yet
  subtracted. `Flow` says what each step of the task, of a `Hoprd::delete` and of a draft may
  be; `CountInv` then says that, unless `"count" \in odd`, `current_nodes` is the number of
  nodes that are `Counted`, or that a deletion is `Wedged` and will never be quiet. A patch
  whose count is not the one it would compute now is in `odd` by its definition; the proof
  shows that no other step makes them differ, and `StepKinds` sorts the steps by what they
  do to object, nodes and status.
- `ScaledWhenQuiet` (`NoOpMeansScaled`). `ScaleInv` says, unless something is in `odd`, that a
  Ready status of the last generation, and a draft of one, has the replicas of the spec as
  its count (`ReadyStatus`, `ReadyDraft`), and that a cluster which is Scaling has a task at a
  step of the scaling, or a node whose deletion will end it (`Watched`); with `CountInv` the
  count is the number of nodes.

Under `Calm` (no failed call, no crash, no node deleted by hand, no edit during a
reconciliation, and `wait_deployment` waits), with unlimited edits between reconciliations
and a deletion: `NumberedWithoutGap`, `SurplusOnly`, `NodesGoFirst`. Holes are exactly what
faults make, and a cluster that loses count may remove a node too many. `CalmInv` ties the
set of nodes to `current_nodes` at each step of the task and of `Hoprd::delete`, and says
that a status about to be written is the one that would be computed now: the two writers
of the status take turns.

### `WebhookConversion`

`StoredV3` (`StoredIsV3`), `WrittenStored` (`WrittenIsStored`), `ServedV2` (`ServedIsV2`),
`TouchIsInert` (`TouchInert`), without hypotheses. The lemmas before them say what each
conversion and the pruning after it return, of objects with any field present or missing;
`StoredInvariant` gives the shape of a stored object of each kind, on which the two
conversions are inverse but for `dnsName` and ports left out.

### Only model-checked

- Liveness (`DeletionCompletes`, `NodeStarts`, `Settles`, `IdentityServed`,
  `ResetServed`, `NodeSettles`): out of reach of the prover.

Every other property of the passing runs is stated by a theorem.

## 5. Limits

- A reconciliation starts from the current object; only `NodeReset` has a watch
  cache that lags behind. The operator has one replica and the strategy
  Recreate, so there is one process.
- One pool and one namespace. The identities of `IdentityLock` are permanent;
  their life, and what it does to a node, is in `PoolLife`.
- In `IdentityLock` `deleteDatabase` is only unset or set; its effect is in `NodeReset`.
- Foreground deletion, and edits of subresources by hand, are not modelled.
- Not modelled: the contents of pods, cron jobs, RBAC rules and service monitors,
  events and log lines (data that no control flow reads), the generated types of
  `servicemonitor.rs`, the TLS setup of the webhook server, the patch of the nginx
  Deployment at start (one read and one write, before any controller runs), the
  charts and the metrics script.

## 6. Plan

Done: all controllers, the shared state, ports, webhook and reset; the
identity lock with its refinement of `IdentityLease`; proofs of every safety property
that a passing run checks. Left, should the code change: the watch cache of
`NodeReset` for the other controllers, several pools that share nodes, and the size of
the pool object (in place of the cached one) once `IdentityPool::delete` reads it afresh.
