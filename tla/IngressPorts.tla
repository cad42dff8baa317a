---------------------------- MODULE IngressPorts ----------------------------
(***************************************************************************)
(* The ports of the nginx ingress (hoprd_ingress.rs).  Two ConfigMaps,     *)
(* ingress-nginx-tcp and ingress-nginx-udp, map a port to the service that *)
(* nginx forwards it to.  open_port gives a ClusterIP node a range of      *)
(* consecutive ports, close_port takes them back.  Both read a ConfigMap   *)
(* and write it in later calls, without a lock, and the tasks of different *)
(* nodes interleave between the calls.  An error of either is unwrapped by *)
(* create_ingress or delete_ingress, hence a crash of the operator.        *)
(* The ConfigMaps are shared with other services, which write them too.    *)
(***************************************************************************)
(* A node's object may go without close_port: add_finalizer only logs its  *)
(* error, and an object without finalizer goes at once; and delete_ingress *)
(* closes ports only if the service is of type ClusterIP when the node is  *)
(* deleted, a field that the user may edit.                                *)
(***************************************************************************)
EXTENDS Integers, FiniteSets

CONSTANTS
  Nodes,        \* the Hoprd nodes
  NoNode,       \* the port is not in the ConfigMap
  Other,        \* the port belongs to a service that is not a Hoprd node
  PortMin,      \* ingress.port_min
  PortMax,      \* ingress.port_max
  U16,          \* how many values a u16 has
  Allocation,   \* service.ports_allocation of each node
  Contains,     \* the nodes g such that "namespace/g:port" contains "namespace/h", for each h
  Foreign,      \* the ports that other services may have, in either ConfigMap
  MaxTasks,     \* how many nodes are created or deleted at a time
  MaxCreations, \* how often each node is created
  Troubles,     \* what else may happen: a subset of TroubleKinds
  MaxTrouble    \* how often it happens

ASSUME PortsAssumption ==
  /\ PortMin \in Nat /\ PortMax \in Nat /\ U16 \in Nat
  /\ PortMin <= PortMax /\ PortMax + 1 < U16   \* open_nginx_deployment_ports refuses anything else
  /\ Foreign \subseteq 0..(U16 - 1)

ASSUME NodesAssumption ==
  /\ NoNode \notin Nodes /\ Other \notin Nodes /\ Other # NoNode
  /\ Allocation \in [Nodes -> 0..(U16 - 1)]
  /\ Contains \in [Nodes -> SUBSET Nodes]
  /\ \A h \in Nodes : h \in Contains[h]

\* The operator dies (besides the crashes by a refused allocation), the call of add_finalizer fails,
\* the user edits service.type, or another service writes a ConfigMap.
TroubleKinds == {"crash", "finalizer", "edit", "others"}

ASSUME LimitsAssumption ==
  /\ MaxTasks \in Nat /\ MaxCreations \in Nat /\ MaxTrouble \in Nat
  /\ Troubles \subseteq TroubleKinds

VARIABLES
  tcp,     \* ConfigMap ingress-nginx-tcp
  udp,     \* ConfigMap ingress-nginx-udp
  node,    \* the step each node is at
  start,   \* the starting_port of each node
  copy,    \* the filtered ConfigMap that close_port is about to write
  created, \* how often Hoprd::create has run for each node
  object,  \* the object of each node: there is none, or it is without or with finalizer
  type,    \* service.type of each node
  trouble, \* how often something of Troubles has happened
  stray,   \* history: nodes whose object went without finalizer, or whose type stopped being
           \* ClusterIP, with no close_port since
  raced    \* history: ports that another service opened or closed while a task was about to write
           \* what it had read before

object_vars == <<created, object, type, stray>>

vars == <<tcp, udp, node, start, copy, object_vars, trouble, raced>>

Ports == 0..(U16 - 1)

Empty == [p \in Ports |-> NoNode]

ServiceTypes == {"ClusterIP", "LoadBalancer"}

OpenSteps  == {"read", "open_tcp", "open_udp", "ingress", "post"}
CloseSteps == {"get_tcp", "put_tcp", "get_udp", "put_udp", "rm_ingress"}

Busy == {h \in Nodes : node[h] \in OpenSteps \cup CloseSteps}

\* The tasks that have read a ConfigMap and are about to write one.
Pending == {h \in Nodes : node[h] \in {"open_tcp", "open_udp", "put_tcp", "put_udp"}}

\* Each ConfigMap holds ports of other services.
Init ==
  /\ \E F \in SUBSET Foreign : tcp = [p \in Ports |-> IF p \in F THEN Other ELSE NoNode]
  /\ \E F \in SUBSET Foreign : udp = [p \in Ports |-> IF p \in F THEN Other ELSE NoNode]
  /\ node = [h \in Nodes |-> "absent"]
  /\ start = [h \in Nodes |-> 0]
  /\ copy = [h \in Nodes |-> Empty]
  /\ created = [h \in Nodes |-> 0]
  /\ object = [h \in Nodes |-> "none"]
  /\ type = [h \in Nodes |-> "ClusterIP"]
  /\ trouble = 0
  /\ stray = {}
  /\ raced = {}

-----------------------------------------------------------------------------
MinOf(S) == CHOOSE x \in S : \A y \in S : x <= y
MaxOf(S) == CHOOSE x \in S : \A y \in S : y <= x

\* Mutant: one port too many is taken for free.
Gaps_loose(ports, n) ==
  {p \in ports : \E q \in ports : /\ p < q /\ q - p >= n
                                  /\ \A r \in ports : r <= p \/ q <= r}

\* The ports followed by at least n free ones and then another port.
Gaps(ports, n) ==
  {p \in ports : \E q \in ports : /\ p < q /\ q - p - 1 >= n
                                  /\ \A r \in ports : r <= p \/ q <= r}

\* Mutant: gaps are not filled.
find_next_port_last(ports, n, min) == IF ports = {} THEN min ELSE (MaxOf(ports) + 1) % U16

find_next_port(ports, n, min) ==
  IF ports = {} THEN min
  ELSE IF MinOf(ports) - min >= n /\ MinOf(ports) > min THEN MinOf(ports) - n
  ELSE IF n > 0 /\ Gaps(ports, n) # {} THEN MinOf(Gaps(ports, n)) + 1
  ELSE (MaxOf(ports) + 1) % U16

\* Mutant: only the ports of Hoprd nodes count.
UsedPorts_own == {p \in PortMin..PortMax : tcp[p] \in Nodes}

UsedPorts == {p \in PortMin..PortMax : tcp[p] # NoNode}

\* get_available_ports looks at the TCP ports only.
get_available_ports(h) == find_next_port(UsedPorts, Allocation[h], PortMin)

\* Mutant: no check.
Exceeds_never(port, n) == FALSE

\* The check of open_port, a u16 addition that wraps in a release build.
Exceeds(port, n) == (port + n) % U16 > PortMax

RangeAt(port, n) == {(port + k) % U16 : k \in 0..(n - 1)}

\* The merge patch of open_port: the node gets its ports, whoever had them.
Opened(map, h) == [p \in Ports |-> IF p \in RangeAt(start[h], Allocation[h]) THEN h ELSE map[p]]

\* The copy that close_port writes back: every service whose entry contains the name is left out.
Closed(map, h) == [p \in Ports |-> IF map[p] \in Contains[h] THEN NoNode ELSE map[p]]

Goto(h, step) == node' = [node EXCEPT ![h] = step]

Trouble(kind) == kind \in Troubles /\ trouble < MaxTrouble /\ trouble' = trouble + 1

\* After a crash no task runs.  The phase of a half-created node is Initializing: with its finalizer it
\* waits for a deletion, without it is created again.  That of a half-deleted node is Deleting for ever.
Die ==
  /\ node' = [h \in Nodes |->
       CASE node[h] \in OpenSteps  -> IF object[h] = "none" THEN "absent" ELSE "broken"
         [] node[h] \in CloseSteps -> "wedged"
         [] OTHER                  -> node[h]]
  /\ copy' = [h \in Nodes |-> Empty]
  /\ UNCHANGED <<tcp, udp, start, object_vars, raced>>

\* A task starts.
Starts ==
  /\ Cardinality(Busy) < MaxTasks
  /\ raced' = IF Busy = {} THEN {} ELSE raced

-----------------------------------------------------------------------------
\* Hoprd::create gets to create_ingress, for a new object or again for one without finalizer.  The
\* finalizer has been added, unless the call failed.  Only a ClusterIP service opens ports.
create(h) ==
  /\ created[h] < MaxCreations
  /\ Starts
  /\ \/ /\ node[h] = "absent"
        /\ \E t \in ServiceTypes : type' = [type EXCEPT ![h] = t]
     \/ node[h] \in {"open", "plain", "broken"} /\ object[h] = "bare" /\ UNCHANGED type
  /\ \/ object' = [object EXCEPT ![h] = "kept"] /\ UNCHANGED trouble
     \/ object' = [object EXCEPT ![h] = "bare"] /\ Trouble("finalizer")
  /\ Goto(h, IF type'[h] = "ClusterIP" THEN "read" ELSE "post")
  /\ created' = [created EXCEPT ![h] = @ + 1]
  /\ UNCHANGED <<tcp, udp, start, copy, stray>>

\* open_port: nothing is opened for an allocation of 0, and a range past port_max is refused.
open_port(h) ==
  /\ node[h] = "read"
  /\ LET s == get_available_ports(h) IN
     \/ /\ ~Exceeds(s, Allocation[h])
        /\ start' = [start EXCEPT ![h] = s]
        /\ Goto(h, IF Allocation[h] = 0 THEN "ingress" ELSE "open_tcp")
        /\ UNCHANGED <<tcp, udp, copy, object_vars, trouble, raced>>
     \/ Exceeds(s, Allocation[h]) /\ Die /\ UNCHANGED trouble

open_tcp(h) ==
  /\ node[h] = "open_tcp"
  /\ tcp' = Opened(tcp, h)
  /\ Goto(h, "open_udp")
  /\ UNCHANGED <<udp, start, copy, object_vars, trouble, raced>>

open_udp(h) ==
  /\ node[h] = "open_udp"
  /\ udp' = Opened(udp, h)
  /\ Goto(h, "ingress")
  /\ UNCHANGED <<tcp, start, copy, object_vars, trouble, raced>>

\* The POST of the Ingress; when it is refused the reconciliation ends there.  Nobody waits for the end
\* of a task whose object has gone.
create_ingress(h) ==
  /\ node[h] \in {"ingress", "post"}
  /\ IF object[h] = "none" THEN Goto(h, "absent")
     ELSE Goto(h, IF node[h] = "ingress" THEN "open" ELSE "plain") \/ Goto(h, "broken")
  /\ UNCHANGED <<tcp, udp, start, copy, object_vars, trouble, raced>>

\* The user deletes an object that has no finalizer: it goes, whatever its task is doing.
vanish(h) ==
  /\ object[h] = "bare"
  /\ object' = [object EXCEPT ![h] = "none"]
  /\ stray' = stray \cup {h}
  /\ IF h \in Busy THEN UNCHANGED node ELSE Goto(h, "absent")
  /\ UNCHANGED <<tcp, udp, start, copy, created, type, trouble, raced>>

\* The user edits service.type, which is not among the immutable fields; no modification moves ports.
edit_type(h) ==
  /\ object[h] # "none"
  /\ Trouble("edit")
  /\ type' = [type EXCEPT ![h] = IF @ = "ClusterIP" THEN "LoadBalancer" ELSE "ClusterIP"]
  /\ stray' = IF type[h] = "ClusterIP" THEN stray \cup {h} ELSE stray
  /\ UNCHANGED <<tcp, udp, node, start, copy, created, object, raced>>

\* Hoprd::delete gets to delete_ingress, which closes ports only for a ClusterIP service.
delete(h) ==
  /\ node[h] \in {"open", "plain", "broken"} /\ object[h] = "kept"
  /\ Starts
  /\ Goto(h, IF type[h] = "ClusterIP" THEN "get_tcp" ELSE "rm_ingress")
  /\ UNCHANGED <<tcp, udp, start, copy, object_vars, trouble>>

get_tcp(h) ==
  /\ node[h] = "get_tcp"
  /\ copy' = [copy EXCEPT ![h] = Closed(tcp, h)]
  /\ Goto(h, "put_tcp")
  /\ UNCHANGED <<tcp, udp, start, object_vars, trouble, raced>>

\* The JSON patch replaces all of the data, and is refused when there is none to replace: an empty
\* ConfigMap has no /data.
put_tcp(h) ==
  /\ node[h] = "put_tcp"
  /\ \/ /\ tcp # Empty
        /\ tcp' = copy[h]
        /\ Goto(h, "get_udp")
        /\ UNCHANGED <<udp, start, copy, object_vars, trouble, raced>>
     \/ tcp = Empty /\ Die /\ UNCHANGED trouble

\* Mutant: the UDP ports are not filtered.
get_udp_unfiltered(h) ==
  /\ node[h] = "get_udp"
  /\ copy' = [copy EXCEPT ![h] = udp]
  /\ Goto(h, "put_udp")
  /\ UNCHANGED <<tcp, udp, start, object_vars, trouble, raced>>

get_udp(h) ==
  /\ node[h] = "get_udp"
  /\ copy' = [copy EXCEPT ![h] = Closed(udp, h)]
  /\ Goto(h, "put_udp")
  /\ UNCHANGED <<tcp, udp, start, object_vars, trouble, raced>>

put_udp(h) ==
  /\ node[h] = "put_udp"
  /\ \/ /\ udp # Empty
        /\ udp' = copy[h]
        /\ Goto(h, "rm_ingress")
        /\ stray' = stray \ {h}
        /\ UNCHANGED <<tcp, start, copy, created, object, type, trouble, raced>>
     \/ udp = Empty /\ Die /\ UNCHANGED trouble

\* The Ingress is deleted, found or not, and at the end the finalizer; an error leaves the node in phase
\* Deleting.
delete_ingress(h) ==
  /\ node[h] = "rm_ingress"
  /\ \/ /\ Goto(h, "absent")
        /\ start' = [start EXCEPT ![h] = 0]
        /\ object' = [object EXCEPT ![h] = "none"]
     \/ Goto(h, "wedged") /\ UNCHANGED <<start, object>>
  /\ copy' = [copy EXCEPT ![h] = Empty]
  /\ UNCHANGED <<tcp, udp, created, type, stray, trouble, raced>>

\* Another service opens a free port p, or closes its own, in either ConfigMap.
Others(p) ==
  /\ Trouble("others")
  /\ \E from, to \in {NoNode, Other} :
       /\ from # to
       /\ \/ tcp[p] = from /\ tcp' = [tcp EXCEPT ![p] = to] /\ UNCHANGED udp
          \/ udp[p] = from /\ udp' = [udp EXCEPT ![p] = to] /\ UNCHANGED tcp
  /\ raced' = IF Pending = {} THEN raced ELSE raced \cup {p}
  /\ UNCHANGED <<node, start, copy, object_vars>>

Crash == Trouble("crash") /\ Die

Next ==
  \/ \E h \in Nodes :
       \/ create(h) \/ open_port(h) \/ open_tcp(h) \/ open_udp(h) \/ create_ingress(h)
       \/ vanish(h) \/ edit_type(h)
       \/ delete(h) \/ get_tcp(h) \/ put_tcp(h) \/ get_udp(h) \/ put_udp(h) \/ delete_ingress(h)
  \/ \E p \in Foreign : Others(p)
  \/ Crash

Spec == Init /\ [][Next]_vars

-----------------------------------------------------------------------------
(***************************************************************************)
(* Properties.                                                             *)
(***************************************************************************)

NodeSteps == {"absent", "open", "plain", "broken", "wedged"} \cup OpenSteps \cup CloseSteps

Maps == [Ports -> Nodes \cup {NoNode, Other}]

\* Every variable has its type.
TypeOK ==
  /\ tcp \in Maps
  /\ udp \in Maps
  /\ node \in [Nodes -> NodeSteps]
  /\ start \in [Nodes -> Ports]
  /\ copy \in [Nodes -> Maps]
  /\ created \in [Nodes -> 0..MaxCreations]
  /\ object \in [Nodes -> {"none", "bare", "kept"}]
  /\ type \in [Nodes -> ServiceTypes]
  /\ trouble \in 0..MaxTrouble
  /\ stray \subseteq Nodes
  /\ raced \subseteq Ports

\* "Find the next port available": the ports given to a node are forwarded to it, for both protocols,
\* from the end of its creation to its deletion.
PortsServed ==
  \A h \in Nodes : node[h] = "open" =>
    \A p \in RangeAt(start[h], Allocation[h]) : tcp[p] = h /\ udp[p] = h

\* "Nginx p2p port for Hoprd node {service_name} have been closed": a node that is gone has no port
\* left, whatever happened to it before, unless its object went without finalizer or its service
\* stopped being a ClusterIP and close_port has not run since.
PortsClosed ==
  \A h \in Nodes : node[h] = "absent" /\ h \notin stray => \A p \in Ports : tcp[p] # h /\ udp[p] # h

\* The operator opens only ports between port_min and port_max, whatever tasks race.
PortsInRange ==
  \A p \in Ports : tcp[p] \in Nodes \/ udp[p] \in Nodes => p \in PortMin..PortMax

Fits(port, n) == port + n <= PortMax /\ \A k \in 0..(n - 1) : port + k \notin UsedPorts

\* An allocation is refused (and the operator dies) only when no range below port_max is free,
\* however the free ports are scattered: find_next_port misses no gap.
RefusedOnlyIfFull ==
  \A h \in Nodes :
    /\ node[h] = "read" /\ Allocation[h] > 0
    /\ Exceeds(get_available_ports(h), Allocation[h])
    => \A p \in PortMin..PortMax : ~Fits(p, Allocation[h])

\* No step of the operator takes, drops or brings back a TCP port of another service, nor a UDP port
\* that the service also has for TCP or that is out of the operator's range, even when a stale copy is
\* written back; except where that service itself wrote the port meanwhile.
ForeignKept ==
  [][(\A p \in Foreign : ~Others(p)) =>
       \A p \in Ports \ raced :
         /\ tcp[p] = Other <=> tcp'[p] = Other
         /\ tcp[p] = Other \/ p \notin PortMin..PortMax => (udp[p] = Other <=> udp'[p] = Other)]_vars
=============================================================================
