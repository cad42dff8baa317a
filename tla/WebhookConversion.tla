------------------------- MODULE WebhookConversion -------------------------
(***************************************************************************)
(* The conversion webhook (webhook_server.rs) between users, the API       *)
(* server and the controllers.  An object of one of the four kinds is      *)
(* stored as v1alpha3 and served as v1alpha2 as well.  A write through     *)
(* v1alpha2 takes the stored object through the webhook, changes it, and   *)
(* takes it through the webhook again before it is stored.  The API server *)
(* drops from every converted object the fields that the schema of its     *)
(* version does not have (chart hoprd-crds).  The controllers work on the  *)
(* stored version.                                                         *)
(*                                                                         *)
(* A spec is a record of the fields in which the two schemas differ,       *)
(* `payload` standing for all the others; a field that is missing is       *)
(* Absent.                                                                 *)
(***************************************************************************)
EXTENDS Naturals

CONSTANTS
  Kinds,       \* kinds of objects to try
  Payloads,    \* values of the fields that both versions share
  Domains,     \* values of dnsName
  Identities,  \* values of identityName
  Ports,       \* values of portsAllocation
  Addresses,   \* values of the node's address
  Absent,      \* a field that is missing
  Lenient,     \* the API server accepts a v1alpha2 status without the required updateTimestamp
  MaxWrites    \* how often the object is written

DefaultPorts == 10

ASSUME AbsentAssumption ==
  /\ Absent \notin Payloads /\ Absent \notin Domains /\ Absent \notin Identities
  /\ Absent \notin Ports /\ Absent \notin Addresses
  /\ Absent \notin {DefaultPorts, "kaunas", "unknown"}

ASSUME KindsAssumption == Kinds \subseteq {"ClusterHoprd", "Hoprd", "IdentityHoprd", "IdentityPool"}

VARIABLES
  kind,      \* the kind of the object
  stored,    \* the object in storage
  wanted,    \* history: what the users have written last
  pruned,    \* history: the object was written through v1alpha2 since dnsName was written
  writes     \* how often the object was written

vars == <<kind, stored, wanted, pruned, writes>>

NoSpec == [payload |-> Absent, dns |-> Absent, identity |-> Absent, service |-> FALSE, servicePorts |-> Absent,
           ports |-> Absent, release |-> Absent, force |-> Absent, native |-> Absent, node |-> Absent,
           peer |-> Absent]

NoStatus == [present |-> FALSE, observed |-> Absent, checksum |-> Absent]

Missing == [exists |-> FALSE, gen |-> 0, spec |-> NoSpec, status |-> NoStatus]

-----------------------------------------------------------------------------
(***************************************************************************)
(* The handlers of /convert.                                               *)
(***************************************************************************)

\* Without a status the function fails; what was converted before it stays.
add_observed_generation(o) ==
  IF o.status.present THEN [o EXCEPT !.status = [@ EXCEPT !.observed = o.gen, !.checksum = Absent]] ELSE o

\* The checksum stands for the spec it is computed from.
add_status_checksum(o) ==
  IF o.status.present THEN [o EXCEPT !.status = [@ EXCEPT !.observed = Absent, !.checksum = o.spec]] ELSE o

Given(value, default) == IF value = Absent THEN default ELSE value

\* spec.portsAllocation moves into spec.service; without a service it is lost.
PortsToService(s) ==
  [s EXCEPT !.ports = Absent, !.servicePorts = IF s.service THEN Given(s.ports, DefaultPorts) ELSE @]

PortsFromService(s) ==
  [s EXCEPT !.servicePorts = Absent, !.ports = IF s.service THEN Given(s.servicePorts, DefaultPorts) ELSE @]

\* Mutant: the status is converted first, and its failure ends the conversion.
convert_hoprd_status_first(o) ==
  IF o.status.present
  THEN [add_observed_generation(o) EXCEPT !.spec = [PortsToService(@) EXCEPT !.release = Absent]]
  ELSE o

\* Mutant: the ports are looked for after they have been removed.
convert_hoprd_default(o) ==
  add_observed_generation(
    [o EXCEPT !.spec = [PortsToService([@ EXCEPT !.ports = Absent]) EXCEPT !.release = Absent]])

convert_hoprd_v2_to_v3(o) ==
  add_observed_generation([o EXCEPT !.spec = [PortsToService(@) EXCEPT !.release = Absent]])

convert_hoprd_v3_to_v2(o) ==
  add_status_checksum([o EXCEPT !.spec = [PortsFromService(@) EXCEPT !.release = "kaunas"]])

convert_cluster_hoprd_v2_to_v3(o) ==
  add_observed_generation([o EXCEPT !.spec = [PortsToService(@) EXCEPT !.release = Absent, !.force = Absent]])

\* Mutant: the status is converted first, and its failure ends the conversion.
convert_cluster_hoprd_status_first(o) ==
  IF o.status.present
  THEN [add_status_checksum(o) EXCEPT
          !.spec = [PortsFromService(@) EXCEPT !.release = "kaunas", !.force = TRUE]]
  ELSE o

convert_cluster_hoprd_v3_to_v2(o) ==
  add_status_checksum([o EXCEPT !.spec = [PortsFromService(@) EXCEPT !.release = "kaunas", !.force = TRUE]])

convert_identity_hoprd_v2_to_v3(o) ==
  add_observed_generation(
    [o EXCEPT !.spec = [@ EXCEPT !.node = Given(o.spec.native, "lost"), !.native = Absent, !.peer = Absent]])

\* Mutant: the address is replaced by the placeholder.
convert_identity_hoprd_unknown(o) ==
  add_status_checksum(
    [o EXCEPT !.spec = [@ EXCEPT !.native = "unknown", !.node = Absent, !.peer = "unknown"]])

convert_identity_hoprd_v3_to_v2(o) ==
  add_status_checksum(
    [o EXCEPT !.spec = [@ EXCEPT !.native = Given(o.spec.node, "unknown"), !.node = Absent, !.peer = "unknown"]])

convert_identity_pool_v2_to_v3(o) == add_observed_generation(o)

convert_identity_pool_v3_to_v2(o) == add_status_checksum(o)

convert_v2_to_v3(k, o) ==
  CASE k = "ClusterHoprd"  -> convert_cluster_hoprd_v2_to_v3(o)
    [] k = "Hoprd"         -> convert_hoprd_v2_to_v3(o)
    [] k = "IdentityHoprd" -> convert_identity_hoprd_v2_to_v3(o)
    [] k = "IdentityPool"  -> convert_identity_pool_v2_to_v3(o)

convert_v3_to_v2(k, o) ==
  CASE k = "ClusterHoprd"  -> convert_cluster_hoprd_v3_to_v2(o)
    [] k = "Hoprd"         -> convert_hoprd_v3_to_v2(o)
    [] k = "IdentityHoprd" -> convert_identity_hoprd_v3_to_v2(o)
    [] k = "IdentityPool"  -> convert_identity_pool_v3_to_v2(o)

\* The handler wraps the result in Ok: a failed conversion is answered like a successful one.
convert(desired, k, o) == IF desired = "v1alpha2" THEN convert_v3_to_v2(k, o) ELSE convert_v2_to_v3(k, o)

-----------------------------------------------------------------------------
(***************************************************************************)
(* The schemas of the two versions.                                        *)
(***************************************************************************)

WithPorts(k) == k \in {"ClusterHoprd", "Hoprd"}

\* In v1alpha3 the service is required and its portsAllocation optional, and so is dnsName.
Spec3(p, d, i, s, n, a) ==
  [NoSpec EXCEPT !.payload = p, !.dns = d, !.identity = i, !.service = s, !.servicePorts = n, !.node = a]

Specs3(k) ==
  {Spec3(p, d, i, WithPorts(k), n, a) :
     p \in Payloads, d \in IF WithPorts(k) THEN Domains \cup {Absent} ELSE {Absent},
     i \in IF k = "Hoprd" THEN Identities ELSE {Absent},
     n \in IF WithPorts(k) THEN Ports \cup {Absent} ELSE {Absent},
     a \in IF k = "IdentityHoprd" THEN Addresses ELSE {Absent}}

\* In v1alpha2 the service and identityName are optional and portsAllocation required; there is no
\* dnsName.
Spec2(k, p, i, s, n, a) ==
  [NoSpec EXCEPT !.payload = p, !.identity = i, !.service = s, !.ports = n, !.native = a,
                 !.release = IF WithPorts(k) THEN "saint-louis" ELSE Absent,
                 !.force = IF k = "ClusterHoprd" THEN FALSE ELSE Absent,
                 !.peer = IF k = "IdentityHoprd" THEN "known" ELSE Absent]

Specs2(k) ==
  {Spec2(k, p, i, s, n, a) :
     p \in Payloads, i \in IF k = "Hoprd" THEN Identities \cup {Absent} ELSE {Absent},
     s \in {b \in BOOLEAN : b => WithPorts(k)},
     n \in IF WithPorts(k) THEN Ports ELSE {Absent},
     a \in IF k = "IdentityHoprd" THEN Addresses ELSE {Absent}}

\* The fields that v1alpha2 requires of a spec.
Valid2(k, s) ==
  /\ WithPorts(k) => s.ports # Absent /\ s.release # Absent
  /\ k = "IdentityHoprd" => s.native # Absent /\ s.peer # Absent

\* The fields that the other version does not have are dropped.
prune_v1alpha2(o) ==
  [o EXCEPT !.spec = [@ EXCEPT !.dns = Absent, !.servicePorts = Absent, !.node = Absent],
            !.status = [@ EXCEPT !.observed = Absent]]

prune_v1alpha3(o) ==
  [o EXCEPT !.spec = [@ EXCEPT !.ports = Absent, !.release = Absent, !.force = Absent, !.native = Absent,
                               !.peer = Absent],
            !.status = [@ EXCEPT !.checksum = Absent]]

\* The object as v1alpha2, and a v1alpha2 object as it is stored.
Served == prune_v1alpha2(convert("v1alpha2", kind, stored))

Storable(o) == prune_v1alpha3(convert("v1alpha3", kind, o))

\* What the user means by a spec of either version.
Meaning(s) == [payload |-> s.payload, dns |-> s.dns, identity |-> s.identity, service |-> s.service,
               ports |-> IF s.ports = Absent THEN s.servicePorts ELSE s.ports,
               address |-> IF s.native = Absent THEN s.node ELSE s.native]

Init ==
  /\ kind \in Kinds
  /\ stored = Missing
  /\ wanted = Meaning(NoSpec)
  /\ pruned = FALSE
  /\ writes = 0

-----------------------------------------------------------------------------
(***************************************************************************)
(* The writes.                                                             *)
(***************************************************************************)

Count == writes < MaxWrites /\ writes' = writes + 1

New(s) == [Missing EXCEPT !.exists = TRUE, !.gen = 1, !.spec = s]

create_v1alpha3 ==
  /\ ~stored.exists
  /\ Count
  /\ \E s \in Specs3(kind) : stored' = New(s) /\ wanted' = Meaning(s)
  /\ UNCHANGED <<kind, pruned>>

create_v1alpha2 ==
  /\ ~stored.exists
  /\ Count
  /\ \E s \in Specs2(kind) : stored' = Storable(New(s)) /\ wanted' = Meaning(s)
  /\ UNCHANGED <<kind, pruned>>

\* The API server counts a generation when the spec differs in the version of the request.
Edited(o, s) == [o EXCEPT !.spec = s, !.gen = IF s = o.spec THEN @ ELSE @ + 1]

edit_v1alpha3 ==
  /\ stored.exists
  /\ Count
  /\ \E s \in Specs3(kind) : stored' = Edited(stored, s) /\ wanted' = Meaning(s)
  /\ pruned' = FALSE
  /\ UNCHANGED kind

\* The status as served lacks updateTimestamp, which the schema of v1alpha2 requires.
Accepted == Lenient \/ ~stored.status.present

\* The user of v1alpha2 cannot see dnsName and does not mean to change it.
edit_v1alpha2 ==
  /\ stored.exists /\ Accepted
  /\ Count
  /\ \E s \in Specs2(kind) :
       stored' = Storable(Edited(Served, s)) /\ wanted' = [Meaning(s) EXCEPT !.dns = wanted.dns]
  /\ pruned' = TRUE
  /\ UNCHANGED kind

\* A change of the metadata only: a label, an annotation, a finalizer.
touch_v1alpha2 ==
  /\ stored.exists /\ Accepted /\ Valid2(kind, Served.spec)
  /\ Count
  /\ stored' = Storable(Served)
  /\ pruned' = TRUE
  /\ UNCHANGED <<kind, wanted>>

\* The status functions of the four kinds write a generation that the operator has read before: that of
\* the snapshot (Hoprd, IdentityHoprd), of a fresh get (ClusterHoprd) or of the cache (IdentityPool).
update_status(g) ==
  /\ stored.exists
  /\ stored' = [stored EXCEPT !.status = [present |-> TRUE, observed |-> g, checksum |-> Absent]]
  /\ UNCHANGED <<kind, wanted, pruned, writes>>

Next ==
  \/ create_v1alpha3 \/ create_v1alpha2
  \/ edit_v1alpha3 \/ edit_v1alpha2 \/ touch_v1alpha2
  \/ \E g \in 1..stored.gen : update_status(g)

Spec == Init /\ [][Next]_vars

-----------------------------------------------------------------------------
(***************************************************************************)
(* Properties.                                                             *)
(***************************************************************************)

SpecType == [payload : Payloads \cup {Absent}, dns : Domains \cup {Absent},
             identity : Identities \cup {Absent}, service : BOOLEAN,
             servicePorts : Ports \cup {DefaultPorts, Absent}, ports : {Absent},
             release : {Absent}, force : {Absent}, native : {Absent},
             node : Addresses \cup {Absent}, peer : {Absent}]

\* The controllers cannot deserialize a spec without service, its ports or identityName.
Readable(s) ==
  /\ WithPorts(kind) => s.service /\ s.servicePorts # Absent
  /\ kind = "Hoprd" => s.identity # Absent

\* The user left out nothing that the operator needs.
Complete ==
  /\ WithPorts(kind) => wanted.service /\ wanted.ports # Absent
  /\ kind = "Hoprd" => wanted.identity # Absent

\* The object in storage is a v1alpha3 object whichever versions it was written through, with an observed
\* generation that is one of its own and no address replaced by a placeholder; and it can be deserialized
\* if the user wrote all that takes, even where add_observed_generation failed for want of a status and
\* the handler answered with the object half converted.
StoredIsV3 ==
  /\ stored.spec \in SpecType
  /\ stored.status.present => stored.status.observed \in 0..stored.gen
  /\ stored.exists /\ Complete => Readable(stored.spec)

\* Whatever mixture of versions the object was written and touched through, it has the fields the users
\* have written last.  Three exceptions: any write through v1alpha2 drops dnsName, without a service the
\* ports are lost, and ports that were left out may have become the default.
WrittenIsStored ==
  LET is == Meaning(stored.spec) IN
  stored.exists =>
    /\ is.payload = wanted.payload /\ is.identity = wanted.identity
    /\ is.service = wanted.service /\ is.address = wanted.address
    /\ is.dns = IF pruned THEN Absent ELSE wanted.dns
    /\ wanted.service => \/ is.ports = wanted.ports
                         \/ wanted.ports = Absent /\ is.ports = DefaultPorts

\* What a client of v1alpha2 reads is a valid v1alpha2 object with the fields that are stored, with or
\* without a status: add_status_checksum fails only after the spec has been converted.  Two exceptions:
\* dnsName is not shown, and a Hoprd or ClusterHoprd without service has no portsAllocation.
ServedIsV2 ==
  LET is  == Meaning(Served.spec)
      was == Meaning(stored.spec) IN
  stored.exists =>
    /\ Valid2(kind, Served.spec) \/ (WithPorts(kind) /\ ~stored.spec.service)
    /\ is.payload = was.payload /\ is.identity = was.identity
    /\ is.service = was.service /\ is.address = was.address
    /\ was.service => is.ports = Given(was.ports, DefaultPorts)

\* A write through v1alpha2 that changes the metadata only leaves the generation and the spec of the stored
\* object alone, apart from dnsName, which it drops, and ports that were left out: otherwise the
\* conversions there and back are inverse.
TouchInert ==
  [][touch_v1alpha2 =>
       /\ stored'.gen = stored.gen
       /\ stored'.spec = [stored.spec EXCEPT
            !.dns = Absent,
            !.servicePorts = IF stored.spec.service THEN Given(@, DefaultPorts) ELSE @]]_vars
=============================================================================
