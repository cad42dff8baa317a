---------------------- MODULE WebhookConversion_proofs ----------------------
(***************************************************************************)
(* Proofs about WebhookConversion, for any values of the fields and any    *)
(* number of writes: what is stored is a v1alpha3 object with the fields   *)
(* that the user has written, and the conversions there and back are       *)
(* inverse on what is stored.                                              *)
(***************************************************************************)
EXTENDS WebhookConversion, TLAPS

Names == {"ClusterHoprd", "Hoprd", "IdentityHoprd", "IdentityPool"}

\* The specs of both versions and of every state between them.
RawSpecs == [payload : Payloads \cup {Absent}, dns : Domains \cup {Absent},
             identity : Identities \cup {Absent}, service : BOOLEAN,
             servicePorts : Ports \cup {DefaultPorts, Absent}, ports : Ports \cup {DefaultPorts, Absent},
             release : {Absent, "kaunas", "saint-louis"}, force : {TRUE, FALSE, Absent},
             native : Addresses \cup {Absent, "unknown", "lost"}, node : Addresses \cup {Absent, "unknown", "lost"},
             peer : {Absent, "known", "unknown"}]

RawStatuses == [present : BOOLEAN, observed : Nat \cup {Absent}, checksum : RawSpecs \cup {Absent}]

RawObjects == [exists : BOOLEAN, gen : Nat, spec : RawSpecs, status : RawStatuses]

\* Spec t is what the conversions make of the fields of spec s.
ToV3(k, s, t) ==
  /\ t \in RawSpecs
  /\ t.payload = s.payload /\ t.dns = s.dns /\ t.identity = s.identity /\ t.service = s.service
  /\ t.servicePorts = IF WithPorts(k) /\ s.service THEN Given(s.ports, DefaultPorts) ELSE s.servicePorts
  /\ t.ports = IF WithPorts(k) THEN Absent ELSE s.ports
  /\ t.release = IF WithPorts(k) THEN Absent ELSE s.release
  /\ t.force = IF k = "ClusterHoprd" THEN Absent ELSE s.force
  /\ t.native = IF k = "IdentityHoprd" THEN Absent ELSE s.native
  /\ t.node = IF k = "IdentityHoprd" THEN Given(s.native, "lost") ELSE s.node
  /\ t.peer = IF k = "IdentityHoprd" THEN Absent ELSE s.peer

ToV2(k, s, t) ==
  /\ t \in RawSpecs
  /\ t.payload = s.payload /\ t.dns = s.dns /\ t.identity = s.identity /\ t.service = s.service
  /\ t.servicePorts = IF WithPorts(k) THEN Absent ELSE s.servicePorts
  /\ t.ports = IF WithPorts(k) /\ s.service THEN Given(s.servicePorts, DefaultPorts) ELSE s.ports
  /\ t.release = IF WithPorts(k) THEN "kaunas" ELSE s.release
  /\ t.force = IF k = "ClusterHoprd" THEN TRUE ELSE s.force
  /\ t.native = IF k = "IdentityHoprd" THEN Given(s.node, "unknown") ELSE s.native
  /\ t.node = IF k = "IdentityHoprd" THEN Absent ELSE s.node
  /\ t.peer = IF k = "IdentityHoprd" THEN "unknown" ELSE s.peer

\* The specs that a stored object of kind k can have.
Shape(k, s) ==
  /\ s \in SpecType
  /\ s.service => WithPorts(k)
  /\ ~s.service => s.servicePorts = Absent
  /\ k = "IdentityHoprd" => s.node \in Addresses
  /\ k # "IdentityHoprd" => s.node = Absent

\* The stored object is a v1alpha3 object of its kind, and no generation is observed before it exists.
StoredInv ==
  /\ kind \in Names
  /\ stored \in RawObjects
  /\ ~stored.exists => stored = Missing
  /\ stored.exists => Shape(kind, stored.spec)
  /\ stored.status.checksum = Absent
  /\ stored.status.present => stored.status.observed \in 0 .. stored.gen

-----------------------------------------------------------------------------
(***************************************************************************)
(* The conversions.                                                        *)
(***************************************************************************)

\* add_observed_generation changes the status only, and only if there is one.
LEMMA ObservedAdded ==
  ASSUME NEW o \in RawObjects
  PROVE  LET c == add_observed_generation(o) IN
         /\ c \in RawObjects
         /\ c.exists = o.exists /\ c.gen = o.gen /\ c.spec = o.spec
         /\ c.status.present = o.status.present
         /\ o.status.present => c.status.observed = o.gen /\ c.status.checksum = Absent
         /\ ~o.status.present => c.status = o.status
<1> DEFINE q == [o.status EXCEPT !.observed = o.gen, !.checksum = Absent]
<1>1. o.status \in RawStatuses /\ o.gen \in Nat
  BY DEF RawObjects
<1>2. q \in RawStatuses /\ q.present = o.status.present /\ q.observed = o.gen /\ q.checksum = Absent
  BY <1>1 DEF RawStatuses
<1>3. CASE o.status.present
  <2>1. add_observed_generation(o) = [o EXCEPT !.status = q]
    BY <1>3 DEF add_observed_generation
  <2> HIDE DEF q
  <2>2. LET c == [o EXCEPT !.status = q] IN
          /\ c \in RawObjects
          /\ c.exists = o.exists /\ c.gen = o.gen /\ c.spec = o.spec /\ c.status = q
    BY <1>2 DEF RawObjects
  <2> QED BY <1>2, <1>3, <2>1, <2>2
<1>4. CASE ~o.status.present
  BY <1>4 DEF add_observed_generation
<1> QED BY <1>3, <1>4

\* So does add_status_checksum.
LEMMA ChecksumAdded ==
  ASSUME NEW o \in RawObjects
  PROVE  LET c == add_status_checksum(o) IN
         /\ c \in RawObjects
         /\ c.exists = o.exists /\ c.gen = o.gen /\ c.spec = o.spec
         /\ c.status.present = o.status.present
         /\ ~o.status.present => c.status = o.status
<1> DEFINE q == [o.status EXCEPT !.observed = Absent, !.checksum = o.spec]
<1>1. o.status \in RawStatuses /\ o.spec \in RawSpecs
  BY DEF RawObjects
<1>2. q \in RawStatuses /\ q.present = o.status.present
  BY <1>1 DEF RawStatuses
<1>3. CASE o.status.present
  <2>1. add_status_checksum(o) = [o EXCEPT !.status = q]
    BY <1>3 DEF add_status_checksum
  <2> HIDE DEF q
  <2>2. LET c == [o EXCEPT !.status = q] IN
          /\ c \in RawObjects
          /\ c.exists = o.exists /\ c.gen = o.gen /\ c.spec = o.spec /\ c.status = q
    BY <1>2 DEF RawObjects
  <2> QED BY <1>2, <1>3, <2>1, <2>2
<1>4. CASE ~o.status.present
  BY <1>4 DEF add_status_checksum
<1> QED BY <1>3, <1>4

\* Replacing the spec of an object.
LEMMA SpecReplaced ==
  ASSUME NEW o \in RawObjects, NEW t \in RawSpecs
  PROVE  LET c == [o EXCEPT !.spec = t] IN
         /\ c \in RawObjects
         /\ c.exists = o.exists /\ c.gen = o.gen /\ c.spec = t /\ c.status = o.status
BY DEF RawObjects

\* Replacing the fields that only v1alpha2 has.
LEMMA ReleaseReplaced ==
  ASSUME NEW s \in RawSpecs, NEW r \in {Absent, "kaunas", "saint-louis"}
  PROVE  LET t == [s EXCEPT !.release = r] IN
         /\ t \in RawSpecs
         /\ t.payload = s.payload /\ t.dns = s.dns /\ t.identity = s.identity
         /\ t.service = s.service /\ t.servicePorts = s.servicePorts
         /\ t.ports = s.ports /\ t.release = r /\ t.force = s.force
         /\ t.native = s.native /\ t.node = s.node /\ t.peer = s.peer
BY DEF RawSpecs

LEMMA ForceReplaced ==
  ASSUME NEW s \in RawSpecs, NEW f \in {TRUE, FALSE, Absent}
  PROVE  LET t == [s EXCEPT !.force = f] IN
         /\ t \in RawSpecs
         /\ t.payload = s.payload /\ t.dns = s.dns /\ t.identity = s.identity
         /\ t.service = s.service /\ t.servicePorts = s.servicePorts
         /\ t.ports = s.ports /\ t.release = s.release /\ t.force = f
         /\ t.native = s.native /\ t.node = s.node /\ t.peer = s.peer
BY DEF RawSpecs

LEMMA ReleaseAndForce ==
  ASSUME NEW s \in RawSpecs, NEW r \in {Absent, "kaunas"}, NEW f \in {Absent, TRUE}
  PROVE  LET t == [s EXCEPT !.release = r, !.force = f] IN
         /\ t \in RawSpecs
         /\ t.payload = s.payload /\ t.dns = s.dns /\ t.identity = s.identity
         /\ t.service = s.service /\ t.servicePorts = s.servicePorts
         /\ t.ports = s.ports /\ t.release = r /\ t.force = f
         /\ t.native = s.native /\ t.node = s.node /\ t.peer = s.peer
<1> DEFINE q == [s EXCEPT !.release = r]
           t == [q EXCEPT !.force = f]
<1>1. /\ q \in RawSpecs
      /\ q.payload = s.payload /\ q.dns = s.dns /\ q.identity = s.identity
      /\ q.service = s.service /\ q.servicePorts = s.servicePorts
      /\ q.ports = s.ports /\ q.release = r /\ q.force = s.force
      /\ q.native = s.native /\ q.node = s.node /\ q.peer = s.peer
  <2>1. r \in {Absent, "kaunas", "saint-louis"}
    BY Zenon
  <2> QED BY <2>1, ReleaseReplaced
<1>2. t = [s EXCEPT !.release = r, !.force = f]
  OBVIOUS
<1> HIDE DEF q
<1>3. f \in {TRUE, FALSE, Absent}
  BY Zenon
<1>4. /\ t \in RawSpecs
      /\ t.payload = q.payload /\ t.dns = q.dns /\ t.identity = q.identity
      /\ t.service = q.service /\ t.servicePorts = q.servicePorts
      /\ t.ports = q.ports /\ t.release = q.release /\ t.force = f
      /\ t.native = q.native /\ t.node = q.node /\ t.peer = q.peer
  BY <1>1, <1>3, ForceReplaced
<1> HIDE DEF t
<1> QED BY <1>1, <1>2, <1>4

\* What the handlers for v1alpha3 do to the spec of each kind.
LEMMA SpecsToV3 ==
  ASSUME NEW s \in RawSpecs
  PROVE  /\ ToV3("ClusterHoprd", s, [PortsToService(s) EXCEPT !.release = Absent, !.force = Absent])
         /\ ToV3("Hoprd", s, [PortsToService(s) EXCEPT !.release = Absent])
         /\ ToV3("IdentityHoprd", s,
                 [s EXCEPT !.node = Given(s.native, "lost"), !.native = Absent, !.peer = Absent])
         /\ ToV3("IdentityPool", s, s)
<1> DEFINE n == IF s.service THEN Given(s.ports, DefaultPorts) ELSE s.servicePorts
           a == Given(s.native, "lost")
<1>1. n \in Ports \cup {DefaultPorts, Absent} /\ a \in Addresses \cup {Absent, "unknown", "lost"}
  BY DEF RawSpecs, Given
<1>2. n = (IF s.service THEN Given(s.ports, DefaultPorts) ELSE s.servicePorts) /\ a = Given(s.native, "lost")
  OBVIOUS
<1>3. PortsToService(s) = [s EXCEPT !.ports = Absent, !.servicePorts = n]
  BY DEF PortsToService
<1> HIDE DEF n, a
<1> DEFINE p == [s EXCEPT !.ports = Absent, !.servicePorts = n]
<1>8. /\ p \in RawSpecs /\ p.ports = Absent /\ p.servicePorts = n
      /\ p.payload = s.payload /\ p.dns = s.dns /\ p.identity = s.identity
      /\ p.service = s.service /\ p.release = s.release /\ p.force = s.force
      /\ p.native = s.native /\ p.node = s.node /\ p.peer = s.peer
  BY <1>1 DEF RawSpecs
<1>9. p = PortsToService(s)
  BY <1>3
<1> HIDE DEF p
<1>4. ToV3("ClusterHoprd", s, [p EXCEPT !.release = Absent, !.force = Absent])
  <2> DEFINE t == [p EXCEPT !.release = Absent, !.force = Absent]
  <2>1. /\ t \in RawSpecs
        /\ t.payload = p.payload /\ t.dns = p.dns /\ t.identity = p.identity
        /\ t.service = p.service /\ t.servicePorts = p.servicePorts
        /\ t.ports = p.ports /\ t.release = Absent /\ t.force = Absent
        /\ t.native = p.native /\ t.node = p.node /\ t.peer = p.peer
    BY <1>8, ReleaseAndForce
  <2> HIDE DEF t
  <2>2. ToV3("ClusterHoprd", s, t)
    BY <1>8, <1>2, <2>1 DEF ToV3, WithPorts
  <2> QED BY <2>2 DEF t
<1>5. ToV3("Hoprd", s, [p EXCEPT !.release = Absent])
  <2> DEFINE t == [p EXCEPT !.release = Absent]
  <2>1. /\ t \in RawSpecs
        /\ t.payload = p.payload /\ t.dns = p.dns /\ t.identity = p.identity
        /\ t.service = p.service /\ t.servicePorts = p.servicePorts
        /\ t.ports = p.ports /\ t.release = Absent /\ t.force = p.force
        /\ t.native = p.native /\ t.node = p.node /\ t.peer = p.peer
    BY <1>8, ReleaseReplaced
  <2> HIDE DEF t
  <2>2. ToV3("Hoprd", s, t)
    BY <1>8, <1>2, <2>1 DEF ToV3, WithPorts
  <2> QED BY <2>2 DEF t
<1>6. ToV3("IdentityHoprd", s, [s EXCEPT !.node = a, !.native = Absent, !.peer = Absent])
  <2> DEFINE t == [s EXCEPT !.node = a, !.native = Absent, !.peer = Absent]
  <2>1. /\ t \in RawSpecs /\ t.node = a /\ t.native = Absent /\ t.peer = Absent
        /\ t.payload = s.payload /\ t.dns = s.dns /\ t.identity = s.identity /\ t.service = s.service
        /\ t.servicePorts = s.servicePorts /\ t.ports = s.ports /\ t.release = s.release /\ t.force = s.force
    BY <1>1 DEF RawSpecs
  <2> HIDE DEF t
  <2>2. ToV3("IdentityHoprd", s, t)
    BY <1>2, <2>1 DEF ToV3, WithPorts
  <2> QED BY <2>2 DEF t
<1>7. ToV3("IdentityPool", s, s)
  BY DEF ToV3, RawSpecs, WithPorts
<1> QED BY <1>2, <1>9, <1>4, <1>5, <1>6, <1>7

\* What the handlers for v1alpha2 do to it.
LEMMA SpecsToV2 ==
  ASSUME NEW s \in RawSpecs
  PROVE  /\ ToV2("ClusterHoprd", s, [PortsFromService(s) EXCEPT !.release = "kaunas", !.force = TRUE])
         /\ ToV2("Hoprd", s, [PortsFromService(s) EXCEPT !.release = "kaunas"])
         /\ ToV2("IdentityHoprd", s,
                 [s EXCEPT !.native = Given(s.node, "unknown"), !.node = Absent, !.peer = "unknown"])
         /\ ToV2("IdentityPool", s, s)
<1> DEFINE n == IF s.service THEN Given(s.servicePorts, DefaultPorts) ELSE s.ports
           a == Given(s.node, "unknown")
<1>1. n \in Ports \cup {DefaultPorts, Absent} /\ a \in Addresses \cup {Absent, "unknown", "lost"}
  BY DEF RawSpecs, Given
<1>2. n = (IF s.service THEN Given(s.servicePorts, DefaultPorts) ELSE s.ports) /\ a = Given(s.node, "unknown")
  OBVIOUS
<1>3. PortsFromService(s) = [s EXCEPT !.servicePorts = Absent, !.ports = n]
  BY DEF PortsFromService
<1> HIDE DEF n, a
<1> DEFINE p == [s EXCEPT !.servicePorts = Absent, !.ports = n]
<1>8. /\ p \in RawSpecs /\ p.servicePorts = Absent /\ p.ports = n
      /\ p.payload = s.payload /\ p.dns = s.dns /\ p.identity = s.identity
      /\ p.service = s.service /\ p.release = s.release /\ p.force = s.force
      /\ p.native = s.native /\ p.node = s.node /\ p.peer = s.peer
  BY <1>1 DEF RawSpecs
<1>9. p = PortsFromService(s)
  BY <1>3
<1> HIDE DEF p
<1>4. ToV2("ClusterHoprd", s, [p EXCEPT !.release = "kaunas", !.force = TRUE])
  <2> DEFINE t == [p EXCEPT !.release = "kaunas", !.force = TRUE]
  <2>1. /\ t \in RawSpecs
        /\ t.payload = p.payload /\ t.dns = p.dns /\ t.identity = p.identity
        /\ t.service = p.service /\ t.servicePorts = p.servicePorts
        /\ t.ports = p.ports /\ t.release = "kaunas" /\ t.force = TRUE
        /\ t.native = p.native /\ t.node = p.node /\ t.peer = p.peer
    BY <1>8, ReleaseAndForce
  <2> HIDE DEF t
  <2>2. ToV2("ClusterHoprd", s, t)
    BY <1>8, <1>2, <2>1 DEF ToV2, WithPorts
  <2> QED BY <2>2 DEF t
<1>5. ToV2("Hoprd", s, [p EXCEPT !.release = "kaunas"])
  <2> DEFINE t == [p EXCEPT !.release = "kaunas"]
  <2>1. /\ t \in RawSpecs
        /\ t.payload = p.payload /\ t.dns = p.dns /\ t.identity = p.identity
        /\ t.service = p.service /\ t.servicePorts = p.servicePorts
        /\ t.ports = p.ports /\ t.release = "kaunas" /\ t.force = p.force
        /\ t.native = p.native /\ t.node = p.node /\ t.peer = p.peer
    BY <1>8, ReleaseReplaced
  <2> HIDE DEF t
  <2>2. ToV2("Hoprd", s, t)
    BY <1>8, <1>2, <2>1 DEF ToV2, WithPorts
  <2> QED BY <2>2 DEF t
<1>6. ToV2("IdentityHoprd", s, [s EXCEPT !.native = a, !.node = Absent, !.peer = "unknown"])
  <2> DEFINE t == [s EXCEPT !.native = a, !.node = Absent, !.peer = "unknown"]
  <2>1. /\ t \in RawSpecs /\ t.native = a /\ t.node = Absent /\ t.peer = "unknown"
        /\ t.payload = s.payload /\ t.dns = s.dns /\ t.identity = s.identity /\ t.service = s.service
        /\ t.servicePorts = s.servicePorts /\ t.ports = s.ports /\ t.release = s.release /\ t.force = s.force
    BY <1>1 DEF RawSpecs
  <2> HIDE DEF t
  <2>2. ToV2("IdentityHoprd", s, t)
    BY <1>2, <2>1 DEF ToV2, WithPorts
  <2> QED BY <2>2 DEF t
<1>7. ToV2("IdentityPool", s, s)
  BY DEF ToV2, RawSpecs, WithPorts
<1> QED BY <1>2, <1>9, <1>4, <1>5, <1>6, <1>7

\* The handler for v1alpha3 converts the spec of every kind, with or without a status to convert.
LEMMA ConvertToV3 ==
  ASSUME NEW k \in Names, NEW o \in RawObjects
  PROVE  LET c == convert("v1alpha3", k, o) IN
         /\ c \in RawObjects
         /\ c.exists = o.exists /\ c.gen = o.gen /\ ToV3(k, o.spec, c.spec)
         /\ c.status.present = o.status.present
         /\ o.status.present => c.status.observed = o.gen /\ c.status.checksum = Absent
         /\ ~o.status.present => c.status = o.status
<1>1. o.spec \in RawSpecs /\ o = [o EXCEPT !.spec = o.spec]
  BY DEF RawObjects
<1>2. PICK t \in RawSpecs : /\ ToV3(k, o.spec, t)
                            /\ convert("v1alpha3", k, o) = add_observed_generation([o EXCEPT !.spec = t])
  <2>1. CASE k = "ClusterHoprd"
    <3> DEFINE t == [PortsToService(o.spec) EXCEPT !.release = Absent, !.force = Absent]
    <3>1. convert("v1alpha3", k, o) = add_observed_generation([o EXCEPT !.spec = t])
      BY <2>1 DEF convert, convert_v2_to_v3, convert_cluster_hoprd_v2_to_v3
    <3>2. ToV3(k, o.spec, t)
      BY <1>1, <2>1, SpecsToV3
    <3> HIDE DEF t
    <3> QED BY <3>1, <3>2 DEF ToV3
  <2>2. CASE k = "Hoprd"
    <3> DEFINE t == [PortsToService(o.spec) EXCEPT !.release = Absent]
    <3>1. convert("v1alpha3", k, o) = add_observed_generation([o EXCEPT !.spec = t])
      BY <2>2 DEF convert, convert_v2_to_v3, convert_hoprd_v2_to_v3
    <3>2. ToV3(k, o.spec, t)
      BY <1>1, <2>2, SpecsToV3
    <3> HIDE DEF t
    <3> QED BY <3>1, <3>2 DEF ToV3
  <2>3. CASE k = "IdentityHoprd"
    <3> DEFINE t == [o.spec EXCEPT !.node = Given(o.spec.native, "lost"), !.native = Absent, !.peer = Absent]
    <3>1. convert("v1alpha3", k, o) = add_observed_generation([o EXCEPT !.spec = t])
      BY <2>3 DEF convert, convert_v2_to_v3, convert_identity_hoprd_v2_to_v3
    <3>2. ToV3(k, o.spec, t)
      BY <1>1, <2>3, SpecsToV3
    <3> HIDE DEF t
    <3> QED BY <3>1, <3>2 DEF ToV3
  <2>4. CASE k = "IdentityPool"
    <3>1. convert("v1alpha3", k, o) = add_observed_generation([o EXCEPT !.spec = o.spec])
      BY <1>1, <2>4 DEF convert, convert_v2_to_v3, convert_identity_pool_v2_to_v3
    <3>2. ToV3(k, o.spec, o.spec)
      BY <1>1, <2>4, SpecsToV3
    <3> QED BY <1>1, <3>1, <3>2, Zenon
  <2> QED BY <2>1, <2>2, <2>3, <2>4 DEF Names
<1> DEFINE p == [o EXCEPT !.spec = t]
<1>3. p \in RawObjects /\ p.exists = o.exists /\ p.gen = o.gen /\ p.spec = t /\ p.status = o.status
  BY SpecReplaced
<1> HIDE DEF p
<1>4. convert("v1alpha3", k, o) = add_observed_generation(p)
  BY <1>2 DEF p
<1> QED BY <1>2, <1>3, <1>4, ObservedAdded

\* So does the handler for v1alpha2.
LEMMA ConvertToV2 ==
  ASSUME NEW k \in Names, NEW o \in RawObjects
  PROVE  LET c == convert("v1alpha2", k, o) IN
         /\ c \in RawObjects
         /\ c.exists = o.exists /\ c.gen = o.gen /\ ToV2(k, o.spec, c.spec)
         /\ c.status.present = o.status.present
         /\ ~o.status.present => c.status = o.status
<1>1. o.spec \in RawSpecs /\ o = [o EXCEPT !.spec = o.spec]
  BY DEF RawObjects
<1>2. PICK t \in RawSpecs : /\ ToV2(k, o.spec, t)
                            /\ convert("v1alpha2", k, o) = add_status_checksum([o EXCEPT !.spec = t])
  <2>1. CASE k = "ClusterHoprd"
    <3> DEFINE t == [PortsFromService(o.spec) EXCEPT !.release = "kaunas", !.force = TRUE]
    <3>1. convert("v1alpha2", k, o) = add_status_checksum([o EXCEPT !.spec = t])
      BY <2>1 DEF convert, convert_v3_to_v2, convert_cluster_hoprd_v3_to_v2
    <3>2. ToV2(k, o.spec, t)
      BY <1>1, <2>1, SpecsToV2
    <3> HIDE DEF t
    <3> QED BY <3>1, <3>2 DEF ToV2
  <2>2. CASE k = "Hoprd"
    <3> DEFINE t == [PortsFromService(o.spec) EXCEPT !.release = "kaunas"]
    <3>1. convert("v1alpha2", k, o) = add_status_checksum([o EXCEPT !.spec = t])
      BY <2>2 DEF convert, convert_v3_to_v2, convert_hoprd_v3_to_v2
    <3>2. ToV2(k, o.spec, t)
      BY <1>1, <2>2, SpecsToV2
    <3> HIDE DEF t
    <3> QED BY <3>1, <3>2 DEF ToV2
  <2>3. CASE k = "IdentityHoprd"
    <3> DEFINE t == [o.spec EXCEPT !.native = Given(o.spec.node, "unknown"), !.node = Absent, !.peer = "unknown"]
    <3>1. convert("v1alpha2", k, o) = add_status_checksum([o EXCEPT !.spec = t])
      BY <2>3 DEF convert, convert_v3_to_v2, convert_identity_hoprd_v3_to_v2
    <3>2. ToV2(k, o.spec, t)
      BY <1>1, <2>3, SpecsToV2
    <3> HIDE DEF t
    <3> QED BY <3>1, <3>2 DEF ToV2
  <2>4. CASE k = "IdentityPool"
    <3>1. convert("v1alpha2", k, o) = add_status_checksum([o EXCEPT !.spec = o.spec])
      BY <1>1, <2>4 DEF convert, convert_v3_to_v2, convert_identity_pool_v3_to_v2
    <3>2. ToV2(k, o.spec, o.spec)
      BY <1>1, <2>4, SpecsToV2
    <3> QED BY <1>1, <3>1, <3>2, Zenon
  <2> QED BY <2>1, <2>2, <2>3, <2>4 DEF Names
<1> DEFINE p == [o EXCEPT !.spec = t]
<1>3. p \in RawObjects /\ p.exists = o.exists /\ p.gen = o.gen /\ p.spec = t /\ p.status = o.status
  BY SpecReplaced
<1> HIDE DEF p
<1>4. convert("v1alpha2", k, o) = add_status_checksum(p)
  BY <1>2 DEF p
<1> QED BY <1>2, <1>3, <1>4, ChecksumAdded

\* Two specs with the same fields are the same.
LEMMA SpecsEqual ==
  ASSUME NEW s \in RawSpecs, NEW t \in RawSpecs,
         s.payload = t.payload, s.dns = t.dns, s.identity = t.identity,
         s.service = t.service, s.servicePorts = t.servicePorts,
         s.ports = t.ports, s.release = t.release, s.force = t.force,
         s.native = t.native, s.node = t.node, s.peer = t.peer
  PROVE  s = t
BY DEF RawSpecs

\* The specs of v1alpha3 are among the specs of both versions.
LEMMA ShapeRaw ==
  ASSUME NEW k \in Names, NEW s, Shape(k, s)
  PROVE  s \in RawSpecs
BY DEF Shape, SpecType, RawSpecs

\* Spec t is what is left of a converted spec s after pruning.
AsV3(k, s, t) ==
  /\ t \in RawSpecs
  /\ t.payload = s.payload /\ t.dns = s.dns /\ t.identity = s.identity /\ t.service = s.service
  /\ t.servicePorts = IF WithPorts(k) /\ s.service THEN Given(s.ports, DefaultPorts) ELSE s.servicePorts
  /\ t.ports = Absent /\ t.release = Absent /\ t.force = Absent /\ t.native = Absent /\ t.peer = Absent
  /\ t.node = IF k = "IdentityHoprd" THEN Given(s.native, "lost") ELSE s.node

AsV2(k, s, t) ==
  /\ t \in RawSpecs
  /\ t.payload = s.payload /\ t.dns = Absent /\ t.identity = s.identity /\ t.service = s.service
  /\ t.servicePorts = Absent /\ t.node = Absent
  /\ t.ports = IF WithPorts(k) /\ s.service THEN Given(s.servicePorts, DefaultPorts) ELSE s.ports
  /\ t.release = IF WithPorts(k) THEN "kaunas" ELSE s.release
  /\ t.native = IF k = "IdentityHoprd" THEN Given(s.node, "unknown") ELSE s.native
  /\ t.peer = IF k = "IdentityHoprd" THEN "unknown" ELSE s.peer

\* What the API server drops from a converted object.
LEMMA PrunedV3 ==
  ASSUME NEW o \in RawObjects
  PROVE  LET c == prune_v1alpha3(o) IN
         /\ c \in RawObjects /\ c.exists = o.exists /\ c.gen = o.gen
         /\ c.status.present = o.status.present /\ c.status.observed = o.status.observed
         /\ c.status.checksum = Absent
         /\ c.spec.payload = o.spec.payload /\ c.spec.dns = o.spec.dns /\ c.spec.identity = o.spec.identity
         /\ c.spec.service = o.spec.service /\ c.spec.servicePorts = o.spec.servicePorts
         /\ c.spec.node = o.spec.node
         /\ c.spec.ports = Absent /\ c.spec.release = Absent /\ c.spec.force = Absent
         /\ c.spec.native = Absent /\ c.spec.peer = Absent
<1> DEFINE t == [o.spec EXCEPT !.ports = Absent, !.release = Absent, !.force = Absent, !.native = Absent,
                               !.peer = Absent]
           q == [o.status EXCEPT !.checksum = Absent]
<1>1. o.spec \in RawSpecs /\ o.status \in RawStatuses
  BY DEF RawObjects
<1>2. /\ t \in RawSpecs
      /\ t.payload = o.spec.payload /\ t.dns = o.spec.dns /\ t.identity = o.spec.identity
      /\ t.service = o.spec.service /\ t.servicePorts = o.spec.servicePorts /\ t.node = o.spec.node
      /\ t.ports = Absent /\ t.release = Absent /\ t.force = Absent /\ t.native = Absent /\ t.peer = Absent
  BY <1>1 DEF RawSpecs
<1>3. /\ q \in RawStatuses
      /\ q.present = o.status.present /\ q.observed = o.status.observed /\ q.checksum = Absent
  BY <1>1 DEF RawStatuses
<1>4. prune_v1alpha3(o) = [o EXCEPT !.spec = t, !.status = q]
  BY Zenon DEF prune_v1alpha3
<1> HIDE DEF t, q
<1>5. LET c == [o EXCEPT !.spec = t, !.status = q] IN
      c \in RawObjects /\ c.exists = o.exists /\ c.gen = o.gen /\ c.spec = t /\ c.status = q
  BY <1>2, <1>3 DEF RawObjects
<1> QED BY <1>2, <1>3, <1>4, <1>5

LEMMA PrunedV2 ==
  ASSUME NEW o \in RawObjects
  PROVE  LET c == prune_v1alpha2(o) IN
         /\ c \in RawObjects /\ c.exists = o.exists /\ c.gen = o.gen
         /\ c.status.present = o.status.present
         /\ c.spec.payload = o.spec.payload /\ c.spec.identity = o.spec.identity
         /\ c.spec.service = o.spec.service /\ c.spec.ports = o.spec.ports /\ c.spec.release = o.spec.release
         /\ c.spec.native = o.spec.native /\ c.spec.peer = o.spec.peer
         /\ c.spec.dns = Absent /\ c.spec.servicePorts = Absent /\ c.spec.node = Absent
<1> DEFINE t == [o.spec EXCEPT !.dns = Absent, !.servicePorts = Absent, !.node = Absent]
           q == [o.status EXCEPT !.observed = Absent]
<1>1. o.spec \in RawSpecs /\ o.status \in RawStatuses
  BY DEF RawObjects
<1>2. /\ t \in RawSpecs
      /\ t.payload = o.spec.payload /\ t.identity = o.spec.identity /\ t.service = o.spec.service
      /\ t.ports = o.spec.ports /\ t.release = o.spec.release /\ t.native = o.spec.native
      /\ t.peer = o.spec.peer /\ t.dns = Absent /\ t.servicePorts = Absent /\ t.node = Absent
  BY <1>1 DEF RawSpecs
<1>3. q \in RawStatuses /\ q.present = o.status.present
  BY <1>1 DEF RawStatuses
<1>4. prune_v1alpha2(o) = [o EXCEPT !.spec = t, !.status = q]
  BY Zenon DEF prune_v1alpha2
<1> HIDE DEF t, q
<1>5. LET c == [o EXCEPT !.spec = t, !.status = q] IN
      c \in RawObjects /\ c.exists = o.exists /\ c.gen = o.gen /\ c.spec = t /\ c.status = q
  BY <1>2, <1>3 DEF RawObjects
<1> QED BY <1>2, <1>3, <1>4, <1>5

\* The object that is stored for a v1alpha2 object, and the v1alpha2 object that is served.
LEMMA StorableAs ==
  ASSUME kind \in Names, NEW o \in RawObjects
  PROVE  LET c == Storable(o) IN
         /\ c \in RawObjects /\ c.exists = o.exists /\ c.gen = o.gen /\ AsV3(kind, o.spec, c.spec)
         /\ c.status.present = o.status.present /\ c.status.checksum = Absent
         /\ c.status.present => c.status.observed = c.gen
<1> DEFINE d == convert("v1alpha3", kind, o)
<1>1. /\ d \in RawObjects /\ d.exists = o.exists /\ d.gen = o.gen /\ ToV3(kind, o.spec, d.spec)
      /\ d.status.present = o.status.present
      /\ o.status.present => d.status.observed = o.gen
  BY ConvertToV3
<1>2. Storable(o) = prune_v1alpha3(d)
  BY DEF Storable
<1> HIDE DEF d
<1> DEFINE c == prune_v1alpha3(d)
<1>3. /\ c \in RawObjects /\ c.exists = d.exists /\ c.gen = d.gen
      /\ c.status.present = d.status.present /\ c.status.observed = d.status.observed
      /\ c.status.checksum = Absent
      /\ c.spec.payload = d.spec.payload /\ c.spec.dns = d.spec.dns /\ c.spec.identity = d.spec.identity
      /\ c.spec.service = d.spec.service /\ c.spec.servicePorts = d.spec.servicePorts
      /\ c.spec.node = d.spec.node
      /\ c.spec.ports = Absent /\ c.spec.release = Absent /\ c.spec.force = Absent
      /\ c.spec.native = Absent /\ c.spec.peer = Absent
  BY <1>1, PrunedV3
<1> HIDE DEF c
<1>4. c.spec \in RawSpecs
  BY <1>3 DEF RawObjects
<1>5. AsV3(kind, o.spec, c.spec)
  BY <1>1, <1>3, <1>4 DEF ToV3, AsV3
<1>6. /\ c \in RawObjects /\ c.exists = o.exists /\ c.gen = o.gen /\ AsV3(kind, o.spec, c.spec)
      /\ c.status.present = o.status.present /\ c.status.checksum = Absent
      /\ c.status.present => c.status.observed = c.gen
  BY <1>1, <1>3, <1>5
<1> QED BY <1>2, <1>6 DEF c

LEMMA ServedAs ==
  ASSUME kind \in Names, stored \in RawObjects
  PROVE  /\ Served \in RawObjects /\ Served.exists = stored.exists /\ Served.gen = stored.gen
         /\ AsV2(kind, stored.spec, Served.spec)
<1> DEFINE d == convert("v1alpha2", kind, stored)
<1>1. d \in RawObjects /\ d.exists = stored.exists /\ d.gen = stored.gen /\ ToV2(kind, stored.spec, d.spec)
  BY ConvertToV2
<1>2. Served = prune_v1alpha2(d)
  BY DEF Served
<1> HIDE DEF d
<1>3. /\ Served \in RawObjects /\ Served.exists = d.exists /\ Served.gen = d.gen
      /\ Served.spec.payload = d.spec.payload /\ Served.spec.identity = d.spec.identity
      /\ Served.spec.service = d.spec.service /\ Served.spec.ports = d.spec.ports
      /\ Served.spec.release = d.spec.release /\ Served.spec.native = d.spec.native
      /\ Served.spec.peer = d.spec.peer
      /\ Served.spec.dns = Absent /\ Served.spec.servicePorts = Absent /\ Served.spec.node = Absent
  BY <1>1, <1>2, PrunedV2
<1>4. Served.spec \in RawSpecs
  BY <1>3 DEF RawObjects
<1>5. AsV2(kind, stored.spec, Served.spec)
  BY <1>1, <1>3, <1>4 DEF ToV2, AsV2
<1> QED BY <1>1, <1>3, <1>5

\* A stored spec served as v1alpha2 and taken back is the same, but for dnsName and ports that were left out.
LEMMA RoundTrip ==
  ASSUME NEW k \in Names, NEW s, Shape(k, s), NEW t, AsV2(k, s, t), NEW u, AsV3(k, t, u)
  PROVE  /\ Shape(k, u)
         /\ u = [s EXCEPT !.dns = Absent,
                          !.servicePorts = IF s.service THEN Given(@, DefaultPorts) ELSE @]
<1>1. s \in RawSpecs /\ u \in RawSpecs
  BY ShapeRaw DEF AsV3
<1>2. /\ s.ports = Absent /\ s.release = Absent /\ s.force = Absent /\ s.native = Absent /\ s.peer = Absent
      /\ s.payload \in Payloads \cup {Absent} /\ s.identity \in Identities \cup {Absent} /\ s.service \in BOOLEAN
      /\ s.servicePorts \in Ports \cup {DefaultPorts, Absent} /\ s.node \in Addresses \cup {Absent}
  BY DEF Shape, SpecType
<1>3. Given(Given(s.servicePorts, DefaultPorts), DefaultPorts) = Given(s.servicePorts, DefaultPorts)
  BY DEF Given
<1>4. k = "IdentityHoprd" => Given(Given(s.node, "unknown"), "lost") = s.node
  BY <1>2, AbsentAssumption DEF Given, Shape
<1> DEFINE n == IF s.service THEN Given(s.servicePorts, DefaultPorts) ELSE s.servicePorts
<1>5. n \in Ports \cup {DefaultPorts, Absent}
  BY <1>2 DEF Given
<1>6. u.payload = s.payload /\ u.dns = Absent /\ u.identity = s.identity /\ u.service = s.service
  BY DEF AsV2, AsV3
<1>7. u.servicePorts = n
  BY <1>2, <1>3 DEF AsV2, AsV3, Shape
<1>8. u.node = s.node
  BY <1>2, <1>4 DEF AsV2, AsV3, Shape
<1>9. u.ports = Absent /\ u.release = Absent /\ u.force = Absent /\ u.native = Absent /\ u.peer = Absent
  BY DEF AsV3
<1> HIDE DEF n
<1>10. Shape(k, u)
  <2>1. u \in SpecType
    BY <1>1, <1>2, <1>5, <1>6, <1>7, <1>8, <1>9 DEF SpecType, RawSpecs
  <2> QED BY <2>1, <1>6, <1>7, <1>8 DEF Shape, n
<1> DEFINE c == [s EXCEPT !.dns = Absent, !.servicePorts = n]
<1>11. /\ c \in RawSpecs
       /\ c.payload = s.payload /\ c.dns = Absent /\ c.identity = s.identity
       /\ c.service = s.service /\ c.servicePorts = n
       /\ c.ports = s.ports /\ c.release = s.release /\ c.force = s.force
       /\ c.native = s.native /\ c.node = s.node /\ c.peer = s.peer
  BY <1>1, <1>5 DEF RawSpecs
<1>12. c = [s EXCEPT !.dns = Absent, !.servicePorts = n]
  OBVIOUS
<1> HIDE DEF c
<1>13. u = c
  BY <1>1, <1>2, <1>6, <1>7, <1>8, <1>9, <1>11, SpecsEqual
<1> QED BY <1>10, <1>12, <1>13 DEF n

\* What the schema of v1alpha3 lets a user write is the spec of a stored object.
LEMMA WrittenV3 ==
  ASSUME NEW k \in Names, NEW s \in Specs3(k)
  PROVE  s \in RawSpecs /\ Shape(k, s)
<1>1. PICK p \in Payloads, d \in (IF WithPorts(k) THEN Domains \cup {Absent} ELSE {Absent}),
           i \in (IF k = "Hoprd" THEN Identities ELSE {Absent}),
           n \in (IF WithPorts(k) THEN Ports \cup {Absent} ELSE {Absent}),
           a \in (IF k = "IdentityHoprd" THEN Addresses ELSE {Absent}) :
             s = Spec3(p, d, i, WithPorts(k), n, a)
  BY DEF Specs3
<1>2. \A b \in BOOLEAN :
        LET c == Spec3(p, d, i, b, n, a) IN
        c \in SpecType /\ c.service = b /\ c.servicePorts = n /\ c.node = a
  BY DEF NoSpec, SpecType, Spec3
<1>3. WithPorts(k) \in BOOLEAN
  BY DEF WithPorts
<1>4. s \in SpecType /\ s.service = WithPorts(k) /\ s.servicePorts = n /\ s.node = a
  BY <1>1, <1>2, <1>3, Zenon
<1>5. Shape(k, s)
  BY <1>4 DEF Shape
<1> QED BY <1>5, ShapeRaw

\* What the schema of v1alpha2 lets a user write becomes one, with the same meaning.
LEMMA WrittenV2 ==
  ASSUME NEW k \in Names, NEW s \in Specs2(k)
  PROVE  /\ s \in RawSpecs
         /\ \A u : AsV3(k, s, u) =>
              /\ Shape(k, u)
              /\ u.payload = s.payload /\ u.dns = Absent /\ u.identity = s.identity /\ u.service = s.service
              /\ Meaning(u).address = Meaning(s).address
              /\ s.service => Meaning(u).ports = Meaning(s).ports
<1>1. PICK p \in Payloads, i \in (IF k = "Hoprd" THEN Identities \cup {Absent} ELSE {Absent}),
           b \in {x \in BOOLEAN : x => WithPorts(k)},
           n \in (IF WithPorts(k) THEN Ports ELSE {Absent}),
           a \in (IF k = "IdentityHoprd" THEN Addresses ELSE {Absent}) :
             s = [NoSpec EXCEPT !.payload = p, !.identity = i, !.service = b, !.ports = n, !.native = a,
                  !.release = IF WithPorts(k) THEN "saint-louis" ELSE Absent,
                  !.force = IF k = "ClusterHoprd" THEN FALSE ELSE Absent,
                  !.peer = IF k = "IdentityHoprd" THEN "known" ELSE Absent]
  <2>1. PICK p \in Payloads, i \in (IF k = "Hoprd" THEN Identities \cup {Absent} ELSE {Absent}),
             b \in {x \in BOOLEAN : x => WithPorts(k)},
             n \in (IF WithPorts(k) THEN Ports ELSE {Absent}),
             a \in (IF k = "IdentityHoprd" THEN Addresses ELSE {Absent}) : s = Spec2(k, p, i, b, n, a)
    BY DEF Specs2
  <2> QED BY <2>1, Zenon DEF Spec2
<1>2. PICK r \in {Absent, "saint-louis"}, f \in {FALSE, Absent}, q \in {Absent, "known"} :
        s = [NoSpec EXCEPT !.payload = p, !.identity = i, !.service = b, !.ports = n, !.native = a,
                           !.release = r, !.force = f, !.peer = q]
  <2>1. (IF WithPorts(k) THEN "saint-louis" ELSE Absent) \in {Absent, "saint-louis"}
    BY Zenon
  <2>2. (IF k = "ClusterHoprd" THEN FALSE ELSE Absent) \in {FALSE, Absent}
    BY Zenon
  <2>3. (IF k = "IdentityHoprd" THEN "known" ELSE Absent) \in {Absent, "known"}
    BY Zenon
  <2> QED BY <1>1, <2>1, <2>2, <2>3, Zenon
<1>3. /\ s \in RawSpecs
      /\ s.payload = p /\ s.dns = Absent /\ s.identity = i /\ s.service = b /\ s.ports = n /\ s.native = a
      /\ s.node = Absent /\ s.servicePorts = Absent
  BY <1>2 DEF NoSpec, RawSpecs, WithPorts
<1>4. ASSUME NEW u, AsV3(k, s, u)
      PROVE  /\ Shape(k, u)
             /\ u.payload = s.payload /\ u.dns = Absent /\ u.identity = s.identity /\ u.service = s.service
             /\ Meaning(u).address = Meaning(s).address
             /\ s.service => Meaning(u).ports = Meaning(s).ports
  <2>1. u \in RawSpecs /\ u.payload = p /\ u.dns = Absent /\ u.identity = i /\ u.service = b
    BY <1>3, <1>4 DEF AsV3
  <2>2. u.servicePorts = (IF b THEN n ELSE Absent) /\ u.ports = Absent
    BY <1>3, <1>4, AbsentAssumption DEF AsV3, Given
  <2>3. u.release = Absent /\ u.force = Absent /\ u.native = Absent /\ u.peer = Absent
    BY <1>4 DEF AsV3
  <2>4. u.node = a
    BY <1>3, <1>4, AbsentAssumption DEF AsV3, Given
  <2>5. u \in SpecType
    BY <2>1, <2>2, <2>3, <2>4 DEF SpecType, RawSpecs
  <2>6. Shape(k, u)
    BY <2>1, <2>2, <2>4, <2>5 DEF Shape
  <2>7. Meaning(u).address = Meaning(s).address /\ (s.service => Meaning(u).ports = Meaning(s).ports)
    BY <1>3, <2>1, <2>2, <2>3, <2>4, AbsentAssumption DEF Meaning
  <2> QED BY <1>3, <2>1, <2>6, <2>7
<1> QED BY <1>3, <1>4

-----------------------------------------------------------------------------
(***************************************************************************)
(* The stored object.                                                      *)
(***************************************************************************)

\* A new object, and one whose spec was replaced through either version.
LEMMA NewObject ==
  ASSUME NEW s \in RawSpecs
  PROVE  LET c == New(s) IN
         /\ c \in RawObjects
         /\ c.exists = TRUE /\ c.gen = 1 /\ c.spec = s /\ c.status = NoStatus
<1>1. NoSpec \in RawSpecs
  BY DEF NoSpec, RawSpecs
<1>2. NoStatus \in RawStatuses
  BY DEF NoStatus, RawStatuses
<1> QED BY <1>1, <1>2 DEF New, Missing, RawObjects

LEMMA EditedObject ==
  ASSUME NEW o \in RawObjects, NEW s \in RawSpecs
  PROVE  LET c == Edited(o, s) IN
         /\ c \in RawObjects
         /\ c.exists = o.exists /\ c.gen \in {o.gen, o.gen + 1} /\ c.spec = s /\ c.status = o.status
<1>1. o.gen \in Nat
  BY DEF RawObjects
<1>2. \A g \in Nat : LET c == [o EXCEPT !.spec = s, !.gen = g] IN
        c \in RawObjects /\ c.exists = o.exists /\ c.gen = g /\ c.spec = s /\ c.status = o.status
  BY DEF RawObjects
<1>3. PICK g \in {o.gen, o.gen + 1} : Edited(o, s) = [o EXCEPT !.spec = s, !.gen = g]
  BY DEF Edited
<1>4. g \in Nat
  BY <1>1
<1> DEFINE c == [o EXCEPT !.spec = s, !.gen = g]
<1>5. c \in RawObjects /\ c.exists = o.exists /\ c.gen = g /\ c.spec = s /\ c.status = o.status
  BY <1>2, <1>4, Zenon
<1> HIDE DEF c
<1>6. Edited(o, s) = c
  BY <1>3 DEF c
<1> QED BY <1>5, <1>6

\* What holds of the stored object after each write through v1alpha2.
LEMMA WriteV2 ==
  ASSUME StoredInv, stored.exists, NEW s \in Specs2(kind)
  PROVE  LET c == Storable(Edited(Served, s)) IN
         /\ c \in RawObjects /\ c.exists = TRUE /\ c.gen >= stored.gen
         /\ AsV3(kind, s, c.spec)
         /\ c.status.checksum = Absent
         /\ c.status.present => c.status.observed = c.gen
<1>1. kind \in Names /\ stored \in RawObjects
  BY DEF StoredInv
<1>2. Served \in RawObjects /\ Served.exists = TRUE /\ Served.gen = stored.gen /\ Served.gen \in Nat
  BY <1>1, ServedAs DEF RawObjects
<1>3. s \in RawSpecs
  BY <1>1, WrittenV2
<1> DEFINE e == Edited(Served, s)
<1>4. e \in RawObjects /\ e.exists = TRUE /\ e.gen >= stored.gen /\ e.spec = s
  BY <1>2, <1>3, EditedObject
<1> HIDE DEF e
<1> DEFINE c == Storable(e)
<1>5. /\ c \in RawObjects /\ c.exists = TRUE /\ c.gen >= stored.gen
      /\ AsV3(kind, s, c.spec)
      /\ c.status.checksum = Absent
      /\ c.status.present => c.status.observed = c.gen
  BY <1>1, <1>4, StorableAs
<1> QED BY <1>5 DEF c, e

LEMMA TouchV2 ==
  ASSUME StoredInv, stored.exists
  PROVE  LET c == Storable(Served) IN
         /\ c \in RawObjects /\ c.exists = TRUE /\ c.gen = stored.gen
         /\ Shape(kind, c.spec)
         /\ c.spec = [stored.spec EXCEPT !.dns = Absent,
                        !.servicePorts = IF stored.spec.service THEN Given(@, DefaultPorts) ELSE @]
         /\ c.status.checksum = Absent
         /\ c.status.present => c.status.observed = c.gen
<1>1. kind \in Names /\ stored \in RawObjects /\ Shape(kind, stored.spec)
  BY DEF StoredInv
<1>2. /\ Served \in RawObjects /\ Served.exists = TRUE /\ Served.gen = stored.gen
      /\ AsV2(kind, stored.spec, Served.spec)
  BY <1>1, ServedAs
<1> DEFINE c == Storable(Served)
<1>3. /\ c \in RawObjects /\ c.exists = TRUE /\ c.gen = stored.gen /\ AsV3(kind, Served.spec, c.spec)
      /\ c.status.checksum = Absent
      /\ c.status.present => c.status.observed = c.gen
  BY <1>1, <1>2, StorableAs
<1> HIDE DEF c
<1>4. /\ Shape(kind, c.spec)
      /\ c.spec = [stored.spec EXCEPT !.dns = Absent,
                     !.servicePorts = IF stored.spec.service THEN Given(@, DefaultPorts) ELSE @]
  BY <1>1, <1>2, <1>3, RoundTrip
<1>5. /\ c \in RawObjects /\ c.exists = TRUE /\ c.gen = stored.gen
      /\ Shape(kind, c.spec)
      /\ c.spec = [stored.spec EXCEPT !.dns = Absent,
                     !.servicePorts = IF stored.spec.service THEN Given(@, DefaultPorts) ELSE @]
      /\ c.status.checksum = Absent
      /\ c.status.present => c.status.observed = c.gen
  BY <1>3, <1>4
<1> QED BY <1>5 DEF c

\* The fields of a spec that the user has written are the fields of what is stored for it.
Kept(t, w, dns) ==
  /\ Meaning(t).payload = w.payload /\ Meaning(t).identity = w.identity
  /\ Meaning(t).service = w.service /\ Meaning(t).address = w.address
  /\ Meaning(t).dns = dns
  /\ w.service => \/ Meaning(t).ports = w.ports
                  \/ w.ports = Absent /\ Meaning(t).ports = DefaultPorts

\* Before the object exists nothing was written or pruned.
Unwritten == ~stored.exists => pruned = FALSE

LEMMA InitStored == Init => StoredInv /\ WrittenIsStored /\ Unwritten
<1> SUFFICES ASSUME Init PROVE StoredInv /\ WrittenIsStored /\ Unwritten
  OBVIOUS
<1>1. NoSpec \in RawSpecs
  BY DEF NoSpec, RawSpecs
<1>2. NoStatus \in RawStatuses
  BY DEF NoStatus, RawStatuses
<1>3. stored \in RawObjects
  BY <1>1, <1>2 DEF Init, Missing, RawObjects
<1>4. kind \in Names
  BY KindsAssumption DEF Init, Names
<1>5. stored = Missing /\ stored.exists = FALSE /\ stored.status = NoStatus /\ pruned = FALSE
  BY DEF Init, Missing
<1>6. NoStatus.present = FALSE /\ NoStatus.checksum = Absent
  BY DEF NoStatus
<1> QED BY <1>3, <1>4, <1>5, <1>6 DEF StoredInv, WrittenIsStored, Unwritten

\* The invariants again, for an object that exists after the step.
LEMMA StoredAfter ==
  ASSUME StoredInv, kind' = kind, stored' \in RawObjects, stored'.exists = TRUE,
         Shape(kind, stored'.spec), stored'.status.checksum = Absent,
         stored'.status.present => stored'.status.observed \in 0 .. stored'.gen,
         Kept(stored'.spec, wanted', IF pruned' THEN Absent ELSE wanted'.dns)
  PROVE  StoredInv' /\ WrittenIsStored' /\ Unwritten'
<1>1. StoredInv'
  BY DEF StoredInv, Names, RawObjects
<1>2. WrittenIsStored'
  BY DEF WrittenIsStored, Kept
<1>3. Unwritten'
  BY DEF Unwritten
<1> QED BY <1>1, <1>2, <1>3

\* Every step keeps the stored object a v1alpha3 object with the fields that were written last.
LEMMA NextStored ==
  StoredInv /\ WrittenIsStored /\ Unwritten /\ [Next]_vars => StoredInv' /\ WrittenIsStored' /\ Unwritten'
<1> SUFFICES ASSUME StoredInv, WrittenIsStored, Unwritten, [Next]_vars
             PROVE  StoredInv' /\ WrittenIsStored' /\ Unwritten'
  OBVIOUS
<1>0. kind \in Names /\ stored \in RawObjects /\ stored.gen \in Nat
  BY DEF StoredInv, RawObjects
<1>a. NoStatus.present = FALSE /\ NoStatus.checksum = Absent
  BY DEF NoStatus
<1>1. CASE create_v1alpha3
  <2>1. ~stored.exists /\ UNCHANGED <<kind, pruned>>
    BY <1>1 DEF create_v1alpha3
  <2>2. PICK s \in Specs3(kind) : stored' = New(s) /\ wanted' = Meaning(s)
    BY <1>1 DEF create_v1alpha3
  <2>3. s \in RawSpecs /\ Shape(kind, s)
    BY <1>0, WrittenV3
  <2>4. /\ stored' \in RawObjects /\ stored'.exists = TRUE /\ stored'.spec = s /\ stored'.status = NoStatus
    BY <2>2, <2>3, NewObject
  <2>5. Kept(stored'.spec, wanted', IF pruned' THEN Absent ELSE wanted'.dns)
    BY <2>1, <2>2, <2>4 DEF Kept, Unwritten
  <2> QED BY <1>a, <2>1, <2>3, <2>4, <2>5, StoredAfter
<1>2. CASE create_v1alpha2
  <2>1. ~stored.exists /\ UNCHANGED <<kind, pruned>>
    BY <1>2 DEF create_v1alpha2
  <2>2. PICK s \in Specs2(kind) : stored' = Storable(New(s)) /\ wanted' = Meaning(s)
    BY <1>2 DEF create_v1alpha2
  <2>3. s \in RawSpecs
    BY <1>0, WrittenV2
  <2> DEFINE n == New(s)
  <2>4. n \in RawObjects /\ n.exists = TRUE /\ n.spec = s /\ n.status = NoStatus
    BY <2>3, NewObject
  <2>5. stored' = Storable(n)
    BY <2>2
  <2> HIDE DEF n
  <2>6. /\ stored' \in RawObjects /\ stored'.exists = TRUE /\ AsV3(kind, s, stored'.spec)
        /\ stored'.status.present = FALSE /\ stored'.status.checksum = Absent
    BY <1>0, <1>a, <2>4, <2>5, StorableAs
  <2>7. /\ Shape(kind, stored'.spec)
        /\ stored'.spec.payload = s.payload /\ stored'.spec.dns = Absent
        /\ stored'.spec.identity = s.identity /\ stored'.spec.service = s.service
        /\ Meaning(stored'.spec).address = Meaning(s).address
        /\ s.service => Meaning(stored'.spec).ports = Meaning(s).ports
    BY <1>0, <2>6, WrittenV2
  <2>8. s.dns = Absent
    BY <2>6, <2>7 DEF AsV3
  <2>9. Kept(stored'.spec, wanted', IF pruned' THEN Absent ELSE wanted'.dns)
    BY <2>2, <2>7, <2>8 DEF Kept, Meaning
  <2> QED BY <2>1, <2>6, <2>7, <2>9, StoredAfter
<1>3. CASE edit_v1alpha3
  <2>1. stored.exists /\ kind' = kind /\ pruned' = FALSE
    BY <1>3 DEF edit_v1alpha3
  <2>2. PICK s \in Specs3(kind) : stored' = Edited(stored, s) /\ wanted' = Meaning(s)
    BY <1>3 DEF edit_v1alpha3
  <2>3. s \in RawSpecs /\ Shape(kind, s)
    BY <1>0, WrittenV3
  <2>4. /\ stored' \in RawObjects /\ stored'.exists = stored.exists /\ stored'.gen \in {stored.gen, stored.gen + 1}
        /\ stored'.spec = s /\ stored'.status = stored.status
    BY <1>0, <2>2, <2>3, EditedObject
  <2>5. Kept(stored'.spec, wanted', IF pruned' THEN Absent ELSE wanted'.dns)
    BY <2>1, <2>2, <2>4 DEF Kept
  <2>6. /\ stored'.status.checksum = Absent
        /\ stored'.status.present => stored'.status.observed \in 0 .. stored'.gen
    BY <1>0, <2>4 DEF StoredInv
  <2>7. stored'.exists = TRUE
    BY <1>0, <2>1, <2>4 DEF RawObjects
  <2> QED BY <2>1, <2>3, <2>4, <2>5, <2>6, <2>7, StoredAfter
<1>4. CASE edit_v1alpha2
  <2>1. stored.exists /\ kind' = kind /\ pruned' = TRUE
    BY <1>4 DEF edit_v1alpha2
  <2>2. PICK s \in Specs2(kind) :
          stored' = Storable(Edited(Served, s)) /\ wanted' = [Meaning(s) EXCEPT !.dns = wanted.dns]
    BY <1>4 DEF edit_v1alpha2
  <2>3. /\ stored' \in RawObjects /\ stored'.exists = TRUE
        /\ AsV3(kind, s, stored'.spec)
        /\ stored'.status.checksum = Absent
        /\ stored'.status.present => stored'.status.observed = stored'.gen
    BY <2>1, <2>2, WriteV2
  <2>4. /\ Shape(kind, stored'.spec)
        /\ stored'.spec.payload = s.payload /\ stored'.spec.dns = Absent
        /\ stored'.spec.identity = s.identity /\ stored'.spec.service = s.service
        /\ Meaning(stored'.spec).address = Meaning(s).address
        /\ s.service => Meaning(stored'.spec).ports = Meaning(s).ports
    BY <1>0, <2>3, WrittenV2
  <2>5. /\ wanted'.payload = s.payload /\ wanted'.identity = s.identity /\ wanted'.service = s.service
        /\ wanted'.address = Meaning(s).address /\ wanted'.ports = Meaning(s).ports
    BY <2>2 DEF Meaning
  <2>6. Kept(stored'.spec, wanted', Absent)
    BY <2>4, <2>5 DEF Kept, Meaning
  <2>7. stored'.gen \in Nat
    BY <2>3 DEF RawObjects
  <2>8. stored'.status.present => stored'.status.observed \in 0 .. stored'.gen
    BY <2>3, <2>7
  <2> QED BY <2>1, <2>3, <2>4, <2>6, <2>8, StoredAfter
<1>5. CASE touch_v1alpha2
  <2>1. stored.exists /\ stored' = Storable(Served) /\ UNCHANGED <<kind, wanted>> /\ pruned' = TRUE
    BY <1>5 DEF touch_v1alpha2
  <2>2. /\ stored' \in RawObjects /\ stored'.exists = TRUE /\ stored'.gen = stored.gen
        /\ Shape(kind, stored'.spec)
        /\ stored'.spec = [stored.spec EXCEPT !.dns = Absent,
                             !.servicePorts = IF stored.spec.service THEN Given(@, DefaultPorts) ELSE @]
        /\ stored'.status.checksum = Absent
        /\ stored'.status.present => stored'.status.observed = stored'.gen
    BY <2>1, TouchV2
  <2>3. Shape(kind, stored.spec) /\ stored.spec \in RawSpecs
    BY <1>0, <2>1 DEF StoredInv, RawObjects
  <2>4. LET s == stored.spec  t == stored'.spec IN
        /\ t.payload = s.payload /\ t.dns = Absent /\ t.identity = s.identity /\ t.service = s.service
        /\ t.ports = s.ports /\ t.native = s.native /\ t.node = s.node
        /\ t.servicePorts = IF s.service THEN Given(s.servicePorts, DefaultPorts) ELSE s.servicePorts
    BY <2>2, <2>3 DEF RawSpecs
  <2>5. Kept(stored.spec, wanted, IF pruned THEN Absent ELSE wanted.dns) /\ stored.spec.ports = Absent
    BY <2>1, <2>3 DEF WrittenIsStored, Kept, Shape, SpecType
  <2>6. Kept(stored'.spec, wanted, Absent)
    BY <2>4, <2>5 DEF Kept, Meaning, Given
  <2>7. stored'.status.present => stored'.status.observed \in 0 .. stored'.gen
    BY <1>0, <2>2
  <2>8. Kept(stored'.spec, wanted', IF pruned' THEN Absent ELSE wanted'.dns)
    BY <2>1, <2>6
  <2> QED BY <2>1, <2>2, <2>7, <2>8, StoredAfter
<1>6. ASSUME NEW g \in 1 .. stored.gen, update_status(g)
      PROVE  StoredInv' /\ WrittenIsStored' /\ Unwritten'
  <2> DEFINE q == [present |-> TRUE, observed |-> g, checksum |-> Absent]
  <2>1. stored' = [stored EXCEPT !.status = q] /\ stored.exists /\ UNCHANGED <<kind, wanted, pruned>>
    BY <1>6 DEF update_status
  <2>2. q \in RawStatuses /\ q.present = TRUE /\ q.observed = g /\ q.checksum = Absent
    BY <1>0 DEF RawStatuses
  <2> HIDE DEF q
  <2>3. /\ stored' \in RawObjects /\ stored'.exists = stored.exists /\ stored'.gen = stored.gen
        /\ stored'.spec = stored.spec /\ stored'.status = q
    BY <1>0, <2>1, <2>2 DEF RawObjects
  <2>4. StoredInv'
    BY <1>0, <2>1, <2>2, <2>3 DEF StoredInv
  <2>5. WrittenIsStored' /\ Unwritten'
    BY <2>1, <2>3 DEF WrittenIsStored, Unwritten
  <2> QED BY <2>4, <2>5
<1>7. CASE UNCHANGED vars
  BY <1>7 DEF vars, StoredInv, WrittenIsStored, Unwritten
<1> QED BY <1>1, <1>2, <1>3, <1>4, <1>5, <1>6, <1>7 DEF Next

\* The invariant that the theorems below rest on: whichever versions the object was written through, it is
\* stored as an object of v1alpha3 of its kind, with what the user wrote last.
THEOREM StoredInvariant == Spec => [](StoredInv /\ WrittenIsStored /\ Unwritten)
BY InitStored, NextStored, PTL DEF Spec

\* What convert and the schema leave in storage is a v1alpha3 object: no field of v1alpha2, no checksum, no
\* placeholder, also where add_observed_generation fails for want of a status; and the operator can
\* deserialize it if the user wrote the fields that takes.
THEOREM StoredV3 == Spec => []StoredIsV3
<1>1. StoredInv /\ WrittenIsStored => StoredIsV3
  <2> SUFFICES ASSUME StoredInv, WrittenIsStored PROVE StoredIsV3
    OBVIOUS
  <2>1. stored.spec \in SpecType
    <3>1. CASE stored.exists
      BY <3>1 DEF StoredInv, Shape
    <3>2. CASE ~stored.exists
      <4>1. stored.spec = NoSpec
        BY <3>2 DEF StoredInv, Missing
      <4>2. NoSpec \in SpecType
        BY DEF NoSpec, SpecType
      <4> QED BY <4>1, <4>2
    <3> QED BY <3>1, <3>2
  <2>2. stored.exists /\ Complete => Readable(stored.spec)
    <3>1. stored.spec.ports = Absent
      BY <2>1 DEF SpecType
    <3> QED BY <3>1, AbsentAssumption DEF WrittenIsStored, Complete, Readable, Meaning
  <2> QED BY <2>1, <2>2 DEF StoredInv, StoredIsV3
<1> QED BY <1>1, StoredInvariant, PTL

\* Through any sequence of writes in either version, with statuses written between them, the stored object
\* has the fields that the users have written last, but for a dnsName that a v1alpha2 write has dropped.
THEOREM WrittenStored == Spec => []WrittenIsStored
BY StoredInvariant, PTL

\* What v1alpha2 serves is valid there and shows the stored fields, with or without a status.
THEOREM ServedV2 == Spec => []ServedIsV2
<1>1. StoredInv => ServedIsV2
  <2> SUFFICES ASSUME StoredInv, stored.exists PROVE ServedIsV2
    BY DEF ServedIsV2
  <2>1. kind \in Names /\ stored \in RawObjects /\ Shape(kind, stored.spec)
    BY DEF StoredInv
  <2> DEFINE s == stored.spec
             t == Served.spec
  <2>2. AsV2(kind, s, t)
    BY <2>1, ServedAs
  <2>3. /\ s.ports = Absent /\ s.native = Absent /\ s.service \in BOOLEAN
        /\ s.service => WithPorts(kind)
        /\ kind = "IdentityHoprd" => s.node \in Addresses
        /\ kind # "IdentityHoprd" => s.node = Absent
    BY <2>1 DEF Shape, SpecType
  <2> HIDE DEF s, t
  <2>4. /\ t.payload = s.payload /\ t.identity = s.identity /\ t.service = s.service
        /\ t.servicePorts = Absent /\ t.node = Absent
        /\ t.ports = IF s.service THEN Given(s.servicePorts, DefaultPorts) ELSE Absent
        /\ t.native = IF kind = "IdentityHoprd" THEN s.node ELSE Absent
    BY <2>2, <2>3, AbsentAssumption DEF AsV2, Given
  <2>5. Valid2(kind, t) \/ (WithPorts(kind) /\ ~s.service)
    BY <2>2, <2>3, <2>4, AbsentAssumption DEF AsV2, Valid2, WithPorts, Given
  <2>6. /\ Meaning(t).payload = Meaning(s).payload /\ Meaning(t).identity = Meaning(s).identity
        /\ Meaning(t).service = Meaning(s).service /\ Meaning(t).address = Meaning(s).address
    BY <2>3, <2>4, AbsentAssumption DEF Meaning
  <2>7. s.service => Meaning(t).ports = Given(Meaning(s).ports, DefaultPorts)
    BY <2>3, <2>4, AbsentAssumption DEF Meaning, Given
  <2> QED BY <2>5, <2>6, <2>7 DEF ServedIsV2, s, t, Meaning
<1> QED BY <1>1, StoredInvariant, PTL

\* A write of the metadata through v1alpha2 converts the stored spec there and back to itself, but for
\* dnsName, which v1alpha2 does not have, and ports that were left out.
THEOREM TouchIsInert == Spec => TouchInert
<1>1. StoredInv /\ [Next]_vars =>
        [touch_v1alpha2 =>
           /\ stored'.gen = stored.gen
           /\ stored'.spec = [stored.spec EXCEPT
                !.dns = Absent,
                !.servicePorts = IF stored.spec.service THEN Given(@, DefaultPorts) ELSE @]]_vars
  <2> SUFFICES ASSUME StoredInv, touch_v1alpha2
               PROVE  /\ stored'.gen = stored.gen
                      /\ stored'.spec = [stored.spec EXCEPT
                           !.dns = Absent,
                           !.servicePorts = IF stored.spec.service THEN Given(@, DefaultPorts) ELSE @]
    OBVIOUS
  <2>1. stored.exists /\ stored' = Storable(Served)
    BY DEF touch_v1alpha2
  <2> QED BY <2>1, TouchV2
<1> QED BY <1>1, StoredInvariant, PTL DEF Spec, TouchInert
=============================================================================
