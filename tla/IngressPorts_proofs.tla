------------------------ MODULE IngressPorts_proofs ------------------------
(***************************************************************************)
(* Proofs about IngressPorts, for any range of ports, any nodes and any    *)
(* allocations: find_next_port returns free ports and misses no gap; the   *)
(* operator opens only ports of its range and leaves those of the other    *)
(* services alone, whatever tasks race; and, one task at a time, a node    *)
(* keeps its ports as long as it is open and has none when it is gone.     *)
(***************************************************************************)
EXTENDS IngressPorts, TLAPS, FiniteSetTheorems, WellFoundedInduction

-----------------------------------------------------------------------------
(***************************************************************************)
(* Least and greatest elements.                                            *)
(***************************************************************************)

LEMMA MinExists ==
  ASSUME NEW S \in SUBSET Nat, S # {}
  PROVE  \E m \in S : \A x \in S : m <= x
<1>1. PICK m \in S : \A x \in S : ~(<<x, m>> \in OpToRel(<, Nat))
  BY NatLessThanWellFounded, WFMin
<1>2. \A x \in S : ~(x < m)
  BY <1>1 DEF OpToRel
<1> QED BY <1>2

LEMMA MaxExists ==
  ASSUME NEW b \in Nat, NEW S \in SUBSET (0 .. b), S # {}
  PROVE  \E m \in S : \A x \in S : x <= m
<1> DEFINE T == {b - x : x \in S}
<1>1. \A x \in S : b - x \in Nat
  OBVIOUS
<1>2. T \in SUBSET Nat /\ T # {}
  BY <1>1
<1>3. PICK t \in T : \A x \in T : t <= x
  BY <1>2, MinExists
<1>4. PICK m \in S : t = b - m
  BY <1>3
<1>5. \A x \in S : b - m <= b - x
  BY <1>3, <1>4
<1> QED BY <1>4, <1>5

LEMMA MinOfSet ==
  ASSUME NEW S \in SUBSET Nat, S # {}
  PROVE  MinOf(S) \in S /\ \A x \in S : MinOf(S) <= x
BY MinExists DEF MinOf

LEMMA MaxOfSet ==
  ASSUME NEW b \in Nat, NEW S \in SUBSET (0 .. b), S # {}
  PROVE  MaxOf(S) \in S /\ \A x \in S : x <= MaxOf(S)
BY MaxExists DEF MaxOf

-----------------------------------------------------------------------------
(***************************************************************************)
(* find_next_port.                                                         *)
(***************************************************************************)

LEMMA SmallModulo ==
  ASSUME NEW x \in Nat, x < U16
  PROVE  x % U16 = x
BY PortsAssumption

\* The ports it returns are free and not below the first one, and it goes past the last port only when it
\* finds no room before it.
LEMMA NextPortFree ==
  ASSUME NEW S \in SUBSET (PortMin .. PortMax), NEW n \in Nat
  PROVE  LET s == find_next_port(S, n, PortMin) IN
         /\ s \in PortMin .. (PortMax + 1)
         /\ \A k \in 0 .. (n - 1) : s + k \notin S
<1> DEFINE s == find_next_port(S, n, PortMin)
<1>0. /\ PortMin \in Nat /\ PortMax \in Nat /\ U16 \in Nat /\ PortMin <= PortMax /\ PortMax + 1 < U16
      /\ S \in SUBSET Nat /\ \A x \in S : PortMin <= x /\ x <= PortMax
  BY PortsAssumption
<1>1. CASE S = {}
  BY <1>0, <1>1 DEF find_next_port
<1>2. CASE S # {} /\ MinOf(S) - PortMin >= n /\ MinOf(S) > PortMin
  <2>1. s = MinOf(S) - n
    BY <1>2 DEF find_next_port
  <2>2. MinOf(S) \in PortMin .. PortMax /\ \A x \in S : MinOf(S) <= x
    BY <1>0, <1>2, MinOfSet
  <2> QED BY <1>0, <1>2, <2>1, <2>2
<1>3. CASE /\ S # {} /\ ~(MinOf(S) - PortMin >= n /\ MinOf(S) > PortMin)
           /\ n > 0 /\ Gaps(S, n) # {}
  <2>1. s = MinOf(Gaps(S, n)) + 1
    BY <1>3 DEF find_next_port
  <2>2. Gaps(S, n) \in SUBSET Nat
    BY <1>0 DEF Gaps
  <2>3. MinOf(Gaps(S, n)) \in Gaps(S, n)
    BY <1>3, <2>2, MinOfSet
  <2>4. PICK p \in S : /\ s = p + 1
                       /\ \E q \in S : /\ p < q /\ q - p - 1 >= n
                                       /\ \A r \in S : r <= p \/ q <= r
    BY <2>1, <2>3 DEF Gaps
  <2> HIDE DEF s
  <2> QED BY <1>0, <1>3, <2>4 DEF s
<1>4. CASE /\ S # {} /\ ~(MinOf(S) - PortMin >= n /\ MinOf(S) > PortMin)
           /\ ~(n > 0 /\ Gaps(S, n) # {})
  <2>1. s = (MaxOf(S) + 1) % U16
    BY <1>4 DEF find_next_port
  <2>2. S \in SUBSET (0 .. PortMax)
    BY <1>0
  <2>3. MaxOf(S) \in PortMin .. PortMax /\ \A x \in S : x <= MaxOf(S)
    BY <1>0, <1>4, <2>2, MaxOfSet
  <2>4. s = MaxOf(S) + 1
    BY <1>0, <2>1, <2>3, SmallModulo
  <2> HIDE DEF s
  <2> QED BY <1>0, <2>3, <2>4 DEF s
<1> QED BY <1>1, <1>2, <1>3, <1>4

\* If n ports in a row are free below the last port, the ports it returns are such ports.
LEMMA NoGapMissed ==
  ASSUME NEW S \in SUBSET (PortMin .. PortMax), NEW n \in Nat, n > 0,
         NEW p \in PortMin .. PortMax, p + n <= PortMax, \A k \in 0 .. (n - 1) : p + k \notin S
  PROVE  find_next_port(S, n, PortMin) + n <= PortMax
<1> DEFINE s == find_next_port(S, n, PortMin)
<1>0. /\ PortMin \in Nat /\ PortMax \in Nat /\ U16 \in Nat /\ PortMin <= PortMax /\ PortMax + 1 < U16
      /\ p \in Nat /\ S \in SUBSET Nat /\ \A x \in S : PortMin <= x /\ x <= PortMax
  BY PortsAssumption
<1>1. \A r \in S : r < p \/ r >= p + n
  <2> SUFFICES ASSUME NEW r \in S, r >= p, r < p + n PROVE FALSE
    BY <1>0
  <2>1. r - p \in 0 .. (n - 1) /\ p + (r - p) = r
    BY <1>0
  <2> QED BY <2>1
<1>2. CASE S = {}
  BY <1>0, <1>2 DEF find_next_port
<1>3. CASE S # {} /\ MinOf(S) - PortMin >= n /\ MinOf(S) > PortMin
  <2>1. s = MinOf(S) - n
    BY <1>3 DEF find_next_port
  <2>2. MinOf(S) \in PortMin .. PortMax
    BY <1>0, <1>3, MinOfSet
  <2> QED BY <1>0, <2>1, <2>2
<1>4. CASE S # {} /\ ~(MinOf(S) - PortMin >= n /\ MinOf(S) > PortMin)
  <2>1. MinOf(S) \in PortMin .. PortMax /\ \A x \in S : MinOf(S) <= x
    BY <1>0, <1>4, MinOfSet
  <2>2. S \in SUBSET (0 .. PortMax)
    BY <1>0
  <2>3. MaxOf(S) \in PortMin .. PortMax /\ MaxOf(S) \in S /\ \A x \in S : x <= MaxOf(S)
    BY <1>0, <1>4, <2>2, MaxOfSet
  <2>4. CASE Gaps(S, n) # {}
    <3>1. s = MinOf(Gaps(S, n)) + 1
      BY <1>4, <2>4 DEF find_next_port
    <3>2. Gaps(S, n) \in SUBSET Nat
      BY <1>0 DEF Gaps
    <3>3. MinOf(Gaps(S, n)) \in Gaps(S, n)
      BY <2>4, <3>2, MinOfSet
    <3>4. PICK g \in S : s = g + 1 /\ \E q \in S : g < q /\ q - g - 1 >= n
      BY <3>1, <3>3 DEF Gaps
    <3> HIDE DEF s
    <3>5. s + n <= PortMax
      BY <1>0, <3>4
    <3> QED BY <3>5 DEF s
  <2>5. CASE Gaps(S, n) = {}
    <3>1. s = (MaxOf(S) + 1) % U16
      BY <1>4, <2>5 DEF find_next_port
    <3>2. s = MaxOf(S) + 1
      BY <1>0, <2>3, <3>1, SmallModulo
    <3>3. CASE MaxOf(S) < p
      BY <1>0, <2>3, <3>2, <3>3
    <3>4. CASE ~(MaxOf(S) < p)
      <4> DEFINE above == {r \in S : r > p}
                 below == {r \in S : r < p}
      <4>0. p \notin S
        BY <1>0, <1>1
      <4>1. above \in SUBSET Nat /\ above # {}
        <5>1. MaxOf(S) > p
          BY <1>0, <2>3, <3>4, <4>0
        <5>2. MaxOf(S) \in above
          BY <2>3, <5>1
        <5> QED BY <1>0, <5>2
      <4>2. PICK q \in above : \A x \in above : q <= x
        BY <4>1, MinExists
      <4>3. q \in S /\ q >= p + n /\ \A r \in S : r < p \/ q <= r
        BY <1>0, <1>1, <4>2
      <4>4. CASE below = {}
        <5>1. \A r \in S : r >= p + n
          BY <1>0, <1>1, <4>4
        <5> QED BY <1>0, <1>4, <2>1, <5>1, MinOfSet
      <4>5. CASE below # {}
        <5>1. \A x \in below : x \in 0 .. PortMax
          BY <1>0
        <5>2. PICK g \in below : \A x \in below : x <= g
          <6> HIDE DEF below
          <6>1. below \in SUBSET (0 .. PortMax)
            BY <5>1
          <6> QED BY <1>0, <4>5, <6>1, MaxExists
        <5>3. g \in S /\ g < q /\ q - g - 1 >= n /\ \A r \in S : r <= g \/ q <= r
          BY <1>0, <4>3, <5>2
        <5>4. g \in Gaps(S, n)
          BY <4>3, <5>3 DEF Gaps
        <5> QED BY <2>5, <5>4
      <4> QED BY <4>4, <4>5
    <3> QED BY <3>3, <3>4
  <2> QED BY <2>4, <2>5
<1> QED BY <1>2, <1>3, <1>4

-----------------------------------------------------------------------------
(***************************************************************************)
(* The invariants.                                                         *)
(***************************************************************************)

\* The sum of open_port does not wrap: above port_max the u16 has room for the largest allocation.
RoomAbove == \A h \in Nodes : PortMax + 1 + Allocation[h] < U16

\* One task at a time, and no service whose name begins with that of another.
Serial == MaxTasks = 1 /\ \A h \in Nodes : Contains[h] = {h}

RangeOf(h) == RangeAt(start[h], Allocation[h])

\* Every range that is about to be opened and every copy that is about to be written respects the range of
\* the operator and, where no other service wrote meanwhile, the ports of the other services.
ForeignInv ==
  \A h \in Nodes :
    /\ node[h] \in {"open_tcp", "open_udp"} =>
         \A p \in RangeOf(h) : p \in PortMin .. PortMax /\ (p \notin raced => tcp[p] # Other)
    /\ node[h] \in {"put_tcp", "put_udp"} =>
         \A p \in Ports : copy[h][p] \in Nodes => p \in PortMin .. PortMax
    /\ node[h] = "put_tcp" =>
         \A p \in Ports \ raced : copy[h][p] = Other <=> tcp[p] = Other
    /\ node[h] = "put_udp" =>
         \A p \in Ports \ raced : tcp[p] = Other \/ p \notin PortMin .. PortMax =>
           (copy[h][p] = Other <=> udp[p] = Other)

\* At most one node is being created or deleted.
OneTask == \A g, h \in Nodes : g \in Busy /\ h \in Busy => g = h

\* The copy that close_port is about to write has the ports of the other nodes and none of its own.
CopyOf(h, map) == \A p \in Ports : /\ copy[h][p] # h
                                   /\ \A g \in Nodes : g # h => (copy[h][p] = g <=> map[p] = g)

CopyInv == \A h \in Nodes : /\ node[h] = "put_tcp" => CopyOf(h, tcp)
                            /\ node[h] = "put_udp" => CopyOf(h, udp)

\* A range is no node's before it is opened, and then the node's, first for TCP and then for both.
RangeInv ==
  \A h \in Nodes :
    /\ node[h] \in {"open_tcp", "open_udp", "ingress", "open"} =>
         \A p \in RangeOf(h) : p \in PortMin .. PortMax
    /\ node[h] = "open_tcp" => \A p \in RangeOf(h) : tcp[p] \notin Nodes
    /\ node[h] \in {"open_udp", "ingress", "open"} => \A p \in RangeOf(h) : tcp[p] = h
    /\ node[h] \in {"ingress", "open"} => \A p \in RangeOf(h) : udp[p] = h

NoPorts(h) == \A p \in Ports : tcp[p] # h /\ udp[p] # h

\* A node has no port left at the end of close_port, first for TCP and then for both; nor, unless it is
\* stray, as long as its service is a LoadBalancer, and only an object that is there opens any.
GoneInv ==
  \A h \in Nodes :
    /\ node[h] \in {"get_udp", "put_udp"} => \A p \in Ports : tcp[p] # h
    /\ node[h] \in {"absent", "post", "rm_ingress"} /\ h \notin stray => NoPorts(h)
    /\ object[h] # "none" /\ type[h] = "LoadBalancer" /\ h \notin stray => NoPorts(h)
    /\ node[h] \in {"read", "open_tcp", "open_udp", "ingress"} /\ h \notin stray =>
         object[h] # "none" /\ type[h] = "ClusterIP"

SerialInv == OneTask /\ CopyInv /\ RangeInv /\ GoneInv

-----------------------------------------------------------------------------
(***************************************************************************)
(* Types, and the ports that get_available_ports offers.                   *)
(***************************************************************************)

LEMMA UsedInRange == UsedPorts \in SUBSET (PortMin .. PortMax)
BY DEF UsedPorts

LEMMA AllocationNat ==
  ASSUME NEW h \in Nodes
  PROVE  Allocation[h] \in Nat /\ Allocation[h] < U16
BY NodesAssumption, PortsAssumption

\* Whatever is offered is a port.
LEMMA OfferedPort ==
  ASSUME NEW h \in Nodes
  PROVE  /\ get_available_ports(h) \in PortMin .. (PortMax + 1)
         /\ get_available_ports(h) \in Ports
         /\ \A k \in 0 .. (Allocation[h] - 1) : get_available_ports(h) + k \notin UsedPorts
<1>1. /\ get_available_ports(h) \in PortMin .. (PortMax + 1)
      /\ \A k \in 0 .. (Allocation[h] - 1) : get_available_ports(h) + k \notin UsedPorts
  BY UsedInRange, AllocationNat, NextPortFree DEF get_available_ports
<1> QED BY <1>1, PortsAssumption DEF Ports

\* A range that open_port accepts lies in the operator's range and is free for TCP.
LEMMA AcceptedRange ==
  ASSUME RoomAbove, NEW h \in Nodes, ~Exceeds(get_available_ports(h), Allocation[h]),
         NEW p \in RangeAt(get_available_ports(h), Allocation[h])
  PROVE  p \in PortMin .. PortMax /\ p \in Ports /\ tcp[p] = NoNode
<1> DEFINE s == get_available_ports(h)
           n == Allocation[h]
<1>0. /\ PortMin \in Nat /\ PortMax \in Nat /\ U16 \in Nat /\ PortMin <= PortMax /\ PortMax + 1 < U16
      /\ n \in Nat /\ PortMax + 1 + n < U16
  BY PortsAssumption, AllocationNat DEF RoomAbove
<1>1. s \in PortMin .. (PortMax + 1) /\ \A k \in 0 .. (n - 1) : s + k \notin UsedPorts
  BY OfferedPort
<1>2. ~((s + n) % U16 > PortMax)
  BY DEF Exceeds
<1>3. PICK k \in 0 .. (n - 1) : p = (s + k) % U16
  BY DEF RangeAt
<1> HIDE DEF s, n
<1>4. s + n \in Nat /\ s + n < U16 /\ s + k \in Nat /\ s + k < U16
  BY <1>0, <1>1
<1>5. s + n <= PortMax /\ p = s + k
  BY <1>0, <1>1, <1>2, <1>3, <1>4, SmallModulo
<1>6. p \in PortMin .. PortMax /\ p \in Ports
  BY <1>0, <1>1, <1>5 DEF Ports
<1> QED BY <1>1, <1>5, <1>6 DEF UsedPorts

LEMMA RangeIsPorts ==
  ASSUME NEW s \in Nat, NEW n \in Nat
  PROVE  RangeAt(s, n) \subseteq Ports
<1>1. U16 \in Nat /\ U16 > 0
  BY PortsAssumption
<1>2. \A k \in 0 .. (n - 1) : (s + k) % U16 \in 0 .. (U16 - 1)
  BY <1>1
<1> QED BY <1>2 DEF RangeAt, Ports

\* A crash ends every task.
LEMMA DieEnds ==
  ASSUME TypeOK, Die
  PROVE  /\ node' \in [Nodes -> NodeSteps] /\ copy' \in [Nodes -> Maps]
         /\ \A h \in Nodes : h \notin Busy => node'[h] = node[h]
         /\ \A h \in Nodes : h \in Busy /\ node'[h] = "absent" => node[h] \in OpenSteps /\ object[h] = "none"
         /\ \A h \in Nodes : h \in Busy => node'[h] \in {"absent", "broken", "wedged"}
<1>1. \A h \in Nodes : h \notin Busy => node'[h] = node[h]
  BY DEF Die, Busy
<1>2. \A h \in Nodes : h \in Busy => node'[h] \in {"absent", "broken", "wedged"}
  BY DEF Die, Busy
<1>3. \A h \in Nodes : node'[h] \in NodeSteps
  BY <1>1, <1>2 DEF TypeOK, NodeSteps
<1>4. node' \in [Nodes -> NodeSteps]
  BY <1>3 DEF Die
<1>5. Empty \in Maps
  BY DEF Empty, Maps
<1>6. copy' \in [Nodes -> Maps]
  BY <1>5 DEF Die
<1>7. \A h \in Nodes : h \in Busy /\ node'[h] = "absent" => node[h] \in OpenSteps /\ object[h] = "none"
  BY DEF Die, Busy
<1> QED BY <1>1, <1>2, <1>4, <1>6, <1>7

LEMMA MapsKept ==
  ASSUME NEW map \in Maps, NEW h \in Nodes
  PROVE  Opened(map, h) \in Maps /\ Closed(map, h) \in Maps
BY DEF Opened, Closed, Maps

LEMMA TypeInit == Init => TypeOK
<1> SUFFICES ASSUME Init PROVE TypeOK
  OBVIOUS
<1>1. tcp \in Maps /\ udp \in Maps
  BY DEF Init, Maps
<1>2. Empty \in Maps /\ 0 \in Ports
  BY PortsAssumption DEF Empty, Maps, Ports
<1> QED BY <1>1, <1>2, LimitsAssumption DEF Init, TypeOK, NodeSteps, ServiceTypes

LEMMA TypeNext == TypeOK /\ [Next]_vars => TypeOK'
<1> SUFFICES ASSUME TypeOK, [Next]_vars PROVE TypeOK'
  OBVIOUS
<1> USE DEF Goto, object_vars
<1>0. \A kind : Trouble(kind) => trouble' \in 0 .. MaxTrouble
  BY LimitsAssumption DEF Trouble, TypeOK
<1>1. ASSUME NEW h \in Nodes, create(h) PROVE TypeOK'
  <2>1. type' \in [Nodes -> ServiceTypes] /\ object' \in [Nodes -> {"none", "bare", "kept"}]
    BY <1>1 DEF create, TypeOK
  <2>2. trouble' \in 0 .. MaxTrouble
    BY <1>0, <1>1 DEF create, TypeOK
  <2>3. node' \in [Nodes -> NodeSteps] /\ created' \in [Nodes -> 0 .. MaxCreations]
    BY <1>1, LimitsAssumption DEF create, TypeOK, NodeSteps, OpenSteps
  <2>4. raced' \subseteq Ports
    BY <1>1 DEF create, Starts, TypeOK
  <2> QED BY <1>1, <2>1, <2>2, <2>3, <2>4 DEF create, TypeOK
<1>2. ASSUME NEW h \in Nodes, open_port(h) PROVE TypeOK'
  <2>1. CASE Exceeds(get_available_ports(h), Allocation[h])
    <3>1. Die /\ UNCHANGED trouble
      BY <1>2, <2>1 DEF open_port
    <3> QED BY <3>1, DieEnds DEF TypeOK, Die
  <2>2. CASE ~Exceeds(get_available_ports(h), Allocation[h])
    <3>1. start' \in [Nodes -> Ports]
      BY <1>2, <2>2, OfferedPort DEF open_port, TypeOK
    <3>2. node' \in [Nodes -> NodeSteps]
      BY <1>2, <2>2 DEF open_port, TypeOK, NodeSteps, OpenSteps
    <3> QED BY <1>2, <2>2, <3>1, <3>2 DEF open_port, TypeOK
  <2> QED BY <2>1, <2>2
<1>3. ASSUME NEW h \in Nodes, open_tcp(h) PROVE TypeOK'
  BY <1>3, MapsKept DEF open_tcp, TypeOK, NodeSteps, OpenSteps
<1>4. ASSUME NEW h \in Nodes, open_udp(h) PROVE TypeOK'
  BY <1>4, MapsKept DEF open_udp, TypeOK, NodeSteps, OpenSteps
<1>5. ASSUME NEW h \in Nodes, create_ingress(h) PROVE TypeOK'
  BY <1>5 DEF create_ingress, TypeOK, NodeSteps
<1>6. ASSUME NEW h \in Nodes, delete(h) PROVE TypeOK'
  <2>1. raced' \subseteq Ports
    BY <1>6 DEF delete, Starts, TypeOK
  <2> QED BY <1>6, <2>1 DEF delete, TypeOK, NodeSteps, CloseSteps
<1>7. ASSUME NEW h \in Nodes, get_tcp(h) PROVE TypeOK'
  BY <1>7, MapsKept DEF get_tcp, TypeOK, NodeSteps, CloseSteps
<1>8. ASSUME NEW h \in Nodes, put_tcp(h) PROVE TypeOK'
  <2>1. CASE tcp = Empty
    <3>1. Die /\ UNCHANGED trouble
      BY <1>8, <2>1 DEF put_tcp
    <3> QED BY <3>1, DieEnds DEF TypeOK, Die
  <2>2. CASE tcp # Empty
    BY <1>8, <2>2 DEF put_tcp, TypeOK, NodeSteps, CloseSteps
  <2> QED BY <2>1, <2>2
<1>9. ASSUME NEW h \in Nodes, get_udp(h) PROVE TypeOK'
  BY <1>9, MapsKept DEF get_udp, TypeOK, NodeSteps, CloseSteps
<1>10. ASSUME NEW h \in Nodes, put_udp(h) PROVE TypeOK'
  <2>1. CASE udp = Empty
    <3>1. Die /\ UNCHANGED trouble
      BY <1>10, <2>1 DEF put_udp
    <3> QED BY <3>1, DieEnds DEF TypeOK, Die
  <2>2. CASE udp # Empty
    BY <1>10, <2>2 DEF put_udp, TypeOK, NodeSteps, CloseSteps
  <2> QED BY <2>1, <2>2
<1>11. ASSUME NEW h \in Nodes, delete_ingress(h) PROVE TypeOK'
  <2>1. Empty \in Maps /\ 0 \in Ports
    BY PortsAssumption DEF Empty, Maps, Ports
  <2> QED BY <1>11, <2>1 DEF delete_ingress, TypeOK, NodeSteps
<1>12. ASSUME NEW h \in Nodes, vanish(h) PROVE TypeOK'
  BY <1>12 DEF vanish, TypeOK, NodeSteps
<1>13. ASSUME NEW h \in Nodes, edit_type(h) PROVE TypeOK'
  BY <1>0, <1>13 DEF edit_type, TypeOK, ServiceTypes
<1>14. ASSUME NEW p \in Foreign, Others(p) PROVE TypeOK'
  <2>1. p \in Ports
    BY PortsAssumption DEF Ports
  <2>2. tcp' \in Maps /\ udp' \in Maps
    <3>1. \E x \in {NoNode, Other} :
            \/ tcp' = [tcp EXCEPT ![p] = x] /\ udp' = udp
            \/ udp' = [udp EXCEPT ![p] = x] /\ tcp' = tcp
      BY <1>14 DEF Others
    <3> QED BY <3>1 DEF TypeOK, Maps
  <2>3. raced' \subseteq Ports
    BY <1>14, <2>1 DEF Others, TypeOK
  <2> QED BY <1>0, <1>14, <2>2, <2>3 DEF Others, TypeOK
<1>15. CASE Crash
  BY <1>0, <1>15, DieEnds DEF Crash, TypeOK, Die
<1>16. CASE UNCHANGED vars
  BY <1>16 DEF vars, TypeOK
<1> QED BY <1>1, <1>2, <1>3, <1>4, <1>5, <1>6, <1>7, <1>8, <1>9, <1>10, <1>11, <1>12, <1>13, <1>14, <1>15, <1>16
     DEF Next

\* Every variable keeps its type; what find_next_port returns is a u16.
THEOREM TypeCorrect == Spec => []TypeOK
BY TypeInit, TypeNext, PTL DEF Spec

\* open_port is refused, and kills the operator, only when no range of the size is free below port_max:
\* find_next_port finds a gap wherever there is one.
THEOREM RefusedIfFull == Spec => []RefusedOnlyIfFull
<1>1. RefusedOnlyIfFull
  <2> SUFFICES ASSUME NEW h \in Nodes, Allocation[h] > 0,
                      Exceeds(get_available_ports(h), Allocation[h]),
                      NEW p \in PortMin .. PortMax, Fits(p, Allocation[h])
               PROVE  FALSE
    BY DEF RefusedOnlyIfFull
  <2>1. /\ PortMin \in Nat /\ PortMax \in Nat /\ U16 \in Nat /\ PortMax + 1 < U16
        /\ Allocation[h] \in Nat
    BY PortsAssumption, AllocationNat
  <2>2. get_available_ports(h) + Allocation[h] <= PortMax
    BY <2>1, UsedInRange, NoGapMissed DEF Fits, get_available_ports
  <2>3. get_available_ports(h) \in PortMin .. (PortMax + 1)
    BY OfferedPort
  <2>4. (get_available_ports(h) + Allocation[h]) % U16 = get_available_ports(h) + Allocation[h]
    BY <2>1, <2>2, <2>3, SmallModulo
  <2> QED BY <2>1, <2>2, <2>3, <2>4 DEF Exceeds
<1> QED BY <1>1, PTL

-----------------------------------------------------------------------------
(***************************************************************************)
(* Whatever tasks race.                                                    *)
(***************************************************************************)

\* What ForeignKept says of a step of the operator.
OthersSame == \A p \in Ports \ raced :
  /\ tcp[p] = Other <=> tcp'[p] = Other
  /\ tcp[p] = Other \/ p \notin PortMin .. PortMax => (udp[p] = Other <=> udp'[p] = Other)

\* A crash changes no ConfigMap, and no task is left that could.
LEMMA DieForeign ==
  ASSUME TypeOK, ForeignInv, PortsInRange, Die
  PROVE  ForeignInv' /\ PortsInRange' /\ OthersSame
<1>1. UNCHANGED <<tcp, udp, start, raced>>
  BY DEF Die
<1>2. \A h \in Nodes : node'[h] \notin {"open_tcp", "open_udp", "put_tcp", "put_udp"}
  <2> TAKE h \in Nodes
  <2>1. CASE h \in Busy
    BY <2>1, DieEnds
  <2>2. CASE h \notin Busy
    BY <2>2, DieEnds DEF Busy, OpenSteps, CloseSteps
  <2> QED BY <2>1, <2>2
<1> QED BY <1>1, <1>2 DEF ForeignInv, PortsInRange, OthersSame

LEMMA ForeignInit == Init => ForeignInv /\ PortsInRange
BY NodesAssumption DEF Init, ForeignInv, PortsInRange

LEMMA ForeignNext ==
  ASSUME RoomAbove, TypeOK, ForeignInv, PortsInRange, [Next]_vars
  PROVE  /\ ForeignInv' /\ PortsInRange'
         /\ OthersSame \/ \E p \in Foreign : Others(p)
<1> USE DEF Goto, object_vars
<1>0. /\ tcp \in Maps /\ udp \in Maps /\ node \in [Nodes -> NodeSteps] /\ start \in [Nodes -> Ports]
      /\ copy \in [Nodes -> Maps]
  BY DEF TypeOK
<1>1. ASSUME NEW h \in Nodes, create(h) \/ create_ingress(h) \/ delete(h) \/ vanish(h) \/ edit_type(h)
      PROVE  ForeignInv' /\ PortsInRange' /\ OthersSame
  <2>1. UNCHANGED <<tcp, udp, start, copy>>
    BY <1>1 DEF create, create_ingress, delete, vanish, edit_type
  <2>2. \/ UNCHANGED node
        \/ \E x \in {"read", "post", "open", "plain", "broken", "absent", "get_tcp", "rm_ingress"} : Goto(h, x)
    <3>1. CASE create(h)
      BY <3>1 DEF create
    <3>2. CASE create_ingress(h)
      BY <3>2 DEF create_ingress
    <3>3. CASE delete(h)
      BY <3>3 DEF delete
    <3>4. CASE vanish(h) \/ edit_type(h)
      BY <3>4 DEF vanish, edit_type
    <3> QED BY <1>1, <3>1, <3>2, <3>3, <3>4
  <2>3. \A g \in Nodes : node'[g] \in {"open_tcp", "open_udp", "put_tcp", "put_udp"} => node[g] = node'[g]
    BY <1>0, <2>2
  <2>4. UNCHANGED raced \/ Busy = {}
    BY <1>1 DEF create, create_ingress, delete, vanish, edit_type, Starts
  <2>5. Busy = {} => \A g \in Nodes : node[g] \notin {"open_tcp", "open_udp", "put_tcp", "put_udp"}
    BY DEF Busy, OpenSteps, CloseSteps
  <2>6. ForeignInv'
    BY <2>1, <2>3, <2>4, <2>5 DEF ForeignInv, RangeOf
  <2> QED BY <2>1, <2>6 DEF PortsInRange, OthersSame
<1>2. ASSUME NEW h \in Nodes, open_port(h)
      PROVE  ForeignInv' /\ PortsInRange' /\ OthersSame
  <2>1. CASE Exceeds(get_available_ports(h), Allocation[h])
    BY <1>2, <2>1, DieForeign DEF open_port
  <2>2. CASE ~Exceeds(get_available_ports(h), Allocation[h])
    <3>1. /\ UNCHANGED <<tcp, udp, copy, raced>> /\ start' = [start EXCEPT ![h] = get_available_ports(h)]
          /\ \E x \in {"ingress", "open_tcp"} : Goto(h, x)
      BY <1>2, <2>2 DEF open_port
    <3>2. \A g \in Nodes : /\ node'[g] \in {"put_tcp", "put_udp"} => node[g] = node'[g]
                           /\ g # h => node[g] = node'[g] /\ start'[g] = start[g]
      BY <1>0, <3>1
    <3>3. start'[h] = get_available_ports(h)
      BY <1>0, <3>1
    <3>4. \A p \in RangeOf(h)' : p \in PortMin .. PortMax /\ tcp[p] = NoNode
      BY <2>2, <3>3, AcceptedRange DEF RangeOf
    <3>5. ASSUME NEW g \in Nodes, node'[g] \in {"open_tcp", "open_udp"}
          PROVE  \A p \in RangeOf(g)' : p \in PortMin .. PortMax /\ (p \notin raced' => tcp'[p] # Other)
      <4>1. CASE g = h
        BY <3>1, <3>4, <4>1, NodesAssumption
      <4>2. CASE g # h
        BY <3>1, <3>2, <3>5, <4>2 DEF ForeignInv, RangeOf
      <4> QED BY <4>1, <4>2
    <3> QED BY <3>1, <3>2, <3>5 DEF ForeignInv, PortsInRange, OthersSame
  <2> QED BY <2>1, <2>2
<1>3. ASSUME NEW h \in Nodes, open_tcp(h)
      PROVE  ForeignInv' /\ PortsInRange' /\ OthersSame
  <2>1. /\ node[h] = "open_tcp" /\ Goto(h, "open_udp")
        /\ tcp' = Opened(tcp, h) /\ UNCHANGED <<udp, start, copy, raced>>
    BY <1>3 DEF open_tcp
  <2>2. \A p \in Ports : tcp'[p] = IF p \in RangeOf(h) THEN h ELSE tcp[p]
    BY <2>1 DEF Opened, RangeOf
  <2>3. \A p \in RangeOf(h) : p \in PortMin .. PortMax /\ (p \notin raced => tcp[p] # Other)
    BY <2>1 DEF ForeignInv
  <2>4. OthersSame
    BY <2>1, <2>2, <2>3, NodesAssumption DEF OthersSame
  <2>5. PortsInRange'
    BY <2>1, <2>2, <2>3 DEF PortsInRange
  <2>6. \A g \in Nodes : RangeOf(g)' = RangeOf(g) /\ RangeOf(g) \subseteq Ports
    BY <1>0, <2>1, AllocationNat, RangeIsPorts DEF RangeOf, Ports
  <2>7. \A g \in Nodes : /\ node'[g] \in {"open_tcp", "open_udp"} => node[g] \in {"open_tcp", "open_udp"}
                         /\ node'[g] \in {"put_tcp", "put_udp"} => node[g] \in {"put_tcp", "put_udp"}
    BY <1>0, <2>1
  <2>8. ForeignInv'
    BY <2>1, <2>4, <2>6, <2>7 DEF ForeignInv, OthersSame
  <2> QED BY <2>4, <2>5, <2>8
<1>4. ASSUME NEW h \in Nodes, open_udp(h)
      PROVE  ForeignInv' /\ PortsInRange' /\ OthersSame
  <2>1. /\ node[h] = "open_udp" /\ Goto(h, "ingress")
        /\ udp' = Opened(udp, h) /\ UNCHANGED <<tcp, start, copy, raced>>
    BY <1>4 DEF open_udp
  <2>2. \A p \in Ports : udp'[p] = IF p \in RangeOf(h) THEN h ELSE udp[p]
    BY <2>1 DEF Opened, RangeOf
  <2>3. \A p \in RangeOf(h) : p \in PortMin .. PortMax /\ (p \notin raced => tcp[p] # Other)
    BY <2>1 DEF ForeignInv
  <2>4. OthersSame
    BY <2>1, <2>2, <2>3, NodesAssumption DEF OthersSame, ForeignInv
  <2>5. PortsInRange'
    BY <2>1, <2>2, <2>3 DEF PortsInRange
  <2>6. \A g \in Nodes : RangeOf(g)' = RangeOf(g)
    BY <2>1 DEF RangeOf
  <2>7. \A g \in Nodes : node'[g] \in {"open_tcp", "open_udp", "put_tcp", "put_udp"} => node[g] = node'[g]
    BY <1>0, <2>1
  <2>8. ForeignInv'
    BY <2>1, <2>4, <2>6, <2>7 DEF ForeignInv, OthersSame
  <2> QED BY <2>4, <2>5, <2>8
<1>5. ASSUME NEW h \in Nodes, get_tcp(h) \/ get_udp(h)
      PROVE  ForeignInv' /\ PortsInRange' /\ OthersSame
  <2>1. /\ UNCHANGED <<tcp, udp, start, raced>>
        /\ \/ node'[h] = "put_tcp" /\ copy'[h] = Closed(tcp, h)
           \/ node'[h] = "put_udp" /\ copy'[h] = Closed(udp, h)
        /\ \A g \in Nodes : g # h => copy'[g] = copy[g] /\ node'[g] = node[g]
    BY <1>0, <1>5 DEF get_tcp, get_udp
  <2>2. ASSUME NEW map \in {tcp, udp}, copy'[h] = Closed(map, h)
        PROVE  \A p \in Ports : /\ copy'[h][p] = Other <=> map[p] = Other
                                /\ copy'[h][p] \in Nodes => p \in PortMin .. PortMax
    <3>1. \A p \in Ports : copy'[h][p] = IF map[p] \in Contains[h] THEN NoNode ELSE map[p]
      BY <2>2 DEF Closed
    <3> QED BY <3>1, NodesAssumption DEF PortsInRange
  <2>3. ForeignInv'
    BY <2>1, <2>2 DEF ForeignInv, RangeOf
  <2> QED BY <2>1, <2>3 DEF PortsInRange, OthersSame
<1>6. ASSUME NEW h \in Nodes, put_tcp(h)
      PROVE  ForeignInv' /\ PortsInRange' /\ OthersSame
  <2>1. CASE tcp = Empty
    BY <1>6, <2>1, DieForeign DEF put_tcp
  <2>2. CASE tcp # Empty
    <3>1. node[h] = "put_tcp" /\ tcp' = copy[h] /\ UNCHANGED <<udp, start, copy, raced>> /\ Goto(h, "get_udp")
      BY <1>6, <2>2 DEF put_tcp
    <3>2. OthersSame
      BY <3>1 DEF OthersSame, ForeignInv
    <3>3. PortsInRange'
      BY <3>1 DEF ForeignInv, PortsInRange
    <3>4. \A g \in Nodes : node'[g] \in {"open_tcp", "open_udp", "put_tcp", "put_udp"} => node[g] = node'[g]
      BY <1>0, <3>1
    <3>5. \A g \in Nodes : RangeOf(g)' = RangeOf(g) /\ RangeOf(g) \subseteq Ports
      BY <1>0, <3>1, AllocationNat, RangeIsPorts DEF RangeOf, Ports
    <3>6. ForeignInv'
      BY <3>1, <3>2, <3>4, <3>5 DEF ForeignInv, OthersSame
    <3> QED BY <3>2, <3>3, <3>6
  <2> QED BY <2>1, <2>2
<1>7. ASSUME NEW h \in Nodes, put_udp(h)
      PROVE  ForeignInv' /\ PortsInRange' /\ OthersSame
  <2>1. CASE udp = Empty
    BY <1>7, <2>1, DieForeign DEF put_udp
  <2>2. CASE udp # Empty
    <3>1. node[h] = "put_udp" /\ udp' = copy[h] /\ UNCHANGED <<tcp, start, copy, raced>> /\ Goto(h, "rm_ingress")
      BY <1>7, <2>2 DEF put_udp
    <3>2. OthersSame
      BY <3>1 DEF OthersSame, ForeignInv
    <3>3. PortsInRange'
      BY <3>1 DEF ForeignInv, PortsInRange
    <3>4. \A g \in Nodes : node'[g] \in {"open_tcp", "open_udp", "put_tcp", "put_udp"} => node[g] = node'[g]
      BY <1>0, <3>1
    <3>5. ForeignInv'
      BY <3>1, <3>2, <3>4 DEF ForeignInv, OthersSame, RangeOf
    <3> QED BY <3>2, <3>3, <3>5
  <2> QED BY <2>1, <2>2
<1>8. ASSUME NEW h \in Nodes, delete_ingress(h)
      PROVE  ForeignInv' /\ PortsInRange' /\ OthersSame
  <2>1. UNCHANGED <<tcp, udp, raced>> /\ copy' = [copy EXCEPT ![h] = Empty]
    BY <1>8 DEF delete_ingress
  <2>2. node'[h] \in {"absent", "wedged"} /\ \A g \in Nodes : g # h => node'[g] = node[g] /\ copy'[g] = copy[g]
    BY <1>0, <1>8 DEF delete_ingress
  <2>3. \A g \in Nodes : g # h => RangeOf(g)' = RangeOf(g)
    BY <1>0, <1>8 DEF delete_ingress, RangeOf
  <2>4. ForeignInv'
    BY <2>1, <2>2, <2>3 DEF ForeignInv
  <2> QED BY <2>1, <2>4 DEF PortsInRange, OthersSame
<1>9. ASSUME NEW p \in Foreign, Others(p)
      PROVE  ForeignInv' /\ PortsInRange'
  <2>1. UNCHANGED <<node, start, copy>> /\ raced' = IF Pending = {} THEN raced ELSE raced \cup {p}
    BY <1>9 DEF Others
  <2>2. \A q \in Ports : /\ q # p => tcp'[q] = tcp[q] /\ udp'[q] = udp[q]
                         /\ tcp'[q] = tcp[q] \/ tcp'[q] \in {NoNode, Other}
                         /\ udp'[q] = udp[q] \/ udp'[q] \in {NoNode, Other}
    BY <1>0, <1>9 DEF Others, Maps
  <2>3. PortsInRange'
    BY <2>2, NodesAssumption DEF PortsInRange
  <2>4. CASE Pending = {}
    <3>1. \A g \in Nodes : node'[g] \notin {"open_tcp", "open_udp", "put_tcp", "put_udp"}
      BY <2>1, <2>4 DEF Pending
    <3> QED BY <2>3, <3>1 DEF ForeignInv
  <2>5. CASE Pending # {}
    <3>1. \A q \in Ports \ raced' : q \notin raced /\ tcp'[q] = tcp[q] /\ udp'[q] = udp[q]
      BY <2>1, <2>2, <2>5
    <3>2. \A g \in Nodes : RangeOf(g)' = RangeOf(g) /\ RangeOf(g) \subseteq Ports
      BY <1>0, <2>1, AllocationNat, RangeIsPorts DEF RangeOf, Ports
    <3> QED BY <2>1, <2>3, <3>1, <3>2 DEF ForeignInv
  <2> QED BY <2>3, <2>4, <2>5
<1>10. CASE Crash
  BY <1>10, DieForeign DEF Crash
<1>11. CASE UNCHANGED vars
  BY <1>11 DEF vars, ForeignInv, PortsInRange, OthersSame, RangeOf
<1> QED BY <1>1, <1>2, <1>3, <1>4, <1>5, <1>6, <1>7, <1>8, <1>9, <1>10, <1>11 DEF Next

\* Whatever tasks race and wherever the operator dies, it opens only ports between port_min and port_max.
THEOREM OpensInRange ==
  ASSUME RoomAbove
  PROVE  Spec => []PortsInRange
<1>1. TypeOK /\ ForeignInv /\ PortsInRange /\ [Next]_vars => (TypeOK /\ ForeignInv /\ PortsInRange)'
  BY TypeNext, ForeignNext
<1> QED BY <1>1, TypeInit, ForeignInit, PTL DEF Spec

\* No race lets open_port take, or a stale copy of close_port drop or bring back, a port of another service
\* that it has for TCP or, out of the operator's range, for UDP, and that it did not write meanwhile.
THEOREM ForeignPortsKept ==
  ASSUME RoomAbove
  PROVE  Spec => ForeignKept
<1>1. TypeOK /\ ForeignInv /\ PortsInRange /\ [Next]_vars => (TypeOK /\ ForeignInv /\ PortsInRange)'
  BY TypeNext, ForeignNext
<1>2. TypeOK /\ ForeignInv /\ PortsInRange /\ [Next]_vars =>
        [(\A p \in Foreign : ~Others(p)) =>
           \A p \in Ports \ raced :
             /\ tcp[p] = Other <=> tcp'[p] = Other
             /\ tcp[p] = Other \/ p \notin PortMin..PortMax => (udp[p] = Other <=> udp'[p] = Other)]_vars
  BY ForeignNext DEF OthersSame
<1> QED BY <1>1, <1>2, TypeInit, ForeignInit, PTL DEF Spec, ForeignKept

-----------------------------------------------------------------------------
(***************************************************************************)
(* One task at a time.                                                     *)
(***************************************************************************)

\* A task starts only when no other is running.
LEMMA Alone ==
  ASSUME MaxTasks = 1, OneTask, Cardinality(Busy) < MaxTasks
  PROVE  Busy = {}
<1> SUFFICES ASSUME NEW g \in Busy PROVE FALSE
  OBVIOUS
<1>1. Busy = {g}
  BY DEF OneTask, Busy
<1>2. Cardinality({g}) = 1
  BY FS_Singleton
<1> QED BY <1>1, <1>2

\* What one node's step leaves alone: the other nodes are idle.
LEMMA OthersIdle ==
  ASSUME OneTask, NEW h \in Nodes, h \in Busy, NEW g \in Nodes, g # h
  PROVE  node[g] \notin OpenSteps \cup CloseSteps
BY DEF OneTask, Busy

Idle == {"absent", "open", "plain", "broken", "wedged"}

LEMMA DieSerial ==
  ASSUME TypeOK, SerialInv, Die
  PROVE  SerialInv'
<1>1. UNCHANGED <<tcp, udp, start, object, type, stray>>
  BY DEF Die, object_vars
<1>2. \A h \in Nodes :
        /\ node'[h] \notin OpenSteps \cup CloseSteps
        /\ node'[h] = "open" => node[h] = "open"
        /\ node'[h] = "absent" => node[h] = "absent" \/ (node[h] \in OpenSteps /\ object[h] = "none")
  <2> TAKE h \in Nodes
  <2>1. CASE h \in Busy
    BY <2>1, DieEnds DEF OpenSteps, CloseSteps
  <2>2. CASE h \notin Busy
    BY <2>2, DieEnds DEF Busy
  <2> QED BY <2>1, <2>2
<1>3. OneTask'
  BY <1>2 DEF OneTask, Busy
<1>4. CopyInv'
  BY <1>2 DEF CopyInv, CloseSteps
<1>5. RangeInv'
  BY <1>1, <1>2 DEF SerialInv, RangeInv, RangeOf, OpenSteps
<1>6. GoneInv'
  BY <1>1, <1>2 DEF SerialInv, GoneInv, NoPorts, OpenSteps, CloseSteps
<1> QED BY <1>3, <1>4, <1>5, <1>6 DEF SerialInv

LEMMA SerialInit == Init => SerialInv
<1> SUFFICES ASSUME Init PROVE SerialInv
  OBVIOUS
<1>1. OneTask /\ CopyInv /\ RangeInv
  BY DEF Init, OneTask, CopyInv, RangeInv, Busy, OpenSteps, CloseSteps
<1>2. GoneInv
  BY NodesAssumption DEF Init, GoneInv, NoPorts
<1> QED BY <1>1, <1>2 DEF SerialInv

LEMMA SerialNext ==
  ASSUME RoomAbove, Serial, TypeOK, SerialInv, [Next]_vars
  PROVE  SerialInv'
<1> USE DEF Goto, object_vars
<1>0. /\ tcp \in Maps /\ udp \in Maps /\ node \in [Nodes -> NodeSteps] /\ start \in [Nodes -> Ports]
      /\ copy \in [Nodes -> Maps] /\ object \in [Nodes -> {"none", "bare", "kept"}]
      /\ type \in [Nodes -> ServiceTypes]
  BY DEF TypeOK
<1>1. OneTask /\ CopyInv /\ RangeInv /\ GoneInv /\ MaxTasks = 1
  BY DEF SerialInv, Serial
<1>2. \A g \in Nodes : RangeOf(g) \subseteq Ports
  BY <1>0, AllocationNat, RangeIsPorts DEF RangeOf, Ports
<1>3. ASSUME NEW h \in Nodes, create(h) \/ delete(h) PROVE SerialInv'
  <2>1. /\ UNCHANGED <<tcp, udp, start, copy, stray>> /\ Busy = {}
        /\ \E x \in {"read", "post", "get_tcp", "rm_ingress"} : Goto(h, x)
    <3>1. CASE create(h)
      BY <1>1, <3>1, Alone DEF create, Starts
    <3>2. CASE delete(h)
      BY <1>1, <3>2, Alone DEF delete, Starts
    <3> QED BY <1>3, <3>1, <3>2
  <2>2. \A g \in Nodes : g # h => /\ node'[g] = node[g] /\ node[g] \notin OpenSteps \cup CloseSteps
                                 /\ object'[g] = object[g] /\ type'[g] = type[g]
    BY <1>0, <1>3, <2>1 DEF Busy, create, delete
  <2>3. node'[h] \in {"read", "post", "get_tcp", "rm_ingress"}
    BY <1>0, <2>1
  <2>4. OneTask'
    BY <2>2 DEF OneTask, Busy
  <2>5. CopyInv' /\ RangeInv'
    BY <1>1, <2>1, <2>2, <2>3 DEF CopyInv, CopyOf, RangeInv, RangeOf, OpenSteps, CloseSteps
  <2>6. /\ node'[h] \in {"post", "rm_ingress"} /\ h \notin stray => NoPorts(h)
        /\ type'[h] = "LoadBalancer" /\ h \notin stray => NoPorts(h)
        /\ node'[h] = "read" => object'[h] # "none" /\ type'[h] = "ClusterIP"
    <3>1. CASE create(h)
      <4>1. /\ node'[h] = IF type'[h] = "ClusterIP" THEN "read" ELSE "post"
            /\ type'[h] \in ServiceTypes /\ object'[h] \in {"bare", "kept"}
            /\ \/ node[h] = "absent"
               \/ object[h] = "bare" /\ type'[h] = type[h]
        BY <1>0, <3>1 DEF create
      <4> QED BY <1>1, <4>1 DEF GoneInv, ServiceTypes
    <3>2. CASE delete(h)
      <4>1. /\ node'[h] = IF type[h] = "ClusterIP" THEN "get_tcp" ELSE "rm_ingress"
            /\ type'[h] = type[h] /\ type[h] \in ServiceTypes /\ object[h] = "kept"
        BY <1>0, <3>2 DEF delete
      <4> QED BY <1>1, <4>1 DEF GoneInv, ServiceTypes
    <3> QED BY <1>3, <3>1, <3>2
  <2>7. GoneInv'
    <3>1. \A g \in Nodes : NoPorts(g)' <=> NoPorts(g)
      BY <2>1 DEF NoPorts
    <3> QED BY <1>1, <2>1, <2>2, <2>3, <2>6, <3>1 DEF GoneInv, OpenSteps, CloseSteps
  <2> QED BY <2>4, <2>5, <2>7 DEF SerialInv
<1>4. ASSUME NEW h \in Nodes, h \in Busy,
             \A g \in Nodes : g # h => node'[g] = node[g]
      PROVE  OneTask' /\ \A g \in Nodes : g # h => node[g] \in Idle
  <2>1. \A g \in Nodes : g # h => node[g] \notin OpenSteps \cup CloseSteps
    BY <1>1, <1>4, OthersIdle
  <2>2. OneTask'
    BY <1>4, <2>1 DEF OneTask, Busy
  <2> QED BY <1>0, <2>1, <2>2 DEF NodeSteps, Idle
<1>5. ASSUME NEW h \in Nodes, open_port(h) PROVE SerialInv'
  <2>1. CASE Exceeds(get_available_ports(h), Allocation[h])
    BY <1>5, <2>1, DieSerial DEF open_port
  <2>2. CASE ~Exceeds(get_available_ports(h), Allocation[h])
    <3>1. /\ UNCHANGED <<tcp, udp, copy, object, type, stray>>
          /\ start' = [start EXCEPT ![h] = get_available_ports(h)]
          /\ node[h] = "read" /\ Goto(h, IF Allocation[h] = 0 THEN "ingress" ELSE "open_tcp")
      BY <1>5, <2>2 DEF open_port
    <3>2. \A g \in Nodes : g # h => node'[g] = node[g] /\ RangeOf(g)' = RangeOf(g)
      BY <1>0, <3>1 DEF RangeOf
    <3>3. h \in Busy
      BY <3>1 DEF Busy, OpenSteps
    <3>4. OneTask' /\ \A g \in Nodes : g # h => node[g] \in Idle
      BY <1>4, <3>2, <3>3
    <3>5. \A p \in RangeOf(h)' : p \in PortMin .. PortMax /\ tcp[p] = NoNode
      BY <1>0, <2>2, <3>1, AcceptedRange DEF RangeOf
    <3>6. Allocation[h] = 0 => RangeOf(h)' = {}
      BY DEF RangeOf, RangeAt
    <3>7. node'[h] = IF Allocation[h] = 0 THEN "ingress" ELSE "open_tcp"
      BY <1>0, <3>1
    <3>8. RangeInv'
      BY <1>1, <3>1, <3>2, <3>4, <3>5, <3>6, <3>7, NodesAssumption DEF RangeInv, Idle
    <3>9. CopyInv'
      BY <3>2, <3>4, <3>7 DEF CopyInv, Idle
    <3>10. GoneInv'
      BY <1>1, <3>1, <3>2, <3>4, <3>7 DEF GoneInv, NoPorts, Idle
    <3> QED BY <3>4, <3>8, <3>9, <3>10 DEF SerialInv
  <2> QED BY <2>1, <2>2
<1>6. ASSUME NEW h \in Nodes, open_tcp(h) PROVE SerialInv'
  <2>1. /\ node[h] = "open_tcp" /\ Goto(h, "open_udp")
        /\ tcp' = Opened(tcp, h) /\ UNCHANGED <<udp, start, copy, object, type, stray>>
    BY <1>6 DEF open_tcp
  <2>2. \A p \in Ports : tcp'[p] = IF p \in RangeOf(h) THEN h ELSE tcp[p]
    BY <2>1 DEF Opened, RangeOf
  <2>3. node'[h] = "open_udp" /\ \A g \in Nodes : g # h => node'[g] = node[g]
    BY <1>0, <2>1
  <2>4. h \in Busy
    BY <2>1 DEF Busy, OpenSteps
  <2>5. OneTask' /\ \A g \in Nodes : g # h => node[g] \in Idle
    BY <1>4, <2>3, <2>4
  <2>6. \A g \in Nodes : RangeOf(g)' = RangeOf(g)
    BY <2>1 DEF RangeOf
  <2>7. \A p \in RangeOf(h) : p \in PortMin .. PortMax /\ tcp[p] \notin Nodes
    BY <1>1, <2>1 DEF RangeInv
  <2>8. ASSUME NEW g \in Nodes, g # h, node[g] = "open" PROVE \A p \in RangeOf(g) : tcp'[p] = g /\ udp[p] = g
    BY <1>1, <1>2, <2>2, <2>7, <2>8, NodesAssumption DEF RangeInv
  <2>9. RangeInv'
    BY <1>1, <1>2, <2>1, <2>2, <2>3, <2>5, <2>6, <2>7, <2>8 DEF RangeInv, Idle
  <2>10. CopyInv'
    BY <2>3, <2>5 DEF CopyInv, Idle
  <2>11. GoneInv'
    BY <1>1, <2>1, <2>2, <2>3, <2>5 DEF GoneInv, NoPorts, Idle
  <2> QED BY <2>5, <2>9, <2>10, <2>11 DEF SerialInv
<1>7. ASSUME NEW h \in Nodes, open_udp(h) PROVE SerialInv'
  <2>1. /\ node[h] = "open_udp" /\ Goto(h, "ingress")
        /\ udp' = Opened(udp, h) /\ UNCHANGED <<tcp, start, copy, object, type, stray>>
    BY <1>7 DEF open_udp
  <2>2. \A p \in Ports : udp'[p] = IF p \in RangeOf(h) THEN h ELSE udp[p]
    BY <2>1 DEF Opened, RangeOf
  <2>3. node'[h] = "ingress" /\ \A g \in Nodes : g # h => node'[g] = node[g]
    BY <1>0, <2>1
  <2>4. h \in Busy
    BY <2>1 DEF Busy, OpenSteps
  <2>5. OneTask' /\ \A g \in Nodes : g # h => node[g] \in Idle
    BY <1>4, <2>3, <2>4
  <2>6. \A g \in Nodes : RangeOf(g)' = RangeOf(g)
    BY <2>1 DEF RangeOf
  <2>7. \A p \in RangeOf(h) : p \in PortMin .. PortMax /\ tcp[p] = h
    BY <1>1, <2>1 DEF RangeInv
  <2>8. ASSUME NEW g \in Nodes, g # h, node[g] = "open" PROVE \A p \in RangeOf(g) : udp'[p] = g
    BY <1>1, <1>2, <2>2, <2>7, <2>8 DEF RangeInv
  <2>9. RangeInv'
    BY <1>1, <1>2, <2>1, <2>2, <2>3, <2>5, <2>6, <2>7, <2>8 DEF RangeInv, Idle
  <2>10. CopyInv'
    BY <2>3, <2>5 DEF CopyInv, Idle
  <2>11. GoneInv'
    BY <1>1, <2>1, <2>2, <2>3, <2>5 DEF GoneInv, NoPorts, Idle
  <2> QED BY <2>5, <2>9, <2>10, <2>11 DEF SerialInv
<1>8. ASSUME NEW h \in Nodes, create_ingress(h) PROVE SerialInv'
  <2>1. /\ node[h] \in {"ingress", "post"} /\ UNCHANGED <<tcp, udp, start, copy, object, type, stray>>
        /\ \/ object[h] = "none" /\ node'[h] = "absent"
           \/ node[h] = "ingress" /\ node'[h] = "open"
           \/ node'[h] \in {"plain", "broken"}
        /\ \A g \in Nodes : g # h => node'[g] = node[g]
    BY <1>0, <1>8 DEF create_ingress
  <2>2. h \in Busy
    BY <2>1 DEF Busy, OpenSteps
  <2>3. OneTask' /\ \A g \in Nodes : g # h => node[g] \in Idle
    BY <1>4, <2>1, <2>2
  <2>4. CopyInv' /\ RangeInv'
    BY <1>1, <2>1, <2>3 DEF CopyInv, CopyOf, RangeInv, RangeOf, Idle
  <2>5. GoneInv'
    BY <1>1, <2>1, <2>3 DEF GoneInv, NoPorts, Idle
  <2> QED BY <2>3, <2>4, <2>5 DEF SerialInv
<1>9. ASSUME NEW h \in Nodes, get_tcp(h) \/ get_udp(h) PROVE SerialInv'
  <2>1. /\ UNCHANGED <<tcp, udp, start, object, type, stray>>
        /\ \/ /\ node[h] = "get_tcp" /\ node'[h] = "put_tcp" /\ copy'[h] = Closed(tcp, h)
           \/ /\ node[h] = "get_udp" /\ node'[h] = "put_udp" /\ copy'[h] = Closed(udp, h)
        /\ \A g \in Nodes : g # h => node'[g] = node[g] /\ copy'[g] = copy[g]
    BY <1>0, <1>9 DEF get_tcp, get_udp
  <2>2. h \in Busy
    BY <2>1 DEF Busy, CloseSteps
  <2>3. OneTask' /\ \A g \in Nodes : g # h => node[g] \in Idle
    BY <1>4, <2>1, <2>2
  <2>4. ASSUME NEW map \in {tcp, udp}, copy'[h] = Closed(map, h)
        PROVE  \A p \in Ports : /\ copy'[h][p] # h
                                /\ \A g \in Nodes : g # h => (copy'[h][p] = g <=> map[p] = g)
    <3>1. \A p \in Ports : copy'[h][p] = IF map[p] = h THEN NoNode ELSE map[p]
      BY <2>4 DEF Closed, Serial
    <3> QED BY <3>1, NodesAssumption
  <2>5. CopyInv'
    BY <2>1, <2>3, <2>4 DEF CopyInv, CopyOf, Idle
  <2>6. RangeInv' /\ GoneInv'
    BY <1>1, <2>1, <2>3 DEF RangeInv, GoneInv, NoPorts, RangeOf, Idle
  <2> QED BY <2>3, <2>5, <2>6 DEF SerialInv
<1>10. ASSUME NEW h \in Nodes, put_tcp(h) PROVE SerialInv'
  <2>1. CASE tcp = Empty
    BY <1>10, <2>1, DieSerial DEF put_tcp
  <2>2. CASE tcp # Empty
    <3>1. /\ node[h] = "put_tcp" /\ tcp' = copy[h] /\ UNCHANGED <<udp, start, copy, object, type, stray>>
          /\ node'[h] = "get_udp" /\ \A g \in Nodes : g # h => node'[g] = node[g]
      BY <1>0, <1>10, <2>2 DEF put_tcp
    <3>2. \A p \in Ports : tcp'[p] # h /\ \A g \in Nodes : g # h => (tcp'[p] = g <=> tcp[p] = g)
      BY <1>1, <3>1 DEF CopyInv, CopyOf
    <3>3. h \in Busy
      BY <3>1 DEF Busy, CloseSteps
    <3>4. OneTask' /\ \A g \in Nodes : g # h => node[g] \in Idle
      BY <1>4, <3>1, <3>3
    <3>5. \A g \in Nodes : RangeOf(g)' = RangeOf(g)
      BY <3>1 DEF RangeOf
    <3>6. RangeInv'
      BY <1>1, <1>2, <3>1, <3>2, <3>4, <3>5 DEF RangeInv, Idle
    <3>7. CopyInv'
      BY <3>1, <3>4 DEF CopyInv, Idle
    <3>8. GoneInv'
      BY <1>1, <3>1, <3>2, <3>4 DEF GoneInv, NoPorts, Idle
    <3> QED BY <3>4, <3>6, <3>7, <3>8 DEF SerialInv
  <2> QED BY <2>1, <2>2
<1>11. ASSUME NEW h \in Nodes, put_udp(h) PROVE SerialInv'
  <2>1. CASE udp = Empty
    BY <1>11, <2>1, DieSerial DEF put_udp
  <2>2. CASE udp # Empty
    <3>1. /\ node[h] = "put_udp" /\ udp' = copy[h] /\ UNCHANGED <<tcp, start, copy, object, type>>
          /\ node'[h] = "rm_ingress" /\ stray' = stray \ {h} /\ \A g \in Nodes : g # h => node'[g] = node[g]
      BY <1>0, <1>11, <2>2 DEF put_udp
    <3>2. \A p \in Ports : udp'[p] # h /\ \A g \in Nodes : g # h => (udp'[p] = g <=> udp[p] = g)
      BY <1>1, <3>1 DEF CopyInv, CopyOf
    <3>3. h \in Busy
      BY <3>1 DEF Busy, CloseSteps
    <3>4. OneTask' /\ \A g \in Nodes : g # h => node[g] \in Idle
      BY <1>4, <3>1, <3>3
    <3>5. \A g \in Nodes : RangeOf(g)' = RangeOf(g)
      BY <3>1 DEF RangeOf
    <3>6. RangeInv'
      BY <1>1, <1>2, <3>1, <3>2, <3>4, <3>5 DEF RangeInv, Idle
    <3>7. CopyInv'
      BY <3>1, <3>4 DEF CopyInv, Idle
    <3>8. GoneInv'
      BY <1>1, <3>1, <3>2, <3>4 DEF GoneInv, NoPorts, Idle
    <3> QED BY <3>4, <3>6, <3>7, <3>8 DEF SerialInv
  <2> QED BY <2>1, <2>2
<1>12. ASSUME NEW h \in Nodes, delete_ingress(h) PROVE SerialInv'
  <2>1. /\ node[h] = "rm_ingress" /\ UNCHANGED <<tcp, udp, type, stray>> /\ node'[h] \in {"absent", "wedged"}
        /\ object'[h] = "none" \/ object'[h] = object[h]
        /\ \A g \in Nodes : g # h => /\ node'[g] = node[g] /\ RangeOf(g)' = RangeOf(g)
                                    /\ object'[g] = object[g]
    BY <1>0, <1>12 DEF delete_ingress, RangeOf
  <2>2. h \in Busy
    BY <2>1 DEF Busy, CloseSteps
  <2>3. OneTask' /\ \A g \in Nodes : g # h => node[g] \in Idle
    BY <1>4, <2>1, <2>2
  <2>4. CopyInv' /\ RangeInv'
    BY <1>1, <2>1, <2>3 DEF CopyInv, RangeInv, Idle
  <2>5. GoneInv'
    BY <1>1, <2>1, <2>3 DEF GoneInv, NoPorts, Idle
  <2> QED BY <2>3, <2>4, <2>5 DEF SerialInv
<1>13. ASSUME NEW h \in Nodes, vanish(h) \/ edit_type(h) PROVE SerialInv'
  <2>1. /\ UNCHANGED <<tcp, udp, start, copy>> /\ stray \subseteq stray'
        /\ h \in stray' \/ (type[h] # "ClusterIP" /\ type'[h] = "ClusterIP" /\ object' = object)
        /\ node'[h] = node[h] \/ (h \notin Busy /\ node'[h] = "absent")
        /\ \A g \in Nodes : g # h => node'[g] = node[g] /\ object'[g] = object[g] /\ type'[g] = type[g]
    BY <1>0, <1>13 DEF vanish, edit_type
  <2>2. OneTask'
    BY <1>1, <2>1 DEF OneTask, Busy, OpenSteps, CloseSteps
  <2>3. CopyInv' /\ RangeInv'
    BY <1>1, <2>1 DEF CopyInv, CopyOf, RangeInv, RangeOf
  <2>4. UNCHANGED node \/ h \in stray'
    BY <1>13 DEF vanish, edit_type
  <2>5. GoneInv'
    BY <1>1, <2>1, <2>4 DEF GoneInv, NoPorts
  <2> QED BY <2>2, <2>3, <2>5 DEF SerialInv
<1>14. ASSUME NEW p \in Foreign, Others(p) PROVE SerialInv'
  <2>1. UNCHANGED <<node, start, copy, object, type, stray>>
    BY <1>14 DEF Others
  <2>2. \A q \in Ports : \A g \in Nodes : (tcp'[q] = g <=> tcp[q] = g) /\ (udp'[q] = g <=> udp[q] = g)
    <3>1. \E from, to \in {NoNode, Other} :
            \/ tcp[p] = from /\ tcp' = [tcp EXCEPT ![p] = to] /\ udp' = udp
            \/ udp[p] = from /\ udp' = [udp EXCEPT ![p] = to] /\ tcp' = tcp
      BY <1>14 DEF Others
    <3> QED BY <1>0, <3>1, NodesAssumption DEF Maps
  <2>3. OneTask'
    BY <1>1, <2>1 DEF OneTask, Busy
  <2>4. CopyInv'
    BY <1>1, <2>1, <2>2 DEF CopyInv, CopyOf
  <2>5. \A g \in Nodes : RangeOf(g)' = RangeOf(g)
    BY <2>1 DEF RangeOf
  <2>6. RangeInv'
    BY <1>1, <1>2, <2>1, <2>2, <2>5 DEF RangeInv
  <2>7. GoneInv'
    BY <1>1, <2>1, <2>2 DEF GoneInv, NoPorts
  <2> QED BY <2>3, <2>4, <2>6, <2>7 DEF SerialInv
<1>15. CASE Crash
  BY <1>15, DieSerial DEF Crash
<1>16. CASE UNCHANGED vars
  BY <1>16 DEF vars, SerialInv, OneTask, Busy, CopyInv, CopyOf, RangeInv, GoneInv, NoPorts, RangeOf
<1> QED BY <1>3, <1>5, <1>6, <1>7, <1>8, <1>9, <1>10, <1>11, <1>12, <1>13, <1>14, <1>15, <1>16 DEF Next

\* One task at a time: the ports given to a node are forwarded to it for both protocols as long as it is
\* open, wherever the operator died on other nodes before and whatever other services wrote.
THEOREM NodesServed ==
  ASSUME RoomAbove, Serial
  PROVE  Spec => []PortsServed
<1>1. TypeOK /\ SerialInv /\ [Next]_vars => (TypeOK /\ SerialInv)'
  BY TypeNext, SerialNext
<1>2. SerialInv => PortsServed
  BY DEF SerialInv, RangeInv, RangeOf, PortsServed
<1> QED BY <1>1, <1>2, TypeInit, SerialInit, PTL DEF Spec

\* One task at a time: a node that is gone has no port of either protocol left, unless its object went
\* without finalizer or its service stopped being a ClusterIP and close_port has not run since.
THEOREM DeletedClosed ==
  ASSUME RoomAbove, Serial
  PROVE  Spec => []PortsClosed
<1>1. TypeOK /\ SerialInv /\ [Next]_vars => (TypeOK /\ SerialInv)'
  BY TypeNext, SerialNext
<1>2. SerialInv => PortsClosed
  BY DEF SerialInv, GoneInv, NoPorts, PortsClosed
<1> QED BY <1>1, <1>2, TypeInit, SerialInit, PTL DEF Spec
=============================================================================
