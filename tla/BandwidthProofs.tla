--------------------------- MODULE BandwidthProofs --------------------------
(***************************************************************************)
(* The collector's safety properties for any partitions, brokers, batches  *)
(* and bound.  The three invariants are inductive together: that nothing   *)
(* is counted twice needs the types, that a packet is consistent needs the *)
(* collector to be.                                                        *)
(***************************************************************************)
EXTENDS Bandwidth, TLAPS

BInv == BandwidthTypeOK /\ CountedOnce /\ PacketConsistent

\* Entering a key in a Go map keeps it a map, and makes the key known.
LEMMA UpdatedType ==
    ASSUME NEW K, NEW S, NEW f \in MapsFrom(K, S), NEW k \in K, NEW v \in S
    PROVE  /\ Updated(f, k, v) \in MapsFrom(K, S)
           /\ DOMAIN Updated(f, k, v) = DOMAIN f \cup {k}
           /\ Updated(f, k, v)[k] = v
           /\ \A x \in DOMAIN f \ {k} : Updated(f, k, v)[x] = f[x]
<1>1. PICK D \in SUBSET K : f \in [D -> S]
  BY DEF MapsFrom
<1>2. Updated(f, k, v) \in [D \cup {k} -> S]
  BY <1>1 DEF Updated
<1>3. D \cup {k} \in SUBSET K
  BY <1>1
<1>4. Updated(f, k, v) \in MapsFrom(K, S)
  BY <1>2, <1>3 DEF MapsFrom
<1> QED
  BY <1>1, <1>4 DEF Updated

\* The values of a Go map are of its value type.
LEMMA MapValue ==
    ASSUME NEW K, NEW S, NEW f \in MapsFrom(K, S), NEW k \in DOMAIN f
    PROVE  k \in K /\ f[k] \in S
  BY DEF MapsFrom

\* Hooks only ever add natural numbers to the totals.
LEMMA AddedType ==
    ASSUME NEW f \in Totals, NEW p \in Partitions, NEW m \in [Counters -> Nat]
    PROVE  /\ Added(f, p, m) \in Totals
           /\ \A q \in Partitions, c \in Counters :
                 Added(f, p, m)[q][c] = IF q = p THEN f[q][c] + m[c] ELSE f[q][c]
  BY DEF Added, Totals

\* A batch's measurements are natural numbers.
LEMMA MeasuredType ==
    ASSUME NEW b \in Batches
    PROVE  Measured(b) \in [Counters -> Nat]
  BY BandwidthAssumption DEF Measured, Counters

\* updateBroker keeps the table a map and knows the broker afterwards, seed or not.
LEMMA UpdateBrokerType ==
    ASSUME BandwidthTypeOK, NEW n \in Nodes, NEW h \in Hosts
    PROVE  /\ UpdateBroker(n, h) \in MapsFrom(Nodes, Hosts)
           /\ DOMAIN UpdateBroker(n, h) = DOMAIN brokers \cup {n}
<1>1. brokers \in MapsFrom(Nodes, Hosts)
  BY DEF BandwidthTypeOK
<1>2. CASE n \notin DOMAIN brokers \/ n >= 0
  <2>1. UpdateBroker(n, h) = Updated(brokers, n, h)
    BY <1>2 DEF UpdateBroker
  <2>2. /\ Updated(brokers, n, h) \in MapsFrom(Nodes, Hosts)
        /\ DOMAIN Updated(brokers, n, h) = DOMAIN brokers \cup {n}
    BY <1>1, UpdatedType
  <2> QED
    BY <2>1, <2>2
<1>3. CASE ~(n \notin DOMAIN brokers \/ n >= 0)
  BY <1>1, <1>3 DEF UpdateBroker
<1> QED
  BY <1>2, <1>3

\* A batch labels its partition with the node it came from.
LEMMA LabelAfterType ==
    ASSUME BandwidthTypeOK, NEW p \in Partitions, NEW n \in Nodes, NEW b \in Batches
    PROVE  LabelAfter(p, n, b) \in Labels /\ LabelAfter(p, n, b).leader = n
<1>1. p \in DOMAIN label => label[p] \in Labels
  BY MapValue DEF BandwidthTypeOK
<1> QED
  BY <1>1 DEF LabelAfter, Labels

\* The new collector satisfies the invariant.
LEMMA InitEstablishes == Init => BInv
<1> SUFFICES ASSUME Init PROVE BInv
  OBVIOUS
<1>1. Nothing \in Totals
  BY DEF Nothing, Zero, Totals
<1>2. \A K, S : << >> \in MapsFrom(K, S)
  <2> TAKE K, S
  <2>1. << >> \in [{} -> S]
    OBVIOUS
  <2> QED
    BY <2>1 DEF MapsFrom
<1>3. BandwidthTypeOK
  <2>1. callback \in BOOLEAN /\ quit \in BOOLEAN
    BY Zenon DEF Init
  <2>2. batches \in 0 .. MaxBatches
    BY BandwidthAssumption DEF Init
  <2>3. label \in MapsFrom(Partitions, Labels) /\ brokers \in MapsFrom(Nodes, Hosts)
    BY <1>2, Zenon DEF Init
  <2> QED
    BY <1>1, <2>1, <2>2, <2>3 DEF Init, BandwidthTypeOK
<1>4. CountedOnce
  BY DEF Init, CountedOnce, InHand, Nothing, Zero
<1>5. PacketConsistent
  BY DEF Init, PacketConsistent, Consistent, Nothing
<1> QED
  BY <1>3, <1>4, <1>5 DEF BInv

\* recordFetchBatch adds the same amount to what was received and to the
\* accumulators, and enters the leader before it labels the partition.
LEMMA FetchBatchStep ==
    ASSUME BInv, NEW n \in Nodes, NEW h \in Hosts, NEW p \in Partitions, NEW b \in Batches,
           RecordFetchBatch(n, h, p, b)
    PROVE  BInv'
<1> DEFINE m == Measured(b)
           l == LabelAfter(p, n, b)
<1>m. m \in [Counters -> Nat]
  BY MeasuredType
<1>l. l \in Labels /\ l.leader = n
  BY LabelAfterType DEF BInv
<1>b. brokers' \in MapsFrom(Nodes, Hosts) /\ DOMAIN brokers' = DOMAIN brokers \cup {n}
  BY UpdateBrokerType DEF BInv, RecordFetchBatch
<1>s. /\ label' \in MapsFrom(Partitions, Labels)
      /\ DOMAIN label' = DOMAIN label \cup {p}
      /\ label'[p] = l
      /\ \A q \in DOMAIN label \ {p} : label'[q] = label[q]
  <2>1. label \in MapsFrom(Partitions, Labels)
    BY DEF BInv, BandwidthTypeOK
  <2> HIDE DEF l
  <2>2. label' = Updated(label, p, l)
    BY DEF RecordFetchBatch, l
  <2> QED
    BY <1>l, <2>1, <2>2, UpdatedType
<1>c. /\ counts' \in Totals /\ received' \in Totals
      /\ \A q \in Partitions, c \in Counters :
            /\ counts'[q][c] = IF q = p THEN counts[q][c] + m[c] ELSE counts[q][c]
            /\ received'[q][c] = IF q = p THEN received[q][c] + m[c] ELSE received[q][c]
  <2>1. counts \in Totals /\ received \in Totals
    BY DEF BInv, BandwidthTypeOK
  <2> HIDE DEF m
  <2>2. counts' = Added(counts, p, m) /\ received' = Added(received, p, m)
    BY DEF RecordFetchBatch, m
  <2> QED
    BY <1>m, <2>1, <2>2, AddedType
<1> HIDE DEF m, l
<1>1. BandwidthTypeOK'
  BY <1>b, <1>s, <1>c, BandwidthAssumption DEF BInv, BandwidthTypeOK, RecordFetchBatch, emission
<1>2. CountedOnce'
  <2> SUFFICES ASSUME NEW q \in Partitions, NEW c \in Counters
               PROVE  received'[q][c] = reported'[q][c] + InHand(q, c)' + counts'[q][c]
    BY DEF CountedOnce
  <2>1. InHand(q, c)' = InHand(q, c) /\ reported' = reported
    BY DEF InHand, RecordFetchBatch, emission
  <2>2. received[q][c] = reported[q][c] + InHand(q, c) + counts[q][c]
    BY DEF BInv, CountedOnce
  <2>3. InHand(q, c) \in Nat
    BY DEF BInv, BandwidthTypeOK, InHand, Packets, Totals
  <2>4. received[q][c] \in Nat /\ reported[q][c] \in Nat /\ counts[q][c] \in Nat /\ m[c] \in Nat
    BY <1>m DEF BInv, BandwidthTypeOK, Totals
  <2>5. /\ counts'[q][c] = IF q = p THEN counts[q][c] + m[c] ELSE counts[q][c]
        /\ received'[q][c] = IF q = p THEN received[q][c] + m[c] ELSE received[q][c]
    BY <1>c
  <2> QED
    BY <2>1, <2>2, <2>3, <2>4, <2>5
<1>3. PacketConsistent'
  <2>1. Consistent(counts, label, brokers)
    BY DEF BInv, PacketConsistent
  <2>2. \A q \in Partitions \ {p} : counts'[q] = counts[q]
    BY DEF RecordFetchBatch, Added, BInv, BandwidthTypeOK, Totals
  <2>3. Consistent(counts', label', brokers')
    BY <1>b, <1>s, <1>l, <2>1, <2>2 DEF Consistent
  <2>4. packet' = packet
    BY DEF RecordFetchBatch, emission
  <2> QED
    BY <2>3, <2>4 DEF BInv, PacketConsistent, Consistent
<1> QED
  BY <1>1, <1>2, <1>3 DEF BInv

\* emit moves the accumulators into the packet, all of them at once.
LEMMA EmitStep == ASSUME BInv, Emit PROVE BInv'
<1>n. /\ counts' \in Totals
      /\ \A p \in Partitions : counts'[p] = Zero /\ \A c \in Counters : counts'[p][c] = 0
  BY DEF Emit, NextInterval, Nothing, Zero, Totals
<1>p. packet' \in Packets /\ packet' # NoPacket
  BY NoPacketAssumption DEF Emit, Packets, BInv, BandwidthTypeOK
<1>1. BandwidthTypeOK'
  BY <1>n, <1>p DEF BInv, BandwidthTypeOK, Emit
<1>2. CountedOnce'
  <2> SUFFICES ASSUME NEW q \in Partitions, NEW c \in Counters
               PROVE  received'[q][c] = reported'[q][c] + InHand(q, c)' + counts'[q][c]
    BY DEF CountedOnce
  <2>1. InHand(q, c)' = counts[q][c]
    BY <1>p DEF InHand, Emit
  <2>2. packet = NoPacket
    BY DEF BInv, BandwidthTypeOK, Emit
  <2> QED
    BY <1>n, <2>1, <2>2 DEF BInv, BandwidthTypeOK, Totals, CountedOnce, InHand, Emit
<1>3. PacketConsistent'
  BY <1>n DEF BInv, PacketConsistent, Consistent, Emit
<1> QED
  BY <1>1, <1>2, <1>3 DEF BInv

\* The callback receives the packet's counts, and the packet is gone.
LEMMA CallbackStep == ASSUME BInv, CallbackReturns PROVE BInv'
<1>p. packet \in Packets /\ packet # NoPacket /\ packet' = NoPacket
  BY NoPacketAssumption DEF CallbackReturns, BInv, BandwidthTypeOK
<1>r. /\ reported' \in Totals
      /\ \A q \in Partitions, c \in Counters :
            reported'[q][c] = reported[q][c] + packet.counts[q][c]
  BY <1>p DEF CallbackReturns, BInv, BandwidthTypeOK, Packets, Totals
<1>1. BandwidthTypeOK'
  BY <1>p, <1>r DEF BInv, BandwidthTypeOK, CallbackReturns, collector
<1>2. CountedOnce'
  <2> SUFFICES ASSUME NEW q \in Partitions, NEW c \in Counters
               PROVE  received'[q][c] = reported'[q][c] + InHand(q, c)' + counts'[q][c]
    BY DEF CountedOnce
  <2>1. InHand(q, c) = packet.counts[q][c] /\ InHand(q, c)' = 0
    BY <1>p DEF InHand
  <2>2. /\ received[q][c] \in Nat /\ reported[q][c] \in Nat
        /\ counts[q][c] \in Nat /\ packet.counts[q][c] \in Nat
    BY <1>p DEF BInv, BandwidthTypeOK, Packets, Totals
  <2>3. received[q][c] = reported[q][c] + InHand(q, c) + counts[q][c]
    BY DEF BInv, CountedOnce
  <2>4. received' = received /\ counts' = counts
    BY DEF CallbackReturns, collector
  <2> QED
    BY <1>r, <2>1, <2>2, <2>3, <2>4
<1>3. PacketConsistent'
  BY <1>p DEF BInv, PacketConsistent, Consistent, CallbackReturns, collector
<1> QED
  BY <1>1, <1>2, <1>3 DEF BInv

\* The broker hooks only refresh the broker table.
LEMMA BrokerStep ==
    ASSUME BInv, NEW n \in Nodes, NEW h \in Hosts, RecordBroker(n, h)
    PROVE  BInv'
<1>b. brokers' \in MapsFrom(Nodes, Hosts) /\ DOMAIN brokers' = DOMAIN brokers \cup {n}
  BY UpdateBrokerType DEF BInv, RecordBroker
<1>1. BandwidthTypeOK'
  BY <1>b DEF BInv, BandwidthTypeOK, RecordBroker, emission
<1>2. CountedOnce'
  BY DEF BInv, CountedOnce, InHand, RecordBroker, emission
<1>3. PacketConsistent'
  BY <1>b DEF BInv, PacketConsistent, Consistent, RecordBroker, emission
<1> QED
  BY <1>1, <1>2, <1>3 DEF BInv

\* The emit goroutine starts, is told to stop, or ends: no count moves.
LEMMA LifecycleStep ==
    ASSUME BInv, (\E cb \in BOOLEAN : SetBandwidthCallback(cb)) \/ Stop \/ EmitLoopQuits
    PROVE  BInv'
<1>u. /\ UNCHANGED <<collector, packet, received, reported, batches>>
      /\ \/ emitter \in {"off", "select"} /\ emitter' \in {"select", "gone"}
         \/ emitter' = emitter
  BY DEF SetBandwidthCallback, Stop, EmitLoopQuits
<1>f. callback' \in BOOLEAN /\ quit' \in BOOLEAN
  BY Zenon DEF BInv, BandwidthTypeOK, SetBandwidthCallback, Stop, EmitLoopQuits
<1>1. BandwidthTypeOK'
  BY <1>u, <1>f DEF BInv, BandwidthTypeOK, collector
<1>2. CountedOnce' /\ PacketConsistent'
  BY <1>u DEF BInv, CountedOnce, InHand, PacketConsistent, Consistent, collector
<1> QED
  BY <1>1, <1>2 DEF BInv

\* The collector's invariant holds in every reachable state.
THEOREM BandwidthInvariance == Spec => []BInv
<1>1. Init => BInv
  BY InitEstablishes
<1>2. BInv /\ [Next]_vars => BInv'
  <2> SUFFICES ASSUME BInv, [Next]_vars PROVE BInv'
    OBVIOUS
  <2>1. CASE UNCHANGED vars
    <3>1. BandwidthTypeOK'
      BY <2>1 DEF BInv, BandwidthTypeOK, vars, collector, emission
    <3>2. CountedOnce' /\ PacketConsistent'
      BY <2>1 DEF BInv, CountedOnce, InHand, PacketConsistent, Consistent, vars, collector, emission
    <3> QED
      BY <3>1, <3>2 DEF BInv
  <2>2. ASSUME NEW n \in Nodes, NEW h \in Hosts, NEW p \in Partitions, NEW b \in Batches,
               RecordFetchBatch(n, h, p, b)
        PROVE  BInv'
    BY <2>2, FetchBatchStep
  <2>3. ASSUME NEW n \in Nodes, NEW h \in Hosts, RecordBroker(n, h) PROVE BInv'
    BY <2>3, BrokerStep
  <2>4. CASE (\E cb \in BOOLEAN : SetBandwidthCallback(cb)) \/ Stop \/ EmitLoopQuits
    BY <2>4, LifecycleStep
  <2>5. CASE Emit
    BY <2>5, EmitStep
  <2>6. CASE CallbackReturns
    BY <2>6, CallbackStep
  <2> QED
    BY <2>1, <2>2, <2>3, <2>4, <2>5, <2>6 DEF Next
<1> QED
  BY <1>1, <1>2, PTL DEF Spec

\* Counters, labels, packets and broker table keep their types.
THEOREM BandwidthTypes == Spec => []BandwidthTypeOK
<1>1. BInv => BandwidthTypeOK
  BY DEF BInv
<1> QED
  BY <1>1, BandwidthInvariance, PTL

\* emit and the hooks never lose or double a count: what recordFetchBatch added
\* is in the accumulators, in the packet in hand or reported, and once only.
THEOREM NothingLostOrDoubled == Spec => []CountedOnce
<1>1. BInv => CountedOnce
  BY DEF BInv
<1> QED
  BY <1>1, BandwidthInvariance, PTL

\* Every packet emit builds is a consistent snapshot of leaders and brokers.
THEOREM SnapshotsConsistent == Spec => []PacketConsistent
<1>1. BInv => PacketConsistent
  BY DEF BInv
<1> QED
  BY <1>1, BandwidthInvariance, PTL
=============================================================================
