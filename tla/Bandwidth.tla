------------------------------ MODULE Bandwidth -----------------------------
(***************************************************************************)
(* The bandwidth collector: hooks of the client, called on its broker      *)
(* goroutines, add to per-partition counters under bc.mu; the emit         *)
(* goroutine snapshots and resets them under bc.mu at every tick and hands *)
(* the packet to the callback after unlocking, so hooks run while a packet *)
(* is in the callback's hands.                                             *)
(***************************************************************************)
EXTENDS Integers

CONSTANTS
    Partitions,
    Nodes,        \* broker node ids; a seed broker's is negative
    Hosts,        \* host, port and rack of a broker, as one value
    Batches,      \* what a fetch batch may measure
    NoPacket,     \* the emit goroutine has no packet in hand
    MaxBatches    \* fetch batches explored (bound)

Counters == {"receivedBytes", "receivedMessageCount", "compressedBytes", "uncompressedBytes"}

ASSUME BandwidthAssumption ==
    /\ Nodes \subseteq Int
    /\ Batches \subseteq [UncompressedBytes : Nat, CompressedBytes : Nat,
                          NumRecords : Nat, CompressionType : Nat]
    /\ MaxBatches \in Nat

Zero == [c \in Counters |-> 0]
Nothing == [p \in Partitions |-> Zero]

\* Go maps: functions on some of the keys.
MapsFrom(K, S) == UNION {[D -> S] : D \in SUBSET K}
Updated(f, k, v) == [x \in DOMAIN f \cup {k} |-> IF x = k THEN v ELSE f[x]]

Labels == [leader : Nodes, compression : {b.CompressionType : b \in Batches} \cup {0}]
Totals == [Partitions -> [Counters -> Nat]]
Packets == [counts : Totals, label : MapsFrom(Partitions, Labels), brokers : MapsFrom(Nodes, Hosts)]

ASSUME NoPacketAssumption == NoPacket \notin Packets

VARIABLES
    counts,       \* partitionAccumulator's counters, zero where there is none
    label,        \* its leader and compression; known partitions only
    brokers,      \* broker metadata by node id
    callback,     \* whether bc.callback is set
    emitter,      \* the emit goroutine
    packet,       \* the packet it holds
    quit,         \* bc.quit is closed
    received,     \* history: everything the hooks were given
    reported,     \* history: everything the callback was given
    batches       \* fetch batches so far

collector == <<counts, label, brokers>>
emission  == <<callback, emitter, packet, quit>>
vars == <<collector, emission, received, reported, batches>>

BandwidthTypeOK ==
    /\ counts \in Totals
    /\ label \in MapsFrom(Partitions, Labels)
    /\ brokers \in MapsFrom(Nodes, Hosts)
    /\ callback \in BOOLEAN
    /\ emitter \in {"off", "select", "calling", "gone"}
    /\ IF emitter = "calling" THEN packet \in Packets ELSE packet = NoPacket
    /\ quit \in BOOLEAN
    /\ received \in Totals /\ reported \in Totals
    /\ batches \in 0 .. MaxBatches

Init ==
    /\ counts = Nothing /\ label = << >> /\ brokers = << >>
    /\ callback = FALSE /\ emitter = "off" /\ packet = NoPacket /\ quit = FALSE
    /\ received = Nothing /\ reported = Nothing
    /\ batches = 0

-----------------------------------------------------------------------------
(* The hooks *)

\* Faulty variant: known brokers are refreshed, new ones not entered.
RefreshedOnly(n, h) == IF n \in DOMAIN brokers THEN Updated(brokers, n, h) ELSE brokers

\* updateBroker: a discovered broker is refreshed, a seed broker entered once.
UpdateBroker(n, h) ==
    IF n \notin DOMAIN brokers \/ n >= 0 THEN Updated(brokers, n, h) ELSE brokers

\* Faulty variant: what compression saved, not what was transferred.
MeasuredSaving(b) ==
    [c \in Counters |->
        IF c = "compressedBytes" THEN b.CompressedBytes - b.UncompressedBytes
        ELSE b.UncompressedBytes]

\* What one batch adds to each counter.
Measured(b) ==
    [c \in Counters |->
        CASE c = "receivedBytes" -> b.UncompressedBytes
          [] c = "receivedMessageCount" -> b.NumRecords
          [] c = "compressedBytes" -> b.CompressedBytes
          [] c = "uncompressedBytes" -> b.UncompressedBytes]

\* Totals f with m added to partition p.
Added(f, p, m) == [f EXCEPT ![p] = [c \in Counters |-> f[p][c] + m[c]]]

\* An uncompressed batch does not change the partition's compression.
LabelAfter(p, n, b) ==
    [leader |-> n,
     compression |-> IF b.CompressionType > 0 THEN b.CompressionType
                     ELSE IF p \in DOMAIN label THEN label[p].compression ELSE 0]

\* OnFetchBatchRead: recordFetchBatch, all under bc.mu.
RecordFetchBatch(n, h, p, b) ==
    /\ batches < MaxBatches
    /\ batches' = batches + 1
    /\ brokers' = UpdateBroker(n, h)
    /\ counts' = Added(counts, p, Measured(b))
    /\ label' = Updated(label, p, LabelAfter(p, n, b))
    /\ received' = Added(received, p, Measured(b))
    /\ UNCHANGED <<emission, reported>>

\* OnBrokerRead and OnBrokerWrite: only the broker table.
RecordBroker(n, h) ==
    /\ brokers' = UpdateBroker(n, h)
    /\ UNCHANGED <<counts, label, emission, received, reported, batches>>

-----------------------------------------------------------------------------
(* Emission *)

\* SetBandwidthCallback, from the builder's Build: before anyone can stop the
\* collector, after the client and its hooks exist.  The callback may be nil.
SetBandwidthCallback(cb) ==
    /\ emitter = "off" /\ ~quit
    /\ callback' = cb
    /\ emitter' = "select"
    /\ UNCHANGED <<collector, packet, quit, received, reported, batches>>

\* Faulty variant: the counters are not reset with the snapshot.
CountsKept == counts

\* The counters after the snapshot.
NextInterval == Nothing

\* Faulty variant: the nil check inverted.
CallbackMissing == ~callback

\* emit goes on only with a callback.
CallbackSet == callback

\* A tick: emit snapshots and resets under bc.mu, then unlocks.  Without a
\* callback it leaves everything as it is.
Emit ==
    /\ emitter = "select" /\ CallbackSet
    /\ packet' = [counts |-> counts, label |-> label, brokers |-> brokers]
    /\ counts' = NextInterval
    /\ emitter' = "calling"
    /\ UNCHANGED <<label, brokers, callback, quit, received, reported, batches>>

\* callback(packet), outside the lock.
CallbackReturns ==
    /\ emitter = "calling"
    /\ reported' = [p \in Partitions |->
                      [c \in Counters |-> reported[p][c] + packet.counts[p][c]]]
    /\ packet' = NoPacket
    /\ emitter' = "select"
    /\ UNCHANGED <<collector, callback, quit, received, batches>>

\* stop closes quit, once ...
Stop ==
    /\ ~quit
    /\ quit' = TRUE
    /\ UNCHANGED <<collector, callback, emitter, packet, received, reported, batches>>

\* ... and the goroutine leaves at its next select.
EmitLoopQuits ==
    /\ emitter = "select" /\ quit
    /\ emitter' = "gone"
    /\ UNCHANGED <<collector, callback, packet, quit, received, reported, batches>>

-----------------------------------------------------------------------------

Next ==
    \/ \E n \in Nodes, h \in Hosts :
          \/ RecordBroker(n, h)
          \/ \E p \in Partitions, b \in Batches : RecordFetchBatch(n, h, p, b)
    \/ \E cb \in BOOLEAN : SetBandwidthCallback(cb)
    \/ Emit \/ CallbackReturns \/ Stop \/ EmitLoopQuits

Spec == Init /\ [][Next]_vars

\* The ticker ticks, the callback returns and the goroutine runs.
LiveSpec == Spec /\ WF_vars(Emit) /\ WF_vars(CallbackReturns) /\ WF_vars(EmitLoopQuits)

-----------------------------------------------------------------------------
(* Properties *)

\* What the emit goroutine holds of a counter.
InHand(p, c) == IF packet = NoPacket THEN 0 ELSE packet.counts[p][c]

\* Every byte and message a hook was given is in exactly one place: reported to
\* the callback, in the packet on its way there, or in the accumulators.  None
\* is lost or reported twice, although hooks run during the callback.
CountedOnce ==
    \A p \in Partitions, c \in Counters :
        received[p][c] = reported[p][c] + InHand(p, c) + counts[p][c]

\* Partitions with counts have a label, and each label's leader is a known broker.
Consistent(cs, ls, bs) ==
    /\ \A p \in Partitions : cs[p] # Zero => p \in DOMAIN ls
    /\ \A p \in DOMAIN ls : ls[p].leader \in DOMAIN bs

\* A packet describes one moment: the leader of each of its partitions is among
\* its brokers and a partition with counts has a leader, whatever the hooks did
\* between two emissions.
PacketConsistent ==
    /\ Consistent(counts, label, brokers)
    /\ packet # NoPacket => Consistent(packet.counts, packet.label, packet.brokers)

\* What was counted while telemetry runs is reported, unless it is stopped.
CountsReported ==
    \A p \in Partitions :
        (counts[p] # Zero /\ callback) ~> (reported[p] = received[p] \/ quit)
=============================================================================
