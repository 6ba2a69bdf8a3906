---------------------------- MODULE MCBandwidth ------------------------------
(* Small instances of Bandwidth for TLC. *)
EXTENDS Bandwidth

\* A seed broker and a discovered one.
MCNodes == {-1, 1}

\* A gzip batch and an uncompressed one.
MCBatches ==
    {[UncompressedBytes |-> 3, CompressedBytes |-> 2, NumRecords |-> 2, CompressionType |-> 1],
     [UncompressedBytes |-> 1, CompressedBytes |-> 1, NumRecords |-> 1, CompressionType |-> 0]}
=============================================================================
