-------------------------- MODULE MCRunStatistics --------------------------
(***************************************************************************)
(* Instance of RunStatistics for TLC: two buckets and the overflow bucket, *)
(* latencies on each bound, past the last one and below zero, a warm-up    *)
(* that some operations complete in and some exactly at the end of.  The   *)
(* table of bounds that the program uses meets the assumption on Bounds.   *)
(***************************************************************************)
EXTENDS RunStatistics

ASSUME BucketTable ==
    /\ Len(buildLatencyBucketBounds) = 320
    /\ \A i \in 1..319 :
          buildLatencyBucketBounds[i] < buildLatencyBucketBounds[i + 1]
    /\ Head(buildLatencyBucketBounds) = 1
    /\ Last(buildLatencyBucketBounds) = 10000

MCBounds == <<1, 2>>

MCLatencies == {-1, 1, 2, 3}

Interchangeable == Permutations(Kinds)
=============================================================================
