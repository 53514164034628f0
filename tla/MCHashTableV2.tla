---------------------------- MODULE MCHashTableV2 ----------------------------
(***************************************************************************)
(* Small instances of HashTableV2: the first two keys share a bucket.      *)
(***************************************************************************)
EXTENDS HashTableV2, BernsteinHash

MCKeys == {"ABCDaaa", "ABCDdze", "ABCDaab"}
MCBucketOf == [ABCDaaa |-> 909, ABCDdze |-> 909, ABCDaab |-> 910]

\* These are the buckets the program puts the strings in.
ASSUME BucketsAssumption ==
    /\ MCBucketOf.ABCDaaa = BucketIndex(<<65, 66, 67, 68, 97, 97, 97>>)
    /\ MCBucketOf.ABCDdze = BucketIndex(<<65, 66, 67, 68, 100, 122, 101>>)
    /\ MCBucketOf.ABCDaab = BucketIndex(<<65, 66, 67, 68, 97, 97, 98>>)
=============================================================================
