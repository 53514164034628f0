---------------------------- MODULE MCHashTableV1 ----------------------------
(***************************************************************************)
(* Small instances of HashTableV1: as many keys as calls, two in a bucket. *)
(***************************************************************************)
EXTENDS HashTableV1, BernsteinHash

MCKeys == {"ABCDaaa", "ABCDdze", "ABCDaab", "ABCDabA"}
MCBucketOf == [ABCDaaa |-> 909, ABCDdze |-> 909, ABCDaab |-> 910, ABCDabA |-> 910]

\* These are the buckets the program puts the strings in.
ASSUME BucketsAssumption ==
    /\ MCBucketOf.ABCDaaa = BucketIndex(<<65, 66, 67, 68, 97, 97, 97>>)
    /\ MCBucketOf.ABCDdze = BucketIndex(<<65, 66, 67, 68, 100, 122, 101>>)
    /\ MCBucketOf.ABCDaab = BucketIndex(<<65, 66, 67, 68, 97, 97, 98>>)
    /\ MCBucketOf.ABCDabA = BucketIndex(<<65, 66, 67, 68, 97, 98, 65>>)
=============================================================================
