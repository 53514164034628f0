--------------------------- MODULE BernsteinHash ---------------------------
(***************************************************************************)
(* bernstein_hash of src/pht/src/hash-table-common.c, as the tables use    *)
(* it: modulo HASH_TABLE_CAPACITY.  A string is the sequence of its        *)
(* characters, which are ASCII letters.                                    *)
(***************************************************************************)
EXTENDS Integers, SequencesExt

HashTableCapacity == 4096
Char == 0..127

\* One round of the loop, in 32 bits; and what it does to the bucket.
HashStep(hash, c) == (33 * hash + c) % (65536 * 65536)
BucketStep(bucket, c) == (33 * bucket + c) % HashTableCapacity

\* get_hash_table_entry: the index of a string's bucket.
BucketIndex(string) == FoldLeft(BucketStep, 0, string)
=============================================================================
