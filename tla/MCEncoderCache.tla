---------------------------- MODULE MCEncoderCache ----------------------------
(* Images a, b and c with two, two and three embeddings in a cache for     *)
(* four.  r1 has two adjacent images, the second with text between its     *)
(* embeddings; r2 begins and ends with an image of r1, and between them    *)
(* has one that fits beside no other.                                      *)
EXTENDS EncoderCacheManager

CONSTANTS r1, r2

Item(h, o, l, mask) == [mm_hash |-> h, offset |-> o, length |-> l, is_embed |-> mask]

MCFeatures ==
  [r \in Reqs |->
     IF r = r1 THEN <<Item("a", 1, 2, NoMask), Item("b", 3, 3, {0, 2})>>
     ELSE <<Item("a", 0, 2, NoMask), Item("c", 2, 3, NoMask), Item("a", 5, 2, NoMask)>>]
MCNumTokens == [r \in Reqs |-> IF r = r1 THEN 6 ELSE 7]
===============================================================================
