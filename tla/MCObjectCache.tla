--------------------------- MODULE MCObjectCache ---------------------------
(* Objects of sizes 1 and 2 in a cache of size 2, so that an add makes no  *)
(* object, one or two go; two downloads, which may be of the same object.  *)
EXTENDS ObjectCache

CONSTANTS m1, m2, s1, s2

MCFileSize == [m \in Md5s |-> IF m = m1 THEN 1 ELSE 2]
MCStreamsAlike == Permutations(Streams)
=============================================================================
