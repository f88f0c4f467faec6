---------------------------- MODULE MCPathArchive ----------------------------
(* A string that repeats itself, one that does not and the empty one; a     *)
(* width over and one under eight bits and an unknown one; charges that fit *)
(* and charges that do not; foreign archives with one wrong field, or two.  *)
EXTENDS PathArchive

MCOriginals == {[name |-> "a", size |-> 0, repeats |-> FALSE],
              [name |-> "b", size |-> 1, repeats |-> FALSE],
              [name |-> "c", size |-> 5, repeats |-> TRUE]}
=============================================================================
