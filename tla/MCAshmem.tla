------------------------------ MODULE MCAshmem ------------------------------
(***************************************************************************)
(* Ashmem with a large and a small area that share the LRU list: three     *)
(* pages are enough to pin a hole into a range.  Not followed are          *)
(*  - the states after alloc_reclaims, in which the ranges stay as they     *)
(*    are, and those with both areas in failed,                             *)
(*  - a size that is stored late, if it is the size already, or if the area *)
(*    has more than one range by then (a bound).                            *)
(***************************************************************************)
EXTENDS Ashmem

CONSTANTS large, small

MCSizes == [a \in Areas |-> IF a = large THEN {2, 3} ELSE {1}]

\* Which structure a range is kept in makes no difference.
AnyStructure == Permutations(Ranges)

Followed ==
    /\ Ready /\ failed # Areas
    /\ \A t \in Tasks : setting[t] # None /\ setting[t].area \in file =>
          /\ setting[t].size # size[setting[t].area]
          /\ Len(unpinned_list[setting[t].area]) <= 1
=============================================================================
