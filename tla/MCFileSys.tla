------------------------------ MODULE MCFileSys ------------------------------
(* FileSys on a partition that fills up, with files of direct blocks only,   *)
(* and on one that does not, with files that need a table.                   *)
EXTENDS FileSys, TLC

MCPartitions == {[blocks |-> 4, counts |-> {1}, max |-> 1], [blocks |-> 9, counts |-> {2}, max |-> 2]}
MCCrashed == {[blocks |-> 4, counts |-> {1}, max |-> 1]}
\* Bound: what follows the reuse of a removed directory's number is not explored.
NotStale == ~ stale

NameSymmetry == Permutations(Name)

==============================================================================
