------------------------- MODULE MCDirectoryPolicy -------------------------
(* Two replicas that start at the same time, and two role entries, so that *)
(* none, one or both of them may name what a replica has found.            *)
EXTENDS DirectoryPolicy

CONSTANTS r1, r2, o1, o2
=============================================================================
