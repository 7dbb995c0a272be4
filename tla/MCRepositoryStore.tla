------------------------- MODULE MCRepositoryStore -------------------------
(* Two names, two branches, two requests at a time.                        *)
EXTENDS RepositoryStore, TLC

CONSTANTS n1, n2, p1, p2

\* The metadata of an import, with its address, is longer than that of a
\* local repository.
MCSize == [m \in Metadata |-> IF m.kind = "imported" THEN 2 ELSE 1]

\* Both kinds, with the branch named and not.
MCRequests == [kind : Kinds, branch : {"dev", None}]

MCSymmetry == Permutations(Names) \union Permutations(Procs)
=============================================================================
