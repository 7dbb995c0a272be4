---------------------------- MODULE MCAccounts ----------------------------
(* A small gateway: few keys and tokens, two requests at a time.           *)
EXTENDS Accounts, TLC

CONSTANTS a, b, c, t1, t2, p1, p2

MCIdents    == {"alice", "Alice", "admin", "root", "carol", "alice@x", "admin@x"}
MCFold      == [i \in MCIdents |-> IF i = "Alice" THEN "alice" ELSE i]
MCAdminForm == [username |-> "admin", email |-> "admin@x"]

\* An ordinary signup, one that differs in case, and one under the
\* administrator's address.
MCForms == {[username |-> "alice", email |-> "alice@x"],
            [username |-> "root",  email |-> "admin@x"]}

MCSymmetry == Permutations(Ids) \union Permutations(Tokens) \union Permutations(Procs)
===========================================================================
