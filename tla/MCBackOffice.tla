------------------------------ MODULE MCBackOffice ------------------------------
EXTENDS BackOffice, TLC

CONSTANTS c0, c1, c2, c3, clientUid, added, x1, x2

(* Four commits: one from before the UIDs, one with them, one with a       *)
(* column more whose index the rows violate, one that does not boot.       *)
MCNeeds == (c0 :> {}) @@ (c1 :> {clientUid}) @@ (c2 :> {clientUid, added})
               @@ (c3 :> {clientUid})

(* Nothing tells the ids of rows apart, nor browsers of operators, nor     *)
(* requests, nor two good texts.                                           *)
Symmetry ==
    Permutations(Lead) \cup Permutations(Admin) \cup Permutations(Flight)
        \cup Permutations({x1, x2})
=============================================================================
