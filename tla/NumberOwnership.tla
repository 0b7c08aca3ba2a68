-------------------------- MODULE NumberOwnership --------------------------
(***************************************************************************)
(* What the number pool promises, without the database or the pool file:   *)
(* a CallFlow number is lent to at most one business, a business borrows   *)
(* at most one number, and a number changes hands only by being given      *)
(* back first.  A call dialled to a number belongs to its borrower, so     *)
(* this is what keeps one owner's calls out of another owner's dashboard.  *)
(***************************************************************************)
CONSTANTS
    Business,   \* ids of rows of the businesses table
    Number,     \* CallFlow numbers
    Nobody      \* the borrower of a number that is not lent

VARIABLE borrower

vars == <<borrower>>

Init == borrower = [n \in Number |-> Nobody]

Lend(n, b) ==
    /\ borrower[n] = Nobody
    /\ \A m \in Number : borrower[m] # b
    /\ borrower' = [borrower EXCEPT ![n] = b]

GiveBack(n) ==
    /\ borrower[n] # Nobody
    /\ borrower' = [borrower EXCEPT ![n] = Nobody]

Next == \E n \in Number :
            \/ GiveBack(n)
            \/ \E b \in Business : Lend(n, b)

Spec == Init /\ [][Next]_vars
=============================================================================
