------------------------------ MODULE MCBilling ------------------------------
(* Billing with model values for businesses, customers and sessions.       *)
(* Symmetry is used by the runs of safety properties only.                 *)
EXTENDS Billing

Symmetry == Permutations(Business) \cup Permutations(Customer)
            \cup Permutations(Session) \cup Permutations(Request)
=============================================================================
