--------------------------- MODULE MCCheckoutReturn ---------------------------
(* CheckoutReturn with model values.                                       *)
EXTENDS CheckoutReturn

Symmetry == Permutations(Business) \cup Permutations(Session) \cup Permutations(Poll)
            \cup Permutations(Browser)
=============================================================================
