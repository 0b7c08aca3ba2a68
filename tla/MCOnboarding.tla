---------------------------- MODULE MCOnboarding ----------------------------
(* Onboarding with model values for businesses, numbers and requests.      *)
(* Symmetry is used by the run of the safety property only.                *)
EXTENDS Onboarding, TLC

Symmetry == Permutations(Business) \cup Permutations(Number) \cup Permutations(Request)
=============================================================================
