----------------------------- MODULE MCTrialGate -----------------------------
(* TrialGate with every call dialled to one number.                        *)
EXTENDS TrialGate

CONSTANTS n1

MCDialled == [c \in Call |-> n1]
=============================================================================
