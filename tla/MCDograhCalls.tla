--------------------------- MODULE MCDograhCalls ---------------------------
(* DograhCalls with a function for the number each call dialled and for    *)
(* the owner of each device.  Two businesses and one number make numbers   *)
(* change hands; a device each makes the shared token change hands.        *)
EXTENDS DograhCalls

CONSTANTS n1, b1, b2, t1, t2

MCDialled == [c \in Call |-> n1]
MCOwnerOf == [t \in Token |-> IF t = t1 THEN b1 ELSE b2]
=============================================================================
