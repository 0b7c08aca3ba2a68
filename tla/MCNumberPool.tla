---------------------------- MODULE MCNumberPool ----------------------------
(* Two or three businesses and two or three pool numbers in two area       *)
(* codes.  An owner's phone may be ordinary, in either area or abroad, or  *)
(* have the very digits of a pool number.                                  *)
EXTENDS NumberPool

CONSTANTS home, away, near, abroad, homeNumbers

MCAreaOf == [p \in Phone |-> IF p \in homeNumbers \cup {near} THEN home
                             ELSE IF p = abroad THEN NoArea
                             ELSE away]
=============================================================================
