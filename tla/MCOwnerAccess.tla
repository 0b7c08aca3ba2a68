---------------------------- MODULE MCOwnerAccess ----------------------------
(* OwnerAccess with the limits scaled down: 5 and 30 requests become 1 and *)
(* 2, so that links can fill the window of the logins, and 10 and 5 become *)
(* 1; the window of an hour that counts becomes 2 quarters.                *)
EXTENDS OwnerAccess

ScaledLimit  == [login |-> 1, open |-> 2, setup |-> 1, change |-> 1]
ScaledWindow == [login |-> 1, open |-> 2, setup |-> 1, change |-> 1]
ScaledOldest == [k \in Key |-> IF k = "owner-login" THEN 2 ELSE 1]
=============================================================================
