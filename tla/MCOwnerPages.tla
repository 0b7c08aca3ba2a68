------------------------------ MODULE MCOwnerPages ------------------------------
EXTENDS OwnerPages
=============================================================================
