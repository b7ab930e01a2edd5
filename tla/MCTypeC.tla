------------------------------ MODULE MCTypeC ------------------------------
EXTENDS TypeC
=============================================================================
