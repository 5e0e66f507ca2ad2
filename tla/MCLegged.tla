------------------------------ MODULE MCLegged ------------------------------
EXTENDS Legged
=============================================================================
