----------------------------- MODULE MCSpscRing -----------------------------
EXTENDS SpscRing
=============================================================================
