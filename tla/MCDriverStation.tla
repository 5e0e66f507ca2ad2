--------------------------- MODULE MCDriverStation ---------------------------
EXTENDS DriverStation
=============================================================================
