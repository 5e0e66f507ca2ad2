---------------------------- MODULE MCTelemetry ----------------------------
EXTENDS Telemetry
=============================================================================
