-------------------------- MODULE MCShmLifecycle ---------------------------
EXTENDS ShmLifecycle
=============================================================================
