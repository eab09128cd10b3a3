--------------------------- MODULE MCHeapConductor ---------------------------
EXTENDS HeapConductor
==============================================================================
