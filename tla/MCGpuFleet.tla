----------------------------- MODULE MCGpuFleet -----------------------------
EXTENDS GpuFleet
=============================================================================
