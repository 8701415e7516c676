-------------------------- MODULE MCEngineRouting --------------------------
EXTENDS EngineRouting
=============================================================================
