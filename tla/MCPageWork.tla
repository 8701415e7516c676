----------------------------- MODULE MCPageWork -----------------------------
EXTENDS PageWork
=============================================================================
