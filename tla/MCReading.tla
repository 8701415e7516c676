------------------------------ MODULE MCReading ------------------------------
EXTENDS Reading
=============================================================================
