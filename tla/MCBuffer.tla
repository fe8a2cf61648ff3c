------------------------------ MODULE MCBuffer ------------------------------
EXTENDS Buffer

CONSTANTS a, b, z

MCBytes == {a, b}
=============================================================================
