------------------------ MODULE MCResidentialNodes ------------------------
\* Three requests of any kind over a table of exits that can be full.
EXTENDS ResidentialNodes
=============================================================================
