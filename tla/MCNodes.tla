------------------------------ MODULE MCNodes ------------------------------
EXTENDS Nodes
=============================================================================
