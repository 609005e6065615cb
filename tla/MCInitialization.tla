-------------------------- MODULE MCInitialization --------------------------
EXTENDS Initialization
=============================================================================
