--------------------------- MODULE MCStartupTest ---------------------------
EXTENDS StartupTest
=============================================================================
