----------------------------- MODULE MCPidFile -----------------------------
EXTENDS PidFile
=============================================================================
