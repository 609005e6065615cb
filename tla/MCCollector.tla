---------------------------- MODULE MCCollector ----------------------------
EXTENDS Collector
=============================================================================
