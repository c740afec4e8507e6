---------------------------- MODULE MCReduceSum ----------------------------
EXTENDS ReduceSum

MCThreads == {"main", "worker 1", "worker 2"}
MCModes == BOOLEAN
=============================================================================
