---------------------------- MODULE MCMpiCluster ----------------------------
EXTENDS MpiCluster

\* Both calls have the one call_id, so they share its caches.
MCIds == {"id"}
MCKinds == {"dd", "vd"}
=============================================================================
