----------------------------- MODULE MCManifest -----------------------------
(* Up to two allocations; the allocation counter may wrap between them.    *)
EXTENDS Manifest
=============================================================================
