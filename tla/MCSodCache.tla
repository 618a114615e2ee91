----------------------------- MODULE MCSodCache -----------------------------
(* Small instances of SodCache. *)
EXTENDS SodCache
CONSTANTS a1, a2
=============================================================================
