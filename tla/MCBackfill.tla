----------------------------- MODULE MCBackfill -----------------------------
(* Small instances of Backfill.                                           *)
EXTENDS Backfill
=============================================================================
