---------------------------- MODULE MCIngestion ----------------------------
(* A small instance of Ingestion: one document, which belongs to one of   *)
(* two tenants, a first version of two chunks and a second of one.        *)
EXTENDS Ingestion, TLC

CONSTANTS d1, acme, globex, s1, s2

MCOwner == d1 :> acme
MCChunkCount == <<2, 1>>
=============================================================================
