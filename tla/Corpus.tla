------------------------------- MODULE Corpus -------------------------------
(***************************************************************************)
(* What every module about the chunk table takes as given: documents,     *)
(* which Pod P owns and files under one tenant each, their versions, and  *)
(* how many chunks the chunker cuts a version into.                       *)
(***************************************************************************)
EXTENDS Integers

CONSTANTS
    Docs,        \* document ids
    Tenants,     \* tenant ids
    Owner,       \* the tenant of each document
    MaxVersion,  \* bound: how many versions Pod P gives one document
    ChunkCount   \* how many chunks version v is cut into

ASSUME OwnerAssumption == Owner \in [Docs -> Tenants]
ASSUME VersionAssumption == MaxVersion \in Nat \ {0}
\* section_aware_chunk returns at least one chunk for every text.
ASSUME CountAssumption == ChunkCount \in [1..MaxVersion -> Nat \ {0}]

Absent == 0              \* the version of a document that is gone
Versions == 1..MaxVersion
=============================================================================
