----------------------------- MODULE MCSessions -----------------------------
(* Small instances of Sessions.                                           *)
EXTENDS Sessions, TLC

CONSTANTS c1, c2, q1

MCBatchCount == c1 :> 2 @@ c2 :> 1
MCTenantOf == c1 :> "acme" @@ c2 :> "globex" @@ q1 :> NoClaim
=============================================================================
