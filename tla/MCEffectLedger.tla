--------------------------- MODULE MCEffectLedger ---------------------------
(* Instances of EffectLedger for TLC. *)
EXTENDS EffectLedger, TLC

CONSTANTS c1, c2, c3, r1, r2

\* One process with a call of the tool loop and a confirmed write.
OneReplicaHome == c1 :> r1 @@ c2 :> r1
\* Two processes; the second one's clock is ahead.
TwoReplicaHome == c1 :> r1 @@ c2 :> r1 @@ c3 :> r2
OneSkew == r1 :> 1
TwoSkew == r1 :> 0 @@ r2 :> 1
=============================================================================
