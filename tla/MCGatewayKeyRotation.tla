------------------------ MODULE MCGatewayKeyRotation ------------------------
(***************************************************************************)
(* Instances of GatewayKeyRotation: one rotation with two calls of its     *)
(* programs at once and a probe grant that may outlive the old key, and    *)
(* two rotations, of which the second replaces the key of the first.       *)
(***************************************************************************)
EXTENDS GatewayKeyRotation, TLC

CONSTANTS k0, k1, k2, r1, r2, p1, p2

OneRotation == {r1}
TwoRotations == {r1, r2}
TwoKeys == {k0, k1}
ThreeKeys == {k0, k1, k2}
OneNewKey == r1 :> k1
TwoNewKeys == r1 :> k1 @@ r2 :> k2
ProcessSymmetry == Permutations({p1, p2})

\* Exchanging the two rotations along with the keys they generate.
RotationSwap == r1 :> r2 @@ r2 :> r1 @@ k1 :> k2 @@ k2 :> k1
NoSwap == [x \in {r1, r2, k1, k2} |-> x]
RotationSymmetry == {f @@ g : f \in ProcessSymmetry, g \in {NoSwap, RotationSwap}}

=============================================================================
