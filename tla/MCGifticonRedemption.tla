------------------------ MODULE MCGifticonRedemption ------------------------
(* Instances of GifticonRedemption for TLC. *)
EXTENDS GifticonRedemption, TLC

CONSTANTS u1, u2, g1, r1, r2, h1, h2

MCPrices == {1, 2}

Symmetry == Permutations({h1, h2}) \cup Permutations({r1, r2})
=============================================================================
