------------------------------ MODULE MCIndex ------------------------------
(* TLC instance of Index: three formulas over two directories; the first   *)
(* one has the same subpath twice.                                         *)
EXTENDS Index, TLC

CONSTANTS r1, r2, r3, a, b

MCPathsOf == r1 :> <<a, a>> @@ r2 :> <<a, b>> @@ r3 :> <<a>>
MCUrlOf   == r1 :> "u1" @@ r2 :> "u1" @@ r3 :> "u2"

=============================================================================
