------------------------------ MODULE MCScore ------------------------------
(* TLC instance of Score: two merge nodes, of three query paths in two      *)
(* directories and of two query paths in one directory.                     *)
EXTENDS Score

Sub(symbol, dir, fan) == [symbol_id |-> symbol, dir |-> dir, fan |-> fan]

MCQueries == {<<Sub("x", 2, <<1, 2>>), Sub("x", 2, <<2, 2>>), Sub("y", 1, <<1, 1>>)>>,
              <<Sub("x", 1, <<2, 1>>), Sub("y", 1, <<1, 1>>)>>}
MCDocFans == {<<1, 2>>, <<2, 1>>}
MCSymbols == {"x", "y"}
MCAbove   == <<<<>>, <<3>>>>

=============================================================================
