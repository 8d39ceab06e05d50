------------------------------ MODULE MCTexTree ------------------------------
(* TLC instance of TexTree: every formula of up to MaxLength reductions over *)
(* two variables and the empty formula, and some larger ones.                *)
EXTENDS TexTree

CONSTANT MaxLength

MCSymbolId ==
  LET order == <<"a", "b", "none", "nil", "rel", "ADD", "FRAC", "SUP_SCRIPT", "HANGER">>
  IN  [s \in ToSet(order) |-> CHOOSE i \in DOMAIN order : order[i] = s]

\* Formulas by their number of reductions; a script takes two.
Words[n \in 1 .. MaxLength] ==
  IF n = 1 THEN {<<v>> : v \in Vars \cup {"nil"}}
  ELSE UNION {
    {x \o y \o <<op>> : x \in Words[k], y \in Words[n - 1 - k], op \in {"+", "/"}}
      : k \in 1 .. n - 2}
  \cup UNION {
    {x \o y \o <<"sup", "hang">> : x \in Words[k], y \in Words[n - 2 - k]}
      : k \in 1 .. n - 3}

\* The variables can be renamed, so the first one is always the same.
AFirst(w) == \A i \in DOMAIN w : w[i] = "b" => \E j \in 1 .. i : w[j] = "a"

\* n equal terms.
Sum(n) == <<"a">> \o [i \in 1 .. 2 * (n - 1) |-> IF i % 2 = 1 THEN "a" ELSE "+"]

Larger == {
  Sum(7), Sum(8),                                          \* too many in a group, in the tree
  <<"a", "b", "/", "a", "b", "/", "/", "a", "b", "/", "a", "/", "/">>, \* seven leaves
  <<"a", "b", "rel", "b", "stackrel">>,
  <<"nil", "a", "b", "/", "rel", "a", "b", "+", "stackrel">>,
  <<"a", "nil", "rel", "b", "stackrel", "b", "rel", "a", "stackrel">>}

MCFormulas == {w \in UNION {Words[n] : n \in 1 .. MaxLength} : AFirst(w)} \cup Larger

=============================================================================
