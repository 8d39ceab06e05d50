-------------------------------- MODULE Dollar --------------------------------
(***************************************************************************)
(* crawler/dollar.py: the formulas between dollar signs in a paragraph.    *)
(* A character is a dollar sign, a backslash or anything else.             *)
(***************************************************************************)
EXTENDS Integers, Sequences, SequencesExt

CONSTANTS MaxUnits,    \* bound: units of a text or formula
          MaxSegments  \* bound: texts and formulas of a paragraph

ASSUME DollarAssumption == MaxUnits \in Nat /\ MaxSegments \in Nat

Scanner == [skip |-> FALSE, stack |-> 0, j |-> 0, out |-> <<>>]

\* Fault for the mutation test: both signs that open a display are one opening.
DollarNoEmpty(s, sc, k) ==
  CASE sc.stack = 0 -> [sc EXCEPT !.stack = 1, !.j = k + 1]
    [] OTHER        -> [skip |-> sc.stack = 2, stack |-> 0, j |-> sc.j,
                        out |-> Append(sc.out, SubSeq(s, sc.j, k - 1))]

\* A dollar sign at k.  The second one of two that close a display is skipped.
AtDollar(s, sc, k) ==
  CASE sc.stack = 0              -> [sc EXCEPT !.stack = 1, !.j = k + 1]
    [] sc.stack = 1 /\ k = sc.j  -> [sc EXCEPT !.stack = 2, !.j = k + 1]
    [] OTHER                     -> [skip |-> sc.stack = 2, stack |-> 0, j |-> sc.j,
                                     out |-> Append(sc.out, SubSeq(s, sc.j, k - 1))]

AtChar(s, sc, k) ==
  CASE sc.skip                  -> [sc EXCEPT !.skip = FALSE]
    [] ~sc.skip /\ s[k] = "$"   -> AtDollar(s, sc, k)
    [] ~sc.skip /\ s[k] = "bs"  -> [sc EXCEPT !.skip = k < Len(s) /\ s[k + 1] = "$"]
    [] OTHER                    -> sc

find_dollar_tex(s) ==
  LET sc[k \in 0 .. Len(s)] == IF k = 0 THEN Scanner ELSE AtChar(s, sc[k - 1], k)
  IN  sc[Len(s)].out

---------------------------------------------------------------------------
(* What a paragraph is made of *)

Units == {<<"a">>, <<"bs", "$">>, <<"bs", "a">>}
Strings == {FlattenSeq(u) : u \in UNION {[1..n -> Units] : n \in 0..MaxUnits}}
Segments == [kind : {"text", "inline", "display"}, tex : Strings]
Paragraphs ==
  {p \in UNION {[1..n -> Segments] : n \in 0..MaxSegments} :
     \A k \in DOMAIN p : p[k].kind = "inline" => p[k].tex # <<>>}

Source(p) ==
  FlattenSeq([k \in DOMAIN p |->
    CASE p[k].kind = "text"    -> p[k].tex
      [] p[k].kind = "inline"  -> <<"$">> \o p[k].tex \o <<"$">>
      [] p[k].kind = "display" -> <<"$", "$">> \o p[k].tex \o <<"$", "$">>])

Formulas(p) ==
  LET tex[k \in 0 .. Len(p)] ==
        IF k = 0 THEN <<>>
        ELSE IF p[k].kind = "text" THEN tex[k - 1] ELSE Append(tex[k - 1], p[k].tex)
  IN  tex[Len(p)]

\* Every formula once and in order, and nothing else.
ScanIsExact == \A p \in Paragraphs : find_dollar_tex(Source(p)) = Formulas(p)

===============================================================================
