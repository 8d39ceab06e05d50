-------------------------------- MODULE Lexer --------------------------------
(***************************************************************************)
(* The start conditions of parser/lexer.l and its two stacks: what the     *)
(* lexer makes of braces, tables, text to be ignored, dimensions and       *)
(* comments, formula after formula as parser/main.c reads them.  The input *)
(* is any sequence of texts, each the match of one rule (or of a few that  *)
(* give no token); the other rules give a token in INITIAL and mat alike.  *)
(***************************************************************************)
EXTENDS Integers, Sequences, SequencesExt

CONSTANTS MaxNest,  \* bound: constructs open at a time
          MaxStack  \* bound: mat_stack and ign_stack

ASSUME LexerAssumption == MaxNest \in Nat /\ MaxStack \in Nat

Tables   == {"matrix", "array"}
Opening  == {"array_lbrace", "text_lbrace", "hspace_lbrace"}  \* a command and its brace
Commands == Opening \cup {"begin", "end", "hskip", "above"}
\* cr: a double backslash, \cr, \newline
Chars    == {"a", "lbrace", "rbrace", "amp", "cr", "percent"}
Units    == {"em", "em_rbrace"}  \* <dim>em\}? and the like
Texts    == Chars \cup Commands \cup Units \cup {"newline"}
States   == {"INITIAL", "mat", "ign", "dim", "cmt"}
Tokens   == {"none", "VAR", "lbrace", "rbrace", "_TAB", "_SEP_CLASS", "_BEGIN_MAT", "_END_MAT",
             "_ABOVE", "newline"}
Kinds    == Tables \cup {"group", "text", "dim", "dim_group", "comment"}

VARIABLES
  state,      \* flex's start condition
  mat_stack,
  ign_stack,
  token,      \* what the last text gave
  nest,       \* the constructs that are open in the formula, the innermost last
  due,        \* the token that the last text stands for, where it stands
  plain,      \* all that was read is of the kind the lexer is made for
  matrices    \* a matrix environment was read

lexVars  == <<state, mat_stack, ign_stack, token>>
textVars == <<nest, due, plain, matrices>>
vars     == <<lexVars, textVars>>

Init ==
  /\ state = "INITIAL" /\ mat_stack = 0 /\ ign_stack = 0 /\ token = "newline"
  /\ nest = <<>> /\ due = "newline" /\ plain = TRUE /\ matrices = FALSE

---------------------------------------------------------------------------
(* What a text stands for, where it stands: the specification *)

Open(kinds) == \E k \in DOMAIN nest : nest[k] \in kinds
InTop(kinds) == nest # <<>> /\ nest[Len(nest)] \in kinds
Skipping == Open({"text", "dim", "dim_group", "comment"})

\* A brace behind the unit of a bare dimension closes a group.
Meaning(t) ==
  CASE t = "newline"                      -> "newline"
    [] t = "em_rbrace" /\ InTop({"dim"})  -> "rbrace"
    [] t # "newline" /\ Skipping /\ ~(t = "em_rbrace" /\ InTop({"dim"})) -> "none"
    [] t # "newline" /\ ~Skipping ->
         CASE t = "a"                         -> "VAR"
           [] t = "lbrace"                    -> "lbrace"
           [] t = "rbrace"                    -> IF InTop({"array"}) THEN "_END_MAT" ELSE "rbrace"
           [] t = "cr"                        -> IF Open(Tables) THEN "_TAB" ELSE "_SEP_CLASS"
           [] t = "amp"                       -> IF Open(Tables) THEN "_TAB" ELSE "none"
           [] t \in {"begin", "array_lbrace"} -> "_BEGIN_MAT"
           [] t = "end"                       -> "_END_MAT"
           [] t = "above"                     -> "_ABOVE"
           [] OTHER                           -> "none"

Pop == IF nest = <<>> THEN <<>> ELSE Front(nest)
Push(kind) == Append(nest, kind)

KindOf == [t \in {"lbrace", "begin", "percent", "hskip", "above"} \cup Opening |->
  CASE t = "lbrace"        -> "group"
    [] t = "begin"         -> "matrix"
    [] t = "percent"       -> "comment"
    [] t = "array_lbrace"  -> "array"
    [] t = "text_lbrace"   -> "text"
    [] t = "hspace_lbrace" -> "dim_group"
    [] OTHER               -> "dim"]

NestAfter(t) ==
  IF t = "newline" THEN <<>>
  ELSE IF Open({"comment"}) THEN nest
  ELSE IF Open({"dim", "dim_group"}) THEN IF t \in Units THEN Pop ELSE nest
  ELSE IF Open({"text"}) THEN IF t \in {"lbrace"} \cup Opening THEN Push("group")
                              ELSE IF t = "rbrace" THEN Pop ELSE nest
  ELSE IF t \in DOMAIN KindOf THEN Push(KindOf[t])
  ELSE IF t \in {"rbrace", "end"} THEN Pop ELSE nest

\* A formula is closed, its constructs are closed in order, and within a table
\* there are groups only: every other construct leaves mat for INITIAL.  A unit
\* takes the brace behind it, so a bare dimension does not end a group.  And no
\* \array{ comes after a matrix environment, which leaves mat_stack as it is.
IsPlain(t) ==
  CASE t = "newline"                -> nest \in {<<>>, <<"comment">>}
    [] t = "em"                     -> ~InTop({"dim_group"})
    [] t = "em_rbrace"              -> ~InTop({"dim"})
    [] t \notin Units /\ t # "newline" /\ ~Skipping ->
         /\ t = "rbrace" => InTop({"group", "array"})
         /\ t = "end" => InTop({"matrix"})
         /\ t \in DOMAIN KindOf \ {"lbrace"} => ~Open(Tables)
         /\ t = "array_lbrace" => ~matrices
    [] OTHER                        -> TRUE

Reads(t) ==
  /\ due' = Meaning(t)
  /\ nest' = NestAfter(t) /\ Len(nest') <= MaxNest
  /\ plain' = (plain /\ IsPlain(t))
  /\ matrices' = (matrices \/ t = "begin")

---------------------------------------------------------------------------
(* The rules of lexer.l *)

Active == state \in {"INITIAL", "mat"}
Gives(tok, st) == token' = tok /\ state' = st
Keep == UNCHANGED <<mat_stack, ign_stack>>

\* All the rules that give their token and nothing else, for a letter.
Letter == Active /\ Reads("a") /\ Gives("VAR", state) /\ Keep

OpenBrace ==
  /\ Active /\ Reads("lbrace")
  /\ Gives("lbrace", state)
  /\ mat_stack' = IF state = "mat" THEN mat_stack + 1 ELSE mat_stack
  /\ UNCHANGED ign_stack

CloseBrace ==
  /\ state = "INITIAL" /\ Reads("rbrace")
  /\ Gives("rbrace", state) /\ Keep

\* Fault for the mutation test: every brace in a table closes it.
CloseTableAny ==
  /\ state = "mat" /\ Reads("rbrace")
  /\ mat_stack' = mat_stack - 1
  /\ Gives("_END_MAT", "INITIAL")
  /\ UNCHANGED ign_stack

CloseInTable ==
  /\ state = "mat" /\ Reads("rbrace")
  /\ mat_stack' = mat_stack - 1
  /\ IF mat_stack' = 0 THEN Gives("_END_MAT", "INITIAL") ELSE Gives("rbrace", state)
  /\ UNCHANGED ign_stack

NewRow ==
  /\ Active /\ Reads("cr")
  /\ Gives(IF state = "mat" THEN "_TAB" ELSE "_SEP_CLASS", state) /\ Keep

Ampersand ==
  /\ Active /\ Reads("amp")
  /\ Gives(IF state = "mat" THEN "_TAB" ELSE "none", state) /\ Keep

BeginTable(t) ==
  /\ Active /\ t \in {"begin", "array_lbrace"} /\ Reads(t)
  /\ mat_stack' = mat_stack + 1
  /\ Gives("_BEGIN_MAT", "mat")
  /\ UNCHANGED ign_stack

\* mat_stack is not decremented.
EndTable == Active /\ Reads("end") /\ Gives("_END_MAT", "INITIAL") /\ Keep

BeginIgnored ==
  /\ Active /\ Reads("text_lbrace")
  /\ Gives("none", "ign")
  /\ ign_stack' = ign_stack + 1
  /\ UNCHANGED mat_stack

IgnoredOpen(t) ==
  /\ state = "ign" /\ t \in {"lbrace"} \cup Opening /\ Reads(t)
  /\ Gives("none", "ign")
  /\ ign_stack' = ign_stack + 1
  /\ UNCHANGED mat_stack

\* Fault for the mutation test: every brace ends the text.
IgnoredCloseAny ==
  /\ state = "ign" /\ Reads("rbrace")
  /\ ign_stack' = ign_stack - 1
  /\ Gives("none", "INITIAL")
  /\ UNCHANGED mat_stack

\* Whatever the state was before, INITIAL comes after.
IgnoredClose ==
  /\ state = "ign" /\ Reads("rbrace")
  /\ ign_stack' = ign_stack - 1
  /\ Gives("none", IF ign_stack' = 0 THEN "INITIAL" ELSE "ign")
  /\ UNCHANGED mat_stack

Ignored(t) ==
  /\ state = "ign" /\ t \in (Chars \cup Commands) \ ({"lbrace", "rbrace"} \cup Opening) /\ Reads(t)
  /\ Gives("none", "ign") /\ Keep

BeginDimension(t) ==
  /\ Active /\ t \in {"hspace_lbrace", "hskip", "above"} /\ Reads(t)
  /\ Gives(IF t = "above" THEN "_ABOVE" ELSE "none", "dim") /\ Keep

\* A command is read letter by letter.  A matrix's \begin has the unit "in" in it
\* (as \text has "ex"; text_lbrace is \mbox, say): it is letters, the unit, and
\* what follows, which are texts of their own.
InDimension(t) ==
  /\ state = "dim" /\ t \in Chars \cup (Commands \ {"begin"}) /\ Reads(t)
  /\ Gives("none", "dim") /\ Keep

\* The unit and a brace behind it; whatever the state was before.
Unit(t) ==
  /\ state = "dim" /\ t \in Units /\ Reads(t)
  /\ Gives("none", "INITIAL") /\ Keep

BeginComment == Active /\ Reads("percent") /\ Gives("none", "cmt") /\ Keep

InComment(t) ==
  /\ state = "cmt" /\ t \in Chars \cup Commands /\ Reads(t)
  /\ Gives("none", "cmt") /\ Keep

\* The end of a formula.  State and stacks are not reset; in ign and dim there
\* is no rule for a newline, and the parser gets none.
Newline ==
  /\ Reads("newline")
  /\ CASE Active         -> Gives("newline", state)
       [] state = "cmt"  -> Gives("newline", "INITIAL")
       [] OTHER          -> Gives("none", state)
  /\ Keep

Bounded == mat_stack' <= MaxStack /\ ign_stack' <= MaxStack

Lex ==
  \/ Letter \/ OpenBrace \/ CloseBrace \/ CloseInTable \/ NewRow \/ Ampersand
  \/ EndTable \/ BeginIgnored \/ IgnoredClose \/ BeginComment \/ Newline
  \/ \E t \in Texts : \/ BeginTable(t) \/ IgnoredOpen(t) \/ Ignored(t) \/ BeginDimension(t)
                      \/ InDimension(t) \/ Unit(t) \/ InComment(t)

Next == Lex /\ Bounded

Spec == Init /\ [][Next]_vars

---------------------------------------------------------------------------
(* Properties *)

\* Whatever is read, formula after formula, the stacks agree with the state: text
\* is ignored as long as ign_stack says, and in a table mat_stack is not 0, so
\* that a closing brace never makes an unsigned stack wrap (lexer.l:207, 229).
LexTypeOK ==
  /\ state \in States /\ token \in Tokens /\ due \in Tokens
  /\ mat_stack \in Nat /\ ign_stack \in Nat
  /\ nest \in Seq(Kinds) /\ plain \in BOOLEAN /\ matrices \in BOOLEAN
  /\ ign_stack > 0 <=> state = "ign"
  /\ state = "mat" => mat_stack > 0

\* As long as the formulas are plain every text gives the token it stands for in
\* the nesting of braces, tables and ignored text: two counters and a state are
\* enough, and nothing of one formula reaches the next.
TokensOfText == plain => token = due

=============================================================================
