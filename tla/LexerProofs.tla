----------------------------- MODULE LexerProofs -----------------------------
(***************************************************************************)
(* Theorems about Lexer, for every number of nested constructs: the stacks *)
(* agree with the state, and the two counters and the state are enough to  *)
(* give every text of plain formulas the token it stands for.              *)
(***************************************************************************)
EXTENDS Lexer, SequenceTheorems, TLAPS

---------------------------------------------------------------------------
(* Types, and stacks that agree with the state *)

\* The nesting of constructs keeps its type, and so does the token that is due.
LEMMA ReadsTypes ==
  ASSUME nest \in Seq(Kinds), plain \in BOOLEAN, matrices \in BOOLEAN,
         NEW t \in Texts, Reads(t)
  PROVE  /\ nest' \in Seq(Kinds) /\ plain' \in BOOLEAN /\ matrices' \in BOOLEAN
         /\ due' \in Tokens
<1>1. nest' \in Seq(Kinds)
  <2>1. Pop \in Seq(Kinds)
    BY DEF Pop, Front
  <2>2. \A kind \in Kinds : Push(kind) \in Seq(Kinds)
    BY DEF Push
  <2>3. "group" \in Kinds /\ (t \in DOMAIN KindOf => KindOf[t] \in Kinds)
    BY DEF KindOf, Kinds, Tables, Opening
  <2>4. CASE t = "newline"
    BY <2>4 DEF NestAfter, Reads
  <2>5. CASE t # "newline" /\ Open({"comment"})
    BY <2>5 DEF NestAfter, Reads
  <2>6. CASE t # "newline" /\ ~Open({"comment"}) /\ Open({"dim", "dim_group"})
    BY <2>1, <2>6 DEF NestAfter, Reads
  <2>7. CASE t # "newline" /\ ~Open({"comment"}) /\ ~Open({"dim", "dim_group"}) /\ Open({"text"})
    BY <2>1, <2>2, <2>3, <2>7 DEF NestAfter, Reads
  <2>8. CASE t # "newline" /\ ~Open({"comment"}) /\ ~Open({"dim", "dim_group"}) /\ ~Open({"text"})
    BY <2>1, <2>2, <2>3, <2>8 DEF NestAfter, Reads
  <2> QED BY <2>4, <2>5, <2>6, <2>7, <2>8
<1>2. due' \in Tokens
  BY DEF Reads, Meaning, Tokens, Texts, Chars, Commands, Units, Opening
<1>3. plain' \in BOOLEAN
  BY DEF Reads
<1>4. matrices' \in BOOLEAN
  BY DEF Reads
<1> QED BY <1>1, <1>2, <1>3, <1>4

\* The part of the types that the rules are about.
Stacks ==
  /\ state \in States /\ token \in Tokens
  /\ mat_stack \in Nat /\ ign_stack \in Nat
  /\ ign_stack > 0 <=> state = "ign"
  /\ state = "mat" => mat_stack > 0

\* Each rule keeps the stacks and the state together.
LEMMA StacksStep == Stacks /\ Lex => Stacks'
<1> SUFFICES ASSUME Stacks, Lex PROVE Stacks'
  OBVIOUS
<1>1. CASE Letter
  BY <1>1 DEF Letter, Active, Gives, Keep, Stacks, States, Tokens
<1>2. CASE OpenBrace
  BY <1>2 DEF OpenBrace, Active, Gives, Stacks, States, Tokens
<1>3. CASE CloseBrace
  BY <1>3 DEF CloseBrace, Gives, Keep, Stacks, States, Tokens
<1>4. CASE CloseInTable
  BY <1>4 DEF CloseInTable, Gives, Stacks, States, Tokens
<1>5. CASE NewRow
  BY <1>5 DEF NewRow, Active, Gives, Keep, Stacks, States, Tokens
<1>6. CASE Ampersand
  BY <1>6 DEF Ampersand, Active, Gives, Keep, Stacks, States, Tokens
<1>7. ASSUME NEW t \in Texts, BeginTable(t) PROVE Stacks'
  BY <1>7 DEF BeginTable, Active, Gives, Stacks, States, Tokens
<1>8. CASE EndTable
  BY <1>8 DEF EndTable, Active, Gives, Keep, Stacks, States, Tokens
<1>9. CASE BeginIgnored
  BY <1>9 DEF BeginIgnored, Active, Gives, Stacks, States, Tokens
<1>10. ASSUME NEW t \in Texts, IgnoredOpen(t) PROVE Stacks'
  BY <1>10 DEF IgnoredOpen, Gives, Stacks, States, Tokens
<1>11. CASE IgnoredClose
  BY <1>11 DEF IgnoredClose, Gives, Stacks, States, Tokens
<1>12. ASSUME NEW t \in Texts, Ignored(t) \/ InDimension(t) \/ InComment(t) PROVE Stacks'
  BY <1>12 DEF Ignored, InDimension, InComment, Gives, Keep, Stacks, States, Tokens
<1>13. ASSUME NEW t \in Texts, BeginDimension(t) PROVE Stacks'
  BY <1>13 DEF BeginDimension, Active, Gives, Keep, Stacks, States, Tokens
<1>14. ASSUME NEW t \in Texts, Unit(t) PROVE Stacks'
  BY <1>14 DEF Unit, Gives, Keep, Stacks, States, Tokens
<1>15. CASE BeginComment
  BY <1>15 DEF BeginComment, Active, Gives, Keep, Stacks, States, Tokens
<1>16. CASE Newline
  <2>1. \/ token' = "newline" /\ state' = state
        \/ token' = "newline" /\ state = "cmt" /\ state' = "INITIAL"
        \/ token' = "none" /\ state' = state
    BY <1>16 DEF Newline, Gives, Active
  <2> QED BY <1>16, <2>1 DEF Newline, Keep, Stacks, States, Tokens
<1> QED
  BY <1>1, <1>2, <1>3, <1>4, <1>5, <1>6, <1>7, <1>8, <1>9, <1>10, <1>11, <1>12, <1>13, <1>14,
     <1>15, <1>16 DEF Lex

\* A step reads one of the texts.
LEMMA StepReads == ASSUME Lex PROVE \E t \in Texts : Reads(t)
  BY DEF Lex, Letter, OpenBrace, CloseBrace, CloseInTable, NewRow, Ampersand, EndTable,
     BeginIgnored, IgnoredClose, BeginComment, Newline, BeginTable, IgnoredOpen, Ignored,
     BeginDimension, InDimension, Unit, InComment, Texts, Chars, Commands, Opening

\* The stacks agree with the state whatever is read: none of them wraps.
THEOREM LexTypeCorrect == Spec => []LexTypeOK
<1>1. Init => LexTypeOK
  <2> SUFFICES ASSUME Init PROVE LexTypeOK
    OBVIOUS
  <2>1. plain \in BOOLEAN /\ matrices \in BOOLEAN
    BY DEF Init
  <2> QED BY <2>1 DEF Init, LexTypeOK, States, Tokens
<1>2. LexTypeOK /\ [Next]_vars => LexTypeOK'
  <2> SUFFICES ASSUME LexTypeOK, [Next]_vars PROVE LexTypeOK'
    OBVIOUS
  <2>1. CASE Next
    <3>1. Stacks'
      BY <2>1, StacksStep DEF Next, LexTypeOK, Stacks
    <3>2. PICK t \in Texts : Reads(t)
      BY <2>1, StepReads DEF Next
    <3>3. /\ nest' \in Seq(Kinds) /\ plain' \in BOOLEAN /\ matrices' \in BOOLEAN
          /\ due' \in Tokens
      BY <3>2, ReadsTypes DEF LexTypeOK
    <3> QED BY <3>1, <3>3 DEF Stacks, LexTypeOK
  <2>2. CASE UNCHANGED vars
    BY <2>2 DEF vars, lexVars, textVars, LexTypeOK
  <2> QED BY <2>1, <2>2
<1> QED BY <1>1, <1>2, PTL DEF Spec

---------------------------------------------------------------------------
(* Plain formulas *)

AllGroups == \A k \in DOMAIN nest : nest[k] = "group"

\* Where a construct is open, the state is its own, and its stack counts the
\* groups in it; mat_stack counts from 0 as long as there was no matrix.
NestingAt(k) ==
  /\ nest[k] = "array" => state = "mat" /\ ~matrices /\ mat_stack = Len(nest) - k + 1
  /\ nest[k] = "matrix" => state = "mat" /\ matrices /\ mat_stack >= Len(nest) - k + 1
  /\ nest[k] = "text" => state = "ign" /\ ign_stack = Len(nest) - k + 1
  /\ nest[k] \in {"dim", "dim_group"} => state = "dim" /\ k = Len(nest)
  /\ nest[k] = "comment" => state = "cmt" /\ k = Len(nest)

\* One construct at a time is open, but for groups.
Nesting ==
  /\ \A j, k \in DOMAIN nest : nest[j] # "group" /\ nest[k] # "group" => j = k
  /\ AllGroups => state = "INITIAL"
  /\ ~matrices /\ ~Open({"array"}) => mat_stack = 0
  /\ \A k \in DOMAIN nest : NestingAt(k)

PlainInv == LexTypeOK /\ (plain => Nesting /\ token = due)

\* In plain formulas the state says which construct is open.
LEMMA StateOfNest ==
  ASSUME LexTypeOK, Nesting
  PROVE  /\ state = "INITIAL" <=> AllGroups
         /\ state = "mat" <=> Open(Tables)
         /\ state = "ign" <=> Open({"text"})
         /\ state = "dim" <=> Open({"dim", "dim_group"})
         /\ state = "cmt" <=> Open({"comment"})
         /\ Skipping <=> state \in {"ign", "dim", "cmt"}
         /\ state # "INITIAL" => \E k \in DOMAIN nest :
              nest[k] # "group" /\ NestingAt(k) /\ \A j \in DOMAIN nest : j # k => nest[j] = "group"
<1>1. \A k \in DOMAIN nest : nest[k] \in Kinds
  BY DEF LexTypeOK
<1>2. CASE AllGroups
  BY <1>2 DEF Nesting, AllGroups, Open, Skipping, Tables
<1>3. ASSUME NEW k \in DOMAIN nest, nest[k] # "group"
      PROVE  /\ state = "mat" <=> nest[k] \in Tables
             /\ state = "ign" <=> nest[k] = "text"
             /\ state = "dim" <=> nest[k] \in {"dim", "dim_group"}
             /\ state = "cmt" <=> nest[k] = "comment"
             /\ state # "INITIAL"
  BY <1>1, <1>3 DEF Nesting, NestingAt, Kinds, Tables
<1>4. CASE ~AllGroups
  <2>1. PICK k \in DOMAIN nest : nest[k] # "group"
    BY <1>4 DEF AllGroups
  <2>2. \A j \in DOMAIN nest : j # k => nest[j] = "group"
    BY <2>1 DEF Nesting
  <2>3. \A kinds : "group" \notin kinds => (Open(kinds) <=> nest[k] \in kinds)
    BY <2>2 DEF Open
  <2>4. NestingAt(k)
    BY DEF Nesting
  <2>5. /\ Open(Tables) <=> nest[k] \in Tables
        /\ Open({"text"}) <=> nest[k] = "text"
        /\ Open({"dim", "dim_group"}) <=> nest[k] \in {"dim", "dim_group"}
        /\ Open({"comment"}) <=> nest[k] = "comment"
        /\ Skipping <=> nest[k] \in {"text", "dim", "dim_group", "comment"}
    BY <2>3 DEF Tables, Skipping
  <2> QED BY <1>3, <1>4, <2>1, <2>2, <2>4, <2>5
<1> QED BY <1>2, <1>4

\* What is plain after a text was plain before, and so is the text.
LEMMA PlainBefore ==
  ASSUME NEW t, Reads(t), plain' PROVE plain /\ IsPlain(t)
  BY Zenon DEF Reads

\* The token of a rule is the one that its text stands for.
LEMMA TokenIsDue ==
  ASSUME LexTypeOK, Nesting, Next, plain'
  PROVE  token' = due'
<1>1. /\ state = "INITIAL" => ~Open(Tables) /\ ~Skipping
      /\ state = "mat" => Open(Tables) /\ ~Skipping
      /\ state \in {"ign", "dim", "cmt"} => Skipping
      /\ state \in States
  BY StateOfNest DEF AllGroups, Open, Tables, LexTypeOK
<1>2. ASSUME NEW t, Reads(t) PROVE due' = Meaning(t)
  BY <1>2 DEF Reads
<1>3. CASE Letter
  BY <1>1, <1>2, <1>3 DEF Letter, Active, Gives, Meaning
<1>4. CASE OpenBrace
  BY <1>1, <1>2, <1>4 DEF OpenBrace, Active, Gives, Meaning
<1>5. CASE CloseBrace
  <2>1. ~InTop({"array"})
    BY <1>1, <1>5 DEF CloseBrace, InTop, Open, Tables, LexTypeOK
  <2> QED BY <1>1, <1>2, <1>5, <2>1 DEF CloseBrace, Gives, Meaning
<1>6. CASE CloseInTable
  <2>1. IsPlain("rbrace") /\ Reads("rbrace")
    BY <1>6, PlainBefore DEF CloseInTable
  <2>2. InTop({"group", "array"})
    BY <1>1, <1>6, <2>1 DEF IsPlain, CloseInTable, Units
  <2>3. nest \in Seq(Kinds) /\ nest # <<>> /\ Len(nest) \in DOMAIN nest
    BY <2>2 DEF InTop, LexTypeOK
  <2>4. PICK k \in DOMAIN nest :
          nest[k] # "group" /\ NestingAt(k) /\ \A j \in DOMAIN nest : j # k => nest[j] = "group"
    BY <1>6, StateOfNest DEF CloseInTable
  <2>5. nest[k] \in {"array", "matrix"}
    BY <1>6, <2>3, <2>4 DEF NestingAt, CloseInTable, Kinds, Tables
  <2>6. CASE k = Len(nest)
    <3>1. nest[k] = "array" /\ InTop({"array"})
      BY <2>2, <2>4, <2>6 DEF InTop
    <3>2. mat_stack - 1 = 0
      BY <2>3, <2>6, <3>1, <2>4 DEF NestingAt
    <3> QED BY <1>1, <1>2, <1>6, <2>1, <3>1, <3>2 DEF CloseInTable, Gives, Meaning
  <2>7. CASE k # Len(nest)
    <3>1. ~InTop({"array"})
      BY <2>3, <2>4, <2>7 DEF InTop
    <3>2. k < Len(nest) /\ mat_stack >= Len(nest) - k + 1
      BY <2>3, <2>4, <2>5, <2>7 DEF NestingAt, LexTypeOK
    <3>3. mat_stack - 1 # 0
      BY <2>3, <3>2 DEF LexTypeOK
    <3> QED BY <1>1, <1>2, <1>6, <2>1, <3>1, <3>3 DEF CloseInTable, Gives, Meaning
  <2> QED BY <2>6, <2>7
<1>7. CASE NewRow
  BY <1>1, <1>2, <1>7 DEF NewRow, Active, Gives, Meaning
<1>8. CASE Ampersand
  BY <1>1, <1>2, <1>8 DEF Ampersand, Active, Gives, Meaning
<1>9. ASSUME NEW t \in Texts, BeginTable(t) PROVE token' = due'
  BY <1>1, <1>2, <1>9 DEF BeginTable, Active, Gives, Meaning
<1>10. CASE EndTable
  BY <1>1, <1>2, <1>10 DEF EndTable, Active, Gives, Meaning
<1>11. CASE BeginIgnored
  BY <1>1, <1>2, <1>11 DEF BeginIgnored, Active, Gives, Meaning
<1>12. ASSUME NEW t \in Texts, IgnoredOpen(t) \/ Ignored(t) \/ InDimension(t) \/ InComment(t)
       PROVE  token' = due'
  BY <1>1, <1>2, <1>12 DEF IgnoredOpen, Ignored, InDimension, InComment, Gives, Meaning, Opening,
     Chars, Commands
<1>13. CASE IgnoredClose
  BY <1>1, <1>2, <1>13 DEF IgnoredClose, Gives, Meaning
<1>14. ASSUME NEW t \in Texts, BeginDimension(t) PROVE token' = due'
  BY <1>1, <1>2, <1>14 DEF BeginDimension, Active, Gives, Meaning
<1>15. ASSUME NEW t \in Texts, Unit(t) PROVE token' = due'
  <2>1. IsPlain(t) /\ Reads(t)
    BY <1>15, PlainBefore DEF Unit
  <2>2. t = "em_rbrace" => ~InTop({"dim"})
    BY <2>1 DEF IsPlain, Units
  <2> QED BY <1>1, <1>2, <1>15, <2>2 DEF Unit, Gives, Meaning, Units
<1>16. CASE BeginComment
  BY <1>1, <1>2, <1>16 DEF BeginComment, Active, Gives, Meaning
<1>17. CASE Newline
  <2>1. IsPlain("newline") /\ Reads("newline")
    BY <1>17, PlainBefore DEF Newline
  <2>2. nest \in {<<>>, <<"comment">>}
    BY <2>1 DEF IsPlain
  <2>3. state \notin {"ign", "dim"}
    BY <2>2, StateOfNest DEF Open
  <2>4. token' = "newline"
    BY <1>1, <1>17, <2>3 DEF Newline, Active, Gives, States
  <2> QED BY <1>2, <2>1, <2>4 DEF Meaning
<1> QED
  BY <1>3, <1>4, <1>5, <1>6, <1>7, <1>8, <1>9, <1>10, <1>11, <1>12, <1>13, <1>14,
     <1>15, <1>16, <1>17 DEF Next, Lex

\* The stack without its last element, and with one more.
LEMMA PushedPopped ==
  ASSUME nest \in Seq(Kinds), NEW kind \in Kinds
  PROVE  /\ Push(kind) \in Seq(Kinds) /\ Len(Push(kind)) = Len(nest) + 1
         /\ Push(kind)[Len(nest) + 1] = kind /\ DOMAIN Push(kind) = 1 .. Len(nest) + 1
         /\ \A k \in 1 .. Len(nest) : Push(kind)[k] = nest[k]
         /\ DOMAIN nest = 1 .. Len(nest) /\ Len(nest) \in Nat
         /\ nest # <<>> => /\ Pop \in Seq(Kinds) /\ Len(Pop) = Len(nest) - 1 /\ Len(nest) > 0
                           /\ DOMAIN Pop = 1 .. Len(nest) - 1
                           /\ \A k \in 1 .. Len(nest) - 1 : Pop[k] = nest[k]
<1>1. /\ Push(kind) \in Seq(Kinds) /\ Len(Push(kind)) = Len(nest) + 1
      /\ Push(kind)[Len(nest) + 1] = kind /\ DOMAIN Push(kind) = 1 .. Len(nest) + 1
      /\ \A k \in 1 .. Len(nest) : Push(kind)[k] = nest[k]
      /\ DOMAIN nest = 1 .. Len(nest) /\ Len(nest) \in Nat
  BY DEF Push
<1>2. ASSUME nest # <<>>
      PROVE  /\ Pop \in Seq(Kinds) /\ Len(Pop) = Len(nest) - 1 /\ Len(nest) > 0
             /\ DOMAIN Pop = 1 .. Len(nest) - 1
             /\ \A k \in 1 .. Len(nest) - 1 : Pop[k] = nest[k]
  <2>1. Pop = SubSeq(nest, 1, Len(nest) - 1)
    BY <1>2 DEF Pop, Front
  <2>2. Len(nest) \in Nat /\ Len(nest) > 0
    BY <1>2
  <2>3. /\ SubSeq(nest, 1, Len(nest) - 1) \in Seq(Kinds)
        /\ Len(SubSeq(nest, 1, Len(nest) - 1)) = Len(nest) - 1
        /\ \A k \in 1 .. Len(nest) - 1 : SubSeq(nest, 1, Len(nest) - 1)[k] = nest[k]
    <3>1. \A k \in 1 .. Len(nest) : nest[k] \in Kinds
      BY ElementOfSeq
    <3>2. 1 \in Int /\ Len(nest) - 1 \in Int
      BY <2>2
    <3>3. \A k \in 1 .. Len(nest) - 1 : nest[k] \in Kinds
      BY <2>2, <3>1
    <3>4. /\ SubSeq(nest, 1, Len(nest) - 1) \in Seq(Kinds)
          /\ Len(SubSeq(nest, 1, Len(nest) - 1))
               = IF 1 <= Len(nest) - 1 THEN Len(nest) - 1 - 1 + 1 ELSE 0
          /\ \A k \in 1 .. Len(nest) - 1 - 1 + 1 :
               SubSeq(nest, 1, Len(nest) - 1)[k] = nest[1 + k - 1]
      BY <3>2, <3>3, SubSeqProperties
    <3>5. Len(SubSeq(nest, 1, Len(nest) - 1)) = Len(nest) - 1
      <4> DEFINE len == Len(nest)
                 n == Len(SubSeq(nest, 1, Len(nest) - 1))
      <4>1. len \in Nat /\ len > 0
        BY <2>2
      <4>2. n = IF 1 <= len - 1 THEN len - 1 - 1 + 1 ELSE 0
        BY <3>4
      <4> HIDE DEF n, len
      <4>3. n = len - 1
        BY <4>1, <4>2
      <4> QED BY <4>3 DEF n, len
    <3>6. ASSUME NEW k \in 1 .. Len(nest) - 1 PROVE SubSeq(nest, 1, Len(nest) - 1)[k] = nest[k]
      <4>1. k \in 1 .. Len(nest) - 1 - 1 + 1 /\ 1 + k - 1 = k
        BY <2>2
      <4> QED BY <3>4, <4>1, Zenon
    <3> QED BY <3>4, <3>5, <3>6
  <2> QED BY <2>1, <2>2, <2>3
<1> QED BY <1>1, <1>2

\* A rule that changes neither the nesting nor a stack.
LEMMA NestingSame ==
  ASSUME Nesting, UNCHANGED <<nest, state, mat_stack, ign_stack, matrices>>
  PROVE  Nesting'
  BY DEF Nesting, NestingAt, AllGroups, Open

\* A group within what is open.
LEMMA NestingPushGroup ==
  ASSUME LexTypeOK, Nesting, nest' = Push("group"), UNCHANGED <<state, matrices>>,
         state \in {"INITIAL", "mat", "ign"},
         mat_stack' = IF state = "mat" THEN mat_stack + 1 ELSE mat_stack,
         ign_stack' = IF state = "ign" THEN ign_stack + 1 ELSE ign_stack
  PROVE  Nesting'
<1>1. /\ DOMAIN nest' = 1 .. Len(nest) + 1 /\ Len(nest') = Len(nest) + 1
      /\ nest'[Len(nest) + 1] = "group" /\ DOMAIN nest = 1 .. Len(nest) /\ Len(nest) \in Nat
      /\ \A k \in 1 .. Len(nest) : nest'[k] = nest[k]
      /\ mat_stack \in Nat /\ ign_stack \in Nat
  BY PushedPopped DEF LexTypeOK, Kinds
<1>2. \A k \in DOMAIN nest' : k = Len(nest) + 1 \/ k \in DOMAIN nest
  BY <1>1
<1>3. \A j, k \in DOMAIN nest' : nest'[j] # "group" /\ nest'[k] # "group" => j = k
  BY <1>1, <1>2 DEF Nesting
<1>4. AllGroups' => state' = "INITIAL"
  BY <1>1 DEF Nesting, AllGroups
<1>5. ~matrices' /\ ~Open({"array"})' => mat_stack' = 0
  <2>1. Open({"array"})' <=> Open({"array"})
    BY <1>1, <1>2 DEF Open
  <2>2. CASE state # "mat"
    BY <2>1, <2>2 DEF Nesting
  <2>3. CASE state = "mat"
    <3>1. PICK k \in DOMAIN nest : nest[k] # "group" /\ NestingAt(k)
      BY <2>3, StateOfNest
    <3>2. nest[k] \in Kinds
      BY DEF LexTypeOK
    <3>3. matrices \/ nest[k] = "array"
      BY <2>3, <3>1, <3>2 DEF NestingAt, Kinds, Tables
    <3> QED BY <2>1, <3>3 DEF Open
  <2> QED BY <2>2, <2>3
<1>6. ASSUME NEW k \in DOMAIN nest' PROVE NestingAt(k)'
  <2>1. CASE k = Len(nest) + 1
    BY <1>1, <2>1 DEF NestingAt
  <2>2. CASE k \in DOMAIN nest
    <3>1. NestingAt(k)
      BY <2>2 DEF Nesting
    <3>2. nest'[k] = nest[k] /\ k \in Nat
      BY <1>1, <2>2
    <3> QED BY <1>1, <3>1, <3>2 DEF NestingAt
  <2> QED BY <1>2, <2>1, <2>2
<1> QED BY <1>3, <1>4, <1>5, <1>6 DEF Nesting

\* The first construct that is not a group.
LEMMA NestingPush ==
  ASSUME LexTypeOK, AllGroups, NEW kind \in Kinds \ {"group"}, nest' = Push(kind),
         \A k : k = Len(nest) + 1 => NestingAt(k)',
         ~matrices' /\ kind # "array" => mat_stack' = 0
  PROVE  Nesting'
<1>1. /\ DOMAIN nest' = 1 .. Len(nest) + 1
      /\ nest'[Len(nest) + 1] = kind /\ DOMAIN nest = 1 .. Len(nest) /\ Len(nest) \in Nat
      /\ \A k \in 1 .. Len(nest) : nest'[k] = "group"
  BY PushedPopped DEF LexTypeOK, AllGroups
<1>2. \A k \in DOMAIN nest' : k = Len(nest) + 1 \/ k \in DOMAIN nest
  BY <1>1
<1>3. Len(nest) + 1 \in DOMAIN nest'
  BY <1>1
<1>4. \A k \in DOMAIN nest : NestingAt(k)'
  BY <1>1 DEF NestingAt
<1>5. Open({"array"})' <=> kind = "array"
  BY <1>1, <1>2, <1>3 DEF Open
<1>6. ~AllGroups'
  BY <1>1, <1>3 DEF AllGroups
<1>7. \A j, k \in DOMAIN nest' : nest'[j] # "group" /\ nest'[k] # "group" => j = k
  BY <1>1, <1>2
<1>8. \A k \in DOMAIN nest' : NestingAt(k)'
  BY <1>2, <1>4
<1> QED BY <1>5, <1>6, <1>7, <1>8 DEF Nesting

\* A group ends within what is open.
LEMMA NestingPopGroup ==
  ASSUME LexTypeOK, Nesting, nest # <<>>, nest[Len(nest)] = "group", nest' = Pop,
         UNCHANGED <<state, matrices>>,
         mat_stack' = IF state = "mat" THEN mat_stack - 1 ELSE mat_stack,
         ign_stack' = IF state = "ign" THEN ign_stack - 1 ELSE ign_stack
  PROVE  Nesting'
<1>1. /\ DOMAIN nest' = 1 .. Len(nest) - 1 /\ Len(nest') = Len(nest) - 1 /\ Len(nest) > 0
      /\ DOMAIN nest = 1 .. Len(nest) /\ Len(nest) \in Nat
      /\ \A k \in 1 .. Len(nest) - 1 : nest'[k] = nest[k]
      /\ mat_stack \in Nat /\ ign_stack \in Nat
  BY PushedPopped DEF LexTypeOK, Kinds
<1>2. DOMAIN nest' \subseteq DOMAIN nest /\ \A k \in DOMAIN nest : k \in DOMAIN nest' \/ k = Len(nest)
  BY <1>1
<1>3. \A j, k \in DOMAIN nest' : nest'[j] # "group" /\ nest'[k] # "group" => j = k
  BY <1>1, <1>2 DEF Nesting
<1>4. AllGroups' => state' = "INITIAL"
  BY <1>1, <1>2 DEF Nesting, AllGroups
<1>5. ~matrices' /\ ~Open({"array"})' => mat_stack' = 0
  <2>1. Open({"array"})' <=> Open({"array"})
    BY <1>1, <1>2 DEF Open
  <2>2. CASE state # "mat"
    BY <2>1, <2>2 DEF Nesting
  <2>3. CASE state = "mat"
    <3>1. PICK k \in DOMAIN nest : nest[k] # "group" /\ NestingAt(k)
      BY <2>3, StateOfNest
    <3>2. nest[k] \in Kinds
      BY DEF LexTypeOK
    <3>3. matrices \/ nest[k] = "array"
      BY <2>3, <3>1, <3>2 DEF NestingAt, Kinds, Tables
    <3> QED BY <2>1, <3>3 DEF Open
  <2> QED BY <2>2, <2>3
<1>6. ASSUME NEW k \in DOMAIN nest' PROVE NestingAt(k)'
  <2>1. NestingAt(k) /\ k \in DOMAIN nest
    BY <1>2 DEF Nesting
  <2>2. nest'[k] = nest[k] /\ k \in Nat /\ k # Len(nest)
    BY <1>1
  <2> QED BY <1>1, <2>1, <2>2 DEF NestingAt
<1> QED BY <1>3, <1>4, <1>5, <1>6 DEF Nesting

\* The construct ends, and the state is INITIAL again.
LEMMA NestingPop ==
  ASSUME LexTypeOK, Nesting, nest # <<>>, nest[Len(nest)] # "group", nest' = Pop,
         state' = "INITIAL", ~matrices' => mat_stack' = 0
  PROVE  Nesting' /\ AllGroups'
<1>1. /\ DOMAIN nest' = 1 .. Len(nest) - 1 /\ Len(nest) > 0
      /\ DOMAIN nest = 1 .. Len(nest) /\ Len(nest) \in Nat
      /\ \A k \in 1 .. Len(nest) - 1 : nest'[k] = nest[k]
  BY PushedPopped DEF LexTypeOK, Kinds
<1>2. ASSUME NEW k \in DOMAIN nest' PROVE nest'[k] = "group"
  <2>1. k \in DOMAIN nest /\ Len(nest) \in DOMAIN nest /\ k # Len(nest) /\ nest'[k] = nest[k]
    BY <1>1
  <2> QED BY <2>1 DEF Nesting
<1> QED BY <1>2 DEF Nesting, NestingAt, AllGroups

\* A text that opens and closes nothing where it stands.
Inert(t) ==
  \/ t \in {"a", "cr", "amp"}
  \/ state = "cmt" /\ t # "newline" /\ t # "begin"
  \/ state = "dim" /\ t \in Chars \cup (Commands \ {"begin"})
  \/ state = "ign" /\ t \in (Chars \cup Commands) \ ({"lbrace", "rbrace", "begin"} \cup Opening)

\* Every rule keeps the state and the stacks where plain formulas need them.
LEMMA NestingStep ==
  ASSUME LexTypeOK, Nesting, Next, plain'
  PROVE  Nesting'
<1>0. nest \in Seq(Kinds) /\ state \in States /\ mat_stack \in Nat /\ ign_stack \in Nat
  BY DEF LexTypeOK
<1>1. /\ state = "INITIAL" => ~Open(Tables) /\ ~Open({"array"}) /\ ~Skipping /\ AllGroups
      /\ state = "mat" => Open(Tables) /\ ~Skipping
      /\ state \in {"INITIAL", "mat"} => ~Open({"comment"}) /\ ~Open({"dim", "dim_group"})
                                         /\ ~Open({"text"})
      /\ state = "ign" => Skipping /\ Open({"text"}) /\ ~Open({"comment"})
                          /\ ~Open({"dim", "dim_group"})
      /\ state = "dim" => Skipping /\ Open({"dim", "dim_group"}) /\ ~Open({"comment"})
      /\ state = "cmt" => Skipping /\ Open({"comment"})
      /\ ~matrices /\ state = "INITIAL" => mat_stack = 0
  BY StateOfNest DEF AllGroups, Open, Tables, Nesting
<1>2. ASSUME state # "INITIAL"
      PROVE  \E k \in DOMAIN nest :
               nest[k] # "group" /\ NestingAt(k) /\ \A j \in DOMAIN nest : j # k => nest[j] = "group"
  BY <1>2, StateOfNest
<1>3. ASSUME NEW t, Reads(t)
      PROVE  nest' = NestAfter(t) /\ IsPlain(t) /\ (t # "begin" => matrices' = matrices)
  <2>1. IsPlain(t)
    BY <1>3, PlainBefore
  <2>2. matrices' = (matrices \/ t = "begin")
    BY <1>3 DEF Reads
  <2>3. matrices \in BOOLEAN
    BY DEF LexTypeOK
  <2>4. t # "begin" => matrices' = matrices
    BY <2>2, <2>3, Zenon
  <2> QED BY <1>3, <2>1, <2>4 DEF Reads
<1>4. ASSUME NEW t, Reads(t),
             Inert(t), UNCHANGED <<state, mat_stack, ign_stack>>
      PROVE  Nesting'
  <2>1. nest' = nest
    BY <1>0, <1>1, <1>3, <1>4 DEF Inert, NestAfter, KindOf, Chars, Commands, Units, Opening, States
  <2>2. matrices' = matrices
    BY <1>3, <1>4 DEF Inert, Chars, Commands, Opening
  <2> QED BY <1>4, <2>1, <2>2, NestingSame
<1>5. CASE Letter \/ NewRow \/ Ampersand
  <2>1. UNCHANGED <<state, mat_stack, ign_stack>>
    BY <1>5 DEF Letter, NewRow, Ampersand, Gives, Keep
  <2>2. Reads("a") \/ Reads("cr") \/ Reads("amp")
    BY <1>5 DEF Letter, NewRow, Ampersand
  <2>3. Inert("a") /\ Inert("cr") /\ Inert("amp")
    BY DEF Inert
  <2> QED BY <1>4, <2>1, <2>2, <2>3
<1>6. CASE OpenBrace
  <2>1. Reads("lbrace") /\ state \in {"INITIAL", "mat"} /\ UNCHANGED <<state, ign_stack>>
        /\ mat_stack' = IF state = "mat" THEN mat_stack + 1 ELSE mat_stack
    BY <1>6 DEF OpenBrace, Active, Gives
  <2>2. nest' = NestAfter("lbrace") /\ matrices' = matrices
    BY <1>3, <2>1
  <2>3. NestAfter("lbrace") = Push("group")
    BY <1>1, <2>1 DEF NestAfter, KindOf, Opening, Push
  <2> QED BY <2>1, <2>2, <2>3, NestingPushGroup
<1>7. CASE CloseBrace
  <2>1. Reads("rbrace") /\ state = "INITIAL" /\ UNCHANGED <<state, ign_stack, mat_stack>>
    BY <1>7 DEF CloseBrace, Gives, Keep
  <2>2. nest' = Pop /\ matrices' = matrices /\ IsPlain("rbrace")
    <3>1. nest' = NestAfter("rbrace") /\ matrices' = matrices /\ IsPlain("rbrace")
      BY <1>3, <2>1
    <3>2. NestAfter("rbrace") = Pop
      BY <1>1, <2>1 DEF NestAfter, KindOf, Opening, Units
    <3> QED BY <3>1, <3>2
  <2>3. nest # <<>> /\ nest[Len(nest)] = "group"
    BY <1>0, <1>1, <2>1, <2>2 DEF IsPlain, InTop, Units, AllGroups
  <2> QED BY <2>1, <2>2, <2>3, NestingPopGroup
<1>8. CASE CloseInTable
  <2>1. /\ Reads("rbrace") /\ state = "mat" /\ mat_stack' = mat_stack - 1
        /\ UNCHANGED ign_stack
        /\ state' = IF mat_stack - 1 = 0 THEN "INITIAL" ELSE "mat"
    BY <1>8 DEF CloseInTable, Gives
  <2>2. nest' = Pop /\ matrices' = matrices /\ IsPlain("rbrace")
    <3>1. nest' = NestAfter("rbrace") /\ matrices' = matrices /\ IsPlain("rbrace")
      BY <1>3, <2>1
    <3>2. NestAfter("rbrace") = Pop
      BY <1>1, <2>1 DEF NestAfter, KindOf, Opening, Units
    <3> QED BY <3>1, <3>2
  <2>3. nest # <<>> /\ nest[Len(nest)] \in {"group", "array"} /\ Len(nest) \in DOMAIN nest
    BY <1>0, <1>1, <2>1, <2>2 DEF IsPlain, InTop, Units
  <2>4. PICK k \in DOMAIN nest :
          nest[k] # "group" /\ NestingAt(k) /\ \A j \in DOMAIN nest : j # k => nest[j] = "group"
    BY <1>2, <2>1
  <2>5. nest[k] \in {"array", "matrix"} /\ k \in 1 .. Len(nest) /\ Len(nest) \in Nat
    BY <1>0, <2>1, <2>4 DEF NestingAt, Kinds, Tables
  <2>6. CASE k = Len(nest)
    <3>1. nest[k] = "array" /\ ~matrices /\ mat_stack = 1
      BY <1>0, <2>3, <2>4, <2>5, <2>6 DEF NestingAt
    <3> QED BY <2>1, <2>2, <2>3, <2>6, <3>1, NestingPop
  <2>7. CASE k # Len(nest)
    <3>1. nest[Len(nest)] = "group" /\ mat_stack - 1 # 0
      BY <1>0, <2>3, <2>4, <2>5, <2>7 DEF NestingAt
    <3> QED BY <2>1, <2>2, <2>3, <3>1, NestingPopGroup
  <2> QED BY <2>6, <2>7
<1>9. ASSUME NEW t \in Texts, BeginTable(t) PROVE Nesting'
  <2>1. /\ Reads(t) /\ t \in {"begin", "array_lbrace"} /\ state \in {"INITIAL", "mat"}
        /\ mat_stack' = mat_stack + 1 /\ state' = "mat" /\ UNCHANGED ign_stack
    BY <1>9 DEF BeginTable, Active, Gives
  <2>2. ~Open(Tables) /\ (t = "array_lbrace" => ~matrices)
    BY <1>1, <1>3, <2>1 DEF IsPlain, Units, KindOf, Opening
  <2>3. state = "INITIAL" /\ AllGroups
    BY <1>1, <2>1, <2>2
  <2> DEFINE kind == KindOf[t]
  <2>4. nest' = Push(kind) /\ kind \in Kinds \ {"group"}
        /\ (t = "begin" => kind = "matrix") /\ (t = "array_lbrace" => kind = "array")
    BY <1>1, <1>3, <2>1 DEF NestAfter, KindOf, Opening, Kinds, Tables
  <2>5. t = "begin" => matrices'
    BY <2>1, Zenon DEF Reads
  <2>6. t = "array_lbrace" => ~matrices' /\ mat_stack = 0
    BY <1>1, <1>3, <2>1, <2>2, <2>3
  <2> HIDE DEF kind
  <2>7. /\ Len(nest') = Len(nest) + 1 /\ nest'[Len(nest) + 1] = kind /\ Len(nest) \in Nat
    BY <1>0, <2>4, PushedPopped
  <2>8. \A k : k = Len(nest) + 1 => NestingAt(k)'
    BY <1>0, <2>1, <2>4, <2>5, <2>6, <2>7 DEF NestingAt
  <2>9. ~matrices' /\ kind # "array" => mat_stack' = 0
    BY <2>1, <2>4, <2>5
  <2> QED BY <2>3, <2>4, <2>8, <2>9, NestingPush
<1>10. CASE EndTable
  <2>1. Reads("end") /\ state \in {"INITIAL", "mat"} /\ state' = "INITIAL"
        /\ UNCHANGED <<mat_stack, ign_stack>>
    BY <1>10 DEF EndTable, Active, Gives, Keep
  <2>2. nest' = Pop /\ matrices' = matrices /\ IsPlain("end")
    <3>1. nest' = NestAfter("end") /\ matrices' = matrices /\ IsPlain("end")
      BY <1>3, <2>1
    <3>2. NestAfter("end") = Pop
      BY <1>1, <2>1 DEF NestAfter, KindOf, Opening, Units
    <3> QED BY <3>1, <3>2
  <2>3. nest # <<>> /\ nest[Len(nest)] = "matrix"
    BY <1>0, <1>1, <2>1, <2>2 DEF IsPlain, InTop, Units
  <2>4. matrices
    BY <1>0, <2>3 DEF Nesting, NestingAt
  <2> QED BY <2>1, <2>2, <2>3, <2>4, NestingPop
<1>11. CASE BeginIgnored
  <2>1. Reads("text_lbrace") /\ state \in {"INITIAL", "mat"} /\ state' = "ign"
        /\ ign_stack' = ign_stack + 1 /\ UNCHANGED mat_stack
    BY <1>11 DEF BeginIgnored, Active, Gives
  <2>2. ~Open(Tables)
    BY <1>1, <1>3, <2>1 DEF IsPlain, Units, KindOf, Opening
  <2>3. state = "INITIAL" /\ AllGroups
    BY <1>1, <2>1, <2>2
  <2>4. nest' = Push("text") /\ "text" \in Kinds \ {"group"} /\ matrices' = matrices
    <3>1. nest' = NestAfter("text_lbrace") /\ matrices' = matrices
      BY <1>3, <2>1
    <3>2. NestAfter("text_lbrace") = Push("text")
      BY <1>1, <2>1 DEF NestAfter, KindOf, Opening, Push
    <3> QED BY <3>1, <3>2 DEF Kinds
  <2>5. ign_stack = 0
    BY <1>0, <2>3 DEF LexTypeOK
  <2>6. Len(nest') = Len(nest) + 1 /\ nest'[Len(nest) + 1] = "text" /\ Len(nest) \in Nat
    BY <1>0, <2>4, PushedPopped
  <2>7. \A k : k = Len(nest) + 1 => NestingAt(k)'
    BY <2>1, <2>5, <2>6 DEF NestingAt
  <2>8. ~matrices' => mat_stack' = 0
    BY <1>1, <2>1, <2>3, <2>4
  <2> QED BY <2>3, <2>4, <2>7, <2>8, NestingPush
<1>12. ASSUME NEW t \in Texts, IgnoredOpen(t) PROVE Nesting'
  <2>1. Reads(t) /\ t \in {"lbrace"} \cup Opening /\ state = "ign" /\ state' = "ign"
        /\ ign_stack' = ign_stack + 1 /\ UNCHANGED mat_stack
    BY <1>12 DEF IgnoredOpen, Gives
  <2>2. nest' = Push("group") /\ matrices' = matrices
    BY <1>1, <1>3, <2>1 DEF NestAfter, Opening
  <2> QED BY <2>1, <2>2, NestingPushGroup
<1>13. CASE IgnoredClose
  <2>1. /\ Reads("rbrace") /\ state = "ign" /\ UNCHANGED mat_stack
        /\ ign_stack' = ign_stack - 1
        /\ state' = IF ign_stack - 1 = 0 THEN "INITIAL" ELSE "ign"
    BY <1>13 DEF IgnoredClose, Gives
  <2>2. nest' = Pop /\ matrices' = matrices
    BY <1>1, <1>3, <2>1 DEF NestAfter, Opening
  <2>3. PICK k \in DOMAIN nest :
          nest[k] # "group" /\ NestingAt(k) /\ \A j \in DOMAIN nest : j # k => nest[j] = "group"
    BY <1>2, <2>1
  <2>4. nest[k] = "text" /\ k \in 1 .. Len(nest) /\ Len(nest) \in Nat /\ Len(nest) \in DOMAIN nest
        /\ nest # <<>> /\ ign_stack = Len(nest) - k + 1 /\ ~Open({"array"})
    <3>1. nest[k] = "text"
      BY <1>0, <2>1, <2>3 DEF NestingAt, Kinds, Tables
    <3>2. ~Open({"array"})
      BY <2>3, <3>1 DEF Open
    <3> QED BY <1>0, <2>3, <3>1, <3>2 DEF NestingAt
  <2>5. CASE k = Len(nest)
    <3>1. ~matrices' => mat_stack' = 0
      BY <2>1, <2>2, <2>4 DEF Nesting
    <3> QED BY <2>1, <2>2, <2>3, <2>4, <2>5, <3>1, NestingPop
  <2>6. CASE k # Len(nest)
    <3>1. nest[Len(nest)] = "group" /\ ign_stack - 1 # 0
      BY <2>3, <2>4, <2>6
    <3> QED BY <2>1, <2>2, <2>4, <3>1, NestingPopGroup
  <2> QED BY <2>5, <2>6
<1>14. ASSUME NEW t \in Texts, Ignored(t) \/ InDimension(t) \/ InComment(t) PROVE Nesting'
  <2>1. /\ Reads(t) /\ UNCHANGED <<state, mat_stack, ign_stack>>
        /\ \/ state = "ign" /\ t \in (Chars \cup Commands) \ ({"lbrace", "rbrace"} \cup Opening)
           \/ state = "dim" /\ t \in Chars \cup (Commands \ {"begin"})
           \/ state = "cmt" /\ t \in Chars \cup Commands
    BY <1>14 DEF Ignored, InDimension, InComment, Gives, Keep
  <2>2. CASE t # "begin"
    <3>1. Inert(t)
      BY <2>1, <2>2 DEF Inert, Chars, Commands, Opening
    <3> QED BY <1>4, <2>1, <3>1
  <2>3. CASE t = "begin"
    <3>1. nest' = nest /\ state \in {"ign", "cmt"}
      BY <1>0, <1>1, <1>3, <2>1, <2>3 DEF NestAfter, Chars, Opening, Units
    <3>2. matrices'
      BY <2>1, <2>3, Zenon DEF Reads
    <3>3. AllGroups' <=> AllGroups
      BY <3>1 DEF AllGroups
    <3>4. ASSUME NEW k \in DOMAIN nest PROVE NestingAt(k)'
      <4>1. NestingAt(k) /\ nest[k] \notin Tables
        BY <1>1, <3>1 DEF Nesting, NestingAt, Tables
      <4> QED BY <2>1, <3>1, <4>1 DEF NestingAt, Tables
    <3> QED BY <2>1, <3>1, <3>2, <3>3, <3>4 DEF Nesting
  <2> QED BY <2>2, <2>3
<1>15. ASSUME NEW t \in Texts, BeginDimension(t) \/ (BeginComment /\ t = "percent")
       PROVE  Nesting'
  <2> DEFINE kind == KindOf[t]
  <2>1. /\ Reads(t) /\ t \in {"hspace_lbrace", "hskip", "above", "percent"}
        /\ state \in {"INITIAL", "mat"} /\ UNCHANGED <<mat_stack, ign_stack>>
        /\ state' = IF t = "percent" THEN "cmt" ELSE "dim"
    BY <1>15 DEF BeginDimension, BeginComment, Active, Gives, Keep
  <2>2. ~Open(Tables)
    BY <1>1, <1>3, <2>1 DEF IsPlain, Units, KindOf, Opening
  <2>3. state = "INITIAL" /\ AllGroups
    BY <1>1, <2>1, <2>2
  <2>4. nest' = Push(kind) /\ kind \in {"dim", "dim_group", "comment"} /\ matrices' = matrices
        /\ (t = "percent" <=> kind = "comment")
    BY <1>1, <1>3, <2>1 DEF NestAfter, KindOf, Opening
  <2> HIDE DEF kind
  <2>5. kind \in Kinds \ {"group"}
    BY <2>4 DEF Kinds
  <2>6. Len(nest') = Len(nest) + 1 /\ nest'[Len(nest) + 1] = kind /\ Len(nest) \in Nat
    BY <1>0, <2>4, <2>5, PushedPopped
  <2>7. \A k : k = Len(nest) + 1 => NestingAt(k)'
    BY <2>1, <2>4, <2>6 DEF NestingAt
  <2>8. ~matrices' => mat_stack' = 0
    BY <1>1, <2>1, <2>3, <2>4
  <2> QED BY <2>3, <2>4, <2>5, <2>7, <2>8, NestingPush
<1>16. ASSUME NEW t \in Texts, Unit(t) PROVE Nesting'
  <2>1. Reads(t) /\ state = "dim" /\ state' = "INITIAL" /\ t \in Units
        /\ UNCHANGED <<mat_stack, ign_stack>>
    BY <1>16 DEF Unit, Gives, Keep
  <2>2. nest' = Pop /\ matrices' = matrices
    BY <1>1, <1>3, <2>1 DEF NestAfter, Units
  <2>3. PICK k \in DOMAIN nest :
          nest[k] # "group" /\ NestingAt(k) /\ \A j \in DOMAIN nest : j # k => nest[j] = "group"
    BY <1>2, <2>1
  <2>4. nest[k] \in {"dim", "dim_group"} /\ k = Len(nest) /\ nest # <<>> /\ ~Open({"array"})
    <3>1. nest[k] \in {"dim", "dim_group"}
      BY <1>0, <2>1, <2>3 DEF NestingAt, Kinds, Tables
    <3>2. ~Open({"array"})
      BY <2>3, <3>1 DEF Open
    <3> QED BY <1>0, <2>3, <3>1, <3>2 DEF NestingAt
  <2>5. ~matrices' => mat_stack' = 0
    BY <2>1, <2>2, <2>4 DEF Nesting
  <2> QED BY <2>1, <2>2, <2>3, <2>4, <2>5, NestingPop
<1>17. CASE Newline
  <2>1. Reads("newline") /\ UNCHANGED <<mat_stack, ign_stack>>
    BY <1>17 DEF Newline, Keep
  <2>2. nest \in {<<>>, <<"comment">>} /\ nest' = <<>> /\ matrices' = matrices
    BY <1>3, <2>1 DEF IsPlain, NestAfter
  <2>3. state \in {"INITIAL", "cmt"} /\ ~Open({"array"})
    <3>1. ~Open({"text"}) /\ ~Open({"dim", "dim_group"}) /\ ~Open(Tables) /\ ~Open({"array"})
      BY <2>2 DEF Open, Tables
    <3> QED BY <1>0, <1>1, <3>1 DEF States
  <2>4. state' = "INITIAL"
    BY <1>17, <2>3 DEF Newline, Active, Gives
  <2>5. ~matrices' => mat_stack' = 0
    BY <2>1, <2>2, <2>3 DEF Nesting
  <2> QED BY <2>2, <2>4, <2>5 DEF Nesting, AllGroups, Open
<1>18. CASE BeginComment
  <2>1. "percent" \in Texts
    BY DEF Texts, Chars
  <2> QED BY <1>15, <1>18, <2>1
<1> QED
  BY <1>5, <1>6, <1>7, <1>8, <1>9, <1>10, <1>11, <1>12, <1>13, <1>14, <1>15, <1>16, <1>17, <1>18
  DEF Next, Lex

\* As long as the formulas are plain, every text gives the token it stands for,
\* however deep they nest and however many were read: two counters are enough.
THEOREM LexTokensOfText == Spec => []TokensOfText
<1>1. Init => PlainInv
  <2> SUFFICES ASSUME Init PROVE PlainInv
    OBVIOUS
  <2>1. plain \in BOOLEAN /\ matrices \in BOOLEAN
    BY DEF Init
  <2>2. LexTypeOK
    BY <2>1 DEF Init, LexTypeOK, States, Tokens
  <2>3. Nesting
    BY DEF Init, Nesting, AllGroups
  <2>4. token = due
    BY DEF Init
  <2> QED BY <2>2, <2>3, <2>4 DEF PlainInv
<1>2. PlainInv /\ LexTypeOK' /\ [Next]_vars => PlainInv'
  <2> SUFFICES ASSUME PlainInv, LexTypeOK', [Next]_vars PROVE PlainInv'
    OBVIOUS
  <2>1. ASSUME Next, plain' PROVE Nesting' /\ token' = due'
    <3>1. PICK t \in Texts : Reads(t)
      BY <2>1, StepReads DEF Next
    <3>2. plain
      BY <2>1, <3>1, PlainBefore
    <3>3. LexTypeOK /\ Nesting
      BY <3>2 DEF PlainInv
    <3> QED BY <2>1, <3>3, TokenIsDue, NestingStep
  <2>2. ASSUME UNCHANGED vars, plain' PROVE Nesting' /\ token' = due'
    <3>1. UNCHANGED <<nest, state, mat_stack, ign_stack, matrices, token, due, plain>>
      BY <2>2 DEF vars, lexVars, textVars
    <3>2. Nesting /\ token = due
      BY <2>2, <3>1 DEF PlainInv
    <3> QED BY <3>1, <3>2, NestingSame
  <2> QED BY <2>1, <2>2 DEF PlainInv
<1>3. PlainInv => TokensOfText
  BY DEF PlainInv, TokensOfText
<1> QED BY <1>1, <1>2, <1>3, LexTypeCorrect, PTL DEF Spec

=============================================================================
