----------------------------- MODULE Formatter -----------------------------
(***************************************************************************)
(* clux format: the tokens that src/src/parser/fmt_*.c writes for a tree,  *)
(* and what the parser makes of them.  Layout and comments are left out.   *)
(*                                                                         *)
(* A template is what a case of render_stmt, render_expr or                *)
(* render_pat_atom writes: "#2" is the second subtree as it is, "@2" in    *)
(* parentheses if it does not stand as an operand of its own, and "!2"     *)
(* what is in the second subtree if it is there at all.                    *)
(***************************************************************************)
EXTENDS Parser

CONSTANT Files   \* what the file may hold at first: sequences of tokens

VARIABLE file

Definitions ==
  [Var |-> <<"var", "#1", "#2", "=", "#3", ";">>, Using |-> <<"using", "#1", "#2", "=", "#3", ";">>,
   TypeDef |-> <<"type", "#1", "#2", "=", "#3", ";">>,
   Enum |-> <<"enum", "#1", "#2", ":", "#3", "{", "#4", "}">>, Variant |-> <<"#1", "=", "#2">>,
   TypeOf |-> <<":", "#1">>, RawTypeOf |-> <<":", "#1">>, PipeTypeOf |-> <<":", "#1">>]

Interfaces ==
  [Interface |-> <<"interface", "#1", "#2", "{", "#3", "}">>,
   WantedVar |-> <<"var", "#1", ":", "#2", ";">>,
   WantedFunc |-> <<"func", "#1", "(", "#2", ")", ":", "!3", ";">>,
   Inherit |-> <<"...", "#1", ";">>]

Structs ==
  [Struct |-> <<"struct", "#1", "#2", "#3", "{", "#4", "}">>,
   Implements |-> <<"implements", "#1">>, Embed |-> <<"...", "#1", ";">>,
   Field |-> <<"#1", ":", "#2">>]

Unions ==
  [Union |-> <<"union", "#1", "#2", "{", "#3", "}">>, CUnion |-> <<"cunion", "#1", "{", "#2", "}">>]

Bitfields ==
  [Bitfield |-> <<"bitfield", "#1", ":", "#2", "{", "#3", "}">>, BitsField |-> <<"#1", ":", "#2", ";">>]

Externals ==
  [Import |-> <<"import", "#1", "from", "#2", ";">>,
   Reexport |-> <<"export", "*", "from", "#1", ";">>,
   ExternLib |-> <<"extern", "lib", "#1", "from", "#2", "#3", ";">>,
   LibAssert |-> <<"assert", "(", "#1", ")">>,
   ExternVar |-> <<"extern", "var", "#1", "::", "#2", ":", "#3", ";">>,
   ExternCFunc |-> <<"extern", "cfunc", "#1", "::", "#2", "(", "#3", ")", ":", "#4", ";">>]

Branches ==
  [StaticAssert |-> <<"static_assert", "(", "#1", ",", "#2", ")", ";">>,
   ComptimeIf |-> <<"comptime", "if", "(", "#1", ")", "#2", "#3">>,
   If |-> <<"if", "(", "#1", ")", "#2", "#3">>,
   ComptimeElse |-> <<"else", "#1">>, Else |-> <<"else", "#1">>,
   Switch |-> <<"switch", "(", "#1", ")", "{", "#2", "#3", "}">>,
   Case |-> <<"(", "#1", ")", "->", "#2">>, Default |-> <<"default", "->", "#1">>]

Loops ==
  [While |-> <<"while", "(", "#1", ")", "#2">>,
   DoWhile |-> <<"do", "#1", "while", "(", "#2", ")", ";">>,
   For |-> <<"for", "(", "#1", "#2", ";", "#3", ")", "#4">>,
   Foreach |-> <<"foreach", "(", "#1", "of", "#2", ")", "#3">>,
   ForeachDecl |-> <<"var", "#1", "#2">>]

Jumps ==
  [Return |-> <<"return", "#1", ";">>, Break |-> <<"break", ";">>, Continue |-> <<"continue", ";">>,
   Block |-> <<"{", "#1", "}">>, Defer |-> <<"defer", "#1", "#2">>, ExprStmt |-> <<"#1", ";">>]

GenericForms ==
  [Generics |-> <<"[", "#1", "]">>, Generic |-> <<"#1", "#2", "#3", "#4">>,
   Valued |-> <<":", "comptime", "#1">>, Extends |-> <<"extends", "#1">>, DefaultArg |-> <<"=", "#1">>]

ParamForms ==
  [Param |-> <<"#1", ":", "#2">>, VariadicTail |-> <<"...">>, Pack |-> <<"...", "#1">>,
   BoundCapture |-> <<"(", "#1", "#2", "=", "#3", ")">>, Capture |-> <<"#1", "#2">>,
   Captures |-> <<"|", "#1", "|">>]

FuncForms ==
  [k \in {"FuncDef", "CFuncDef", "FuncLiteral"} |->
     <<IF k = "CFuncDef" THEN "cfunc" ELSE "func", "#1", "#2", "#3", "(", "#4", ")", ":", "#5", "#6">>]
  @@ "Test" :> <<"test", "#1", "#2">>

TypeForms ==
  [ScopeRef |-> <<"#1", "::", "#2">>, ArrayType |-> <<"[", "#1", "]", "#2">>,
   Tuple |-> <<"<", "#1", ">">>, Const |-> <<"const", "#1">>, Volatile |-> <<"volatile", "#1">>,
   Option |-> <<"?", "#1">>, SizeOf |-> <<"sizeof", "(", "#1", ")">>,
   AlignOf |-> <<"alignof", "(", "#1", ")">>, TypeOfExpr |-> <<"typeof", "(", "#1", ")">>,
   FuncType |-> <<"func", "#1", "(", "#2", ")", "->", "#3">>,
   CFuncType |-> <<"cfunc", "#1", "(", "#2", ")", "->", "#3">>]

PostfixForms ==
  [Call |-> <<"@1", "(", "#2", ")">>, Member |-> <<"@1", ".", "#2">>, Index |-> <<"@1", "[", "#2", "]">>]
  @@ ".!" :> <<"@1", ".", "!">> @@ ".?" :> <<"@1", ".", "?">>
  @@ ".&" :> <<"@1", ".", "&">> @@ ".*" :> <<"@1", ".", "*">>

ValueForms ==
  [Construct |-> <<".", "#1", "{", "#2", "}">>, SetField |-> <<".", "#1", "=", "#2">>,
   Fill |-> <<"<", "#1", ",", "#2", ">">>, Spread |-> <<"...", "#1">>,
   SliceType |-> <<"[", "]", "#1">>, Slice |-> <<"#1", "[", "#2", ":", "#3", "]">>,
   Make |-> <<"make", "(", "#1", ",", "#2", ")">>, Ptr |-> <<"*", "#1">>]

PatternForms ==
  [PatWild |-> <<"?">>, PatOr |-> <<"(", "#1", "|", "#2", ")">>,
   PatAnd |-> <<"(", "#1", "&", "#2", ")">>, PatPtr |-> <<"*", "#1">>,
   PatAnyPtr |-> <<"?", "*", "#1">>, PatSlice |-> <<"[", "]", "#1">>,
   PatAnyTuple |-> <<"<", "?", ">">>, PatTuple |-> <<"<", "#1", ">">>,
   PatFunc |-> <<"func", "(", "#1", ")", "->", "#2">>, PatConst |-> <<"const", "#1">>,
   PatVolatile |-> <<"volatile", "#1">>, PatName |-> <<"#1", "#2", "#3">>,
   Qualified |-> <<"::", "#1">>,
   PatArgs |-> <<"[", "#1", "]">>]

Template == Definitions @@ Interfaces @@ Structs @@ Unions @@ Bitfields @@ Externals @@ Branches
            @@ Loops @@ Jumps @@ GenericForms @@ ParamForms @@ FuncForms @@ TypeForms @@ PostfixForms
            @@ ValueForms @@ PatternForms

Between == [Patterns |-> <<",">>, Variants |-> <<",">>, Interfaces |-> <<"&">>,
            GenericList |-> <<",">>, CaptureList |-> <<",">>, Params |-> <<",">>,
            CParams |-> <<",">>, ParamItems |-> <<",">>, Elems |-> <<",">>, Inits |-> <<",">>,
            Args |-> <<",">>, Indices |-> <<",">>, TypeArgs |-> <<",">>, Pats |-> <<",">>,
            Fields |-> <<";">>, Stmts |-> <<>>, Cases |-> <<>>, Members |-> <<>>,
            Bits |-> <<>>, Wanted |-> <<>>]

PrefixOps == [Not |-> "!", Complement |-> "~", Negate |-> "-"]

\* How tightly a node holds what is around it.
NodePrec(t) == IF Kind(t) \in DOMAIN LeftPrec THEN LeftPrec[Kind(t)]
               ELSE IF Kind(t) \in DOMAIN PrefixOps THEN 23 ELSE 26

\* Mutant: on the right too an operator of the same level goes without.
NeedParenLeft(t, parent, right, bound) ==
  CASE Kind(t) = "Ternary" -> ~ (parent = "Ternary" /\ right)
    [] Kind(t) \in AssignOps -> ~ (parent \in AssignOps /\ right)
    [] OTHER -> NodePrec(t) < (IF right /\ parent \in DOMAIN LeftPrec THEN LeftPrec[parent] ELSE bound)

\* Whether an operand needs parentheses below `parent`.
NeedParen(t, parent, right, bound) ==
  CASE Kind(t) = "Ternary" -> ~ (parent = "Ternary" /\ right)
    [] Kind(t) \in AssignOps -> ~ (parent \in AssignOps /\ right)
    [] OTHER -> NodePrec(t) < bound

RECURSIVE Render(_), Joined(_, _), Filled(_, _)

Operand(t, parent, right, bound) ==
  IF NeedParen(t, parent, right, bound) THEN <<"(">> \o Render(t) \o <<")">> ELSE Render(t)

Joined(ts, sep) ==
  IF ts = <<>> THEN <<>>
  ELSE IF Len(ts) = 1 THEN Render(ts[1]) ELSE Render(ts[1]) \o sep \o Joined(Tail(ts), sep)

Slot == [s \in {"#1", "#2", "#3", "#4", "#5", "#6", "@1", "!3"} |->
           CASE s \in {"#1", "@1"} -> 1 [] s = "#2" -> 2 [] s \in {"#3", "!3"} -> 3
             [] s = "#4" -> 4 [] s = "#5" -> 5 [] s = "#6" -> 6]

Filled(template, t) ==
  IF template = <<>> THEN <<>>
  ELSE LET part == Head(template)
           kid  == Kid(t, Slot[part])
       IN (IF part \notin DOMAIN Slot THEN <<part>>
           ELSE IF kid = None THEN <<>>
           ELSE IF part = "@1" THEN Operand(kid, Kind(t), FALSE, 26)
           ELSE IF part = "!3" THEN Render(Kid(kid, 1))
           ELSE Render(kid)) \o Filled(Tail(template), t)

RECURSIVE Decorations(_)
Decorations(ds) ==
  IF ds = <<>> THEN <<>>
  ELSE <<"[", "[">> \o Render(Head(ds)) \o <<"]", "]">> \o Decorations(Tail(ds))

Render(t) ==
  CASE Kind(t) = "leaf" -> <<t[2]>>
    [] Kind(t) = "none" -> <<>>
    [] Kind(t) = "Decl" -> (IF Kid(t, 1) = None THEN <<>> ELSE <<"export">>)
                           \o Decorations(Kids(Kid(t, 2))) \o Render(Kid(t, 3))
    [] Kind(t) = "Decorated" -> Decorations(Kids(Kid(t, 1))) \o Render(Kid(t, 2))
                             \o (IF Kind(Kid(t, 2)) = "Field" THEN <<";">> ELSE <<>>)
    [] Kind(t) = "Comptime" ->
         (IF Kind(Kid(t, 1)) = "Foreach" THEN <<>> ELSE <<"comptime">>) \o Render(Kid(t, 1))
    [] Kind(t) = "PatArray" ->
         <<"[">> \o (IF Kid(t, 1) = None THEN <<"?">> ELSE Render(Kid(t, 1))) \o <<"]">>
         \o Render(Kid(t, 2))
    [] Kind(t) = "Ternary" ->
         Render(Kid(t, 1)) \o <<"?">> \o Operand(Kid(t, 2), "Ternary", FALSE, 0)
         \o <<":">> \o Operand(Kid(t, 3), "Ternary", TRUE, 0)
    [] Kind(t) \in AssignOps ->
         Operand(Kid(t, 1), Kind(t), FALSE, 0) \o <<Kind(t)>> \o Operand(Kid(t, 2), Kind(t), TRUE, 0)
    [] Kind(t) \in DOMAIN PrefixOps ->
         <<PrefixOps[Kind(t)]>> \o Operand(Kid(t, 1), Kind(t), FALSE, 23)
    [] Kind(t) \in DOMAIN LeftPrec ->
         Operand(Kid(t, 1), Kind(t), FALSE, LeftPrec[Kind(t)])
         \o (CASE Kind(t) = "<<" -> <<"<", "<">> [] Kind(t) = ">>" -> <<">", ">">>
               [] OTHER -> <<Kind(t)>>)
         \o (IF Kind(t) = "extends" THEN Render(Kid(t, 2))
             ELSE Operand(Kid(t, 2), Kind(t), TRUE, LeftPrec[Kind(t)] + 1))
    [] Kind(t) \in DOMAIN Between -> Joined(Kids(t), Between[Kind(t)])
    [] OTHER -> Filled(Template[Kind(t)], t)

\* The tokens of a program.  A number right before a `.` is not two tokens:
\* the lexer expects digits after the point.
Format(program) == Joined(Kids(program), <<>>)
Readable(tokens) == \A i \in 1..Len(tokens) - 1 : ~ (tokens[i] \in Ints /\ tokens[i + 1] = ".")
Read(tokens) == IF Readable(tokens) THEN Program(tokens) ELSE Err

(***************************************************************************)
(* The command: the file is read, parsed and written again.  One that does *)
(* not parse stays as it is.                                               *)
(***************************************************************************)
Written(tokens, tree) == IF tree = Err THEN tokens ELSE Format(tree)
Formatted(tokens)     == Written(tokens, Read(tokens))

Init == file \in Files
FormatFile == file' = Formatted(file)
Next == FormatFile
Spec == Init /\ [][Next]_file

-----------------------------------------------------------------------------
\* Formatting does not change the program: parsed again, the result is the
\* same tree (docs/whitepaper/12-tooling.md:32, fmt_expr.c:90).
Kept(tree) == Read(Written(file, tree)) = tree
FormatKeepsTree == Kept(Read(file))

(* Where it does change it: the tree lost parentheses that fmt_expr.c does *)
(* not write again, or a word that fmt_stmt.c and fmt_decl.c do not write. *)
Postfixes    == {"Call", "Member", "Index", "Slice", "ScopeRef", ".!", ".?", ".&", ".*"}
DotForms     == {"Member", ".!", ".?", ".&", ".*"}
FuncTypes    == {"FuncType", "CFuncType"}
TypePrefixes == {"Option", "Const", "Volatile", "Ptr", "SliceType", "ArrayType"} \cup FuncTypes
Operators    == DOMAIN LeftPrec \cup AssignOps \cup {"Ternary"}

\* How tightly a tree holds together with nothing written around it.
Hold(t) == CASE Kind(t) \in {"Ternary"} \cup AssignOps -> 0
             [] Kind(t) \in DOMAIN LeftPrec -> LeftPrec[Kind(t)]
             [] Kind(t) \in TypePrefixes \cup DOMAIN PrefixOps -> 23
             [] Kind(t) \in Postfixes -> 24
             [] OTHER -> 25

\* What the grammar asks of the parts that the formatter writes as they are.
Floor(kind, i) ==
  CASE kind = "Slice" /\ i = 1 -> 24
    [] kind \in {"Option", "Const", "Volatile", "Elems", "Interfaces", "Inherit"} -> 23
    [] kind \in {"Ptr", "SliceType", "RawTypeOf", "PipeTypeOf", "TypeArgs"}
       \/ (kind \in {"ArrayType", "Field"} /\ i = 2) \/ (kind = "Construct" /\ i = 1) -> 22
    [] kind = "Fill" /\ i = 2 -> 15
    [] kind \in {"TypeOf", "Valued", "DefaultArg", "ParamItems"}
       \/ (kind = "Ternary" /\ i = 1) \/ (kind \in {"Param", "WantedVar"} /\ i = 2)
       \/ (kind \in {"BoundCapture", "ExternVar"} \cup FuncTypes /\ i = 3)
       \/ (kind = "ExternCFunc" /\ i = 4)
       \/ (kind \in {"FuncDef", "CFuncDef", "FuncLiteral"} /\ i = 5) -> 1
    [] OTHER -> 0

RECURSIVE RightEdge(_), Loose(_)
RightEdge(t) == {Kind(t)} \cup (IF Kind(t) \in Operators \cup TypePrefixes \cup DOMAIN PrefixOps
                                THEN RightEdge(t[Len(t)]) ELSE {})

LosesParens(t) ==
  \/ \E i \in DOMAIN Kids(t) : Hold(Kid(t, i)) < Floor(Kind(t), i)
  \/ Kind(t) \in Postfixes /\ Kind(Kid(t, 1)) \in TypePrefixes
  \/ Kind(t) \in DotForms /\ Kind(Kid(t, 1)) = "leaf" /\ Kid(t, 1)[2] \in Ints
  \/ Kind(t) \in {"Elems", "SliceType"} /\ \E i \in DOMAIN Kids(t) : Kind(Kid(t, i)) \in Postfixes
  \/ Kind(t) \in Operators /\ RightEdge(Kid(t, 1)) \cap FuncTypes # {}
  \/ Kind(t) \in {"|", "&"} /\ "extends" \in RightEdge(Kid(t, 1))
  \/ Kind(t) \in {"Elems", "Fill"} /\ RightEdge(t[Len(t)]) \cap FuncTypes # {}
  \/ Kind(t) = "Inits" /\ \E i \in DOMAIN Kids(t) : Kind(Kid(t, i)) = "Tuple"
  \/ Kind(t) = "PatTuple" /\ Kid(t, 1) = <<"Pats", <<"PatWild">>>>

LosesWords(t) ==
  \/ Kind(t) = "For" /\ Kid(t, 1) = None
  \/ Kind(t) = "Comptime" /\ Kind(Kid(t, 1)) = "Foreach"
  \/ Kind(t) = "WantedFunc" /\ Kid(t, 3) = None
  \/ Kind(t) = "Decl" /\ Kid(t, 1) # None /\ Kids(Kid(t, 2)) # <<>>

Loose(t) == /\ Kind(t) # "leaf"
            /\ \/ LosesParens(t) \/ LosesWords(t)
               \/ \E i \in DOMAIN Kids(t) : Loose(Kid(t, i))

\* Everywhere else formatting keeps the tree: what needs parentheses as an
\* operand gets them, and no declaration, statement or word is lost
\* (need_paren, fmt_expr.c:245; render_stmt, fmt_stmt.c:103).
KeptOrLoose(tree) == Loose(tree) \/ Kept(tree)
FormatKeeps == KeptOrLoose(Read(file))

\* What operators mean without parentheses: the tree of a sequence of operands
\* with operators between splits at the last of its loosest operators, for
\* every operator and so at every level (infix_binding, parse_expr.c:53).
RECURSIVE Grouped(_)
Grouped(s) ==
  LET ops   == {i \in 2..Len(s) - 1 : s[i] \in DOMAIN LeftPrec}
      loose == {i \in ops : \A j \in ops : LeftPrec[s[i]] <= LeftPrec[s[j]]}
      last  == CHOOSE i \in loose : \A j \in loose : j <= i
  IN IF Len(s) = 1 THEN Leaf(s[1])
     ELSE <<s[last], Grouped(SubSeq(s, 1, last - 1)), Grouped(SubSeq(s, last + 1, Len(s)))>>

\* `<<` and `>>` are two tokens.
RECURSIVE Shifts(_)
Shifts(s) == IF Len(s) < 2 THEN s
             ELSE IF s[1] = s[2] /\ s[1] \in {"<", ">"}
             THEN <<s[1] \o s[2]>> \o Shifts(SubSeq(s, 3, Len(s)))
             ELSE <<s[1]>> \o Shifts(Tail(s))

FlatOps == DOMAIN LeftPrec \ {"extends"}
Flat(s) == /\ Len(s) % 2 = 1
           /\ \A i \in DOMAIN s : s[i] \in (IF i % 2 = 1 THEN Names ELSE FlatOps)

Precedence ==
  LET s == Shifts(SubSeq(file, 4, Len(file) - 1)) IN
  (Len(file) > 4 /\ SubSeq(file, 1, 3) = <<"var", "x", "=">> /\ Flat(s)) =>
     Read(file) = <<"Program", <<"Decl", None, <<"Decorators">>,
                                 <<"Var", Leaf("x"), None, Grouped(s)>>>>>>
=============================================================================
