------------------------------- MODULE Parser -------------------------------
(***************************************************************************)
(* The recursive-descent parser of src/src/parser over the rules of        *)
(* Syntax: a result is the tree and where the parser is then.              *)
(***************************************************************************)
EXTENDS Syntax

RECURSIVE Parse(_, _), Children(_, _, _, _), Elements(_, _, _), Infix(_, _, _)

Prec(min, x) == LET left == Parse("Unary", x) IN
                IF left.t = Err THEN left ELSE Infix(left.t, min, left.x)

\* The parts of a node, one after the other.
ChildrenFrom(kind, rule, kids, part, x) ==
  IF part.t = Err THEN Fail(x)
  ELSE Children(kind, Tail(rule), IF part.t = Mark THEN kids ELSE Append(kids, part.t), part.x)

Built(t, x) == IF t = Err THEN Fail(x) ELSE Got(t, x)

Children(kind, rule, kids, x) ==
  IF rule = <<>> THEN Built(Node(kind, kids), x)
  ELSE ChildrenFrom(kind, rule, kids, Parse(Head(rule), x), x)

Elements(list, kids, x) ==
  IF Tok(x) \in list.stop /\ (~ list.some \/ Len(kids) > 1) THEN Got(kids, x)
  ELSE LET e    == Parse(list.of, x)
           more == IF e.t = Mark THEN kids ELSE Append(kids, e.t)
       IN IF e.t = Err THEN Fail(x)
          ELSE IF list.sep = "" THEN Elements(list, more, e.x)
          ELSE IF Tok(e.x) # list.sep THEN Got(more, e.x)
          ELSE IF Tok(Skip(e.x, 1)) \in list.stop /\ ~ list.trailing THEN Fail(x)
          ELSE Elements(list, more, Skip(e.x, 1))

\* Binary operators from the left while they hold at least as tight as `min`.
Width(op)  == IF op \in {"<<", ">>"} THEN 2 ELSE 1
InfixOp(x) == IF Tok(x) \in {"<", ">"} /\ Peek(x, 1) = Tok(x) THEN Tok(x) \o Tok(x) ELSE Tok(x)

\* Mutant: what is on the right holds as tight as the operator, not tighter.
RightLoose(op, x) == CASE op = "extends" -> Parse("Pattern", x)
                       [] op = "as" -> Parse("CastType", x)
                       [] OTHER -> Prec(LeftPrec[op], x)

RightOf(op, x) == CASE op = "extends" -> Parse("Pattern", x)
                    [] op = "as" -> Parse("CastType", x)
                    [] OTHER -> Prec(LeftPrec[op] + 1, x)

Scope(t) == IsName(t) \/ Kind(t) = "ScopeRef"

PostfixStep(left, x) ==
  CASE Tok(x) = "::" ->
         IF Scope(left) \/ (Kind(left) = "Index" /\ Scope(Kid(left, 1))) THEN Children("ScopeRef", ScopeRef, <<left>>, x) ELSE Fail(x)
    [] Tok(x) = "(" -> Children("Call", Call, <<left>>, x)
    [] Tok(x) = "." ->
         LET t == Peek(x, 1) IN
         CASE t \in {"!", "?", "&", "*"} -> Got(<<"." \o t, left>>, Skip(x, 2))
           [] t \in Names -> Got(<<"Member", left, Leaf(t)>>, Skip(x, 2))
           [] OTHER -> Fail(x)
    [] Tok(x) = "[" ->
         IF Peek(x, 1) = ":" THEN Children("Slice", <<"SliceEnd", "]">>, <<left, None>>, Skip(x, 2))
         ELSE LET low == IF Peek(x, 1) = "]" THEN Fail(x) ELSE Parse("Expr", Skip(x, 1)) IN
              IF low.t # Err /\ Tok(low.x) = ":"
              THEN Children("Slice", <<"SliceEnd", "]">>, <<left, low.t>>, Skip(low.x, 1))
              ELSE Children("Index", Index, <<left>>, x)

Infix(left, min, x) ==
  LET op   == InfixOp(x)
      On(r) == IF r.t = Err THEN Fail(x) ELSE Infix(r.t, min, r.x)
  IN CASE op \in AssignOps \cup {"?"} /\ min > 0 -> Got(left, x)
       [] op = "?" -> On(Children("Ternary", Ternary, <<left>>, x))
       [] op \in AssignOps ->
            IF IsName(left) \/ Kind(left) \in Assignable
            THEN On(Children(op, <<"Expr">>, <<left>>, Skip(x, 1))) ELSE Fail(x)
       [] op \in {"(", ".", "[", "::"} -> On(PostfixStep(left, x))
       [] op = "|" /\ x.pipe -> Got(left, x)
       [] op \in DOMAIN LeftPrec ->
            IF LeftPrec[op] < min THEN Got(left, x)
            ELSE LET right == RightOf(op, Skip(x, Width(op)))
                 IN On(IF right.t = Err THEN right ELSE Got(<<op, left, right.t>>, right.x))
       [] OTHER -> Got(left, x)

\* A type in front: `*`, `[]` and `?` go to rules of their own, and what else
\* is a type is an expression.
Prefixed(kind, n, rule, x) == Children(kind, <<rule>>, <<>>, Skip(x, n))

RawType(x) ==
  CASE Tok(x) = "?" -> Prefixed("Option", 1, "RawType", x)
    [] Tok(x) = "*" -> Prefixed("Ptr", 1, "RawType", x)
    [] Tok(x) = "[" /\ Peek(x, 1) = "]" -> Prefixed("SliceType", 2, "RawType", x)
    [] OTHER -> Parse("Expr22", x)

TypePrefix(x) ==
  CASE Tok(x) = "*" -> Prefixed("Ptr", 1, "TypePrefix", x)
    [] Tok(x) = "[" /\ Peek(x, 1) = "]" -> Prefixed("SliceType", 2, "TypePrefix", x)
    [] Tok(x) = "?" /\ Peek(x, 1) \in {"*", "["} -> Prefixed("Option", 1, "TypePrefix", x)
    [] OTHER -> Parse("Expr1", x)

CastType(x) ==
  CASE Tok(x) = "*" -> Prefixed("Ptr", 1, "Expr22", x)
    [] Tok(x) = "[" /\ Peek(x, 1) = "]" -> Prefixed("SliceType", 2, "Expr22", x)
    [] OTHER -> Parse("Expr22", x)

RECURSIVE Scoped(_), Applied(_), PatChain(_, _, _)

\* What a struct implements and an interface inherits: a name, its module,
\* its arguments.
Scoped(r) ==
  IF r.t = Err \/ Tok(r.x) # "::" THEN r
  ELSE IF Scope(r.t) THEN Scoped(Children("ScopeRef", ScopeRef, <<r.t>>, r.x))
  ELSE Fail(r.x)

Applied(r) ==
  IF r.t = Err \/ Tok(r.x) # "[" THEN r ELSE Applied(Children("Index", TypeIndex, <<r.t>>, r.x))

(* Patterns.                                                               *)
PatChain(op, of, r) ==
  IF r.t = Err \/ Tok(r.x) # op THEN r
  ELSE LET right == Parse(of, Skip(r.x, 1)) IN
       IF right.t = Err THEN right
       ELSE PatChain(op, of, Got(<<IF op = "|" THEN "PatOr" ELSE "PatAnd", r.t, right.t>>, right.x))

PatAny(x) == IF Peek(x, 1) = "*" THEN Prefixed("PatAnyPtr", 2, "PatAtom", x) ELSE One(<<"PatWild">>, x)

PatList(x) ==
  IF Peek(x, 1) = "]" THEN Prefixed("PatSlice", 2, "PatAtom", x)
  ELSE Children("PatArray", PatArray, <<>>, x)

PatTuple(x) ==
  IF Peek(x, 1) = "?" /\ Peek(x, 2) = ">" THEN Got(<<"PatAnyTuple">>, Skip(x, 3))
  ELSE Children("PatTuple", <<"<", "Pats", ">">>, <<>>, x)

(* Functions: a literal, a definition or a type.                           *)
FuncHeadOf(r, early, late, x) ==
  IF r.t = Err \/ (late # None /\ (early # None \/ Kid(r.t, 3) = None)) THEN Fail(x)
  ELSE Got(<<"FuncHead", IF early = None THEN late ELSE early, Kid(r.t, 2), Kid(r.t, 3), Kid(r.t, 5)>>, r.x)

FuncHeadFrom(r, x) == FuncHeadOf(r, Kid(r.t, 1), Kid(r.t, 4), x)

FuncHead(x) ==
  FuncHeadFrom(Children("FuncHead", <<"Captures", "FuncName", "Generics", "Captures", "(",
                                      "ParamItems", ")">>, <<>>, x), x)

Captured(h) == IF Kid(h, 1) = None THEN <<>> ELSE Kids(Kid(Kid(h, 1), 1))

\* A type: no names, captures by type only.
FuncTypeAfter(kind, word, head, result, x) ==
  IF kind # "" \/ Kid(head, 3) # None \/ result.t = Err
     \/ (\E i \in DOMAIN Kids(Kid(head, 4)) : Kind(Kid(Kid(head, 4), i)) = "Param")
     \/ (\E i \in DOMAIN Captured(head) : Kind(Captured(head)[i]) # "Capture"
                                        \/ Kid(Captured(head)[i], 2) = None)
  THEN Fail(x)
  ELSE Got(<<IF word = "cfunc" THEN "CFuncType" ELSE "FuncType",
             Kid(head, 1), Kid(head, 4), Kid(result.t, 1)>>, result.x)

\* A definition or a literal.
FuncBodyAfter(kind, word, head, body, x) ==
  IF body.t = Err \/ (kind # "" /\ Kid(head, 2) = None)
     \/ (word = "cfunc" /\ Kid(head, 3) # None)
     \/ (\E i \in DOMAIN Kids(Kid(head, 4)) : Kind(Kid(Kid(head, 4), i)) # "Param")
  THEN Fail(x)
  ELSE Got(<<IF kind = "" THEN "FuncLiteral" ELSE kind>> \o Kids(head) \o Kids(body.t), body.x)

FuncWith(kind, r, x) ==
  IF r.t = Err THEN r
  ELSE IF Tok(r.x) = "->"
  THEN FuncTypeAfter(kind, Tok(x), r.t, Children("", <<"->", "TypePrefix">>, <<>>, r.x), x)
  ELSE FuncBodyAfter(kind, Tok(x), r.t, Children("", <<":", "TypePrefix", "Block">>, <<>>, r.x), x)

\* `kind` is what is defined, or "" for an expression.
FuncLike(kind, x) == FuncWith(kind, FuncHead(Skip(x, 1)), x)

(* Declarations.                                                           *)
RECURSIVE Decorators(_)

Decorators(r) ==
  IF Tok(r.x) # "[" \/ Peek(r.x, 1) # "[" THEN r
  ELSE LET d == Children("", <<"[", "[", "Expr", "]", "]">>, <<>>, r.x) IN
       IF d.t = Err THEN d ELSE Decorators(Got(Append(r.t, Kid(d.t, 1)), d.x))

MemberForm(x) == CASE Tok(x) = "..." -> "Embed" [] Tok(x) = "var" -> "Var"
                   [] Tok(x) = "func" -> "FuncDef" [] OTHER -> "Field"

MemberAfter(ds, m, x) ==
  IF ds.t = Err \/ m.t = Err THEN Fail(x)
  ELSE IF Kind(m.t) = "Embed" THEN m ELSE Got(<<"Decorated", ds.t, m.t>>, m.x)

MemberWith(ds, x) == MemberAfter(ds, Parse(MemberForm(ds.x), ds.x), x)
Member(x) == MemberWith(Decorators(Got(<<"Decorators">>, x)), x)

Decoratable == {"FuncDef", "CFuncDef", "Var", "Comptime", "Struct", "Bitfield", "Enum", "Union", "CUnion",
                "TypeDef", "ExternVar", "ExternCFunc"}

\* What may follow `export`, and what may not.
Exportable == "func" :> "FuncDef" @@ "cfunc" :> "CFuncDef" @@ "var" :> "Var" @@ "type" :> "TypeDef"
  @@ "enum" :> "Enum" @@ "struct" :> "Struct" @@ "union" :> "Union" @@ "cunion" :> "CUnion"
  @@ "interface" :> "Interface" @@ "extern" :> "ExternForm" @@ "comptime" :> "ComptimeDecl"
  @@ "else" :> "Refused"

TopForms == "test" :> "Test" @@ "import" :> "Import" @@ "bitfield" :> "Bitfield"
  @@ [Exportable EXCEPT !["else"] = "FuncDef"]

Exported(x) == Tok(x) = "export" /\ Peek(x, 1) # "*"
Form(y)     == IF Tok(y) = "test" /\ Peek(y, 1) \notin Texts THEN "FuncDef"
               ELSE TopForms[IF Tok(y) \in DOMAIN TopForms THEN Tok(y) ELSE "else"]
DeclForm(x, y) == IF Tok(x) # "export" THEN Form(y)
                  ELSE IF ~ Exported(x) THEN "Reexport"
                  ELSE Exportable[IF Tok(y) \in DOMAIN Exportable THEN Tok(y) ELSE "else"]

\* What the decorators are for, and whether they may be.
DeclAfter(ds, exported, d, x) ==
  IF d.t = Err \/ (Kids(ds.t) # <<>> /\ Kind(d.t) \notin Decoratable)
     \/ (exported /\ Kind(d.t) = "ExternLib") THEN Fail(x)
  ELSE Got(<<"Decl", IF exported THEN Leaf("export") ELSE None, ds.t, d.t>>, d.x)

DeclWith(ds, y, x) ==
  IF ds.t = Err THEN Fail(x)
  ELSE IF Tok(ds.x) = "end" THEN Got(Mark, ds.x)
  ELSE IF Tok(ds.x) = ";" THEN One(Mark, ds.x)
  ELSE DeclAfter(ds, Exported(ds.x), Parse(DeclForm(ds.x, y), y), x)

DeclDecorated(ds, x) == DeclWith(ds, IF Tok(ds.x) = "export" THEN Skip(ds.x, 1) ELSE ds.x, x)
Decl(x) == DeclDecorated(Decorators(Got(<<"Decorators">>, x)), x)

ExternForm(x) ==
  Parse(CASE Peek(x, 1) = "lib" -> "ExternLib" [] Peek(x, 1) = "cfunc" -> "ExternCFunc"
          [] Peek(x, 1) = "var" -> "ExternVar" [] OTHER -> "Refused", Skip(x, 1))

Comptime(rule, x) ==
  LET r == Parse(rule, Skip(x, 1)) IN
  IF r.t = Err \/ Kind(r.t) = "ComptimeIf" THEN r ELSE Got(<<"Comptime", r.t>>, r.x)

Class(set, x) == IF Tok(x) \in set THEN One(Leaf(Tok(x)), x) ELSE Fail(x)

Parse(rule, x) ==
  CASE rule \in DOMAIN Sequence -> Children(rule, Sequence[rule], <<>>, x)
    [] rule \in DOMAIN Optional ->
         IF Tok(x) = Optional[rule][1] THEN Children(rule, Optional[rule], <<>>, x) ELSE Got(None, x)
    [] rule \in DOMAIN Lists ->
         Elements(Lists[rule], <<rule>>, x)
    [] rule \in DOMAIN Choice ->
         Parse(Choice[rule][IF Tok(x) \in DOMAIN Choice[rule] THEN Tok(x) ELSE "else"], x)
    [] rule \in DOMAIN MinPrec -> Prec(MinPrec[rule], x)
    [] OTHER ->
       CASE rule = Nothing  -> Got(Mark, x)
         [] rule = Absent   -> Got(None, x)
         [] rule = "Refused" -> Fail(x)
         [] rule \in {"NoInit", "NoCaptures", "PatAnyLength"} -> One(None, x)
         [] rule = "Name"   -> Class(Names, x)
         [] rule = "Int"    -> Class(Ints, x)
         [] rule = "Text"   -> Class(Texts, x)
         [] rule = "Word"   -> Class({"u32"}, x)
         [] rule = "AnyName" -> Class(Names \cup Types, x)
         [] rule = "Atom"   -> Class(Names \cup Ints \cup Texts \cup Words, x)
         [] rule = "FuncName" -> IF Tok(x) \in Names THEN One(Leaf(Tok(x)), x) ELSE Got(None, x)
         [] rule = "RawType" -> RawType(x)
         [] rule = "TypePrefix" -> TypePrefix(x)
         [] rule = "CastType" -> CastType(x)
         [] rule = "PipeType" -> LET r == RawType([x EXCEPT !.pipe = TRUE]) IN
                                 [r EXCEPT !.x.pipe = x.pipe]
         [] rule = "SliceOrArray" ->
              IF Peek(x, 1) = "]" THEN Prefixed("SliceType", 2, "Unary", x)
              ELSE Children("ArrayType", ArrayType, <<>>, x)
         [] rule = "Init" ->
              Parse(CASE Tok(x) = "..." -> "Spread" [] Tok(x) = "<" -> "Fill"
                      [] Tok(x) = "." /\ Peek(x, 1) \in Names /\ Peek(x, 2) = "=" -> "SetField"
                      [] OTHER -> "Expr", x)
         [] rule = "ParamItem" ->
              IF Tok(x) \in Names /\ Peek(x, 1) = ":" THEN Parse("Param", x) ELSE TypePrefix(x)
         [] rule = "TypeWithIndex" -> Applied(Scoped(Parse("Unary", x)))
         [] rule = "FuncLike" -> FuncLike("", x)
         [] rule = "FuncDef"  -> IF Tok(x) = "func" THEN FuncLike("FuncDef", x) ELSE Fail(x)
         [] rule = "CFuncDef" -> FuncLike("CFuncDef", x)
         [] rule = "ComptimeStmt" -> Comptime("ComptimeForm", x)
         [] rule = "ComptimeIfAgain" -> Parse("ComptimeIf", Skip(x, 1))
         [] rule = "ComptimeDecl" ->
              IF Peek(x, 1) \in {"func", "var"} THEN Comptime("ComptimeForm", x) ELSE Fail(x)
         [] rule = "ExternForm" -> ExternForm(x)
         [] rule = "Member" -> Member(x)
         [] rule = "Decl" -> Decl(x)
         [] rule = "Pattern" -> PatChain("|", "PatConj", Parse("PatConj", x))
         [] rule = "PatConj" -> PatChain("&", "PatAtom", Parse("PatAtom", x))
         [] rule = "PatAny" -> PatAny(x)
         [] rule = "PatList" -> PatList(x)
         [] rule = "PatTuple" -> PatTuple(x)
         [] rule = "PatFunc" -> Children("PatFunc", PatFunc, <<>>, Skip(x, 1))
         [] OTHER -> IF Tok(x) = rule THEN One(Mark, x) ELSE Fail(x)

\* A whole program.
Program(tokens) == Elements(List("Decl", "", {"end"}, FALSE, FALSE), <<"Program">>, At(tokens)).t
=============================================================================
