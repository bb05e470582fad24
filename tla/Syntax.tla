------------------------------- MODULE Syntax -------------------------------
(***************************************************************************)
(* The grammar of Clux as src/src/parser reads it, over tokens.            *)
(*                                                                         *)
(* A token is a string; names and literals are taken from small sets.  A   *)
(* tree is a tuple: its kind and its subtrees.  A rule is the sequence of  *)
(* what one parse function expects: words and signs, which leave nothing   *)
(* in the tree, and the names of other rules, which leave a subtree.       *)
(* Parentheses around an expression and empty statements leave nothing.    *)
(* A parse that fails in whatever way is Err: NULL and AST_ERROR both      *)
(* refuse the program.                                                     *)
(***************************************************************************)
EXTENDS Integers, Sequences, FiniteSets, TLC

Names    == {"a", "b", "f", "x", "T", "S", "test"}
Ints     == {"1", "2"}
Texts    == {"'text'"}
Types    == {"i32", "u32", "bool", "void"}
Words    == Types \cup {"undefined", "nil", "true", "false", "default", "of", "if"}

Leaf(x)  == <<"leaf", x>>
None     == <<"none">>
Mark     == <<"mark">>       \* what a word or a sign leaves: nothing
Err      == <<"error">>

Kind(t)  == t[1]
Kids(t)  == Tail(t)
Kid(t, i) == t[i + 1]
IsName(t) == Kind(t) = "leaf" /\ t[2] \in Names

-----------------------------------------------------------------------------
(* Statements.                                                             *)

Block    == <<"{", "Stmts", "}">>
If       == <<"if", "(", "Expr", ")", "Block", "Else">>
Else     == <<"else", "ElseBody">>
While    == <<"while", "(", "Expr", ")", "Block">>
DoWhile  == <<"do", "Block", "while", "(", "Expr", ")", ";">>
For      == <<"for", "(", "ForInit", "ForCond", ";", "ForUpdate", ")", "Block">>
Foreach  == <<"foreach", "(", "ForeachVar", "of", "Expr", ")", "Block">>
ForeachDecl == <<"var", "Name", "TypeOf">>
Return   == <<"return", "ReturnValue", ";">>
Break    == <<"break", ";">>
Continue == <<"continue", ";">>
Defer    == <<"defer", "DeferCaptures", "Block">>
Switch   == <<"switch", "(", "Expr", ")", "{", "Cases", "}">>
Case     == <<"(", "Patterns", ")", "->", "Block">>
Default  == <<"default", "->", "Block">>
StaticAssert == <<"static_assert", "(", "Expr", ",", "Expr", ")", ";">>
ComptimeIf == <<"if", "(", "Expr", ")", "Block", "ComptimeElse">>
ExprStmt == <<"Expr", ";">>
Var      == <<"var", "Name", "TypeOf", "=", "Expr", ";">>
Using    == <<"using", "Name", "TypeOf", "=", "Expr", ";">>

(* Declarations.                                                           *)

TypeDef  == <<"type", "Name", "Generics", "=", "AliasedType", ";">>
Enum     == <<"enum", "Name", "Generics", ":", "Expr", "{", "Variants", "}">>
Variant  == <<"Name", "=", "Expr">>
Struct   == <<"struct", "Name", "Generics", "Implements", "{", "Members", "}">>
Embed    == <<"...", "Name", "FieldEnd">>
Field    == <<"Name", ":", "RawType", "FieldEnd">>
Union    == <<"union", "Name", "Generics", "{", "Fields", "}">>
CUnion   == <<"cunion", "Name", "{", "Fields", "}">>
Bitfield == <<"bitfield", "Name", ":", "Word", "{", "Bits", "}">>
BitsField == <<"Name", ":", "Int", "OptionalEnd">>
Interface == <<"interface", "Name", "Generics", "{", "Wanted", "}">>
WantedVar == <<"var", "Name", ":", "TypePrefix", ";">>
WantedFunc == <<"func", "Name", "(", "Params", ")", "TypeOf", ";">>
Inherit  == <<"...", "TypeWithIndex", ";">>
Import   == <<"import", "Name", "from", "Text", ";">>
Reexport == <<"*", "from", "Text", ";">>
ExternLib == <<"lib", "Name", "from", "Text", "LibAssert", ";">>
ExternVar == <<"var", "Name", "::", "Name", ":", "TypePrefix", ";">>
ExternCFunc == <<"cfunc", "Name", "::", "Name", "(", "CParams", ")", ":", "TypePrefix", ";">>
Test     == <<"test", "Text", "Block">>
Param    == <<"Name", ":", "ParamType">>
Pack     == <<"...", "Name">>
BoundCapture == <<"(", "Name", "RawTypeOf", "=", "Expr1", ")">>
Capture  == <<"Name", "PipeTypeOf">>
Generic  == <<"GenericName", "Valued", "Extends", "DefaultArg">>

(* Expressions, types and patterns.                                        *)

SizeOf   == <<"sizeof", "(", "Measured", ")">>
AlignOf  == <<"alignof", "(", "Measured", ")">>
TypeOfExpr == <<"typeof", "(", "Expr", ")">>
Make     == <<"make", "(", "Expr", ",", "Expr", ")">>
Group    == <<"(", "Expr", ")">>
ArrayType == <<"[", "Expr", "]", "RawType">>
Tuple    == <<"<", "Elems", ">">>
Construct == <<".", "ConstructType", "{", "Inits", "}">>
SetField == <<".", "Name", "=", "Expr">>
Fill     == <<"<", "Expr", ",", "Expr15", ">">>
Spread   == <<"...", "Expr">>
Not      == <<"!", "Expr23">>
Complement == <<"~", "Expr23">>
Negate   == <<"-", "Expr23">>
Option   == <<"?", "Expr23">>
Const    == <<"const", "Expr23">>
Volatile == <<"volatile", "Expr23">>
Ternary  == <<"?", "Expr", ":", "Expr">>
Call     == <<"(", "Args", ")">>
Index    == <<"[", "Indices", "]">>
ScopeRef == <<"::", "Name">>
TypeIndex == <<"[", "TypeArgs", "]">>
PatFunc  == <<"(", "Pats", ")", "->", "PatAtom">>
PatArray == <<"[", "PatLength", "]", "PatAtom">>
PatName  == <<"AnyName", "Qualified", "PatArgs">>

Sequence ==
  [Block |-> Block, If |-> If, While |-> While, DoWhile |-> DoWhile, For |-> For,
   Foreach |-> Foreach, ForeachDecl |-> ForeachDecl, Return |-> Return, Break |-> Break,
   Continue |-> Continue, Defer |-> Defer, Switch |-> Switch, Case |-> Case,
   Default |-> Default, StaticAssert |-> StaticAssert, ComptimeIf |-> ComptimeIf,
   ExprStmt |-> ExprStmt, Var |-> Var, Using |-> Using, TypeDef |-> TypeDef, Enum |-> Enum,
   Variant |-> Variant, Struct |-> Struct, Embed |-> Embed, Field |-> Field, Union |-> Union,
   CUnion |-> CUnion, Bitfield |-> Bitfield, BitsField |-> BitsField,
   Interface |-> Interface, WantedVar |-> WantedVar, WantedFunc |-> WantedFunc,
   Inherit |-> Inherit, Import |-> Import, Reexport |-> Reexport, ExternLib |-> ExternLib,
   ExternVar |-> ExternVar, ExternCFunc |-> ExternCFunc, Test |-> Test, Param |-> Param,
   Pack |-> Pack, BoundCapture |-> BoundCapture, Capture |-> Capture, Generic |-> Generic,
   SizeOf |-> SizeOf, AlignOf |-> AlignOf, TypeOfExpr |-> TypeOfExpr, Make |-> Make,
   Group |-> Group, ArrayType |-> ArrayType, Tuple |-> Tuple, Construct |-> Construct,
   SetField |-> SetField, Fill |-> Fill, Spread |-> Spread, Not |-> Not,
   Complement |-> Complement, Negate |-> Negate, Option |-> Option, Const |-> Const,
   Volatile |-> Volatile, PatArray |-> PatArray, PatName |-> PatName,
   PatGroup |-> <<"(", "Pattern", ")">>, PatPtr |-> <<"*", "PatAtom">>,
   PatConst |-> <<"const", "PatAtom">>, PatVolatile |-> <<"volatile", "PatAtom">>,
   VariadicTail |-> <<"...">>]

(* Parts that are there when their first token is.                         *)
Optional ==
  [Else |-> Else, TypeOf |-> <<":", "TypePrefix">>, RawTypeOf |-> <<":", "RawType">>,
   PipeTypeOf |-> <<":", "PipeType">>, Generics |-> <<"[", "GenericList", "]">>,
   Implements |-> <<"implements", "Interfaces">>, Valued |-> <<":", "comptime", "TypePrefix">>,
   Extends |-> <<"extends", "Pattern">>, DefaultArg |-> <<"=", "Expr1">>,
   ComptimeElse |-> <<"else", "ComptimeElseBody">>, Qualified |-> <<"::", "AnyName">>,
   PatArgs |-> <<"[", "Pats", "]">>, LibAssert |-> <<"assert", "(", "Expr", ")">>,
   Captures |-> <<"|", "CaptureList", "|">>]

(* Lists: of what, between what, before what; whether a separator may come *)
(* last, and whether one element at least has to be there.                 *)
List(of, sep, stop, trailing, some) ==
  [of |-> of, sep |-> sep, stop |-> stop, trailing |-> trailing, some |-> some]

Lists ==
  [Stmts |-> List("Stmt", "", {"}"}, FALSE, FALSE),
   Cases |-> List("CaseOrDefault", "", {"}"}, FALSE, FALSE),
   Patterns |-> List("Expr", ",", {")"}, FALSE, TRUE),
   Variants |-> List("Variant", ",", {"}"}, TRUE, TRUE),
   Members |-> List("Member", "", {"}"}, FALSE, FALSE),
   Fields |-> List("Field", "", {"}"}, FALSE, FALSE),
   Bits |-> List("BitsField", "", {"}"}, FALSE, FALSE),
   Wanted |-> List("WantedMember", "", {"}"}, FALSE, FALSE),
   Interfaces |-> List("TypeWithIndex", "&", {"{"}, FALSE, TRUE),
   GenericList |-> List("Generic", ",", {"]"}, FALSE, TRUE),
   CaptureList |-> List("CaptureItem", ",", {"|"}, FALSE, FALSE),
   Params |-> List("Param", ",", {")"}, FALSE, FALSE),
   CParams |-> List("CParam", ",", {")"}, FALSE, FALSE),
   ParamItems |-> List("ParamItem", ",", {")"}, FALSE, FALSE),
   Elems |-> List("Elem", ",", {">"}, FALSE, FALSE),
   Inits |-> List("Init", ",", {"}"}, TRUE, FALSE),
   Args |-> List("Arg", ",", {")"}, FALSE, FALSE),
   Indices |-> List("Expr", ",", {"]"}, FALSE, FALSE),
   TypeArgs |-> List("RawType", ",", {"]"}, FALSE, FALSE),
   Pats |-> List("Pattern", ",", {")", "]", ">"}, FALSE, FALSE)]

(* Which rule the next token chooses; "else" without one.                  *)
Nothing == "Nothing"         \* nothing is read and nothing is left
Absent  == "Absent"          \* nothing is read, and None is left

StmtForms ==
  [Stmt |-> "if" :> "If" @@ "while" :> "While" @@ "do" :> "DoWhile" @@ "for" :> "For"
         @@ "foreach" :> "Foreach" @@ "return" :> "Return" @@ "break" :> "Break"
         @@ "continue" :> "Continue" @@ "defer" :> "Defer" @@ "switch" :> "Switch"
         @@ "static_assert" :> "StaticAssert" @@ "comptime" :> "ComptimeStmt" @@ "var" :> "Var"
         @@ "using" :> "Using" @@ "func" :> "FuncDef" @@ "type" :> "TypeDef" @@ "enum" :> "Enum"
         @@ "struct" :> "Struct" @@ "union" :> "Union" @@ "cunion" :> "CUnion" @@ ";" :> ";"
         @@ "{" :> "Block" @@ "cfunc" :> "Refused" @@ "else" :> "ExprStmt",
   ComptimeForm |-> "var" :> "Var" @@ "func" :> "FuncDef" @@ "if" :> "ComptimeIf"
         @@ "foreach" :> "Foreach" @@ "else" :> "Refused"]

PartForms ==
  [ElseBody |-> "if" :> "If" @@ "else" :> "Block",
   ComptimeElseBody |-> "comptime" :> "ComptimeIfAgain" @@ "if" :> "ComptimeIf" @@ "else" :> "Block",
   ForInit |-> ";" :> "NoInit" @@ "var" :> "Var" @@ "else" :> "ExprStmt",
   ForCond |-> ";" :> Absent @@ "else" :> "Expr",
   ForUpdate |-> ")" :> Absent @@ "else" :> "Expr",
   ForeachVar |-> "var" :> "ForeachDecl" @@ "else" :> "Name",
   ReturnValue |-> ";" :> Absent @@ "else" :> "Expr",
   DeferCaptures |-> "||" :> "NoCaptures" @@ "|" :> "Captures" @@ "else" :> Absent,
   CaseOrDefault |-> "default" :> "Default" @@ "else" :> "Case",
   AliasedType |-> "*" :> "RawType" @@ "else" :> "Expr",
   FieldEnd |-> ";" :> ";" @@ "}" :> Nothing @@ "else" :> "Refused",
   OptionalEnd |-> ";" :> ";" @@ "else" :> Nothing,
   WantedMember |-> "var" :> "WantedVar" @@ "func" :> "WantedFunc" @@ "..." :> "Inherit"
         @@ "else" :> "Refused",
   ParamType |-> "..." :> "Pack" @@ "else" :> "TypePrefix",
   CParam |-> "..." :> "VariadicTail" @@ "else" :> "Param",
   CaptureItem |-> "(" :> "BoundCapture" @@ "else" :> "Capture",
   GenericName |-> "..." :> "Pack" @@ "else" :> "Name",
   Measured |-> "*" :> "TypePrefix" @@ "else" :> "Expr",
   Elem |-> "..." :> "Pack" @@ "else" :> "Unary",
   ConstructType |-> "{" :> Absent @@ "else" :> "RawType",
   Arg |-> "..." :> "Spread" @@ "else" :> "Expr",
   SliceEnd |-> "]" :> Absent @@ "else" :> "Expr",
   PatLength |-> "?" :> "PatAnyLength" @@ "else" :> "Int"]

UnaryForms ==
  [Unary |-> "!" :> "Not" @@ "~" :> "Complement" @@ "-" :> "Negate" @@ "?" :> "Option"
         @@ "const" :> "Const" @@ "volatile" :> "Volatile" @@ "." :> "Construct"
         @@ "sizeof" :> "SizeOf" @@ "alignof" :> "AlignOf" @@ "typeof" :> "TypeOfExpr"
         @@ "func" :> "FuncLike" @@ "cfunc" :> "FuncLike" @@ "make" :> "Make"
         @@ "(" :> "Group" @@ "[" :> "SliceOrArray" @@ "<" :> "Tuple" @@ "else" :> "Atom"]

PatForms ==
  [PatAtom |-> "(" :> "PatGroup" @@ "?" :> "PatAny" @@ "*" :> "PatPtr" @@ "[" :> "PatList"
         @@ "<" :> "PatTuple" @@ "func" :> "PatFunc" @@ "cfunc" :> "PatFunc"
         @@ "const" :> "PatConst" @@ "volatile" :> "PatVolatile" @@ "else" :> "PatName"]

Choice == StmtForms @@ PartForms @@ UnaryForms @@ PatForms

-----------------------------------------------------------------------------
(* Binding: how tightly an operator holds what is on its left.  On its     *)
(* right it holds one tighter, so operators of a level group to the left.  *)
LeftPrec ==
  [op \in {"as", "is"} |-> 21] @@ [op \in {"*", "/", "%"} |-> 19] @@ [op \in {"+", "-"} |-> 17]
  @@ [op \in {"<<", ">>"} |-> 15] @@ [op \in {"<", ">", "<=", ">="} |-> 13]
  @@ [op \in {"==", "!=", "extends"} |-> 11] @@ "&" :> 9 @@ "^" :> 7 @@ "|" :> 5
  @@ "&&" :> 3 @@ "||" :> 1

AssignOps == {"=", "+=", "-=", "*=", "/=", "%="}
Assignable == {"Index", "Member", ".*", "ScopeRef"}

MinPrec == [Expr |-> 0, Expr1 |-> 1, Expr15 |-> 15, Expr22 |-> 22, Expr23 |-> 23]

(***************************************************************************)
(* The parser.  Where it is: the tokens, the next one, and whether a `|`   *)
(* ends an expression (in a list of captures).                             *)
(***************************************************************************)
At(tokens) == [s |-> tokens, i |-> 1, pipe |-> FALSE]
Peek(x, k) == IF x.i + k <= Len(x.s) THEN x.s[x.i + k] ELSE "end"
Tok(x)     == Peek(x, 0)
Skip(x, k) == [x EXCEPT !.i = @ + k]

Got(t, x)  == [t |-> t, x |-> x]
Fail(x)    == Got(Err, x)
One(t, x)  == Got(t, Skip(x, 1))

\* What becomes of the parts of a node.
Chosen(kind, kids, defaults) ==
  <<kind, kids[1], <<"Cases">> \o SelectSeq(Kids(kids[2]), LAMBDA c : Kind(c) = "Case"),
    IF defaults = <<>> THEN None ELSE defaults[Len(defaults)]>>

Node(kind, kids) ==
  CASE kind \in {"Group", "PatGroup"} -> kids[1]
    [] kind = "Captures" -> IF kids[1] = <<"CaptureList">> THEN None ELSE <<kind, kids[1]>>
    [] kind = "Switch" -> Chosen(kind, kids, SelectSeq(Kids(kids[2]), LAMBDA c : Kind(c) = "Default"))
    [] kind = "Interface" ->
         <<kind, kids[1], kids[2], <<"Wanted">> \o SelectSeq(Kids(kids[3]), LAMBDA m : Kind(m) = "Inherit")
                                             \o SelectSeq(Kids(kids[3]), LAMBDA m : Kind(m) # "Inherit")>>
    [] OTHER -> <<kind>> \o kids
=============================================================================
