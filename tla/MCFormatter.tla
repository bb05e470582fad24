----------------------------- MODULE MCFormatter -----------------------------
(***************************************************************************)
(* Files for Formatter: one statement or declaration around an expression, *)
(* and expressions in expressions, with and without parentheses.           *)
(***************************************************************************)
EXTENDS Formatter

SE == INSTANCE SequencesExt

\* "_" is where an expression goes.
ExprContexts ==
  {<<"_", "+", "a">>, <<"a", "+", "_">>, <<"_", "|", "a">>, <<"_", "&", "a">>,
   <<"<", "T", ",", "_", ">">>, <<"_", "*", "a">>, <<"a", "*", "_">>, <<"_", "<", "<", "a">>,
   <<"_", "==", "a">>, <<"_", "&&", "a">>, <<"_", "||", "a">>, <<"_", "as", "T">>,
   <<"a", "is", "_">>, <<"a", "as", "*", "_">>, <<"a", "as", "[", "]", "_">>, <<"-", "_">>,
   <<"!", "_">>, <<"?", "_">>, <<"const", "_">>, <<"_", "?", "a", ":", "b">>,
   <<"a", "?", "_", ":", "b">>, <<"a", "?", "b", ":", "_">>, <<"a", "=", "_">>,
   <<"_", "=", "a">>, <<"a", "+=", "_">>, <<"f", "(", "_", ")">>,
   <<"f", "(", "a", ",", "...", "_", ")">>, <<"_", "(", "a", ")">>, <<"_", ".", "x">>,
   <<"_", ".", "!">>, <<"_", ".", "&">>, <<"_", ".", "*">>, <<"_", "[", "1", "]">>,
   <<"a", "[", "_", "]">>, <<"a", "[", "_", ",", "b", "]">>, <<"_", "[", "1", ":", "2", "]">>,
   <<"a", "[", "_", ":", "]">>, <<"a", "[", ":", "_", "]">>, <<".", "T", "{", "_", "}">>,
   <<".", "T", "{", ".", "x", "=", "_", ",", "}">>, <<".", "{", "<", "_", ",", "2", ">", "}">>,
   <<".", "{", "<", "a", ",", "_", ">", "}">>, <<".", "[", "]", "_", "{", "}">>,
   <<"sizeof", "(", "_", ")">>, <<"make", "(", "_", ",", "1", ")">>, <<"[", "_", "]", "T">>,
   <<"[", "2", "]", "_">>, <<"[", "]", "_">>, <<"<", "_", ",", "T", ">">>,
   <<"func", "(", "_", ")", "->", "T">>, <<"func", "(", ")", "->", "_">>,
   <<"func", "|", "x", ":", "_", "|", "(", ")", "->", "T">>,
   <<"func", "|", "(", "x", "=", "_", ")", "|", "(", ")", ":", "T", "{", "}">>,
   <<"func", "(", "x", ":", "_", ")", ":", "T", "{", "return", "x", ";", "}">>,
   <<"a", "extends", "_">>, <<"typeof", "(", "_", ")">>}

StmtContexts ==
  {<<"_", ";">>, <<"return", "_", ";">>, <<"var", "a", ":", "_", "=", "1", ";">>,
   <<"var", "a", "=", "_", ";">>, <<"using", "a", "=", "_", ";">>,
   <<"if", "(", "_", ")", "{", "a", ";", "}">>,
   <<"if", "(", "a", ")", "{", "}", "else", "if", "(", "_", ")", "{", "}", "else", "{", "b", ";", "}">>,
   <<"while", "(", "_", ")", "{", "break", ";", "}">>,
   <<"do", "{", "continue", ";", "}", "while", "(", "_", ")", ";">>,
   <<"for", "(", "var", "a", "=", "_", ";", "a", ";", "a", "+=", "1", ")", "{", "}">>,
   <<"for", "(", "a", "=", "_", ";", ";", ")", "{", "}">>,
   <<"for", "(", ";", "_", ";", ")", "{", "}">>, <<"for", "(", ";", ";", "_", ")", "{", "}">>,
   <<"foreach", "(", "var", "a", ":", "T", "of", "_", ")", "{", "}">>,
   <<"foreach", "(", "a", "of", "_", ")", "{", "}">>,
   <<"comptime", "foreach", "(", "var", "a", "of", "_", ")", "{", "}">>,
   <<"comptime", "if", "(", "_", ")", "{", "}", "else", "{", "a", ";", "}">>,
   <<"comptime", "if", "(", "a", ")", "{", "}", "else", "comptime", "if", "(", "_", ")", "{", "}">>,
   <<"comptime", "var", "a", "=", "_", ";">>, <<"defer", "{", "_", ";", "}">>,
   <<"defer", "|", "a", ":", "_", "|", "{", "}">>,
   <<"defer", "|", "(", "a", "=", "_", ")", ",", "b", "|", "{", "}">>,
   <<"switch", "(", "_", ")", "{", "}">>,
   <<"switch", "(", "a", ")", "{", "(", "_", ",", "1", ")", "->", "{", "}", "default", "->", "{", "b", ";", "}", "}">>,
   <<"switch", "(", "a", ")", "{", "default", "->", "{", "}", "(", "_", ")", "->", "{", "}", "}">>,
   <<"static_assert", "(", "_", ",", "'text'", ")", ";">>,
   <<"func", "f", "(", "a", ":", "_", ")", ":", "T", "{", "}">>,
   <<"{", ";", "_", ";", ";", "}">>}

DeclContexts ==
  {<<"var", "a", "=", "_", ";">>, <<"export", "var", "a", ":", "_", "=", "1", ";">>,
   <<"[", "[", "_", "]", "]", "var", "a", "=", "1", ";">>,
   <<"[", "[", "_", "]", "]", "export", "var", "a", "=", "1", ";">>,
   <<"[", "[", "a", "]", "]", "comptime", "var", "a", "=", "_", ";">>,
   <<"type", "T", "=", "_", ";">>,
   <<"type", "T", "[", "x", ":", "comptime", "_", "]", "=", "x", ";">>,
   <<"type", "T", "[", "S", "=", "_", "]", "=", "S", ";">>,
   <<"type", "T", "[", "...", "S", "]", "=", "<", "...", "S", ">", ";">>,
   <<"type", "T", "[", "S", "extends", "_", "]", "=", "S", ";">>,
   <<"export", "enum", "T", ":", "_", "{", "a", "=", "1", "}">>,
   <<"enum", "T", "[", "S", "]", ":", "i32", "{", "a", "=", "_", ",", "b", "=", "2", ",", "}">>,
   <<"struct", "S", "{", "a", ":", "_", ";", "}">>,
   <<"struct", "S", "implements", "a", "::", "T", "[", "_", "]", "&", "b", "{", "...", "x", ";", "a", ":", "T", "}">>,
   <<"struct", "S", "{", "[", "[", "_", "]", "]", "var", "a", ":", "T", "=", "1", ";", "[", "[", "b", "]", "]", "func", "f", "(", ")", ":", "T", "{", "}", "}">>,
   <<"struct", "S", "{", "[", "[", "a", "]", "]", "x", ":", "_", ";", "...", "T", ";", "func", "f", "(", ")", ":", "void", "{", "}", "}">>,
   <<"union", "S", "[", "T", "]", "{", "a", ":", "_", ";", "b", ":", "T", ";", "}">>,
   <<"cunion", "S", "{", "a", ":", "_", "}">>,
   <<"bitfield", "T", ":", "u32", "{", "a", ":", "1", ";", "b", ":", "2", "}">>,
   <<"interface", "T", "[", "S", "]", "{", "var", "a", ":", "_", ";", "...", "b", "[", "S", "]", ";", "func", "f", "(", "x", ":", "S", ")", ":", "_", ";", "}">>,
   <<"interface", "T", "{", "func", "f", "(", ")", ";", "}">>,
   <<"import", "a", "from", "'text'", ";">>, <<"export", "*", "from", "'text'", ";">>,
   <<"extern", "lib", "a", "from", "'text'", ";">>,
   <<"extern", "var", "a", "::", "b", ":", "_", ";">>,
   <<"extern", "cfunc", "a", "::", "b", "(", "x", ":", "_", ",", "...", ")", ":", "T", ";">>,
   <<"export", "extern", "cfunc", "a", "::", "b", "(", ")", ":", "_", ";">>,
   <<"cfunc", "f", "(", "a", ":", "_", ")", ":", "T", "{", "}">>,
   <<"comptime", "func", "f", "[", "T", "]", "|", "a", "|", "(", "x", ":", "...", "T", ")", ":", "_", "{", "}">>,
   <<"export", "func", "f", "(", ")", ":", "_", "{", "}">>,
   <<"func", "|", "(", "a", ":", "T", "=", "1", ")", "|", "f", "(", ")", ":", "_", "{", "}">>,
   <<";", "test", "'text'", "{", "_", ";", "}">>,
   <<"[", "[", "a", "]", "]", "interface", "T", "{", "}">>, <<"[", "[", "a", "]", "]">>}

Inner ==
  {<<"a">>, <<"1">>, <<"-", "a">>, <<"a", "+", "b">>, <<"a", "b">>, <<"f", "(", ")">>,
   <<"T", "[", "i32", "]">>, <<"?", "T">>, <<"a", "::", "b">>, <<"*", "T">>,
   <<"?", "*", "T", "&", "b", "|", "a">>, <<"<", "?", ">">>, <<"<", "(", "?", ")", ">">>,
   <<"[", "?", "]", "T">>, <<"func", "(", "?", ")", "->", "T">>}

Put(context, s) == SE!FlattenSeq([i \in DOMAIN context |-> IF context[i] = "_" THEN s ELSE <<context[i]>>])
Both(S) == S \cup {<<"(">> \o s \o <<")">> : s \in S}

OneDeep == {Put(c, <<"a">>) : c \in ExprContexts}
InVar  == {Put(<<"var", "x", "=", "_", ";">>, Put(c, s)) :
             c \in ExprContexts, s \in Both(OneDeep \cup {<<"1">>})}
InStmt == {Put(<<"func", "f", "(", ")", ":", "void", "{", "_", "}">>, Put(c, s)) :
             c \in StmtContexts, s \in Both(Inner) \cup OneDeep}
InDecl == {Put(c, s) : c \in DeclContexts, s \in Both(Inner) \cup OneDeep}

Operator(op) == IF op \in {"<<", ">>"} THEN [i \in 1..2 |-> IF op = "<<" THEN "<" ELSE ">"] ELSE <<op>>
Flats == {Put(<<"var", "x", "=", "a", "_", ";">>,
              Operator(o1) \o <<"b">> \o Operator(o2) \o <<"f">> \o Operator(o3) \o <<"T">>) :
            o1, o2, o3 \in FlatOps}

\* For the runs.
MCStatements == {Put(<<"func", "f", "(", ")", ":", "void", "{", "_", "}">>, Put(c, <<"a">>)) : c \in StmtContexts}
MCFiles == InVar \cup InStmt \cup InDecl \cup Flats
=============================================================================
