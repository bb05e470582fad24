---------------------------- MODULE MCModuleLoad ----------------------------
(***************************************************************************)
(* Three modules: the entry, and two that import in any order the entry,   *)
(* themselves and each other, as imports or as proxy exports.              *)
(***************************************************************************)
EXTENDS ModuleLoad

CONSTANTS main, a, b, s

Source(is, own, fault) == [imports |-> is, own |-> own, fault |-> fault]
Of(p, re, package) == [to |-> p, re |-> re, package |-> package]

Plain(p) == Of(p, FALSE, FALSE)

EntrySources ==
  {Source(is, {}, "none") :
     is \in {<<>>, <<Plain(Entry)>>, <<Plain(a)>>,
             <<Plain(a), Plain(b)>>, <<Plain(b), Plain(a)>>, <<Plain(a), Plain(b), Plain(a)>>,
             <<Plain(Missing), Plain(a)>>, <<Of(a, TRUE, FALSE), Of(b, TRUE, FALSE)>>}}
  \cup {Source(<<Plain(a)>>, {}, "sema"), Source(<<>>, {}, "unreadable")}

LibrarySources(p, other) ==
  LET one == {<<>>} \cup {<<Of(q, re, FALSE)>> : q \in Path, re \in BOOLEAN}
                    \cup {<<Of(other, TRUE, TRUE)>>}
      two == {<<Of(q, re, FALSE), Of(r, rf, FALSE)>> :
                q \in {Entry, other}, r \in {Entry, other}, re, rf \in BOOLEAN}
  IN {Source(is, own, "none") : is \in one \cup two, own \in {{}, {s}}}
     \cup {Source(is, {}, "sema") : is \in one}
     \cup {Source(<<>>, {}, f) : f \in {"unreadable", "syntax"}}
     \cup {Source(<<Plain(Missing), Plain(other)>>, {}, "none")}

MCSources(p) ==
  IF p = Entry THEN EntrySources
  ELSE IF p = a THEN LibrarySources(a, b) ELSE LibrarySources(b, a)
=============================================================================
