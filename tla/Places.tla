-------------------------------- MODULE Places --------------------------------
(***************************************************************************)
(* Where a value lies: a root (a variable, or a temporary) and the way     *)
(* from there, a number for each part, element, member or option that is   *)
(* gone into.  A pointer holds a place <<root, path>>, a slice             *)
(* <<root, path, length>> with the path of its first element.  The store   *)
(* is a function from the roots to their values.                           *)
(***************************************************************************)
EXTENDS Values, SequencesExt

RECURSIVE PartType(_, _), PartLive(_, _, _), PartData(_, _, _), PartWith(_, _, _, _)

\* The type of one part.
OnePart(T, i) == IF Kind(T) \in {"array", "option"} THEN Sub(T) ELSE Parts(T)[i]

PartType(T, path) == IF path = <<>> THEN T ELSE PartType(OnePart(Strip(T), Head(path)), Tail(path))

\* Whether there is such a part now: a union holds one member, an option may
\* hold nothing.
OnePartLive(T, d, i) ==
  CASE Kind(T) = "union"  -> d[1] = i
    [] Kind(T) = "option" -> d # <<>>
    [] Kind(T) = "array"  -> i \in 1..T[3]
    [] OTHER -> TRUE
OnePartData(T, d, i) == CASE Kind(T) = "union" -> d[2] [] Kind(T) = "option" -> d[1] [] OTHER -> d[i]

PartLive(T, d, path) ==
  path = <<>> \/ (/\ OnePartLive(Strip(T), d, Head(path))
                  /\ PartLive(OnePart(Strip(T), Head(path)), OnePartData(Strip(T), d, Head(path)), Tail(path)))

PartData(T, d, path) ==
  IF path = <<>> THEN d
  ELSE PartData(OnePart(Strip(T), Head(path)), OnePartData(Strip(T), d, Head(path)), Tail(path))

OnePartWith(T, d, i, x) ==
  CASE Kind(T) = "union" -> <<i, x>> [] Kind(T) = "option" -> <<x>> [] OTHER -> [d EXCEPT ![i] = x]

PartWith(T, d, path, x) ==
  IF path = <<>> THEN x
  ELSE OnePartWith(Strip(T), d, Head(path),
         PartWith(OnePart(Strip(T), Head(path)), OnePartData(Strip(T), d, Head(path)), Tail(path), x))

(***************************************************************************)
(* Reading and writing through a place.                                    *)
(***************************************************************************)
Live(st, p) == p[1] \in DOMAIN st /\ PartLive(st[p[1]].type, st[p[1]].data, p[2])
TypeAt(st, p) == PartType(st[p[1]].type, p[2])
DataAt(st, p) == PartData(st[p[1]].type, st[p[1]].data, p[2])

\* What lies at p, seen as a T: the very type, or the struct it starts with.
Seen(T, S, d) ==
  CASE Strip(S) = Strip(T) -> Value(T, d)
    [] Prefix(Strip(T), Strip(S)) -> Value(T, SubSeq(d, 1, Len(Strip(T)[3])))
    [] OTHER -> Bad("bytes", "read", T)
ReadAt(st, p, T) == IF ~ Live(st, p) THEN Bad("undefined", "read", T) ELSE Seen(T, TypeAt(st, p), DataAt(st, p))

\* Only what T covers is overwritten.
Covered(T, S, d, x) == IF Strip(S) = Strip(T) THEN x ELSE x \o SubSeq(d, Len(x) + 1, Len(d))
Writable(st, p, T) == Live(st, p) /\ (Strip(TypeAt(st, p)) = Strip(T) \/ Prefix(Strip(T), Strip(TypeAt(st, p))))
WriteAt(st, p, T, x) ==
  [st EXCEPT ![p[1]].data = PartWith(st[p[1]].type, st[p[1]].data, p[2], Covered(T, TypeAt(st, p), DataAt(st, p), x))]

\* Places next to others: one in an element, and n elements further on.
Into(p, i)  == <<p[1], Append(p[2], i)>>
Along(p, n) == <<p[1], Append(Front(p[2]), Last(p[2]) + n)>>
PointerTo(T, p) == Value(<<"ptr", T>>, p)
Pointed(v) == Sub(Strip(v.type))
SliceOf(T, p, n) == Value(<<"slice", T>>, <<p[1], p[2], n>>)
Start(s) == <<s.data[1], s.data[2]>>

(***************************************************************************)
(* The names of the temporaries.                                           *)
(***************************************************************************)
Temps == <<"t1", "t2", "t3", "t4", "t5", "t6", "t7", "t8", "t9">>
FreshTemp(st) == Temps[CHOOSE i \in DOMAIN Temps : Temps[i] \notin DOMAIN st /\ \A j \in 1..i - 1 : Temps[j] \in DOMAIN st]
Put(st, x, v) == (x :> v) @@ st
Drop(st, names) == [x \in DOMAIN st \ names |-> st[x]]
=============================================================================
