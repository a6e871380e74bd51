------------------------------ MODULE Pattern ------------------------------
(***************************************************************************)
(* The file name patterns of dirtree.c: validate_pattern and match, as the *)
(* code computes them over a pattern and a name, both sequences of         *)
(* characters, and what the README of the lab says of them (WellFormed,    *)
(* Matches).  A pointer is the position it points to, NULL is 0.           *)
(***************************************************************************)
EXTENDS Integers, Sequences, FiniteSets, FiniteSetsExt

NULL == 0
At(p, i) == IF i \in 1 .. Len(p) THEN p[i] ELSE ""

\* The ')' that closes the '(' at i: the first one that balances.
find_close(p, i) ==
    LET Count(c, j)  == Cardinality({k \in i .. j : p[k] = c})
        Balanced     == {j \in i + 1 .. Len(p) : Count("(", j) = Count(")", j)}
    IN  IF Balanced = {} THEN NULL ELSE Min(Balanced)

RECURSIVE ValidFrom(_, _)
ValidFrom(p, i) ==
    LET close == find_close(p, i)
    IN  CASE i > Len(p)     -> TRUE
          [] At(p, i) = "*" -> i # 1 /\ p[i - 1] \notin {"*", "("} /\ ValidFrom(p, i + 1)
          [] At(p, i) = "(" -> close \notin {NULL, i + 1} /\ ValidFrom(p, close + 1)
          [] At(p, i) = ")" -> FALSE
          [] OTHER          -> ValidFrom(p, i + 1)
validate_pattern(p) == p # <<>> /\ ValidFrom(p, 1)

\* The characters of s from i on fit the group, of which ? fits any.
match_group_once(s, i, group) ==
    /\ i + Len(group) - 1 <= Len(s)
    /\ \A k \in 1 .. Len(group) : group[k] \in {"?", s[i + k - 1]}

\* The name has ended: the rest of the pattern may be left out.
RECURSIVE Skippable(_, _)
Skippable(p, j) ==
    LET close == find_close(p, j)
    IN  CASE j > Len(p)         -> TRUE
          [] At(p, j) = "("     -> close # NULL /\ At(p, close + 1) = "*" /\ Skippable(p, close + 2)
          [] At(p, j + 1) = "*" -> Skippable(p, j + 2)
          [] OTHER              -> FALSE

\* The pattern from j on fits the start of the name from i on.  A repeated
\* group or character is tried no time first, and then once more each time.
RECURSIVE submatch(_, _, _, _)
submatch(s, i, p, j) ==
    LET close   == find_close(p, j)
        group   == SubSeq(p, j + 1, close - 1)
        Copies(n, part) == \A m \in 0 .. n - 1 : match_group_once(s, i + m * Len(part), part)
        Same(n) == i + n - 1 <= Len(s) /\ \A m \in i .. i + n - 1 : s[m] = p[j]
    IN  CASE j > Len(p)    -> TRUE
          [] i > Len(s)    -> Skippable(p, j)
          [] At(p, j) = "(" ->
                /\ close # NULL
                /\ IF At(p, close + 1) = "*"
                     THEN \E n \in 0 .. Len(s) :
                             Copies(n, group) /\ submatch(s, i + n * Len(group), p, close + 2)
                     ELSE Copies(1, group) /\ submatch(s, i + Len(group), p, close + 1)
          [] At(p, j + 1) = "*" -> \E n \in 0 .. Len(s) : Same(n) /\ submatch(s, i + n, p, j + 2)
          [] OTHER -> p[j] \in {"?", s[i]} /\ submatch(s, i + 1, p, j + 1)

\* Variant: only the start of the name is tried.
match_AtStart(s, p) == submatch(s, 1, p, 1)

match(s, p) == \E i \in 1 .. Len(s) + 1 : submatch(s, i, p, 1)

----------------------------------------------------------------------------
(* What the README says.                                                   *)

Special == {"*", "(", ")"}

\* A character or a group of some, each perhaps with a * behind it.
IsElement(w) ==
    LET body == IF At(w, Len(w)) = "*" THEN SubSeq(w, 1, Len(w) - 1) ELSE w
        inner == SubSeq(body, 2, Len(body) - 1)
    IN  \/ Len(body) = 1 /\ body[1] \notin Special
        \/ /\ Len(body) > 2 /\ body[1] = "(" /\ body[Len(body)] = ")"
           /\ \A k \in 1 .. Len(inner) : inner[k] \notin Special

\* The first position behind the element that starts at i, the longest there is.
Elements(p, i) == {j \in i .. Len(p) : IsElement(SubSeq(p, i, j))}
Behind(p, i) == IF Elements(p, i) = {} THEN NULL ELSE Max(Elements(p, i)) + 1

\* The positions where the elements of p start, one after the other, and the
\* one behind the last; NULL where none does.
Starts(p) ==
    LET at[k \in 1 .. Len(p) + 1] ==
            IF k = 1 THEN 1
            ELSE LET Step(i) == IF i \in {NULL, Len(p) + 1} THEN i ELSE Behind(p, i)
                 IN  Step(at[k - 1])
    IN  at
WellFormed(p) == p # <<>> /\ Starts(p)[Len(p) + 1] = Len(p) + 1

\* Nested groups and a * in a group need not be handled.
OutOfScope(p) ==
    \E i, k \in 1 .. Len(p) :
        /\ i < k /\ p[i] = "(" /\ p[k] \in {"(", "*"}
        /\ \A m \in i .. k : p[m] # ")"

\* The positions of s behind a part that fits the element w, from those in froms.
Fits(s, froms, w) ==
    LET starred == w[Len(w)] = "*"
        body    == IF starred THEN SubSeq(w, 1, Len(w) - 1) ELSE w
        part    == IF body[1] = "(" THEN SubSeq(body, 2, Len(body) - 1) ELSE body
        Once(i) == i + Len(part) <= Len(s)
                   /\ \A k \in 1 .. Len(part) : part[k] \in {"?", s[i + k]}
        \* behind[n]: after n copies
        behind[n \in 0 .. Len(s)] ==
            IF n = 0 THEN froms ELSE {i + Len(part) : i \in {k \in behind[n - 1] : Once(k)}}
    IN  IF starred THEN UNION {behind[n] : n \in 0 .. Len(s)}
        ELSE {i + Len(part) : i \in {k \in froms : Once(k)}}

\* Some part of the name fits the elements of the pattern, one after the other.
Matches(s, p) ==
    LET starts == Starts(p)
        reach[k \in 1 .. Len(p) + 1] ==
            IF k = 1 THEN 0 .. Len(s)
            ELSE LET from == starts[k - 1]
                 IN  IF from > Len(p) THEN reach[k - 1]
                     ELSE Fits(s, reach[k - 1], SubSeq(p, from, starts[k] - 1))
    IN  reach[Len(p) + 1] # {}

\* A ? with a * behind it, outside of the groups.
StarredAny(p) == \E i \in 1 .. Len(p) - 1 : p[i] = "?" /\ p[i + 1] = "*"
=============================================================================
