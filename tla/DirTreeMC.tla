----------------------------- MODULE DirTreeMC -----------------------------
(* Instances of DirTree for TLC.                                           *)
EXTENDS DirTree

Order == [c \in {"a", "b", "r", "s", "."} |->
             CASE c = "." -> 1 [] c = "a" -> 2 [] c = "b" -> 3 [] c = "r" -> 4 [] c = "s" -> 5]

r == <<"r">>
a == <<"a">>
b == <<"b">>
ab == <<"a", "b">>
aa == <<"a", "a">>
aab == <<"a", "a", "b">>
bb == <<"b", "b">>

\* Two directories with files, directories and a pipe below the first, in such
\* an order that the names alone would mix them; s is a file, and q is missing.
Types3 ==
    <<r>> :> "d" @@ <<r, a>> :> " " @@ <<r, ab>> :> "d" @@ <<r, b>> :> "d"
    @@ <<r, ab, a>> :> "d" @@ <<r, ab, a, b>> :> "l" @@ <<r, ab, b>> :> "f"
    @@ <<r, b, aa>> :> " " @@ <<r, b, ab>> :> " " @@ <<r, b, b>> :> "d" @@ <<r, b, b, aab>> :> " "
    @@ <<r, b, b, bb>> :> " " @@ <<<<"s">>>> :> " "
Sized(type, noread, nosearch) ==
    [type |-> type, size |-> [p \in DOMAIN type |-> Len(p)], noread |-> noread, nosearch |-> nosearch]
\* The path that is too long, and the files that may come up later.
Long == {<<r, b, b, aab>>}
Late == {<<r, ab, a, b>>, <<r, b, aa>>}

Listing(t, paths, patterns, depths) ==
    {[tree |-> t, there |-> paths, names |-> {}, filter |-> pattern # <<>>, pattern |-> pattern,
      max_depth |-> depth, args |-> <<<<r>>, <<<<"q">>>>, <<<<"s">>>>, <<r>>>>] :
        pattern \in patterns, depth \in depths}

Filters == {<<>>, <<"a", "a">>, <<"b">>, <<"b", "(", "b", ")">>, <<"a", "b", "*">>}
Listings ==
    LET all == DOMAIN Types3
    IN  Listing(Sized(Types3, {}, {}), all \ Long, Filters, 0 .. 3)
        \cup Listing(Sized(Types3, {}, {}), all \ Late, Filters, {2, 3})
        \cup Listing(Sized(Types3, {<<r, ab>>}, {<<r, b>>}), all \ Long, Filters, {3})

\* Patterns: all short ones, and three elements in a row; one empty directory.
Chars == {"a", "b", "?", "*", "(", ")"}
Parts == {<<"a">>, <<"b", "*">>, <<"?">>, <<"?", "*">>, <<"(", "a", "b", ")", "*">>,
          <<"(", "b", "?", ")">>, <<"(", "?", ")", "*">>}
Patterns == BoundedSeq(Chars, 4) \cup {x \o y \o z : x, y, z \in Parts}
Searches ==
    {[tree |-> Sized(<<<<".">>>> :> "d", {}, {}), there |-> {<<<<".">>>>}, names |-> BoundedSeq({"a", "b"}, 4),
      filter |-> TRUE, pattern |-> pattern, max_depth |-> 1, args |-> <<>>] : pattern \in Patterns}

AllInputs == Listings \cup Searches
Here == <<<<".">>>>
===========================================================================
