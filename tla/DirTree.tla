------------------------------ MODULE DirTree ------------------------------
(***************************************************************************)
(* dirtree.c: main's loop over the directories named on the command line,  *)
(* process_dir, which lists one of them in depth, and subtree_has_match,   *)
(* which looks ahead for a match below a directory whose own name does not *)
(* fit the pattern.  The recursion is a stack of frames, the innermost     *)
(* first.  A step is one call that reads the file system with what the     *)
(* code does of its result; between two of them other programs create and  *)
(* remove files.  A path is the sequence of its names, a name a sequence   *)
(* of characters.                                                          *)
(***************************************************************************)
EXTENDS Pattern, SequencesExt

CONSTANTS
    Inputs,         \* the trees, patterns, depths and arguments of the runs
    Rank,           \* the order of the characters
    MAX_DIR, MAX_DEPTH, MAX_PATH_LEN,
    CURDIR,
    MaxCreated, MaxRemoved  \* bounds of the model: files that come and go
ASSUME DirTreeAssumption ==
    /\ MAX_DIR \in Nat \ {0} /\ MAX_DEPTH \in Nat \ {0} /\ MAX_PATH_LEN \in Nat
    /\ MaxCreated \in Nat /\ MaxRemoved \in Nat

VARIABLES
    input,              \* the tree (of each path that may exist its type and size,
                        \* directories one may not read or search), pattern, max_depth, args
    there,              \* the paths that exist
    created, removed,   \* how many came and went
    main, j,            \* where main is; the directory it is at
    stack, found,       \* the calls of process_dir and subtree_has_match; what the
                        \* search has found
    opened,             \* the DIRs that are open
    out, denied,        \* the lines of this directory, and those on stderr
    stats, tstat,       \* its summary, and the total
    printed             \* the summaries printed
tree == input.tree
fs   == <<there, created, removed>>
vars == <<input, fs, main, j, stack, found, opened, out, denied, stats, tstat, printed>>

Filtering  == input.filter
max_depth  == input.max_depth
Name(path) == Last(path)
IsDir(path) == tree.type[path] = "d"

Types == {"d", " ", "l", "f", "s"}
\* struct summary.
Zero == [count |-> [t \in Types |-> 0], size |-> 0]

Init ==
    /\ input \in Inputs /\ there = input.there /\ created = 0 /\ removed = 0
    /\ main = "args" /\ j = 1
    /\ stack = <<>> /\ found = FALSE /\ opened = 0 /\ out = <<>> /\ denied = {}
    /\ stats = Zero /\ tstat = Zero /\ printed = <<>>

----------------------------------------------------------------------------
(* Other programs.                                                         *)

FileAppears ==
    /\ created < MaxCreated /\ main = "process"
    /\ \E path \in (DOMAIN tree.type) \ there :
          /\ Len(path) > 1 /\ Front(path) \in there
          /\ there' = there \cup {path}
    /\ created' = created + 1
    /\ UNCHANGED <<input, removed, main, j, stack, found, opened, out, denied, stats, tstat, printed>>

FileVanishes ==
    /\ removed < MaxRemoved /\ main = "process"
    /\ \E path \in there :
          /\ \A q \in there : ~IsStrictPrefix(path, q)
          /\ there' = there \ {path}
    /\ removed' = removed + 1
    /\ UNCHANGED <<input, created, main, j, stack, found, opened, out, denied, stats, tstat, printed>>

----------------------------------------------------------------------------
(* Helpers.                                                                *)

\* strcmp(a, b) < 0.
Precedes(a, b) ==
    \E k \in 1 .. Len(b) :
        /\ k <= Len(a) + 1 /\ SubSeq(a, 1, k - 1) = SubSeq(b, 1, k - 1)
        /\ k <= Len(a) => Rank[a[k]] < Rank[b[k]]

\* Directories first, and then by name.
dirent_compare(p, q) ==
    IF IsDir(p) = IsDir(q) THEN Precedes(Name(p), Name(q)) ELSE IsDir(p)

\* What get_next returns one by one, sorted: the entries of the directory.
Entries(dir) ==
    SetToSortSeq({p \in there : Len(p) = Len(dir) + 1 /\ IsPrefix(dir, p)}, dirent_compare)

\* make_child_path fits into its buffer: the names, a / before each but the first.
\* (A root given with a / at its end gets no second one; no root of the model has one.)
PathFits(path) == FoldSeq(LAMBDA name, n : n + Len(name) + 1, 0, path) - 1 < MAX_PATH_LEN

lstat(path)   == path \in there /\ (Len(path) > 1 => Front(path) \notin tree.nosearch)
opendir(path) == path \in there /\ IsDir(path) /\ path \notin tree.noread

entry_matches_filter(name) == Filtering => match(name, input.pattern)

summary_add(a, b) ==
    [count |-> [t \in Types |-> a.count[t] + b.count[t]], size |-> a.size + b.size]
summary_add_entry(s, path) ==
    [s EXCEPT !.count[tree.type[path]] = @ + 1, !.size = @ + tree.size[path]]

Line(what, path) == [what |-> what, path |-> path]

----------------------------------------------------------------------------
(* process_dir and subtree_has_match.                                      *)

Call(fn, dir, depth) == [fn |-> fn, dir |-> dir, depth |-> depth, list |-> <<>>, at |-> "opendir"]
Top      == Head(stack)
In(fn, at) == main = "process" /\ stack # <<>> /\ Top.fn = fn /\ Top.at = at
Entry    == Head(Top.list)
Next_entry == [Top EXCEPT !.list = Tail(@), !.at = "loop"]
Return     == stack' = Tail(stack)
SkipEntry  == stack' = <<Next_entry>> \o Tail(stack)
GoDown     == stack' = <<Call("process_dir", Entry, Top.depth + 1), Next_entry>> \o Tail(stack)
LookBelow(caller) ==
    stack' = <<Call("subtree_has_match", Entry, Top.depth + 1), caller>> \o Tail(stack)

\* opendir, the entries read and sorted; or its failure.
OpenDir(fn) ==
    LET dir == Top.dir
    IN  /\ In(fn, "opendir")
        /\ IF opendir(dir)
             THEN /\ opened' = opened + 1
                  /\ stack' = <<[Top EXCEPT !.list = Entries(dir), !.at = "loop"]>> \o Tail(stack)
                  /\ UNCHANGED <<out, denied>>
             ELSE /\ Return
                  /\ out' = IF fn = "process_dir" /\ dir \notin there
                              THEN Append(out, Line("missing", dir)) ELSE out
                  /\ denied' = IF fn = "process_dir" /\ dir \in there \cap tree.noread
                                 THEN denied \cup {dir} ELSE denied
                  /\ UNCHANGED opened
        /\ UNCHANGED <<input, fs, main, j, found, stats, tstat, printed>>

\* Variant: the loop goes on when a match is found, and forgets it.
SearchEntry_GoesOn ==
    LET looked_at == PathFits(Entry) /\ lstat(Entry)
        matches   == entry_matches_filter(Name(Entry))
    IN  /\ In("subtree_has_match", "loop") /\ Top.list # <<>>
        /\ found' = (looked_at /\ matches)
        /\ IF looked_at /\ ~matches /\ IsDir(Entry) /\ Top.depth < max_depth
             THEN LookBelow(Next_entry) ELSE SkipEntry
        /\ UNCHANGED <<input, fs, main, j, opened, out, denied, stats, tstat, printed>>

\* An entry below a directory that did not match.
SearchEntry ==
    LET looked_at == PathFits(Entry) /\ lstat(Entry)
        matches   == entry_matches_filter(Name(Entry))
    IN  /\ In("subtree_has_match", "loop") /\ ~found /\ Top.list # <<>>
        /\ found' = (looked_at /\ matches)
        /\ IF looked_at /\ ~matches /\ IsDir(Entry) /\ Top.depth < max_depth
             THEN LookBelow(Next_entry) ELSE SkipEntry
        /\ UNCHANGED <<input, fs, main, j, opened, out, denied, stats, tstat, printed>>

SearchReturns ==
    /\ In("subtree_has_match", "loop") /\ (found \/ Top.list = <<>>)
    /\ Return
    /\ opened' = opened - 1
    /\ UNCHANGED <<input, fs, main, j, found, out, denied, stats, tstat, printed>>

\* Variant: the directory stays open when a path is too long.
PathTooLong_KeepsOpen ==
    /\ In("process_dir", "loop") /\ Top.list # <<>> /\ ~PathFits(Entry)
    /\ Return
    /\ UNCHANGED <<input, fs, main, j, found, opened, out, denied, stats, tstat, printed>>

\* make_child_path fails: the rest of the directory is left out.
PathTooLong ==
    /\ In("process_dir", "loop") /\ Top.list # <<>> /\ ~PathFits(Entry)
    /\ Return
    /\ opened' = opened - 1
    /\ UNCHANGED <<input, fs, main, j, found, out, denied, stats, tstat, printed>>

\* The entry is gone, or the directory may not be searched.
LstatFails ==
    /\ In("process_dir", "loop") /\ Top.list # <<>> /\ PathFits(Entry) /\ ~lstat(Entry)
    /\ SkipEntry
    /\ denied' = IF Filtering /\ Top.dir \in tree.nosearch THEN denied \cup {Top.dir} ELSE denied
    /\ UNCHANGED <<input, fs, main, j, found, opened, out, stats, tstat, printed>>

\* The entry is printed and counted if it matches, as all do without a filter;
\* the search below a directory that does not comes first.
PrintEntry ==
    LET matches == entry_matches_filter(Name(Entry))
        below   == IsDir(Entry) /\ Top.depth < max_depth
    IN  /\ In("process_dir", "loop") /\ Top.list # <<>> /\ PathFits(Entry) /\ lstat(Entry)
        /\ IF matches
             THEN /\ out' = Append(out, Line("entry", Entry))
                  /\ stats' = summary_add_entry(stats, Entry)
             ELSE UNCHANGED <<out, stats>>
        /\ found' = FALSE
        /\ CASE matches /\ below  -> GoDown
             [] ~matches /\ below -> LookBelow([Top EXCEPT !.at = "searched"])
             [] OTHER             -> SkipEntry
        /\ UNCHANGED <<input, fs, main, j, opened, denied, tstat, printed>>

\* Variant: the name of a directory that does not match is never printed.
SearchedBelow_Nameless ==
    /\ In("process_dir", "searched")
    /\ GoDown
    /\ UNCHANGED <<input, fs, main, j, found, opened, out, denied, stats, tstat, printed>>

\* Back from subtree_has_match: the name alone if it found a match; then the
\* directory is processed in any case.
SearchedBelow ==
    /\ In("process_dir", "searched")
    /\ out' = IF found THEN Append(out, Line("name", Entry)) ELSE out
    /\ GoDown
    /\ UNCHANGED <<input, fs, main, j, found, opened, denied, stats, tstat, printed>>

ProcessReturns ==
    /\ In("process_dir", "loop") /\ Top.list = <<>>
    /\ Return
    /\ opened' = opened - 1
    /\ UNCHANGED <<input, fs, main, j, found, out, denied, stats, tstat, printed>>

----------------------------------------------------------------------------
(* main.                                                                   *)

directories ==
    IF input.args = <<>> THEN <<CURDIR>>
    ELSE SubSeq(input.args, 1, Min({MAX_DIR, Len(input.args)}))

\* The options: syntax() and the message on the pattern end the program.
ParseArguments ==
    /\ main = "args"
    /\ main' = CASE max_depth \notin 1 .. MAX_DEPTH                    -> "syntax"
                 [] Filtering /\ ~validate_pattern(input.pattern) -> "invalid"
                 [] OTHER                                              -> "roots"
    /\ UNCHANGED <<input, fs, j, stack, found, opened, out, denied, stats, tstat, printed>>

\* Print the summary, add it to the total, and go on to the next directory.
Summarise(s) ==
    /\ printed' = Append(printed, s)
    /\ tstat' = summary_add(tstat, s)
    /\ stats' = s
    /\ j' = j + 1
    /\ main' = "roots"

\* Variant: summary_reset is missing.
NextDirectory_NoReset ==
    /\ main = "roots" /\ j <= Len(directories)
    /\ denied' = {}
    /\ IF directories[j] \in there
         THEN /\ stack' = <<Call("process_dir", directories[j], 1)>>
              /\ out' = <<>>
              /\ main' = "process"
              /\ UNCHANGED <<j, stats, tstat, printed>>
         ELSE /\ out' = <<Line("missing", directories[j])>>
              /\ Summarise(stats)
              /\ UNCHANGED stack
    /\ UNCHANGED <<input, fs, found, opened>>

\* lstat of the next directory; one that is missing has an empty summary.  (So has one
\* that lstat fails on for another reason, without the line that says "missing"; a root
\* of the model is at the top, where being missing is the only reason.)
NextDirectory ==
    /\ main = "roots" /\ j <= Len(directories)
    /\ denied' = {}
    /\ IF directories[j] \in there
         THEN /\ stack' = <<Call("process_dir", directories[j], 1)>>
              /\ out' = <<>> /\ stats' = Zero
              /\ main' = "process"
              /\ UNCHANGED <<j, tstat, printed>>
         ELSE /\ out' = <<Line("missing", directories[j])>>
              /\ Summarise(Zero)
              /\ UNCHANGED stack
    /\ UNCHANGED <<input, fs, found, opened>>

DirectoryDone ==
    /\ main = "process" /\ stack = <<>>
    /\ Summarise(stats)
    /\ UNCHANGED <<input, fs, stack, found, opened, out, denied>>

\* print_aggregate_summary, if there was more than one; main returns.
Finish ==
    /\ main = "roots" /\ j > Len(directories)
    /\ main' = "done"
    /\ printed' = IF Len(directories) > 1 THEN Append(printed, tstat) ELSE printed
    /\ UNCHANGED <<input, fs, j, stack, found, opened, out, denied, stats, tstat>>

Step ==
    \/ ParseArguments \/ NextDirectory \/ DirectoryDone \/ Finish
    \/ OpenDir("process_dir") \/ OpenDir("subtree_has_match")
    \/ SearchEntry \/ SearchReturns
    \/ PathTooLong \/ LstatFails \/ PrintEntry \/ SearchedBelow \/ ProcessReturns

Next == Step \/ FileAppears \/ FileVanishes
Spec == Init /\ [][Next]_vars

----------------------------------------------------------------------------
(* Properties.                                                             *)

Names(path) == Filtering => Matches(Name(path), input.pattern)

\* The paths below the directory that are within the depth and can be reached.
InReach(root) ==
    {p \in there :
        /\ IsStrictPrefix(root, p) /\ Len(p) - Len(root) <= max_depth
        /\ \A k \in Len(root) .. Len(p) - 1 :
              LET q == SubSeq(p, 1, k)
              IN  IsDir(q) /\ q \notin tree.noread \cup tree.nosearch}

\* The order of the listing: a directory before what is in it, its entries
\* sorted, directories first.
ListedBefore(p, q) ==
    \/ IsStrictPrefix(p, q)
    \/ \E k \in 1 .. Min({Len(p), Len(q)}) :
          /\ SubSeq(p, 1, k - 1) = SubSeq(q, 1, k - 1) /\ p[k] # q[k]
          /\ dirent_compare(SubSeq(p, 1, k), SubSeq(q, 1, k))

\* Unless files come and go meanwhile or a path is too long, the listing is the
\* one the README describes: each entry in reach whose name matches in full, and
\* of the others the names of the directories with a match below them.  The search
\* below and the listing, which each read the directories for themselves, agree.
ListsAsDocumented ==
    main = "process" /\ stack = <<>> /\ created + removed = 0 =>
        LET root  == directories[j]
            reach == InReach(root)
            shown == {p \in reach : Names(p) \/ \E q \in reach : IsStrictPrefix(p, q) /\ Names(q)}
        IN  (\A p \in there : PathFits(p)) =>
            /\ ToSet(out) = {Line(IF Names(p) THEN "entry" ELSE "name", p) : p \in shown}
            /\ \A k \in 2 .. Len(out) : ListedBefore(out[k - 1].path, out[k].path)

Listed(what) == {k \in 1 .. Len(out) : out[k].what = what}

\* Whatever happens to the files meanwhile: the summary counts the entries printed
\* in full, of this directory alone; the total is the sum of the summaries.
SummariesAddUp ==
    /\ stats = FoldFunction(LAMBDA path, s : summary_add_entry(s, path), Zero,
                            [k \in Listed("entry") |-> out[k].path])
    /\ tstat = FoldSeq(summary_add, Zero, SubSeq(printed, 1, j - 1))

\* Each line stands below the line of its directory, with nothing of another
\* directory in between, so that the indentation tells the tree; also when files
\* vanish meanwhile, and when they come up, too, if all are listed.
StandsBelowItsDirectory ==
    created = 0 \/ ~Filtering =>
        \A k \in Listed("entry") \cup Listed("name") :
            Len(out[k].path) > Len(directories[Min({j, Len(directories)})]) + 1 /\ main = "process" =>
                \E i \in 1 .. k - 1 :
                    /\ out[i].path = Front(out[k].path)
                    /\ \A m \in i + 1 .. k - 1 : IsStrictPrefix(out[i].path, out[m].path)

\* Every directory opened is closed, on the error paths too, and never more are
\* open at once than the depth, the search below included.
DirsAreClosed ==
    opened <= max_depth /\ opened = Cardinality({k \in DOMAIN stack : stack[k].at # "opendir"})

\* The patterns refused are the ones that are not well formed, and a pattern
\* finds the names it describes; but for a ? that is repeated, in whose place
\* only question marks are taken.
MatchesAsDocumented ==
    Filtering /\ ~OutOfScope(input.pattern) =>
        /\ main = "invalid" => ~WellFormed(input.pattern)
        /\ main = "roots" =>
              /\ WellFormed(input.pattern)
              /\ \A name \in input.names :
                    /\ match(name, input.pattern) => Matches(name, input.pattern)
                    /\ Matches(name, input.pattern) /\ ~StarredAny(input.pattern) =>
                          match(name, input.pattern)
=============================================================================
