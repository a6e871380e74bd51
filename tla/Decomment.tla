----------------------------- MODULE Decomment -----------------------------
(***************************************************************************)
(* The automaton of decomment_past.c, one step per getchar(), and what the *)
(* readme of the lab asks of its output, stated over the tokens of the     *)
(* whole text: comments, string and character constants, other characters. *)
(***************************************************************************)
EXTENDS Integers, Sequences, FiniteSets, FiniteSetsExt, SequencesExt

CONSTANTS
    Letter,         \* a character that means nothing to the automaton
    MaxText         \* bound of the model: the length of the text
ASSUME DecommentAssumption == MaxText \in Nat /\ Letter \notin {"/", "*", "\"", "'", "\\", "\n", " "}

VARIABLES
    text,                       \* what has been read
    state, cquote_type, ibackslash,
    line_cur, line_com,
    out, err,                   \* stdout; the line named on stderr, 0 for none
    done
vars == <<text, state, cquote_type, ibackslash, line_cur, line_com, out, err, done>>

Quotes == {"\"", "'"}
Characters == {Letter, "/", "*", "\\", "\n"} \cup Quotes

Init ==
    /\ text = <<>> /\ state = "START" /\ cquote_type = "\"" /\ ibackslash = 0
    /\ line_cur = 1 /\ line_com = -1 /\ out = <<>> /\ err = 0 /\ done = FALSE

putchar(c) == out' = Append(out, c)

Start(ich) ==
    /\ state = "START"
    /\ state' = IF ich = "/" THEN "WAIT_COMMENT" ELSE IF ich \in Quotes THEN "QUOTE" ELSE state
    /\ cquote_type' = IF ich \in Quotes THEN ich ELSE cquote_type
    /\ IF ich = "/" THEN UNCHANGED out ELSE putchar(ich)
    /\ UNCHANGED <<ibackslash, line_com>>

\* Variant: the backslash is not remembered.
handleQuote_NoEscape(ich) ==
    /\ state = "QUOTE"
    /\ putchar(ich)
    /\ state' = IF ich = cquote_type THEN "START" ELSE state
    /\ UNCHANGED <<ibackslash, cquote_type, line_com>>

handleQuote(ich) ==
    /\ state = "QUOTE"
    /\ putchar(ich)
    /\ state' = IF ich = cquote_type /\ ibackslash = 0 THEN "START" ELSE state
    /\ ibackslash' = IF ich = "\\" THEN 1 ELSE 0
    /\ UNCHANGED <<cquote_type, line_com>>

\* Variant: the line of the comment is not recorded.
handleWaitComment_NoLine(ich) ==
    /\ state = "WAIT_COMMENT"
    /\ state' = CASE ich = "/" -> "SINGLELINE" [] ich = "*" -> "MULTILINE" [] OTHER -> "START"
    /\ out' = out \o IF ich \in {"/", "*"} THEN <<" ">> ELSE <<"/", ich>>
    /\ UNCHANGED <<ibackslash, cquote_type, line_com>>

handleWaitComment(ich) ==
    /\ state = "WAIT_COMMENT"
    /\ state' = CASE ich = "/" -> "SINGLELINE" [] ich = "*" -> "MULTILINE" [] OTHER -> "START"
    /\ out' = out \o IF ich \in {"/", "*"} THEN <<" ">> ELSE <<"/", ich>>
    /\ line_com' = IF ich = "*" THEN line_cur ELSE line_com
    /\ UNCHANGED <<ibackslash, cquote_type>>

SingleLine(ich) ==
    /\ state = "SINGLELINE"
    /\ IF ich = "\n" THEN state' = "START" /\ out' = out \o <<" ", "\n">>
                     ELSE UNCHANGED <<state, out>>
    /\ UNCHANGED <<ibackslash, cquote_type, line_com>>

MultiLine(ich) ==
    /\ state = "MULTILINE"
    /\ state' = IF ich = "*" THEN "WAIT_END" ELSE state
    /\ IF ich = "\n" THEN putchar(ich) ELSE UNCHANGED out
    /\ UNCHANGED <<ibackslash, cquote_type, line_com>>

handleWaitEnd(ich) ==
    /\ state = "WAIT_END"
    /\ state' = CASE ich = "/" -> "START" [] ich = "*" -> "WAIT_END" [] OTHER -> "MULTILINE"
    /\ UNCHANGED <<out, ibackslash, cquote_type, line_com>>

\* A character, by the state; the last one a text has room for is a newline.
Read ==
    /\ ~done
    /\ \E ich \in Characters :
          /\ Len(text) < MaxText - (IF ich = "\n" THEN 0 ELSE 1)
          /\ \/ Start(ich) \/ handleQuote(ich) \/ handleWaitComment(ich)
             \/ SingleLine(ich) \/ MultiLine(ich) \/ handleWaitEnd(ich)
          /\ text' = Append(text, ich)
          /\ line_cur' = IF ich = "\n" THEN line_cur + 1 ELSE line_cur
    /\ UNCHANGED <<err, done>>

\* The line of a comment that is open is reported.  (main returns EXIT_SUCCESS in
\* either case; the exit status is not a variable.)
EndOfFile ==
    /\ ~done /\ done' = TRUE
    /\ err' = IF state \in {"MULTILINE", "WAIT_END"} THEN line_com ELSE err
    /\ UNCHANGED <<text, state, cquote_type, ibackslash, line_cur, line_com, out>>

Next == Read \/ EndOfFile
Spec == Init /\ [][Next]_vars

----------------------------------------------------------------------------
(* What the readme asks for.                                               *)

At(i) == IF i \in 1 .. Len(text) THEN text[i] ELSE ""
FirstOf(positions) == Min(positions \cup {Len(text)})

\* How the token that starts at i is called, and where it ends: a comment at the
\* first end there is, a constant at the first such quote with an even number of
\* backslashes before it, and each at the end of the text if there is none.
Kind(i) ==
    CASE At(i) \in Quotes                  -> "constant"
      [] At(i) = "/" /\ At(i + 1) = "/"    -> "line"
      [] At(i) = "/" /\ At(i + 1) = "*"    -> "block"
      [] OTHER                             -> "other"
Backslashes(i, k) == CHOOSE n \in 0 .. k - i - 1 :
    /\ \A m \in 1 .. n : At(k - m) = "\\"
    /\ k - n - 1 = i \/ At(k - n - 1) # "\\"
End(i) ==
    LET later == i + 1 .. Len(text)
    IN  CASE Kind(i) = "constant" -> FirstOf({k \in later : At(k) = At(i) /\ Backslashes(i, k) % 2 = 0})
          [] Kind(i) = "line"     -> FirstOf({k \in later : At(k + 1) = "\n"})
          [] Kind(i) = "block"    -> FirstOf({k \in later : k > i + 2 /\ At(k - 1) = "*" /\ At(k) = "/"})
          [] OTHER                -> i

\* The positions where tokens start, one after the other.
Starts ==
    LET Next_start(sofar, k) == IF k = sofar.next THEN [starts |-> Append(sofar.starts, k), next |-> End(k) + 1]
                                ELSE sofar
    IN  FoldLeft(Next_start, [starts |-> <<>>, next |-> 1], [k \in 1 .. Len(text) |-> k]).starts

Token(i)    == SubSeq(text, i, End(i))
Newlines(s) == SelectSeq(s, LAMBDA c : c = "\n")

\* What is to become of a token: a comment is one space and its newlines.
Rendered(i) == IF Kind(i) \in {"block", "line"} THEN <<" ">> \o Newlines(Token(i)) ELSE Token(i)

Unterminated(i) ==
    Kind(i) = "block" /\ ~(End(i) > i + 2 /\ At(End(i) - 1) = "*" /\ At(End(i)) = "/")

(* What the program does otherwise.                                        *)

\* The newlines behind a * in a comment are lost; the * that opens it does not count.
Lost(i) == {k \in i + 3 .. End(i) : Kind(i) = "block" /\ At(k - 1) = "*" /\ At(k) = "\n"}

\* A comment // that a newline ends leaves a second space.
Printed(i) ==
    IF Kind(i) = "line" /\ At(End(i) + 1) = "\n" THEN Append(Rendered(i), " ")
    ELSE SubSeq(Rendered(i), 1, Len(Rendered(i)) - Cardinality(Lost(i)))

\* A constant right behind a / is not noticed, and a quote behind two backslashes, or
\* any even number of them, is not taken for the end of its constant.
SlashQuote(i, starts) == Kind(i) = "constant" /\ At(i - 1) = "/" /\ i - 1 \in starts
EvenBackslashes(i) ==
    /\ Kind(i) = "constant" /\ End(i) > i /\ At(End(i)) = At(i)
    /\ Backslashes(i, End(i)) > 0 /\ Backslashes(i, End(i)) % 2 = 0
LosesItsWay(starts) == \E i \in starts : SlashQuote(i, starts) \/ EvenBackslashes(i)

----------------------------------------------------------------------------
(* Properties.                                                             *)

\* Every text whose last line ends comes out as the readme asks, but for four
\* mistakes.  Two of them change the spaces and newlines of a comment only, and Printed
\* says by how much: the readme wants one space for abc//def (l. 31) and a blank line
\* for every line of a comment (l. 32).  After the other two the automaton has lost its
\* way, and nothing is said of the text.
OutputAsDocumented ==
    done /\ (text # <<>> => Last(text) = "\n") =>
        LET tokens == Starts
        IN  \/ LosesItsWay(Range(tokens))
            \/ out = FlattenSeq([n \in 1 .. Len(tokens) |-> Printed(tokens[n])])

\* The line reported is the one where the comment that does not end begins, and
\* the newlines of the text are kept, but for those that are Lost.
LinesAsDocumented ==
    done =>
        LET starts == Range(Starts)
            open   == {i \in starts : Unterminated(i)}
        IN  \/ LosesItsWay(starts)
            \/ /\ err = IF open = {} THEN 0 ELSE 1 + Len(Newlines(SubSeq(text, 1, Min(open))))
               /\ Len(Newlines(out)) + Cardinality(UNION {Lost(i) : i \in starts}) = Len(Newlines(text))
=============================================================================
