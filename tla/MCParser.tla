----------------------------- MODULE MCParser ------------------------------
(***************************************************************************)
(* The parser instantiated for TLC: short lines, every one there is.       *)
(***************************************************************************)
EXTENDS Parser

\* All lines of up to n of the characters of S.
Lines(S, n) == UNION {[1 .. k -> S] : k \in 1 .. n}

\* Operators, pipes and blanks; quotes; the three kinds of operators.
ShortLines ==
  Lines({"a", ">", "|", Blank}, 5) \cup Lines({"a", ">", "'", "|", Blank}, 4)
    \cup Lines({"a", "'", "\"", ">"}, 5) \cup Lines({"2", ">", "<", Blank}, 5)

\* Lines of the items of S with a blank between them, up to n.
Spaced(S, n) == {Tail(FlattenSeq([k \in DOMAIN s |-> <<Blank>> \o s[k]])) : s \in Lines(S, n)}

\* Commands at the limit of arguments, and pipelines at the limit of commands.
LongLines ==
  Spaced({<<"a">>, <<"2", ">">>, <<"|">>, <<"<">>}, 5) \cup Spaced({<<"a">>, <<"b", "c">>, <<">">>}, 5)

\* Lines at the limit of the array, and some that meet what they leave behind.
FewLines ==
  {<<"e", "x", "i", "t">>, <<"a", ">">>, <<"a", ">", "|", "b">>, <<"b", ">">>}
    \cup {[k \in 1 .. n |-> IF k \in {5, n} THEN c ELSE "b"] : n \in 9 .. 14, c \in {"b", ">", "|", Blank}}

MCStreams ==
  LET all == ShortLines \cup LongLines
  IN  all \cup {Append(l, Newline) : l \in all}
        \cup {l \o <<Newline>> \o m : l, m \in FewLines}
        \cup {l \o <<Newline>> \o m \o <<Newline>> : l, m \in FewLines}

\* The array is filled with 0, or with something, up to the end or not.
MCRemains ==
  {[i \in 1 .. MaxInput |-> c] : c \in {Nul, "b"}}
    \cup {[i \in 1 .. MaxInput |-> IF i = MaxInput THEN Nul ELSE "b"]}
=============================================================================
