------------------------------- MODULE Parser -------------------------------
(***************************************************************************)
(* How myshell reads a line (myshell.c), takes it apart in place           *)
(* (parser.c) and validates it (executor.c).                               *)
(*                                                                         *)
(* The line lies in one array for the life of the shell.  Tokens are       *)
(* pointers into it: a token ends where a 0 was written over a character,  *)
(* and its text is what stands there when the command is run, not when the *)
(* token was found.  A step is one turn of a loop: a segment of a pipeline *)
(* or a token.                                                             *)
(***************************************************************************)
EXTENDS Integers, SequencesExt

CONSTANTS
  MaxInput,   \* size of the array
  MaxArgs,    \* one more than the arguments a command may have
  MaxCmds,    \* commands in a pipeline
  Letters,    \* the characters that mean nothing to the parser
  Streams,    \* what may be typed, to the end of input
  Remains     \* what the array may hold at the start: it is not initialised

Nul == "0"
Newline == "newline"
Blank == " "        \* a space or a tab
Quotes == {"'", "\""}
Chars == Letters \cup Quotes \cup {"<", ">", "2", "|", Blank, Nul}

ASSUME SizeAssumption ==
  /\ MaxInput \in Nat /\ MaxInput >= 3
  /\ {MaxArgs, MaxCmds} \subseteq Nat /\ MaxArgs >= 2 /\ MaxCmds >= 1
ASSUME LettersAssumption == Letters \cap (Quotes \cup {"<", ">", "2", "|", Blank, Nul, Newline}) = {}
ASSUME StreamsAssumption == Streams \subseteq Seq((Chars \ {Nul}) \cup {Newline})
ASSUME RemainsAssumption == Remains \subseteq [1 .. MaxInput -> Chars]

Operators == {<<"<">>, <<">">>, <<"2", ">">>}
Nowhere == 0        \* a null pointer

VARIABLES
  \* main
  pc,         \* where it is
  stream,     \* characters still to be read
  buffer,     \* input
  piped,      \* whether the line goes through parse_pipeline
  error,      \* error_msg, or "" when has_error is 0
  warned,     \* whether a command of the line was reported as too long
  \* parse_pipeline
  segment,    \* segment_start
  scan,       \* cursor: where the segment ended
  more,       \* whether a '|' ended it
  cmds,       \* the commands parsed so far
  \* parse_command
  cursor,     \* where the next token is looked for
  cmd,        \* the command: arguments and files, as pointers
  operator,   \* the operator whose file comes next
  \* History
  typed,      \* the line, as it was typed, unless it was too long
  newline,    \* whether it ended with a newline, rather than at the end of input
  segments,   \* the first and last character of the segments, including the '|'
  taken       \* the characters that were part of a token

lineVars == <<piped, typed, newline>>
pipelineVars == <<segment, scan, more, cmds, segments>>
commandVars == <<cursor, cmd, operator, taken>>
vars == <<pc, stream, buffer, error, warned, lineVars, pipelineVars, commandVars>>

-----------------------------------------------------------------------------
(* Strings in the array *)

\* Whether the string at c ends within the array b.
Closed(b, c) == \E i \in c .. MaxInput : b[i] = Nul

\* The place just behind the array.  What is read ends before it (see Overrun).
Beyond == MaxInput + 1
Places == 1 .. Beyond
Char(b, i) == IF i <= MaxInput THEN b[i] ELSE Nul

\* The first place from i on with a character of S, which 0 belongs to.
FirstOf(b, i, S) == Min({j \in i .. Beyond : Char(b, j) \in S})

Text(b, i) == [k \in 1 .. FirstOf(b, i, {Nul}) - i |-> b[i + k - 1]]

\* b with 0 written at the places of S.
Cut(b, S) == [i \in 1 .. MaxInput |-> IF i \in S THEN Nul ELSE b[i]]

IsRedirectionOperator(text) == text \in Operators

\* A quote opens when none is open, and closes only its own kind.
Toggled(quote, c) ==
  IF c \in Quotes /\ quote = "none" THEN c
  ELSE IF c = quote THEN "none" ELSE quote

\* The quote that is open before each character of s, read from i to last.
Quoting(s, i, last) ==
  LET quote[j \in i .. last + 1] ==
        IF j = i THEN "none" ELSE Toggled(quote[j - 1], s[j - 1])
  IN  quote

-----------------------------------------------------------------------------
(* next_token *)

\* What a call returns: the token, or Nowhere; the cursor; the array; whether
\* a quote was left open; the characters the token was made of.
Result(token, next, b, open, used) ==
  [token |-> token, next |-> next, buffer |-> b, open |-> open, used |-> used]

\* The characters of the operator at p, if there is one.
OperatorAt(b, p) ==
  IF Char(b, p) = "2" /\ Char(b, p + 1) = ">" THEN 2
  ELSE IF Char(b, p) \in {"<", ">"} THEN 1 ELSE 0

\* Two bugs: the cursor is moved too far, or not at all.
OperatorTokenTooFar(b, p, n) == Result(p, p + n + 2, Cut(b, {p + n}), FALSE, p .. p + n - 1)
OperatorTokenStuck(b, p, n) == Result(p, p, Cut(b, {p + n}), FALSE, p .. p + n - 1)

\* An operator of n characters at p: the character after it becomes 0 and is
\* passed over, whatever it was.
OperatorToken(b, p, n) ==
  Result(p, p + n + 1, Cut(b, {p + n}), FALSE, p .. p + n - 1)

\* What ended a word is passed over, unless it is the 0 at nul.
\* A bug: that is passed over too.
PastAny(end, nul) == end + 1

Past(end, nul) == IF end = nul THEN end ELSE end + 1

\* A word at p ends before a blank or an operator outside quotes.  Its quotes
\* are removed by moving the rest of it up.
WordToken(b, c, p) ==
  LET nul == FirstOf(b, p, {Nul})
      quote == Quoting(b, p, nul - 1)
      Ends(i) == quote[i] = "none" /\ (Char(b, i) = Blank \/ OperatorAt(b, i) > 0)
      end == Min({i \in p .. nul - 1 : Ends(i)} \cup {nul})
      Kept(i) == b[i] \notin Quotes \/ quote[i] \notin {"none", b[i]}
      kept == {i \in p .. end - 1 : Kept(i)}
      size == Cardinality(kept)
      Nth(k) == CHOOSE i \in kept : Cardinality({j \in kept : j < i}) = k
      moved == [i \in 1 .. MaxInput |-> IF i \in p .. p + size - 1 THEN b[Nth(i - p)] ELSE b[i]]
  IN  IF quote[end] # "none"
      THEN Result(Nowhere, c, moved, TRUE, {})
      ELSE Result(p, Past(end, nul), Cut(moved, {p + size}), FALSE, p .. end - 1)

NextToken(b, c) ==
  LET p == FirstOf(b, c, Chars \ {Blank})
      n == OperatorAt(b, p)
  IN  IF Char(b, p) = Nul THEN Result(Nowhere, p, b, FALSE, {})
      ELSE IF n > 0 THEN OperatorToken(b, p, n) ELSE WordToken(b, c, p)

-----------------------------------------------------------------------------
EmptyCommand == [args |-> <<>>, files |-> [o \in Operators |-> Nowhere]]

Init ==
  /\ pc = "prompt"
  /\ stream \in Streams
  /\ buffer \in Remains
  /\ piped = FALSE /\ typed = <<>> /\ newline = FALSE
  /\ error = "" /\ warned = FALSE
  /\ segment = 1 /\ scan = 1 /\ more = FALSE /\ cmds = <<>> /\ segments = <<>>
  /\ cursor = 1 /\ cmd = EmptyCommand /\ operator = <<>> /\ taken = {}

-----------------------------------------------------------------------------
(* main: reading a line *)

\* The next line of s: what fgets leaves of it, and what is left to read.
LineEnd(s) == Min({i \in 1 .. Len(s) : s[i] = Newline} \cup {Len(s)})
Ended(s) == s # <<>> /\ s[LineEnd(s)] = Newline
Got(s) == SubSeq(s, 1, Min({LineEnd(s), MaxInput - 1}))

\* A bug: the 0 that ends the line is not counted.
TooLongForAll(s) == Len(Got(s)) = MaxInput /\ Got(s)[MaxInput] # Newline

TooLong(s) == Len(Got(s)) = MaxInput - 1 /\ Got(s)[MaxInput - 1] # Newline

RestOf(s) == SubSeq(s, LineEnd(s) + 1, Len(s))

\* The array after fgets, and with the newline replaced.
Filled(s) ==
  LET got == Got(s)
  IN  [i \in 1 .. MaxInput |->
         IF i > Len(got) + 1 THEN buffer[i]
         ELSE IF i = Len(got) + 1 \/ got[i] = Newline THEN Nul ELSE got[i]]

\* The line as it was typed.
Line(s) == SubSeq(s, 1, IF Ended(s) THEN LineEnd(s) - 1 ELSE LineEnd(s))

\* Where main goes with a line.
AfterReading(text, pipe) ==
  CASE text = <<"e", "x", "i", "t">> -> "exited"
    [] text = <<>> -> "prompt"
    [] OTHER -> IF pipe THEN "segment" ELSE "token"

ReadLine ==
  /\ pc = "prompt" /\ stream # <<>> /\ ~TooLong(stream)
  /\ stream' = RestOf(stream)
  /\ buffer' = Filled(stream)
  /\ typed' = Line(stream)
  /\ newline' = Ended(stream)
  /\ error' = "" /\ warned' = FALSE
  /\ LET text == Text(buffer', 1)
     IN  /\ piped' = ("|" \in {text[i] : i \in DOMAIN text})
         /\ pc' = AfterReading(text, piped')
  /\ segment' = 1 /\ scan' = 1 /\ more' = FALSE
  /\ cmds' = <<>> /\ segments' = <<>>
  /\ cursor' = 1 /\ cmd' = EmptyCommand /\ operator' = <<>> /\ taken' = {}

\* The rest of a line that is too long is read and dropped.
ReadTooLong ==
  /\ pc = "prompt" /\ stream # <<>> /\ TooLong(stream)
  /\ stream' = RestOf(stream)
  /\ buffer' = Filled(stream)
  /\ typed' = <<>> /\ newline' = FALSE /\ piped' = FALSE
  /\ error' = "Input too long." /\ warned' = FALSE
  /\ cmds' = <<>> /\ segments' = <<>> /\ taken' = {}
  /\ UNCHANGED <<pc, segment, scan, more, cursor, cmd, operator>>

EndOfInput ==
  /\ pc = "prompt" /\ stream = <<>>
  /\ pc' = "exited"
  /\ UNCHANGED <<stream, buffer, error, warned, lineVars, pipelineVars, commandVars>>

\* An error anywhere ends the line.
Fail(message) == pc' = "prompt" /\ error' = message

-----------------------------------------------------------------------------
(* parse_pipeline: the next segment, up to a '|' or the end *)

SegmentEnd == FirstOf(buffer, segment, {"|", Nul})
SegmentStart == FirstOf(buffer, segment, Chars \ {Blank})

\* trim_inplace, once the '|' is 0: the blanks at the end become 0 as well.
Trimmed ==
  LET end == SegmentEnd
  IN  Cut(buffer, {i \in segment .. end :
                     \A j \in i .. end - 1 : j >= SegmentStart /\ buffer[j] = Blank})

\* A bug: the limit of commands is not tested.
SplitAnySegment ==
  /\ pc = "segment" /\ Closed(buffer, segment) /\ SegmentStart < SegmentEnd
  /\ scan' = SegmentEnd /\ more' = (Char(buffer, SegmentEnd) = "|")
  /\ segments' = Append(segments, <<segment, SegmentEnd>>)
  /\ buffer' = Trimmed
  /\ pc' = "token" /\ cursor' = SegmentStart /\ cmd' = EmptyCommand
  /\ UNCHANGED <<stream, error, warned, lineVars, segment, cmds, operator, taken>>

SplitSegment ==
  /\ pc = "segment" /\ Closed(buffer, segment)
  /\ SegmentStart < SegmentEnd /\ Len(cmds) < MaxCmds
  /\ scan' = SegmentEnd
  /\ more' = (Char(buffer, SegmentEnd) = "|")
  /\ segments' = Append(segments, <<segment, SegmentEnd>>)
  /\ buffer' = Trimmed
  /\ pc' = "token" /\ cursor' = SegmentStart /\ cmd' = EmptyCommand
  /\ UNCHANGED <<stream, error, warned, lineVars, segment, cmds, operator, taken>>

SegmentFails ==
  /\ pc = "segment" /\ Closed(buffer, segment)
  /\ \/ /\ SegmentStart = SegmentEnd
        /\ Fail(IF Char(buffer, SegmentEnd) = "|" THEN "Empty command between pipes."
                                                  ELSE "Command missing after pipe.")
     \/ /\ SegmentStart < SegmentEnd /\ Len(cmds) = MaxCmds
        /\ Fail("Too many commands in pipeline.")
  /\ scan' = SegmentEnd
  /\ buffer' = Trimmed
  /\ UNCHANGED <<stream, warned, lineVars, segment, more, cmds, segments, commandVars>>

-----------------------------------------------------------------------------
(* parse_command: one token, or an operator and then its file *)

HasRoom == Len(cmd.args) < MaxArgs - 1

\* Whether r found a token, and whether it is an operator.
IsToken(r) == r.token # Nowhere
IsOp(r) == IsRedirectionOperator(Text(r.buffer, r.token))

\* The token is taken, and the cursor moves on.
Take(r) ==
  /\ buffer' = r.buffer
  /\ cursor' = r.next
  /\ taken' = taken \cup r.used

Argument(r) ==
  /\ pc = "token" /\ HasRoom
  /\ IsToken(r) /\ ~IsOp(r)
  /\ cmd' = [cmd EXCEPT !.args = Append(@, r.token)]
  /\ Take(r)
  /\ UNCHANGED <<pc, stream, error, warned, lineVars, pipelineVars, operator>>

\* A bug: a second redirection replaces the first.
RedirectionAgain(r) ==
  /\ pc = "token" /\ HasRoom
  /\ IsToken(r) /\ IsOp(r)
  /\ operator' = Text(r.buffer, r.token)
  /\ Take(r)
  /\ pc' = "file"
  /\ UNCHANGED <<stream, error, warned, lineVars, pipelineVars, cmd>>

Redirection(r) ==
  /\ pc = "token" /\ HasRoom
  /\ IsToken(r) /\ IsOp(r)
  /\ operator' = Text(r.buffer, r.token)
  /\ Take(r)
  /\ IF cmd.files[operator'] = Nowhere
     THEN pc' = "file" /\ UNCHANGED error
     ELSE Fail("Duplicate redirection.")
  /\ UNCHANGED <<stream, warned, lineVars, pipelineVars, cmd>>

FileName(r) ==
  /\ pc = "file"
  /\ Take(r)
  /\ operator' = <<>>
  /\ IF IsToken(r) /\ ~IsOp(r)
     THEN /\ cmd' = [cmd EXCEPT !.files[operator] = r.token]
          /\ pc' = "token"
          /\ UNCHANGED error
     ELSE Fail("File not specified.") /\ UNCHANGED cmd
  /\ UNCHANGED <<stream, warned, lineVars, pipelineVars>>

\* The next segment, unless this one was the last.
CommandDone ==
  /\ cmds' = Append(cmds, cmd)
  /\ UNCHANGED error
  /\ IF piped /\ more
     THEN pc' = "segment" /\ segment' = scan + 1
     ELSE pc' = "validate" /\ UNCHANGED segment

\* The loop ends when there is no token, or the token it found has no room and
\* is dropped.  Only a second one too many is reported.
EndCommand(r) ==
  /\ pc = "token"
  /\ ~IsToken(r) \/ (~HasRoom /\ Closed(r.buffer, r.next))
  /\ LET second == NextToken(r.buffer, r.next)
         last == IF r.open \/ HasRoom THEN r ELSE second
     IN  /\ warned' = (warned \/ (~HasRoom /\ ~r.open /\ IsToken(second)))
         /\ buffer' = last.buffer
         /\ cursor' = last.next
  /\ IF r.open
     THEN Fail("Unterminated quote.") /\ UNCHANGED <<cmds, segment>>
     ELSE CommandDone
  /\ UNCHANGED <<stream, lineVars, scan, more, segments, cmd, operator, taken>>

ParseCommand ==
  /\ pc \in {"token", "file"} /\ Closed(buffer, cursor)
  /\ \E r \in {NextToken(buffer, cursor)} :
       Argument(r) \/ Redirection(r) \/ FileName(r) \/ EndCommand(r)

\* The array is not initialised, and the parser may have passed the last 0 in
\* it: it then reads on behind the array, and next_token writes there when it
\* finds an operator or a word (parser.c:33, :42, :96).  What comes of that is
\* undefined, and nothing more is said of the shell.
Overrun ==
  /\ pc \in {"segment", "token", "file"}
  /\ \/ ~Closed(buffer, IF pc = "segment" THEN segment ELSE cursor)
     \/ /\ pc = "token" /\ Closed(buffer, cursor) /\ ~HasRoom
        /\ \E r \in {NextToken(buffer, cursor)} : IsToken(r) /\ ~Closed(r.buffer, r.next)
  /\ pc' = "overrun"
  /\ UNCHANGED <<stream, buffer, error, warned, lineVars, pipelineVars, commandVars>>

-----------------------------------------------------------------------------
(* validate_command and validate_pipeline *)

Named(c) == c.args # <<>>

Accept ==
  /\ pc = "validate"
  /\ \A k \in DOMAIN cmds : Named(cmds[k])
  /\ pc' = "run"
  /\ UNCHANGED <<stream, buffer, error, warned, lineVars, pipelineVars, commandVars>>

\* There may be no such input file, and in a pipeline no such command.
Reject ==
  /\ pc = "validate"
  /\ \/ /\ \E k \in DOMAIN cmds : ~Named(cmds[k])
        /\ Fail("No command specified.")
     \/ /\ \E k \in DOMAIN cmds : cmds[k].files[<<"<">>] # Nowhere
        /\ Fail("No such file.")
     \/ /\ piped
        /\ Fail("Command not found in pipe sequence.")
  /\ UNCHANGED <<stream, buffer, warned, lineVars, pipelineVars, commandVars>>

\* The commands are run from where they lie, and the prompt returns.
Run ==
  /\ pc = "run"
  /\ pc' = "prompt"
  /\ UNCHANGED <<stream, buffer, error, warned, lineVars, pipelineVars, commandVars>>

\* Nothing else stops the shell.
Exited == pc \in {"exited", "overrun"} /\ UNCHANGED vars

Next ==
  \/ ReadLine \/ ReadTooLong \/ EndOfInput
  \/ SplitSegment \/ SegmentFails
  \/ ParseCommand \/ Overrun
  \/ Accept \/ Reject \/ Run \/ Exited

Spec == Init /\ [][Next]_vars

-----------------------------------------------------------------------------
(* Types *)

IsCommand(c) ==
  /\ Len(c.args) < MaxArgs
  /\ \A k \in DOMAIN c.args : c.args[k] \in Places
  /\ c.files \in [Operators -> Places \cup {Nowhere}]

\* Every variable has its type: as long as the parser has not read on behind
\* the array, every pointer points into it, or just behind it, whatever it held
\* at the start; and no command and no pipeline outgrows its array.
TypeOK ==
  /\ pc \in {"prompt", "segment", "token", "file", "validate", "run", "exited", "overrun"}
  /\ buffer \in [1 .. MaxInput -> Chars]
  /\ {piped, newline, warned, more} \subseteq BOOLEAN
  /\ {segment, scan, cursor} \subseteq Places
  /\ Len(cmds) <= MaxCmds
  /\ IsCommand(cmd) /\ \A k \in DOMAIN cmds : IsCommand(cmds[k])
  /\ operator \in Operators \cup {<<>>} /\ taken \subseteq Places
  /\ Len(typed) <= MaxInput - 2 /\ \A i \in DOMAIN typed : typed[i] \in Chars \ {Nul}

-----------------------------------------------------------------------------
(* What a line means *)

Outside(i) == Quoting(typed, 1, Len(typed))[i] = "none"
Breaks == {i \in DOMAIN typed : typed[i] \in {Blank, "|"} /\ Outside(i)}
Pipes == {i \in Breaks : typed[i] = "|"}

\* What stands between blanks and '|' is an item: an operator or a word.
Items ==
  {c \in (1 .. Len(typed)) \X (1 .. Len(typed)) :
     /\ c[1] <= c[2] /\ c[1] .. c[2] \cap Breaks = {}
     /\ {c[1] - 1, c[2] + 1} \subseteq Breaks \cup {0, Len(typed) + 1}}
IsOperator(c) == SubSeq(typed, c[1], c[2]) \in Operators
Word(c) ==
  FlattenSeq([k \in 1 .. c[2] - c[1] + 1 |->
    LET i == c[1] + k - 1
        quote == Quoting(typed, 1, Len(typed))[i]
    IN  IF typed[i] \in Quotes /\ quote \in {"none", typed[i]} THEN <<>> ELSE <<typed[i]>>])

\* The items of the n-th command, in order.
ItemsOf(n) ==
  LET items == {c \in Items : Cardinality({i \in Pipes : i < c[1]}) = n - 1}
  IN  [k \in 1 .. Cardinality(items) |->
         CHOOSE c \in items : Cardinality({d \in items : d[1] < c[1]}) = k - 1]

IsFile(s, k) == k > 1 /\ IsOperator(s[k - 1])
IsArgument(s, k) == ~IsOperator(s[k]) /\ ~IsFile(s, k)

\* A command is read up to the last argument it may have.
Read(s) == {k \in DOMAIN s : Cardinality({j \in 1 .. k - 1 : IsArgument(s, j)}) < MaxArgs - 1}

Correct(s) ==
  /\ \E k \in DOMAIN s : IsArgument(s, k)
  /\ \A k \in Read(s) : IsOperator(s[k]) => k + 1 \in DOMAIN s /\ ~IsOperator(s[k + 1])
  /\ \A j, k \in Read(s) :
       IsOperator(s[j]) /\ IsOperator(s[k]) /\ Word(s[j]) = Word(s[k]) => j = k

Meaning(s) ==
  [args |-> FlattenSeq([k \in 1 .. Cardinality(Read(s)) |->
                          IF IsArgument(s, k) THEN <<Word(s[k])>> ELSE <<>>]),
   files |-> {<<Word(s[k]), Word(s[k + 1])>> : k \in {j \in Read(s) : IsOperator(s[j])}}]

\* How the shell understood it.
Understood(c) ==
  [args |-> [k \in DOMAIN c.args |-> Text(buffer, c.args[k])],
   files |-> {<<o, Text(buffer, c.files[o])>> : o \in {p \in Operators : c.files[p] # Nowhere}}]

\* Quotes are closed; blanks set off every operator, from a '|' and from the
\* end of input too; and neither a '|' nor an operator alone is quoted.
WellSpaced ==
  /\ Outside(Len(typed) + 1)
  /\ \A i \in DOMAIN typed : typed[i] = "|" => Outside(i)
  /\ \A c \in Items :
       IF IsOperator(c)
       THEN IF c[2] = Len(typed) THEN newline ELSE typed[c[2] + 1] # "|"
       ELSE /\ Word(c) \notin Operators
            /\ \A i \in c[1] .. c[2] : typed[i] \in {"<", ">"} => ~Outside(i)

CorrectLine ==
  /\ Cardinality(Pipes) < MaxCmds
  /\ \A n \in 1 .. Cardinality(Pipes) + 1 : Correct(ItemsOf(n))

SyntaxErrors ==
  {"Empty command between pipes.", "Command missing after pipe.",
   "Too many commands in pipeline.", "Duplicate redirection.", "File not specified.",
   "Unterminated quote.", "No command specified."}

\* A line whose operators are set off by blanks is run only if it is correct,
\* and then as the commands it means, with their arguments without quotes, and
\* is called wrong only if it is wrong (parser.c:3, parser.c:309).  A command
\* is cut at the limit of arguments, and the cut is reported if and only if
\* two tokens or more are lost.  What is compared is the line as it was typed:
\* no part of a line that is too long is taken for a line (myshell.c:23).
MeansWhatItSays ==
  WellSpaced =>
    /\ pc = "run" =>
         /\ CorrectLine
         /\ Len(cmds) = Cardinality(Pipes) + 1
         /\ \A n \in DOMAIN cmds : Understood(cmds[n]) = Meaning(ItemsOf(n))
         /\ warned <=> \E n \in DOMAIN cmds :
                         Len(ItemsOf(n)) >= Cardinality(Read(ItemsOf(n))) + 2
    /\ error \in SyntaxErrors => ~CorrectLine

-----------------------------------------------------------------------------
(* What becomes of all other lines *)

\* However a line is spaced and quoted, the only characters that are lost are
\* the one right after an operator, whatever it is, and an operator right
\* after a word, which is lost as the end of the word (parser.c:34, :106).
OnlyNeighboursLost ==
  pc = "run" /\ (\A k \in DOMAIN cmds : Len(cmds[k].args) < MaxArgs - 1) =>
    \A i \in DOMAIN typed :
      \/ typed[i] \in {Blank, "|"}
      \/ i \in taken
      \/ i - 1 \in taken /\ (typed[i - 1] \in {"<", ">"} \/ typed[i] \in {"<", ">", "2"})

\* The first and last place of command k, without the '|'.
FirstPlace(k) == IF piped THEN segments[k][1] ELSE 1
LastPlace(k) == IF piped THEN segments[k][2] - 1 ELSE Len(typed)

\* An operator that ends a command, with no blank before the '|' or before the
\* end of the input, takes the cursor over the 0 that ends the command.
Spills(k) ==
  /\ typed[LastPlace(k)] \in {"<", ">"}
  /\ LastPlace(k) < Len(typed) \/ ~newline

Pointers(c) ==
  ({c.args[k] : k \in DOMAIN c.args} \cup {c.files[o] : o \in Operators}) \ {Nowhere}

\* The commands of the line so far, the one being parsed among them.
Commands == IF pc \in {"token", "file"} THEN Append(cmds, cmd) ELSE cmds

\* No command takes a token from another one, or from what an earlier line has
\* left in the array, unless an operator ended this one or one before it; and
\* the parser never reads on behind the array, unless the input ended, with no
\* newline, right after an operator.
TokensInSegment ==
  /\ pc \in {"token", "file", "segment", "validate", "run"} =>
       \A k \in DOMAIN Commands :
         (\A j \in 1 .. k : ~Spills(j)) => Pointers(Commands[k]) \subseteq FirstPlace(k) .. LastPlace(k)
  /\ pc = "overrun" => ~newline /\ typed # <<>> /\ typed[Len(typed)] \in {"<", ">"}

\* What a token says does not change after it was found, though the line is
\* rewritten around it up to the end of the parse; with the same exception.
TokensKept ==
  [][pc' # "prompt" /\ pc # "prompt" /\ (\A k \in DOMAIN Commands : ~Spills(k)) =>
       \A k \in DOMAIN Commands : \A p \in Pointers(Commands[k]) :
         Text(buffer', p) = Text(buffer, p)]_vars

\* The parse of every line ends: every turn of a loop starts further on in the
\* array than the one before, whatever the token was, an empty one, a quoted
\* one or one beyond the end of its command.
ParseAdvances ==
  [][/\ {pc, pc'} \subseteq {"token", "file"} => cursor' > cursor
     /\ pc # "prompt" /\ pc' = "segment" => segment' > segment]_vars
=============================================================================
