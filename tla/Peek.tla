-------------------------------- MODULE Peek --------------------------------
\* The peek of the C shell: files printed forwards, or backwards by lines, with
\* or without line numbers.  A regular file is read backwards in chunks; a pipe
\* is read to its end first.
\*
\* What is printed is a sequence of characters and of numbers <<"n", k>>.
\* malloc() and the reads do not fail here.
EXTENDS Naturals, Sequences, SequencesExt, FiniteSets

CONSTANTS FileChar, MaxFile, PEEK_CHUNK

ASSUME PeekAssumption ==
  /\ "nl" \in FileChar
  /\ MaxFile \in Nat /\ PEEK_CHUNK \in Nat \ {0}

\* print_line(): a number only before a line that has characters.
PrintLine(chars, newline, numbered, number) ==
  (IF numbered /\ chars # <<>> THEN <<<<"n", number>>>> ELSE <<>>)
  \o [i \in DOMAIN chars |-> <<"c", chars[i]>>]
  \o (IF newline THEN <<<<"c", "nl">>>> ELSE <<>>)

\* count_nonempty(): newlines after a character, and a last line without one.
CountNonempty(file) ==
  Cardinality({i \in DOMAIN file : file[i] # "nl" /\ (i = Len(file) \/ file[i + 1] = "nl")})

\* print_forward(): the characters of the file one by one; a number is counted
\* only when it is asked for.
PrintForward(file, numbered, base) ==
  LET Step(st, c) ==
        LET number == IF numbered /\ st.line # <<>> THEN st.number + 1 ELSE st.number IN
        IF c = "nl" THEN [line |-> <<>>, number |-> number,
                          out |-> st.out \o PrintLine(st.line, TRUE, numbered, number)]
        ELSE [st EXCEPT !.line = Append(@, c)]
      end == FoldLeft(Step, [line |-> <<>>, number |-> base, out |-> <<>>], file)
      left == end.line # <<>>
      number == IF left /\ numbered THEN end.number + 1 ELSE end.number IN
  [out |-> end.out \o PrintLine(end.line, FALSE, numbered, number), number |-> number]

\* Mutant: each newline ends a line, the one at the very end too.
BackStepAll(st, c, numbered) ==
  IF c # "nl" THEN [st EXCEPT !.line = <<c>> \o @]
  ELSE [line |-> <<>>, first |-> FALSE, newline |-> TRUE,
        number |-> IF numbered /\ st.line # <<>> THEN st.number - 1 ELSE st.number,
        out |-> st.out \o PrintLine(st.line, TRUE, numbered, st.number)]

\* One character of print_reverse_regular(), taken from the end of the file: the
\* newline at the very end only says that the last line has one.
BackStep(st, c, numbered) ==
  IF c # "nl" THEN [st EXCEPT !.line = <<c>> \o @]
  ELSE IF st.first /\ st.line = <<>> THEN [st EXCEPT !.first = FALSE, !.newline = TRUE]
  ELSE [line |-> <<>>, first |-> FALSE, newline |-> TRUE,
        number |-> IF numbered /\ st.line # <<>> THEN st.number - 1 ELSE st.number,
        out |-> st.out \o PrintLine(st.line, TRUE, numbered, st.number)]

\* Where the chunk that ends at position starts.
ChunkStart(position) == IF position > PEEK_CHUNK THEN position - PEEK_CHUNK ELSE 0

\* The chunks of print_reverse_regular(), from the end of the file.
RECURSIVE Backwards(_, _, _, _)
Backwards(file, position, numbered, st) ==
  IF position = 0 THEN st
  ELSE LET start == ChunkStart(position)
           chunk == Reverse(SubSeq(file, start + 1, position)) IN
       Backwards(file, start, numbered, FoldLeft(LAMBDA s, c : BackStep(s, c, numbered), st, chunk))

PrintReverseRegular(file, numbered, base) ==
  LET nonempty == CountNonempty(file)
      end == Backwards(file, Len(file), numbered,
               [line |-> <<>>, first |-> TRUE, newline |-> FALSE, number |-> base + nonempty, out |-> <<>>]) IN
  [out |-> end.out \o (IF end.line = <<>> THEN <<>> ELSE PrintLine(end.line, end.newline, numbered, end.number)),
   number |-> base + nonempty]

\* read_all_lines(): the lines, each with whether a newline ended it.
ReadAllLines(file) ==
  LET Step(st, c) == IF c = "nl" THEN [line |-> <<>>, lines |-> Append(st.lines, [chars |-> st.line, newline |-> TRUE])]
                     ELSE [st EXCEPT !.line = Append(@, c)]
      end == FoldLeft(Step, [line |-> <<>>, lines |-> <<>>], file) IN
  IF end.line = <<>> THEN end.lines ELSE Append(end.lines, [chars |-> end.line, newline |-> FALSE])

\* print_reverse_lines().
PrintReverseLines(lines, numbered, base) ==
  LET nonempty == Cardinality({i \in DOMAIN lines : lines[i].chars # <<>>})
      Step(l, st) ==
        [number |-> IF numbered /\ l.chars # <<>> THEN st.number - 1 ELSE st.number,
         out |-> st.out \o PrintLine(l.chars, l.newline, numbered, st.number)] IN
  [out |-> FoldRight(Step, lines, [number |-> base + nonempty, out |-> <<>>]).out, number |-> base + nonempty]

\* peek_one(): which of them prints.
PeekOne(file, regular, numbered, backwards, base) ==
  IF ~backwards THEN PrintForward(file, numbered, base)
  ELSE IF regular THEN PrintReverseRegular(file, numbered, base)
  ELSE PrintReverseLines(ReadAllLines(file), numbered, base)

-----------------------------------------------------------------------------
VARIABLE content

PeekInit == content = <<>>

PeekNext ==
  /\ Len(content) < MaxFile
  /\ \E c \in FileChar : content' = Append(content, c)

-----------------------------------------------------------------------------
\* The pieces of an output between newlines.
RECURSIVE Rows(_)
Rows(out) ==
  LET i == SelectInSeq(out, LAMBDA c : c = <<"c", "nl">>) IN
  IF i = 0 THEN IF out = <<>> THEN <<>> ELSE <<out>>
  ELSE <<SubSeq(out, 1, i - 1)>> \o Rows(SubSeq(out, i + 1, Len(out)))

Plain(out) == SelectSeq(out, LAMBDA c : c[1] = "c")

Nonempty(rows) == SelectSeq(rows, LAMBDA r : r # <<>>)

\* peek prints a file as it is; with -r it prints the same lines in the opposite
\* order, wherever the chunks end, and a pipe like a regular file.  This is for
\* a regular file that begins with a character, and a pipe whose last line has a
\* newline; of every regular file the lines that are not empty come in reverse.
\* With -n a line has the same number in both directions, and the next file goes
\* on counting from the same number.
PeekReverses ==
  content # <<>> => \A base \in {0, 3} :
    LET Out(regular, numbered, backwards) == PeekOne(content, regular, numbered, backwards, base)
        forth == Out(TRUE, TRUE, FALSE)
        back == Out(TRUE, TRUE, TRUE)
        piped == Out(FALSE, TRUE, TRUE)
        rows == Rows(forth.out) IN
    /\ Plain(Out(TRUE, FALSE, FALSE).out) = [i \in DOMAIN content |-> <<"c", content[i]>>]
    /\ content[1] # "nl" => Rows(back.out) = Reverse(rows)
    /\ Nonempty(Rows(back.out)) = Reverse(Nonempty(rows))
    /\ Last(content) = "nl" => Rows(piped.out) = Reverse(rows)
    /\ Out(TRUE, FALSE, TRUE).out = Plain(back.out) /\ Out(FALSE, FALSE, TRUE).out = Plain(piped.out)
    /\ forth.number = back.number /\ back.number = piped.number
=============================================================================
