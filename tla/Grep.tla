-------------------------------- MODULE Grep --------------------------------
\* The xv6 grep: the regular expression matcher, and the loop that reads a stream
\* in pieces of any size into one buffer and prints the lines that match.
EXTENDS Naturals, Sequences, SequencesExt, FiniteSets

CONSTANTS ReChar,       \* the characters of patterns, "^", "$", "." and "*" among them
          TextChar,     \* the characters of lines; "nl" is the newline
          MaxRe, MaxText, BUFSIZE

ASSUME GrepAssumption ==
  /\ "nl" \notin ReChar \cup TextChar
  /\ MaxRe \in Nat /\ MaxText \in Nat /\ BUFSIZE \in Nat \ {0}

\* The character k of a string, or its NUL.
Char0(s, k) == IF k > Len(s) THEN "" ELSE s[k]

From(s, k) == SubSeq(s, k, Len(s))

RECURSIVE MatchHere(_, _)

\* Mutant: c* takes at least one c.
MatchStarOne(c, re, text) ==
  \E k \in 1 .. Len(text) :
    /\ \A i \in 1 .. k : text[i] = c \/ c = "."
    /\ MatchHere(re, From(text, k + 1))

\* matchstar(): re after as many c as it takes, none first.
MatchStar(c, re, text) ==
  \E k \in 0 .. Len(text) :
    /\ \A i \in 1 .. k : text[i] = c \/ c = "."
    /\ MatchHere(re, From(text, k + 1))

\* matchhere(): re at the beginning of text.
MatchHere(re, text) ==
  IF re = <<>> THEN TRUE
  ELSE IF Char0(re, 2) = "*" THEN MatchStar(re[1], From(re, 3), text)
  ELSE IF re = <<"$">> THEN text = <<>>
  ELSE /\ text # <<>>
       /\ re[1] = "." \/ re[1] = text[1]
       /\ MatchHere(Tail(re), Tail(text))

Match(re, text) ==
  IF Char0(re, 1) = "^" THEN MatchHere(Tail(re), text)
  ELSE \E k \in 1 .. Len(text) + 1 : MatchHere(re, From(text, k))

-----------------------------------------------------------------------------
VARIABLES pattern,      \* argv[1]
          text,         \* what has been read so far
          buf,          \* the m characters kept in buf
          printed,      \* the lines written to the standard output
          ended         \* the loop is over

GrepVars == <<pattern, text, buf, printed, ended>>

GrepInit ==
  /\ pattern \in UNION {[1 .. n -> ReChar] : n \in 0 .. MaxRe}
  /\ text = <<>> /\ buf = <<>> /\ printed = <<>> /\ ended = FALSE

\* The whole lines of s, without their newlines, and what is left after them.
RECURSIVE LinesOf(_)
LinesOf(s) ==
  LET q == SelectInSeq(s, LAMBDA c : c = "nl") IN
  IF q = 0 THEN <<>> ELSE <<SubSeq(s, 1, q - 1)>> \o LinesOf(From(s, q + 1))

Rest(s) == From(s, SelectLastInSeq(s, LAMBDA c : c = "nl") + 1)

\* What stays for the next read: memmove() of the part after the last newline.
Keep(s) == Rest(s)

\* read() gives a part of what is asked for, as a pipe or the console may.
ReadPiece(piece) ==
  /\ ~ended
  /\ Len(piece) \in 1 .. BUFSIZE - Len(buf) - 1
  /\ Len(text) + Len(piece) <= MaxText
  /\ text' = text \o piece
  /\ printed' = printed \o SelectSeq(LinesOf(buf \o piece), LAMBDA l : Match(pattern, l))
  /\ buf' = Keep(buf \o piece)
  /\ UNCHANGED <<pattern, ended>>

\* read() returns 0 at the end, and also when the buffer has no room left.
ReadNothing ==
  /\ ~ended
  /\ ended' = TRUE
  /\ UNCHANGED <<pattern, text, buf, printed>>

GrepNext ==
  \/ \E n \in 1 .. MaxText : \E piece \in [1 .. n -> TextChar \cup {"nl"}] : ReadPiece(piece)
  \/ ReadNothing

-----------------------------------------------------------------------------
\* The items of a pattern: a character and whether a star follows it.
RECURSIVE Items(_)
Items(re) ==
  IF re = <<>> THEN <<>>
  ELSE LET star == Char0(re, 2) = "*" IN
       <<[c |-> re[1], star |-> star]>> \o Items(From(re, IF star THEN 3 ELSE 2))

\* The positions an item leads to from the positions at.
After1(at, item, line) ==
  LET Fits(i) == item.c = "." \/ line[i] = item.c IN
  IF item.star
  THEN {j \in 1 .. Len(line) + 1 : \E i \in at : i <= j /\ \A k \in i .. j - 1 : Fits(k)}
  ELSE {i + 1 : i \in {k \in at : k <= Len(line) /\ Fits(k)}}

\* The language of a pattern: all positions at once instead of one after another.
Denotes(re, line) ==
  LET start == Char0(re, 1) = "^"
      body == IF start THEN Tail(re) ELSE re
      items == Items(body)
      end == items # <<>> /\ Last(items) = [c |-> "$", star |-> FALSE]
      at == FoldLeft(LAMBDA s, i : After1(s, i, line), IF start THEN {1} ELSE 1 .. Len(line) + 1,
                     IF end THEN Front(items) ELSE items) IN
  IF end THEN Len(line) + 1 \in at ELSE at # {}

\* However the stream is cut into pieces, grep has printed exactly the complete
\* lines read so far that are in the pattern's language, each once and in order,
\* and keeps exactly the incomplete one.
GrepPrintsMatches ==
  /\ printed = SelectSeq(LinesOf(text), LAMBDA l : Denotes(pattern, l))
  /\ buf = Rest(text)
  /\ Len(buf) < BUFSIZE
=============================================================================
