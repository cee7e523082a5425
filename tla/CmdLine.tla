------------------------------ MODULE CmdLine ------------------------------
\* What the C shell makes of a line: lex_line() cuts it into tokens,
\* parse_tokens() accepts or refuses them, run_tokens() cuts them into commands,
\* and make_stages(), collect_command() and prepare_output() give each command
\* its arguments and files.
\*
\* A character is named for its role: "a" for the letters, "sq", "dq" and "bs" for
\* the quotes and the backslash; an operator stands
\* for itself.  The text of a word matters to the lexer only: after it a word is
\* the kind of name it is, `hop', another built-in, a program (also the name of
\* a file), or a name of nothing, which can be neither run nor opened.
\* malloc(), pipe() and fork() do not fail here.
EXTENDS Naturals, Sequences, SequencesExt, FiniteSets

CONSTANT ARGV   \* size of argv in runbuff(): the words of a command and a NULL

Special == {"|", "&", ";", "<", ">"}

Redirections == {"<", ">", ">>"}

Separators == {"|", ";", "&"}

\* save_word(): a word ends, if one was begun; an empty quoted word is a word.
Save(toks, word, has) ==
  IF has THEN Append(toks, [type |-> "WORD", text |-> word]) ELSE toks

Push(toks, op) == Append(toks, [type |-> op, text |-> <<>>])

Invalid == [ok |-> FALSE, toks |-> <<>>]

\* Mutant: up to the next quote, without the backslashes.
DoubleQuotedDrops(line, i, word) ==
  LET j == SelectInSubSeq(line, i, Len(line), LAMBDA c : c = "dq") IN
  [next |-> IF j = 0 THEN 0 ELSE j + 1,
   word |-> word \o SelectSeq(SubSeq(line, i, j - 1), LAMBDA c : c # "bs")]

\* The end of a double quoted part begun before i: a backslash is kept unless it
\* protects a quote or a backslash.  next is 0 when the line ends first.
RECURSIVE DoubleQuoted(_, _, _)
DoubleQuoted(line, i, word) ==
  IF i > Len(line) \/ (line[i] = "bs" /\ i = Len(line)) THEN [next |-> 0, word |-> word]
  ELSE IF line[i] = "dq" THEN [next |-> i + 1, word |-> word]
  ELSE IF line[i] = "bs"
       THEN DoubleQuoted(line, i + 2,
              word \o (IF line[i + 1] \in {"dq", "bs"} THEN <<>> ELSE <<"bs">>) \o <<line[i + 1]>>)
  ELSE DoubleQuoted(line, i + 1, Append(word, line[i]))

\* The end of a single quoted part: up to the next quote, whatever it holds.
SingleQuoted(line, i, word) ==
  LET j == SelectInSubSeq(line, i, Len(line), LAMBDA c : c = "sq") IN
  [next |-> IF j = 0 THEN 0 ELSE j + 1, word |-> word \o SubSeq(line, i, j - 1)]

\* The loop of lex_line() from character i on.
RECURSIVE LexFrom(_, _, _, _, _)
LexFrom(line, i, word, has, toks) ==
  IF i > Len(line) THEN [ok |-> TRUE, toks |-> Save(toks, word, has)]
  ELSE LET c == line[i]
           Part(q) == IF q.next = 0 THEN Invalid ELSE LexFrom(line, q.next, q.word, TRUE, toks) IN
       CASE c = " " -> LexFrom(line, i + 1, <<>>, FALSE, Save(toks, word, has))
         [] c = ">" /\ i < Len(line) /\ line[i + 1] = ">" ->
              LexFrom(line, i + 2, <<>>, FALSE, Push(Save(toks, word, has), ">>"))
         [] c \in Special /\ ~(c = ">" /\ i < Len(line) /\ line[i + 1] = ">") ->
              LexFrom(line, i + 1, <<>>, FALSE, Push(Save(toks, word, has), c))
         [] c = "bs" -> IF i = Len(line) THEN Invalid
                        ELSE LexFrom(line, i + 2, Append(word, line[i + 1]), TRUE, toks)
         [] c = "sq" -> Part(SingleQuoted(line, i + 1, word))
         [] c = "dq" -> Part(DoubleQuoted(line, i + 1, word))
         [] OTHER -> LexFrom(line, i + 1, Append(word, c), TRUE, toks)

Lex(line) == LexFrom(line, 1, <<>>, FALSE, <<>>)

-----------------------------------------------------------------------------
\* parse_tokens(): a walk that knows only whether a command must begin.
RECURSIVE ParseFrom(_, _, _)
ParseFrom(toks, i, wantCommand) ==
  IF i > Len(toks) THEN ~wantCommand
  ELSE LET type == toks[i].type IN
       CASE wantCommand -> type = "WORD" /\ ParseFrom(toks, i + 1, FALSE)
         [] ~wantCommand /\ type = "WORD" -> ParseFrom(toks, i + 1, FALSE)
         [] ~wantCommand /\ type \in Redirections ->
              i < Len(toks) /\ toks[i + 1].type = "WORD" /\ ParseFrom(toks, i + 2, FALSE)
         [] ~wantCommand /\ type \in Separators ->
              IF i = Len(toks) THEN type = "&" ELSE ParseFrom(toks, i + 1, TRUE)

\* Mutant: a line may end in a semicolon.
ParseTokensTrailing(toks) ==
  \/ toks = <<>>
  \/ ParseFrom(toks, 1, TRUE)
  \/ Last(toks).type = ";" /\ ParseFrom(Front(toks), 1, TRUE)

ParseTokens(toks) == toks = <<>> \/ ParseFrom(toks, 1, TRUE)

-----------------------------------------------------------------------------
\* The pieces of toks between tokens of the types seps.
RECURSIVE Pieces(_, _)
Pieces(toks, seps) ==
  LET i == SelectInSeq(toks, LAMBDA t : t.type \in seps) IN
  IF i = 0 THEN <<toks>>
  ELSE <<SubSeq(toks, 1, i - 1)>> \o Pieces(SubSeq(toks, i + 1, Len(toks)), seps)

\* The commands run_tokens() finds: an empty one is skipped, one that ends in &
\* goes to the background.
RECURSIVE Commands(_)
Commands(toks) ==
  LET i == SelectInSeq(toks, LAMBDA t : t.type \in {";", "&"})
      words == IF i = 0 THEN toks ELSE SubSeq(toks, 1, i - 1)
      first == IF words = <<>> THEN <<>> ELSE <<[words |-> words, bg |-> i # 0 /\ toks[i].type = "&"]>> IN
  IF i = 0 THEN first ELSE first \o Commands(SubSeq(toks, i + 1, Len(toks)))

HasPipe(cmd) == \E i \in DOMAIN cmd : cmd[i].type = "|"

HasRedirect(cmd) == \E i \in DOMAIN cmd : cmd[i].type \in Redirections

IsBuiltin(word) == word.text \in {"hop", "builtin"}

\* open(), on a file or on a name of nothing.
Opens(word) == word.text # "nothing"

-----------------------------------------------------------------------------
Fresh == [result |-> 0, args |-> <<>>, inputs |-> <<>>, outputs |-> <<>>]

\* stage_args(): arguments, inputs and outputs in one pass; several inputs are
\* joined into one.  An input that is missing ends it with -1, an output that
\* cannot be opened with -4, a redirection without a file with -2.
RECURSIVE StageArgs(_, _, _)
StageArgs(toks, i, stage) ==
  IF i > Len(toks) THEN stage
  ELSE LET type == toks[i].type
           next == toks[i + 1] IN
       CASE type = "WORD" -> StageArgs(toks, i + 1, [stage EXCEPT !.args = Append(@, toks[i])])
         [] type \in Redirections ->
              IF i = Len(toks) \/ next.type # "WORD" THEN [stage EXCEPT !.result = 2]
              ELSE IF ~Opens(next) THEN [stage EXCEPT !.result = IF type = "<" THEN 1 ELSE 4]
              ELSE StageArgs(toks, i + 2,
                     IF type = "<" THEN [stage EXCEPT !.inputs = Append(@, next)]
                                   ELSE [stage EXCEPT !.outputs = Append(@, next)])
         [] OTHER -> StageArgs(toks, i + 1, stage)

\* The stages up to the first that fails.  free_stages() then closes the
\* descriptors of all of them, and those of the stages not reached are still 0
\* from calloc(): the shell's standard input is closed with them.
UptoFailure(stages) ==
  LET failed == SelectInSeq(stages, LAMBDA st : st.result # 0)
      last == IF failed = 0 THEN Len(stages) ELSE failed IN
  [stages |-> SubSeq(stages, 1, last), result |-> stages[last].result, stdinClosed |-> last < Len(stages)]

\* make_stages(): a stage for each piece between pipes.
StagesOf(pieces) == [k \in DOMAIN pieces |-> StageArgs(pieces[k], 1, Fresh)]

MakeStages(cmd) == UptoFailure(StagesOf(Pieces(cmd, {"|"})))

\* collect_command(): arguments and inputs; an output is skipped with its file.
RECURSIVE CollectFrom(_, _, _)
CollectFrom(cmd, i, got) ==
  IF i > Len(cmd) THEN got
  ELSE LET type == cmd[i].type
           next == cmd[i + 1] IN
       CASE type = "WORD" -> CollectFrom(cmd, i + 1, [got EXCEPT !.args = Append(@, cmd[i])])
         [] type \in Redirections ->
              IF i = Len(cmd) \/ next.type # "WORD" THEN [got EXCEPT !.result = 2]
              ELSE IF type # "<" THEN CollectFrom(cmd, i + 2, got)
              ELSE IF ~Opens(next) THEN [got EXCEPT !.result = 1]
              ELSE CollectFrom(cmd, i + 2, [got EXCEPT !.inputs = Append(@, next)])
         [] OTHER -> CollectFrom(cmd, i + 1, got)

\* Mutant: an output's file stays among the arguments.
CollectOutputs(cmd) == CollectFrom(SelectSeq(cmd, LAMBDA t : t.type \notin {">", ">>"}), 1, Fresh)

CollectCommand(cmd) == CollectFrom(cmd, 1, Fresh)

\* prepare_output(): the outputs, opened only once the inputs are.
RECURSIVE PrepareFrom(_, _, _)
PrepareFrom(cmd, i, got) ==
  IF i > Len(cmd) \/ cmd[i].type \in Separators THEN got
  ELSE IF cmd[i].type \notin {">", ">>"} THEN PrepareFrom(cmd, i + 1, got)
  ELSE IF i = Len(cmd) \/ cmd[i + 1].type # "WORD" THEN [got EXCEPT !.result = 2]
  ELSE IF ~Opens(cmd[i + 1]) THEN [got EXCEPT !.result = 1]
  ELSE PrepareFrom(cmd, i + 2, [got EXCEPT !.outputs = Append(@, cmd[i + 1])])

PrepareOutput(cmd) == PrepareFrom(cmd, 1, Fresh)

-----------------------------------------------------------------------------
\* runcomm() on one command: what it launches (a sequence of stages), what it
\* leaves undone, and whether run_tokens() stops after it.
Nothing == [launched |-> <<>>, stops |-> FALSE, stdinClosed |-> FALSE]

\* pipeline(): every stage is launched once all of them are made.
Launch(made) ==
  IF made.result = 0 THEN [Nothing EXCEPT !.launched = made.stages]
                     ELSE [Nothing EXCEPT !.stdinClosed = made.stdinClosed]

RunPipeline(cmd) == Launch(MakeStages(cmd))

\* run_external(), and not_found() before it: only a name of nothing stops the line.
LaunchExternal(name, got, out) ==
  IF got.result = 0 /\ out.result = 0 /\ Opens(name)
  THEN [Nothing EXCEPT !.launched = <<[got EXCEPT !.outputs = out.outputs]>>]
  ELSE [Nothing EXCEPT !.stops = ~Opens(name)]

RunExternal(cmd) == LaunchExternal(cmd[1], CollectCommand(cmd), PrepareOutput(cmd))

\* The redirections of a hop are opened, and closed again.
HopRedirects(cmd) ==
  /\ \A i \in 1 .. Len(cmd) - 1 : cmd[i].type = "<" => Opens(cmd[i + 1])
  /\ PrepareOutput(cmd).result = 0

\* hop runs in the shell; its arguments end at the first redirection.
RunHop(cmd) ==
  LET end == SelectInSeq(cmd, LAMBDA t : t.type # "WORD") IN
  [Nothing EXCEPT !.launched =
     <<[Fresh EXCEPT !.args = SubSeq(cmd, 1, IF end = 0 THEN Len(cmd) ELSE end - 1)]>>]

RunComm(cmd) ==
  LET hop == cmd[1].text = "hop"
      redirectedBuiltin == IsBuiltin(cmd[1]) /\ ~hop /\ HasRedirect(cmd) IN
  CASE hop /\ HasRedirect(cmd) /\ ~HopRedirects(cmd) -> Nothing
    [] hop /\ ~HasPipe(cmd) /\ (HasRedirect(cmd) => HopRedirects(cmd)) -> RunHop(cmd)
    [] (HasPipe(cmd) /\ (hop /\ HasRedirect(cmd) => HopRedirects(cmd))) \/ redirectedBuiltin -> RunPipeline(cmd)
    [] IsBuiltin(cmd[1]) /\ ~hop /\ ~HasPipe(cmd) /\ ~HasRedirect(cmd) ->
         [Nothing EXCEPT !.launched = <<[Fresh EXCEPT !.args = cmd]>>]
    [] OTHER -> RunExternal(cmd)

Simple(cmd) == (\A i \in DOMAIN cmd : cmd[i].type = "WORD") /\ ~IsBuiltin(cmd[1])

\* Mutant: argv is cut one word too early.
RunSimpleShort(cmd) ==
  IF ~Opens(cmd[1]) THEN Nothing
  ELSE [Nothing EXCEPT !.launched = <<[Fresh EXCEPT !.args = SubSeq(cmd, 1, Min({Len(cmd), ARGV - 2}))]>>]

\* A background command without redirections: execve() on as many of its words
\* as argv holds.
RunSimple(cmd) ==
  IF ~Opens(cmd[1]) THEN Nothing
  ELSE [Nothing EXCEPT !.launched = <<[Fresh EXCEPT !.args = SubSeq(cmd, 1, Min({Len(cmd), ARGV - 1}))]>>]

\* runbuff() with free entries left in the job table.  A pipeline is launched by
\* the shell itself; any other command runs in a child, and what runcomm() does
\* to the standard input or returns stays there.
RunBuff(cmd, free) ==
  CASE free = 0 -> Nothing
    [] free > 0 /\ HasPipe(cmd) -> RunPipeline(cmd)
    [] free > 0 /\ Simple(cmd) -> RunSimple(cmd)
    [] OTHER -> [RunComm(cmd) EXCEPT !.stops = FALSE, !.stdinClosed = FALSE]

\* It takes an entry, unless there is none or the stages cannot be made.
TakesEntry(cmd, free) == free > 0 /\ (HasPipe(cmd) => MakeStages(cmd).result = 0)

\* run_tokens(): one outcome per command run.  A foreground command that names
\* nothing ends the line.
RECURSIVE RunTokens(_, _)
RunTokens(cmds, free) ==
  IF cmds = <<>> THEN <<>>
  ELSE LET cmd == Head(cmds).words
           done == IF Head(cmds).bg THEN RunBuff(cmd, free) ELSE RunComm(cmd)
           left == IF Head(cmds).bg /\ TakesEntry(cmd, free) THEN free - 1 ELSE free IN
       <<done>> \o (IF done.stops THEN <<>> ELSE RunTokens(Tail(cmds), left))

-----------------------------------------------------------------------------
\* Two inputs, grown by one character or one token at a time: a line for the
\* lexer, and the tokens of a line, each word with the kind of name it is.
CONSTANTS Char, Kind, Op, MaxLine, MaxTokens

ASSUME CmdLineAssumption ==
  /\ Char \subseteq Special \cup {"a", " ", "sq", "dq", "bs"}
  /\ Kind \subseteq {"hop", "builtin", "program", "nothing"}
  /\ Op \subseteq Redirections \cup Separators
  /\ MaxLine \in Nat /\ MaxTokens \in Nat /\ ARGV \in Nat \ {0, 1}

VARIABLES line, tokens

CmdLineInit == line = <<>> /\ tokens = <<>>

\* fgets() in main().
TypeChar(c) ==
  /\ Len(line) < MaxLine
  /\ line' = Append(line, c)
  /\ UNCHANGED tokens

\* Any list of tokens: lex_line() can return each.
AddToken(type, text) ==
  /\ Len(tokens) < MaxTokens
  /\ tokens' = Append(tokens, [type |-> type, text |-> text, at |-> Len(tokens) + 1])
  /\ UNCHANGED line

CmdLineNext ==
  \/ /\ tokens = <<>>
     /\ \E c \in Char : TypeChar(c)
  \/ /\ line = <<>>
     /\ \/ \E k \in Kind : AddToken("WORD", k)
        \/ \E o \in Op : AddToken(o, o)

-----------------------------------------------------------------------------
\* The meaning of a line, position by position: the quoting that holds before a
\* character says what the character adds and whether it may cut the line.
Mode(s) ==
  LET m[i \in 0 .. Len(s)] ==
        IF i = 0 THEN "plain"
        ELSE LET was == m[i - 1]
                 c == s[i] IN
             CASE was = "plain" -> (CASE c = "bs" -> "escape" [] c = "sq" -> "single"
                                      [] c = "dq" -> "double" [] OTHER -> "plain")
               [] was = "escape" -> "plain"
               [] was = "single" -> IF c = "sq" THEN "plain" ELSE "single"
               [] was = "double" -> (CASE c = "dq" -> "plain" [] c = "bs" -> "doubleEscape" [] OTHER -> "double")
               [] was = "doubleEscape" -> "double"
  IN m

\* What the character c adds to its word, in each quoting.
Adds(mode, c) ==
  CASE mode = "escape" -> <<c>>
    [] mode = "doubleEscape" -> IF c \in {"dq", "bs"} THEN <<c>> ELSE <<"bs", c>>
    [] mode = "single" /\ c # "sq" -> <<c>>
    [] mode = "double" /\ c \notin {"dq", "bs"} -> <<c>>
    [] mode = "plain" /\ c \notin {"dq", "sq", "bs"} -> <<c>>
    [] OTHER -> <<>>

\* An operator takes as much as it can: every second of the > in a row is the
\* tail of a >>.
ReferenceLex(s) ==
  LET m == Mode(s)
      Cut(i) == m[i - 1] = "plain" /\ s[i] \in Special \cup {" "}
      Arrow(i) == m[i - 1] = "plain" /\ s[i] = ">"
      run[i \in 0 .. Len(s)] == IF i = 0 \/ ~Arrow(i) THEN 0 ELSE run[i - 1] + 1
      Tail2(i) == run[i] % 2 = 0 /\ run[i] > 0
      Begins(i) == IF Cut(i) THEN s[i] # " " /\ ~Tail2(i) ELSE i = 1 \/ Cut(i - 1)
      EndOf(i) == CHOOSE j \in i .. Len(s) : (\A k \in i .. j : ~Cut(k)) /\ (j = Len(s) \/ Cut(j + 1))
      TokenAt(i) ==
        IF ~Cut(i) THEN [type |-> "WORD",
                         text |-> FlattenSeq([k \in 1 .. EndOf(i) + 1 - i |-> Adds(m[i + k - 2], s[i + k - 1])])]
        ELSE [type |-> IF i < Len(s) /\ Arrow(i) /\ Tail2(i + 1) THEN ">>" ELSE s[i], text |-> <<>>] IN
  IF m[Len(s)] # "plain" THEN Invalid
  ELSE [ok |-> TRUE, toks |-> LET at == SetToSortSeq({i \in 1 .. Len(s) : Begins(i)}, <)
                              IN [k \in DOMAIN at |-> TokenAt(at[k])]]

\* lex_line(), which jumps over quoted parts and operators, gives every line the
\* tokens and the words of the position by position reading, and refuses exactly
\* the lines that end inside quotes or after a backslash; main() passes no empty
\* line on.
LexerAgrees == line # <<>> => Lex(line) = ReferenceLex(line)

\* parse_tokens() accepts a list exactly when each operator stands where it may:
\* after a first word, and before a word, except for an & at the end.  No later
\* step then meets a redirection without a file or a stage without a name,
\* which pipeline() would dereference.
GrammarAgrees ==
  /\ tokens # <<>> =>
       (ParseTokens(tokens) <=>
          /\ tokens[1].type = "WORD"
          /\ \A i \in DOMAIN tokens : tokens[i].type # "WORD" =>
               IF i = Len(tokens) THEN tokens[i].type = "&" ELSE tokens[i + 1].type = "WORD")
  /\ ParseTokens(tokens) =>
       \A i \in DOMAIN Commands(tokens) :
         LET cmd == Commands(tokens)[i].words IN
         /\ MakeStages(cmd).result # 2
         /\ \A k \in DOMAIN MakeStages(cmd).stages :
              LET stage == MakeStages(cmd).stages[k] IN stage.result = 0 => stage.args # <<>>
         /\ HasPipe(cmd) \/ 2 \notin {CollectCommand(cmd).result, PrepareOutput(cmd).result}

\* The words a launched command uses, as arguments or as files.
Used(stage) == {w.at : w \in Range(stage.args) \cup Range(stage.inputs) \cup Range(stage.outputs)}

\* The background commands a job table with free entries has no room for.
Refused(cmds, free) ==
  {i \in DOMAIN cmds : cmds[i].bg /\ Cardinality({j \in 1 .. i : cmds[j].bg}) > free}

\* Every name of the line can be run and opened, argv holds every simple command
\* in the background, and no hop has redirections: their files, and the words
\* after them, are dropped.
Runnable(cmds) ==
  \A i \in DOMAIN cmds :
    LET cmd == cmds[i].words IN
    /\ \A j \in DOMAIN cmd : cmd[j].text # "nothing"
    /\ ~(cmd[1].text = "hop" /\ HasRedirect(cmd))
    /\ cmds[i].bg /\ Simple(cmd) => Len(cmd) < ARGV

\* No word of an accepted line is used twice, by one command or by two.  When the
\* line is runnable, every command is launched but the background commands for
\* which the job table has no entry, the standard input stays open, and every
\* word of theirs is an argument or a file, whichever of pipeline(),
\* run_external() and runbuff() launches them.
WordsUsedOnce ==
  tokens # <<>> /\ ParseTokens(tokens) =>
  \A cmds \in {Commands(tokens)} :
  \A free \in 0 .. MaxTokens \div 2 :
  \A done \in {RunTokens(cmds, free)} :
  \A stages \in {FlattenSeq([i \in DOMAIN done |-> done[i].launched])} :
     /\ \A i, k \in DOMAIN stages : i # k => Used(stages[i]) \cap Used(stages[k]) = {}
     /\ \A i \in DOMAIN stages :
          Cardinality(Used(stages[i])) = Len(stages[i].args \o stages[i].inputs \o stages[i].outputs)
     /\ Runnable(cmds) =>
          /\ Len(done) = Len(cmds)
          /\ \A i \in DOMAIN done :
               ~done[i].stdinClosed /\ (done[i].launched = <<>> <=> i \in Refused(cmds, free))
          /\ UNION {Used(stages[i]) : i \in DOMAIN stages}
               = UNION {{w.at : w \in {v \in Range(cmds[i].words) : v.type = "WORD"}} :
                          i \in DOMAIN cmds \ Refused(cmds, free)}
=============================================================================
