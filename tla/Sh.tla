--------------------------------- MODULE Sh ---------------------------------
\* The xv6 shell: the recursive descent parser of sh.c, from the characters of a
\* line to a tree of commands, and what runcmd() makes of the tree: the processes
\* with their arguments and file descriptors.
\*
\* A character is "a", "x" or one of the symbols; a blank stands for all white
\* space.  A word with an "x" names nothing: it can be neither opened nor run.
\* malloc(), fork() and pipe() do not fail here, and the built-in cd is left out.
EXTENDS Naturals, Sequences, SequencesExt, FiniteSets

CONSTANTS ShChar, MaxShLine, NestChar, MaxNest, MAXARGS, NOFILE

ASSUME ShAssumption ==
  /\ ShChar \subseteq {"a", "x", " ", "<", ">", "|", "&", ";", "(", ")"}
  /\ NestChar \subseteq ShChar
  /\ MaxShLine \in Nat /\ MaxNest \in Nat /\ MAXARGS \in Nat \ {0} /\ NOFILE \in Nat

Symbols == {"<", "|", ">", "&", ";", "(", ")"}

\* The character at i, and the NUL after the last.
At(s, i) == IF i > Len(s) THEN "" ELSE s[i]

\* The first position from i on that is not white space.
SkipBlank(s, i) == CHOOSE j \in i .. Len(s) + 1 : At(s, j) # " " /\ \A k \in i .. j - 1 : s[k] = " "

\* gettoken() at q, which is not white space: the kind of the token, and where it
\* begins and ends.
GetToken(s, q) ==
  LET WordEnd == CHOOSE j \in q .. Len(s) + 1 : /\ At(s, j) \in Symbols \cup {" ", ""}
                                              /\ \A k \in q .. j - 1 : s[k] \notin Symbols \cup {" "} IN
  CASE s[q] = ">" /\ At(s, q + 1) = ">" -> [tok |-> "+", q |-> q, eq |-> q + 2]
    [] s[q] \in Symbols /\ ~(s[q] = ">" /\ At(s, q + 1) = ">") -> [tok |-> s[q], q |-> q, eq |-> q + 1]
    [] s[q] \notin Symbols -> [tok |-> "a", q |-> q, eq |-> WordEnd]

\* All the tokens from i on.  Every call of gettoken() and peek() starts where the
\* last token ended, so the parser is one over tokens: a position is the index of
\* the next.
RECURSIVE TokensFrom(_, _)
TokensFrom(s, i) ==
  IF SkipBlank(s, i) > Len(s) THEN <<>>
  ELSE <<GetToken(s, SkipBlank(s, i))>> \o TokensFrom(s, GetToken(s, SkipBlank(s, i)).eq)

\* peek(): the next token begins with one of toks.
Peek(ts, i, toks) == i <= Len(ts) /\ ts[i].tok \in toks

Word(t) == [q |-> t.q, eq |-> t.eq]

Panic == [ok |-> FALSE, cmd |-> [type |-> "NONE"], at |-> 0]

Parsed(cmd, at) == [ok |-> TRUE, cmd |-> cmd, at |-> at]

\* redircmd() around cmd: the command, the file, the mode and the descriptor.
Redirected(cmd, op, file) ==
  [type |-> "REDIR", cmd |-> cmd, file |-> Word(file), mode |-> op, fd |-> IF op = "<" THEN 0 ELSE 1]

\* parseredirs(): the redirections that stand at i, the first the innermost.
RECURSIVE ParseRedirs(_, _, _)
ParseRedirs(ts, i, cmd) ==
  IF ~Peek(ts, i, {"<", ">", "+"}) THEN Parsed(cmd, i)
  ELSE IF ~Peek(ts, i + 1, {"a"}) THEN Panic
  ELSE ParseRedirs(ts, i + 2, Redirected(cmd, ts[i].tok, ts[i + 1]))

\* The execcmd inside its redirections gets one more argument.
RECURSIVE WithArg(_, _)
WithArg(cmd, word) ==
  IF cmd.type = "EXEC" THEN [cmd EXCEPT !.argv = Append(@, word)]
  ELSE [cmd EXCEPT !.cmd = WithArg(@, word)]

\* The loop of parseexec() over arguments and redirections, after argc arguments.
RECURSIVE ParseArgs(_, _, _)
ParseArgs(ts, argc, so) ==
  IF ~so.ok THEN Panic
  ELSE IF so.at > Len(ts) \/ Peek(ts, so.at, {"|", ")", "&", ";"}) THEN so
  ELSE IF ts[so.at].tok # "a" \/ argc + 1 >= MAXARGS THEN Panic
  ELSE ParseArgs(ts, argc + 1, ParseRedirs(ts, so.at + 1, WithArg(so.cmd, Word(ts[so.at]))))

\* parseblock() once the line in parentheses is parsed.
ParseBlock(ts, inner) ==
  IF ~inner.ok THEN Panic
  ELSE IF ~Peek(ts, inner.at, {")"}) THEN Panic
  ELSE ParseRedirs(ts, inner.at + 1, inner.cmd)

\* pipecmd() and listcmd(): two commands, the second of which follows the first.
Joined(type, left, right) ==
  IF ~right.ok THEN Panic
  ELSE Parsed([type |-> type, left |-> left.cmd, right |-> right.cmd], right.at)

\* Mutant: only one & is taken.
BackedOnce(ts, so) ==
  IF so.ok /\ Peek(ts, so.at, {"&"}) THEN Parsed([type |-> "BACK", cmd |-> so.cmd], so.at + 1) ELSE so

\* backcmd() around the command for each & that follows it.
RECURSIVE Backed(_, _)
Backed(ts, so) ==
  IF so.ok /\ Peek(ts, so.at, {"&"}) THEN Backed(ts, Parsed([type |-> "BACK", cmd |-> so.cmd], so.at + 1))
  ELSE so

RECURSIVE ParseLine(_, _)
ParseExec(ts, i) ==
  IF Peek(ts, i, {"("}) THEN ParseBlock(ts, ParseLine(ts, i + 1))
  ELSE ParseArgs(ts, 0, ParseRedirs(ts, i, [type |-> "EXEC", argv |-> <<>>]))

\* parsepipe() and parseline() after their left parts.
RECURSIVE PipeRest(_, _)
PipeRest(ts, left) ==
  IF left.ok /\ Peek(ts, left.at, {"|"})
  THEN Joined("PIPE", left, PipeRest(ts, ParseExec(ts, left.at + 1)))
  ELSE left

ParsePipe(ts, i) == PipeRest(ts, ParseExec(ts, i))

LineRest(ts, left) ==
  IF left.ok /\ Peek(ts, left.at, {";"}) THEN Joined("LIST", left, ParseLine(ts, left.at + 1)) ELSE left

ParseLine(ts, i) == LineRest(ts, Backed(ts, ParsePipe(ts, i)))

\* nulterminate(): the ends of the words of cmd, where it writes a NUL.
RECURSIVE NulTerminate(_)
NulTerminate(cmd) ==
  CASE cmd.type = "EXEC" -> {cmd.argv[i].eq : i \in DOMAIN cmd.argv}
    [] cmd.type = "REDIR" -> NulTerminate(cmd.cmd) \cup {cmd.file.eq}
    [] cmd.type \in {"PIPE", "LIST"} -> NulTerminate(cmd.left) \cup NulTerminate(cmd.right)
    [] cmd.type = "BACK" -> NulTerminate(cmd.cmd)

\* parsecmd(): nothing may be left over.
ParseCmd(ts) ==
  LET all == ParseLine(ts, 1) IN IF all.at = Len(ts) + 1 THEN all ELSE Panic

-----------------------------------------------------------------------------
Fd == 0 .. NOFILE - 1

Closed == <<"closed", <<>>>>

Console == <<"console", <<>>>>

\* open() and dup(): the lowest descriptor that is free.
Lowest(fds) == CHOOSE f \in Fd : fds[f] = Closed /\ \A g \in 0 .. f - 1 : fds[g] # Closed

OpenFd(fds, what) == [fds EXCEPT ![Lowest(fds)] = what]

CloseFd(fds, fd) == [fds EXCEPT ![fd] = Closed]

\* main() opens the console until three descriptors are open, and closes the fourth.
StartFds(fds) ==
  [f \in Fd |-> IF f < 3 /\ fds[f] = Closed THEN Console ELSE fds[f]]

\* The string that starts at q once the NULs are written.
StringAt(s, nuls, q) ==
  SubSeq(s, q, (CHOOSE j \in q .. Len(s) + 1 : /\ j \in nuls \cup {Len(s) + 1}
                                             /\ \A k \in q .. j - 1 : k \notin nuls) - 1)

Names(s, nuls, word) == "x" \notin Range(StringAt(s, nuls, word.q))

\* pipe(): the two ends of the pipe of the command at `path', in the lowest
\* descriptors.
PipeFds(fds, path) == OpenFd(OpenFd(fds, <<"r", path>>), <<"w", path>>)

\* Mutant: the side keeps the end it did not duplicate.
SideKeeps(fds, path, end, fd) ==
  LET both == PipeFds(fds, path) IN OpenFd(CloseFd(both, fd), <<end, path>>)

\* One side of a pipe: fd becomes the end `end', and both ends are closed.
Side(fds, path, end, fd) ==
  LET both == PipeFds(fds, path)
      ends == {f \in Fd : both[f] \in {<<"r", path>>, <<"w", path>>}}
      dup == OpenFd(CloseFd(both, fd), <<end, path>>) IN
  [f \in Fd |-> IF f \in ends THEN Closed ELSE dup[f]]

\* runcmd(): the processes cmd becomes, each with the place in the tree where it
\* was forked, what it does last ("exec", or "wait" for its children), and its
\* descriptors then.
RECURSIVE RunCmd(_, _, _, _, _)
RunCmd(s, nuls, cmd, fds, path) ==
  LET Waits == {[path |-> path, does |-> "wait", argv |-> <<>>, fds |-> fds]} IN
  CASE cmd.type = "EXEC" ->
         IF cmd.argv = <<>> THEN {}
         ELSE IF ~Names(s, nuls, cmd.argv[1]) THEN {}
         ELSE {[path |-> path, does |-> "exec", argv |-> cmd.argv, fds |-> fds]}
    [] cmd.type = "REDIR" ->
         IF ~Names(s, nuls, cmd.file) THEN {}
         ELSE RunCmd(s, nuls, cmd.cmd,
                     OpenFd(CloseFd(fds, cmd.fd), <<cmd.mode, <<cmd.file.q>>>>), path)
    [] cmd.type = "LIST" -> Waits \cup RunCmd(s, nuls, cmd.left, fds, Append(path, "l"))
                                  \cup RunCmd(s, nuls, cmd.right, fds, Append(path, "."))
    [] cmd.type = "PIPE" ->
         Waits \cup RunCmd(s, nuls, cmd.left, Side(fds, path, "w", 1), Append(path, "l"))
               \cup RunCmd(s, nuls, cmd.right, Side(fds, path, "r", 0), Append(path, "r"))
    [] cmd.type = "BACK" -> RunCmd(s, nuls, cmd.cmd, fds, Append(path, "b"))

-----------------------------------------------------------------------------
VARIABLE input

ShInit == input = <<>>

\* gets() in getcmd(): every line, one character at a time; the longer ones of
\* NestChar only, which suffices for pipes in parentheses.
ShNext ==
  \/ /\ Len(input) < MaxShLine
     /\ \E c \in ShChar : input' = Append(input, c)
  \/ /\ Len(input) \in MaxShLine .. MaxNest - 1
     /\ Range(input) \subseteq NestChar
     /\ \E c \in NestChar : input' = Append(input, c)

-----------------------------------------------------------------------------
\* The grammar, as the set of trees each part of a line derives.
Upto(ts, i) == SubSeq(ts, 1, i - 1)

After(ts, i) == SubSeq(ts, i + 1, Len(ts))

Where(ts, tok) == {i \in DOMAIN ts : ts[i].tok = tok}

IsRedir(t) == t.tok \in {"<", ">", "+"}

\* A command inside the redirections of ts, and the other words of ts.
InRedirs(cmd, ts) ==
  LET at == SetToSortSeq({i \in DOMAIN ts : IsRedir(ts[i])}, <) IN
  FoldLeft(LAMBDA c, i : Redirected(c, ts[i].tok, ts[i + 1]), cmd, at)

ArgsOf(ts) ==
  LET at == SetToSortSeq({i \in Where(ts, "a") : i = 1 \/ ~IsRedir(ts[i - 1])}, <) IN
  [k \in DOMAIN at |-> Word(ts[at[k]])]

WordsAndRedirs(ts) ==
  \A i \in DOMAIN ts : ts[i].tok # "a" => IsRedir(ts[i]) /\ i + 1 \in Where(ts, "a")

RECURSIVE LineTrees(_)
ExecTrees(ts) ==
  (IF WordsAndRedirs(ts) /\ Len(ArgsOf(ts)) < MAXARGS
   THEN {InRedirs([type |-> "EXEC", argv |-> ArgsOf(ts)], ts)} ELSE {})
  \cup
  UNION {{InRedirs(c, After(ts, j)) : c \in LineTrees(SubSeq(ts, 2, j - 1))} :
         j \in {j \in Where(ts, ")") : /\ ts[1].tok = "("
                                      /\ WordsAndRedirs(After(ts, j)) /\ ArgsOf(After(ts, j)) = <<>>}}

RECURSIVE PipeTrees(_)
PipeTrees(ts) ==
  ExecTrees(ts) \cup
  UNION {{[type |-> "PIPE", left |-> l, right |-> r] :
            l \in ExecTrees(Upto(ts, i)), r \in PipeTrees(After(ts, i))} : i \in Where(ts, "|")}

RECURSIVE BackTrees(_)
BackTrees(ts) ==
  PipeTrees(ts) \cup
  {[type |-> "BACK", cmd |-> c] : c \in IF Len(ts) \in Where(ts, "&") THEN BackTrees(Front(ts)) ELSE {}}

LineTrees(ts) ==
  BackTrees(ts) \cup
  UNION {{[type |-> "LIST", left |-> l, right |-> r] :
            l \in BackTrees(Upto(ts, i)), r \in LineTrees(After(ts, i))} : i \in Where(ts, ";")}

\* parsecmd() finds the one tree the grammar derives from the line's tokens, and
\* panics exactly when there is none: the grammar is unambiguous, and the peeks of
\* the parser take neither too much nor too little.  main() runs no empty line.
ShParserAgrees ==
  input # <<>> =>
    \E ts \in {TokensFrom(input, 1)} : \E parsed \in {ParseCmd(ts)} :
      LineTrees(ts) = IF parsed.ok THEN {parsed.cmd} ELSE {}

\* The meaning of a tree: each program with its input and output.
RECURSIVE Programs(_, _, _)
Programs(cmd, in, out) ==
  CASE cmd.type = "EXEC" -> IF cmd.argv = <<>> THEN {} ELSE {[argv |-> cmd.argv, in |-> in, out |-> out]}
    [] cmd.type = "REDIR" -> LET file == <<cmd.mode, <<cmd.file.q>>>> IN
         IF cmd.fd = 0 THEN Programs(cmd.cmd, file, out) ELSE Programs(cmd.cmd, in, file)
    [] cmd.type = "LIST" -> Programs(cmd.left, in, out) \cup Programs(cmd.right, in, out)
    [] cmd.type = "PIPE" -> Programs(cmd.left, in, <<"pipe", <<>>>>) \cup Programs(cmd.right, <<"pipe", <<>>>>, out)
    [] cmd.type = "BACK" -> Programs(cmd.cmd, in, out)

PipeOr(end) == IF end[1] \in {"r", "w"} THEN <<"pipe", <<>>>> ELSE end

\* Every program of a parsed line runs with the input and output the tree gives
\* it and with no other descriptor, and the ends of a pipe are held only by the
\* processes of its side, waiting parents included: when the writers are gone the
\* reader sees the end.  Every word is a terminated string of its own.
ShPlumbing ==
  input # <<>> =>
  \A parsed \in {ParseCmd(TokensFrom(input, 1))} : parsed.ok =>
  \A nuls \in {NulTerminate(parsed.cmd)} :
  \A procs \in {RunCmd(input, nuls, parsed.cmd, StartFds([f \in Fd |-> Closed]), <<>>)} :
    /\ \A p \in procs, f \in Fd :
         /\ p.fds[f][1] = "w" => IsPrefix(Append(p.fds[f][2], "l"), p.path)
         /\ p.fds[f][1] = "r" => IsPrefix(Append(p.fds[f][2], "r"), p.path)
         /\ f > 2 => p.fds[f] = Closed
    /\ \A e \in nuls, i \in 1 .. Len(input) : i = e => input[i] \in Symbols \cup {" "}
    /\ "x" \notin Range(input) =>
         {[argv |-> p.argv, in |-> PipeOr(p.fds[0]), out |-> PipeOr(p.fds[1])] : p \in {q \in procs : q.does = "exec"}}
           = Programs(parsed.cmd, Console, Console)
=============================================================================
