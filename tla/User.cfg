SPECIFICATION Spec
CONSTANTS
  Char = {"a", " ", "sq", "dq", "bs", "&", ">"}
  Kind = {"hop", "builtin", "program", "nothing"}
  Op = {"|", "&", ";", "<", ">>"}
  MaxLine = 6
  MaxTokens = 5
  ARGV = 4
  ShChar = {"a", "x", " ", "<", ">", "|", "&", ";", "(", ")"}
  MaxShLine = 5
  NestChar = {"a", "|", "(", ")"}
  MaxNest = 7
  MAXARGS = 3
  NOFILE = 8
  ReChar = {"^", "$", ".", "*", "a"}
  TextChar = {"a", "$"}
  MaxRe = 3
  MaxText = 4
  BUFSIZE = 4
  FileChar = {"a", "b", "nl"}
  MaxFile = 6
  PEEK_CHUNK = 3
  Units = {1, 2, 5}
  NU = 4
  HeapMax = 9
  Shells = {s1, s2}
  Dir = {1, 2, 3}
  HomeDir = 1
  Fuzzy = {{2, 3}}
  MaxHops = 4
  MaxGone = 1
SYMMETRY Sym
INVARIANTS
  LexerAgrees GrammarAgrees WordsUsedOnce
  ShParserAgrees ShPlumbing
  GrepPrintsMatches PeekReverses HeapTiled HistoryHonest
PROPERTY HopGoesToBest
\* A program stops at the end of its input.
CHECK_DEADLOCK FALSE
