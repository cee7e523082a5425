------------------------------- MODULE MCUser -------------------------------
\* The programs that work on text, lists and memory alone.  They share nothing:
\* a behaviour is one of one program, and the others stay as they begin.
EXTENDS CmdLine, Sh, Grep, Peek, Heap, Hop

VARIABLE program

vars == <<program, line, tokens, input, GrepVars, content, heap, taken, cells, HopVars>>

Init ==
  /\ program \in {"cshell line", "sh", "grep", "peek", "malloc", "hop"}
  /\ CmdLineInit /\ ShInit /\ PeekInit /\ HeapInit /\ HopInit
  /\ GrepInit /\ (program # "grep" => pattern = <<>>)

Next ==
  \/ /\ program = "cshell line" /\ CmdLineNext
     /\ UNCHANGED <<program, input, GrepVars, content, heap, taken, cells, HopVars>>
  \/ /\ program = "sh" /\ ShNext
     /\ UNCHANGED <<program, line, tokens, GrepVars, content, heap, taken, cells, HopVars>>
  \/ /\ program = "grep" /\ GrepNext
     /\ UNCHANGED <<program, line, tokens, input, content, heap, taken, cells, HopVars>>
  \/ /\ program = "peek" /\ PeekNext
     /\ UNCHANGED <<program, line, tokens, input, GrepVars, heap, taken, cells, HopVars>>
  \/ /\ program = "malloc" /\ HeapNext
     /\ UNCHANGED <<program, line, tokens, input, GrepVars, content, HopVars>>
  \/ /\ program = "hop" /\ HopNext
     /\ UNCHANGED <<program, line, tokens, input, GrepVars, content, heap, taken, cells>>

Sym == Permutations(Shells)

Spec == Init /\ [][Next]_vars
=============================================================================
