----------------------------- MODULE LineInput -----------------------------
\* What the console promises of its input: a line can be edited until it is
\* finished, by a newline, an end of file or a full buffer; readers take finished
\* characters in order, one line at most in a read.
EXTENDS Naturals, Sequences

CONSTANTS
    Proc, Key,
    Size,       \* characters the console holds
    MaxN        \* characters a read may ask for

VARIABLES
    line,       \* what is being typed
    ready,      \* what may be read
    reader      \* what each process asked for and has got, or Idle

Idle == <<>>
vars == <<line, ready, reader>>

Init == line = <<>> /\ ready = <<>> /\ reader = [p \in Proc |-> Idle]

Full == Len(line) + Len(ready) = Size
Stored(c) == IF c = "cr" THEN "nl" ELSE c

Erase == /\ line # <<>> /\ line' = SubSeq(line, 1, Len(line) - 1)
         /\ UNCHANGED <<ready, reader>>
Discard == line' = <<>> /\ UNCHANGED <<ready, reader>>
Type(c) ==
    LET new == Append(line, Stored(c))
        finished == Stored(c) \in {"nl", "eof"} \/ Len(new) + Len(ready) = Size
    IN  /\ c \notin {"erase", "kill", "procdump", "nul"} /\ ~Full
        /\ line' = IF finished THEN <<>> ELSE new
        /\ ready' = IF finished THEN ready \o new ELSE ready
        /\ UNCHANGED reader

Read(p) ==
    /\ reader[p] = Idle
    /\ \E n \in 1 .. MaxN : reader' = [reader EXCEPT ![p] = [want |-> n, got |-> <<>>]]
    /\ UNCHANGED <<line, ready>>

\* An end of file ends a read; only a read that got nothing uses it up.
Eof(p) ==
    /\ reader[p] # Idle /\ ready # <<>> /\ Head(ready) = "eof"
    /\ ready' = IF reader[p].got = <<>> THEN Tail(ready) ELSE ready
    /\ reader' = [reader EXCEPT ![p] = Idle]
    /\ UNCHANGED line
Take(p) ==
    /\ reader[p] # Idle /\ ready # <<>> /\ Head(ready) # "eof"
    /\ ready' = Tail(ready)
    /\ LET got == Append(reader[p].got, Head(ready))
       IN  reader' = [reader EXCEPT ![p] =
                        IF Head(ready) = "nl" \/ Len(got) = @.want THEN Idle ELSE [@ EXCEPT !.got = got]]
    /\ UNCHANGED line
\* The character a process gave no room for is lost, a killed one gets nothing.
Fault(p) ==
    /\ reader[p] # Idle /\ ready # <<>> /\ Head(ready) # "eof"
    /\ ready' = Tail(ready) /\ reader' = [reader EXCEPT ![p] = Idle]
    /\ UNCHANGED line
Killed(p) ==
    /\ reader[p] # Idle /\ ready = <<>>
    /\ reader' = [reader EXCEPT ![p] = Idle]
    /\ UNCHANGED <<line, ready>>

Next ==
    \/ Erase \/ Discard \/ \E c \in Key : Type(c)
    \/ \E p \in Proc : Read(p) \/ Eof(p) \/ Take(p) \/ Fault(p) \/ Killed(p)

Spec == Init /\ [][Next]_vars
=============================================================================
