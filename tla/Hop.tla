-------------------------------- MODULE Hop --------------------------------
\* The hop of the C shell and its history file, which every shell and every hop
\* in the background of one share: each visit reads the whole file, opens it for
\* writing, which empties it, and writes it again when it is closed.
\*
\* Directories are numbers, in the order of strcmp().  The lines of the history
\* have one length, so that what one process writes over another's lines covers
\* whole lines, and the file fits the buffer of stdio, which fclose() writes at
\* once.  malloc() and opening the history do not fail here.
EXTENDS Naturals, Sequences, SequencesExt, FiniteSets

CONSTANTS Shells,       \* the processes that run a hop
          Dir, HomeDir,
          Fuzzy,        \* the other names: each the set of the directories that contain it
          MaxHops, MaxGone

ASSUME HopAssumption ==
  /\ Dir \subseteq Nat /\ HomeDir \in Dir
  /\ \A f \in Fuzzy : f \subseteq Dir
  /\ MaxHops \in Nat /\ MaxGone \in Nat

NoDir == 0

VARIABLES history,      \* the file: a sequence of [path, count, last]
          there,        \* the directories that exist
          sh,           \* per process: pc, cwd, prev, and the locals of do_hop() and record_visit()
          visits,       \* the visits of all processes, in the order the updates began
          hops,         \* hops begun
          mixed         \* two updates of the file overlapped, or one was cut short

HopVars == <<history, there, sh, visits, hops, mixed>>

Idle(cwd, prev) == [pc |-> "idle", cwd |-> cwd, prev |-> prev, names |-> {}, target |-> NoDir,
                    old |-> NoDir, loaded |-> <<>>]

HopInit ==
  /\ history = <<>> /\ there = Dir
  /\ sh = [p \in Shells |-> Idle(HomeDir, NoDir)]
  /\ visits = <<>> /\ hops = 0 /\ mixed = FALSE

Done(p) == sh' = [sh EXCEPT ![p] = Idle(@.cwd, @.prev)]

\* do_hop() with a directory, ~ or -: change_directory() comes next.  names is
\* what find_visit() will look for when the argument is not a directory.
HopTo(p, target, names) ==
  /\ sh[p].pc = "idle" /\ hops < MaxHops
  /\ hops' = hops + 1
  /\ sh' = [sh EXCEPT ![p].pc = "chdir", ![p].target = target, ![p].names = names]
  /\ UNCHANGED <<history, there, visits, mixed>>

\* A hop to ., or to - before any other, changes nothing and is left out.
HopDir(p) == \E d \in Dir : HopTo(p, d, {d})

HopHome(p) == HopTo(p, HomeDir, {})

HopBack(p) == sh[p].prev # NoDir /\ HopTo(p, sh[p].prev, {})

HopFuzzy(p) == \E f \in Fuzzy : HopTo(p, NoDir, f)

\* chdir() in change_directory(); it fails, and so does getcwd() before it, where
\* the directory is gone.  A failed hop to a name asks the history next.
Chdir(p) ==
  LET s == sh[p] IN
  /\ s.pc = "chdir"
  /\ sh' = [sh EXCEPT ![p] =
              IF s.cwd \in there /\ s.target \in there
              THEN [s EXCEPT !.pc = "getcwd", !.old = s.cwd, !.cwd = s.target]
              ELSE IF s.names # {} THEN [s EXCEPT !.pc = "find"]
              ELSE Idle(s.cwd, s.prev)]
  /\ UNCHANGED <<history, there, visits, hops, mixed>>

\* The rest of change_directory(): a directory that is new is a visit.  One that
\* was removed since chdir() is a failure, although the process is in it.
Getcwd(p) ==
  LET s == sh[p] IN
  /\ s.pc = "getcwd"
  /\ sh' = [sh EXCEPT ![p] =
              IF s.cwd \in there
              THEN IF s.old # s.cwd THEN [s EXCEPT !.pc = "load", !.prev = s.old] ELSE Idle(s.cwd, s.prev)
              ELSE IF s.names # {} THEN [s EXCEPT !.pc = "find"]
              ELSE Idle(s.cwd, s.prev)]
  /\ UNCHANGED <<history, there, visits, hops, mixed>>

\* The better of two entries: the count, then the last visit, then the name.
Better(v, w) ==
  \/ v.count > w.count
  \/ v.count = w.count /\ v.last > w.last
  \/ v.count = w.count /\ v.last = w.last /\ v.path < w.path

\* Mutant: the latest visit first.
BestLatest(entries) ==
  CHOOSE v \in entries : \A w \in entries : w.last < v.last \/ (w.last = v.last /\ w.count <= v.count)

\* The loop of find_visit() over the entries that may be taken.
BestOf(entries) == CHOOSE v \in entries : \A w \in entries : v = w \/ Better(v, w)

Candidates(s) == {v \in Range(history) : v.path \in there \cap s.names}

\* find_visit(), and change_directory() to what it finds.
FindVisit(p) ==
  LET s == sh[p] IN
  /\ s.pc = "find"
  /\ sh' = [sh EXCEPT ![p] = IF Candidates(s) = {} THEN Idle(s.cwd, s.prev)
                             ELSE [s EXCEPT !.pc = "chdir", !.names = {}, !.target = BestOf(Candidates(s)).path]]
  /\ UNCHANGED <<history, there, visits, hops, mixed>>

Updating(p) == sh[p].pc \in {"empty", "write"}

\* Mutant: a directory visited before gets a second entry.
RecordedTwice(file, d) ==
  Append(file, [path |-> d, count |-> 1, last |-> Max({0} \cup {file[i].last : i \in DOMAIN file}) + 1])

\* record_visit(): load_visits(), and the entry changed or added.
Recorded(file, d) ==
  LET sequence == Max({0} \cup {file[i].last : i \in DOMAIN file}) + 1
      at == SelectInSeq(file, LAMBDA v : v.path = d) IN
  IF at = 0 THEN Append(file, [path |-> d, count |-> 1, last |-> sequence])
  ELSE [file EXCEPT ![at].count = @ + 1, ![at].last = sequence]

Load(p) ==
  /\ sh[p].pc = "load"
  /\ sh' = [sh EXCEPT ![p].pc = "empty", ![p].loaded = Recorded(history, sh[p].cwd)]
  /\ visits' = Append(visits, sh[p].cwd)
  /\ mixed' = (mixed \/ \E q \in Shells : Updating(q))
  /\ UNCHANGED <<history, there, hops>>

\* save_visits(): fopen() empties the file, fclose() writes it from the start.
Empty(p) ==
  /\ sh[p].pc = "empty"
  /\ history' = <<>>
  /\ sh' = [sh EXCEPT ![p].pc = "write"]
  /\ UNCHANGED <<there, visits, hops, mixed>>

WriteBack(p) ==
  /\ sh[p].pc = "write"
  /\ history' = sh[p].loaded \o SubSeq(history, Len(sh[p].loaded) + 1, Len(history))
  /\ Done(p)
  /\ UNCHANGED <<there, visits, hops, mixed>>

\* A signal ends the process, at any step; a new shell starts at home.
Killed(p) ==
  /\ sh[p].pc # "idle"
  /\ sh' = [sh EXCEPT ![p] = Idle(HomeDir, NoDir)]
  /\ mixed' = (mixed \/ Updating(p))
  /\ UNCHANGED <<history, there, visits, hops>>

\* Another program removes a directory.
Rmdir(d) ==
  /\ Cardinality(Dir \ there) < MaxGone
  /\ d \in there \ {HomeDir}
  /\ there' = there \ {d}
  /\ UNCHANGED <<history, sh, visits, hops, mixed>>

HopNext ==
  \/ \E p \in Shells : \/ HopDir(p) \/ HopHome(p) \/ HopBack(p) \/ HopFuzzy(p)
                       \/ Chdir(p) \/ Getcwd(p) \/ FindVisit(p)
                       \/ Load(p) \/ Empty(p) \/ WriteBack(p) \/ Killed(p)
  \/ \E d \in Dir : Rmdir(d)

-----------------------------------------------------------------------------
Count(d) == Cardinality({i \in DOMAIN visits : visits[i] = d})

LastVisit(d) == Max({i \in DOMAIN visits : visits[i] = d})

\* The history never claims a visit that was not made, however the updates of
\* several processes fall and wherever one is killed; and as long as no two
\* overlapped and none was cut short, it holds each visited directory once, with
\* the number of its visits and the place of the last in their order.  This is for
\* a history that fits one buffer of stdio, which fclose() writes at once.
HistoryHonest ==
  /\ \A i \in DOMAIN history : history[i].count <= Count(history[i].path)
  /\ ~mixed /\ (\A p \in Shells : ~Updating(p)) =>
       /\ IsInjective([i \in DOMAIN history |-> history[i].path])
       /\ Range(history) = {[path |-> d, count |-> Count(d), last |-> LastVisit(d)] : d \in Range(visits)}

\* A hop to a name that is no directory goes where the shells have been most
\* often, and among those most lately, of the directories that are there and
\* contain the name.
HopGoesToBest ==
  [][\A p \in Shells :
       LET best == sh'[p].target
           quiet == ~mixed /\ \A q \in Shells : ~Updating(q) IN
       quiet /\ sh[p].pc = "find" /\ sh'[p].pc = "chdir" =>
         \A d \in (Range(visits) \cap there \cap sh[p].names) \ {best} :
           \/ Count(d) < Count(best)
           \/ Count(d) = Count(best) /\ LastVisit(d) < LastVisit(best)]_HopVars
=============================================================================
