----------------------------- MODULE MCFileSys -----------------------------
\* FileSys on a small disk, with the calls that meet each other on the way: a
\* directory removed while a file is made in it, linked into it or it is
\* somebody's current directory.
EXTENDS FileSys

a == <<"/", "a">>
ax == <<"/", "a", "x">>
MCCalls ==
    {[op |-> "mkdir", path |-> a], [op |-> "mknod", path |-> <<"x">>, major |-> 1],
     [op |-> "mknod", path |-> <<"x">>, major |-> NDEV],
     [op |-> "unlink", path |-> a], [op |-> "unlink", path |-> <<"x">>],
     [op |-> "unlink", path |-> <<".">>], [op |-> "unlink", path |-> <<"/">>],
     [op |-> "link", path |-> <<"/", "x">>, new |-> ax],
     [op |-> "chdir", path |-> <<"a">>], [op |-> "chdir", path |-> <<"..">>],
     [op |-> "chdir", path |-> <<"/">>], [op |-> "chdir", path |-> <<"x">>],
     [op |-> "open", path |-> <<"x">>, mode |-> {"O_CREATE", "O_RDWR"}],
     [op |-> "open", path |-> <<"/", "x">>, mode |-> {"O_TRUNC", "O_RDWR"}],
     [op |-> "open", path |-> ax, mode |-> {"O_CREATE"}],
     [op |-> "open", path |-> a, mode |-> {}],
     [op |-> "open", path |-> a, mode |-> {"O_RDWR"}]}

Sym == Permutations(Proc)
=============================================================================
