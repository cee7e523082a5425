------------------------------ MODULE FileSys ------------------------------
\* The xv6 file system above the log: inodes and their blocks, directories,
\* path names, the file table and the system calls on them (fs.c, file.c,
\* sysfile.c), from the image mkfs.c writes, through crashes and the orphan
\* reclamation of the next boot.
\*
\* A step is what runs under one inode lock; the unlock and the iput of an
\* iunlockput are two steps. The buffers and the log below are Disk and Log: a
\* log_write is a change of dinode or bitmap, and since a transaction becomes
\* durable with all the others that overlap it, what a crash leaves is the
\* state of a moment when no call was inside a transaction. An in-memory inode
\* is written back under the lock that covers its change, so its copy of the
\* disk inode is dinode[i] itself; ref, valid and the lock are itab[i].
EXTENDS Integers, FiniteSets, Sequences, TLC, FiniteSetsExt, Functions

CONSTANTS
    Proc,       \* processes
    None,       \* no process
    Name,       \* the names a directory entry may have
    Files,      \* the files on the image mkfs builds
    NINODES,    \* inodes on the disk (sb.ninodes - 1)
    NINODE,     \* entries of the table of in-memory inodes
    NDEV,       \* major device numbers
    NBLOCKS,    \* data blocks on the disk
    NDIRECT,    \* direct blocks of a file
    NINDIRECT,  \* blocks the indirect block points at
    DPB,        \* directory entries in a block
    NLINK_MAX,  \* the largest link count
    NFILE,      \* open files
    NOFILE,     \* descriptors of a process
    Calls,      \* the calls on path names that processes make
    MaxIO,      \* bound: blocks a process reads or writes with one call
    MaxCalls    \* bound: calls made on path names and descriptors

ASSUME SizeAssumption ==
    /\ Files \subseteq Name
    /\ NINODES \in Nat /\ Cardinality(Files) < NINODES
    /\ NINODE \in Nat \ {0, 1} /\ NDEV \in Nat
    /\ NBLOCKS \in Nat /\ Cardinality(Files) < NBLOCKS
    /\ NDIRECT \in Nat \ {0} /\ NINDIRECT \in Nat
    /\ DPB \in Nat \ {0} /\ (Cardinality(Files) + 2) % DPB # 0
    /\ NLINK_MAX \in Nat \ {0} /\ NFILE \in Nat /\ NOFILE \in Nat
    /\ MaxIO \in Nat /\ MaxCalls \in Nat
    /\ (Cardinality(Files) + 2) \div DPB < NDIRECT

VARIABLES
    dinode,     \* the inodes on the disk
    bitmap,     \* the blocks marked in use
    itab,       \* the in-memory inodes: ref, valid and the sleep lock
    file,       \* the file table
    ofile,      \* the descriptors of each process
    cwd,        \* the current directory of each process, 0 if there is no process
    th,         \* where each process is in its call
    boot,       \* the inode ireclaim looks at next, 0 once the system is up
    calls       \* calls made so far

vars == <<dinode, bitmap, itab, file, ofile, cwd, th, boot, calls>>
disk == <<dinode, bitmap>>
procs == <<file, ofile, cwd>>

Inum == 1 .. NINODES
Block == 1 .. NBLOCKS
FileId == 1 .. NFILE
Fd == 1 .. NOFILE
ROOTINO == 1
MAXFILE == NDIRECT + NINDIRECT

-----------------------------------------------------------------------------
\* Blocks and the content of an inode.

\* A disk inode as ialloc leaves it: all zero but the type. The size counts
\* blocks, of a directory entries; addrs are the data blocks in order, ind is
\* the indirect block, ents the entries of a directory.
Blank(type) ==
    [type |-> type, major |-> 0, nlink |-> 0, size |-> 0, addrs |-> <<>>, ind |-> 0,
     ents |-> <<>>]
Unit(d) == IF d.type = "DIR" THEN DPB ELSE 1

Owned(d) == Range(d.addrs) \cup ({d.ind} \ {0})
Free(bm) == Block \ bm

\* The first free block, 0 if there is none.
Balloc(bm) == IF Free(bm) = {} THEN 0 ELSE Min(Free(bm))
Bfree(bm, blocks) == bm \ blocks

\* One more block of the bitmap as the indirect block, then as the next data
\* block, of the inode in m; without a free one m is left as it is, not ok.
MapIndirect(m) ==
    IF Free(m.bm) = {} THEN [m EXCEPT !.ok = FALSE]
    ELSE [m EXCEPT !.d.ind = Balloc(m.bm), !.bm = @ \cup {Balloc(m.bm)}]
MapData(m) ==
    IF ~m.ok \/ Free(m.bm) = {} THEN [m EXCEPT !.ok = FALSE]
    ELSE [m EXCEPT !.d.addrs = Append(@, Balloc(m.bm)), !.bm = @ \cup {Balloc(m.bm)}]

\* Mutant: the indirect block is not recorded when the data block is missing.
BmapForgets(d, bm, bn) ==
    LET m == [ok |-> TRUE, d |-> d, bm |-> bm]
        both == MapData(MapIndirect(m))
    IN  IF bn < Len(d.addrs) THEN m
        ELSE IF bn >= NDIRECT /\ d.ind = 0
        THEN IF both.ok THEN both ELSE [both EXCEPT !.d = d]
        ELSE MapData(m)

\* Block bn of the inode, allocated if it has none.
Bmap(d, bm, bn) ==
    LET m == [ok |-> TRUE, d |-> d, bm |-> bm]
    IN  IF bn < Len(d.addrs) THEN m
        ELSE IF bn >= NDIRECT /\ d.ind = 0 THEN MapData(MapIndirect(m))
        ELSE MapData(m)

\* Mutant: the size grows by what was asked, not by what was written.
SizedAsked(w, off, n) == [w EXCEPT !.d.size = Max({@, off + n})]

\* The size after a write at off, and one round of writei, the kth: it maps a
\* block and copies to it, when the first good copies of the call succeed.
Sized(w, off, n) == [w EXCEPT !.d.size = Max({@, off + w.n})]
WriteRound(w, m, k, good) ==
    [n |-> IF m.ok /\ k <= good THEN k ELSE w.n, d |-> m.d, bm |-> m.bm]

\* What writei leaves of the inode and the bitmap, and how much it wrote of n
\* blocks (of a directory, entries) at offset off.
Writei(d, bm, off, n, good) ==
    LET round[k \in 0 .. n] ==
            IF k = 0 THEN [n |-> 0, d |-> d, bm |-> bm]
            ELSE LET w == round[k - 1]
                 IN  IF w.n < k - 1 THEN w
                     ELSE WriteRound(w, Bmap(w.d, w.bm, (off + w.n) \div Unit(d)), k, good)
    IN  IF off > d.size \/ off + n > MAXFILE * Unit(d)
        THEN [n |-> -1, d |-> d, bm |-> bm]
        ELSE Sized(round[n], off, n)

\* How much readi returns of n at offset off.
Readi(d, off, n) == IF off > d.size THEN 0 ELSE Min({n, d.size - off})

Itrunc(d) == [d EXCEPT !.size = 0, !.addrs = <<>>, !.ind = 0, !.ents = <<>>]

\* Directories: entries are names and inode numbers, 0 in a free one.
NoEntry == <<"", 0>>
SlotOf(d, n) == {s \in DOMAIN d.ents : d.ents[s][2] # 0 /\ d.ents[s][1] = n}
Dirlookup(d, n) == IF SlotOf(d, n) = {} THEN 0 ELSE d.ents[Min(SlotOf(d, n))][2]

\* The entry goes into the first free slot, or at the end.
Entered(w, d, slot, entry) ==
    IF w.n # 1 THEN [ok |-> FALSE, d |-> w.d, bm |-> w.bm]
    ELSE [ok |-> TRUE, bm |-> w.bm,
          d |-> [w.d EXCEPT !.ents = [s \in 1 .. w.d.size |->
                                        IF s = slot THEN entry ELSE d.ents[s]]]]
Dirlink(d, bm, n, i) ==
    LET free == {s \in DOMAIN d.ents : d.ents[s][2] = 0}
        slot == IF free = {} THEN d.size + 1 ELSE Min(free)
    IN  IF Dirlookup(d, n) # 0 THEN [ok |-> FALSE, d |-> d, bm |-> bm]
        ELSE Entered(Writei(d, bm, slot - 1, 1, 1), d, slot, <<n, i>>)
Isdirempty(d) == \A s \in 3 .. d.size : d.ents[s][2] = 0

-----------------------------------------------------------------------------
\* The table of in-memory inodes.

\* Mutant: an entry is recycled without a look for the inode in the table.
IgetRecycles(t, i) == [t EXCEPT ![i].ref = 1, ![i].valid = FALSE]

\* The inode is in the table, or gets the first entry that no one refers to; an
\* iget that finds none panics, and leaves a table with more than NINODE.
Iget(t, i) ==
    [t EXCEPT ![i] = [@ EXCEPT !.ref = @ + 1,
                               !.valid = (t[i].ref > 0 /\ @)]]
Panicked == Cardinality({i \in Inum : itab[i].ref > 0}) > NINODE

Idup(t, i) == [t EXCEPT ![i].ref = @ + 1]
CanLock(i) == itab[i].lock = None
\* Locked by q, or read under the lock and left unlocked (q = None).
Ilock(t, i, q) == [t EXCEPT ![i] = [@ EXCEPT !.lock = q, !.valid = TRUE]]
Iunlock(t, i) == [t EXCEPT ![i].lock = None]

\* A changed inode goes back to the disk.
Iupdate(i, d) == dinode' = [dinode EXCEPT ![i] = d]

\* The first free inode of the disk, 0 if there is none.
Ialloc == LET free == {i \in Inum : dinode[i].type = "FREE"}
          IN  IF free = {} THEN 0 ELSE Min(free)

-----------------------------------------------------------------------------
\* The image: root and the files given to mkfs, one block each.

NoFile == [ref |-> 0, ip |-> 0, off |-> 0, writable |-> FALSE]
Idle == [pc |-> "idle", call |-> [op |-> "none"], at |-> 0, path |-> <<>>,
         ip |-> 0, dp |-> 0, puts |-> <<>>, then |-> "idle"]
NoInode == [ref |-> 0, valid |-> FALSE, lock |-> None]

\* mkfs appends ".", ".." and the names of the files to the root, and rounds
\* its size up to whole blocks; each file gets the next inode and a block.
NFiles == Cardinality(Files)
RootSize == ((NFiles + 2) \div DPB + 1) * DPB
RootBlocks == RootSize \div DPB
RootEntries(name) ==
    [s \in 1 .. RootSize |-> IF s = 1 THEN <<".", ROOTINO>>
                             ELSE IF s = 2 THEN <<"..", ROOTINO>>
                             ELSE IF s <= NFiles + 2 THEN <<name[s - 2], s - 1>>
                             ELSE NoEntry]
\* An inode with one link and the n blocks after the first b.
MkfsInode(type, b, n) ==
    [Blank(type) EXCEPT !.nlink = 1, !.size = n, !.addrs = [k \in 1 .. n |-> b + k]]
MkfsBitmap == 1 .. (RootBlocks + NFiles)
Mkfs ==
    /\ \E name \in Bijection(1 .. NFiles, Files) :
         dinode = [i \in Inum |->
             IF i = ROOTINO
             THEN [MkfsInode("DIR", 0, RootBlocks) EXCEPT !.size = RootSize,
                                                          !.ents = RootEntries(name)]
             ELSE IF i <= NFiles + 1 THEN MkfsInode("FILE", RootBlocks + i - 2, 1)
             ELSE Blank("FREE")]
    /\ bitmap = MkfsBitmap

\* Memory at boot: nothing but the first process, q, in the root directory.
AtBoot(q) ==
    [itab |-> [i \in Inum |-> [NoInode EXCEPT !.ref = IF i = ROOTINO THEN 1 ELSE 0]],
     file |-> [f \in FileId |-> NoFile],
     ofile |-> [p \in Proc |-> [fd \in Fd |-> 0]],
     cwd |-> [p \in Proc |-> IF p = q THEN ROOTINO ELSE 0],
     th |-> [p \in Proc |-> Idle]]

Init ==
    /\ Mkfs
    /\ \E q \in Proc : /\ itab = AtBoot(q).itab /\ file = AtBoot(q).file
                       /\ ofile = AtBoot(q).ofile /\ cwd = AtBoot(q).cwd
                       /\ th = AtBoot(q).th
    /\ boot = 1 /\ calls = 0

-----------------------------------------------------------------------------
\* Steps of a call. Process p goes on with the fields of r changed.
Become(p, r) == th' = [th EXCEPT ![p] = r @@ @]
At(p, pc) == boot = 0 /\ cwd[p] # 0 /\ th[p].pc = pc /\ ~Panicked

\* p puts the inodes of s, one after the other, and goes on at pc then; at
\* "idle" the transaction ends and the call returns.
Putting(p, s, then, r) ==
    Become(p, [pc |-> "put", puts |-> s, then |-> then] @@ r)

\* The second walk of a link, its old inode found; the calls that look for the
\* directory of the path; where a walk goes on when it has found something and
\* when it has not.
SecondWalk(p) == th[p].call.op = "link" /\ th[p].ip # 0
Creates(c) == c.op \in {"mkdir", "mknod"} \/ (c.op = "open" /\ "O_CREATE" \in c.mode)
WantsParent(p) == Creates(th[p].call) \/ th[p].call.op = "unlink" \/ SecondWalk(p)
Found(p) ==
    IF SecondWalk(p) THEN "dirlink"
    ELSE IF Creates(th[p].call) THEN "create" ELSE th[p].call.op
NotFound(p) == IF SecondWalk(p) THEN "linkbad" ELSE "idle"

\* The table after p has put the head of its list: the inode it unlocks and
\* puts next is unlocked.
AfterPut(p, t) ==
    LET rest == Tail(th[p].puts)
    IN  IF rest # <<>> /\ t[Head(rest)].lock = p THEN Iunlock(t, Head(rest)) ELSE t
PutDone(p) ==
    LET rest == Tail(th[p].puts)
    IN  IF rest # <<>> THEN Become(p, [pc |-> "put", puts |-> rest])
        ELSE IF th[p].then = "idle" THEN th' = [th EXCEPT ![p] = Idle]
        ELSE Become(p, [pc |-> th[p].then, puts |-> <<>>, then |-> "idle"])

\* Mutant: other references are not looked at.
IsLastByLinks(i) == itab[i].valid /\ dinode[i].nlink = 0
IsLast(i) == itab[i].ref = 1 /\ itab[i].valid /\ dinode[i].nlink = 0

\* iput of a reference that is not the last of an unlinked inode.
IputRef(p) ==
    /\ At(p, "put")
    /\ LET i == Head(th[p].puts)
       IN  /\ ~IsLast(i)
           /\ itab' = AfterPut(p, [itab EXCEPT ![i].ref = @ - 1])
    /\ PutDone(p)
    /\ UNCHANGED <<disk, procs, boot, calls>>

\* iput of the last one: the content goes first, ...
IputLast(p) ==
    /\ At(p, "put")
    /\ LET i == Head(th[p].puts)
       IN  /\ IsLast(i)
           /\ bitmap' = Bfree(bitmap, Owned(dinode[i]))
           /\ Iupdate(i, Itrunc(dinode[i]))
           /\ itab' = [itab EXCEPT ![i].valid = FALSE]
    /\ Become(p, [pc |-> "drop"])
    /\ UNCHANGED <<procs, boot, calls>>

\* ... then the entry of the inode table, ...
IputDrop(p) ==
    /\ At(p, "drop")
    /\ itab' = [itab EXCEPT ![Head(th[p].puts)].ref = @ - 1]
    /\ Become(p, [pc |-> "ifree"])
    /\ UNCHANGED <<disk, procs, boot, calls>>

\* ... and the inode on the disk last.
Ifree(p) ==
    /\ At(p, "ifree")
    /\ dinode' = [dinode EXCEPT ![Head(th[p].puts)].type = "FREE"]
    /\ itab' = AfterPut(p, itab)
    /\ PutDone(p)
    /\ UNCHANGED <<bitmap, procs, boot, calls>>

-----------------------------------------------------------------------------
\* Path names.

\* One round of namex at a locked inode finds no directory, a removed one, or
\* no entry, ...
NamexFail(p) ==
    /\ At(p, "namex") /\ CanLock(th[p].at)
    /\ LET d == dinode[th[p].at]
       IN  \/ d.type # "DIR" \/ d.nlink = 0
           \/ /\ ~(WantsParent(p) /\ Len(th[p].path) = 1)
              /\ Dirlookup(d, Head(th[p].path)) = 0
    /\ itab' = Ilock(itab, th[p].at, None)
    /\ Putting(p, <<th[p].at>>, NotFound(p), [at |-> 0, path |-> <<>>])
    /\ UNCHANGED <<disk, procs, boot, calls>>

\* ... stops one level early, ...
NamexParent(p) ==
    /\ At(p, "namex") /\ CanLock(th[p].at)
    /\ WantsParent(p) /\ Len(th[p].path) = 1
    /\ dinode[th[p].at].type = "DIR" /\ dinode[th[p].at].nlink # 0
    /\ itab' = Ilock(itab, th[p].at, None)
    /\ Become(p, [pc |-> Found(p), dp |-> th[p].at, at |-> 0])
    /\ UNCHANGED <<disk, procs, boot, calls>>

\* ... or goes down one level.
NamexNext(p) ==
    /\ At(p, "namex") /\ CanLock(th[p].at)
    /\ ~(WantsParent(p) /\ Len(th[p].path) = 1)
    /\ LET d == dinode[th[p].at]
           next == Dirlookup(d, Head(th[p].path))
           rest == Tail(th[p].path)
       IN  /\ d.type = "DIR" /\ d.nlink # 0 /\ next # 0
           /\ itab' = Iget(Ilock(itab, th[p].at, None), next)
           /\ IF rest = <<>>
              THEN Putting(p, <<th[p].at>>, Found(p), [ip |-> next, at |-> 0, path |-> rest])
              ELSE Putting(p, <<th[p].at>>, "namex", [at |-> next, path |-> rest])
    /\ UNCHANGED <<disk, procs, boot, calls>>

\* A walk starts at the root or at the current directory, in table t; "/" alone
\* is found at once, at pc k, and has no parent. The fields r change as well.
Walk(p, t, path, parent, k, bad, r) ==
    LET abs == Head(path) = "/"
        start == IF abs THEN ROOTINO ELSE cwd[p]
        rest == IF abs THEN Tail(path) ELSE path
    IN  /\ itab' = Iget(t, start)
        /\ IF rest # <<>> THEN Become(p, [pc |-> "namex", at |-> start, path |-> rest] @@ r)
           ELSE IF parent THEN Putting(p, <<start>>, bad, r)
           ELSE Become(p, [pc |-> k, ip |-> start] @@ r)

\* sys_open, sys_mkdir, sys_mknod, sys_unlink, sys_link and sys_chdir begin.
Call(p) ==
    /\ At(p, "idle") /\ calls < MaxCalls
    /\ \E c \in Calls : Walk(p, itab, c.path, Creates(c) \/ c.op = "unlink",
                             c.op, "idle", [call |-> c])
    /\ calls' = calls + 1
    /\ UNCHANGED <<disk, procs, boot>>

-----------------------------------------------------------------------------
\* create, under the lock of the directory.

\* The directory was removed, is full of subdirectories, or no inode is free.
CreateRefused(p) ==
    LET d == dinode[th[p].dp]
    IN  /\ At(p, "create") /\ CanLock(th[p].dp)
        /\ \/ d.nlink = 0
           \/ th[p].call.op = "mkdir" /\ d.nlink >= NLINK_MAX
           \/ Dirlookup(d, Head(th[p].path)) = 0 /\ Ialloc = 0
        /\ itab' = Ilock(itab, th[p].dp, None)
        /\ Putting(p, <<th[p].dp>>, "idle", [dp |-> 0])
        /\ UNCHANGED <<disk, procs, boot, calls>>

\* The name exists: its inode is locked once the directory has been put.
CreateExists(p) ==
    LET d == dinode[th[p].dp]
        i == Dirlookup(d, Head(th[p].path))
    IN  /\ At(p, "create") /\ CanLock(th[p].dp)
        /\ d.nlink # 0 /\ ~(th[p].call.op = "mkdir" /\ d.nlink >= NLINK_MAX) /\ i # 0
        /\ itab' = Iget(Ilock(itab, th[p].dp, None), i)
        /\ Putting(p, <<th[p].dp>>, "exists", [ip |-> i, dp |-> 0])
        /\ UNCHANGED <<disk, procs, boot, calls>>

\* A new inode, allocated on the disk while the directory stays locked.
CreateAlloc(p) ==
    LET d == dinode[th[p].dp]
        type == CASE th[p].call.op = "mkdir" -> "DIR"
                  [] th[p].call.op = "mknod" -> "DEVICE"
                  [] OTHER -> "FILE"
    IN  /\ At(p, "create") /\ CanLock(th[p].dp)
        /\ d.nlink # 0 /\ ~(th[p].call.op = "mkdir" /\ d.nlink >= NLINK_MAX)
        /\ Dirlookup(d, Head(th[p].path)) = 0 /\ Ialloc # 0
        /\ Iupdate(Ialloc, Blank(type))
        /\ itab' = Iget(Ilock(itab, th[p].dp, p), Ialloc)
        /\ Become(p, [pc |-> "created", ip |-> Ialloc])
        /\ UNCHANGED <<bitmap, procs, boot, calls>>

\* The new inode gets its device number and its link, a directory its "." and
\* "..".
Major(c) == IF c.op = "mknod" THEN c.major ELSE 0
DotDot(dot, dp) == IF dot.ok THEN Dirlink(dot.d, dot.bm, "..", dp) ELSE dot
NewInode(i, dp, c) ==
    LET new == [dinode[i] EXCEPT !.major = Major(c), !.nlink = 1]
    IN  IF new.type # "DIR" THEN [ok |-> TRUE, d |-> new, bm |-> bitmap]
        ELSE DotDot(Dirlink(new, bitmap, ".", i), dp)

\* Then the name is entered in the locked directory. Without the blocks for it
\* the inode is put with no link, and the directory after it.
CreateEnter(p, new, up) ==
    LET i == th[p].ip
        dp == th[p].dp
        more == IF new.d.type = "DIR" THEN 1 ELSE 0
    IN  /\ bitmap' = up.bm
        /\ IF up.ok
           THEN /\ dinode' = [dinode EXCEPT ![i] = new.d, ![dp] = up.d, ![dp].nlink = @ + more]
                /\ itab' = Iunlock(Ilock(itab, i, p), dp)
                /\ IF th[p].call.op = "open"
                   THEN Putting(p, <<dp>>, "opened", [dp |-> 0])
                   ELSE Putting(p, <<dp, i>>, "idle", [ip |-> 0, dp |-> 0])
           ELSE /\ dinode' = [dinode EXCEPT ![i] = new.d, ![i].nlink = 0, ![dp] = up.d]
                /\ itab' = Ilock(itab, i, None)
                /\ Putting(p, <<i, dp>>, "idle", [ip |-> 0, dp |-> 0])
CreateNew(p, new) ==
    LET d == dinode[th[p].dp]
    IN  CreateEnter(p, new, IF new.ok THEN Dirlink(d, new.bm, Head(th[p].path), th[p].ip)
                            ELSE [ok |-> FALSE, d |-> d, bm |-> new.bm])
CreateLink(p) ==
    /\ At(p, "created") /\ CanLock(th[p].ip)
    /\ CreateNew(p, NewInode(th[p].ip, th[p].dp, th[p].call))
    /\ UNCHANGED <<procs, boot, calls>>

-----------------------------------------------------------------------------
\* sys_open with the inode locked: a descriptor and a file for it, or neither,
\* which is what a device without a driver gets.

\* The first free file and the first free descriptor, 0 if there is none.
Filealloc == LET free == {f \in FileId : file[f].ref = 0}
             IN  IF free = {} THEN 0 ELSE Min(free)
Fdalloc(p) == LET free == {fd \in Fd : ofile[p][fd] = 0}
              IN  IF free = {} THEN 0 ELSE Min(free)

Opening(p) ==
    LET i == th[p].ip
        d == dinode[i]
        f == Filealloc
        fd == Fdalloc(p)
        nodev == d.type = "DEVICE" /\ d.major \notin 0 .. NDEV - 1
        trunc == "O_TRUNC" \in th[p].call.mode /\ d.type = "FILE"
    IN  /\ itab' = Ilock(itab, i, None)
        /\ IF nodev \/ f = 0 \/ fd = 0
           THEN /\ Putting(p, <<i>>, "idle", [ip |-> 0])
                /\ UNCHANGED <<disk, procs>>
           ELSE /\ file' = [file EXCEPT ![f] =
                              [ref |-> 1, ip |-> i, off |-> 0,
                               writable |-> "O_RDWR" \in th[p].call.mode]]
                /\ ofile' = [ofile EXCEPT ![p][fd] = f]
                /\ bitmap' = IF trunc THEN Bfree(bitmap, Owned(d)) ELSE bitmap
                /\ Iupdate(i, IF trunc THEN Itrunc(d) ELSE d)
                /\ th' = [th EXCEPT ![p] = Idle]
                /\ UNCHANGED cwd

\* p locks its inode only to find that it cannot use it.
LockAndPut(p, then) ==
    /\ itab' = Ilock(itab, th[p].ip, None)
    /\ Putting(p, <<th[p].ip>>, then, [ip |-> 0])
    /\ UNCHANGED <<disk, procs>>

\* The inode was just made, ...
OpenNew(p) == At(p, "opened") /\ Opening(p) /\ UNCHANGED <<boot, calls>>

\* ... existed where the call would have made it, ...
OpenExists(p) ==
    /\ At(p, "exists") /\ CanLock(th[p].ip)
    /\ IF th[p].call.op = "open" /\ dinode[th[p].ip].type \in {"FILE", "DEVICE"}
       THEN Opening(p)
       ELSE LockAndPut(p, "idle")
    /\ UNCHANGED <<boot, calls>>

\* ... or was found; a directory is only opened for reading.
Open(p) ==
    /\ At(p, "open") /\ CanLock(th[p].ip)
    /\ IF dinode[th[p].ip].type = "DIR" /\ th[p].call.mode # {}
       THEN LockAndPut(p, "idle")
       ELSE Opening(p)
    /\ UNCHANGED <<boot, calls>>

-----------------------------------------------------------------------------
\* sys_unlink: no entry to remove, ...
UnlinkRefused(p) ==
    /\ At(p, "unlink") /\ CanLock(th[p].dp)
    /\ \/ Head(th[p].path) \in {".", ".."}
       \/ Dirlookup(dinode[th[p].dp], Head(th[p].path)) = 0
    /\ itab' = Ilock(itab, th[p].dp, None)
    /\ Putting(p, <<th[p].dp>>, "idle", [dp |-> 0])
    /\ UNCHANGED <<disk, procs, boot, calls>>

\* Mutant: the directory is unlocked before the inode is locked.
UnlinkFoundUnlocks(p) ==
    LET i == Dirlookup(dinode[th[p].dp], Head(th[p].path))
    IN  /\ At(p, "unlink") /\ CanLock(th[p].dp)
        /\ Head(th[p].path) \notin {".", ".."} /\ i # 0
        /\ itab' = Iget(Ilock(itab, th[p].dp, None), i)
        /\ Become(p, [pc |-> "unlink entry", ip |-> i])
        /\ UNCHANGED <<disk, procs, boot, calls>>

\* ... or one, whose inode is locked while the directory stays locked;
UnlinkFound(p) ==
    LET i == Dirlookup(dinode[th[p].dp], Head(th[p].path))
    IN  /\ At(p, "unlink") /\ CanLock(th[p].dp)
        /\ Head(th[p].path) \notin {".", ".."} /\ i # 0
        /\ itab' = Iget(Ilock(itab, th[p].dp, p), i)
        /\ Become(p, [pc |-> "unlink entry", ip |-> i])
        /\ UNCHANGED <<disk, procs, boot, calls>>

\* a directory with entries stays, another inode loses its entry, and the
\* directory, unlocked, is put before the link count goes down.
UnlinkEntry(p) ==
    LET i == th[p].ip
        dp == th[p].dp
        isDir == dinode[i].type = "DIR"
        slot == Min(SlotOf(dinode[dp], Head(th[p].path)))
    IN  /\ At(p, "unlink entry") /\ CanLock(i)
        /\ IF isDir /\ ~Isdirempty(dinode[i])
           THEN /\ itab' = Ilock(itab, i, None)
                /\ Putting(p, <<i, dp>>, "idle", [ip |-> 0, dp |-> 0])
                /\ UNCHANGED dinode
           ELSE /\ itab' = Iunlock(Ilock(itab, i, p), dp)
                /\ Iupdate(dp, [dinode[dp] EXCEPT !.ents[slot] = NoEntry,
                                                  !.nlink = IF isDir THEN @ - 1 ELSE @])
                /\ Putting(p, <<dp>>, "unlinked", [dp |-> 0])
        /\ UNCHANGED <<bitmap, procs, boot, calls>>

Unlinked(p) ==
    /\ At(p, "unlinked")
    /\ Iupdate(th[p].ip, [dinode[th[p].ip] EXCEPT !.nlink = @ - 1])
    /\ itab' = Iunlock(itab, th[p].ip)
    /\ Putting(p, <<th[p].ip>>, "idle", [ip |-> 0])
    /\ UNCHANGED <<bitmap, procs, boot, calls>>

-----------------------------------------------------------------------------
\* Mutant: link counts have no maximum.
LinkUnbounded(p) ==
    LET i == th[p].ip
    IN  /\ At(p, "link") /\ CanLock(i)
        /\ IF dinode[i].type = "DIR"
           THEN LockAndPut(p, "idle")
           ELSE /\ Iupdate(i, [dinode[i] EXCEPT !.nlink = @ + 1])
                /\ Walk(p, Ilock(itab, i, None), th[p].call.new, TRUE, "", "linkbad", <<>>)
                /\ UNCHANGED <<bitmap, procs>>
        /\ UNCHANGED <<boot, calls>>

\* sys_link: the count goes up before the new name is looked up, ...
Link(p) ==
    LET i == th[p].ip
    IN  /\ At(p, "link") /\ CanLock(i)
        /\ IF dinode[i].type = "DIR" \/ dinode[i].nlink >= NLINK_MAX
           THEN LockAndPut(p, "idle")
           ELSE /\ Iupdate(i, [dinode[i] EXCEPT !.nlink = @ + 1])
                /\ Walk(p, Ilock(itab, i, None), th[p].call.new, TRUE, "", "linkbad", <<>>)
                /\ UNCHANGED <<bitmap, procs>>
        /\ UNCHANGED <<boot, calls>>

\* Mutant: the directory may have been removed.
LinkInto(d, w) == w

\* ... entered in its directory if that is still there and has no such name
\* and room for it, ...
LinkIf(d, w) == IF d.nlink = 0 THEN [ok |-> FALSE, d |-> d, bm |-> bitmap] ELSE w
LinkDone(p, w) ==
    /\ Iupdate(th[p].dp, w.d) /\ bitmap' = w.bm
    /\ IF w.ok
       THEN Putting(p, <<th[p].dp, th[p].ip>>, "idle", [ip |-> 0, dp |-> 0])
       ELSE Putting(p, <<th[p].dp>>, "linkbad", [dp |-> 0])
LinkEntry(p) ==
    LET d == dinode[th[p].dp]
    IN  /\ At(p, "dirlink") /\ CanLock(th[p].dp)
        /\ itab' = Ilock(itab, th[p].dp, None)
        /\ LinkDone(p, LinkIf(d, Dirlink(d, bitmap, Head(th[p].path), th[p].ip)))
        /\ UNCHANGED <<procs, boot, calls>>

\* Mutant: the count stays up.
LinkBadForgets(p) ==
    /\ At(p, "linkbad") /\ CanLock(th[p].ip)
    /\ itab' = Ilock(itab, th[p].ip, None)
    /\ Putting(p, <<th[p].ip>>, "idle", [ip |-> 0])
    /\ UNCHANGED <<disk, procs, boot, calls>>

\* ... and goes down again otherwise.
LinkBad(p) ==
    /\ At(p, "linkbad") /\ CanLock(th[p].ip)
    /\ Iupdate(th[p].ip, [dinode[th[p].ip] EXCEPT !.nlink = @ - 1])
    /\ itab' = Ilock(itab, th[p].ip, None)
    /\ Putting(p, <<th[p].ip>>, "idle", [ip |-> 0])
    /\ UNCHANGED <<bitmap, procs, boot, calls>>

\* sys_chdir; only p looks at its cwd, so the assignment after the iput of the
\* old directory is made here.
Chdir(p) ==
    /\ At(p, "chdir") /\ CanLock(th[p].ip)
    /\ IF dinode[th[p].ip].type # "DIR"
       THEN LockAndPut(p, "idle")
       ELSE /\ itab' = Ilock(itab, th[p].ip, None)
            /\ Putting(p, <<cwd[p]>>, "idle", [ip |-> 0])
            /\ cwd' = [cwd EXCEPT ![p] = th[p].ip]
            /\ UNCHANGED <<disk, file, ofile>>
    /\ UNCHANGED <<boot, calls>>

-----------------------------------------------------------------------------
\* Descriptors.

\* fileclose of descriptor fd, then on at pc then.
Fileclose(p, fd, then) ==
    LET f == ofile[p][fd]
    IN  /\ ofile' = [ofile EXCEPT ![p][fd] = 0]
        /\ IF file[f].ref > 1
           THEN /\ file' = [file EXCEPT ![f].ref = @ - 1]
                /\ UNCHANGED th
           ELSE /\ file' = [file EXCEPT ![f] = NoFile]
                /\ Putting(p, <<file[f].ip>>, then, <<>>)
        /\ UNCHANGED <<disk, itab, cwd>>

Close(p) ==
    /\ At(p, "idle") /\ calls < MaxCalls
    /\ \E fd \in Fd : ofile[p][fd] # 0 /\ Fileclose(p, fd, "idle")
    /\ calls' = calls + 1 /\ UNCHANGED boot

\* sys_dup: a second descriptor for the same file.
Dup(p) ==
    /\ At(p, "idle") /\ calls < MaxCalls
    /\ \E fd \in Fd :
        /\ ofile[p][fd] # 0 /\ Fdalloc(p) # 0
        /\ ofile' = [ofile EXCEPT ![p][Fdalloc(p)] = ofile[p][fd]]
        /\ file' = [file EXCEPT ![ofile[p][fd]].ref = @ + 1]
    /\ calls' = calls + 1
    /\ UNCHANGED <<disk, itab, cwd, th, boot>>

\* The offset moves by what was written.
Written(f, w) ==
    /\ itab' = Ilock(itab, file[f].ip, None)
    /\ Iupdate(file[f].ip, w.d) /\ bitmap' = w.bm
    /\ file' = [file EXCEPT ![f].off = IF w.n > 0 THEN @ + w.n ELSE @]

\* One chunk of a filewrite to an inode: a transaction of its own.
Filewrite(p) ==
    /\ At(p, "idle") /\ calls < MaxCalls
    /\ \E fd \in Fd, n \in 1 .. MaxIO : \E good \in 0 .. n :
        LET f == ofile[p][fd]
        IN  /\ f # 0 /\ file[f].writable /\ dinode[file[f].ip].type = "FILE"
            /\ CanLock(file[f].ip)
            /\ Written(f, Writei(dinode[file[f].ip], bitmap, file[f].off, n, good))
    /\ calls' = calls + 1
    /\ UNCHANGED <<ofile, cwd, th, boot>>

Fileread(p) ==
    /\ At(p, "idle") /\ calls < MaxCalls
    /\ \E fd \in Fd, n \in 1 .. MaxIO :
        LET f == ofile[p][fd]
            i == file[f].ip
        IN  /\ f # 0 /\ dinode[i].type # "DEVICE" /\ CanLock(i)
            /\ itab' = Ilock(itab, i, None)
            /\ file' = [file EXCEPT ![f].off = @ + Readi(dinode[i], @, n)]
    /\ calls' = calls + 1
    /\ UNCHANGED <<disk, ofile, cwd, th, boot>>

\* Mutant: descriptors are copied without a filedup.
KforkUncounted(p) ==
    /\ At(p, "idle")
    /\ \E q \in Proc :
        /\ cwd[q] = 0
        /\ cwd' = [cwd EXCEPT ![q] = cwd[p]]
        /\ ofile' = [ofile EXCEPT ![q] = ofile[p]]
    /\ itab' = Idup(itab, cwd[p])
    /\ UNCHANGED <<disk, file, th, boot, calls>>

\* kfork shares the files and the directory of p with a new process.
Kfork(p) ==
    /\ At(p, "idle")
    /\ \E q \in Proc :
        /\ cwd[q] = 0
        /\ cwd' = [cwd EXCEPT ![q] = cwd[p]]
        /\ ofile' = [ofile EXCEPT ![q] = ofile[p]]
    /\ itab' = Idup(itab, cwd[p])
    /\ file' = [f \in FileId |->
         [file[f] EXCEPT !.ref = @ + Cardinality({fd \in Fd : ofile[p][fd] = f})]]
    /\ UNCHANGED <<disk, th, boot, calls>>

\* kexit closes the files one by one, then puts the directory.
KexitBegin(p) ==
    /\ At(p, "idle") /\ calls < MaxCalls
    /\ \E q \in Proc \ {p} : cwd[q] # 0
    /\ Become(p, [pc |-> "exit"])
    /\ calls' = calls + 1
    /\ UNCHANGED <<disk, itab, procs, boot>>

KexitClose(p) ==
    /\ At(p, "exit")
    /\ \E fd \in Fd :
        /\ ofile[p][fd] # 0 /\ \A e \in 1 .. (fd - 1) : ofile[p][e] = 0
        /\ Fileclose(p, fd, "exit")
    /\ UNCHANGED <<boot, calls>>

KexitCwd(p) ==
    /\ At(p, "exit") /\ \A fd \in Fd : ofile[p][fd] = 0
    /\ Putting(p, <<cwd[p]>>, "exited", <<>>)
    /\ UNCHANGED <<disk, itab, procs, boot, calls>>

KexitEnd(p) ==
    /\ At(p, "exited")
    /\ cwd' = [cwd EXCEPT ![p] = 0]
    /\ th' = [th EXCEPT ![p] = Idle]
    /\ UNCHANGED <<disk, itab, file, ofile, boot, calls>>

-----------------------------------------------------------------------------
\* Crashes, and the boot that follows.

InTransaction(p) == th[p].pc \notin {"idle", "exit"}

\* What is on the disk when no transaction is open is what a crash leaves.
Crash ==
    /\ \A p \in Proc : ~InTransaction(p)
    /\ calls > 0
    /\ \E q \in Proc : /\ itab' = AtBoot(q).itab /\ file' = AtBoot(q).file
                       /\ ofile' = AtBoot(q).ofile /\ cwd' = AtBoot(q).cwd
                       /\ th' = AtBoot(q).th
    /\ boot' = 1
    /\ UNCHANGED <<disk, calls>>

\* Mutant: the inode is put without having been read.
IreclaimUnread ==
    /\ boot # 0
    /\ LET t == Iget(itab, boot)[boot]
           orphan == dinode[boot].type # "FREE" /\ dinode[boot].nlink = 0
       IN  /\ boot' = IF boot = NINODES THEN 0 ELSE boot + 1
           /\ IF orphan /\ t.ref = 1 /\ t.valid
              THEN /\ dinode' = [dinode EXCEPT ![boot] = [Itrunc(@) EXCEPT !.type = "FREE"]]
                   /\ bitmap' = Bfree(bitmap, Owned(dinode[boot]))
              ELSE UNCHANGED disk
    /\ UNCHANGED <<itab, procs, th, calls>>

\* ireclaim of one inode, a transaction of its own: iget, ilock, iunlock and
\* iput free an inode that has a type and no links.
Ireclaim ==
    /\ boot # 0
    /\ LET t == Ilock(Iget(itab, boot), boot, None)[boot]
           orphan == dinode[boot].type # "FREE" /\ dinode[boot].nlink = 0
       IN  /\ boot' = IF boot = NINODES THEN 0 ELSE boot + 1
           /\ IF orphan /\ t.ref = 1 /\ t.valid
              THEN /\ dinode' = [dinode EXCEPT ![boot] = [Itrunc(@) EXCEPT !.type = "FREE"]]
                   /\ bitmap' = Bfree(bitmap, Owned(dinode[boot]))
              ELSE UNCHANGED disk
    /\ UNCHANGED <<itab, procs, th, calls>>

\* panic() never returns. (What a reboot then finds on the disk is what a crash
\* of the last state without a transaction leaves.)
Panic == Panicked /\ UNCHANGED vars

\* Every call has returned and no more are made.
Finished ==
    /\ boot = 0 /\ calls = MaxCalls /\ \A p \in Proc : th[p].pc = "idle"
    /\ UNCHANGED vars

Next ==
    \/ \E p \in Proc :
        \/ Call(p) \/ NamexFail(p) \/ NamexParent(p) \/ NamexNext(p)
        \/ IputRef(p) \/ IputLast(p) \/ IputDrop(p) \/ Ifree(p)
        \/ CreateRefused(p) \/ CreateExists(p) \/ CreateAlloc(p) \/ CreateLink(p)
        \/ OpenNew(p) \/ OpenExists(p) \/ Open(p)
        \/ UnlinkRefused(p) \/ UnlinkFound(p) \/ UnlinkEntry(p) \/ Unlinked(p)
        \/ Link(p) \/ LinkEntry(p) \/ LinkBad(p) \/ Chdir(p)
        \/ Close(p) \/ Dup(p) \/ Filewrite(p) \/ Fileread(p)
        \/ Kfork(p) \/ KexitBegin(p) \/ KexitClose(p) \/ KexitCwd(p) \/ KexitEnd(p)
    \/ Crash \/ Ireclaim \/ Panic \/ Finished

Spec == Init /\ [][Next]_vars

-----------------------------------------------------------------------------
\* Properties.

Types == {"FREE", "DIR", "FILE", "DEVICE"}

\* Every variable has its type, and no count leaves its range.
TypeOK ==
    /\ \A i \in Inum :
        /\ dinode[i].type \in Types /\ dinode[i].nlink \in 0 .. NLINK_MAX
        /\ dinode[i].size \in Nat /\ Range(dinode[i].addrs) \subseteq Block
        /\ dinode[i].ind \in 0 .. NBLOCKS
        /\ itab[i].ref \in Nat /\ itab[i].valid \in BOOLEAN
        /\ itab[i].lock \in Proc \cup {None}
    /\ bitmap \subseteq Block
    /\ \A f \in FileId : file[f].ref \in Nat /\ file[f].ip \in 0 .. NINODES
    /\ ofile \in [Proc -> [Fd -> 0 .. NFILE]]
    /\ cwd \in [Proc -> 0 .. NINODES]
    /\ boot \in 0 .. NINODES /\ calls \in 0 .. MaxCalls

\* p is in kexit and has handed its current directory to iput.
Leaving(p) == "exited" \in {th[p].pc, th[p].then}

\* The inodes p has still to put; at "ifree" it holds the first no more.
ToPut(p) == IF th[p].pc = "ifree" THEN Tail(th[p].puts) ELSE th[p].puts
Pointers(p, i) ==
    Quantify(DOMAIN ToPut(p), LAMBDA s : ToPut(p)[s] = i)
    + Quantify({"at", "ip", "dp"}, LAMBDA r : th[p][r] = i)

\* ip->ref is the number of pointers to the inode: current directories, open
\* files and what calls in progress hold. One too many leaks the inode, one too
\* few lets iput recycle it under its user.
RefCounts ==
    \A i \in Inum :
        itab[i].ref = Quantify(Proc, LAMBDA p : cwd[p] = i /\ ~Leaving(p))
                      + Quantify(FileId, LAMBDA f : file[f].ref > 0 /\ file[f].ip = i)
                      + MapThenSumSet(LAMBDA p : Pointers(p, i), Proc)

\* f->ref is the number of descriptors that stand for the file.
FileRefs ==
    \A f \in FileId :
        file[f].ref = Quantify(Proc \X Fd, LAMBDA x : ofile[x[1]][x[2]] = f)

Entries(d) == {s \in DOMAIN d.ents : s > 2 /\ d.ents[s][2] # 0}
Naming(i) ==
    MapThenSumSet(LAMBDA j : Quantify(Entries(dinode[j]),
                                      LAMBDA s : dinode[j].ents[s][2] = i), Inum)
Subdirs(d) == Quantify(Entries(d), LAMBDA s : dinode[d.ents[s][2]].type = "DIR")
\* Calls that have counted a link to i they have not entered yet, or have removed
\* an entry they have not counted yet.
InBetween(p, i) ==
    /\ th[p].ip = i
    /\ \/ SecondWalk(p) /\ "link" \notin {th[p].pc, th[p].then}
       \/ "unlinked" \in {th[p].pc, th[p].then}

\* The link count of an inode is the number of entries that name it, plus one
\* for each subdirectory's ".." and one for the root itself, but for the calls
\* that are between the two.
LinkCounts ==
    \A i \in Inum :
        dinode[i].type # "FREE" =>
            dinode[i].nlink = (IF i = ROOTINO THEN 1 ELSE 0) + Naming(i) + Subdirs(dinode[i])
                              + Quantify(Proc, LAMBDA p : InBetween(p, i))

\* The directories form a tree: each but the root is named by exactly one entry,
\* in the directory its ".." names, and an entry never names a free inode. So
\* nothing is created in a removed directory, where no path leads.
Tree ==
    \A i \in Inum :
        /\ \A s \in Entries(dinode[i]) :
            LET j == dinode[i].ents[s][2]
            IN  /\ dinode[i].nlink > 0
                /\ dinode[j].type # "FREE" /\ dinode[j].nlink > 0
                /\ dinode[j].type = "DIR" => dinode[j].ents[2] = <<"..", i>>
        /\ dinode[i].type = "DIR" => Naming(i) <= 1

\* An inode without links is on the disk only while it is in use, on its way to
\* ifree, or before the boot after a crash has come to it: nothing leaks.
NoOrphans ==
    \A i \in Inum :
        dinode[i].type # "FREE" /\ dinode[i].nlink = 0 =>
            \/ itab[i].ref > 0
            \/ \E p \in Proc : th[p].pc = "ifree" /\ Head(th[p].puts) = i
            \/ boot \in 1 .. i

\* The bitmap marks exactly the blocks of the inodes, each of which belongs to
\* one inode, once; a free inode has none. (bfree would panic on a free block.)
BlocksOwned ==
    /\ bitmap = UNION {Owned(dinode[i]) : i \in Inum}
    /\ Cardinality(bitmap) =
         MapThenSumSet(LAMBDA i : Len(dinode[i].addrs)
                                  + (IF dinode[i].ind = 0 THEN 0 ELSE 1), Inum)

\* Every block below the size of an inode has an address: readi, which may run
\* outside a transaction, never makes bmap allocate one.
NoHoles ==
    \A i \in Inum : dinode[i].size <= Len(dinode[i].addrs) * Unit(dinode[i])

\* The panics on the way, but for the full table of iget, which NINODE inodes in
\* use do reach: ilock of an inode without a type or references, a
\* parent that is no directory, an entry whose inode has no link, and the last
\* iput of an inode that someone has locked, which would sleep with itable.lock.
NoPanic ==
    \A p \in Proc :
        /\ th[p].pc # "put" =>
            \A i \in {th[p].at, th[p].ip, th[p].dp} \ {0} :
                itab[i].ref > 0 /\ dinode[i].type # "FREE"
        /\ th[p].dp # 0 => dinode[th[p].dp].type = "DIR"
        /\ th[p].pc = "unlink entry" => dinode[th[p].ip].nlink > 0
        /\ th[p].pc = "put" /\ IsLast(Head(th[p].puts)) => CanLock(Head(th[p].puts))

\* The inode of an open file and a current directory stay what they are, however
\* others unlink, link and create: their number is not given to a new file.
InUseStays ==
    [][\A i \in Inum :
        (boot' = 0 /\ boot = 0
         /\ ((\E f \in FileId : file[f].ref > 0 /\ file[f].ip = i)
             \/ \E p \in Proc : cwd[p] = i /\ ~Leaving(p)))
        => dinode'[i].type = dinode[i].type]_vars

\* What fs.c and sysfile.c keep true of the disk between any two steps, crashes
\* and full disks included: link counts are exact, the directories are a tree,
\* nothing leaks, no block has two owners, and files have no holes.
DiskConsistent == LinkCounts /\ Tree /\ NoOrphans /\ BlocksOwned /\ NoHoles

\* And of the tables in memory: the reference counts of itable and ftable are
\* exact, so that none of the panics that test them is reached. (The panic of
\* iget tests the size of the table and is reached.)
TablesConsistent == TypeOK /\ RefCounts /\ FileRefs /\ NoPanic
=============================================================================
