----------------------------- MODULE DiskDriver -----------------------------
\* What the driver, the device and the interrupt handler do to the invariant Base
\* of DiskSteps; every step of Disk keeps it and is a step of BlockStore.
EXTENDS DiskSteps

-----------------------------------------------------------------------------
(* The driver, the device and the handler *)

\* A request is made: the disk owns the buffer.
LEMMA SubmitKept ==
  ASSUME CacheTypes, DriverTypes, ThreadTypes, Cache, Users, Locks, Requests, Chains, Queues,
         Clean, NEW t \in Thread, Submit(t)
  PROVE  Base'
<1>1. PICK b \in Buf : b = buf[t] /\ pc[t] = "rw"
  BY Zenon, Shape DEF Submit
<1>2. PICK d \in [1 .. 3 -> Desc] :
        /\ Alloc3Desc(d) /\ free' = free \ Range(d) /\ chain' = [chain EXCEPT ![d[1]] = d]
        /\ status' = [status EXCEPT ![d[1]] = 255] /\ info' = [info EXCEPT ![d[1]] = b]
        /\ avail' = avail \cup {[head |-> d[1], write |-> valid[b]]}
        /\ idx' = [idx EXCEPT ![t] = d[1]]
  BY Zenon, <1>1 DEF Submit
<1>3. PICK h \in Desc : h = d[1] /\ h \in free /\ h # None
  BY <1>2, Nones DEF Alloc3Desc
<1>4. d \in [1 .. 3 -> free] /\ IsInjective(d) /\ free \subseteq Desc
  <2>1. free \subseteq Desc /\ d \in [1 .. 3 -> free] /\ d[1] < d[2] /\ d[2] < d[3]
    BY Zenon, <1>2 DEF DriverTypes, Alloc3Desc
  <2>2. d[1] \in Int /\ d[2] \in Int /\ d[3] \in Int
    BY DEF Desc
  <2> QED
    BY <2>1, <2>2 DEF IsInjective
<1>5. /\ UNCHANGED <<blockno, valid, refcnt, data, lru, locked, platter, pinned>>
      /\ UNCHANGED <<used, irq, handler, buf>>
  BY Zenon DEF Submit, cacheVars
<1>6. /\ pc' \in [Thread -> PCs] /\ pc'[t] = "diskwait" /\ idx[t] = None /\ idx'[t] = h
      /\ \A u \in Thread \ {t} : pc'[u] = pc[u] /\ idx'[u] = idx[u]
  BY <1>1, <1>2, <1>3 DEF Submit, ThreadTypes, PCs, Requests
<1>7. owned' \in [Buf -> 0 .. 1] /\ \A c \in Buf : owned'[c] = IF c = b THEN 1 ELSE owned[c]
  BY <1>1 DEF Submit, CacheTypes
<1>8. \A u \in Thread : idx[u] # None => idx[u] \in Desc /\ idx[u] # h
  BY <1>3, ChainTaken
<1>9. \A e \in Desc \ {h} : chain'[e] = chain[e] /\ info'[e] = info[e] /\ status'[e] = status[e]
  BY <1>2, <1>3 DEF DriverTypes
<1>10. TypeOK'
  <2>1. CacheTypes'
    BY Zenon, <1>5, <1>7 DEF CacheTypes
  <2>2. DriverTypes'
    <3>1. valid[b] \in 0 .. 1
      BY DEF CacheTypes
    <3> QED
      BY <1>2, <1>5, <3>1 DEF DriverTypes
  <2>3. ThreadTypes'
    <3>1. idx' \in [Thread -> Desc \cup {None}]
      BY Zenon, <1>2, <1>3 DEF ThreadTypes
    <3> QED
      BY Zenon, <3>1, <1>5, <1>6 DEF ThreadTypes
  <2> QED
    BY <2>1, <2>2, <2>3 DEF TypeOK
<1>11. Cache' /\ Users' /\ Locks'
  <2>1. Users'
    BY <1>1, <1>5, <1>6 DEF Users, BlockOf
  <2>2. Locks'
    BY Zenon, <1>1, <1>5, <1>6, SameLocks DEF Holding
  <2> QED
    BY <2>1, <2>2, <1>5, SameCache
<1>12. Requests'
  <2>1. buf' = buf
    BY <1>5
  <2>2. info'[h] = b
    BY Zenon, <1>2, <1>3 DEF DriverTypes
  <2>3. \A u \in Thread : /\ idx'[u] # None <=> pc'[u] = "wait" \/ pc'[u] = "diskwait"
                          /\ idx'[u] # None => info'[idx'[u]] = buf'[u]
    BY SMTT(30), <2>1, <2>2, <1>1, <1>3, <1>6, <1>8, <1>9 DEF Requests
  <2>4. /\ \A u \in Thread : pc'[u] = "diskwait" => owned'[buf'[u]] = 1
        /\ \A c \in Buf : owned'[c] = 1 => \E u \in Thread : buf'[u] = c /\ pc'[u] = "diskwait"
    BY <2>1, <1>1, <1>6, <1>7, Shape DEF Requests
  <2> QED
    BY Zenon, <2>3, <2>4 DEF Requests
<1>13. Chains'
  <2>1. chain'[d[1]] = d
    BY <1>2 DEF DriverTypes
  <2> QED
    BY Zenon, <2>1, <1>2, <1>3, <1>4, <1>6, <1>8, <1>9, ChainAdded
<1>14. Asked' = Asked \cup {h}
  <2>1. [head |-> h, write |-> valid[b]].head = h
    OBVIOUS
  <2> QED
    BY Zenon, <2>1, <1>2, <1>3 DEF Asked
<1>15. Queues'
  <2>1. Range(used) \subseteq Desc /\ h \notin Range(used)
    BY <1>8, Nones DEF DriverTypes, Queues, Range
  <2>2. \A q \in avail' : q \in avail \/ (q.head = h /\ q.write = valid[b])
    BY <1>2, <1>3
  <2>3. \A q \in avail' :
          /\ q.head \notin Range(used')
          /\ \E u \in Thread : pc'[u] = "diskwait" /\ idx'[u] = q.head /\ q.write = valid'[buf'[u]]
    BY <2>1, <2>2, <1>1, <1>5, <1>6 DEF Queues
  <2>4. \A e \in Range(used') :
          status'[e] = 0 /\ \E u \in Thread : pc'[u] = "diskwait" /\ idx'[u] = e
    BY <2>1, <1>1, <1>5, <1>6, <1>9 DEF Queues
  <2>5. /\ \A u \in Thread : pc'[u] = "diskwait" => idx'[u] \in Asked' \cup Range(used')
        /\ IsInjective(used') /\ (used' # <<>> => irq' = 1 \/ handler' = 1)
    BY Zenon, <1>5, <1>6, <1>14 DEF Queues
  <2> QED
    BY Zenon, <2>3, <2>4, <2>5 DEF Queues
<1>16. Clean'
  <2>1. \A u \in Thread : (Pending(u) => Pending(u)') /\ (Arrived(u)' => Arrived(u))
    BY Zenon, <1>1, <1>6, <1>14 DEF Pending, Arrived
  <2> QED
    BY Zenon, <2>1, <1>5, SameClean
<1> QED
  BY <1>10, <1>11, <1>12, <1>13, <1>15, <1>16 DEF Base

\* A request ends: the buffer is valid.
LEMMA FinishKept ==
  ASSUME CacheTypes, DriverTypes, ThreadTypes, Cache, Users, Locks, Requests, Chains, Queues,
         Clean, NEW t \in Thread, Finish(t)
  PROVE  Base'
<1>1. PICK b \in Buf : b = buf[t] /\ pc[t] = "wait" /\ blockno[b] \in Block
  BY Zenon, Shape DEF Finish
<1>2. PICK i \in Desc : i = idx[t] /\ i # None
  BY <1>1 DEF ThreadTypes, Requests
<1>3. PICK l \in {"hold", "unpin", "release"} :
        l = Transferred(t) /\ (l = "unpin" => blockno[b] \in pinned)
  BY Zenon, <1>1 DEF Transferred, BlockOf
<1>4. /\ pc' \in [Thread -> PCs] /\ pc'[t] = l
      /\ \A u \in Thread \ {t} : pc'[u] = IF pc[u] = "descwait" THEN "rw" ELSE pc[u]
  BY Zenon, <1>1, <1>3 DEF Finish, ThreadTypes, Wake, DescWaiters, PCs
<1>5. UNCHANGED <<blockno, refcnt, data, lru, locked, owned, deviceVars, handler, buf, pinned>>
  BY Zenon DEF Finish
<1>6. /\ info' = [info EXCEPT ![i] = None] /\ free' = free \cup Range(chain[i])
      /\ chain' = [chain EXCEPT ![i] = <<>>] /\ idx' = [idx EXCEPT ![t] = None]
      /\ valid' = [valid EXCEPT ![b] = 1]
  BY Zenon, <1>1, <1>2 DEF Finish, FreeChain
<1>7. \A c \in Buf : valid'[c] = IF c = b THEN 1 ELSE valid[c]
  BY Zenon, <1>6 DEF CacheTypes
<1>8. idx'[t] = None /\ \A u \in Thread \ {t} : idx'[u] = idx[u] /\ idx[u] # i
  BY <1>2, <1>6, OneRequest DEF ThreadTypes
<1>9. TypeOK'
  <2>1. CacheTypes'
    BY <1>5, <1>6 DEF CacheTypes
  <2>2. DriverTypes'
    <3>1. Range(chain[i]) \subseteq Desc
      BY <1>2 DEF Chains, Range
    <3> QED
      BY Zenon, <3>1, <1>5, <1>6 DEF DriverTypes, deviceVars
  <2>3. ThreadTypes'
    BY Zenon, <1>4, <1>5, <1>6 DEF ThreadTypes
  <2> QED
    BY <2>1, <2>2, <2>3 DEF TypeOK
<1>10. Cache'
  BY <1>1, <1>5, <1>7, Nones DEF Cache
<1>11. Users'
  <2>1. \A u \in Thread : pc[u] # "idle" => buf[u] \in Buf
    BY Shape
  <2> QED
    BY <2>1, <1>1, <1>3, <1>4, <1>5, <1>7 DEF Users, BlockOf
<1>12. Locks'
  BY Zenon, <1>1, <1>4, <1>5, SameLocks DEF Holding
<1>13. Requests'
  <2>1. \A e \in Desc \ {i} : info'[e] = info[e]
    BY <1>6 DEF DriverTypes
  <2>2. \A u \in Thread : idx[u] # None => idx[u] \in Desc
    BY DEF ThreadTypes
  <2> QED
    BY <2>1, <2>2, <1>1, <1>4, <1>5, <1>8 DEF Requests
<1>14. Chains'
  <2>1. \A e \in Desc \ {i} : chain'[e] = chain[e]
    BY <1>6 DEF DriverTypes
  <2>2. \A u \in Thread \ {t} : idx[u] # None => chain'[idx[u]] = chain[idx[u]]
    BY SMTT(30), <2>1, <1>8 DEF ThreadTypes
  <2> QED
    BY Zenon, <2>2, <1>2, <1>6, <1>8, ChainFreed
<1>15. Queues'
  <2>1. \A u \in Thread : pc[u] = "diskwait" => u # t /\ valid'[buf[u]] = valid[buf[u]]
    BY Zenon, <1>1, <1>7, Shape, OneHolder DEF Holding
  <2> QED
    BY <2>1, <1>1, <1>4, <1>5, <1>8 DEF Queues, Asked, deviceVars
<1>16. Clean'
  <2>1. /\ \A u \in Thread : Pending(u) => Pending(u)'
        /\ \A u \in Thread \ {t} : Arrived(u)' => Arrived(u)
    BY Zenon, <1>1, <1>4, <1>5, <1>8 DEF Pending, Arrived, Asked, deviceVars
  <2>2. data[b] = platter[blockno[b]]
    BY Zenon, <1>1 DEF Clean, Arrived, BlockOf
  <2>3. UNCHANGED <<blockno, data, platter, buf, pinned>>
    BY Zenon, <1>5 DEF deviceVars
  <2>4. \A u \in Thread : Arrived(u)' => data[buf[u]] = platter[BlockOf(u)]
    BY Zenon, <2>1, <2>2, <1>1 DEF Clean, BlockOf
  <2>5. \A c \in Buf : valid'[c] = 1 /\ data[c] # platter[blockno[c]] =>
          blockno[c] \in pinned \/ \E u \in Thread : buf[u] = c /\ Pending(u)'
    BY <2>1, <2>2, <1>7 DEF Clean
  <2> QED
    BY <2>3, <2>4, <2>5 DEF Clean, BlockOf
<1> QED
  BY <1>9, <1>10, <1>11, <1>12, <1>13, <1>14, <1>15, <1>16 DEF Base

\* A request joins the ring of completions at its end.
LEMMA Appended ==
  ASSUME NEW s \in Seq(Desc), NEW d \in Desc, d \notin Range(s), IsInjective(s)
  PROVE  /\ Append(s, d) \in Seq(Desc) /\ Append(s, d) # <<>>
         /\ Range(Append(s, d)) = Range(s) \cup {d}
         /\ IsInjective(Append(s, d))
<1>1. /\ Append(s, d) \in Seq(Desc) /\ Len(s) \in Nat /\ Len(Append(s, d)) = Len(s) + 1
      /\ DOMAIN s = 1 .. Len(s) /\ DOMAIN Append(s, d) = 1 .. Len(s) + 1
      /\ \A i \in 1 .. Len(s) + 1 : Append(s, d)[i] = IF i = Len(s) + 1 THEN d ELSE s[i]
  OBVIOUS
<1>2. Range(Append(s, d)) = Range(s) \cup {d}
  BY <1>1 DEF Range
<1>3. IsInjective(Append(s, d))
  BY <1>1 DEF Range, IsInjective
<1> QED
  BY <1>1, <1>2, <1>3

\* The handler takes the first request of the ring out of it.
LEMMA TakenFirst ==
  ASSUME NEW s \in Seq(Desc), s # <<>>, IsInjective(s)
  PROVE  /\ Tail(s) \in Seq(Desc) /\ Head(s) \in Desc
         /\ Head(s) \in Range(s) /\ Range(Tail(s)) = Range(s) \ {Head(s)}
         /\ IsInjective(Tail(s))
<1>1. /\ Tail(s) \in Seq(Desc) /\ Len(s) \in Nat \ {0} /\ Len(Tail(s)) = Len(s) - 1
      /\ DOMAIN s = 1 .. Len(s) /\ DOMAIN Tail(s) = 1 .. Len(s) - 1
      /\ \A i \in 1 .. Len(s) - 1 : Tail(s)[i] = s[i + 1]
      /\ Head(s) = s[1] /\ s[1] \in Desc
  OBVIOUS
<1>2. Head(s) \in Range(s)
  BY <1>1 DEF Range
<1>3. \A x : x \in Range(Tail(s)) => x \in Range(s) \ {Head(s)}
  BY <1>1 DEF Range, IsInjective
<1>4. ASSUME NEW i \in DOMAIN s, s[i] # Head(s) PROVE s[i] \in Range(Tail(s))
  <2>1. i - 1 \in DOMAIN Tail(s) /\ s[i] = Tail(s)[i - 1]
    BY <1>1, <1>4
  <2> QED
    BY Zenon, <2>1 DEF Range
<1>5. \A x : x \in Range(s) \ {Head(s)} => x \in Range(Tail(s))
  BY Zenon, <1>4 DEF Range
<1>6. IsInjective(Tail(s))
  BY <1>1 DEF IsInjective
<1> QED
  BY <1>1, <1>2, <1>3, <1>5, <1>6

\* The handler takes a completed request: its thread runs again, and the disk
\* no longer owns the buffer.
LEMMA IntrOneKept ==
  ASSUME CacheTypes, DriverTypes, ThreadTypes, Cache, Users, Locks, Requests, Chains, Queues,
         Clean, IntrOne
  PROVE  Base'
<1>1. PICK h \in Desc : /\ h = Head(used) /\ h \in Range(used) /\ handler = 1
                        /\ used' \in Seq(Desc) /\ IsInjective(used')
                        /\ Range(used') = Range(used) \ {h}
  BY TakenFirst DEF DriverTypes, Queues, IntrOne
<1>2. PICK t \in Thread : pc[t] = "diskwait" /\ idx[t] = h
  BY Zenon, <1>1 DEF Queues
<1>3. PICK b \in Buf : b = buf[t] /\ info[h] = b
  BY Zenon, <1>2, Shape, Nones DEF Requests
<1>4. /\ UNCHANGED <<blockno, valid, refcnt, data, lru, locked, platter, pinned, buf>>
      /\ UNCHANGED <<status, avail, irq, handler, idx, free, chain, info>>
  BY Zenon DEF IntrOne, cacheVars, descVars
<1>5. \A u \in Thread \ {t} : idx[u] # h /\ (pc[u] = "diskwait" => buf[u] # b)
  BY <1>2, <1>3, Nones, OneRequest, OneHolder DEF Holding
<1>6. /\ pc' \in [Thread -> PCs] /\ pc'[t] = "wait" /\ \A u \in Thread \ {t} : pc'[u] = pc[u]
  BY Zenon, <1>1, <1>2, <1>3, <1>5 DEF IntrOne, ThreadTypes, Wake, DiskWaiters, PCs
<1>7. owned' \in [Buf -> 0 .. 1] /\ \A c \in Buf : owned'[c] = IF c = b THEN 0 ELSE owned[c]
  BY <1>1, <1>3 DEF IntrOne, CacheTypes
<1>8. TypeOK'
  <2>1. CacheTypes'
    BY Zenon, <1>4, <1>7 DEF CacheTypes
  <2>2. DriverTypes'
    BY Zenon, <1>1, <1>4 DEF DriverTypes
  <2>3. ThreadTypes'
    BY Zenon, <1>4, <1>6 DEF ThreadTypes
  <2> QED
    BY <2>1, <2>2, <2>3 DEF TypeOK
<1>9. Cache' /\ Users' /\ Locks' /\ Chains'
  <2>1. Users'
    BY <1>2, <1>4, <1>6 DEF Users, BlockOf
  <2>2. Locks'
    BY Zenon, <1>2, <1>4, <1>6, SameLocks DEF Holding
  <2> QED
    BY SMTT(30), <2>1, <2>2, <1>4, SameCache, SameChains
<1>10. Requests'
  <2>1. \A u \in Thread : pc[u] = "diskwait" => buf[u] \in Buf
    BY SMTT(30), Shape
  <2> QED
    BY <2>1, <1>2, <1>3, <1>4, <1>5, <1>6, <1>7 DEF Requests
<1>11. h \notin Asked /\ Asked' = Asked
  BY <1>1, <1>4 DEF Asked, Queues
<1>12. Queues'
  <2>1. \A q \in avail : q.head # h
    BY <1>11 DEF Asked
  <2>2. \A q \in avail' :
          /\ q.head \notin Range(used')
          /\ \E u \in Thread : pc'[u] = "diskwait" /\ idx'[u] = q.head /\ q.write = valid'[buf'[u]]
    BY SMTT(30), <2>1, <1>1, <1>2, <1>4, <1>6 DEF Queues
  <2>3. \A e \in Range(used') :
          status'[e] = 0 /\ \E u \in Thread : pc'[u] = "diskwait" /\ idx'[u] = e
    BY <1>1, <1>2, <1>4, <1>6 DEF Queues
  <2>4. /\ \A u \in Thread : pc'[u] = "diskwait" => idx'[u] \in Asked' \cup Range(used')
        /\ IsInjective(used') /\ (used' # <<>> => irq' = 1 \/ handler' = 1)
    BY Zenon, <1>1, <1>4, <1>5, <1>6, <1>11 DEF Queues
  <2> QED
    BY Zenon, <2>2, <2>3, <2>4 DEF Queues
<1>13. Clean'
  <2>1. \A u \in Thread : (Pending(u) => Pending(u)') /\ (Arrived(u)' => Arrived(u))
    BY Zenon, <1>2, <1>4, <1>6, <1>11 DEF Pending, Arrived
  <2> QED
    BY Zenon, <2>1, <1>4, SameClean
<1> QED
  BY SMTT(30), <1>8, <1>9, <1>10, <1>12, <1>13 DEF Base

\* A thread has one request with the device.
LEMMA OneAsked ==
  ASSUME DriverTypes, Chains, Queues, NEW t \in Thread, NEW r \in avail, idx[t] = r.head
  PROVE  /\ \A u \in Thread : idx[u] = r.head => u = t
         /\ \A q \in avail : q.head = r.head => q = r
<1>1. /\ \A q \in avail : q \in [head : Desc, write : 0 .. 1]
      /\ \A q \in avail : \E u \in Thread : idx[u] = q.head /\ q.write = valid[buf[u]]
  BY DEF DriverTypes, Queues
<1>2. \A u \in Thread : idx[u] = r.head => u = t
  <2>1. r.head # None
    BY <1>1, Nones
  <2> QED
    BY Zenon, <2>1, OneRequest
<1> QED
  BY <1>1, <1>2

\* The device completes a request.
LEMMA CompleteKept ==
  ASSUME CacheTypes, DriverTypes, ThreadTypes, Cache, Users, Locks, Requests, Chains, Queues,
         Clean, NEW r \in avail, Complete(r)
  PROVE  Base'
<1>1. PICK h \in Desc : h = r.head
  BY SMTT(30) DEF DriverTypes
<1>2. PICK t \in Thread : pc[t] = "diskwait" /\ idx[t] = h /\ r.write = valid[buf[t]]
  BY <1>1 DEF Queues
<1>3. PICK b \in Buf : b = buf[t] /\ info[h] = b /\ blockno[b] \in Block
  BY Zenon, <1>2, Shape, Nones DEF Requests
<1>4. /\ UNCHANGED <<blockno, valid, refcnt, lru, locked, owned, free, chain, info>>
      /\ UNCHANGED <<handler, pc, buf, idx, pinned>>
  BY Zenon DEF Complete, descVars
<1>5. /\ used' \in Seq(Desc) /\ used' # <<>> /\ IsInjective(used')
      /\ Range(used') = Range(used) \cup {h}
  BY <1>1, Appended DEF Complete, DriverTypes, Queues
<1>6. /\ avail' = avail \ {r} /\ irq' = 1
      /\ status' = [status EXCEPT ![h] = 0]
  BY Zenon, <1>1 DEF Complete
<1>7. /\ \A u \in Thread : idx[u] = h => u = t
      /\ \A q \in avail : q.head = h => q = r
  BY SMTT(30), <1>1, <1>2, OneAsked
<1>8. /\ data' \in [Buf -> Val] /\ platter' \in [Block -> Val]
      /\ \A c \in Buf : c # b => data'[c] = data[c]
      /\ \A k \in Block : k # blockno[b] => platter'[k] = platter[k]
      /\ data'[b] = platter'[blockno[b]]
  BY <1>1, <1>2, <1>3, Moved
<1>9. TypeOK'
  <2>1. CacheTypes'
    BY Zenon, <1>4, <1>8 DEF CacheTypes
  <2>2. DriverTypes'
    BY <1>4, <1>5, <1>6, <1>8 DEF DriverTypes
  <2>3. ThreadTypes'
    BY Zenon, <1>4 DEF ThreadTypes
  <2> QED
    BY <2>1, <2>2, <2>3 DEF TypeOK
<1>10. Cache' /\ Users' /\ Locks' /\ Requests' /\ Chains'
  <2>1. Users' /\ Requests'
    BY Zenon, <1>4 DEF Users, BlockOf, Requests
  <2> QED
    BY Zenon, <2>1, <1>4, SameCache, SameLocks, SameChains
<1>11. Asked' = Asked \ {h} /\ h \in Asked
  BY <1>1, <1>6, <1>7 DEF Asked
<1>12. Queues'
  <2>1. \A q \in avail' : q \in avail /\ q.head # h
    BY <1>1, <1>6, <1>7
  <2>2. Range(used) \subseteq Desc /\ \A e \in Desc : status'[e] = IF e = h THEN 0 ELSE status[e]
    BY SMTT(30), <1>6 DEF DriverTypes, Range
  <2>3. \A q \in avail' :
          /\ q.head \notin Range(used')
          /\ \E u \in Thread : pc'[u] = "diskwait" /\ idx'[u] = q.head /\ q.write = valid'[buf'[u]]
    BY SMTT(30), <2>1, <1>4, <1>5 DEF Queues
  <2>4. \A e \in Range(used') :
          status'[e] = 0 /\ \E u \in Thread : pc'[u] = "diskwait" /\ idx'[u] = e
    BY <2>2, <1>2, <1>4, <1>5 DEF Queues
  <2>5. /\ \A u \in Thread : pc'[u] = "diskwait" => idx'[u] \in Asked' \cup Range(used')
        /\ IsInjective(used') /\ (used' # <<>> => irq' = 1 \/ handler' = 1)
    BY Zenon, <1>4, <1>5, <1>6, <1>11 DEF Queues
  <2> QED
    BY Zenon, <2>3, <2>4, <2>5 DEF Queues
<1>13. Clean'
  <2>1. \A u \in Thread : u # t => Pending(u)' = Pending(u) /\ Arrived(u)' = Arrived(u)
    BY Zenon, <1>4, <1>7, <1>11 DEF Pending, Arrived
  <2>2. \A c \in Buf : c # b => blockno[c] # blockno[b]
    BY Zenon, <1>3, Nones DEF Cache
  <2>3. ASSUME NEW c \in Buf, valid[c] = 1, data'[c] # platter'[blockno[c]]
        PROVE  blockno[c] \in pinned \/ \E u \in Thread : buf[u] = c /\ Pending(u)'
    <3>1. c # b /\ blockno[c] \in Block
      BY SMTT(30), <2>3, <1>8 DEF CacheTypes, Cache
    <3>2. data[c] # platter[blockno[c]]
      BY <2>2, <2>3, <3>1, <1>8
    <3> QED
      BY Zenon, <3>1, <3>2, <2>1, <2>3, <1>3 DEF Clean
  <2>4. ASSUME NEW u \in Thread, Arrived(u)' PROVE data'[buf[u]] = platter'[blockno[buf[u]]]
    <3>1. CASE u = t
      BY Zenon, <3>1, <1>3, <1>8
    <3>2. CASE u # t
      <4>1. Arrived(u) /\ data[buf[u]] = platter[blockno[buf[u]]]
        BY Zenon, <3>2, <2>1, <2>4 DEF Clean, BlockOf
      <4>2. buf[u] \in Buf /\ blockno[buf[u]] \in Block /\ buf[u] # b
        BY Zenon, <4>1, <3>2, <1>2, <1>3, Shape, OneHolder DEF Arrived, Holding
      <4> QED
        BY Zenon, <4>1, <4>2, <2>2, <1>8
    <3> QED
      BY Zenon, <3>1, <3>2
  <2>5. UNCHANGED <<valid, blockno, pinned, buf>>
    BY <1>4
  <2> QED
    BY Zenon, <2>3, <2>4, <2>5 DEF Clean, BlockOf
<1> QED
  BY <1>9, <1>10, <1>12, <1>13 DEF Base

\* The handler starts, or ends when the ring is empty.
LEMMA IntrEdgeKept ==
  ASSUME CacheTypes, DriverTypes, ThreadTypes, Cache, Users, Locks, Requests, Chains, Queues,
         Clean, IntrAck \/ IntrEnd
  PROVE  Base'
<1>1. /\ UNCHANGED <<blockno, valid, refcnt, data, lru, locked, owned, platter, pinned>>
      /\ UNCHANGED <<free, chain, info, status, avail, used, pc, buf, idx>>
  BY Zenon DEF IntrAck, IntrEnd, cacheVars, descVars, deviceVars
<1>2. irq' \in 0 .. 1 /\ handler' \in 0 .. 1 /\ (used # <<>> => irq' = 1 \/ handler' = 1)
  BY DEF IntrAck, IntrEnd, deviceVars, DriverTypes, Queues
<1>3. TypeOK'
  BY Zenon, <1>1, <1>2 DEF TypeOK, CacheTypes, DriverTypes, ThreadTypes
<1>4. Users' /\ Requests' /\ Clean'
  BY Zenon, <1>1 DEF Users, BlockOf, Requests, Clean, Pending, Arrived, Asked
<1>5. Queues'
  BY Zenon, <1>1, <1>2 DEF Queues, Asked
<1> QED
  BY Zenon, <1>1, <1>3, <1>4, <1>5, SameCache, SameLocks, SameChains DEF Base

-----------------------------------------------------------------------------

\* Every step keeps what is said without counting, given what the counts say.
LEMMA StepKept == ASSUME Base, Referenced, [Next]_vars PROVE Base'
<1>1. /\ CacheTypes /\ DriverTypes /\ ThreadTypes
      /\ Cache /\ Users /\ Locks /\ Requests /\ Chains /\ Queues /\ Clean
  BY DEF Base, TypeOK
<1>2. CASE Aside /\ CacheTypes' /\ ThreadTypes' /\ Cache' /\ Users' /\ Locks' /\ Clean'
  BY Zenon, <1>1, <1>2, AsideKept DEF Base, TypeOK
<1>3. CASE UNCHANGED vars
  <2>1. UNCHANGED <<cacheVars, locked, owned, descVars, deviceVars, handler, pc, buf, idx, pinned>>
    BY <1>3 DEF vars
  <2>2. CacheTypes' /\ ThreadTypes' /\ Aside
    BY Zenon, <1>1, <2>1 DEF CacheTypes, ThreadTypes, Aside, cacheVars
  <2>3. Users' /\ Clean'
    BY Zenon, <1>1, <2>1
       DEF Users, BlockOf, Clean, Pending, Arrived, Asked, cacheVars, deviceVars
  <2> QED
    BY Zenon, <1>1, <1>2, <2>1, <2>2, <2>3, SameCache, SameLocks DEF cacheVars
<1>4. ASSUME NEW t \in Thread, User(t) PROVE Base'
  BY Zenon, <1>1, <1>2, <1>4, BgetHitKept, BgetMissKept, LogWriteKept, BwriteKept,
     WaitingKept
  DEF User
<1>5. ASSUME NEW t \in Thread, Progress(t) PROVE Base'
  BY Zenon, <1>1, <1>2, <1>5, AcquiresleepKept, BunpinKept, ReleasesleepKept,
     BrelseKept,
     SubmitKept, WaitingKept, FinishKept DEF Progress
<1>6. CASE Device
  BY Zenon, <1>1, <1>6, CompleteKept DEF Device
<1>7. CASE Handler
  BY Zenon, <1>1, <1>7, IntrEdgeKept, IntrOneKept DEF Handler
<1> QED
  BY Zenon, <1>3, <1>4, <1>5, <1>6, <1>7 DEF Next

\* Every step is a step of the store, or one that it does not see.
LEMMA StepRefines == ASSUME Base, Referenced, MapsTo, MapsTo', [Next]_vars PROVE StoreStep
<1>1. /\ CacheTypes /\ DriverTypes /\ ThreadTypes
      /\ Cache /\ Users /\ Locks /\ Requests /\ Queues /\ Clean
  BY DEF Base, TypeOK
<1>2. ASSUME NEW t \in Thread, User(t) PROVE StoreStep
  BY Zenon, <1>1, <1>2, OtherStep, RecycleStep, ChangeStep DEF User
<1>3. ASSUME NEW t \in Thread, Progress(t) PROVE StoreStep
  BY Zenon, <1>1, <1>3, OtherStep, AcquiresleepStep, ReleaseStep, FinishStep
     DEF Progress
<1> QED
  BY Zenon, <1>1, <1>2, <1>3, OtherStep, CompleteStep DEF Next, Device

=============================================================================
