-------------------------- MODULE AFSCoherentProof --------------------------
(***************************************************************************)
(* What a user of the cache may rely on.  First, AFS implements            *)
(* CoherentCache: a clean entry that is neither announced to change nor    *)
(* missed a change behaves as a copy that the server withdraws at once.    *)
(* Second, if callers open a file only when no other client uses it, then  *)
(* what is open is current and nothing is missed.                          *)
(***************************************************************************)
EXTENDS AFSSharingProof

\* The copies of the abstract cache, and the invariants that are known.
Copies == [c \in Client |-> [p \in Path |-> CoherentCopy(c, p)]]

KnownInv == TypeOK /\ UnflushedInv /\ SharingInv

(***************************************************************************)
(* What close() sends is a content: it was read from a local file, which   *)
(* is checked to exist (CloseFlush).                                       *)
(***************************************************************************)
FlushDataOK == \A c \in Client : op[c].pc \in FlushingPC => op[c].data # None

CoherentInv == KnownInv /\ FlushDataOK

-----------------------------------------------------------------------------
(***************************************************************************)
(* The steps of the abstract cache.                                        *)
(***************************************************************************)
LEMMA CopyType ==
  ASSUME TypeOK
  PROVE  \A c \in Client, p \in Path : CoherentCopy(c, p) \in Content \cup {None}
BY DEF TypeOK, ClientTypeOK, CoherentCopy, Stored

\* The file stays as it is, and copies are at most given up.
LEMMA WithdrawStep ==
  ASSUME TypeOK', disk' = disk,
         \A c \in Client, p \in Path : CoherentCopy(c, p)' \in {CoherentCopy(c, p), None}
  PROVE  [CC!Next]_CC!vars
<1>1. \A c \in Client, p \in Path : CoherentCopy(c, p)' \in Content \cup {None}
  BY DEF TypeOK, ClientTypeOK, CoherentCopy, Stored
<1>2. CC!Withdraw
  BY <1>1 DEF CC!Withdraw
<1> QED
  BY <1>2 DEF CC!Next

\* One client gets one copy of the file as it is, or loses it.
LEMMA FetchStep ==
  ASSUME TypeOK', disk' = disk, NEW c \in Client, NEW p \in Path,
         CoherentCopy(c, p)' \in {CoherentCopy(c, p), None, disk[p]},
         \A d \in Client, x \in Path :
           d # c \/ x # p => CoherentCopy(d, x)' = CoherentCopy(d, x)
  PROVE  [CC!Next]_CC!vars
<1>1. CASE CoherentCopy(c, p)' \in {CoherentCopy(c, p), None}
  <2>1. \A d \in Client, x \in Path :
          CoherentCopy(d, x)' \in {CoherentCopy(d, x), None}
    BY <1>1
  <2> QED
    BY <2>1, WithdrawStep
<1>2. CASE disk[p] # None /\ CoherentCopy(c, p)' = disk[p]
  <2>1. Copies' = [Copies EXCEPT ![c][p] = disk[p]]
    BY <1>2 DEF Copies
  <2>2. CC!Fetch(c, p)
    BY <1>2, <2>1 DEF CC!Fetch, Copies
  <2> QED
    BY <2>2 DEF CC!Next
<1> QED
  BY <1>1, <1>2

\* The file changes while nobody has a copy of it.
LEMMA ChangeStep ==
  ASSUME NEW p \in Path, NEW v \in Content, disk' = [disk EXCEPT ![p] = v],
         \A d \in Client : CoherentCopy(d, p)' = None,
         \A d \in Client, x \in Path \ {p} : CoherentCopy(d, x)' = CoherentCopy(d, x)
  PROVE  [CC!Next]_CC!vars
<1>1. Copies' = [d \in Client |-> [Copies[d] EXCEPT ![p] = None]]
  BY DEF Copies
<1>2. CC!Change(p, v)
  BY <1>1 DEF CC!Change, Copies
<1> QED
  BY <1>2 DEF CC!Next

\* A copy is what it was if nothing it depends on has changed.
LEMMA CopyFrame ==
  ASSUME NEW d \in Client, NEW x \in Path,
         cache'[d][x] = cache[d][x], local'[d][x] = local[d][x],
         Connected(d)' <=> Connected(d), Announced(d, x)' <=> Announced(d, x),
         x \in missed'[d] <=> x \in missed[d]
  PROVE  CoherentCopy(d, x)' = CoherentCopy(d, x)
BY DEF CoherentCopy

-----------------------------------------------------------------------------
(***************************************************************************)
(* The handlers.                                                           *)
(***************************************************************************)

\* Pushing a notification adds its path to the queue, and no other.
LEMMA RangeOfAppend ==
  ASSUME NEW S, NEW s \in Seq(S), NEW e \in S, NEW x, x # e
  PROVE  x \in Range(Append(s, e)) <=> x \in Range(s)
<1>1. /\ DOMAIN Append(s, e) = 1..Len(s) + 1
      /\ DOMAIN s = 1..Len(s) /\ Len(s) \in Nat
      /\ Append(s, e)[Len(s) + 1] = e
      /\ \A i \in 1..Len(s) : Append(s, e)[i] = s[i]
  OBVIOUS
<1> QED
  BY <1>1 DEF Range

\* Reading a notification adds none to the queue.
LEMMA RangeOfTail ==
  ASSUME NEW S, NEW s \in Seq(S), s # <<>>
  PROVE  Range(Tail(s)) \subseteq Range(s) /\ Head(s) \in Range(s)
<1>1. /\ DOMAIN s = 1..Len(s) /\ Len(s) \in Nat \ {0}
      /\ DOMAIN Tail(s) = 1..(Len(s) - 1)
      /\ \A i \in 1..(Len(s) - 1) : Tail(s)[i] = s[i + 1]
      /\ Head(s) = s[1]
  OBVIOUS
<1> QED
  BY <1>1 DEF Range

\* Nor does losing the last ones.
LEMMA RangeOfPrefix ==
  ASSUME NEW S, NEW s \in Seq(S), NEW n \in 0..Len(s)
  PROVE  Range(SubSeq(s, 1, n)) \subseteq Range(s)
<1>1. /\ DOMAIN s = 1..Len(s) /\ Len(s) \in Nat
      /\ DOMAIN SubSeq(s, 1, n) = 1..n
      /\ \A i \in 1..n : SubSeq(s, 1, n)[i] = s[i]
  OBVIOUS
<1> QED
  BY <1>1 DEF Range

\* A handler announces nothing about other files than the one it is called
\* for, and takes no such announcement back.
LEMMA AnnouncedServer ==
  ASSUME TypeOK, NEW c \in Client, ShapeOK(c), ServerStep(c),
         NEW d \in Client, NEW x \in Path \ {op[c].path}
  PROVE  Announced(d, x)' <=> Announced(d, x)
<1>1. \A e \in Client : Storing(e, x)' <=> Storing(e, x)
  <2>1. op'[c].path = op[c].path /\ \A e \in Client \ {c} : op'[e] = op[e]
    BY ServerFrame, SharingServerCalls
  <2> QED
    BY <2>1 DEF Storing
<1>2. x \in Range(queue'[d]) <=> x \in Range(queue[d])
  <2>1. CASE CloseNotify(c)
    <3>1. op[c].path \in Path
      BY <2>1, CallPath DEF CloseNotify, At, TypeOK, IsIdle
    <3>2. queue'[d] = queue[d] \/ queue'[d] = Append(queue[d], op[c].path)
      BY <2>1 DEF CloseNotify, Notify
    <3>3. queue[d] \in Seq(Path)
      BY DEF TypeOK, ChannelTypeOK
    <3> QED
      BY <3>1, <3>2, <3>3, RangeOfAppend
  <2>2. CASE ~CloseNotify(c)
    BY <2>2, SharingServer DEF GetattrStat, OpenRegister, OpenRead, CloseTruncate,
       CloseWrite, channelVars
  <2> QED
    BY <2>1, <2>2
<1> QED
  BY <1>1, <1>2 DEF Announced

\* So no copy of another file changes.
LEMMA CopyServerOther ==
  ASSUME TypeOK, NEW c \in Client, ShapeOK(c), ServerStep(c), MissAtServer(c),
         NEW d \in Client, NEW x \in Path \ {op[c].path}
  PROVE  CoherentCopy(d, x)' = CoherentCopy(d, x)
<1>1. cache' = cache /\ local' = local
  BY ServerFrame
<1>2. stream' = stream
  BY SharingServer DEF GetattrStat, OpenRegister, OpenRead, CloseTruncate,
     CloseWrite, CloseNotify, channelVars
<1>3. x \in missed'[d] <=> x \in missed[d]
  BY DEF MissAtServer
<1> QED
  BY <1>1, <1>2, <1>3, AnnouncedServer, CopyFrame DEF Connected

\* A close() that changes the file leaves no copy of it.
LEMMA NoCopyStored ==
  ASSUME TypeOK, NEW c \in Client, ShapeOK(c), OwnOK(c),
         CloseTruncate(c) \/ CloseWrite(c), NEW d \in Client,
         NEW p \in Path, p = op[c].path
  PROVE  CoherentCopy(d, p)' = None
<1>1. /\ op'[c].path = p /\ cache' = cache
      /\ op'[c].pc \in {"close_write", "close_notify"}
      /\ op[c].pc \in FlushingPC
  <2> USE DEF TypeOK, OpTypeOK, OpRecord, OpFields, Goto, Becomes, clientVars, At,
              FlushingPC
  <2>1. CASE CloseTruncate(c)
    BY <2>1 DEF CloseTruncate
  <2>2. CASE CloseWrite(c)
    BY <2>2 DEF CloseWrite
  <2> QED
    BY <2>1, <2>2
<1>2. CASE d = c
  BY <1>1, <1>2 DEF CoherentCopy, OwnOK
<1>3. CASE d # c
  BY <1>1, <1>3 DEF CoherentCopy, Announced, Storing
<1> QED
  BY <1>2, <1>3

\* Nor is there one after the callback: who has the file is told, or missed it.
LEMMA NoCopyNotified ==
  ASSUME TypeOK, NEW c \in Client, ShapeOK(c), OwnOK(c), CloseNotify(c),
         MissAtServer(c), NEW d \in Client, ShapeOK(d), RegisteredOK(d),
         NEW p \in Path, p = op[c].path
  PROVE  CoherentCopy(d, p)' = None
<1>1. /\ cache' = cache /\ stream' = stream
      /\ op[c].pc \in FlushingPC
  BY DEF CloseNotify, clientVars, At, FlushingPC
<1>2. CASE d = c
  BY <1>1, <1>2 DEF CoherentCopy, OwnOK
<1>3. CASE d # c
  <2> SUFFICES ASSUME cache[d][p] = "clean", Connected(d)
               PROVE  p \in Range(queue'[d]) \/ p \in missed'[d]
    BY <1>1 DEF CoherentCopy, Announced, Connected
  <2> QED
    BY <1>3, NotifiedOrMissed DEF RegisteredOK, Cached
<1> QED
  BY <1>2, <1>3

\* Every step of a handler is one of the abstract cache, or none.
LEMMA CoherentServer ==
  ASSUME CoherentInv, TypeOK', NEW c \in Client, Server(c)
  PROVE  [CC!Next]_CC!vars
<1>0. /\ TypeOK /\ ServerStep(c) /\ MissAtServer(c) /\ OwnOK(c)
      /\ \A d \in Client : ShapeOK(d) /\ RegisteredOK(d)
      /\ op[c].pc \in FlushingPC => op[c].data # None
  BY DEF CoherentInv, KnownInv, UnflushedInv, SharingInv, Server, FlushDataOK
<1>1. PICK p \in Path : p = op[c].path
  BY <1>0, CallPath, SharingServer DEF TypeOK, IsIdle, At, GetattrStat,
     OpenRegister, OpenRead, CloseTruncate, CloseWrite, CloseNotify
<1>2. \A d \in Client, x \in Path \ {p} : CoherentCopy(d, x)' = CoherentCopy(d, x)
  BY <1>0, <1>1, CopyServerOther
<1>3. CASE CloseTruncate(c)
  <2>1. disk' = [disk EXCEPT ![p] = Empty] /\ Empty \in Content
    BY <1>1, <1>3, BoundAssumption DEF CloseTruncate, Content, Empty
  <2>2. \A d \in Client : CoherentCopy(d, p)' = None
    BY <1>0, <1>1, <1>3, NoCopyStored
  <2> QED
    BY <1>1, <1>2, <2>1, <2>2, ChangeStep
<1>4. CASE CloseWrite(c)
  <2>1. disk' = [disk EXCEPT ![p] = op[c].data]
    BY <1>0, <1>1, <1>4, NoneAssumption DEF CloseWrite, ShapeOK
  <2>2. op[c].data \in Content
    BY <1>0, <1>4, CallData DEF CloseWrite, At, FlushingPC, TypeOK, Stored
  <2>3. \A d \in Client : CoherentCopy(d, p)' = None
    BY <1>0, <1>1, <1>4, NoCopyStored
  <2> QED
    BY <1>1, <1>2, <2>1, <2>2, <2>3, ChangeStep
<1>5. CASE CloseNotify(c)
  <2>1. \A d \in Client : CoherentCopy(d, p)' = None
    BY <1>0, <1>1, <1>5, NoCopyNotified
  <2>2. \A d \in Client, x \in Path :
          CoherentCopy(d, x)' \in {CoherentCopy(d, x), None}
    BY <1>2, <2>1
  <2>3. disk' = disk
    BY <1>5 DEF CloseNotify
  <2> QED
    BY <2>2, <2>3, WithdrawStep
<1>6. CASE GetattrStat(c) \/ OpenRegister(c) \/ OpenRead(c)
  <2>1. /\ disk' = disk /\ queue' = queue /\ stream' = stream
        /\ cache' = cache /\ local' = local
        /\ op[c].pc \notin {"close_write", "close_notify"}
        /\ op'[c].pc \notin {"close_write", "close_notify"}
    <3> USE <1>0
            DEF channelVars, clientVars, At, Goto, Reply, Becomes, TypeOK, OpTypeOK,
                OpRecord, OpFields
    <3>1. CASE GetattrStat(c)
      BY <3>1 DEF GetattrStat, serverVars
    <3>2. CASE OpenRegister(c)
      BY <3>2 DEF OpenRegister
    <3>3. CASE OpenRead(c)
      BY <3>3 DEF OpenRead, serverVars
    <3> QED
      BY <1>6, <3>1, <3>2, <3>3
  <2>2. \A e \in Client \ {c} : op'[e] = op[e]
    BY <1>0, SharingServerCalls
  <2>3. \A d \in Client : Announced(d, p)' <=> Announced(d, p)
    BY <2>1, <2>2 DEF Announced, Storing
  <2>4. ASSUME NEW d \in Client
        PROVE  CoherentCopy(d, p)' \in {CoherentCopy(d, p), None}
    <3>1. CASE OpenRead(c) /\ d = c
      BY <1>0, <1>1, <2>1, <3>1 DEF OpenRead, At, OwnOK, FillingPC, Cached, CoherentCopy
    <3>2. CASE ~(OpenRead(c) /\ d = c)
      <4>1. missed'[d] = missed[d]
        BY <1>0, <1>6, <3>2 DEF MissAtServer, GetattrStat, OpenRegister, OpenRead, At
      <4> QED
        BY <1>1, <2>1, <2>3, <4>1, CopyFrame DEF Connected
    <3> QED
      BY <3>1, <3>2
  <2>5. \A d \in Client, x \in Path :
          CoherentCopy(d, x)' \in {CoherentCopy(d, x), None}
    BY <1>2, <2>4
  <2> QED
    BY <2>1, <2>5, WithdrawStep
<1> QED
  BY <1>0, <1>3, <1>4, <1>5, <1>6, SharingServer

-----------------------------------------------------------------------------
(***************************************************************************)
(* The client's code.                                                      *)
(***************************************************************************)

\* It changes no copy of another client, and of its own only as the call in
\* progress says.
LEMMA CopyClient ==
  ASSUME Ops \subseteq SharingOps, TypeOK, NEW c \in Client, ShapeOK(c), OwnOK(c),
         ExcusedOK(c), ClientStep(c) \/ CallerStep(c), missed' = missed, TypeOK'
  PROVE  /\ \A d \in Client \ {c}, x \in Path :
              CoherentCopy(d, x)' = CoherentCopy(d, x)
         /\ \A x \in Path :
              \/ CoherentCopy(c, x)' \in {CoherentCopy(c, x), None}
              \/ /\ op[c].pc \in {"open_reply", "close_reply"} /\ x = op[c].path
                 /\ CoherentCopy(c, x)' = disk[x]
<1>1. UNCHANGED <<disk, queue, stream>>
  BY SharingClientFrame DEF serverVars, channelVars
<1>2. \A d \in Client \ {c} :
        op'[d] = op[d] /\ cache'[d] = cache[d] /\ local'[d] = local[d]
  BY ClientFrame
<1>3. /\ op[c].pc \notin {"close_write", "close_notify"}
      /\ op'[c].pc \notin {"close_write", "close_notify"}
  BY SharingClientFrame, NextCall DEF StartedPC
<1>4. \A d \in Client, x \in Path : Announced(d, x)' <=> Announced(d, x)
  BY <1>1, <1>2, <1>3 DEF Announced, Storing
<1>5. ASSUME NEW d \in Client \ {c}, NEW x \in Path
      PROVE  CoherentCopy(d, x)' = CoherentCopy(d, x)
  BY <1>1, <1>2, <1>4, CopyFrame DEF Connected
<1>6. ASSUME NEW x \in Path, CoherentCopy(c, x)' # None
      PROVE  \/ CoherentCopy(c, x)' = CoherentCopy(c, x)
             \/ /\ op[c].pc \in {"open_reply", "close_reply"} /\ x = op[c].path
                /\ CoherentCopy(c, x)' = disk[x]
  <2>0. PICK v \in Stored : v = local'[c][x]
    BY DEF TypeOK, ClientTypeOK
  <2>1. /\ CoherentCopy(c, x)' = v /\ Holds(c, x, v)'
        /\ Connected(c) /\ ~Announced(c, x) /\ x \notin missed[c]
    BY <1>1, <1>4, <1>6, <2>0 DEF CoherentCopy, Holds, Connected
  <2>2. Holds(c, x, v)
    BY <2>1, HoldsClient
  <2>3. v = disk[x]
    BY <2>1, <2>2 DEF ExcusedOK
  <2> QED
    BY <1>3, <2>1, <2>2, <2>3 DEF Holds, CoherentCopy, At
<1> QED
  BY <1>5, <1>6

\* Every step of a client's code is one of the abstract cache, or none.
LEMMA CoherentClient ==
  ASSUME Ops \subseteq SharingOps, CoherentInv, TypeOK', NEW c \in Client,
         ClientStep(c) \/ CallerStep(c), missed' = missed
  PROVE  [CC!Next]_CC!vars
<1>0. TypeOK /\ ShapeOK(c) /\ OwnOK(c) /\ ExcusedOK(c)
  BY DEF CoherentInv, KnownInv, UnflushedInv, SharingInv
<1>1. disk' = disk
  BY <1>0, SharingClientFrame DEF serverVars
<1>2. CASE op[c].pc \notin {"open_reply", "close_reply"}
  <2>1. \A d \in Client, x \in Path :
          CoherentCopy(d, x)' \in {CoherentCopy(d, x), None}
    BY <1>0, <1>2, CopyClient
  <2> QED
    BY <1>1, <2>1, WithdrawStep
<1>3. CASE op[c].pc \in {"open_reply", "close_reply"}
  <2>1. PICK p \in Path : p = op[c].path
    BY <1>0, <1>3, CallPath DEF TypeOK, IsIdle
  <2>2. ASSUME NEW x \in Path \ {p}
        PROVE  CoherentCopy(c, x)' = CoherentCopy(c, x)
    <3>1. OpenReturn(c) \/ OpenFailed(c) \/ CloseReturn(c)
      BY <1>0, <1>3, SharingClient, SharingCaller DEF GetAttributesReturn,
         OpenInstall, At, Shares, GetAttributes, OpenMiss, OpenHit, WriteFile,
         WriteFails, Closes, CloseWithoutFlush, CloseFlush, CloseFlushFails, Starts,
         IsIdle
    <3>2. cache'[c][x] = cache[c][x] /\ local'[c][x] = local[c][x]
      BY <1>0, <2>1, <3>1 DEF OpenReturn, OpenFailed, CloseReturn, Set, TypeOK,
           ClientTypeOK
    <3>3. UNCHANGED <<queue, stream>> /\ \A e \in Client \ {c} : op'[e] = op[e]
      BY <1>0, SharingClientFrame, ClientFrame DEF channelVars
    <3>4. Announced(c, x)' <=> Announced(c, x)
      BY <3>3, AnnouncedFrame
    <3> QED
      BY <3>2, <3>3, <3>4, CopyFrame DEF Connected
  <2>3. \A d \in Client, x \in Path :
          d # c \/ x # p => CoherentCopy(d, x)' = CoherentCopy(d, x)
    BY <1>0, <2>2, CopyClient
  <2>4. CoherentCopy(c, p)' \in {CoherentCopy(c, p), None, disk[p]}
    BY <1>0, <2>1, CopyClient
  <2> QED
    BY <1>1, <2>1, <2>3, <2>4, FetchStep
<1> QED
  BY <1>2, <1>3

-----------------------------------------------------------------------------
(***************************************************************************)
(* The subscriber thread and the stream.                                   *)
(***************************************************************************)

\* A notification gives the copy up, or it was given up before; a stream that
\* breaks gives all copies up.
LEMMA CoherentChannel ==
  ASSUME CoherentInv, TypeOK', NEW c \in Client,
         Subscriber(c) \/ Connect(c) \/ Disconnect(c)
  PROVE  [CC!Next]_CC!vars
<1>0. /\ TypeOK /\ MissedOK
      /\ queue \in [Client -> Seq(Path)]
      /\ cache \in [Client -> [Path -> {"none", "clean", "dirty"}]]
      /\ stream \in [Client -> {"new", "up", "down"}]
  BY DEF CoherentInv, KnownInv, SharingInv, TypeOK, ChannelTypeOK, ClientTypeOK
<1>1. CASE Subscriber(c)
  <2> DEFINE q == Head(queue[c])
  <2>1. /\ queue[c] \in Seq(Path) /\ queue[c] # <<>> /\ q \in Path
        /\ queue' = [queue EXCEPT ![c] = Tail(@)]
        /\ UNCHANGED <<disk, stream, local, op>>
        /\ IF Dropped(c, q) THEN cache' = cache ELSE cache' = Set(cache, c, q, "none")
        /\ missed' = IF Dropped(c, q) THEN [missed EXCEPT ![c] = @ \cup {q}] ELSE missed
    BY <1>0, <1>1 DEF Subscriber, HandleNotification, MissAtClient, serverVars
  <2> HIDE DEF q
  <2>2. ASSUME NEW d \in Client, NEW x \in Path
        PROVE  CoherentCopy(d, x)' \in {CoherentCopy(d, x), None}
    <3>1. CASE d # c
      <4>1. queue'[d] = queue[d] /\ cache'[d] = cache[d] /\ missed'[d] = missed[d]
        BY <1>0, <2>1, <3>1 DEF Set
      <4> QED
        BY <2>1, <4>1 DEF CoherentCopy, Connected, Announced, Storing
    <3>2. CASE d = c /\ x # q
      <4>1. Range(queue[c]) \ {q} \subseteq Range(queue'[c])
        BY <1>0, <2>1, RangeTail DEF q
      <4>2. Announced(c, x) => Announced(c, x)'
        BY <2>1, <3>2, <4>1 DEF Announced, Storing
      <4>3. cache'[c][x] = cache[c][x] /\ missed[c] \subseteq missed'[c]
        BY <1>0, <2>1, <3>2 DEF Set, MissedOK
      <4> QED
        BY <2>1, <3>2, <4>2, <4>3 DEF CoherentCopy, Connected
    <3>3. CASE d = c /\ x = q
      <4>1. CASE Dropped(c, q)
        BY <1>0, <2>1, <3>3, <4>1 DEF MissedOK, CoherentCopy
      <4>2. CASE ~Dropped(c, q)
        BY <1>0, <2>1, <3>3, <4>2 DEF Set, CoherentCopy
      <4> QED
        BY <4>1, <4>2
    <3> QED
      BY <3>1, <3>2, <3>3
  <2> QED
    BY <2>1, <2>2, WithdrawStep
<1>2. CASE Connect(c) \/ Disconnect(c)
  <2>1. UNCHANGED <<op, cache, local, disk, missed>>
    BY <1>2 DEF Connect, Disconnect, Subscribe, StreamBreak, Cleanup, clientVars,
       serverVars
  <2>2. ASSUME NEW d \in Client, Connected(d)'
        PROVE  Connected(d) /\ queue'[d] = queue[d]
    BY <1>0, <1>2, <2>2 DEF Connect, Disconnect, Subscribe, StreamBreak, Cleanup,
       Connected, channelVars
  <2>3. \A d \in Client, x \in Path :
          CoherentCopy(d, x)' \in {CoherentCopy(d, x), None}
    BY <2>1, <2>2 DEF CoherentCopy, Announced, Storing
  <2> QED
    BY <2>1, <2>3, WithdrawStep
<1> QED
  BY <1>1, <1>2

-----------------------------------------------------------------------------
(***************************************************************************)
(* The refinement.                                                         *)
(***************************************************************************)
\* A client's code starts to store a file in one way only.
LEMMA FlushingStarts ==
  ASSUME Ops \subseteq SharingOps, TypeOK, NEW c \in Client, ShapeOK(c),
         ClientStep(c) \/ CallerStep(c), op'[c].pc = "close_truncate"
  PROVE  \E p \in Path : CloseFlush(c, p) \/ (op' = op /\ IsIdle(c))
<1> USE DEF TypeOK, OpTypeOK, OpRecord, OpFields, Goto, Becomes, Return, Call, Idle
<1>1. CASE ClientStep(c)
  <2>1. CASE OpenFailed(c)
    <3> DEFINE n == op[c].tries + 1
               r == [op[c] EXCEPT !.pc = "open_register", !.tries = n]
    <3>1. Return(c) \/ Becomes(c, r)
      BY <2>1 DEF OpenFailed
    <3> HIDE DEF n
    <3>2. r.pc = "open_register"
      BY Attempt
    <3> HIDE DEF r
    <3> QED
      BY <3>1, <3>2
  <2>2. CASE ~OpenFailed(c)
    BY <1>1, <2>2, SharingClient
       DEF GetAttributesReturn, OpenReturn, OpenInstall, CloseReturn
  <2> QED
    BY <2>1, <2>2
<1>2. CASE CallerStep(c)
  <2> PICK p \in Path : Shares(c, p)
    BY <1>2, SharingCaller
  <2> QED
    BY DEF Shares, GetAttributes, OpenMiss, OpenHit, WriteFile, WriteFails,
       Closes, CloseWithoutFlush, CloseFlushFails, Starts
<1> QED
  BY <1>1, <1>2

\* What close() sends stays a content.
LEMMA FlushDataNext ==
  ASSUME Ops \subseteq SharingOps, KnownInv, FlushDataOK, [Next]_vars
  PROVE  FlushDataOK'
<1> SUFFICES ASSUME NEW d \in Client, op'[d].pc \in FlushingPC
             PROVE  op'[d].data # None
  BY DEF FlushDataOK
<1>0. TypeOK /\ \A c \in Client : ShapeOK(c)
  BY DEF KnownInv, SharingInv
<1>1. ASSUME NEW c \in Client, ServerStep(c)
      PROVE  op'[d].data # None
  BY <1>0, <1>1, ServerFrame DEF FlushDataOK
<1>2. ASSUME NEW c \in Client, ClientStep(c) \/ CallerStep(c)
      PROVE  op'[d].data # None
  <2>1. CASE d # c
    BY <1>0, <1>2, <2>1, ClientFrame DEF FlushDataOK
  <2>2. CASE d = c
    <3>1. op'[c].pc = "close_truncate"
      BY <1>0, <1>2, <2>2, NextCall DEF StartedPC, FlushingPC
    <3>2. PICK p \in Path : CloseFlush(c, p) \/ op' = op
      BY <1>0, <1>2, <2>2, <3>1, FlushingStarts
    <3>3. CASE CloseFlush(c, p)
      BY <1>0, <2>2, <3>3 DEF CloseFlush, Becomes, Idle, TypeOK, OpTypeOK
    <3>4. CASE op' = op
      BY <2>2, <3>4 DEF FlushDataOK
    <3> QED
      BY <3>2, <3>3, <3>4
  <2> QED
    BY <2>1, <2>2
<1>3. CASE op' = op
  BY <1>3 DEF FlushDataOK
<1> QED
  BY <1>1, <1>2, <1>3 DEF Next, vars, stateVars, Server, Subscriber, Caller, Continue,
     Connect, Disconnect, HandleNotification, Subscribe, StreamBreak, Cleanup

\* All invariants hold in every reachable state.
LEMMA CoherentInvariant ==
  ASSUME Ops \subseteq SharingOps
  PROVE  Spec => []CoherentInv
<1>1. Init => FlushDataOK
  BY DEF Init, StateInit, FlushDataOK, FlushingPC, Idle
<1>2. KnownInv /\ FlushDataOK /\ [Next]_vars => FlushDataOK'
  BY FlushDataNext
<1>3. Spec => []KnownInv
  BY SharingInvariant DEF KnownInv
<1> QED
  BY <1>1, <1>2, <1>3, PTL DEF Spec, CoherentInv

\* The steps of AFS are steps of the abstract cache, or none.
LEMMA CoherentNext ==
  ASSUME Ops \subseteq SharingOps, CoherentInv, TypeOK', [Next]_vars
  PROVE  [CC!Next]_CC!vars
<1>1. CASE UNCHANGED vars
  BY <1>1 DEF vars, stateVars, serverVars, channelVars, clientVars, CC!vars,
     CoherentCopy, Connected, Announced, Storing
<1>2. ASSUME NEW c \in Client,
             \/ Server(c) \/ Subscriber(c) \/ Caller(c)
             \/ Continue(c) \/ Connect(c) \/ Disconnect(c)
      PROVE  [CC!Next]_CC!vars
  BY <1>2, CoherentServer, CoherentClient, CoherentChannel DEF Caller, Continue
<1> QED
  BY <1>1, <1>2 DEF Next

(***************************************************************************)
(* However many clients share files, a clean entry of a connected client   *)
(* for which nothing is announced and no notification was thrown away is   *)
(* a coherent copy: the cache with callbacks implements one in which the   *)
(* server withdraws every copy at the moment a file changes.               *)
(***************************************************************************)
THEOREM CopiesAreCoherent ==
  ASSUME Ops \subseteq SharingOps
  PROVE  Spec => ImplementsCoherentCache
<1>1. Init => CC!Init
  <2> SUFFICES ASSUME Init PROVE CC!Init
    OBVIOUS
  <2>1. disk \in [Path -> Content \cup {None}]
    BY TypeInit DEF TypeOK, ServerTypeOK, Stored
  <2>2. \A c \in Client, p \in Path : CoherentCopy(c, p) = None
    BY DEF Init, StateInit, CoherentCopy
  <2> QED
    BY <2>1, <2>2 DEF CC!Init
<1>2. CoherentInv /\ TypeOK' /\ [Next]_vars => [CC!Next]_CC!vars
  BY CoherentNext
<1>3. CoherentInv => TypeOK
  BY DEF CoherentInv, KnownInv
<1> QED
  BY <1>1, <1>2, <1>3, CoherentInvariant, PTL DEF Spec, ImplementsCoherentCache, CC!Spec

-----------------------------------------------------------------------------
(***************************************************************************)
(* Polite callers.  A client uses a file while it has it open or is about  *)
(* to: nobody else does then, so that nothing is announced to it, and what *)
(* it holds of the file is what the server has.                            *)
(***************************************************************************)
Using(c, p) == IsOpen(c, p) \/ Opening(c, p)

\* Who has used a file is subscribed, or its stream has broken.
SubscribedOK(c) ==
  /\ stream[c] = "up" => c \in subscribers
  /\ stream[c] = "new" => \A p \in Path : ~Cached(c, p) /\ ~Using(c, p)

FlushedIsOpen(c) == op[c].pc \in FlushingPC => IsOpen(c, op[c].path)

AloneOK(c) ==
  \A p \in Path : Using(c, p) =>
    /\ p \notin Range(queue[c])
    /\ \A d \in Client \ {c} : ~Using(d, p)

HasRead(c, p) == At(c, "open_reply") /\ op[c].path = p

UnmissedOK(c) ==
  \A p \in Path : Connected(c) /\ (Cached(c, p) \/ HasRead(c, p)) => p \notin missed[c]

CurrentOK(c) ==
  \A p \in Path : \A v \in Stored : Using(c, p) /\ Holds(c, p, v) => v = disk[p]

PoliteInv ==
  \A c \in Client :
    /\ SubscribedOK(c) /\ FlushedIsOpen(c) /\ AloneOK(c)
    /\ UnmissedOK(c) /\ CurrentOK(c)

-----------------------------------------------------------------------------
(***************************************************************************)
(* The handlers of the server, called by c, and a client d.                *)
(***************************************************************************)
LEMMA UsingServer ==
  ASSUME TypeOK, NEW c \in Client, ShapeOK(c), ServerStep(c),
         NEW d \in Client, NEW p \in Path
  PROVE  /\ UNCHANGED <<cache, local, opened, stream, subscribers>>
         /\ Using(d, p)' => Using(d, p)
<1>1. UNCHANGED <<cache, local, opened>>
  BY ServerFrame
<1>2. UNCHANGED <<stream, subscribers>>
  BY SharingServer DEF GetattrStat, OpenRegister, OpenRead, CloseTruncate,
     CloseWrite, CloseNotify, channelVars, serverVars
<1>3. op'[d].pc = "open_install" => op[d].pc = "open_install"
  <2> USE DEF TypeOK, OpTypeOK, OpRecord, OpFields, Goto, Reply, Becomes
  <2>1. CASE d # c
    BY <2>1, SharingServerCalls
  <2>2. CASE d = c
    <3>1. CASE GetattrStat(c) \/ OpenRegister(c) \/ OpenRead(c)
      BY <2>2, <3>1 DEF GetattrStat, OpenRegister, OpenRead
    <3>2. CASE CloseTruncate(c)
      BY <2>2, <3>2 DEF CloseTruncate
    <3>3. CASE CloseWrite(c) \/ CloseNotify(c)
      BY <2>2, <3>3 DEF CloseWrite, CloseNotify
    <3> QED
      BY <3>1, <3>2, <3>3, SharingServer
  <2> QED
    BY <2>1, <2>2
<1>4. op'[d].path = op[d].path /\ (op'[d].pc \in FillingPC => op[d].pc \in FillingPC)
  BY ServerFrame
<1> QED
  BY <1>1, <1>2, <1>3, <1>4 DEF Using, IsOpen, Opening

\* A handler that changes or announces a file is called by a client that uses
\* it, so by no other than the one that does.
LEMMA StoredByUser ==
  ASSUME NEW c \in Client, FlushedIsOpen(c), op[c].pc \in FlushingPC,
         NEW d \in Client \ {c}, AloneOK(d), NEW p \in Path, Using(d, p)
  PROVE  p # op[c].path
BY DEF FlushedIsOpen, AloneOK, Using

\* What c does at the server disturbs no file that d uses.
LEMMA AloneServer ==
  ASSUME TypeOK, NEW c \in Client, ShapeOK(c), FlushedIsOpen(c), ServerStep(c),
         NEW d \in Client, AloneOK(d)
  PROVE  AloneOK(d)'
<1> SUFFICES ASSUME NEW p \in Path, Using(d, p)
             PROVE  p \notin Range(queue'[d])
  BY UsingServer DEF AloneOK
<1>0. queue[d] \in Seq(Path) /\ p \notin Range(queue[d])
  BY DEF AloneOK, TypeOK, ChannelTypeOK
<1>1. CASE CloseNotify(c)
  <2>1. op[c].path \in Path /\ op[c].pc \in FlushingPC
    BY <1>1, CallPath DEF CloseNotify, At, TypeOK, IsIdle, FlushingPC
  <2>2. \/ queue'[d] = queue[d]
        \/ d # c /\ queue'[d] = Append(queue[d], op[c].path)
    BY <1>1 DEF CloseNotify, Notify
  <2> QED
    BY <1>0, <2>1, <2>2, StoredByUser, RangeOfAppend
<1>2. CASE ~CloseNotify(c)
  <2>1. queue' = queue
    BY <1>2, SharingServer DEF GetattrStat, OpenRegister, OpenRead, CloseTruncate,
       CloseWrite, channelVars
  <2> QED
    BY <1>0, <2>1
<1> QED
  BY <1>1, <1>2

\* A client without a queue has nothing to miss.
LEMMA UnmissedServer ==
  ASSUME TypeOK, NEW c \in Client, ShapeOK(c), ServerStep(c), MissAtServer(c),
         NEW d \in Client, SubscribedOK(d), UnmissedOK(d)
  PROVE  UnmissedOK(d)'
<1> SUFFICES ASSUME NEW p \in Path, Connected(d)', (Cached(d, p) \/ HasRead(d, p))'
             PROVE  p \notin missed'[d]
  BY DEF UnmissedOK
<1>1. Connected(d) /\ (Cached(d, p)' <=> Cached(d, p))
  BY UsingServer DEF Connected, Cached
<1>2. CASE OpenRead(c) /\ d = c /\ p = op[c].path
  BY <1>2 DEF OpenRead, MissAtServer, At
<1>3. CASE ~(OpenRead(c) /\ d = c /\ p = op[c].path)
  <2>1. HasRead(d, p)' => HasRead(d, p)
    <3> USE DEF TypeOK, OpTypeOK, OpRecord, OpFields, Goto, Reply, Becomes, HasRead, At
    <3>1. CASE d # c
      BY <3>1, SharingServerCalls
    <3>2. CASE d = c
      <4>1. CASE GetattrStat(c) \/ OpenRegister(c)
        BY <3>2, <4>1 DEF GetattrStat, OpenRegister
      <4>2. CASE OpenRead(c)
        BY <1>3, <3>2, <4>2 DEF OpenRead
      <4>3. CASE CloseTruncate(c)
        BY <3>2, <4>3 DEF CloseTruncate
      <4>4. CASE CloseWrite(c) \/ CloseNotify(c)
        BY <3>2, <4>4 DEF CloseWrite, CloseNotify
      <4> QED
        BY <4>1, <4>2, <4>3, <4>4, SharingServer
    <3> QED
      BY <3>1, <3>2
  <2>2. p \notin missed[d]
    BY <1>1, <2>1 DEF UnmissedOK
  <2>3. d \in subscribers
    BY <1>1, <2>1 DEF SubscribedOK, Connected, HasRead, At, Using, Opening, FillingPC,
       TypeOK, ChannelTypeOK
  <2> QED
    BY <2>2, <2>3 DEF MissAtServer, Unreached
<1> QED
  BY <1>2, <1>3

\* A file changes only by the close() of the client that uses it.
LEMMA CurrentServer ==
  ASSUME TypeOK, NEW c \in Client, ShapeOK(c), OwnOK(c), FlushedIsOpen(c),
         ServerStep(c), NEW d \in Client, AloneOK(d), CurrentOK(d)
  PROVE  CurrentOK(d)'
<1> SUFFICES ASSUME NEW p \in Path, NEW v \in Stored, Using(d, p), Holds(d, p, v)'
             PROVE  v = disk'[p]
  BY UsingServer DEF CurrentOK
<1>0. /\ op \in [Client -> OpRecord] /\ op[c] \in OpFields
      /\ disk \in [Path -> Stored] /\ cache' = cache /\ local' = local
  BY UsingServer DEF TypeOK, OpTypeOK, OpRecord, ServerTypeOK
<1>1. CASE d # c
  <2>1. Holds(d, p, v)
    <3>1. op'[d] = op[d]
      BY <1>1, SharingServerCalls
    <3> QED
      BY <1>0, <3>1 DEF Holds, At
  <2>2. disk'[p] = disk[p]
    <3>1. CASE CloseTruncate(c) \/ CloseWrite(c)
      <4>1. op[c].pc \in FlushingPC
        BY <3>1 DEF CloseTruncate, CloseWrite, At, FlushingPC
      <4>2. p # op[c].path
        BY <1>1, <4>1, StoredByUser
      <4> QED
        BY <1>0, <3>1, <4>2 DEF CloseTruncate, CloseWrite, ShapeOK
    <3>2. CASE ~(CloseTruncate(c) \/ CloseWrite(c))
      BY <3>2, SharingServer DEF GetattrStat, OpenRegister, OpenRead, CloseNotify,
         serverVars
    <3> QED
      BY <3>1, <3>2
  <2> QED
    BY <2>1, <2>2 DEF CurrentOK
<1>2. CASE d = c
  <2> USE <1>0, <1>2 DEF Goto, Reply, Becomes, OpFields, At
  <2>1. CASE OpenRead(c)
    <3>1. /\ op'[c].pc = "open_reply" /\ op'[c].path = op[c].path
          /\ op'[c].data = disk[op[c].path] /\ disk' = disk
      BY <2>1 DEF OpenRead, serverVars
    <3> QED
      BY <3>1 DEF Holds, CurrentOK
  <2>2. CASE CloseTruncate(c)
    <3>1. /\ op'[c].pc = "close_write" /\ op[c].pc \in FlushingPC
          /\ disk' = [disk EXCEPT ![op[c].path] = Empty]
      BY <2>2 DEF CloseTruncate, FlushingPC
    <3> QED
      BY <3>1 DEF Holds, CurrentOK, OwnOK
  <2>3. CASE CloseWrite(c)
    <3>1. /\ op'[c].pc = "close_notify" /\ op'[c].path = op[c].path
          /\ op'[c].data = op[c].data /\ op[c].pc \in FlushingPC
          /\ op[c].path \in Path
          /\ disk' = [disk EXCEPT ![op[c].path] = op[c].data]
      BY <2>3, NoneAssumption, CallPath DEF CloseWrite, ShapeOK, FlushingPC, TypeOK,
         IsIdle
    <3> QED
      BY <3>1 DEF Holds, CurrentOK, OwnOK
  <2>4. CASE GetattrStat(c) \/ OpenRegister(c) \/ CloseNotify(c)
    <3>1. disk' = disk /\ Holds(c, p, v)
      <4>1. CASE GetattrStat(c)
        BY <4>1 DEF GetattrStat, Holds, serverVars
      <4>2. CASE OpenRegister(c)
        BY <4>2 DEF OpenRegister, Holds
      <4>3. CASE CloseNotify(c)
        BY <4>3 DEF CloseNotify, Holds
      <4> QED
        BY <2>4, <4>1, <4>2, <4>3
    <3> QED
      BY <3>1 DEF CurrentOK
  <2> QED
    BY <2>1, <2>2, <2>3, <2>4, SharingServer
<1> QED
  BY <1>1, <1>2

-----------------------------------------------------------------------------
(***************************************************************************)
(* The client's code: whoever starts to use a file may open it.            *)
(***************************************************************************)
LEMMA UsingClient ==
  ASSUME Ops \subseteq SharingOps, PoliteStep,
         TypeOK, NEW c \in Client, ShapeOK(c), ClientStep(c) \/ CallerStep(c),
         NEW p \in Path, Using(c, p)'
  PROVE  Using(c, p) \/ MayOpen(c, p)
<1>1. CASE Opening(c, p)'
  BY <1>1 DEF PoliteStep, Using
<1>2. CASE IsOpen(c, p)'
  <2> USE DEF IsOpen, Set, Using, TypeOK, ClientTypeOK
  <2>1. CASE ClientStep(c)
    <3>1. CASE OpenInstall(c)
      BY <1>2, <3>1 DEF OpenInstall, Opening, At
    <3>2. CASE GetAttributesReturn(c) \/ OpenReturn(c) \/ CloseReturn(c)
      BY <1>2, <3>2 DEF GetAttributesReturn, OpenReturn, CloseReturn
    <3>3. CASE OpenFailed(c)
      BY <1>2, <3>3 DEF OpenFailed, Detached
    <3> QED
      BY <2>1, <3>1, <3>2, <3>3, SharingClient
  <2>2. CASE CallerStep(c)
    <3> PICK x \in Path : Shares(c, x)
      BY <2>2, SharingCaller
    <3> QED
      BY <1>2 DEF Shares, GetAttributes, OpenMiss, OpenHit, WriteFile, WriteFails,
         Closes, CloseWithoutFlush, CloseFlush, CloseFlushFails, ClosedAgain, clientVars
  <2> QED
    BY <2>1, <2>2
<1> QED
  BY <1>1, <1>2 DEF Using

\* What is cached was cached before, or has been read from the server.
LEMMA CachedClient ==
  ASSUME Ops \subseteq SharingOps,
         TypeOK, NEW c \in Client, ShapeOK(c), ClientStep(c) \/ CallerStep(c),
         NEW p \in Path, Cached(c, p)'
  PROVE  Cached(c, p) \/ HasRead(c, p)
<1> USE DEF Cached, Set, TypeOK, ClientTypeOK
<1>1. CASE ClientStep(c)
  <2>1. CASE OpenReturn(c)
    BY <2>1 DEF OpenReturn, HasRead, At
  <2>2. CASE GetAttributesReturn(c) \/ OpenFailed(c) \/ OpenInstall(c)
    BY <2>2 DEF GetAttributesReturn, OpenFailed, OpenInstall
  <2>3. CASE CloseReturn(c)
    BY <2>3 DEF CloseReturn
  <2> QED
    BY <1>1, <2>1, <2>2, <2>3, SharingClient
<1>2. CASE CallerStep(c)
  <2> PICK x \in Path : Shares(c, x)
    BY <1>2, SharingCaller
  <2>1. CASE WriteFile(c, x)
    <3>1. Cached(c, x) /\ cache' = Set(cache, c, x, "dirty")
      BY <2>1 DEF WriteFile, Usable
    <3> QED
      BY <3>1
  <2>2. CASE ~WriteFile(c, x)
    BY <2>2 DEF Shares, GetAttributes, OpenMiss, OpenHit, WriteFails,
       CloseWithoutFlush, CloseFlush, CloseFlushFails, clientVars
  <2> QED
    BY <2>1, <2>2
<1> QED
  BY <1>1, <1>2

\* close() keeps the file it stores in opened_files.
LEMMA FlushedClient ==
  ASSUME Ops \subseteq SharingOps,
         TypeOK, NEW c \in Client, ShapeOK(c), FlushedIsOpen(c),
         ClientStep(c) \/ CallerStep(c)
  PROVE  FlushedIsOpen(c)'
<1> SUFFICES ASSUME op'[c].pc \in FlushingPC
             PROVE  IsOpen(c, op[c].path)'
  BY DEF FlushedIsOpen
<1>1. op'[c].pc = "close_truncate"
  BY NextCall DEF StartedPC, FlushingPC
<1>2. PICK p \in Path : CloseFlush(c, p) \/ (op' = op /\ IsIdle(c))
  BY <1>1, FlushingStarts
<1>3. CASE CloseFlush(c, p)
  BY <1>3 DEF CloseFlush, ClosedAgain, Becomes, Idle, IsOpen, Set, TypeOK, OpTypeOK,
     ClientTypeOK
<1>4. CASE op' = op /\ IsIdle(c)
  BY <1>1, <1>4 DEF IsIdle
<1> QED
  BY <1>2, <1>3, <1>4

\* A client that may open a file holds it as it is, or not at all: no other
\* client is about to change it, and it has read all it was told.
LEMMA HeldIsCurrent ==
  ASSUME TypeOK, NEW c \in Client, OwnOK(c), ExcusedOK(c), UnmissedOK(c),
         \A d \in Client : FlushedIsOpen(d),
         NEW p \in Path, MayOpen(c, p), NEW v \in Stored, Holds(c, p, v)
  PROVE  v = disk[p]
<1>1. Connected(c) /\ ~Announced(c, p)
  BY DEF MayOpen, Announced, Storing, FlushedIsOpen, FlushingPC, Connected
<1>2. Cached(c, p) \/ HasRead(c, p)
  BY DEF Holds, Cached, HasRead, OwnOK, FlushingPC, At
<1> QED
  BY <1>1, <1>2 DEF UnmissedOK, ExcusedOK

\* The client's own code keeps the invariant.
LEMMA PoliteClient ==
  ASSUME Ops \subseteq SharingOps, PoliteStep, KnownInv, PoliteInv, NEW c \in Client,
         ClientStep(c) \/ CallerStep(c), missed' = missed
  PROVE  PoliteInv'
<1> SUFFICES ASSUME NEW d \in Client
             PROVE  (/\ SubscribedOK(d) /\ FlushedIsOpen(d) /\ AloneOK(d)
                     /\ UnmissedOK(d) /\ CurrentOK(d))'
  BY DEF PoliteInv
<1>0. /\ TypeOK
      /\ \A e \in Client : ShapeOK(e) /\ OwnOK(e) /\ ExcusedOK(e)
      /\ \A e \in Client : /\ SubscribedOK(e) /\ FlushedIsOpen(e) /\ AloneOK(e)
                           /\ UnmissedOK(e) /\ CurrentOK(e)
  BY DEF KnownInv, UnflushedInv, SharingInv, PoliteInv
<1>1. UNCHANGED <<disk, queue, stream, subscribers>>
  BY <1>0, SharingClientFrame DEF serverVars, channelVars
<1>2. \A p \in Path : Using(c, p)' => Using(c, p) \/ MayOpen(c, p)
  BY <1>0, UsingClient
<1>3. \A e \in Client \ {c} :
        /\ cache'[e] = cache[e] /\ local'[e] = local[e] /\ opened'[e] = opened[e]
        /\ op'[e] = op[e]
  BY <1>0, ClientFrame
<1>4. \A e \in Client \ {c}, p \in Path : Using(e, p)' <=> Using(e, p)
  BY <1>3 DEF Using, IsOpen, Opening
<1>5. CASE d # c
  <2>1. AloneOK(d)'
    <3> SUFFICES ASSUME NEW p \in Path, Using(d, p)
                 PROVE  ~Using(c, p)'
      BY <1>0, <1>1, <1>4, <1>5 DEF AloneOK
    <3> QED
      BY <1>0, <1>2, <1>5 DEF AloneOK, MayOpen, Using
  <2>2. SubscribedOK(d)' /\ FlushedIsOpen(d)' /\ UnmissedOK(d)'
    BY <1>0, <1>1, <1>3, <1>4, <1>5 DEF SubscribedOK, FlushedIsOpen, UnmissedOK,
       Connected, Cached, HasRead, IsOpen, At
  <2>3. CurrentOK(d)'
    BY <1>0, <1>1, <1>3, <1>4, <1>5 DEF CurrentOK, Holds, At
  <2> QED
    BY <2>1, <2>2, <2>3
<1>6. CASE d = c
  <2>1. \A p \in Path : Cached(c, p)' => Cached(c, p) \/ HasRead(c, p)
    BY <1>0, CachedClient
  <2>2. \A p \in Path : ~HasRead(c, p)'
    BY <1>0, NextCall DEF HasRead, At, StartedPC
  <2>3. SubscribedOK(c)'
    BY <1>0, <1>1, <1>2, <2>1 DEF SubscribedOK, HasRead, At, Using, Opening,
       FillingPC, MayOpen
  <2>4. FlushedIsOpen(c)'
    BY <1>0, FlushedClient
  <2>5. AloneOK(c)'
    BY <1>0, <1>1, <1>2, <1>4 DEF AloneOK, MayOpen, Using
  <2>6. UnmissedOK(c)'
    BY <1>0, <1>1, <2>1, <2>2 DEF UnmissedOK, Connected
  <2>7. CurrentOK(c)'
    <3> SUFFICES ASSUME NEW p \in Path, NEW v \in Stored, Using(c, p)', Holds(c, p, v)'
                 PROVE  v = disk[p]
      BY <1>1 DEF CurrentOK
    <3>1. Holds(c, p, v)
      BY <1>0, HoldsClient
    <3> QED
      BY <1>0, <1>2, <3>1, HeldIsCurrent DEF CurrentOK
  <2> QED
    BY <1>6, <2>3, <2>4, <2>5, <2>6, <2>7
<1> QED
  BY <1>5, <1>6

-----------------------------------------------------------------------------
(***************************************************************************)
(* The subscriber thread and the stream.                                   *)
(***************************************************************************)

\* A notification of a file that is used is never there to be thrown away.
LEMMA PoliteNotification ==
  ASSUME TypeOK, MissedOK, NEW c \in Client, Subscriber(c), NEW d \in Client,
         SubscribedOK(d), FlushedIsOpen(d), AloneOK(d), UnmissedOK(d), CurrentOK(d)
  PROVE  (/\ SubscribedOK(d) /\ FlushedIsOpen(d) /\ AloneOK(d)
          /\ UnmissedOK(d) /\ CurrentOK(d))'
<1> DEFINE q == Head(queue[c])
<1>1. /\ queue[c] \in Seq(Path) /\ queue[c] # <<>> /\ q \in Path
      /\ queue' = [queue EXCEPT ![c] = Tail(@)]
      /\ UNCHANGED <<disk, stream, subscribers, local, op, opened>>
      /\ IF Dropped(c, q) THEN cache' = cache ELSE cache' = Set(cache, c, q, "none")
      /\ missed' = IF Dropped(c, q) THEN [missed EXCEPT ![c] = @ \cup {q}] ELSE missed
  BY DEF Subscriber, HandleNotification, MissAtClient, TypeOK, ChannelTypeOK, serverVars
<1>2. Range(queue'[d]) \subseteq Range(queue[d]) /\ q \in Range(queue[c])
  BY <1>1, RangeOfTail DEF TypeOK, ChannelTypeOK
<1> HIDE DEF q
<1>3. /\ \A e \in Client, p \in Path : Using(e, p)' <=> Using(e, p)
      /\ \A p \in Path : HasRead(d, p)' <=> HasRead(d, p)
  BY <1>1 DEF Using, IsOpen, Opening, HasRead, At
<1>4. \A p \in Path : cache'[d][p] \in {cache[d][p], "none"}
  <2>1. cache \in [Client -> [Path -> {"none", "clean", "dirty"}]]
    BY DEF TypeOK, ClientTypeOK
  <2>2. cache' = cache \/ cache' = Set(cache, c, q, "none")
    BY <1>1
  <2> QED
    BY <1>1, <2>1, <2>2 DEF Set
<1>5. /\ \A p \in Path : Cached(d, p)' => Cached(d, p)
      /\ \A p \in Path, v \in Stored : Holds(d, p, v)' => Holds(d, p, v)
  BY <1>1, <1>4 DEF Cached, Holds, At
<1>6. UnmissedOK(d)'
  <2> SUFFICES ASSUME NEW p \in Path, Connected(d), Cached(d, p) \/ HasRead(d, p),
                      p \in missed'[d], p \notin missed[d]
               PROVE  FALSE
    BY <1>1, <1>3, <1>5 DEF UnmissedOK, Connected
  <2>1. d = c /\ p = q /\ Dropped(c, q)
    BY <1>1 DEF MissedOK
  <2>2. Using(c, q)
    BY <2>1 DEF Dropped, Using, HasRead, Opening, FillingPC, At
  <2> QED
    BY <1>1, <1>2, <2>1, <2>2 DEF AloneOK
<1> QED
  BY <1>1, <1>2, <1>3, <1>5, <1>6 DEF SubscribedOK, FlushedIsOpen, AloneOK,
     CurrentOK, IsOpen

\* A stream that comes up or breaks changes nothing that is used.
LEMMA PoliteStream ==
  ASSUME TypeOK, NEW c \in Client, Connect(c) \/ Disconnect(c), NEW d \in Client,
         SubscribedOK(d), FlushedIsOpen(d), AloneOK(d), UnmissedOK(d), CurrentOK(d)
  PROVE  (/\ SubscribedOK(d) /\ FlushedIsOpen(d) /\ AloneOK(d)
          /\ UnmissedOK(d) /\ CurrentOK(d))'
<1>0. /\ stream \in [Client -> {"new", "up", "down"}]
      /\ queue \in [Client -> Seq(Path)]
  BY DEF TypeOK, ChannelTypeOK
<1>1. UNCHANGED <<op, cache, local, opened, disk, missed>>
  BY DEF Connect, Disconnect, Subscribe, StreamBreak, Cleanup, clientVars, serverVars
<1>2. Range(queue'[d]) \subseteq Range(queue[d])
  <2>1. CASE StreamBreak(c)
    <3>1. PICK n \in 0..Len(queue[c]) : queue' = [queue EXCEPT ![c] = SubSeq(@, 1, n)]
      BY <2>1 DEF StreamBreak
    <3> QED
      BY <1>0, <3>1, RangeOfPrefix
  <2>2. CASE ~StreamBreak(c)
    BY <2>2 DEF Connect, Disconnect, Subscribe, Cleanup, channelVars
  <2> QED
    BY <2>1, <2>2
<1>3. SubscribedOK(d)' /\ (Connected(d)' => Connected(d))
  <2>1. \A p \in Path : Cached(d, p)' <=> Cached(d, p)
    BY <1>1 DEF Cached
  <2>2. \A p \in Path : Using(d, p)' <=> Using(d, p)
    BY <1>1 DEF Using, IsOpen, Opening
  <2>3. CASE Connect(c)
    BY <1>0, <2>1, <2>2, <2>3 DEF Connect, Subscribe, SubscribedOK, Connected
  <2>4. CASE StreamBreak(c)
    BY <1>0, <2>1, <2>2, <2>4 DEF StreamBreak, serverVars, SubscribedOK, Connected
  <2>5. CASE Cleanup(c)
    BY <1>0, <2>1, <2>2, <2>5 DEF Cleanup, channelVars, SubscribedOK, Connected
  <2> QED
    BY <2>3, <2>4, <2>5 DEF Disconnect
<1> QED
  BY <1>1, <1>2, <1>3 DEF FlushedIsOpen, AloneOK, UnmissedOK, CurrentOK, Using, IsOpen,
     Opening, Cached, HasRead, Holds, At

-----------------------------------------------------------------------------
(***************************************************************************)
(* The invariant holds at first, and every step of polite callers keeps    *)
(* it.                                                                     *)
(***************************************************************************)
LEMMA PoliteInit ==
  ASSUME Init
  PROVE  PoliteInv
BY DEF Init, StateInit, PoliteInv, SubscribedOK, FlushedIsOpen, AloneOK, UnmissedOK,
       CurrentOK, Using, IsOpen, Opening, FillingPC, FlushingPC, Cached, HasRead, At, Idle

\* Every step that polite callers allow keeps it.
LEMMA PoliteNext ==
  ASSUME Ops \subseteq SharingOps, KnownInv, PoliteInv, [Next /\ PoliteStep]_vars
  PROVE  PoliteInv'
<1>0. /\ TypeOK /\ MissedOK
      /\ \A e \in Client : ShapeOK(e) /\ OwnOK(e)
      /\ \A e \in Client : /\ SubscribedOK(e) /\ FlushedIsOpen(e) /\ AloneOK(e)
                           /\ UnmissedOK(e) /\ CurrentOK(e)
  BY DEF KnownInv, UnflushedInv, SharingInv, PoliteInv
<1>1. ASSUME NEW c \in Client, Server(c)
      PROVE  PoliteInv'
  <2> SUFFICES ASSUME NEW d \in Client
               PROVE  (/\ SubscribedOK(d) /\ FlushedIsOpen(d) /\ AloneOK(d)
                       /\ UnmissedOK(d) /\ CurrentOK(d))'
    BY DEF PoliteInv
  <2>1. ServerStep(c) /\ MissAtServer(c)
    BY <1>1 DEF Server
  <2>2. AloneOK(d)' /\ UnmissedOK(d)' /\ CurrentOK(d)'
    BY <1>0, <2>1, AloneServer, UnmissedServer, CurrentServer
  <2>3. SubscribedOK(d)'
    <3>1. \A p \in Path : /\ UNCHANGED <<cache, local, opened, stream, subscribers>>
                          /\ Using(d, p)' => Using(d, p)
      BY <1>0, <2>1, UsingServer
    <3>2. UNCHANGED <<stream, subscribers>>
      BY <1>0, <2>1, SharingServer DEF GetattrStat, OpenRegister, OpenRead, CloseTruncate,
         CloseWrite, CloseNotify, channelVars, serverVars
    <3> QED
      BY <1>0, <3>1, <3>2 DEF SubscribedOK, Cached
  <2>4. FlushedIsOpen(d)'
    BY <1>0, <2>1, ServerFrame DEF FlushedIsOpen, IsOpen
  <2> QED
    BY <2>2, <2>3, <2>4
<1>2. ASSUME NEW c \in Client, Caller(c) \/ Continue(c), PoliteStep
      PROVE  PoliteInv'
  BY <1>2, PoliteClient DEF Caller, Continue
<1>3. ASSUME NEW c \in Client, Subscriber(c)
      PROVE  PoliteInv'
  BY <1>0, <1>3, PoliteNotification DEF PoliteInv
<1>4. ASSUME NEW c \in Client, Connect(c) \/ Disconnect(c)
      PROVE  PoliteInv'
  BY <1>0, <1>4, PoliteStream DEF PoliteInv
<1>5. CASE UNCHANGED vars
  BY <1>5 DEF vars, stateVars, serverVars, channelVars, clientVars, PoliteInv,
     SubscribedOK, FlushedIsOpen, AloneOK, UnmissedOK, CurrentOK, Using, IsOpen, Opening,
     Connected, Cached, HasRead, Holds, At
<1> QED
  BY <1>1, <1>2, <1>3, <1>4, <1>5 DEF Next

\* All invariants hold in every state polite callers reach.
LEMMA PoliteInvariant ==
  ASSUME Ops \subseteq SharingOps
  PROVE  PoliteSpec => [](KnownInv /\ PoliteInv)
<1>1. Init => PoliteInv
  BY PoliteInit
<1>2. KnownInv /\ PoliteInv /\ [Next /\ PoliteStep]_vars => PoliteInv'
  BY PoliteNext
<1>3. [Next /\ PoliteStep]_vars => [Next]_vars
  OBVIOUS
<1>4. Spec => []KnownInv
  BY SharingInvariant DEF KnownInv
<1> QED
  BY <1>1, <1>2, <1>3, <1>4, PTL DEF PoliteSpec, Spec

(***************************************************************************)
(* If a file is opened only when no other client uses it and all that was  *)
(* told about it is read, then what a client reads from an open file that  *)
(* it has not modified is what the server has, also when its stream has    *)
(* broken meanwhile.                                                       *)
(***************************************************************************)
THEOREM PoliteOpenIsCurrent ==
  ASSUME Ops \subseteq SharingOps
  PROVE  PoliteSpec => []OpenIsCurrent
<1>1. KnownInv /\ PoliteInv => OpenIsCurrent
  BY DEF KnownInv, PoliteInv, CurrentOK, OpenIsCurrent, Usable, Using, Holds,
     TypeOK, ClientTypeOK
<1> QED
  BY <1>1, PoliteInvariant, PTL

(***************************************************************************)
(* And no notification about a file that a connected client has in its     *)
(* cache is ever thrown away, nor lost for want of a queue.                *)
(***************************************************************************)
THEOREM PoliteNothingMissed ==
  ASSUME Ops \subseteq SharingOps
  PROVE  PoliteSpec => []NothingMissed
<1>1. PoliteInv => NothingMissed
  BY DEF PoliteInv, UnmissedOK, NothingMissed
<1> QED
  BY <1>1, PoliteInvariant, PTL
=============================================================================
