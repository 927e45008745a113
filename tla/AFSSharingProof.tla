-------------------------- MODULE AFSSharingProof ---------------------------
(***************************************************************************)
(* The callback protocol keeps its promise to every client that shares     *)
(* files by open, read, write and close: its copy differs from the         *)
(* server's file only while a notification is on its way, or after one was *)
(* thrown away.                                                            *)
(***************************************************************************)
EXTENDS AFSUnflushedProof

(***************************************************************************)
(* The inductive invariant.  CachedIsRegistered is what makes the callback *)
(* of close() reach every copy, CallOwnsEntry (UnflushedInv) what makes    *)
(* the content in a call's request or reply the one its entry will have.   *)
(* ShapeOK says that no create, rename or unlink is in progress, so that   *)
(* close() writes to the file it truncated, and that a queue exists only   *)
(* once the subscription has been received.                                *)
(***************************************************************************)
SharingPC == {"idle", "getattr_stat", "getattr_reply", "open_register",
              "open_read", "open_reply", "open_install", "close_truncate",
              "close_write", "close_notify", "close_reply"}

ShapeOK(c) ==
  /\ op[c].pc \in SharingPC
  /\ At(c, "close_write") => op[c].fd = op[c].path
  /\ stream[c] = "new" => c \notin subscribers

RegisteredOK(c) ==
  \A p \in Path :
    Connected(c) /\ (Cached(c, p) \/ Fetching(c, p)) => c \in file_map[p]

ExcusedOK(c) ==
  \A p \in Path : \A v \in Stored :
    Connected(c) /\ Holds(c, p, v)
      => v = disk[p] \/ Announced(c, p) \/ p \in missed[c]

MissedOK == DOMAIN missed = Client

SharingInv ==
  /\ MissedOK
  /\ \A c \in Client : ShapeOK(c)
  /\ \A c \in Client : RegisteredOK(c)
  /\ \A c \in Client : ExcusedOK(c)

\* What is stated of all clients is this, client by client.
LEMMA SharingInvIs == SharingInv => CachedIsRegistered /\ StaleIsExcused
BY DEF SharingInv, RegisteredOK, ExcusedOK, CachedIsRegistered, StaleIsExcused

-----------------------------------------------------------------------------
(***************************************************************************)
(* The steps there are when files are only shared.                         *)
(***************************************************************************)
LEMMA SharingServer ==
  ASSUME NEW c \in Client, ShapeOK(c), ServerStep(c)
  PROVE  \/ GetattrStat(c) \/ OpenRegister(c) \/ OpenRead(c)
         \/ CloseTruncate(c) \/ CloseWrite(c) \/ CloseNotify(c)
BY DEF ServerStep, ShapeOK, SharingPC, At, RenameMove, RenameNotify,
       RenameSelfLock, UnlinkRemove, UnlinkNotify

\* The steps by which a client goes on with a sharing operation.
LEMMA SharingClient ==
  ASSUME NEW c \in Client, ShapeOK(c), ClientStep(c)
  PROVE  \/ GetAttributesReturn(c) \/ OpenReturn(c) \/ OpenFailed(c)
         \/ OpenInstall(c) \/ CloseReturn(c)
BY DEF ClientStep, ShapeOK, SharingPC, At, CreateInstall, RenameMaps,
       RenameReturn, DeleteReturn

Shares(c, p) ==
  \/ GetAttributes(c, p) \/ OpenMiss(c, p) \/ OpenHit(c, p)
  \/ WriteFile(c, p) \/ WriteFails(c, p) \/ CloseWithoutFlush(c, p)
  \/ CloseFlush(c, p) \/ CloseFlushFails(c, p)

\* The operations a caller may start.
LEMMA SharingCaller ==
  ASSUME Ops \subseteq SharingOps, NEW c \in Client, CallerStep(c)
  PROVE  \E p \in Path : Shares(c, p)
BY DEF Shares, CallerStep, SharingOps, AllOps, Starts, CreateFile, RenameFile, DeleteFile,
       TruncateFile

-----------------------------------------------------------------------------
(***************************************************************************)
(* The queue of a client as a set of paths.                                *)
(***************************************************************************)
LEMMA RangeAppend ==
  ASSUME NEW S, NEW s \in Seq(S), NEW e \in S
  PROVE  Range(s) \cup {e} \subseteq Range(Append(s, e))
<1>1. /\ Append(s, e) \in Seq(S)
      /\ Len(Append(s, e)) = Len(s) + 1
      /\ DOMAIN Append(s, e) = 1..Len(s) + 1
      /\ DOMAIN s = 1..Len(s)
      /\ Append(s, e)[Len(s) + 1] = e
      /\ \A i \in 1..Len(s) : Append(s, e)[i] = s[i]
  OBVIOUS
<1>2. Len(s) \in Nat
  OBVIOUS
<1> QED
  BY <1>1, <1>2 DEF Range

\* Reading a notification removes no other path from the queue.
LEMMA RangeTail ==
  ASSUME NEW S, NEW s \in Seq(S), s # <<>>
  PROVE  Range(s) \ {Head(s)} \subseteq Range(Tail(s))
<1>1. ASSUME NEW i \in DOMAIN s, s[i] # Head(s)
      PROVE  s[i] \in Range(Tail(s))
  <2>1. i - 1 \in 1..(Len(s) - 1) /\ Tail(s)[i - 1] = s[i]
    BY <1>1
  <2>2. DOMAIN Tail(s) = 1..(Len(s) - 1)
    OBVIOUS
  <2> QED
    BY <2>1, <2>2 DEF Range
<1> QED
  BY <1>1 DEF Range

-----------------------------------------------------------------------------
(***************************************************************************)
(* What a step changes, when files are only shared.                        *)
(***************************************************************************)

\* A handler goes on with the call of its own client only.
LEMMA SharingServerCalls ==
  ASSUME TypeOK, NEW c \in Client, ShapeOK(c), ServerStep(c), NEW d \in Client \ {c}
  PROVE  op'[d] = op[d]
BY SharingServer DEF TypeOK, OpTypeOK, Becomes, Goto, Reply, GetattrStat,
   OpenRegister, OpenRead, CloseTruncate, CloseWrite, CloseNotify

\* A client's own code changes nothing of the server's, nor the channel, and
\* no close() is past its truncation while the client's code runs.
LEMMA SharingClientFrame ==
  ASSUME Ops \subseteq SharingOps,
         TypeOK, NEW c \in Client, ShapeOK(c), ClientStep(c) \/ CallerStep(c)
  PROVE  /\ UNCHANGED <<serverVars, channelVars>>
         /\ op[c].pc \notin {"close_write", "close_notify"}
<1>1. CASE ClientStep(c)
  BY <1>1, SharingClient DEF GetAttributesReturn, OpenReturn, OpenFailed,
     OpenInstall, CloseReturn, At
<1>2. CASE CallerStep(c)
  BY <1>2, SharingCaller DEF Shares, GetAttributes, OpenMiss, OpenHit, WriteFile,
     WriteFails, Closes, CloseWithoutFlush, CloseFlush, CloseFlushFails, Starts, IsIdle
<1> QED
  BY <1>1, <1>2

\* Where the client's code leaves a sharing call: at its end or an RPC.
StartedPC == {"idle", "getattr_stat", "open_register", "open_install",
              "close_truncate"}

\* The client's code ends a call or starts one, up to its next RPC.
LEMMA NextCall ==
  ASSUME Ops \subseteq SharingOps,
         TypeOK, NEW c \in Client, ShapeOK(c), ClientStep(c) \/ CallerStep(c)
  PROVE  op'[c].pc \in StartedPC
<1> USE DEF Goto, Becomes, Return, Call, Idle, StartedPC
<1>0. op \in [Client -> OpRecord] /\ op[c] \in OpFields
  BY DEF TypeOK, OpTypeOK, OpRecord
<1> USE <1>0 DEF OpFields
<1>1. CASE ClientStep(c)
  <2>1. CASE OpenFailed(c)
    <3> DEFINE n == op[c].tries + 1
               r == [op[c] EXCEPT !.pc = "open_register", !.tries = n]
    <3>1. Return(c) \/ Becomes(c, r)
      BY <2>1 DEF OpenFailed
    <3> HIDE DEF n
    <3>2. r.pc = "open_register"
      BY Attempt
    <3> HIDE DEF r
    <3> QED
      BY <3>1, <3>2
  <2>2. CASE OpenReturn(c)
    BY <2>2 DEF OpenReturn
  <2>3. CASE GetAttributesReturn(c) \/ OpenInstall(c) \/ CloseReturn(c)
    BY <2>3 DEF GetAttributesReturn, OpenInstall, CloseReturn
  <2> QED
    BY <1>1, <2>1, <2>2, <2>3, SharingClient
<1>2. CASE CallerStep(c)
  <2> PICK p \in Path : Shares(c, p)
    BY <1>2, SharingCaller
  <2>1. CASE GetAttributes(c, p) \/ OpenMiss(c, p) \/ OpenHit(c, p)
    <3>1. CASE GetAttributes(c, p)
      BY <3>1 DEF GetAttributes
    <3>2. CASE OpenMiss(c, p)
      BY <3>2 DEF OpenMiss
    <3>3. CASE OpenHit(c, p)
      BY <3>3 DEF OpenHit
    <3> QED
      BY <2>1, <3>1, <3>2, <3>3
  <2>2. CASE CloseFlush(c, p)
    BY <2>2 DEF CloseFlush
  <2>3. CASE \/ WriteFile(c, p) \/ WriteFails(c, p)
             \/ CloseWithoutFlush(c, p) \/ CloseFlushFails(c, p)
    BY <2>3 DEF WriteFile, WriteFails, Closes, CloseWithoutFlush, CloseFlushFails,
       Starts, IsIdle
  <2> QED
    BY <2>1, <2>2, <2>3 DEF Shares
<1> QED
  BY <1>1, <1>2

-----------------------------------------------------------------------------
(***************************************************************************)
(* The shape of calls and subscriptions.                                   *)
(***************************************************************************)
LEMMA ShapeServer ==
  ASSUME TypeOK, NEW c \in Client, ShapeOK(c), ServerStep(c)
  PROVE  ShapeOK(c)'
<1> USE DEF ShapeOK, SharingPC, At, Goto, Reply, Becomes
<1>0. op \in [Client -> OpRecord] /\ op[c] \in OpFields
  BY DEF TypeOK, OpTypeOK, OpRecord
<1> USE <1>0 DEF OpFields
<1>1. CASE GetattrStat(c)
  BY <1>1 DEF GetattrStat, serverVars, channelVars
<1>2. CASE OpenRegister(c)
  BY <1>2 DEF OpenRegister, channelVars
<1>3. CASE OpenRead(c)
  BY <1>3 DEF OpenRead, serverVars, channelVars
<1>4. CASE CloseTruncate(c)
  BY <1>4 DEF CloseTruncate, channelVars
<1>5. CASE CloseWrite(c)
  BY <1>5 DEF CloseWrite, channelVars
<1>6. CASE CloseNotify(c)
  BY <1>6 DEF CloseNotify
<1> QED
  BY <1>1, <1>2, <1>3, <1>4, <1>5, <1>6, SharingServer

\* A client's own steps keep the shape.
LEMMA ShapeClient ==
  ASSUME Ops \subseteq SharingOps,
         TypeOK, NEW c \in Client, ShapeOK(c), ClientStep(c) \/ CallerStep(c)
  PROVE  ShapeOK(c)'
<1>1. stream' = stream /\ subscribers' = subscribers
  BY SharingClientFrame DEF serverVars, channelVars
<1> QED
  BY <1>1, NextCall DEF ShapeOK, StartedPC, SharingPC, At

-----------------------------------------------------------------------------
(***************************************************************************)
(* Registration.                                                           *)
(***************************************************************************)

\* A client stays registered for what it has, unless a step takes it off.
LEMMA RegisteredFrame ==
  ASSUME NEW d \in Client, RegisteredOK(d), Connected(d)' => Connected(d),
         \A p \in Path :
           /\ Connected(d)' /\ d \in file_map[p] => d \in file_map'[p]
           /\ Cached(d, p)' \/ Fetching(d, p)'
                => Cached(d, p) \/ Fetching(d, p) \/ d \in file_map'[p]
  PROVE  RegisteredOK(d)'
BY DEF RegisteredOK

\* A handler's steps keep every client's registration.
LEMMA RegisteredServer ==
  ASSUME TypeOK, NEW c \in Client, ShapeOK(c), ServerStep(c),
         NEW d \in Client, RegisteredOK(d)
  PROVE  RegisteredOK(d)'
<1>1. cache' = cache /\ stream' = stream
  BY ServerFrame, SharingServer DEF GetattrStat, OpenRegister, OpenRead,
     CloseTruncate, CloseWrite, CloseNotify, channelVars
<1>2. file_map \in [Path -> SUBSET Client]
  BY DEF TypeOK, ServerTypeOK
<1>3. \A p \in Path : file_map[p] \subseteq file_map'[p]
  <2>1. CASE OpenRegister(c) \/ OpenRead(c)
    BY <1>2, <2>1 DEF OpenRegister, OpenRead, serverVars
  <2>2. CASE CloseTruncate(c) \/ CloseWrite(c)
    BY <1>2, <2>2 DEF CloseTruncate, CloseWrite
  <2>3. CASE GetattrStat(c) \/ CloseNotify(c)
    BY <1>2, <2>3 DEF GetattrStat, CloseNotify, serverVars
  <2> QED
    BY <2>1, <2>2, <2>3, SharingServer
<1>4. ASSUME NEW p \in Path, Fetching(d, p)'
      PROVE  Fetching(d, p) \/ d \in file_map'[p]
  <2>1. CASE d # c
    BY <1>4, <2>1, SharingServerCalls DEF Fetching
  <2>2. CASE d = c
    <3> USE DEF Fetching, At, Goto, Reply, Becomes, TypeOK, OpTypeOK, OpRecord, OpFields
    <3>1. CASE OpenRegister(c)
      BY <1>2, <1>4, <2>2, <3>1 DEF OpenRegister
    <3>2. CASE OpenRead(c)
      BY <1>4, <2>2, <3>2 DEF OpenRead
    <3>3. CASE GetattrStat(c)
      BY <1>4, <2>2, <3>3 DEF GetattrStat
    <3>4. CASE CloseTruncate(c)
      BY <1>4, <2>2, <3>4 DEF CloseTruncate
    <3>5. CASE CloseWrite(c)
      BY <1>4, <2>2, <3>5 DEF CloseWrite
    <3>6. CASE CloseNotify(c)
      BY <1>4, <2>2, <3>6 DEF CloseNotify
    <3> QED
      BY <3>1, <3>2, <3>3, <3>4, <3>5, <3>6, SharingServer
  <2> QED
    BY <2>1, <2>2
<1> QED
  BY <1>1, <1>3, <1>4, RegisteredFrame DEF Connected, Cached

\* A client's own steps keep its registration.
LEMMA RegisteredClient ==
  ASSUME Ops \subseteq SharingOps,
         TypeOK, NEW c \in Client, ShapeOK(c), RegisteredOK(c),
         ClientStep(c) \/ CallerStep(c)
  PROVE  RegisteredOK(c)'
<1>1. stream' = stream /\ file_map' = file_map
  BY SharingClientFrame DEF serverVars, channelVars
<1>2. op'[c].pc \notin {"open_read", "open_reply"}
  BY NextCall DEF StartedPC
<1>3. ASSUME NEW x \in Path, Cached(c, x)'
      PROVE  Cached(c, x) \/ Fetching(c, x)
  <2> USE DEF Cached, Set, TypeOK, ClientTypeOK
  <2>1. CASE ClientStep(c)
    <3>1. CASE OpenReturn(c)
      BY <1>3, <3>1 DEF OpenReturn, Fetching, At
    <3>2. CASE GetAttributesReturn(c) \/ OpenFailed(c) \/ OpenInstall(c)
      BY <1>3, <3>2 DEF GetAttributesReturn, OpenFailed, OpenInstall
    <3>3. CASE CloseReturn(c)
      BY <1>3, <3>3 DEF CloseReturn
    <3> QED
      BY <2>1, <3>1, <3>2, <3>3, SharingClient
  <2>2. CASE CallerStep(c)
    <3> PICK p \in Path : Shares(c, p)
      BY <2>2, SharingCaller
    <3>1. CASE WriteFile(c, p)
      <4>1. Cached(c, p) /\ cache' = Set(cache, c, p, "dirty")
        BY <3>1 DEF WriteFile, Usable
      <4> QED
        BY <1>3, <4>1
    <3>2. CASE ~WriteFile(c, p)
      <4>1. cache' = cache
        BY <3>2 DEF Shares, GetAttributes, OpenMiss, OpenHit, WriteFails,
           CloseWithoutFlush, CloseFlush, CloseFlushFails, clientVars
      <4> QED
        BY <1>3, <4>1
    <3> QED
      BY <3>1, <3>2
  <2> QED
    BY <2>1, <2>2
<1>4. ASSUME NEW x \in Path, Fetching(c, x)'
      PROVE  Fetching(c, x)
  BY <1>2, <1>4 DEF Fetching
<1> QED
  BY <1>1, <1>3, <1>4, RegisteredFrame DEF Connected

-----------------------------------------------------------------------------
(***************************************************************************)
(* What a client holds, and what is announced to it.                       *)
(***************************************************************************)

\* An excuse stays one unless the step takes it away.
LEMMA ExcusedFrame ==
  ASSUME NEW d \in Client, ExcusedOK(d), Connected(d)' => Connected(d),
         missed[d] \subseteq missed'[d],
         \A p \in Path :
           /\ disk'[p] = disk[p] \/ Announced(d, p)'
           /\ Announced(d, p) => Announced(d, p)'
           /\ \A v \in Stored : Holds(d, p, v)' => Holds(d, p, v)
  PROVE  ExcusedOK(d)'
BY DEF ExcusedOK

\* A step of c takes no announcement from c itself, as long as it does not
\* read its queue: only others announce something to it.
LEMMA AnnouncedFrame ==
  ASSUME NEW c \in Client, queue'[c] = queue[c],
         \A e \in Client \ {c} : op'[e] = op[e]
  PROVE  \A p \in Path : Announced(c, p)' <=> Announced(c, p)
BY DEF Announced, Storing

\* The client's own code never makes up a content: what an entry has after
\* the reply, the call had before it.
LEMMA HoldsClient ==
  ASSUME Ops \subseteq SharingOps,
         TypeOK, NEW c \in Client, ShapeOK(c), OwnOK(c),
         ClientStep(c) \/ CallerStep(c),
         NEW p \in Path, NEW v \in Stored, Holds(c, p, v)'
  PROVE  Holds(c, p, v)
<1>0. /\ cache \in [Client -> [Path -> {"none", "clean", "dirty"}]]
      /\ local \in [Client -> [Path -> Stored]]
  BY DEF TypeOK, ClientTypeOK
<1>1. cache'[c][p] = "clean" /\ v = local'[c][p]
  BY NextCall DEF Holds, At, StartedPC
<1>2. CASE ClientStep(c)
  <2>1. CASE OpenReturn(c)
    <3>1. /\ At(c, "open_reply") /\ op[c].data # None
          /\ cache' = Set(cache, c, op[c].path, "clean")
          /\ local' = Set(local, c, op[c].path, op[c].data)
      BY <2>1 DEF OpenReturn
    <3> QED
      BY <1>0, <1>1, <3>1 DEF Set, Holds
  <2>2. CASE CloseReturn(c)
    <3>1. /\ At(c, "close_reply") /\ local' = local
          /\ cache' = cache \/ cache' = Set(cache, c, op[c].path, "clean")
      BY <2>2 DEF CloseReturn
    <3>2. local[c][op[c].path] = op[c].data
      BY <3>1 DEF OwnOK, FlushingPC, At
    <3> QED
      BY <1>0, <1>1, <3>1, <3>2 DEF Set, Holds, At
  <2>3. CASE OpenFailed(c)
    <3>1. /\ cache' = cache /\ ~Cached(c, op[c].path)
          /\ local' = local \/ local' = Set(local, c, op[c].path, None)
      BY <2>3 DEF OpenFailed, OwnOK, FillingPC, At
    <3> QED
      BY <1>0, <1>1, <3>1 DEF Set, Holds, Cached
  <2>4. CASE GetAttributesReturn(c) \/ OpenInstall(c)
    BY <1>1, <2>4 DEF GetAttributesReturn, OpenInstall, Holds
  <2> QED
    BY <1>2, <2>1, <2>2, <2>3, <2>4, SharingClient
<1>3. CASE CallerStep(c)
  <2> PICK x \in Path : Shares(c, x)
    BY <1>3, SharingCaller
  <2>1. CASE OpenMiss(c, x)
    <3>1. cache' = cache /\ ~Cached(c, x) /\ local' = Set(local, c, x, Empty)
      BY <2>1 DEF OpenMiss
    <3> QED
      BY <1>0, <1>1, <3>1 DEF Set, Holds, Cached
  <2>2. CASE WriteFile(c, x)
    <3>1. /\ cache' = Set(cache, c, x, "dirty")
          /\ local' = local \/ local' = Set(local, c, x, written')
      BY <2>2 DEF WriteFile
    <3> QED
      BY <1>0, <1>1, <3>1 DEF Set, Holds
  <2>3. CASE ~OpenMiss(c, x) /\ ~WriteFile(c, x)
    <3>1. cache' = cache /\ local' = local
      BY <2>3 DEF Shares, GetAttributes, OpenHit, WriteFails, CloseWithoutFlush,
         CloseFlush, CloseFlushFails, clientVars
    <3> QED
      BY <1>1, <3>1 DEF Holds
  <2> QED
    BY <2>1, <2>2, <2>3
<1> QED
  BY <1>2, <1>3

\* The client's own code does not disturb any copy's excuse.
LEMMA ExcusedClient ==
  ASSUME Ops \subseteq SharingOps,
         TypeOK, NEW c \in Client, ShapeOK(c), OwnOK(c),
         ClientStep(c) \/ CallerStep(c), missed' = missed,
         NEW d \in Client, ExcusedOK(d)
  PROVE  ExcusedOK(d)'
<1>1. UNCHANGED <<disk, queue, stream>>
  BY SharingClientFrame DEF serverVars, channelVars
<1>2. \A e \in Client \ {c} : op'[e] = op[e]
  BY ClientFrame
<1>3. ASSUME NEW p \in Path, NEW v \in Stored, Holds(d, p, v)'
      PROVE  Holds(d, p, v)
  <2>1. CASE d = c
    BY <1>3, <2>1, HoldsClient
  <2>2. CASE d # c
    <3>1. cache'[d] = cache[d] /\ local'[d] = local[d] /\ op'[d] = op[d]
      BY <2>2, ClientFrame
    <3> QED
      BY <1>3, <3>1 DEF Holds, At
  <2> QED
    BY <2>1, <2>2
<1>4. ASSUME NEW p \in Path, Announced(d, p)
      PROVE  Announced(d, p)'
  <2>1. op[c].pc \notin {"close_write", "close_notify"}
    BY SharingClientFrame
  <2> QED
    BY <1>1, <1>2, <1>4, <2>1 DEF Announced, Storing
<1> QED
  BY <1>1, <1>3, <1>4, ExcusedFrame DEF Connected

-----------------------------------------------------------------------------
(***************************************************************************)
(* The handlers, seen from another client d than their caller c.           *)
(***************************************************************************)

\* The callback loop of close() reaches every other registered client, or the
\* client misses the change for good.
LEMMA NotifiedOrMissed ==
  ASSUME TypeOK, NEW c \in Client, CloseNotify(c), MissAtServer(c),
         NEW d \in Client \ {c}, ShapeOK(d), Connected(d), d \in file_map[op[c].path]
  PROVE  op[c].path \in Range(queue'[d]) \/ op[c].path \in missed'[d]
<1>1. op[c].path \in Path
  BY CallPath DEF CloseNotify, At, TypeOK, IsIdle
<1>2. CASE d \in subscribers
  <2>1. stream[d] = "up"
    BY <1>2 DEF ShapeOK, Connected, TypeOK, ChannelTypeOK
  <2>2. queue'[d] = Append(queue[d], op[c].path)
    BY <1>2, <2>1 DEF CloseNotify, Notify, Registered
  <2> QED
    BY <1>1, <2>2, RangeAppend DEF TypeOK, ChannelTypeOK
<1>3. CASE d \notin subscribers
  BY <1>3 DEF MissAtServer, CloseNotify, Unreached, Registered, At
<1> QED
  BY <1>2, <1>3

\* No handler takes anything from a queue.
LEMMA QueueGrows ==
  ASSUME TypeOK, NEW c \in Client, ShapeOK(c), ServerStep(c), NEW d \in Client
  PROVE  Range(queue[d]) \subseteq Range(queue'[d])
<1>1. CASE CloseNotify(c)
  <2>1. op[c].path \in Path
    BY <1>1, CallPath DEF CloseNotify, At, TypeOK, IsIdle
  <2>2. queue'[d] = queue[d] \/ queue'[d] = Append(queue[d], op[c].path)
    BY <1>1 DEF CloseNotify, Notify
  <2> QED
    BY <2>1, <2>2, RangeAppend DEF TypeOK, ChannelTypeOK
<1>2. CASE ~CloseNotify(c)
  <2>1. queue' = queue
    BY <1>2, SharingServer DEF GetattrStat, OpenRegister, OpenRead, CloseTruncate,
       CloseWrite, channelVars
  <2> QED
    BY <2>1
<1> QED
  BY <1>1, <1>2

\* The file changes only while the change is announced to all the others, and
\* the announcement is taken back by the callback only.
LEMMA StoringServer ==
  ASSUME TypeOK, NEW c \in Client, ShapeOK(c), ServerStep(c), NEW p \in Path
  PROVE  /\ disk'[p] = disk[p] \/ Storing(c, p)'
         /\ Storing(c, p) => Storing(c, p)' \/ (CloseNotify(c) /\ p = op[c].path)
<1> USE DEF Storing, At, Goto, Reply, Becomes
<1>0. /\ op \in [Client -> OpRecord] /\ op[c] \in OpFields
      /\ disk \in [Path -> Stored]
  BY DEF TypeOK, OpTypeOK, OpRecord, ServerTypeOK
<1> USE <1>0 DEF OpFields
<1>1. CASE GetattrStat(c)
  BY <1>1 DEF GetattrStat, serverVars
<1>2. CASE OpenRegister(c)
  BY <1>2 DEF OpenRegister
<1>3. CASE OpenRead(c)
  BY <1>3 DEF OpenRead, serverVars
<1>4. CASE CloseTruncate(c)
  BY <1>4 DEF CloseTruncate
<1>5. CASE CloseWrite(c)
  BY <1>5 DEF CloseWrite, ShapeOK
<1>6. CASE CloseNotify(c)
  BY <1>6 DEF CloseNotify
<1> QED
  BY <1>1, <1>2, <1>3, <1>4, <1>5, <1>6, SharingServer

\* A handler's steps keep the other clients' copies excused.
LEMMA ExcusedServerOther ==
  ASSUME TypeOK, NEW c \in Client, ShapeOK(c), ServerStep(c), MissAtServer(c),
         NEW d \in Client \ {c}, ShapeOK(d), OwnOK(d), RegisteredOK(d), ExcusedOK(d)
  PROVE  ExcusedOK(d)'
<1>1. /\ cache' = cache /\ local' = local
      /\ \A e \in Client \ {c} : op'[e] = op[e]
  BY ServerFrame, SharingServerCalls
<1>2. stream' = stream
  BY SharingServer DEF GetattrStat, OpenRegister, OpenRead, CloseTruncate,
     CloseWrite, CloseNotify, channelVars
<1>3. missed[d] \subseteq missed'[d]
  BY DEF MissAtServer
<1>4. \A p \in Path, v \in Stored : Holds(d, p, v)' => Holds(d, p, v)
  BY <1>1 DEF Holds, At
<1> SUFFICES ASSUME NEW p \in Path, NEW v \in Stored,
                    Connected(d), Holds(d, p, v)
             PROVE  v = disk'[p] \/ Announced(d, p)' \/ p \in missed'[d]
  BY <1>2, <1>4 DEF ExcusedOK, Connected
<1>5. v = disk[p] \/ Announced(d, p) \/ p \in missed[d]
  BY DEF ExcusedOK
<1>6. CASE CloseNotify(c) /\ p = op[c].path
  <2>1. Cached(d, p) \/ Fetching(d, p)
    BY DEF Holds, OwnOK, FlushingPC, Fetching, Cached, At
  <2>2. p \in Range(queue'[d]) \/ p \in missed'[d]
    BY <1>6, <2>1, NotifiedOrMissed DEF RegisteredOK
  <2> QED
    BY <2>2 DEF Announced
<1>7. CASE ~(CloseNotify(c) /\ p = op[c].path)
  <2>1. Announced(d, p) => Announced(d, p)'
    BY <1>1, <1>7, QueueGrows, StoringServer DEF Announced, Storing
  <2>2. disk'[p] = disk[p] \/ Announced(d, p)'
    BY StoringServer DEF Announced
  <2> QED
    BY <1>3, <1>5, <2>1, <2>2
<1> QED
  BY <1>6, <1>7

-----------------------------------------------------------------------------
(***************************************************************************)
(* The handlers, seen from their caller.                                   *)
(***************************************************************************)
LEMMA ExcusedServerOwn ==
  ASSUME TypeOK, NEW c \in Client, ShapeOK(c), OwnOK(c), ServerStep(c),
         MissAtServer(c), ExcusedOK(c)
  PROVE  ExcusedOK(c)'
<1>0. /\ op \in [Client -> OpRecord] /\ op[c] \in OpFields
      /\ disk \in [Path -> Stored]
      /\ cache' = cache /\ local' = local
  BY ServerFrame DEF TypeOK, OpTypeOK, OpRecord, ServerTypeOK
<1>1. stream' = stream
  BY SharingServer DEF GetattrStat, OpenRegister, OpenRead, CloseTruncate,
     CloseWrite, CloseNotify, channelVars
<1>2. \A p \in Path : Announced(c, p) => Announced(c, p)'
  BY QueueGrows, SharingServerCalls DEF Announced, Storing
<1> USE <1>0 DEF Goto, Reply, Becomes, OpFields, At
<1>3. CASE OpenRead(c)
  <2> SUFFICES ASSUME NEW p \in Path, NEW v \in Stored,
                      Connected(c), Holds(c, p, v)'
               PROVE  v = disk'[p] \/ Announced(c, p)' \/ p \in missed'[c]
    BY <1>1 DEF ExcusedOK, Connected
  <2>1. /\ op'[c].pc = "open_reply" /\ op'[c].path = op[c].path
        /\ op'[c].data = disk[op[c].path] /\ disk' = disk
        /\ ~Cached(c, op[c].path)
    BY <1>3 DEF OpenRead, serverVars, OwnOK, FillingPC
  <2>2. CASE p = op[c].path
    BY <2>1, <2>2 DEF Holds, Cached
  <2>3. CASE p # op[c].path
    <3>1. Holds(c, p, v)
      BY <2>1, <2>3 DEF Holds
    <3>2. missed[c] \ {op[c].path} \subseteq missed'[c]
      BY DEF MissAtServer
    <3> QED
      BY <1>2, <2>1, <2>3, <3>1, <3>2 DEF ExcusedOK
  <2> QED
    BY <2>2, <2>3
<1>4. CASE CloseWrite(c)
  <2> SUFFICES ASSUME NEW p \in Path, NEW v \in Stored,
                      Connected(c), Holds(c, p, v)'
               PROVE  v = disk'[p] \/ Announced(c, p)' \/ p \in missed'[c]
    BY <1>1 DEF ExcusedOK, Connected
  <2>1. /\ op'[c].pc = "close_notify" /\ op'[c].path = op[c].path
        /\ op'[c].data = op[c].data
        /\ op[c].path \in Path
        /\ disk' = [disk EXCEPT ![op[c].path] = op[c].data]
        /\ cache[c][op[c].path] = "dirty"
    BY <1>4, NoneAssumption, CallPath DEF CloseWrite, ShapeOK, OwnOK, FlushingPC,
       TypeOK, IsIdle
  <2>2. CASE p = op[c].path
    BY <2>1, <2>2 DEF Holds
  <2>3. CASE p # op[c].path
    <3>1. Holds(c, p, v)
      BY <2>1, <2>3 DEF Holds
    <3>2. missed[c] \ {op[c].path} \subseteq missed'[c]
      BY DEF MissAtServer
    <3>3. disk'[p] = disk[p]
      BY <2>1, <2>3
    <3> QED
      BY <1>2, <2>3, <3>1, <3>2, <3>3 DEF ExcusedOK
  <2> QED
    BY <2>2, <2>3
<1>5. CASE CloseTruncate(c)
  <2> SUFFICES ASSUME NEW p \in Path, NEW v \in Stored,
                      Connected(c), Holds(c, p, v)'
               PROVE  v = disk'[p] \/ Announced(c, p)' \/ p \in missed'[c]
    BY <1>1 DEF ExcusedOK, Connected
  <2>1. /\ op'[c].pc = "close_write"
        /\ disk' = [disk EXCEPT ![op[c].path] = Empty]
        /\ cache[c][op[c].path] = "dirty"
    BY <1>5 DEF CloseTruncate, OwnOK, FlushingPC, MissAtServer
  <2>2. cache[c][p] = "clean" /\ v = local[c][p]
    BY <2>1 DEF Holds
  <2>3. disk'[p] = disk[p] /\ missed'[c] = missed[c] /\ Holds(c, p, v)
    BY <1>5, <2>1, <2>2 DEF MissAtServer, CloseTruncate, Holds
  <2> QED
    BY <1>2, <2>3 DEF ExcusedOK
<1>6. CASE GetattrStat(c) \/ OpenRegister(c) \/ CloseNotify(c)
  <2>1. disk' = disk /\ missed[c] \subseteq missed'[c]
    BY <1>6 DEF GetattrStat, OpenRegister, CloseNotify, MissAtServer, serverVars
  <2>2. \A p \in Path, v \in Stored : Holds(c, p, v)' => Holds(c, p, v)
    <3>1. CASE GetattrStat(c)
      BY <3>1 DEF GetattrStat, Holds
    <3>2. CASE OpenRegister(c)
      BY <3>2 DEF OpenRegister, Holds
    <3>3. CASE CloseNotify(c)
      BY <3>3 DEF CloseNotify, Holds
    <3> QED
      BY <1>6, <3>1, <3>2, <3>3
  <2> QED
    BY <1>1, <1>2, <2>1, <2>2, ExcusedFrame DEF Connected
<1> QED
  BY <1>3, <1>4, <1>5, <1>6, SharingServer

-----------------------------------------------------------------------------
(***************************************************************************)
(* The subscriber thread and the stream.                                   *)
(***************************************************************************)

\* A notification that is not thrown away makes the client drop its copy, and
\* one that is thrown away is recorded.
LEMMA ExcusedNotification ==
  ASSUME TypeOK, MissedOK, NEW c \in Client, OwnOK(c), Subscriber(c),
         NEW d \in Client, ExcusedOK(d)
  PROVE  ExcusedOK(d)'
<1> DEFINE q == Head(queue[c])
<1>1. /\ queue[c] \in Seq(Path) /\ queue[c] # <<>> /\ q \in Path
      /\ queue' = [queue EXCEPT ![c] = Tail(@)]
      /\ UNCHANGED <<disk, stream, local, op>>
      /\ IF Dropped(c, q) THEN cache' = cache ELSE cache' = Set(cache, c, q, "none")
      /\ missed' = IF Dropped(c, q) THEN [missed EXCEPT ![c] = @ \cup {q}] ELSE missed
  BY DEF Subscriber, HandleNotification, MissAtClient, TypeOK, ChannelTypeOK, serverVars
<1> HIDE DEF q
<1>2. /\ queue \in [Client -> Seq(Path)]
      /\ cache \in [Client -> [Path -> {"none", "clean", "dirty"}]]
  BY DEF TypeOK, ChannelTypeOK, ClientTypeOK
<1>3. CASE d # c
  <2>1. queue'[d] = queue[d] /\ cache'[d] = cache[d] /\ missed'[d] = missed[d]
    BY <1>1, <1>2, <1>3 DEF Set
  <2> QED
    BY <1>1, <2>1 DEF ExcusedOK, Connected, Holds, Announced, Storing, At
<1>4. CASE d = c
  <2> SUFFICES ASSUME NEW p \in Path, NEW v \in Stored,
                      Connected(c)', Holds(c, p, v)'
               PROVE  v = disk'[p] \/ Announced(c, p)' \/ p \in missed'[c]
    BY <1>4 DEF ExcusedOK
  <2>1. Holds(c, p, v)
    BY <1>1, <1>2 DEF Holds, Set, At
  <2>2. v = disk[p] \/ Announced(c, p) \/ p \in missed[c]
    BY <1>1, <1>4, <2>1 DEF ExcusedOK, Connected
  <2>3. CASE p # q
    <3>1. Announced(c, p) => Announced(c, p)'
      <4>1. Range(queue[c]) \ {q} \subseteq Range(queue'[c])
        BY <1>1, <1>2, RangeTail DEF q
      <4> QED
        BY <1>1, <2>3, <4>1 DEF Announced, Storing
    <3> QED
      BY <1>1, <2>2, <3>1
  <2>4. CASE p = q
    <3>1. Dropped(c, q)
      <4>1. CASE cache'[c][p] = "clean"
        BY <1>1, <1>2, <2>4, <4>1 DEF Set
      <4>2. CASE cache'[c][p] # "clean"
        BY <1>1, <2>4, <4>2 DEF Holds, OwnOK, FillingPC, FlushingPC, Dropped, At
      <4> QED
        BY <4>1, <4>2
    <3> QED
      BY <1>1, <2>4, <3>1 DEF MissedOK
  <2> QED
    BY <2>3, <2>4
<1> QED
  BY <1>3, <1>4

\* No step of the stream takes anything from a client that stays connected.
LEMMA StreamSteps ==
  ASSUME TypeOK, NEW c \in Client, Connect(c) \/ Disconnect(c),
         NEW d \in Client, ShapeOK(d), RegisteredOK(d), ExcusedOK(d)
  PROVE  ShapeOK(d)' /\ RegisteredOK(d)' /\ ExcusedOK(d)'
<1>0. /\ stream \in [Client -> {"new", "up", "down"}]
      /\ file_map \in [Path -> SUBSET Client]
      /\ queue \in [Client -> Seq(Path)]
  BY DEF TypeOK, ChannelTypeOK, ServerTypeOK
<1>1. UNCHANGED <<op, cache, local, disk, missed>>
  BY DEF Connect, Disconnect, Subscribe, StreamBreak, Cleanup, clientVars, serverVars
<1>2. /\ Connected(d)' => /\ Connected(d)
                         /\ queue'[d] = queue[d]
                         /\ \A p \in Path : d \in file_map[p] => d \in file_map'[p]
      /\ stream'[d] = "new" =>
           stream[d] = "new" /\ (d \in subscribers' => d \in subscribers)
  BY <1>0 DEF Connect, Disconnect, Subscribe, StreamBreak, Cleanup, Connected,
     channelVars, serverVars
<1>3. ShapeOK(d)'
  BY <1>1, <1>2 DEF ShapeOK, At
<1>4. RegisteredOK(d)'
  BY <1>1, <1>2 DEF RegisteredOK, Cached, Fetching
<1>5. ExcusedOK(d)'
  BY <1>1, <1>2 DEF ExcusedOK, Holds, Announced, Storing, At
<1> QED
  BY <1>3, <1>4, <1>5

\* Nor does reading a notification concern what is registered.
LEMMA RegisteredNotification ==
  ASSUME TypeOK, NEW c \in Client, HandleNotification(c),
         NEW d \in Client, ShapeOK(d), RegisteredOK(d)
  PROVE  ShapeOK(d)' /\ RegisteredOK(d)'
<1> DEFINE q == Head(queue[c])
<1>1. /\ UNCHANGED <<op, stream, subscribers, file_map>>
      /\ cache' = cache \/ cache' = Set(cache, c, q, "none")
  BY DEF HandleNotification, serverVars
<1> HIDE DEF q
<1>2. \A p \in Path : Cached(d, p)' => Cached(d, p)
  BY <1>1 DEF Cached, Set, TypeOK, ClientTypeOK
<1> QED
  BY <1>1, <1>2 DEF ShapeOK, RegisteredOK, Connected, Fetching, At

-----------------------------------------------------------------------------
(***************************************************************************)
(* The invariant holds at first, and every step keeps it.                  *)
(***************************************************************************)
LEMMA SharingInit ==
  ASSUME Init
  PROVE  SharingInv
BY DEF Init, StateInit, SharingInv, MissedOK, ShapeOK, RegisteredOK, ExcusedOK, Idle,
       SharingPC, Connected, Cached, Fetching, Holds, At

\* The history variable stays a function of the clients.
LEMMA MissedNext ==
  ASSUME MissedOK, [Next]_vars
  PROVE  MissedOK'
BY DEF MissedOK, Next, vars, Server, Subscriber, Caller, Continue, Connect,
       Disconnect, MissAtServer, MissAtClient

\* Every step keeps the invariant.
LEMMA SharingNext ==
  ASSUME Ops \subseteq SharingOps,
         TypeOK, UnflushedInv, SharingInv, [Next]_vars
  PROVE  SharingInv'
<1> SUFFICES ASSUME NEW d \in Client
             PROVE  ShapeOK(d)' /\ RegisteredOK(d)' /\ ExcusedOK(d)'
  BY MissedNext DEF SharingInv
<1>0. /\ MissedOK
      /\ \A c \in Client : ShapeOK(c) /\ RegisteredOK(c) /\ ExcusedOK(c) /\ OwnOK(c)
  BY DEF SharingInv, UnflushedInv
<1>1. ASSUME NEW c \in Client, Server(c)
      PROVE  ShapeOK(d)' /\ RegisteredOK(d)' /\ ExcusedOK(d)'
  <2>1. ServerStep(c) /\ MissAtServer(c)
    BY <1>1 DEF Server
  <2>2. RegisteredOK(d)'
    BY <1>0, <2>1, RegisteredServer
  <2>3. ExcusedOK(d)'
    BY <1>0, <2>1, ExcusedServerOther, ExcusedServerOwn
  <2>4. ShapeOK(d)'
    <3>1. CASE d = c
      BY <1>0, <2>1, <3>1, ShapeServer
    <3>2. CASE d # c
      <4>1. op'[d] = op[d]
        BY <1>0, <2>1, <3>2, SharingServerCalls
      <4>2. stream' = stream /\ subscribers' = subscribers
        BY <1>0, <2>1, SharingServer DEF GetattrStat, OpenRegister, OpenRead,
           CloseTruncate, CloseWrite, CloseNotify, serverVars, channelVars
      <4> QED
        BY <1>0, <4>1, <4>2 DEF ShapeOK, At
    <3> QED
      BY <3>1, <3>2
  <2> QED
    BY <2>2, <2>3, <2>4
<1>2. ASSUME NEW c \in Client, ClientStep(c) \/ CallerStep(c), missed' = missed
      PROVE  ShapeOK(d)' /\ RegisteredOK(d)' /\ ExcusedOK(d)'
  <2>1. ExcusedOK(d)'
    BY <1>0, <1>2, ExcusedClient
  <2>2. CASE d = c
    BY <1>0, <1>2, <2>1, <2>2, ShapeClient, RegisteredClient
  <2>3. CASE d # c
    <3>1. cache'[d] = cache[d] /\ op'[d] = op[d]
      BY <1>2, <2>3, ClientFrame
    <3>2. UNCHANGED <<stream, subscribers, file_map>>
      BY <1>0, <1>2, SharingClientFrame DEF serverVars, channelVars
    <3> QED
      BY <1>0, <2>1, <3>1, <3>2 DEF ShapeOK, RegisteredOK, Connected, Cached, Fetching, At
  <2> QED
    BY <2>2, <2>3
<1>3. ASSUME NEW c \in Client, Subscriber(c)
      PROVE  ShapeOK(d)' /\ RegisteredOK(d)' /\ ExcusedOK(d)'
  BY <1>0, <1>3, RegisteredNotification, ExcusedNotification DEF Subscriber
<1>4. ASSUME NEW c \in Client, Connect(c) \/ Disconnect(c)
      PROVE  ShapeOK(d)' /\ RegisteredOK(d)' /\ ExcusedOK(d)'
  BY <1>0, <1>4, StreamSteps
<1>5. CASE UNCHANGED vars
  BY <1>0, <1>5 DEF vars, stateVars, serverVars, channelVars, clientVars, ShapeOK,
     RegisteredOK, ExcusedOK, Connected, Cached, Fetching, Holds, Announced, Storing, At
<1> QED
  BY <1>1, <1>2, <1>3, <1>4, <1>5 DEF Next, Caller, Continue

\* All invariants hold in every reachable state.
LEMMA SharingInvariant ==
  ASSUME Ops \subseteq SharingOps
  PROVE  Spec => [](TypeOK /\ UnflushedInv /\ SharingInv)
<1>1. Init => SharingInv
  BY SharingInit
<1>2. TypeOK /\ UnflushedInv /\ SharingInv /\ [Next]_vars => SharingInv'
  BY SharingNext
<1> QED
  BY <1>1, <1>2, UnflushedInvariant, PTL DEF Spec

(***************************************************************************)
(* The server's file_map names every connected client that has a file in   *)
(* its cache, or is about to have it, from before the file is read.        *)
(***************************************************************************)
THEOREM RegistrationCovers ==
  ASSUME Ops \subseteq SharingOps
  PROVE  Spec => []CachedIsRegistered
<1>1. SharingInv => CachedIsRegistered
  BY SharingInvIs
<1> QED
  BY <1>1, SharingInvariant, PTL

(***************************************************************************)
(* However many clients open, read, write and close the same files at      *)
(* once, a copy that is not the server's has its invalidation on the way,  *)
(* or had one that was thrown away: none is lost in between.               *)
(***************************************************************************)
THEOREM StaleCopiesAreExcused ==
  ASSUME Ops \subseteq SharingOps
  PROVE  Spec => []StaleIsExcused
<1>1. SharingInv => StaleIsExcused
  BY SharingInvIs
<1> QED
  BY <1>1, SharingInvariant, PTL
=============================================================================
