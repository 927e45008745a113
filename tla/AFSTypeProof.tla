---------------------------- MODULE AFSTypeProof ----------------------------
(***************************************************************************)
(* AFS keeps the types of its variables, for any sets of clients and paths *)
(* and any bound on the contents written.                                  *)
(***************************************************************************)
EXTENDS AFS, TLAPS

-----------------------------------------------------------------------------
(***************************************************************************)
(* The record of a call in progress.                                       *)
(***************************************************************************)
LEMMA CallPath ==
  ASSUME OpTypeOK, NEW c \in Client, ~IsIdle(c)
  PROVE  op[c].path \in Path
BY DEF OpTypeOK, OpRecord, OpFields, IsIdle

\* A rename in progress has a new name.
LEMMA CallTo ==
  ASSUME OpTypeOK, NEW c \in Client, op[c].pc \in RenamePC
  PROVE  op[c].to \in Path
BY DEF OpTypeOK, OpRecord, OpFields

\* The data and the descriptor of a call have their types.
LEMMA CallData ==
  ASSUME OpTypeOK, NEW c \in Client
  PROVE  op[c].data \in Stored /\ op[c].fd \in Path \cup {None}
BY DEF OpTypeOK, OpRecord, OpFields

\* The call of c becomes any well-typed record.
LEMMA BecomesType ==
  ASSUME OpTypeOK, NEW c \in Client, NEW r \in OpRecord, Becomes(c, r)
  PROVE  OpTypeOK'
BY DEF OpTypeOK, Becomes

\* A call that goes on at another step stays well-typed.
LEMMA GotoType ==
  ASSUME OpTypeOK, NEW c \in Client, ~IsIdle(c),
         NEW l \in ServerPC \cup ClientPC,
         l \in RenamePC => op[c].to \in Path,
         Goto(c, l)
  PROVE  OpTypeOK'
<1>1. [op[c] EXCEPT !.pc = l] \in OpRecord
  BY DEF OpTypeOK, OpRecord, OpFields, IsIdle
<1> QED
  BY <1>1, BecomesType DEF Goto

\* A call that goes on with data stays well-typed.
LEMMA ReplyType ==
  ASSUME OpTypeOK, NEW c \in Client, ~IsIdle(c),
         NEW l \in (ServerPC \cup ClientPC) \ RenamePC,
         NEW v \in Stored,
         Reply(c, l, v)
  PROVE  OpTypeOK'
<1>1. [op[c] EXCEPT !.pc = l, !.data = v] \in OpRecord
  BY DEF OpTypeOK, OpRecord, OpFields, IsIdle
<1> QED
  BY <1>1, BecomesType DEF Reply

\* The record of a client without a call is well-typed.
LEMMA IdleType == Idle \in OpRecord
BY DEF Idle, OpRecord, OpFields, RenamePC, Stored, MaxTries

\* A call that returns leaves the records well-typed.
LEMMA ReturnType ==
  ASSUME OpTypeOK, NEW c \in Client, Return(c)
  PROVE  OpTypeOK'
BY IdleType, BecomesType DEF Return

\* A call that starts leaves the records well-typed.
LEMMA CallType ==
  ASSUME OpTypeOK, NEW c \in Client, NEW p \in Path,
         NEW l \in (ServerPC \cup ClientPC) \ RenamePC,
         Call(c, l, p)
  PROVE  OpTypeOK'
<1>1. [Idle EXCEPT !.pc = l, !.path = p] \in OpRecord
  BY IdleType DEF Idle, OpRecord, OpFields
<1> QED
  BY <1>1, BecomesType DEF Call

\* So does a move that carries the descriptors of other calls along.
LEMMA GotoMovingType ==
  ASSUME OpTypeOK, NEW c \in Client, ~IsIdle(c),
         NEW l \in ServerPC, l \in RenamePC => op[c].to \in Path,
         NEW p \in Path, NEW q \in Path \cup {None},
         GotoMoving(c, l, p, q)
  PROVE  OpTypeOK'
<1>1. [op[c] EXCEPT !.pc = l] \in OpRecord
  BY DEF OpTypeOK, OpRecord, OpFields, IsIdle
<1>2. ASSUME NEW d \in Client, At(d, "close_write"), NEW f \in Path \cup {None}
      PROVE  [op[d] EXCEPT !.fd = f] \in OpRecord
  BY <1>2 DEF OpTypeOK, OpRecord, OpFields, At
<1>3. \A d \in Client : op[d] \in OpRecord
  BY DEF OpTypeOK
<1> QED
  BY <1>1, <1>2, <1>3 DEF OpTypeOK, GotoMoving

\* Pushing a notification keeps the queues queues of paths.
LEMMA NotifyType ==
  ASSUME ChannelTypeOK, NEW c \in Client, NEW p \in Path, Notify(c, p)
  PROVE  queue' \in [Client -> Seq(Path)]
BY DEF ChannelTypeOK, Notify

-----------------------------------------------------------------------------
(***************************************************************************)
(* Type correctness.                                                       *)
(***************************************************************************)
LEMMA TypeInit == Init => TypeOK
<1> SUFFICES ASSUME Init PROVE TypeOK
  OBVIOUS
<1>1. 1 \in Content /\ None \in Stored /\ 1 \in Stored
  BY BoundAssumption DEF Content, Stored, Empty
<1>2. ServerTypeOK
  BY <1>1 DEF Init, StateInit, ServerTypeOK
<1>3. ChannelTypeOK
  BY DEF Init, StateInit, ChannelTypeOK
<1>4. ClientTypeOK
  BY <1>1 DEF Init, StateInit, ClientTypeOK, Handle
<1>5. OpTypeOK
  BY IdleType DEF Init, StateInit, OpTypeOK
<1> QED
  BY <1>2, <1>3, <1>4, <1>5 DEF TypeOK

\* Every step of a handler keeps the types.
LEMMA TypeServerStep ==
  ASSUME TypeOK, NEW c \in Client, ServerStep(c)
  PROVE  TypeOK'
<1> USE DEF TypeOK
<1> DEFINE p == op[c].path
           q == op[c].to
<1>0. /\ ~IsIdle(c)
      /\ p \in Path
      /\ op[c].pc \in RenamePC => q \in Path
      /\ Empty \in Stored
      /\ disk[p] \in Stored
  <2>1. ~IsIdle(c)
    BY DEF IsIdle, ServerStep, GetattrStat, OpenRegister, OpenRead, CloseTruncate,
           CloseWrite, CloseNotify, RenameMove, RenameNotify, RenameSelfLock,
           UnlinkRemove, UnlinkNotify, At
  <2>2. Empty \in Stored
    BY BoundAssumption DEF Empty, Stored, Content
  <2> QED
    BY <2>1, <2>2, CallPath, CallTo DEF ServerTypeOK
<1>1. CASE GetattrStat(c)
  <2>1. OpTypeOK'
    BY <1>0, <1>1, ReplyType DEF GetattrStat, ServerPC, ClientPC, RenamePC
  <2> QED
    BY <1>1, <2>1 DEF GetattrStat, serverVars, channelVars, clientVars,
                      ServerTypeOK, ChannelTypeOK, ClientTypeOK
<1>2. CASE OpenRegister(c)
  <2>1. OpTypeOK'
    BY <1>0, <1>2, GotoType DEF OpenRegister, ServerPC, ClientPC, RenamePC
  <2> QED
    BY <1>0, <1>2, <2>1 DEF OpenRegister, channelVars, clientVars,
                            ServerTypeOK, ChannelTypeOK, ClientTypeOK
<1>3. CASE OpenRead(c)
  <2>1. OpTypeOK'
    BY <1>0, <1>3, ReplyType DEF OpenRead, ServerPC, ClientPC, RenamePC
  <2> QED
    BY <1>3, <2>1 DEF OpenRead, serverVars, channelVars, clientVars,
                      ServerTypeOK, ChannelTypeOK, ClientTypeOK
<1>4. CASE CloseTruncate(c)
  <2>1. [op[c] EXCEPT !.pc = "close_write", !.fd = p] \in OpRecord
    BY <1>0 DEF OpTypeOK, OpRecord, OpFields, ServerPC, RenamePC
  <2>2. OpTypeOK'
    BY <1>4, <2>1, BecomesType DEF CloseTruncate
  <2> QED
    BY <1>0, <1>4, <2>2 DEF CloseTruncate, channelVars, clientVars,
                            ServerTypeOK, ChannelTypeOK, ClientTypeOK
<1>5. CASE CloseWrite(c)
  <2>1. OpTypeOK'
    BY <1>0, <1>5, GotoType DEF CloseWrite, ServerPC, ClientPC, RenamePC
  <2>2. disk' \in [Path -> Stored]
    BY <1>5, CallData DEF CloseWrite, ServerTypeOK
  <2> QED
    BY <1>5, <2>1, <2>2 DEF CloseWrite, channelVars, clientVars,
                            ServerTypeOK, ChannelTypeOK, ClientTypeOK
<1>6. CASE CloseNotify(c)
  <2>1. OpTypeOK'
    BY <1>0, <1>6, GotoType DEF CloseNotify, ServerPC, ClientPC, RenamePC
  <2>2. queue' \in [Client -> Seq(Path)]
    BY <1>0, <1>6, NotifyType DEF CloseNotify
  <2> QED
    BY <1>0, <1>6, <2>1, <2>2 DEF CloseNotify, clientVars,
                                  ServerTypeOK, ChannelTypeOK, ClientTypeOK
<1>7. CASE RenameMove(c)
  <2>1. q \in Path
    BY <1>0, <1>7 DEF RenameMove, At, RenamePC
  <2>2. OpTypeOK'
    BY <1>0, <1>7, <2>1, GotoType, GotoMovingType
       DEF RenameMove, ServerPC, ClientPC, RenamePC
  <2>3. disk' \in [Path -> Stored]
    BY <1>0, <1>7, <2>1 DEF RenameMove, ServerTypeOK, Stored
  <2> QED
    BY <1>7, <2>2, <2>3 DEF RenameMove, channelVars, clientVars,
                            ServerTypeOK, ChannelTypeOK, ClientTypeOK
<1>8. CASE RenameNotify(c)
  <2>1. q \in Path
    BY <1>0, <1>8 DEF RenameNotify, At, RenamePC
  <2>2. OpTypeOK'
    BY <1>0, <1>8, <2>1, GotoType DEF RenameNotify, ServerPC, ClientPC, RenamePC
  <2>3. queue' \in [Client -> Seq(Path)]
    BY <1>0, <1>8, NotifyType DEF RenameNotify
  <2> QED
    BY <1>0, <1>8, <2>1, <2>2, <2>3
       DEF RenameNotify, clientVars, Registered,
           ServerTypeOK, ChannelTypeOK, ClientTypeOK
<1>9. CASE RenameSelfLock(c)
  <2>1. q \in Path
    BY <1>0, <1>9 DEF RenameSelfLock, At, RenamePC
  <2>2. OpTypeOK'
    BY <1>0, <1>9, <2>1, GotoType DEF RenameSelfLock, ServerPC, ClientPC, RenamePC
  <2> QED
    BY <1>9, <2>2 DEF RenameSelfLock, channelVars, clientVars,
                      ServerTypeOK, ChannelTypeOK, ClientTypeOK
<1>10. CASE UnlinkRemove(c)
  <2>1. OpTypeOK'
    BY <1>0, <1>10, GotoType, GotoMovingType
       DEF UnlinkRemove, ServerPC, ClientPC, RenamePC
  <2>2. disk' \in [Path -> Stored]
    BY <1>0, <1>10 DEF UnlinkRemove, ServerTypeOK, Stored
  <2> QED
    BY <1>10, <2>1, <2>2 DEF UnlinkRemove, channelVars, clientVars,
                             ServerTypeOK, ChannelTypeOK, ClientTypeOK
<1>11. CASE UnlinkNotify(c)
  <2>1. OpTypeOK'
    BY <1>0, <1>11, GotoType DEF UnlinkNotify, ServerPC, ClientPC, RenamePC
  <2>2. queue' \in [Client -> Seq(Path)]
    BY <1>0, <1>11, NotifyType DEF UnlinkNotify
  <2> QED
    BY <1>0, <1>11, <2>1, <2>2 DEF UnlinkNotify, clientVars,
                                   ServerTypeOK, ChannelTypeOK, ClientTypeOK
<1> QED
  BY <1>1, <1>2, <1>3, <1>4, <1>5, <1>6, <1>7, <1>8, <1>9, <1>10, <1>11
     DEF ServerStep

\* Renaming a key, setting the size and setting one value keep the types
\* of the maps of a client.
LEMMA MoveKeyType ==
  ASSUME NEW S, NEW m \in [Path -> S], NEW p \in Path, NEW q \in Path, NEW absent \in S
  PROVE  MoveKey(m, p, q, absent) \in [Path -> S]
BY DEF MoveKey

\* The attributes after they took the size of the local file.
LEMMA SyncAttrType ==
  ASSUME ClientTypeOK, NEW c \in Client, NEW p \in Path, NEW v \in Stored,
         SyncAttr(c, p, v)
  PROVE  cached_attr' \in [Client -> [Path -> Stored]]
BY DEF ClientTypeOK, SyncAttr, Set

\* A map of a client after one assignment.
LEMMA SetType ==
  ASSUME NEW S, NEW f \in [Client -> [Path -> S]], NEW c \in Client, NEW p \in Path,
         NEW v \in S
  PROVE  Set(f, c, p, v) \in [Client -> [Path -> S]]
BY DEF Set

\* The mutex map of c gains or loses the key p.
LEMMA MutexType ==
  ASSUME ClientTypeOK, NEW c \in Client, NEW p \in Path
  PROVE  /\ [mutexes EXCEPT ![c] = @ \cup {p}] \in [Client -> SUBSET Path]
         /\ [mutexes EXCEPT ![c] = @ \ {p}] \in [Client -> SUBSET Path]
BY DEF ClientTypeOK

\* The constants that appear in client steps.
LEMMA ConstantTypes ==
  /\ Empty \in Content /\ Empty \in Stored /\ None \in Stored
  /\ \A n \in Content : n < MaxContent => n + 1 \in Content /\ n + 1 \in Stored
  /\ "open" \in Handle /\ "closed" \in Handle /\ "no" \in Handle
  /\ \A h \in Handle : Detached(h) \in Handle /\ ClosedAgain(h) \in Handle
BY BoundAssumption DEF Empty, Content, Stored, Handle, Detached, ClosedAgain

\* Every step by which a client goes on with its operation keeps the types.
LEMMA TypeClientStep ==
  ASSUME TypeOK, NEW c \in Client, ClientStep(c)
  PROVE  TypeOK'
<1> USE DEF TypeOK
<1> DEFINE p == op[c].path
           q == op[c].to
<1>0. /\ ~IsIdle(c)
      /\ p \in Path
      /\ op[c].pc \in RenamePC => q \in Path
      /\ op[c].data \in Stored
  <2>1. ~IsIdle(c)
    BY DEF IsIdle, ClientStep, GetAttributesReturn, OpenReturn, OpenFailed, OpenInstall,
           CreateInstall, CloseReturn, RenameMaps, RenameReturn, DeleteReturn, At
  <2> QED
    BY <2>1, CallPath, CallTo, CallData
<1>1. CASE GetAttributesReturn(c)
  <2>1. OpTypeOK'
    BY <1>1, ReturnType DEF GetAttributesReturn
  <2>2. cached_attr' \in [Client -> [Path -> Stored]]
    BY <1>0, <1>1, SetType DEF GetAttributesReturn, ClientTypeOK
  <2> QED
    BY <1>1, <2>1, <2>2 DEF GetAttributesReturn, serverVars, channelVars,
                            ServerTypeOK, ChannelTypeOK, ClientTypeOK
<1>2. CASE OpenReturn(c)
  <2>1. OpTypeOK'
    BY <1>0, <1>2, GotoType DEF OpenReturn, ServerPC, ClientPC, RenamePC
  <2>2. cached_attr' \in [Client -> [Path -> Stored]]
    BY <1>0, <1>2, SyncAttrType DEF OpenReturn
  <2>3. /\ local' \in [Client -> [Path -> Stored]]
        /\ cache' \in [Client -> [Path -> {"none", "clean", "dirty"}]]
    BY <1>0, <1>2, SetType DEF OpenReturn, ClientTypeOK
  <2> QED
    BY <1>2, <2>1, <2>2, <2>3 DEF OpenReturn, serverVars, channelVars,
                                  ServerTypeOK, ChannelTypeOK, ClientTypeOK
<1>3. CASE OpenFailed(c)
  <2> DEFINE tries == op[c].tries + 1
  <2>1. cached_attr' \in [Client -> [Path -> Stored]]
    BY <1>0, <1>3, SyncAttrType, ConstantTypes DEF OpenFailed
  <2>2. CASE tries < MaxTries
    <3>0. op[c] \in OpRecord /\ tries \in 0..MaxTries
      BY <2>2 DEF OpTypeOK, OpRecord, OpFields, MaxTries
    <3> HIDE DEF tries
    <3>1. [op[c] EXCEPT !.pc = "open_register", !.tries = tries] \in OpRecord
      BY <1>0, <3>0 DEF OpRecord, OpFields, ServerPC, RenamePC
    <3> USE DEF tries
    <3>2. OpTypeOK'
      BY <1>3, <2>2, <3>1, BecomesType DEF OpenFailed
    <3> QED
      BY <1>3, <2>1, <2>2, <3>2 DEF OpenFailed, serverVars, channelVars,
                                    ServerTypeOK, ChannelTypeOK, ClientTypeOK
  <2>3. CASE ~(tries < MaxTries)
    <3>0. /\ Return(c)
          /\ local' = Set(local, c, p, None)
          /\ opened' = Set(opened, c, p, Detached(opened[c][p]))
      BY <1>3, <2>3 DEF OpenFailed
    <3>1. OpTypeOK'
      BY <3>0, ReturnType
    <3>2. local' \in [Client -> [Path -> Stored]]
      BY <1>0, <3>0, SetType, ConstantTypes DEF ClientTypeOK
    <3>3. opened' \in [Client -> [Path -> Handle]]
      <4>1. Detached(opened[c][p]) \in Handle
        BY <1>0, ConstantTypes DEF ClientTypeOK
      <4> QED
        BY <1>0, <3>0, <4>1, SetType DEF ClientTypeOK
    <3> QED
      BY <1>3, <2>1, <3>1, <3>2, <3>3 DEF OpenFailed, serverVars, channelVars,
                                          ServerTypeOK, ChannelTypeOK, ClientTypeOK
  <2> QED
    BY <2>2, <2>3
<1>4. CASE OpenInstall(c)
  <2>1. OpTypeOK'
    BY <1>4, ReturnType DEF OpenInstall
  <2>2. opened' \in [Client -> [Path -> Handle]]
    BY <1>0, <1>4, SetType, ConstantTypes DEF OpenInstall, ClientTypeOK
  <2>3. mutexes' \in [Client -> SUBSET Path]
    BY <1>0, <1>4, MutexType DEF OpenInstall
  <2> QED
    BY <1>4, <2>1, <2>2, <2>3 DEF OpenInstall, serverVars, channelVars,
                                  ServerTypeOK, ChannelTypeOK, ClientTypeOK
<1>5. CASE CreateInstall(c)
  <2>1. OpTypeOK'
    BY <1>5, ReturnType DEF CreateInstall
  <2>2. opened' \in [Client -> [Path -> Handle]]
    BY <1>0, <1>5, SetType, ConstantTypes DEF CreateInstall, ClientTypeOK
  <2>3. cached_attr' \in [Client -> [Path -> Stored]]
    BY <1>0, <1>5, SetType, ConstantTypes DEF CreateInstall, ClientTypeOK
  <2>4. mutexes' \in [Client -> SUBSET Path]
    BY <1>0, <1>5, MutexType DEF CreateInstall
  <2> QED
    BY <1>5, <2>1, <2>2, <2>3, <2>4 DEF CreateInstall, serverVars, channelVars,
                                        ServerTypeOK, ChannelTypeOK, ClientTypeOK
<1>6. CASE CloseReturn(c)
  <2>1. OpTypeOK'
    BY <1>6, ReturnType DEF CloseReturn
  <2>2. opened' \in [Client -> [Path -> Handle]]
    BY <1>0, <1>6, SetType, ConstantTypes DEF CloseReturn, ClientTypeOK
  <2>3. cache' \in [Client -> [Path -> {"none", "clean", "dirty"}]]
    BY <1>0, <1>6, SetType DEF CloseReturn, ClientTypeOK
  <2>4. cached_attr' \in [Client -> [Path -> Stored]]
    BY <1>0, <1>6, SyncAttrType DEF CloseReturn, ClientTypeOK
  <2>5. mutexes' \in [Client -> SUBSET Path]
    BY <1>0, <1>6, MutexType DEF CloseReturn
  <2> QED
    BY <1>6, <2>1, <2>2, <2>3, <2>4, <2>5
       DEF CloseReturn, serverVars, channelVars,
           ServerTypeOK, ChannelTypeOK, ClientTypeOK
<1>7. CASE RenameMaps(c)
  <2>1. q \in Path
    BY <1>0, <1>7 DEF RenameMaps, At, RenamePC
  <2>2. OpTypeOK'
    BY <1>0, <1>7, <2>1, GotoType DEF RenameMaps, ServerPC, ClientPC
  <2>3. cache' \in [Client -> [Path -> {"none", "clean", "dirty"}]]
    <3>1. MoveKey(cache[c], p, q, "none") \in [Path -> {"none", "clean", "dirty"}]
      BY <1>0, <2>1, MoveKeyType DEF ClientTypeOK
    <3> QED
      BY <1>7, <3>1 DEF RenameMaps, ClientTypeOK
  <2>4. opened' \in [Client -> [Path -> Handle]]
    <3>1. MoveKey(opened[c], p, q, "no") \in [Path -> Handle]
      BY <1>0, <2>1, MoveKeyType, ConstantTypes DEF ClientTypeOK
    <3> QED
      BY <1>7, <3>1 DEF RenameMaps, ClientTypeOK
  <2>5. cached_attr' \in [Client -> [Path -> Stored]]
    <3>1. MoveKey(cached_attr[c], p, q, None) \in [Path -> Stored]
      BY <1>0, <2>1, MoveKeyType, ConstantTypes DEF ClientTypeOK
    <3> QED
      BY <1>7, <3>1 DEF RenameMaps, ClientTypeOK
  <2> QED
    BY <1>7, <2>2, <2>3, <2>4, <2>5 DEF RenameMaps, serverVars, channelVars,
                                        ServerTypeOK, ChannelTypeOK, ClientTypeOK
<1>8. CASE RenameReturn(c)
  <2>1. OpTypeOK'
    BY <1>8, ReturnType DEF RenameReturn
  <2> QED
    BY <1>8, <2>1 DEF RenameReturn, serverVars, channelVars, clientVars,
                      ServerTypeOK, ChannelTypeOK, ClientTypeOK
<1>9. CASE DeleteReturn(c)
  <2>1. OpTypeOK'
    BY <1>9, ReturnType DEF DeleteReturn
  <2>2. local' \in [Client -> [Path -> Stored]]
    BY <1>0, <1>9, SetType, ConstantTypes DEF DeleteReturn, ClientTypeOK
  <2> QED
    BY <1>9, <2>1, <2>2 DEF DeleteReturn, serverVars, channelVars,
                            ServerTypeOK, ChannelTypeOK, ClientTypeOK
<1> QED
  BY <1>1, <1>2, <1>3, <1>4, <1>5, <1>6, <1>7, <1>8, <1>9 DEF ClientStep

\* Every operation a caller starts keeps the types.
LEMMA TypeCallerStep ==
  ASSUME TypeOK, NEW c \in Client, CallerStep(c)
  PROVE  TypeOK'
<1> USE DEF TypeOK
<1>0. PICK p \in Path :
        \/ GetAttributes(c, p)
        \/ OpenMiss(c, p) \/ OpenHit(c, p)
        \/ WriteFile(c, p) \/ WriteFails(c, p)
        \/ CreateFile(c, p)
        \/ CloseWithoutFlush(c, p) \/ CloseFlush(c, p) \/ CloseFlushFails(c, p)
        \/ \E q \in Path : RenameFile(c, p, q)
        \/ DeleteFile(c, p)
        \/ TruncateFile(c, p)
  BY DEF CallerStep
<1>1. CASE GetAttributes(c, p)
  <2>1. OpTypeOK'
    BY <1>1, CallType DEF GetAttributes, ServerPC, ClientPC, RenamePC
  <2> QED
    BY <1>1, <2>1 DEF GetAttributes, serverVars, channelVars, clientVars,
                      ServerTypeOK, ChannelTypeOK, ClientTypeOK
<1>2. CASE OpenMiss(c, p)
  <2>1. OpTypeOK'
    BY <1>2, CallType DEF OpenMiss, ServerPC, ClientPC, RenamePC
  <2>2. local' \in [Client -> [Path -> Stored]]
    BY <1>2, SetType, ConstantTypes DEF OpenMiss, ClientTypeOK
  <2> QED
    BY <1>2, <2>1, <2>2 DEF OpenMiss, serverVars, channelVars,
                            ServerTypeOK, ChannelTypeOK, ClientTypeOK
<1>3. CASE OpenHit(c, p)
  <2>1. OpTypeOK'
    BY <1>3, CallType DEF OpenHit, ServerPC, ClientPC, RenamePC
  <2> QED
    BY <1>3, <2>1 DEF OpenHit, serverVars, channelVars, clientVars,
                      ServerTypeOK, ChannelTypeOK, ClientTypeOK
<1>4. CASE WriteFile(c, p)
  <2>1. written' \in Content /\ written' \in Stored
    BY <1>4, ConstantTypes DEF WriteFile, ClientTypeOK
  <2>2. local' \in [Client -> [Path -> Stored]]
    BY <1>4, <2>1, SetType DEF WriteFile, ClientTypeOK
  <2>3. cache' \in [Client -> [Path -> {"none", "clean", "dirty"}]]
    BY <1>4, SetType DEF WriteFile, ClientTypeOK
  <2>4. local'[c][p] \in Stored
    BY <2>2
  <2>5. cached_attr' \in [Client -> [Path -> Stored]]
    BY <1>4, <2>4, SyncAttrType DEF WriteFile
  <2> QED
    BY <1>4, <2>1, <2>2, <2>3, <2>5
       DEF WriteFile, serverVars, channelVars,
           ServerTypeOK, ChannelTypeOK, ClientTypeOK, OpTypeOK
<1>5. CASE CreateFile(c, p)
  <2>1. OpTypeOK'
    BY <1>5, CallType DEF CreateFile, ServerPC, ClientPC, RenamePC
  <2>2. local' \in [Client -> [Path -> Stored]]
    BY <1>5, SetType, ConstantTypes DEF CreateFile, ClientTypeOK
  <2>3. cache' \in [Client -> [Path -> {"none", "clean", "dirty"}]]
    BY <1>5, SetType DEF CreateFile, ClientTypeOK
  <2> QED
    BY <1>5, <2>1, <2>2, <2>3 DEF CreateFile, serverVars, channelVars,
                                  ServerTypeOK, ChannelTypeOK, ClientTypeOK
<1>6. CASE CloseWithoutFlush(c, p)
  <2>1. opened' \in [Client -> [Path -> Handle]]
    BY <1>6, SetType, ConstantTypes DEF CloseWithoutFlush, ClientTypeOK
  <2>2. mutexes' \in [Client -> SUBSET Path]
    BY <1>6, MutexType DEF CloseWithoutFlush
  <2> QED
    BY <1>6, <2>1, <2>2 DEF CloseWithoutFlush, serverVars, channelVars,
                            ServerTypeOK, ChannelTypeOK, ClientTypeOK, OpTypeOK
<1>7. CASE CloseFlush(c, p)
  <2> DEFINE h == ClosedAgain(opened[c][p])
  <2>0. h \in Handle /\ opened' = Set(opened, c, p, h)
    BY <1>7, ConstantTypes DEF CloseFlush, ClientTypeOK
  <2> HIDE DEF h
  <2>1. opened' \in [Client -> [Path -> Handle]]
    BY <2>0, SetType DEF ClientTypeOK
  <2> DEFINE r == [Idle EXCEPT !.pc = "close_truncate", !.path = p,
                               !.data = local[c][p]]
  <2>2. r \in OpRecord
    <3>1. local[c][p] \in Stored
      BY DEF ClientTypeOK
    <3> QED
      BY <3>1, IdleType DEF Idle, OpRecord, OpFields, ServerPC, RenamePC
  <2>3. OpTypeOK'
    BY <1>7, <2>2, BecomesType DEF CloseFlush
  <2> QED
    BY <1>7, <2>1, <2>3 DEF CloseFlush, serverVars, channelVars,
                            ServerTypeOK, ChannelTypeOK, ClientTypeOK
<1>8. CASE CloseFlushFails(c, p)
  <2> DEFINE h == ClosedAgain(opened[c][p])
  <2>0. h \in Handle /\ opened' = Set(opened, c, p, h)
    BY <1>8, ConstantTypes DEF CloseFlushFails, ClientTypeOK
  <2> HIDE DEF h
  <2>1. opened' \in [Client -> [Path -> Handle]]
    BY <2>0, SetType DEF ClientTypeOK
  <2> QED
    BY <1>8, <2>1 DEF CloseFlushFails, serverVars, channelVars,
                      ServerTypeOK, ChannelTypeOK, ClientTypeOK, OpTypeOK
<1>9. ASSUME NEW q \in Path, RenameFile(c, p, q)
      PROVE  TypeOK'
  <2>1. local' \in [Client -> [Path -> Stored]]
    BY <1>9, ConstantTypes DEF RenameFile, ClientTypeOK
  <2>2. Detached(opened[c][q]) \in Handle
    BY ConstantTypes DEF ClientTypeOK
  <2>3. opened' \in [Client -> [Path -> Handle]]
    BY <1>9, <2>2, SetType DEF RenameFile, ClientTypeOK
  <2> DEFINE r == [Idle EXCEPT !.pc = "rename_maps", !.path = p, !.to = q]
  <2>4. r \in OpRecord
    BY IdleType DEF Idle, OpRecord, OpFields, ClientPC, RenamePC
  <2>5. OpTypeOK'
    BY <1>9, <2>4, BecomesType DEF RenameFile
  <2> QED
    BY <1>9, <2>1, <2>3, <2>5 DEF RenameFile, serverVars, channelVars,
                                  ServerTypeOK, ChannelTypeOK, ClientTypeOK
<1>10. CASE DeleteFile(c, p)
  <2>1. OpTypeOK'
    BY <1>10, CallType DEF DeleteFile, ServerPC, ClientPC, RenamePC
  <2>2. opened' \in [Client -> [Path -> Handle]]
    BY <1>10, SetType, ConstantTypes DEF DeleteFile, ClientTypeOK
  <2>3. cache' \in [Client -> [Path -> {"none", "clean", "dirty"}]]
    BY <1>10, SetType DEF DeleteFile, ClientTypeOK
  <2>4. cached_attr' \in [Client -> [Path -> Stored]]
    BY <1>10, SetType, ConstantTypes DEF DeleteFile, ClientTypeOK
  <2>5. mutexes' \in [Client -> SUBSET Path]
    BY <1>10, MutexType DEF DeleteFile
  <2> QED
    BY <1>10, <2>1, <2>2, <2>3, <2>4, <2>5
       DEF DeleteFile, serverVars, channelVars,
           ServerTypeOK, ChannelTypeOK, ClientTypeOK
<1>11. CASE TruncateFile(c, p)
  <2>1. local' \in [Client -> [Path -> Stored]]
    BY <1>11, SetType, ConstantTypes DEF TruncateFile, ClientTypeOK
  <2> QED
    BY <1>11, <2>1 DEF TruncateFile, serverVars, channelVars,
                       ServerTypeOK, ChannelTypeOK, ClientTypeOK, OpTypeOK
<1>12. CASE WriteFails(c, p)
  <2>1. opened' \in [Client -> [Path -> Handle]]
    BY <1>12, SetType, ConstantTypes DEF WriteFails, ClientTypeOK
  <2> QED
    BY <1>12, <2>1 DEF WriteFails, serverVars, channelVars,
                       ServerTypeOK, ChannelTypeOK, ClientTypeOK, OpTypeOK
<1> QED
  BY <1>0, <1>1, <1>2, <1>3, <1>4, <1>5, <1>6, <1>7, <1>8, <1>9, <1>10, <1>11, <1>12

\* A handled notification keeps the types.
LEMMA TypeSubscriber ==
  ASSUME TypeOK, NEW c \in Client, HandleNotification(c)
  PROVE  TypeOK'
<1> USE DEF TypeOK
<1> DEFINE p == Head(queue[c])
<1>1. queue[c] \in Seq(Path) /\ queue[c] # <<>>
  BY DEF HandleNotification, ChannelTypeOK
<1>2. p \in Path /\ Tail(queue[c]) \in Seq(Path)
  BY <1>1
<1>3. queue' \in [Client -> Seq(Path)]
  BY <1>2 DEF HandleNotification, ChannelTypeOK
<1>4. \/ cache' = cache /\ cached_attr' = cached_attr
      \/ cache' = Set(cache, c, p, "none") /\ cached_attr' = Set(cached_attr, c, p, None)
  BY DEF HandleNotification
<1> HIDE DEF p
<1>5. cache' \in [Client -> [Path -> {"none", "clean", "dirty"}]]
  <2>1. Set(cache, c, p, "none") \in [Client -> [Path -> {"none", "clean", "dirty"}]]
    BY <1>2, SetType DEF ClientTypeOK
  <2> QED
    BY <1>4, <2>1 DEF ClientTypeOK
<1>6. cached_attr' \in [Client -> [Path -> Stored]]
  <2>1. Set(cached_attr, c, p, None) \in [Client -> [Path -> Stored]]
    BY <1>2, SetType, ConstantTypes DEF ClientTypeOK
  <2> QED
    BY <1>4, <2>1 DEF ClientTypeOK
<1> QED
  BY <1>3, <1>5, <1>6 DEF HandleNotification, serverVars,
                          ServerTypeOK, ChannelTypeOK, ClientTypeOK, OpTypeOK

\* Subscription, a break of the stream and the cleanup keep the types.
LEMMA TypeStream ==
  ASSUME TypeOK, NEW c \in Client, Subscribe(c) \/ StreamBreak(c) \/ Cleanup(c)
  PROVE  TypeOK'
<1> USE DEF TypeOK, ServerTypeOK, ChannelTypeOK, ClientTypeOK, OpTypeOK
<1>1. CASE Subscribe(c)
  BY <1>1 DEF Subscribe, clientVars
<1>2. CASE StreamBreak(c)
  <2>1. queue[c] \in Seq(Path)
    OBVIOUS
  <2>2. PICK n \in 0..Len(queue[c]) :
               queue' = [queue EXCEPT ![c] = SubSeq(@, 1, n)]
    BY <1>2 DEF StreamBreak
  <2>3. SubSeq(queue[c], 1, n) \in Seq(Path)
    BY <2>1
  <2>4. queue' \in [Client -> Seq(Path)]
    BY <2>2, <2>3
  <2> QED
    BY <1>2, <2>4 DEF StreamBreak, serverVars, clientVars
<1>3. CASE Cleanup(c)
  BY <1>3 DEF Cleanup, channelVars, clientVars
<1> QED
  BY <1>1, <1>2, <1>3

\* Every step keeps the type of every variable.
LEMMA TypeNext ==
  ASSUME TypeOK, [Next]_vars
  PROVE  TypeOK'
<1>1. CASE UNCHANGED vars
  BY <1>1 DEF vars, stateVars, serverVars, channelVars, clientVars, TypeOK,
              ServerTypeOK, ChannelTypeOK, ClientTypeOK, OpTypeOK
<1>2. ASSUME NEW c \in Client,
             \/ Server(c) \/ Subscriber(c) \/ Caller(c)
             \/ Continue(c) \/ Connect(c) \/ Disconnect(c)
      PROVE  TypeOK'
  BY <1>2, TypeServerStep, TypeClientStep, TypeCallerStep, TypeSubscriber, TypeStream
     DEF Server, Subscriber, Caller, Continue, Connect, Disconnect
<1> QED
  BY <1>1, <1>2 DEF Next

(***************************************************************************)
(* Every variable keeps its type; in particular a call in progress always  *)
(* names the file its handlers use.                                        *)
(***************************************************************************)
THEOREM TypeCorrect == Spec => []TypeOK
<1>1. Init => TypeOK
  BY TypeInit
<1>2. TypeOK /\ [Next]_vars => TypeOK'
  BY TypeNext
<1> QED
  BY <1>1, <1>2, PTL DEF Spec

=============================================================================
