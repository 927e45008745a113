------------------------- MODULE AFSUnflushedProof --------------------------
(***************************************************************************)
(* No write is thrown away by a notification, whatever operations are used *)
(* by however many clients.                                                *)
(***************************************************************************)
EXTENDS AFSTypeProof

-----------------------------------------------------------------------------
(***************************************************************************)
(* What a step of one client leaves alone.                                 *)
(***************************************************************************)

\* The server's steps change no client's state, and of another client's call
\* at most the descriptor.
LEMMA ServerFrame ==
  ASSUME TypeOK, NEW c \in Client, ServerStep(c), NEW d \in Client
  PROVE  /\ UNCHANGED <<cache, local, opened>>
         /\ op'[d].path = op[d].path
         /\ op'[d].pc \in FlushingPC =>
              op[d].pc \in FlushingPC /\ op'[d].data = op[d].data
         /\ op'[d].pc \in FillingPC => op[d].pc \in FillingPC
         /\ At(d, "create_install") <=> op'[d].pc = "create_install"
<1> USE DEF TypeOK, OpTypeOK, OpRecord, OpFields, At, FlushingPC, FillingPC,
            clientVars, Goto, Reply, Becomes, GotoMoving
<1>1. CASE GetattrStat(c)
  BY <1>1 DEF GetattrStat
<1>2. CASE OpenRegister(c)
  BY <1>2 DEF OpenRegister
<1>3. CASE OpenRead(c)
  BY <1>3 DEF OpenRead
<1>4. CASE CloseTruncate(c)
  BY <1>4 DEF CloseTruncate
<1>5. CASE CloseWrite(c)
  BY <1>5 DEF CloseWrite
<1>6. CASE CloseNotify(c)
  BY <1>6 DEF CloseNotify
<1>7. CASE RenameMove(c)
  BY <1>7 DEF RenameMove
<1>8. CASE RenameNotify(c)
  BY <1>8 DEF RenameNotify
<1>9. CASE RenameSelfLock(c)
  BY <1>9 DEF RenameSelfLock
<1>10. CASE UnlinkRemove(c)
  BY <1>10 DEF UnlinkRemove
<1>11. CASE UnlinkNotify(c)
  BY <1>11 DEF UnlinkNotify
<1> QED
  BY <1>1, <1>2, <1>3, <1>4, <1>5, <1>6, <1>7, <1>8, <1>9, <1>10, <1>11
     DEF ServerStep

\* A client's steps, and those of its subscriber thread, change its own
\* state and call only.
LEMMA ClientFrame ==
  ASSUME TypeOK, NEW c \in Client,
         ClientStep(c) \/ CallerStep(c) \/ HandleNotification(c),
         NEW d \in Client \ {c}
  PROVE  /\ cache'[d] = cache[d] /\ local'[d] = local[d] /\ opened'[d] = opened[d]
         /\ op'[d] = op[d]
<1> USE DEF TypeOK, OpTypeOK, ClientTypeOK, Goto, Reply, Becomes, Return, Call, Set
<1>1. CASE ClientStep(c)
  <2> USE <1>1
  <2>1. CASE GetAttributesReturn(c)
    BY <2>1 DEF GetAttributesReturn
  <2>2. CASE OpenReturn(c)
    BY <2>2 DEF OpenReturn
  <2>3. CASE OpenFailed(c)
    BY <2>3 DEF OpenFailed
  <2>4. CASE OpenInstall(c)
    BY <2>4 DEF OpenInstall
  <2>5. CASE CreateInstall(c)
    BY <2>5 DEF CreateInstall
  <2>6. CASE CloseReturn(c)
    BY <2>6 DEF CloseReturn
  <2>7. CASE RenameMaps(c)
    BY <2>7 DEF RenameMaps
  <2>8. CASE RenameReturn(c)
    BY <2>8 DEF RenameReturn, clientVars
  <2>9. CASE DeleteReturn(c)
    BY <2>9 DEF DeleteReturn
  <2> QED
    BY <2>1, <2>2, <2>3, <2>4, <2>5, <2>6, <2>7, <2>8, <2>9 DEF ClientStep
<1>2. CASE CallerStep(c)
  <2>0. PICK p \in Path :
          \/ GetAttributes(c, p)
          \/ OpenMiss(c, p) \/ OpenHit(c, p)
          \/ WriteFile(c, p) \/ WriteFails(c, p)
          \/ CreateFile(c, p)
          \/ CloseWithoutFlush(c, p) \/ CloseFlush(c, p) \/ CloseFlushFails(c, p)
          \/ \E q \in Path : RenameFile(c, p, q)
          \/ DeleteFile(c, p)
          \/ TruncateFile(c, p)
    BY <1>2 DEF CallerStep
  <2>1. CASE GetAttributes(c, p)
    BY <2>1 DEF GetAttributes, clientVars
  <2>2. CASE OpenMiss(c, p)
    BY <2>2 DEF OpenMiss
  <2>3. CASE OpenHit(c, p)
    BY <2>3 DEF OpenHit, clientVars
  <2>4. CASE WriteFile(c, p)
    BY <2>4 DEF WriteFile
  <2>5. CASE CreateFile(c, p)
    BY <2>5 DEF CreateFile
  <2>6. CASE CloseWithoutFlush(c, p)
    BY <2>6 DEF CloseWithoutFlush
  <2>7. CASE CloseFlush(c, p)
    BY <2>7 DEF CloseFlush
  <2>8. CASE CloseFlushFails(c, p)
    BY <2>8 DEF CloseFlushFails
  <2>9. CASE \E q \in Path : RenameFile(c, p, q)
    BY <2>9 DEF RenameFile
  <2>10. CASE DeleteFile(c, p)
    BY <2>10 DEF DeleteFile
  <2>11. CASE TruncateFile(c, p)
    BY <2>11 DEF TruncateFile
  <2>12. CASE WriteFails(c, p)
    BY <2>12 DEF WriteFails
  <2> QED
    BY <2>0, <2>1, <2>2, <2>3, <2>4, <2>5, <2>6, <2>7, <2>8, <2>9, <2>10, <2>11, <2>12
<1>3. CASE HandleNotification(c)
  BY <1>3 DEF HandleNotification
<1> QED
  BY <1>1, <1>2, <1>3

-----------------------------------------------------------------------------
(***************************************************************************)
(* The inductive invariant, for one client.  The first part alone is not   *)
(* inductive: that a reply finds an entry to cache, or to unmark, as the   *)
(* call left it is what keeps a fill off modified entries.  The last part  *)
(* is what UnflushedSurvives says besides of a file that is being created. *)
(***************************************************************************)
OwnOK(c) ==
  LET p == op[c].path IN
  /\ \A x \in Path : cache[c][x] = "dirty" =>
        IsOpen(c, x) \/ (At(c, "create_install") /\ p = x)
  /\ op[c].pc \in FlushingPC => cache[c][p] = "dirty" /\ local[c][p] = op[c].data
  /\ op[c].pc \in FillingPC => ~Cached(c, p)
  /\ At(c, "create_install") => local[c][p] = Empty

UnflushedInv == \A c \in Client : OwnOK(c)

\* It contains the two invariants, client by client.
LEMMA UnflushedInvIs == UnflushedInv => UnflushedIsOpen /\ CallOwnsEntry
BY DEF UnflushedInv, OwnOK, UnflushedIsOpen, CallOwnsEntry

\* Another client's step does not matter.
LEMMA OwnFrame ==
  ASSUME NEW c \in Client, OwnOK(c),
         cache'[c] = cache[c], local'[c] = local[c], opened'[c] = opened[c],
         op'[c].path = op[c].path,
         op'[c].pc \in FlushingPC => op[c].pc \in FlushingPC /\ op'[c].data = op[c].data,
         op'[c].pc \in FillingPC => op[c].pc \in FillingPC,
         At(c, "create_install") <=> op'[c].pc = "create_install"
  PROVE  OwnOK(c)'
BY DEF OwnOK, IsOpen, Cached, At

\* The record of a further attempt to open is about the same file.
LEMMA Attempt ==
  ASSUME NEW r \in OpFields, NEW n
  PROVE  /\ [r EXCEPT !.pc = "open_register", !.tries = n].pc = "open_register"
         /\ [r EXCEPT !.pc = "open_register", !.tries = n].path = r.path
BY DEF OpFields

\* A continuing operation keeps the invariant of its client.
LEMMA OwnClientStep ==
  ASSUME TypeOK, NEW c \in Client, OwnOK(c), ClientStep(c)
  PROVE  OwnOK(c)'
<1> USE DEF OwnOK, IsOpen, Cached, At, Goto, Reply, Becomes, Return, Idle, Set,
            FlushingPC, FillingPC
<1>0. /\ cache \in [Client -> [Path -> {"none", "clean", "dirty"}]]
      /\ local \in [Client -> [Path -> Stored]]
      /\ opened \in [Client -> [Path -> Handle]]
      /\ op \in [Client -> OpRecord]
      /\ op[c].pc # "idle" => op[c].path \in Path
      /\ op[c].pc \in RenamePC => op[c].to \in Path
      /\ op[c] \in OpFields
  BY DEF TypeOK, ClientTypeOK, OpTypeOK, OpRecord
<1> USE <1>0
<1>1. CASE GetAttributesReturn(c)
  BY <1>1 DEF GetAttributesReturn
<1>2. CASE OpenReturn(c)
  BY <1>2 DEF OpenReturn, OpFields
<1>3. CASE OpenFailed(c)
  <2> DEFINE p == op[c].path
             h == Detached(opened[c][p])
             n == op[c].tries + 1
             r == [op[c] EXCEPT !.pc = "open_register", !.tries = n]
  <2>1. /\ cache' = cache /\ ~Cached(c, p) /\ p \in Path
        /\ ~At(c, "create_install")
        /\ opened' = opened \/ opened' = Set(opened, c, p, h)
        /\ Return(c) \/ Becomes(c, r)
    BY <1>3 DEF OpenFailed
  <2> HIDE DEF n
  <2>5. r.pc = "open_register" /\ r.path = p
    BY <1>0, Attempt
  <2> HIDE DEF r
  <2>2. op'[c].pc = "idle" \/ (op'[c].path = p /\ op'[c].pc = "open_register")
    BY <2>1, <2>5
  <2>3. h = "no" <=> opened[c][p] = "no"
    BY DEF Detached
  <2> HIDE DEF h
  <2>4. \A x \in Path : IsOpen(c, x)' <=> IsOpen(c, x)
    BY <2>1, <2>3
  <2> QED
    BY <2>1, <2>2, <2>4
<1>4. CASE OpenInstall(c)
  BY <1>4 DEF OpenInstall
<1>5. CASE CreateInstall(c)
  BY <1>5 DEF CreateInstall
<1>6. CASE CloseReturn(c)
  BY <1>6 DEF CloseReturn
<1>7. CASE RenameMaps(c)
  BY <1>7 DEF RenameMaps, MoveKey, RenamePC, OpFields
<1>8. CASE RenameReturn(c)
  BY <1>8 DEF RenameReturn, clientVars
<1>9. CASE DeleteReturn(c)
  BY <1>9 DEF DeleteReturn
<1> QED
  BY <1>1, <1>2, <1>3, <1>4, <1>5, <1>6, <1>7, <1>8, <1>9 DEF ClientStep

\* An operation that a caller starts keeps the invariant of its client.
LEMMA OwnCallerStep ==
  ASSUME TypeOK, NEW c \in Client, OwnOK(c), CallerStep(c)
  PROVE  OwnOK(c)'
<1> USE DEF OwnOK, IsOpen, Cached, At, Becomes, Call, Idle, Set, Starts, IsIdle,
            FlushingPC, FillingPC
<1>0. /\ cache \in [Client -> [Path -> {"none", "clean", "dirty"}]]
      /\ local \in [Client -> [Path -> Stored]]
      /\ opened \in [Client -> [Path -> Handle]]
      /\ op \in [Client -> OpRecord]
      /\ op[c] \in OpFields
  BY DEF TypeOK, ClientTypeOK, OpTypeOK, OpRecord
<1> USE <1>0
<1> PICK p \in Path :
        \/ GetAttributes(c, p)
        \/ OpenMiss(c, p) \/ OpenHit(c, p)
        \/ WriteFile(c, p) \/ WriteFails(c, p)
        \/ CreateFile(c, p)
        \/ CloseWithoutFlush(c, p) \/ CloseFlush(c, p) \/ CloseFlushFails(c, p)
        \/ \E q \in Path : RenameFile(c, p, q)
        \/ DeleteFile(c, p)
        \/ TruncateFile(c, p)
  BY DEF CallerStep
<1>1. CASE GetAttributes(c, p)
  BY <1>1 DEF GetAttributes, clientVars
<1>2. CASE OpenMiss(c, p)
  BY <1>2 DEF OpenMiss
<1>3. CASE OpenHit(c, p)
  BY <1>3 DEF OpenHit, clientVars
<1>4. CASE WriteFile(c, p)
  <2>1. /\ op[c].pc = "idle" /\ op' = op /\ opened' = opened
        /\ IsOpen(c, p)
        /\ cache' = Set(cache, c, p, "dirty")
    BY <1>4 DEF WriteFile, Usable
  <2>2. \A x \in Path : cache'[c][x] = "dirty" => x = p \/ cache[c][x] = "dirty"
    BY <2>1
  <2> QED
    BY <2>1, <2>2
<1>5. CASE CreateFile(c, p)
  BY <1>5 DEF CreateFile
<1>6. CASE CloseWithoutFlush(c, p)
  BY <1>6 DEF CloseWithoutFlush, Closes
<1>7. CASE CloseFlush(c, p)
  BY <1>7 DEF CloseFlush, Closes, ClosedAgain
<1>8. CASE CloseFlushFails(c, p)
  BY <1>8 DEF CloseFlushFails, Closes, ClosedAgain
<1>9. CASE \E q \in Path : RenameFile(c, p, q)
  <2> PICK q \in Path : RenameFile(c, p, q)
    BY <1>9
  <2> DEFINE h == Detached(opened[c][q])
  <2>1. /\ cache' = cache /\ op[c].pc = "idle" /\ op'[c].pc = "rename_maps"
        /\ opened' = Set(opened, c, q, h)
    BY DEF RenameFile
  <2>2. h = "no" <=> opened[c][q] = "no"
    BY DEF Detached
  <2> HIDE DEF h
  <2>3. \A x \in Path : IsOpen(c, x)' <=> IsOpen(c, x)
    BY <2>1, <2>2
  <2> QED
    BY <2>1, <2>3
<1>10. CASE DeleteFile(c, p)
  BY <1>10 DEF DeleteFile
<1>11. CASE TruncateFile(c, p)
  BY <1>11 DEF TruncateFile
<1>12. CASE WriteFails(c, p)
  BY <1>12 DEF WriteFails
<1> QED
  BY <1>1, <1>2, <1>3, <1>4, <1>5, <1>6, <1>7, <1>8, <1>9, <1>10, <1>11, <1>12

\* A notification keeps it: it erases nothing that is open, and what a
\* call is flushing is open.
LEMMA OwnNotification ==
  ASSUME TypeOK, NEW c \in Client, OwnOK(c), HandleNotification(c)
  PROVE  OwnOK(c)'
<1> DEFINE p == Head(queue[c])
<1>1. p \in Path /\ (op[c].pc \in FlushingPC => op[c].path \in Path)
  BY CallPath DEF TypeOK, ChannelTypeOK, HandleNotification, FlushingPC, IsIdle
<1>2. /\ op' = op /\ local' = local /\ opened' = opened
      /\ \/ cache' = cache
         \/ ~IsOpen(c, p) /\ cache' = Set(cache, c, p, "none")
  BY DEF HandleNotification, Dropped
<1>3. cache \in [Client -> [Path -> {"none", "clean", "dirty"}]]
  BY DEF TypeOK, ClientTypeOK
<1> HIDE DEF p
<1>4. \A x \in Path : \/ cache'[c][x] = cache[c][x]
                      \/ x = p /\ ~IsOpen(c, p) /\ ~Cached(c, x)'
  BY <1>1, <1>2, <1>3 DEF Set, Cached
<1>5. op[c].pc \in FlushingPC => IsOpen(c, op[c].path)
  BY <1>1 DEF OwnOK, FlushingPC, At
<1>6. op[c].pc \in FillingPC => op[c].path \in Path
  BY CallPath DEF TypeOK, FillingPC, IsIdle
<1> QED
  BY <1>1, <1>2, <1>4, <1>5, <1>6 DEF OwnOK, IsOpen, Cached, At

-----------------------------------------------------------------------------
(***************************************************************************)
(* The invariant holds at first, and every step keeps it.                  *)
(***************************************************************************)
LEMMA UnflushedInit ==
  ASSUME Init
  PROVE  UnflushedInv
BY DEF Init, StateInit, UnflushedInv, OwnOK, Idle, FlushingPC, FillingPC, At

\* Every step, of whichever client, keeps the invariant of every client.
LEMMA UnflushedNext ==
  ASSUME TypeOK, UnflushedInv, [Next]_vars
  PROVE  UnflushedInv'
<1> SUFFICES ASSUME NEW d \in Client
             PROVE  OwnOK(d)'
  BY DEF UnflushedInv
<1>0. OwnOK(d)
  BY DEF UnflushedInv
<1>1. ASSUME UNCHANGED <<cache, local, opened, op>>
      PROVE  OwnOK(d)'
  BY <1>0, <1>1, OwnFrame DEF At
<1>2. ASSUME NEW c \in Client, ServerStep(c)
      PROVE  OwnOK(d)'
  <2>1. /\ UNCHANGED <<cache, local, opened>>
        /\ op'[d].path = op[d].path
        /\ op'[d].pc \in FlushingPC => op[d].pc \in FlushingPC /\ op'[d].data = op[d].data
        /\ op'[d].pc \in FillingPC => op[d].pc \in FillingPC
        /\ At(d, "create_install") <=> op'[d].pc = "create_install"
    BY <1>2, ServerFrame
  <2> QED
    BY <1>0, <2>1, OwnFrame
<1>3. ASSUME NEW c \in Client,
             ClientStep(c) \/ CallerStep(c) \/ HandleNotification(c)
      PROVE  OwnOK(d)'
  <2>1. CASE d = c
    BY <1>0, <1>3, <2>1, OwnClientStep, OwnCallerStep, OwnNotification
  <2>2. CASE d # c
    <3>1. /\ cache'[d] = cache[d] /\ local'[d] = local[d] /\ opened'[d] = opened[d]
          /\ op'[d] = op[d]
      BY <1>3, <2>2, ClientFrame
    <3> QED
      BY <1>0, <3>1, OwnFrame DEF At
  <2> QED
    BY <2>1, <2>2
<1>4. CASE UNCHANGED vars
  BY <1>1, <1>4 DEF vars, stateVars, clientVars
<1>5. ASSUME NEW c \in Client, Connect(c) \/ Disconnect(c)
      PROVE  OwnOK(d)'
  BY <1>1, <1>5 DEF Connect, Disconnect, Subscribe, StreamBreak, Cleanup, clientVars
<1> QED
  BY <1>2, <1>3, <1>4, <1>5 DEF Next, Server, Subscriber, Caller, Continue

\* Type correctness and the invariant hold in every reachable state.
LEMMA UnflushedInvariant == Spec => [](TypeOK /\ UnflushedInv)
<1>1. Init => TypeOK /\ UnflushedInv
  BY TypeInit, UnflushedInit
<1>2. TypeOK /\ UnflushedInv /\ [Next]_vars => (TypeOK /\ UnflushedInv)'
  BY TypeNext, UnflushedNext
<1> QED
  BY <1>1, <1>2, PTL DEF Spec

(***************************************************************************)
(* A modification that has not been stored belongs to an open file, or to  *)
(* one that create_file() is about to enter: whatever operations are used. *)
(***************************************************************************)
THEOREM UnflushedFilesAreOpen == Spec => []UnflushedIsOpen
<1>1. UnflushedInv => UnflushedIsOpen
  BY UnflushedInvIs
<1> QED
  BY <1>1, UnflushedInvariant, PTL

(***************************************************************************)
(* Until its reply, close_file() finds the modified entry and the local    *)
(* file it sent, and open_file() a file that is not in the cache.          *)
(***************************************************************************)
THEOREM CallsOwnTheirEntries == Spec => []CallOwnsEntry
<1>1. UnflushedInv => CallOwnsEntry
  BY UnflushedInvIs
<1> QED
  BY <1>1, UnflushedInvariant, PTL

-----------------------------------------------------------------------------
(***************************************************************************)
(* Who can take the mark off an entry, and with which of the reasons that  *)
(* UnflushedSurvives names.                                                *)
(***************************************************************************)

\* Going on with an operation: close_file() has stored the local file, or
\* rename_file() re-keys the maps.  A fill does not, for it fills no entry.
LEMMA UnmarkedByClient ==
  ASSUME TypeOK, NEW c \in Client, OwnOK(c), ClientStep(c),
         NEW x \in Path, Unmarks(c, x)
  PROVE  StoredBy(c, x) \/ RenamedBy(c, x)
<1> USE DEF Unmarks, At
<1>0. cache \in [Client -> [Path -> {"none", "clean", "dirty"}]]
  BY DEF TypeOK, ClientTypeOK
<1>1. CASE GetAttributesReturn(c)
  BY <1>1 DEF GetAttributesReturn
<1>2. CASE OpenReturn(c)
  <2>1. ~Cached(c, op[c].path)
    BY <1>2 DEF OpenReturn, OwnOK, FillingPC
  <2>2. cache' = Set(cache, c, op[c].path, "clean")
    BY <1>2 DEF OpenReturn
  <2> QED
    BY <1>0, <2>1, <2>2 DEF Cached, Set
<1>3. CASE OpenFailed(c)
  BY <1>3 DEF OpenFailed
<1>4. CASE OpenInstall(c)
  BY <1>4 DEF OpenInstall
<1>5. CASE CreateInstall(c)
  BY <1>5 DEF CreateInstall
<1>6. CASE CloseReturn(c)
  <2>1. op[c].pc = "close_reply" /\ op[c].data = local[c][op[c].path]
    BY <1>6 DEF CloseReturn, OwnOK, FlushingPC
  <2>2. op'[c] = Idle
    BY <1>6 DEF CloseReturn, Return, Becomes, TypeOK, OpTypeOK
  <2>3. op[c].path = x
    BY <1>0, <1>6 DEF CloseReturn, Set
  <2> QED
    BY <2>1, <2>2, <2>3 DEF StoredBy
<1>7. CASE RenameMaps(c)
  <2> DEFINE p == op[c].path
             q == op[c].to
  <2>1. /\ op[c].pc = "rename_maps"
        /\ cache' = [cache EXCEPT ![c] = MoveKey(cache[c], p, q, "none")]
    BY <1>7 DEF RenameMaps
  <2>2. op'[c].pc = "rename_move"
    BY <1>7 DEF RenameMaps, Goto, Becomes, TypeOK, OpTypeOK, OpRecord, OpFields
  <2>3. p \in Path /\ q \in Path
    BY <2>1 DEF TypeOK, OpTypeOK, OpRecord, RenamePC
  <2> HIDE DEF p, q
  <2>4. cache[c][p] # "none"
    BY <1>0, <2>1 DEF MoveKey
  <2>5. cache'[c] = [cache[c] EXCEPT ![q] = cache[c][p], ![p] = "none"]
    BY <1>0, <2>1, <2>4 DEF MoveKey
  <2>6. x = q \/ (x = p /\ cache'[c][q] = "dirty")
    BY <1>0, <2>3, <2>5
  <2> QED
    BY <2>1, <2>2, <2>4, <2>6 DEF RenamedBy, Cached, p, q
<1>8. CASE RenameReturn(c)
  BY <1>8 DEF RenameReturn, clientVars
<1>9. CASE DeleteReturn(c)
  BY <1>9 DEF DeleteReturn
<1> QED
  BY <1>1, <1>2, <1>3, <1>4, <1>5, <1>6, <1>7, <1>8, <1>9 DEF ClientStep

\* Of the operations a caller starts, unlink() alone does.
LEMMA UnmarkedByCaller ==
  ASSUME TypeOK, NEW c \in Client, CallerStep(c), NEW x \in Path, Unmarks(c, x)
  PROVE  UnlinkedBy(c, x)
<1>0. cache \in [Client -> [Path -> {"none", "clean", "dirty"}]]
  BY DEF TypeOK, ClientTypeOK
<1>1. PICK p \in Path : DeleteFile(c, p)
  <2>1. \A p \in Path : /\ WriteFile(c, p) \/ CreateFile(c, p)
                            => cache' = Set(cache, c, p, "dirty")
                        /\ \A q \in Path : RenameFile(c, p, q) => cache' = cache
    BY DEF WriteFile, CreateFile, RenameFile
  <2>2. cache' # cache /\ \A p \in Path : cache' # Set(cache, c, p, "dirty")
    BY <1>0 DEF Unmarks, Set
  <2> QED
    BY <2>1, <2>2 DEF CallerStep, GetAttributes, OpenMiss, OpenHit, WriteFails,
       CloseWithoutFlush, CloseFlush, CloseFlushFails, TruncateFile, clientVars
<1>2. op[c].pc = "idle" /\ cache' = Set(cache, c, p, "none")
  BY <1>1 DEF DeleteFile, Starts, IsIdle
<1>3. op'[c] = [Idle EXCEPT !.pc = "unlink_remove", !.path = p]
  BY <1>1 DEF DeleteFile, Call, Becomes, TypeOK, OpTypeOK
<1>4. x = p
  BY <1>0, <1>2 DEF Unmarks, Set
<1> QED
  BY <1>2, <1>3, <1>4 DEF UnlinkedBy, IsIdle, Idle

\* The subscriber thread erases only an entry that create_file() has made and
\* not yet entered in opened_files: an empty file.
LEMMA UnmarkedByNotification ==
  ASSUME TypeOK, NEW c \in Client, OwnOK(c), HandleNotification(c),
         NEW x \in Path, Unmarks(c, x)
  PROVE  UnwrittenYet(c, x)
<1> DEFINE p == Head(queue[c])
<1>1. /\ op' = op
      /\ cache' = cache \/ (~IsOpen(c, p) /\ cache' = Set(cache, c, p, "none"))
  BY DEF HandleNotification, Dropped
<1>2. p \in Path
  BY DEF TypeOK, ChannelTypeOK, HandleNotification
<1> HIDE DEF p
<1>3. ~IsOpen(c, x)
  BY <1>1, <1>2 DEF Unmarks, Set, TypeOK, ClientTypeOK
<1> QED
  BY <1>1, <1>3 DEF OwnOK, Unmarks, At, UnwrittenYet

(***************************************************************************)
(* The mark of a modified file is taken off by the client's own close(),   *)
(* rename() or unlink() of it, each with its reason, whatever operations   *)
(* the clients use and however many they are.  No notification and no      *)
(* other step takes it off, but for the mark of a file that create_file()  *)
(* is making, which is empty.                                              *)
(***************************************************************************)
THEOREM UnflushedWritesSurvive == Spec => UnflushedSurvives
<1> DEFINE Reason(d, x) == \/ StoredBy(d, x) \/ RenamedBy(d, x)
                           \/ UnlinkedBy(d, x) \/ UnwrittenYet(d, x)
<1>1. ASSUME TypeOK, UnflushedInv, Next, NEW d \in Client, NEW x \in Path,
             Unmarks(d, x)
      PROVE  Reason(d, x)
  <2>0. OwnOK(d)
    BY <1>1 DEF UnflushedInv
  <2>1. ASSUME NEW c \in Client,
               ClientStep(c) \/ CallerStep(c) \/ HandleNotification(c)
        PROVE  Reason(d, x)
    <3>1. d = c
      BY <1>1, <2>1, ClientFrame DEF Unmarks
    <3> QED
      BY <1>1, <2>0, <2>1, <3>1, UnmarkedByClient, UnmarkedByCaller,
         UnmarkedByNotification
  <2>2. ASSUME NEW c \in Client,
               ServerStep(c) \/ Connect(c) \/ Disconnect(c)
        PROVE  cache' = cache
    BY <1>1, <2>2, ServerFrame
       DEF Connect, Disconnect, Subscribe, StreamBreak, Cleanup, clientVars
  <2> QED
    BY <1>1, <2>1, <2>2 DEF Next, Server, Subscriber, Caller, Continue, Unmarks
<1> HIDE DEF Reason
<1>2. ASSUME TypeOK, UnflushedInv, [Next]_vars
      PROVE  [\A c \in Client, p \in Path : Unmarks(c, p) => Reason(c, p)]_vars
  BY <1>1, <1>2
<1>3. ASSUME TypeOK, UnflushedInv, [Next]_vars
      PROVE  [\A c \in Client, p \in Path :
                Unmarks(c, p) => \/ StoredBy(c, p) \/ RenamedBy(c, p)
                                 \/ UnlinkedBy(c, p) \/ UnwrittenYet(c, p)]_vars
  BY <1>2, <1>3 DEF Reason
<1> QED
  BY <1>3, UnflushedInvariant, PTL DEF Spec, UnflushedSurvives
=============================================================================
