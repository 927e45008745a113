----------------------------- MODULE AFSClient ------------------------------
(***************************************************************************)
(* The client (filesystem_client.cpp) and its subscriber thread, which     *)
(* handles notifications (client_subscriber.hpp).  A client is given one   *)
(* operation at a time, as by the test programs or a mount with -s.  An    *)
(* operation is split where the subscriber thread or another client can    *)
(* come in between: at each RPC, and between sections that hold            *)
(* cache_mutex unless a notification there has the effect of one before or *)
(* after both.                                                             *)
(***************************************************************************)
EXTENDS AFSState

Starts(c, o) == o \in Ops /\ IsIdle(c)

Cached(c, p) == cache[c][p] # "none"
IsOpen(c, p) == opened[c][p] # "no"

\* read_file and write_file answer an error unless this holds.
Usable(c, p) == Cached(c, p) /\ IsOpen(c, p) /\ p \in mutexes[c]

\* f with the entry of c for p set to v; f[c] as the assignment changes it.
Set(f, c, p, v) == [f EXCEPT ![c][p] = v]

\* update_map_keys for one exact match: the entry of p becomes that of q.
MoveKey(m, p, q, absent) ==
  IF m[p] = absent THEN m ELSE [m EXCEPT ![q] = m[p], ![p] = absent]

\* If the file has cached attributes, they take the size of the local file v.
SyncAttr(c, p, v) ==
  cached_attr' = IF cached_attr[c][p] = None \/ v = None
                 THEN cached_attr ELSE Set(cached_attr, c, p, v)

\* The local file of p is removed or replaced under the streams of opened[c][p].
Detached(h) == IF h = "open" THEN "detached" ELSE h

-----------------------------------------------------------------------------
\* get_attributes(), not cached: ask the server, and cache what it says.
GetAttributes(c, p) ==
  /\ Starts(c, "getattr")
  /\ cached_attr[c][p] = None
  /\ Call(c, "getattr_stat", p)
  /\ UNCHANGED <<serverVars, channelVars, clientVars>>

GetAttributesReturn(c) ==
  /\ At(c, "getattr_reply")
  /\ cached_attr' = IF op[c].data = None THEN cached_attr
                    ELSE Set(cached_attr, c, op[c].path, op[c].data)
  /\ Return(c)
  /\ UNCHANGED <<serverVars, channelVars, cache, local, opened, mutexes, written>>

-----------------------------------------------------------------------------
\* open_file(), not in the cache: the local file is created or emptied and the
\* server asked.
OpenMiss(c, p) ==
  /\ Starts(c, "open")
  /\ ~Cached(c, p)
  /\ local' = Set(local, c, p, Empty)
  /\ Call(c, "open_register", p)
  /\ UNCHANGED <<serverVars, channelVars, cache, opened, mutexes, cached_attr, written>>

\* open_file(), in the cache and not open: cache_mutex is released before the
\* streams are opened, and nothing is compared with the server.
OpenHit(c, p) ==
  /\ Starts(c, "open")
  /\ Cached(c, p)
  /\ ~IsOpen(c, p)
  /\ local[c][p] # None
  /\ Call(c, "open_install", p)
  /\ UNCHANGED <<serverVars, channelVars, clientVars>>

\* The reply of open(): cached as received.
OpenReturn(c) ==
  LET p == op[c].path IN
  /\ At(c, "open_reply")
  /\ op[c].data # None
  /\ local' = Set(local, c, p, op[c].data)
  /\ cache' = Set(cache, c, p, "clean")
  /\ SyncAttr(c, p, op[c].data)
  /\ Goto(c, "open_install")
  /\ UNCHANGED <<serverVars, channelVars, opened, mutexes, written>>

\* NOT_FOUND: the (empty) local file gives the attributes all the same, and
\* the call is repeated up to MaxTries times before the file is removed.
OpenFailedUnbounded(c) ==  \* Mutation: repeated until it succeeds.
  /\ At(c, "open_reply")
  /\ op[c].data = None
  /\ SyncAttr(c, op[c].path, Empty)
  /\ Becomes(c, [op[c] EXCEPT !.pc = "open_register", !.tries = @ + 1])
  /\ UNCHANGED <<serverVars, channelVars, cache, local, opened, mutexes, written>>

OpenFailedUncounted(c) ==  \* Mutation: num_of_retries is not incremented.
  /\ At(c, "open_reply")
  /\ op[c].data = None
  /\ SyncAttr(c, op[c].path, Empty)
  /\ Goto(c, "open_register")
  /\ UNCHANGED <<serverVars, channelVars, cache, local, opened, mutexes, written>>

OpenFailed(c) ==
  LET p     == op[c].path
      tries == op[c].tries + 1
  IN
  /\ At(c, "open_reply")
  /\ op[c].data = None
  /\ SyncAttr(c, p, Empty)
  /\ IF tries < MaxTries
     THEN /\ Becomes(c, [op[c] EXCEPT !.pc = "open_register", !.tries = tries])
          /\ UNCHANGED <<local, opened>>
     ELSE /\ Return(c)
          /\ local' = Set(local, c, p, None)
          /\ opened' = Set(opened, c, p, Detached(opened[c][p]))
  /\ UNCHANGED <<serverVars, channelVars, cache, mutexes, written>>

\* Both cases of open_file() end by entering the streams and the mutex.
OpenInstall(c) ==
  LET p == op[c].path IN
  /\ At(c, "open_install")
  /\ opened' = Set(opened, c, p, "open")
  /\ mutexes' = [mutexes EXCEPT ![c] = @ \cup {p}]
  /\ Return(c)
  /\ UNCHANGED <<serverVars, channelVars, cache, local, cached_attr, written>>

\* write_file(): through the open stream; what is written is a fresh content.
WriteFile(c, p) ==
  /\ Starts(c, "write")
  /\ Usable(c, p)
  /\ opened[c][p] \in {"open", "detached"}
  /\ written < MaxContent
  /\ written' = written + 1
  /\ local' = IF opened[c][p] = "open" THEN Set(local, c, p, written') ELSE local
  /\ cache' = Set(cache, c, p, "dirty")
  /\ SyncAttr(c, p, local'[c][p])
  /\ UNCHANGED <<serverVars, channelVars, opened, mutexes, op>>

\* seekp() fails on a closed stream, and the fail bit is cleared.
WriteFails(c, p) ==
  /\ Starts(c, "write")
  /\ Usable(c, p)
  /\ opened[c][p] = "failed"
  /\ opened' = Set(opened, c, p, "closed")
  /\ UNCHANGED <<serverVars, channelVars, cache, local, mutexes, cached_attr, written,
                 op>>

\* create_file(): a new local file; the cache entry is made, with
\* locally_modified set, before the file is entered in opened_files.
CreateFile(c, p) ==
  /\ Starts(c, "create")
  /\ ~Cached(c, p)
  /\ ~IsOpen(c, p)
  /\ local' = Set(local, c, p, Empty)
  /\ cache' = Set(cache, c, p, "dirty")
  /\ Call(c, "create_install", p)
  /\ UNCHANGED <<serverVars, channelVars, opened, mutexes, cached_attr, written>>

CreateInstall(c) ==
  LET p == op[c].path IN
  /\ At(c, "create_install")
  /\ opened' = Set(opened, c, p, "open")
  /\ mutexes' = [mutexes EXCEPT ![c] = @ \cup {p}]
  /\ cached_attr' = Set(cached_attr, c, p, Empty)
  /\ Return(c)
  /\ UNCHANGED <<serverVars, channelVars, cache, local, written>>

-----------------------------------------------------------------------------
\* close_file() goes on only for an open file that has its mutex.
Closes(c, p) == Starts(c, "close") /\ IsOpen(c, p) /\ p \in mutexes[c]

\* Not modified, or no longer in the cache: no RPC.
CloseWithoutFlush(c, p) ==
  /\ Closes(c, p)
  /\ cache[c][p] # "dirty"
  /\ opened' = Set(opened, c, p, "no")
  /\ mutexes' = [mutexes EXCEPT ![c] = @ \ {p}]
  /\ UNCHANGED <<serverVars, channelVars, cache, local, cached_attr, written, op>>

\* close() of the streams fails when they are closed already.
ClosedAgain(h) == IF h \in {"closed", "failed"} THEN "failed" ELSE "closed"

\* Modified: the streams are closed and the local file is sent, read anew
\* under its name.
CloseFlushErases(c, p) ==  \* Mutation: erased from opened_files at once.
  /\ Closes(c, p)
  /\ cache[c][p] = "dirty"
  /\ opened[c][p] # "failed"
  /\ local[c][p] # None
  /\ opened' = Set(opened, c, p, "no")
  /\ Becomes(c, [Idle EXCEPT !.pc = "close_truncate", !.path = p,
                             !.data = local[c][p]])
  /\ UNCHANGED <<serverVars, channelVars, cache, local, mutexes, cached_attr, written>>

CloseFlushUnmarks(c, p) ==  \* Mutation: locally_modified is cleared first.
  /\ Closes(c, p)
  /\ cache[c][p] = "dirty"
  /\ opened[c][p] # "failed"
  /\ local[c][p] # None
  /\ opened' = Set(opened, c, p, ClosedAgain(opened[c][p]))
  /\ cache' = Set(cache, c, p, "clean")
  /\ Becomes(c, [Idle EXCEPT !.pc = "close_truncate", !.path = p,
                             !.data = local[c][p]])
  /\ UNCHANGED <<serverVars, channelVars, local, mutexes, cached_attr, written>>

CloseFlush(c, p) ==
  /\ Closes(c, p)
  /\ cache[c][p] = "dirty"
  /\ opened[c][p] # "failed"
  /\ local[c][p] # None
  /\ opened' = Set(opened, c, p, ClosedAgain(opened[c][p]))
  /\ Becomes(c, [Idle EXCEPT !.pc = "close_truncate", !.path = p,
                             !.data = local[c][p]])
  /\ UNCHANGED <<serverVars, channelVars, cache, local, mutexes, cached_attr, written>>

\* close_file() fails half way: flush() finds the fail bit, or there is no
\* local file of that name.
CloseFlushFails(c, p) ==
  /\ Closes(c, p)
  /\ cache[c][p] = "dirty"
  /\ opened[c][p] = "failed" \/ local[c][p] = None
  /\ opened' = Set(opened, c, p, ClosedAgain(opened[c][p]))
  /\ UNCHANGED <<serverVars, channelVars, cache, local, mutexes, cached_attr, written,
                 op>>

CloseReturn(c) ==
  LET p == op[c].path IN
  /\ At(c, "close_reply")
  /\ cache' = IF Cached(c, p) THEN Set(cache, c, p, "clean") ELSE cache
  /\ SyncAttr(c, p, local[c][p])
  /\ opened' = Set(opened, c, p, "no")
  /\ mutexes' = [mutexes EXCEPT ![c] = @ \ {p}]
  /\ Return(c)
  /\ UNCHANGED <<serverVars, channelVars, local, written>>

-----------------------------------------------------------------------------
\* rename_file(): the local file, if any, is moved; one of the new name is
\* removed in any case.
RenameFile(c, p, q) ==
  /\ Starts(c, "rename")
  /\ p # q
  /\ local' = [local EXCEPT ![c][q] = local[c][p], ![c][p] = None]
  /\ opened' = Set(opened, c, q, Detached(opened[c][q]))
  /\ Becomes(c, [Idle EXCEPT !.pc = "rename_maps", !.path = p, !.to = q])
  /\ UNCHANGED <<serverVars, channelVars, cache, mutexes, cached_attr, written>>

\* Then the keys of three maps; file_mutexes keeps its keys.
RenameMapsCacheOnly(c) ==  \* Mutation: opened_files keeps its keys, too.
  LET p == op[c].path
      q == op[c].to
  IN
  /\ At(c, "rename_maps")
  /\ cache' = [cache EXCEPT ![c] = MoveKey(@, p, q, "none")]
  /\ cached_attr' = [cached_attr EXCEPT ![c] = MoveKey(@, p, q, None)]
  /\ Goto(c, "rename_move")
  /\ UNCHANGED <<serverVars, channelVars, local, opened, mutexes, written>>

RenameMaps(c) ==
  LET p == op[c].path
      q == op[c].to
  IN
  /\ At(c, "rename_maps")
  /\ cache' = [cache EXCEPT ![c] = MoveKey(@, p, q, "none")]
  /\ opened' = [opened EXCEPT ![c] = MoveKey(@, p, q, "no")]
  /\ cached_attr' = [cached_attr EXCEPT ![c] = MoveKey(@, p, q, None)]
  /\ Goto(c, "rename_move")
  /\ UNCHANGED <<serverVars, channelVars, local, mutexes, written>>

\* OK, or NOT_FOUND, which is taken for a file that is only local so far.
RenameReturn(c) ==
  /\ At(c, "rename_reply")
  /\ Return(c)
  /\ UNCHANGED <<serverVars, channelVars, clientVars>>

\* delete_file(): everything about the file is forgotten before the RPC, ...
DeleteFile(c, p) ==
  /\ Starts(c, "unlink")
  /\ opened' = Set(opened, c, p, "no")
  /\ cache' = Set(cache, c, p, "none")
  /\ cached_attr' = Set(cached_attr, c, p, None)
  /\ mutexes' = [mutexes EXCEPT ![c] = @ \ {p}]
  /\ Call(c, "unlink_remove", p)
  /\ UNCHANGED <<serverVars, channelVars, local, written>>

\* ... and the local file is removed after it, if it succeeded.
DeleteReturn(c) ==
  /\ op[c].pc \in {"unlink_ok", "unlink_fail"}
  /\ local' = IF At(c, "unlink_ok") THEN Set(local, c, op[c].path, None) ELSE local
  /\ Return(c)
  /\ UNCHANGED <<serverVars, channelVars, cache, opened, mutexes, cached_attr, written>>

\* truncate_file() to size 0: the local file only.
TruncateFile(c, p) ==
  /\ Starts(c, "truncate")
  /\ local[c][p] # None
  /\ local' = Set(local, c, p, Empty)
  /\ UNCHANGED <<serverVars, channelVars, cache, opened, mutexes, cached_attr, written,
                 op>>

-----------------------------------------------------------------------------
(***************************************************************************)
(* RunSubscriber(), one notification: dropped if the file is open here, or *)
(* not in the cache; else the cache entry and the attributes are erased.   *)
(***************************************************************************)
DroppedIfAbsent(c, p) == ~Cached(c, p)  \* Mutation: open files are erased.

Dropped(c, p) == IsOpen(c, p) \/ ~Cached(c, p)

HandleNotificationAttrs(c) ==  \* Mutation: only the attributes are erased.
  LET p == Head(queue[c]) IN
  /\ queue[c] # <<>>
  /\ queue' = [queue EXCEPT ![c] = Tail(@)]
  /\ cached_attr' = IF Dropped(c, p) THEN cached_attr
                    ELSE Set(cached_attr, c, p, None)
  /\ UNCHANGED <<serverVars, stream, cache, local, opened, mutexes, written, op>>

HandleNotification(c) ==
  LET p == Head(queue[c]) IN
  /\ queue[c] # <<>>
  /\ queue' = [queue EXCEPT ![c] = Tail(@)]
  /\ IF Dropped(c, p)
     THEN UNCHANGED <<cache, cached_attr>>
     ELSE /\ cache' = Set(cache, c, p, "none")
          /\ cached_attr' = Set(cached_attr, c, p, None)
  /\ UNCHANGED <<serverVars, stream, local, opened, mutexes, written, op>>

\* A caller starts, or carries out, an operation.
CallerStep(c) ==
  \E p \in Path :
    \/ GetAttributes(c, p)
    \/ OpenMiss(c, p) \/ OpenHit(c, p)
    \/ WriteFile(c, p) \/ WriteFails(c, p)
    \/ CreateFile(c, p)
    \/ CloseWithoutFlush(c, p) \/ CloseFlush(c, p) \/ CloseFlushFails(c, p)
    \/ \E q \in Path : RenameFile(c, p, q)
    \/ DeleteFile(c, p)
    \/ TruncateFile(c, p)

\* The client goes on with the operation it has started.
ClientStep(c) ==
  \/ GetAttributesReturn(c)
  \/ OpenReturn(c) \/ OpenFailed(c) \/ OpenInstall(c)
  \/ CreateInstall(c)
  \/ CloseReturn(c)
  \/ RenameMaps(c) \/ RenameReturn(c)
  \/ DeleteReturn(c)
=============================================================================
