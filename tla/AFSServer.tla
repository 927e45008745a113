----------------------------- MODULE AFSServer ------------------------------
(***************************************************************************)
(* The handlers of the gRPC service (filesystem_server.cpp) and of the     *)
(* subscription stream (subscriber_handler.hpp).  A handler is split where *)
(* another handler can come in between: around each section that holds     *)
(* file_map_mutex and each access to the file system.                      *)
(***************************************************************************)
EXTENDS AFSState

\* Mutation: the callbacks consult the map of open files.
RegisteredOpen(p) == file_map_open[p]

Registered(p) == file_map[p]

(***************************************************************************)
(* The callback loops push a notification about p to every registered      *)
(* client but the caller, if it has a queue.  What is pushed to the queue  *)
(* of a stream that has already broken reaches nobody.                     *)
(***************************************************************************)
NotifyAll(c, p) ==  \* Mutation: the caller is told as well.
  queue' = [d \in Client |->
              IF d \in Registered(p) \cap subscribers /\ stream[d] = "up"
              THEN Append(queue[d], p) ELSE queue[d]]

Notify(c, p) ==
  queue' = [d \in Client |->
              IF d \in (Registered(p) \cap subscribers) \ {c} /\ stream[d] = "up"
              THEN Append(queue[d], p) ELSE queue[d]]

\* getattr(): stat() of the file, or NOT_FOUND.
GetattrStat(c) ==
  /\ At(c, "getattr_stat")
  /\ Reply(c, "getattr_reply", disk[op[c].path])
  /\ UNCHANGED <<serverVars, channelVars, clientVars>>

-----------------------------------------------------------------------------
\* open(): the client is registered before the file is looked at, whether it
\* exists or not.  The two locked sections commute with every other handler
\* but those of c itself, and c is waiting for this one.
OpenRegisterFirst(c) ==  \* Mutation: only the first client is registered.
  LET p == op[c].path IN
  /\ At(c, "open_register")
  /\ ~mapLocked
  /\ file_map' = [file_map EXCEPT ![p] = IF @ = {} THEN {c} ELSE @]
  /\ file_map_open' = [file_map_open EXCEPT ![p] = @ \cup {c}]
  /\ Goto(c, "open_read")
  /\ UNCHANGED <<disk, subscribers, clients_db, mapLocked, channelVars, clientVars>>

OpenRegister(c) ==
  LET p == op[c].path IN
  /\ At(c, "open_register")
  /\ ~mapLocked
  /\ file_map' = [file_map EXCEPT ![p] = @ \cup {c}]
  /\ file_map_open' = [file_map_open EXCEPT ![p] = @ \cup {c}]
  /\ Goto(c, "open_read")
  /\ UNCHANGED <<disk, subscribers, clients_db, mapLocked, channelVars, clientVars>>

\* The file is opened and its chunks are sent; None stands for NOT_FOUND.
OpenRead(c) ==
  /\ At(c, "open_read")
  /\ Reply(c, "open_reply", disk[op[c].path])
  /\ UNCHANGED <<serverVars, channelVars, clientVars>>

-----------------------------------------------------------------------------
\* close(), first chunk: outfile.open() creates the file or truncates it.
CloseTruncate(c) ==
  LET p == op[c].path IN
  /\ At(c, "close_truncate")
  /\ disk' = [disk EXCEPT ![p] = Empty]
  /\ Becomes(c, [op[c] EXCEPT !.pc = "close_write", !.fd = p])
  /\ UNCHANGED <<file_map, file_map_open, subscribers, clients_db, mapLocked,
                 channelVars, clientVars>>

\* The chunks go to the open file, wherever a rename has moved it meanwhile,
\* and nowhere if it was unlinked or replaced.
CloseWrite(c) ==
  LET f == op[c].fd IN
  /\ At(c, "close_write")
  /\ disk' = IF f = None THEN disk ELSE [disk EXCEPT ![f] = op[c].data]
  /\ Goto(c, "close_notify")
  /\ UNCHANGED <<file_map, file_map_open, subscribers, clients_db, mapLocked,
                 channelVars, clientVars>>

\* file_change_callback_close(), then the entry of file_map_open is dropped.
\* The caller is registered only if the path had no entry at all.
CloseNotifyResets(c) ==  \* Mutation: who was told is no longer registered.
  LET p == op[c].path IN
  /\ At(c, "close_notify")
  /\ ~mapLocked
  /\ Notify(c, p)
  /\ file_map' = [file_map EXCEPT ![p] = {c}]
  /\ file_map_open' = [file_map_open EXCEPT ![p] = @ \ {c}]
  /\ Goto(c, "close_reply")
  /\ UNCHANGED <<disk, subscribers, clients_db, mapLocked, stream, clientVars>>

CloseNotify(c) ==
  LET p == op[c].path IN
  /\ At(c, "close_notify")
  /\ ~mapLocked
  /\ Notify(c, p)
  /\ file_map' = [file_map EXCEPT ![p] = IF @ = {} THEN {c} ELSE @]
  /\ file_map_open' = [file_map_open EXCEPT ![p] = @ \ {c}]
  /\ Goto(c, "close_reply")
  /\ UNCHANGED <<disk, subscribers, clients_db, mapLocked, stream, clientVars>>

-----------------------------------------------------------------------------
\* The call of c goes on at l, once name p was given to q (q \in Path) or
\* removed (q = None): the descriptors other close() handlers hold follow.
GotoMoving(c, l, p, q) ==
  op' = [d \in Client |->
           IF d = c THEN [op[c] EXCEPT !.pc = l]
           ELSE IF At(d, "close_write") /\ op[d].fd = p
           THEN [op[d] EXCEPT !.fd = q]
           ELSE IF At(d, "close_write") /\ op[d].fd = q
           THEN [op[d] EXCEPT !.fd = None]
           ELSE op[d]]

\* rename(): std::filesystem::rename replaces the target; a missing source
\* throws and is answered NOT_FOUND, without any callback.
RenameMove(c) ==
  LET p == op[c].path
      q == op[c].to
  IN
  /\ At(c, "rename_move")
  /\ IF disk[p] = None
     THEN /\ Goto(c, "rename_reply")
          /\ UNCHANGED disk
     ELSE /\ disk' = [disk EXCEPT ![q] = disk[p], ![p] = None]
          /\ GotoMoving(c, "rename_notify", p, q)
  /\ UNCHANGED <<file_map, file_map_open, subscribers, clients_db, mapLocked,
                 channelVars, clientVars>>

\* file_change_callback_rename(): the watchers of the old name are told, and
\* their set becomes the entry of the new name, replacing what was there.
RenameNotify(c) ==
  LET p == op[c].path
      q == op[c].to
  IN
  /\ At(c, "rename_notify")
  /\ ~mapLocked
  /\ Registered(p) # {}
  /\ Notify(c, p)
  /\ file_map' = [file_map EXCEPT ![q] = Registered(p), ![p] = {}]
  /\ Goto(c, "rename_reply")
  /\ UNCHANGED <<disk, file_map_open, subscribers, clients_db, mapLocked, stream,
                 clientVars>>

\* Its else-branch locks file_map_mutex, which this thread already holds: the
\* handler waits for itself and no other handler gets the mutex again.
RenameSelfLock(c) ==
  /\ At(c, "rename_notify")
  /\ ~mapLocked
  /\ Registered(op[c].path) = {}
  /\ mapLocked' = TRUE
  /\ Goto(c, "rename_hung")
  /\ UNCHANGED <<disk, file_map, file_map_open, subscribers, clients_db,
                 channelVars, clientVars>>

-----------------------------------------------------------------------------
\* unlink(): std::filesystem::remove, or NOT_FOUND.
UnlinkRemove(c) ==
  LET p == op[c].path IN
  /\ At(c, "unlink_remove")
  /\ IF disk[p] = None
     THEN /\ Goto(c, "unlink_fail")
          /\ UNCHANGED disk
     ELSE /\ disk' = [disk EXCEPT ![p] = None]
          /\ GotoMoving(c, "unlink_notify", p, None)
  /\ UNCHANGED <<file_map, file_map_open, subscribers, clients_db, mapLocked,
                 channelVars, clientVars>>

\* file_change_callback_unlink(): the entry of the path is removed.
UnlinkNotify(c) ==
  LET p == op[c].path IN
  /\ At(c, "unlink_notify")
  /\ ~mapLocked
  /\ Notify(c, p)
  /\ file_map' = [file_map EXCEPT ![p] = {}]
  /\ Goto(c, "unlink_ok")
  /\ UNCHANGED <<disk, file_map_open, subscribers, clients_db, mapLocked, stream,
                 clientVars>>

-----------------------------------------------------------------------------
\* subscribe() has been received: the client gets its queue.
Subscribe(c) ==
  /\ stream[c] = "new"
  /\ stream' = [stream EXCEPT ![c] = "up"]
  /\ subscribers' = subscribers \cup {c}
  /\ UNCHANGED <<disk, file_map, file_map_open, clients_db, mapLocked, queue,
                 clientVars, op>>

\* The stream breaks.  The client still reads what had arrived; the rest of
\* the queue is lost.  RunSubscriber ends and never subscribes again.
StreamBreak(c) ==
  /\ "disconnect" \in Ops
  /\ stream[c] = "up"
  /\ stream' = [stream EXCEPT ![c] = "down"]
  /\ \E n \in 0..Len(queue[c]) :
        queue' = [queue EXCEPT ![c] = SubSeq(@, 1, n)]
  /\ UNCHANGED <<serverVars, clientVars, op>>

\* The monitor thread or a failed Write has ended the loop of subscribe():
\* cleanup_client().  Its locked sections are one step, since nothing reaches
\* c through a broken stream whichever of them has run.
Cleanup(c) ==
  /\ stream[c] = "down"
  /\ c \in subscribers
  /\ ~mapLocked
  /\ clients_db' = clients_db \ {c}
  /\ file_map' = [p \in Path |-> file_map[p] \ {c}]
  /\ subscribers' = subscribers \ {c}
  /\ UNCHANGED <<disk, file_map_open, mapLocked, channelVars, clientVars, op>>

\* The steps by which the server answers the call of c.
ServerStep(c) ==
  \/ GetattrStat(c)
  \/ OpenRegister(c)  \/ OpenRead(c)
  \/ CloseTruncate(c) \/ CloseWrite(c)   \/ CloseNotify(c)
  \/ RenameMove(c)    \/ RenameNotify(c) \/ RenameSelfLock(c)
  \/ UnlinkRemove(c)  \/ UnlinkNotify(c)
=============================================================================
