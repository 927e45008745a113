---------------------------- MODULE ClientThreads ---------------------------
(***************************************************************************)
(* One client whose operations run in several threads, as those of a FUSE  *)
(* mount do, beside its subscriber thread; all operations are on one file. *)
(* cache_mutex guards the maps and is released around every RPC and every  *)
(* wait; a mutex per file, found in file_mutexes, guards the file's        *)
(* streams.  That entry is erased and created again while other threads    *)
(* still hold a shared_ptr to the old mutex, or an iterator of             *)
(* opened_files: a mutex therefore has an identity here, and a reference   *)
(* held by a thread may be stale.                                          *)
(*                                                                         *)
(* Left to the other modules: the server and other clients (AFS), retries  *)
(* and lost messages (Upload), attributes, rename and truncate (AFS).      *)
(***************************************************************************)
EXTENDS Integers, FiniteSets

CONSTANTS Thread,
          NoThread,
          MaxCalls   \* bound: operations started in a behaviour

ASSUME NoThreadAssumption == NoThread \notin Thread
ASSUME ThreadAssumption   == IsFiniteSet(Thread)
ASSUME BoundAssumption    == MaxCalls \in Nat

\* The content of the file: 0 as others wrote it or as created, n by the n-th
\* write_file(); NoFile if there is none.
Content == 0..MaxCalls
NoFile  == -1
NoMutex == 0
Mutexes == 0 .. Cardinality(Thread) + 2

VARIABLES
  cache,        \* entry of cache: "none", "clean", "dirty"
  opened,       \* entry of opened_files: "no"; streams "open", "closed", with
                \* the fail bit "failed", or "detached": of a file removed since
  file_mutex,   \* the mutex in file_mutexes, NoMutex without an entry
  cache_mutex,  \* who holds it between two steps
  local,        \* the file in the cache directory
  server,       \* the file on the server
  notified,     \* a notification of the file is waiting to be read
  thread,       \* what each thread is doing
  undefined,    \* an iterator or pointer to an erased entry has been used
  \* what FUSE knows, and a bound
  handles,      \* opens and creates that succeeded and were not released
  calls,
  \* history
  written,      \* the last write_file() that changed the file
  saved,        \* the last one that has been uploaded
  erasersMet,   \* two of close and delete have run at the same time
  openersMet,   \* two of open and create have
  usersMet,     \* a read or write, and a close or delete, have; or a delete and
                \* anything else
  removed       \* an open_file() that failed has removed the file of open streams

maps    == <<cache, opened, file_mutex>>
files   == <<local, server>>
history == <<written, saved, erasersMet, openersMet, usersMet, removed>>
vars == <<maps, cache_mutex, files, notified, thread, undefined, handles, calls,
          history>>

Operation == {"open", "create", "read", "write", "close", "delete"}

(***************************************************************************)
(* The steps of the operations, named for what comes next.  A thread in    *)
(* one of Holding has locked the mutex it refers to, in one of Locking it   *)
(* is about to.                                                            *)
(***************************************************************************)
Holding == {"use_streams", "mark", "flush", "upload", "unmark", "erase",
            "delete_lock", "delete_erase"}
Locking == {"use_lock", "close_lock", "delete_wait"}
Step == Locking \cup Holding
        \cup {"idle", "fetch", "reply", "enter", "install", "reopen",
              "create_file", "create_enter", "create_install", "create_stat",
              "delete_rpc", "delete_local"}

\* What a thread has kept of opened_files beyond an unlock of cache_mutex: an
\* iterator, pointers to the streams, or one of these to something erased.
Reference == {"none", "node", "streams", "stale"}

ThreadRecord == [op : Operation \cup {"none"}, pc : Step, ref : Reference,
                 mutex : Mutexes, flush : BOOLEAN, data : Content \cup {NoFile}]
Idle == [op |-> "none", pc |-> "idle", ref |-> "none", mutex |-> NoMutex,
         flush |-> FALSE, data |-> NoFile]

TypeOK ==
  /\ cache \in {"none", "clean", "dirty"}
  /\ opened \in {"no", "open", "closed", "failed", "detached"}
  /\ file_mutex \in Mutexes /\ cache_mutex \in Thread \cup {NoThread}
  /\ local \in Content \cup {NoFile} /\ server \in Content \cup {NoFile}
  /\ thread \in [Thread -> ThreadRecord]
  /\ \A t \in Thread : thread[t].pc \in Locking \cup Holding =>
                        thread[t].mutex # NoMutex
  /\ notified \in BOOLEAN /\ undefined \in BOOLEAN
  /\ handles \in 0 .. MaxCalls + 1 /\ calls \in 0..MaxCalls
  /\ written \in Content /\ saved \in Content
  /\ erasersMet \in BOOLEAN /\ openersMet \in BOOLEAN /\ usersMet \in BOOLEAN
  /\ removed \in BOOLEAN

\* The client has just started, or has opened the file once.
Init ==
  /\ \/ /\ cache = "none" /\ opened = "no" /\ file_mutex = NoMutex
        /\ local = NoFile /\ server \in {NoFile, 0} /\ handles = 0
     \/ /\ cache = "clean" /\ opened = "open" /\ file_mutex = 1
        /\ local = 0 /\ server = 0 /\ handles = 1
  /\ cache_mutex = NoThread
  /\ notified = FALSE
  /\ thread = [t \in Thread |-> Idle]
  /\ undefined = FALSE
  /\ calls = 0
  /\ written = 0 /\ saved = 0
  /\ erasersMet = FALSE /\ openersMet = FALSE /\ usersMet = FALSE
  /\ removed = FALSE

-----------------------------------------------------------------------------
At(t, l)  == thread[t].pc = l
Global    == cache_mutex = NoThread    \* cache_mutex can be locked
Free(m)   == \A u \in Thread : thread[u].pc \in Holding => thread[u].mutex # m

\* A mutex object that nobody refers to any more: make_shared<std::mutex>().
NewMutex == CHOOSE m \in Mutexes \ {NoMutex, file_mutex} :
              \A u \in Thread : thread[u].mutex # m

Goto(t, l) == thread' = [thread EXCEPT ![t].pc = l]
Return(t)  == thread' = [thread EXCEPT ![t] = Idle]

\* t goes on as r, and the references of the others to what was erased, in refs,
\* are stale.
Invalidate(t, r, refs) ==
  thread' = [u \in Thread |->
               IF u = t THEN r
               ELSE IF thread[u].ref \in refs THEN [thread[u] EXCEPT !.ref = "stale"]
               ELSE thread[u]]

\* opened_files.erase() and file_mutexes.erase(), by key.
EraseOpen(t, r) ==
  /\ opened' = "no" /\ file_mutex' = NoMutex
  /\ Invalidate(t, r, {"node", "streams"})

\* opened_files[...] = FileStreams{...}: an entry that exists stays, and its
\* streams are destroyed.  The new ones are those of the file now there.
EnterOpen(t, r) ==
  /\ opened' = "open"
  /\ Invalidate(t, r, {"streams"})

\* Removing the local file leaves open streams with nothing.
RemoveLocal ==
  /\ local' = NoFile
  /\ opened' = IF opened = "open" THEN "detached" ELSE opened

Busy(u, ops) == thread[u].op \in ops
Erasers == {"close", "delete"}
Openers == {"open", "create"}
Users   == {"read", "write"}

\* History of which operations have run at the same time.
Meet(t, o) ==
  LET Beside(ops) == \E u \in Thread \ {t} : Busy(u, ops) IN
  /\ erasersMet' = (erasersMet \/ (o \in Erasers /\ Beside(Erasers)))
  /\ openersMet' = (openersMet \/ (o \in Openers /\ Beside(Openers)))
  /\ usersMet' = \/ usersMet
                 \/ o \in Users /\ Beside(Erasers)
                 \/ o \in Erasers /\ Beside(Users)
                 \/ o = "delete" /\ Beside(Operation)
                 \/ Beside({"delete"})
  /\ UNCHANGED removed

\* An operation is called by FUSE, and its first section leaves the maps alone.
Start(t, o, r) ==
  /\ At(t, "idle") /\ Global /\ calls < MaxCalls
  /\ calls' = calls + 1
  /\ thread' = [thread EXCEPT ![t] = r]
  /\ Meet(t, o)

Begin(o, l) == [Idle EXCEPT !.op = o, !.pc = l]

-----------------------------------------------------------------------------
(***************************************************************************)
(* open_file().  The up to three downloads are one here.                   *)
(***************************************************************************)
OpenStart(t) ==
  /\ cache = "none" \/ opened = "no"
  /\ Start(t, "open", Begin("open", IF cache = "none" THEN "fetch" ELSE "reopen"))
  /\ UNCHANGED <<maps, cache_mutex, files, notified, undefined, handles, written, saved>>

\* "is already open"
OpenAgain(t) ==
  /\ At(t, "idle") /\ Global /\ calls < MaxCalls
  /\ cache # "none" /\ opened # "no"
  /\ calls' = calls + 1 /\ handles' = handles + 1
  /\ UNCHANGED <<maps, cache_mutex, files, notified, thread, undefined, history>>

\* std::ofstream outfile(file_path): the local file is empty, whoever uses it.
Fetch(t) ==
  /\ At(t, "fetch")
  /\ local' = 0
  /\ Goto(t, "reply")
  /\ UNCHANGED <<maps, cache_mutex, server, notified, undefined, handles, calls, history>>

FetchReply(t) ==
  /\ At(t, "reply") /\ server # NoFile
  /\ local' = server
  /\ Goto(t, "enter")
  /\ UNCHANGED <<maps, cache_mutex, server, notified, undefined, handles, calls, history>>

\* NOT_FOUND, or the RPC has failed three times: "Clean up partial file".
FetchFails(t) ==
  /\ At(t, "reply")
  /\ RemoveLocal
  /\ removed' = (removed \/ opened = "open")
  /\ Return(t)
  /\ UNCHANGED <<cache, file_mutex, cache_mutex, server, notified, undefined,
                 handles, calls, written, saved, erasersMet, openersMet, usersMet>>

\* cache[file_location] = file_info, not modified, whatever was there.
EnterCache(t) ==
  /\ At(t, "enter") /\ Global
  /\ cache' = "clean"
  /\ Goto(t, "install")
  /\ UNCHANGED <<opened, file_mutex, cache_mutex, files, notified, undefined,
                 handles, calls, history>>

\* The streams are opened and entered: one step, the file may be removed after.
Install(t) ==
  /\ At(t, "install") \/ At(t, "reopen")
  /\ Global /\ local # NoFile
  /\ EnterOpen(t, Idle)
  /\ file_mutex' = IF file_mutex = NoMutex THEN NewMutex ELSE file_mutex
  /\ handles' = handles + 1
  /\ UNCHANGED <<cache, cache_mutex, files, notified, undefined, calls, history>>

InstallFails(t) ==
  /\ At(t, "install") \/ At(t, "reopen")
  /\ Global /\ local = NoFile
  /\ cache' = IF At(t, "install") THEN "none" ELSE cache
  /\ Return(t)
  /\ UNCHANGED <<opened, file_mutex, cache_mutex, files, notified, undefined,
                 handles, calls, history>>

-----------------------------------------------------------------------------
(***************************************************************************)
(* create_file().                                                          *)
(***************************************************************************)
CreateStart(t) ==
  /\ cache = "none" /\ opened = "no"
  /\ Start(t, "create", Begin("create", "create_file"))
  /\ UNCHANGED <<maps, cache_mutex, files, notified, undefined, handles, written, saved>>

CreateFile(t) ==
  /\ At(t, "create_file")
  /\ local' = 0
  /\ Goto(t, "create_enter")
  /\ UNCHANGED <<maps, cache_mutex, server, notified, undefined, handles, calls, history>>

CreateEnter(t) ==
  /\ At(t, "create_enter") /\ Global
  /\ cache' = "dirty"
  /\ Goto(t, "create_install")
  /\ UNCHANGED <<opened, file_mutex, cache_mutex, files, notified, undefined,
                 handles, calls, history>>

\* Always a new mutex, also if there is an entry.
CreateInstall(t) ==
  /\ At(t, "create_install") /\ Global
  /\ IF local = NoFile
     THEN cache' = "none" /\ Return(t) /\ UNCHANGED <<opened, file_mutex>>
     ELSE /\ EnterOpen(t, Begin("create", "create_stat")) /\ file_mutex' = NewMutex
          /\ UNCHANGED cache
  /\ UNCHANGED <<cache_mutex, files, notified, undefined, handles, calls, history>>

\* stat() of the new file gives the attributes; if it is gone, create_file()
\* returns false, and what it has entered stays.
CreateStat(t) ==
  /\ At(t, "create_stat")
  /\ IF local = NoFile THEN UNCHANGED handles ELSE Global /\ handles' = handles + 1
  /\ Return(t)
  /\ UNCHANGED <<maps, cache_mutex, files, notified, undefined, calls, history>>

-----------------------------------------------------------------------------
(***************************************************************************)
(* read_file() and write_file().                                           *)
(***************************************************************************)
\* Mutation: only the cache is searched.
UseStartUnchecked(t, o) ==
  /\ handles > 0
  /\ Start(t, o, IF cache # "none"
                 THEN [Begin(o, "use_lock") EXCEPT !.ref = "node", !.mutex = file_mutex]
                 ELSE Idle)
  /\ UNCHANGED <<maps, cache_mutex, files, notified, undefined, handles, written, saved>>

\* The three maps are searched, and the iterator into opened_files is kept.
UseStart(t, o) ==
  /\ handles > 0
  /\ Start(t, o, IF cache # "none" /\ opened # "no" /\ file_mutex # NoMutex
                 THEN [Begin(o, "use_lock") EXCEPT !.ref = "node", !.mutex = file_mutex]
                 ELSE Idle)
  /\ UNCHANGED <<maps, cache_mutex, files, notified, undefined, handles, written, saved>>

Cleared(h)     == IF h = "failed" THEN "closed" ELSE h
ClosedAgain(h) == IF h \in {"closed", "failed"} THEN "failed" ELSE "closed"

UseLock(t) ==
  /\ At(t, "use_lock") /\ Free(thread[t].mutex)
  /\ Goto(t, "use_streams")
  /\ UNCHANGED <<maps, cache_mutex, files, notified, undefined, handles, calls, history>>

\* *(it->second.write_stream), through an iterator that may be stale; seeking
\* in a closed stream fails, and write_file() clears the fail bit.  A write
\* changes the file the stream is of.
UseStreams(t) ==
  /\ At(t, "use_streams")
  /\ IF thread[t].ref = "stale"
     THEN undefined' = TRUE /\ UNCHANGED <<opened, local, thread, written>>
     ELSE IF thread[t].op = "read" \/ opened \in {"closed", "failed"}
     THEN /\ opened' = IF thread[t].op = "write" THEN Cleared(opened) ELSE opened
          /\ Return(t) /\ UNCHANGED <<local, undefined, written>>
     ELSE /\ local' = IF opened = "open" THEN written + 1 ELSE local
          /\ written' = written + 1
          /\ Goto(t, "mark")
          /\ UNCHANGED <<opened, undefined>>
  /\ UNCHANGED <<cache, file_mutex, cache_mutex, server, notified, handles, calls, saved,
                 erasersMet, openersMet, usersMet, removed>>

\* cache[file_location].locally_modified = true makes an entry if there is none.
Mark(t) ==
  /\ At(t, "mark") /\ Global
  /\ cache' = "dirty"
  /\ Return(t)
  /\ UNCHANGED <<opened, file_mutex, cache_mutex, files, notified, undefined,
                 handles, calls, history>>

-----------------------------------------------------------------------------
(***************************************************************************)
(* close_file().  FUSE releases a handle once, after what was done by it.  *)
(***************************************************************************)
MayRelease == handles > 1 \/ \A u \in Thread : ~Busy(u, Users)

CloseBegins(t) ==
  /\ handles > 0 /\ MayRelease
  /\ handles' = handles - 1
  /\ UNCHANGED <<cache_mutex, files, notified, undefined, written, saved>>

\* "not open", "No mutex": nothing happens.
CloseRefused(t) ==
  /\ opened = "no" \/ file_mutex = NoMutex
  /\ CloseBegins(t)
  /\ Start(t, "close", Idle)
  /\ UNCHANGED maps

\* "Inconsistent state": open but not in the cache.
CloseUncached(t) ==
  /\ At(t, "idle") /\ Global /\ calls < MaxCalls
  /\ opened # "no" /\ file_mutex # NoMutex /\ cache = "none"
  /\ CloseBegins(t)
  /\ calls' = calls + 1 /\ Meet(t, "close")
  /\ EraseOpen(t, Idle)
  /\ UNCHANGED cache

\* needs_flush and the pointers to the streams are taken before the file's mutex.
CloseStart(t) ==
  /\ opened # "no" /\ file_mutex # NoMutex /\ cache # "none"
  /\ CloseBegins(t)
  /\ Start(t, "close", [Begin("close", "close_lock") EXCEPT
                          !.ref = IF cache = "dirty" THEN "streams" ELSE "none",
                          !.mutex = file_mutex, !.flush = (cache = "dirty")])
  /\ UNCHANGED maps

\* Mutation: the file's mutex is not waited for.
CloseLockAtOnce(t) ==
  /\ At(t, "close_lock")
  /\ Goto(t, IF thread[t].flush THEN "flush" ELSE "erase")
  /\ UNCHANGED <<maps, cache_mutex, files, notified, undefined, handles, calls, history>>

CloseLock(t) ==
  /\ At(t, "close_lock") /\ Free(thread[t].mutex)
  /\ Goto(t, IF thread[t].flush THEN "flush" ELSE "erase")
  /\ UNCHANGED <<maps, cache_mutex, files, notified, undefined, handles, calls, history>>

\* flush() finds the fail bit; or else the streams are closed, the second time
\* in vain, which sets it, and the file is opened to be sent.
Flush(t) ==
  /\ At(t, "flush")
  /\ IF thread[t].ref = "stale"
     THEN undefined' = TRUE /\ UNCHANGED <<opened, thread>>
     ELSE /\ opened' = ClosedAgain(opened)
          /\ IF opened = "failed" \/ local = NoFile THEN Return(t)
             ELSE thread' = [thread EXCEPT ![t].pc = "upload", ![t].data = local,
                                           ![t].ref = "none"]
          /\ UNCHANGED undefined
  /\ UNCHANGED <<cache, file_mutex, cache_mutex, files, notified, handles, calls,
                 history>>

Upload(t) ==
  /\ At(t, "upload")
  /\ server' = thread[t].data
  /\ saved' = IF thread[t].data > saved THEN thread[t].data ELSE saved
  /\ Goto(t, "unmark")
  /\ UNCHANGED <<maps, cache_mutex, local, notified, undefined, handles, calls, written,
                 erasersMet, openersMet, usersMet, removed>>

\* "RPC failed while flushing file to server": the entry stays.
UploadFails(t) ==
  /\ At(t, "upload")
  /\ Return(t)
  /\ UNCHANGED <<maps, cache_mutex, files, notified, undefined, handles, calls, history>>

\* Mutation: the mutex is erased only when nobody else refers to it.
UnmarkUnshared(t) ==
  /\ At(t, "unmark") /\ Global
  /\ \A u \in Thread \ {t} : thread[u].mutex # thread[t].mutex
  /\ cache' = IF cache = "none" THEN "none" ELSE "clean"
  /\ EraseOpen(t, Idle)
  /\ UNCHANGED <<cache_mutex, files, notified, undefined, handles, calls, history>>

\* cache is searched again, and the two other entries are erased by their key.
Unmark(t) ==
  /\ At(t, "unmark") /\ Global
  /\ cache' = IF cache = "none" THEN "none" ELSE "clean"
  /\ EraseOpen(t, Idle)
  /\ UNCHANGED <<cache_mutex, files, notified, undefined, handles, calls, history>>

CloseErase(t) ==
  /\ At(t, "erase") /\ Global
  /\ EraseOpen(t, Idle)
  /\ UNCHANGED <<cache, cache_mutex, files, notified, undefined, handles, calls, history>>

-----------------------------------------------------------------------------
(***************************************************************************)
(* delete_file().  "Check if file is currently being uploaded/closed by    *)
(* another thread": the file's mutex is waited for without cache_mutex,    *)
(* and released once that is locked again.                                 *)
(***************************************************************************)
DeleteStart(t) ==
  /\ file_mutex # NoMutex
  /\ Start(t, "delete", [Begin("delete", "delete_wait") EXCEPT !.mutex = file_mutex])
  /\ UNCHANGED <<maps, cache_mutex, files, notified, undefined, handles, written, saved>>

DeleteWait(t) ==
  /\ At(t, "delete_wait") /\ Free(thread[t].mutex)
  /\ Goto(t, "delete_lock")
  /\ UNCHANGED <<maps, cache_mutex, files, notified, undefined, handles, calls, history>>

DeleteLock(t) ==
  /\ At(t, "delete_lock") /\ Global
  /\ cache_mutex' = t
  /\ Goto(t, "delete_erase")
  /\ UNCHANGED <<maps, files, notified, undefined, handles, calls, history>>

\* The three caches and the mutex are erased, under cache_mutex.  The caller
\* wants nothing of the file kept.
Forget(t) ==
  /\ saved' = written
  /\ cache' = "none"
  /\ EraseOpen(t, Begin("delete", "delete_rpc"))
  /\ cache_mutex' = NoThread
  /\ UNCHANGED <<files, notified, undefined, handles, written>>

DeleteErase(t) ==
  /\ At(t, "delete_erase") /\ cache_mutex = t
  /\ Forget(t)
  /\ UNCHANGED <<calls, erasersMet, openersMet, usersMet, removed>>

\* There is no mutex to wait for.
DeleteClosed(t) ==
  /\ At(t, "idle") /\ Global /\ calls < MaxCalls /\ file_mutex = NoMutex
  /\ calls' = calls + 1 /\ Meet(t, "delete")
  /\ Forget(t)

DeleteRPC(t) ==
  /\ At(t, "delete_rpc")
  /\ IF server = NoFile THEN Return(t) ELSE Goto(t, "delete_local")
  /\ server' = NoFile
  /\ UNCHANGED <<maps, cache_mutex, local, notified, undefined, handles, calls, history>>

DeleteLocal(t) ==
  /\ At(t, "delete_local")
  /\ RemoveLocal
  /\ Return(t)
  /\ UNCHANGED <<cache, file_mutex, cache_mutex, server, notified, undefined,
                 handles, calls, history>>

-----------------------------------------------------------------------------
(***************************************************************************)
(* RunSubscriber(), and another client that stores or removes the file.    *)
(***************************************************************************)
Change ==
  /\ ~notified /\ notified' = TRUE
  /\ \/ server' = 0
     \/ server # NoFile /\ server' = NoFile
  /\ UNCHANGED <<maps, cache_mutex, local, thread, undefined, handles, calls, history>>

\* Mutation: the entry is dropped also while the file is open.
HandleNotificationAlways ==
  /\ notified /\ Global
  /\ notified' = FALSE
  /\ cache' = "none"
  /\ UNCHANGED <<opened, file_mutex, cache_mutex, files, thread, undefined,
                 handles, calls, history>>

\* "Do not invalidate our cache if we currently have the file opened".
HandleNotification ==
  /\ notified /\ Global
  /\ notified' = FALSE
  /\ cache' = IF opened = "no" THEN "none" ELSE cache
  /\ UNCHANGED <<opened, file_mutex, cache_mutex, files, thread, undefined,
                 handles, calls, history>>

Caller(t) ==
  \/ OpenStart(t) \/ OpenAgain(t) \/ CreateStart(t)
  \/ UseStart(t, "read") \/ UseStart(t, "write")
  \/ CloseRefused(t) \/ CloseUncached(t) \/ CloseStart(t)
  \/ DeleteStart(t) \/ DeleteClosed(t)

Continue(t) ==
  \/ Fetch(t) \/ FetchReply(t) \/ FetchFails(t) \/ EnterCache(t)
  \/ Install(t) \/ InstallFails(t)
  \/ CreateFile(t) \/ CreateEnter(t) \/ CreateInstall(t) \/ CreateStat(t)
  \/ UseLock(t) \/ UseStreams(t) \/ Mark(t)
  \/ CloseLock(t) \/ Flush(t) \/ Upload(t) \/ UploadFails(t) \/ Unmark(t)
  \/ CloseErase(t)
  \/ DeleteWait(t) \/ DeleteLock(t) \/ DeleteErase(t)
  \/ DeleteRPC(t) \/ DeleteLocal(t)

\* After undefined behaviour nothing is known.
Next ==
  \/ \E t \in Thread : Caller(t) /\ ~undefined
  \/ \E t \in Thread : Continue(t) /\ ~undefined
  \/ Change /\ ~undefined
  \/ HandleNotification /\ ~undefined

\* A thread inside an operation runs; calls and notifications need not come.
Fairness == \A t \in Thread : WF_vars(~undefined /\ Continue(t))

Spec == Init /\ [][Next]_vars /\ Fairness
-----------------------------------------------------------------------------
Uploading(t) == thread[t].pc \in {"flush", "upload", "unmark"} /\ thread[t].ref # "stale"
Writing(t)   == /\ thread[t].op = "write" /\ thread[t].ref # "stale"
                /\ thread[t].pc \in {"use_streams", "mark"}

(***************************************************************************)
(* "Lock File Mutex (Prevent local modification during upload)"            *)
(* (close_file): no thread writes to the file while another closes and     *)
(* uploads it.  Two cases are exceptions, since then the threads hold      *)
(* different mutexes of the same file: create_file() replaces the mutex    *)
(* that an open_file() beside it has made; and a close_file() or           *)
(* delete_file() erases, by its key, an entry that was made after another  *)
(* of them had erased its own.                                             *)
(***************************************************************************)
UploadIsAlone ==
  undefined \/ erasersMet \/ openersMet \/
    \A t, u \in Thread : Uploading(t) => ~Writing(u)

(***************************************************************************)
(* A successful write_file() stays in the local file and marked as         *)
(* "locally_modified" (filesystem_client.hpp) until it has been uploaded,  *)
(* whatever other clients store and whichever uploads fail: unless two     *)
(* opens or creates of the file overlap, or its use overlaps its close, or *)
(* the file is deleted beside another operation, or an open that failed    *)
(* has removed the file from under its open streams.                       *)
(***************************************************************************)
ModificationIsMarked ==
  \/ undefined \/ openersMet \/ usersMet \/ removed
  \/ \E t \in Thread : At(t, "mark")
  \/ written > saved => cache = "dirty" /\ local = written

(***************************************************************************)
(* "Check if file is currently being uploaded/closed by another thread"    *)
(* (delete_file): no two operations wait for each other's mutex,           *)
(* so that each of them returns.                                           *)
(***************************************************************************)
OperationsReturn == \A t \in Thread : []<>(undefined \/ At(t, "idle"))
=============================================================================
