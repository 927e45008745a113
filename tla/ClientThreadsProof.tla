------------------------- MODULE ClientThreadsProof -------------------------
(***************************************************************************)
(* What the mutexes of the client protect, for any number of threads and   *)
(* of operations.                                                          *)
(***************************************************************************)
EXTENDS ClientThreads, FiniteSetTheorems, TLAPS

OpenSteps   == {"fetch", "reply", "enter", "install", "reopen"}
CreateSteps == {"create_file", "create_enter", "create_install", "create_stat"}
UseSteps    == {"use_lock", "use_streams", "mark"}
CloseSteps  == {"close_lock", "flush", "upload", "unmark", "erase"}
DeleteSteps == {"delete_wait", "delete_lock", "delete_erase", "delete_rpc",
                "delete_local"}

(***************************************************************************)
(* A thread is at a step of its operation, and keeps of opened_files what  *)
(* this operation takes.                                                   *)
(***************************************************************************)
ShapeOK ==
  \A t \in Thread :
    LET r == thread[t] IN
    /\ r.pc = "idle" => r = Idle
    /\ r.op = "none"   <=> r.pc = "idle"
    /\ r.op = "open"   <=> r.pc \in OpenSteps
    /\ r.op = "create" <=> r.pc \in CreateSteps
    /\ r.op \in Users  <=> r.pc \in UseSteps
    /\ r.op = "close"  <=> r.pc \in CloseSteps
    /\ r.op = "delete" <=> r.pc \in DeleteSteps
    /\ r.op \in Users  <=> r.ref = "node" \/ (r.ref = "stale" /\ r.op # "close")
    /\ r.pc = "mark" => r.op = "write"
    /\ r.ref = "streams" => r.pc \in {"close_lock", "flush"} /\ r.flush
    /\ r.flush /\ r.pc \in {"close_lock", "flush"} => r.ref \in {"streams", "stale"}
    /\ r.pc \in {"flush", "upload", "unmark"} => r.flush
    /\ r.pc = "erase" => ~r.flush

\* A mutex has one holder.
LockOK == \A t, u \in Thread :
  t # u /\ thread[t].pc \in Holding /\ thread[u].pc \in Holding =>
    thread[t].mutex # thread[u].mutex

\* Entries of opened_files and file_mutexes come and go together.
EntriesOK == opened = "no" <=> file_mutex = NoMutex

(***************************************************************************)
(* Every handle and every write comes from a call: those in progress count *)
(* already.                                                                *)
(***************************************************************************)
Opening == {t \in Thread : Busy(t, Openers)}
ToWrite == {t \in Thread : thread[t].op = "write" /\ thread[t].pc # "mark"}

CountOK ==
  /\ handles + Cardinality(Opening) <= calls + 1
  /\ written + Cardinality(ToWrite) <= calls

\* The history variables: operations that have not met do not overlap now.
AloneOK ==
  \A t \in Thread : \A u \in Thread \ {t} :
    /\ Busy(t, Erasers) /\ Busy(u, Erasers) => erasersMet
    /\ Busy(t, Openers) /\ Busy(u, Openers) => openersMet
    /\ Busy(t, Users) /\ Busy(u, Erasers) => usersMet
    /\ Busy(t, {"delete"}) /\ Busy(u, Operation) => usersMet

(***************************************************************************)
(* The mutex a thread has found is still the one of the file, as long as   *)
(* what the thread found it with is not erased.                            *)
(***************************************************************************)
FoundOK ==
  \A t \in Thread :
    /\ thread[t].ref \in {"node", "streams"} => opened # "no"
    /\ ~openersMet =>
         /\ thread[t].op = "create" /\ ~At(t, "create_stat") => opened = "no"
         /\ thread[t].ref = "node" => thread[t].mutex = file_mutex
         /\ ~erasersMet /\ thread[t].op = "close" =>
              opened # "no" /\ thread[t].mutex = file_mutex

(***************************************************************************)
(* Where a modification is, if nothing has overlapped that may lose one.   *)
(***************************************************************************)
Modified == written > saved

CachedOK ==
  /\ cache # "none" => local # NoFile
  /\ opened # "detached"

ModifiedOK ==
  Modified =>
    /\ opened # "no" /\ local = written
    /\ cache = "dirty" \/ \E t \in Thread : At(t, "mark")

OperationOK(t) ==
  LET r == thread[t] IN
  /\ r.pc \in {"fetch", "reply", "enter", "create_file", "create_enter",
               "delete_rpc", "delete_local"} => cache = "none"
  /\ r.pc \in {"enter", "install", "create_enter", "create_install"} => local # NoFile
  /\ r.op \in Users => r.ref = "node" /\ cache # "none"
  /\ r.op = "close" /\ ~r.flush => ~Modified
  /\ r.pc = "upload" => r.data # NoFile /\ (Modified => r.data = written)
  /\ r.pc = "unmark" => ~Modified
  /\ r.pc \in {"delete_rpc", "delete_local"} => opened = "no" /\ ~Modified

MarkedOK ==
  openersMet \/ usersMet \/ removed \/
    (CachedOK /\ ModifiedOK /\ \A t \in Thread : OperationOK(t))

ThreadsInv ==
  /\ TypeOK /\ ShapeOK /\ LockOK /\ EntriesOK /\ CountOK /\ AloneOK /\ FoundOK
  /\ MarkedOK

-----------------------------------------------------------------------------
(***************************************************************************)
(* The threads.                                                            *)
(***************************************************************************)
\* There is always a mutex nobody refers to: make_shared() does not fail.
LEMMA NewMutexIsNew ==
  ASSUME TypeOK
  PROVE  /\ NewMutex \in Mutexes /\ NewMutex # NoMutex
         /\ \A u \in Thread : thread[u].mutex # NewMutex
<1> DEFINE Used == {thread[u].mutex : u \in Thread}
           N    == Cardinality(Thread)
<1>1. N \in Nat
  BY ThreadAssumption, FS_CardinalityType
<1>2. IsFiniteSet(Used) /\ Cardinality(Used) \in Nat /\ Cardinality(Used) <= N
  <2> DEFINE f == [u \in Thread |-> thread[u].mutex]
  <2>1. f \in Surjection(Thread, Used)
    BY DEF Surjection
  <2> QED
    BY ThreadAssumption, <2>1, FS_Surjection, FS_CardinalityType
<1>3. IsFiniteSet(Used \cup {file_mutex}) /\ Cardinality(Used \cup {file_mutex}) \in Nat
      /\ Cardinality(Used \cup {file_mutex}) <= N + 1
  <2>1. IsFiniteSet(Used \cup {file_mutex})
    BY <1>2, FS_AddElement
  <2>2. Cardinality(Used \cup {file_mutex}) =
          IF file_mutex \in Used THEN Cardinality(Used) ELSE Cardinality(Used) + 1
    BY <1>2, FS_AddElement
  <2>3. Cardinality(Used \cup {file_mutex}) \in Nat
    BY <2>1, FS_CardinalityType
  <2> QED
    BY <1>1, <1>2, <2>1, <2>2, <2>3
<1>4. Mutexes \ {NoMutex} = 1 .. N + 2
  BY <1>1 DEF Mutexes, NoMutex
<1>5. IsFiniteSet(1 .. N + 2) /\ Cardinality(1 .. N + 2) = N + 2
  <2>1. 1 \in Int /\ N + 2 \in Int /\ N + 2 - 1 + 1 = N + 2 /\ ~(1 > N + 2)
    BY <1>1
  <2> QED
    BY <2>1, FS_Interval
<1>6. PICK m \in 1 .. N + 2 : m \notin Used \cup {file_mutex}
  <2>1. SUFFICES ASSUME 1 .. N + 2 \subseteq Used \cup {file_mutex} PROVE FALSE
    OBVIOUS
  <2>2. Cardinality(1 .. N + 2) <= Cardinality(Used \cup {file_mutex})
    BY <1>3, <2>1, FS_Subset
  <2> QED
    BY <1>1, <1>3, <1>5, <2>2
<1>7. m \in Mutexes \ {NoMutex, file_mutex} /\ \A u \in Thread : thread[u].mutex # m
  BY <1>4, <1>6
<1> QED
  BY <1>7 DEF NewMutex

\* A step of a thread, of whichever operation.
Steps(t) == Caller(t) \/ Continue(t)

\* The threads keep their types, whatever one of them does.
LEMMA ThreadStepTypes ==
  ASSUME TypeOK, NEW t \in Thread, Steps(t)
  PROVE  thread' \in [Thread -> ThreadRecord]
<1> USE DEF TypeOK
<1>1. /\ Idle \in ThreadRecord
      /\ \A o \in Operation, l \in Step : Begin(o, l) \in ThreadRecord
  <2>1. NoMutex \in Mutexes /\ NoFile \in Content \cup {NoFile}
    BY ThreadAssumption, FS_CardinalityType DEF NoMutex, Mutexes
  <2> QED
    <3> USE <2>1 DEF Idle, ThreadRecord, Operation, Step, Reference, Locking, Holding
    <3>1. Idle \in ThreadRecord
      OBVIOUS
    <3>2. ASSUME NEW o \in Operation, NEW l \in Step
          PROVE  Begin(o, l) \in ThreadRecord
      BY DEF Begin
    <3> QED
      BY <3>1, <3>2
<1>2. ASSUME NEW l \in Step, Goto(t, l) PROVE thread' \in [Thread -> ThreadRecord]
  BY <1>2 DEF Goto, ThreadRecord
<1>3. ASSUME NEW r \in ThreadRecord, NEW refs, Invalidate(t, r, refs)
      PROVE  thread' \in [Thread -> ThreadRecord]
  BY <1>3 DEF Invalidate, ThreadRecord, Reference
<1>4. ASSUME Return(t) PROVE thread' \in [Thread -> ThreadRecord]
  BY <1>1, <1>4 DEF Return
<1>5. ASSUME NEW o, NEW r \in ThreadRecord, Start(t, o, r)
      PROVE thread' \in [Thread -> ThreadRecord]
  BY <1>5 DEF Start
<1> USE DEF Step, Locking, Holding
<1>6. \A r \in ThreadRecord, m \in Mutexes : [r EXCEPT !.mutex = m] \in ThreadRecord
  BY DEF ThreadRecord
<1>7. \A r \in ThreadRecord, f \in Reference, m \in Mutexes :
         [r EXCEPT !.ref = f, !.mutex = m] \in ThreadRecord
  BY DEF ThreadRecord
<1>8. \A r \in ThreadRecord, f \in Reference, m \in Mutexes, b \in BOOLEAN :
         [r EXCEPT !.ref = f, !.mutex = m, !.flush = b] \in ThreadRecord
  BY DEF ThreadRecord
<1>9. \A r \in ThreadRecord, l \in Step, d \in Content \cup {NoFile}, f \in Reference :
         [r EXCEPT !.pc = l, !.data = d, !.ref = f] \in ThreadRecord
  <2> HIDE DEF TypeOK, Step, Locking, Holding
  <2> QED
    BY DEF ThreadRecord
<1>10. CASE OpenStart(t) \/ CreateStart(t) \/ CloseRefused(t)
  BY <1>1, <1>5, <1>10 DEF OpenStart, CreateStart, CloseRefused, Operation
<1>11. CASE OpenAgain(t)
  BY <1>11 DEF OpenAgain
<1>12. ASSUME NEW o \in Users, UseStart(t, o) PROVE thread' \in [Thread -> ThreadRecord]
  <2>1. [Begin(o, "use_lock") EXCEPT !.ref = "node", !.mutex = file_mutex]
          \in ThreadRecord
    BY <1>1, <1>7 DEF Users, Operation, Reference
  <2> QED
    BY <1>1, <1>5, <1>12, <2>1 DEF UseStart
<1>13. CASE CloseStart(t)
  <2>1. [Begin("close", "close_lock") EXCEPT
           !.ref = IF cache = "dirty" THEN "streams" ELSE "none",
           !.mutex = file_mutex, !.flush = (cache = "dirty")] \in ThreadRecord
    BY <1>1, <1>8 DEF Operation, Reference
  <2> QED
    BY <1>5, <1>13, <2>1 DEF CloseStart
<1>14. CASE DeleteStart(t)
  <2>1. [Begin("delete", "delete_wait") EXCEPT !.mutex = file_mutex] \in ThreadRecord
    BY <1>1, <1>6 DEF Operation
  <2> QED
    BY <1>5, <1>14, <2>1 DEF DeleteStart
<1>15. CASE CloseUncached(t) \/ Unmark(t) \/ CloseErase(t) \/ DeleteErase(t)
            \/ DeleteClosed(t)
  BY <1>1, <1>3, <1>15 DEF CloseUncached, Unmark, CloseErase, DeleteErase, DeleteClosed,
     Forget, EraseOpen, Operation
<1>16. CASE Install(t) \/ CreateInstall(t)
  BY <1>1, <1>3, <1>4, <1>16 DEF Install, CreateInstall, EnterOpen, Operation
<1>17. CASE FetchFails(t) \/ InstallFails(t) \/ CreateStat(t) \/ Mark(t)
            \/ UploadFails(t) \/ DeleteLocal(t)
  BY <1>4, <1>17 DEF FetchFails, InstallFails, CreateStat, Mark, UploadFails, DeleteLocal
<1>18. CASE \/ Fetch(t) \/ FetchReply(t) \/ EnterCache(t) \/ CreateFile(t)
            \/ CreateEnter(t) \/ UseLock(t) \/ CloseLock(t) \/ Upload(t)
            \/ DeleteWait(t) \/ DeleteLock(t)
  BY <1>2, <1>18 DEF Fetch, FetchReply, EnterCache, CreateFile, CreateEnter, UseLock,
     CloseLock, Upload, DeleteWait, DeleteLock
<1>19. CASE UseStreams(t) \/ DeleteRPC(t)
  BY <1>2, <1>4, <1>19 DEF UseStreams, DeleteRPC
<1>20. CASE Flush(t)
  <2>1. ASSUME thread' = [thread EXCEPT ![t].pc = "upload", ![t].data = local,
                                        ![t].ref = "none"]
        PROVE  thread' \in [Thread -> ThreadRecord]
    BY <1>9, <2>1 DEF Reference
  <2> QED
    BY <1>4, <1>20, <2>1 DEF Flush
<1> QED
  BY <1>10, <1>11, <1>12, <1>13, <1>14, <1>15, <1>16, <1>17, <1>18, <1>19, <1>20
  DEF Steps, Caller, Continue, Users

(***************************************************************************)
(* A step of one thread leaves the others where they are.  It may make     *)
(* their references stale: those to the streams, and all of them if it     *)
(* erases the entry.                                                       *)
(***************************************************************************)
LEMMA OthersKept ==
  ASSUME TypeOK, NEW t \in Thread, Steps(t), NEW u \in Thread \ {t}
  PROVE  /\ thread'[u].op = thread[u].op /\ thread'[u].pc = thread[u].pc
         /\ thread'[u].mutex = thread[u].mutex /\ thread'[u].flush = thread[u].flush
         /\ thread'[u].data = thread[u].data
         /\ \/ thread'[u].ref = thread[u].ref
            \/ thread[u].ref = "streams" /\ thread'[u].ref = "stale"
            \/ thread[u].ref = "node" /\ thread'[u].ref = "stale" /\ opened' = "no"
         /\ opened # "no" /\ opened' = "no" => thread'[u].ref \notin {"node", "streams"}
<1> DEFINE R == thread'[u]
<1> DEFINE Kept == R = thread[u] /\ (opened' = opened \/ opened' # "no")
<1> DEFINE Goal ==
         /\ R.op = thread[u].op /\ R.pc = thread[u].pc
         /\ R.mutex = thread[u].mutex /\ R.flush = thread[u].flush
         /\ R.data = thread[u].data
         /\ \/ R.ref = thread[u].ref
            \/ thread[u].ref = "streams" /\ R.ref = "stale"
            \/ thread[u].ref = "node" /\ R.ref = "stale" /\ opened' = "no"
         /\ opened # "no" /\ opened' = "no" => R.ref \notin {"node", "streams"}
<1> USE DEF TypeOK
<1>1. ASSUME Kept PROVE Goal
  BY <1>1
<1>2. ASSUME NEW r, thread' = [thread EXCEPT ![t] = r], opened' = opened PROVE Kept
  BY <1>2
<1>3. ASSUME Goto(t, thread'[t].pc) \/ Return(t), opened' = opened \/ opened' # "no"
      PROVE  Kept
  BY <1>3 DEF Goto, Return
<1>4. ASSUME NEW r, EraseOpen(t, r) PROVE Goal
  BY <1>4 DEF EraseOpen, Invalidate, ThreadRecord
<1>5. ASSUME NEW r, EnterOpen(t, r) PROVE Goal
  BY <1>5 DEF EnterOpen, Invalidate, ThreadRecord
<1>6. ASSUME RemoveLocal PROVE opened' = opened \/ opened' # "no"
  BY <1>6 DEF RemoveLocal
<1>7. ASSUME NEW o, NEW r, Start(t, o, r), opened' = opened PROVE Kept
  BY <1>2, <1>7 DEF Start
<1>8. CASE Caller(t)
  BY <1>1, <1>4, <1>7, <1>8 DEF Caller, OpenStart, OpenAgain, CreateStart, UseStart,
     CloseRefused, CloseUncached, CloseStart, DeleteStart, DeleteClosed, Forget, maps
<1>9. CASE Fetch(t) \/ FetchReply(t) \/ EnterCache(t) \/ CreateFile(t) \/ CreateEnter(t)
           \/ UseLock(t) \/ CloseLock(t) \/ Upload(t) \/ DeleteWait(t) \/ DeleteLock(t)
  <2>1. PICK l : Goto(t, l) /\ opened' = opened
    BY <1>9 DEF Fetch, FetchReply, EnterCache, CreateFile, CreateEnter, UseLock,
       CloseLock, Upload, DeleteWait, DeleteLock, maps
  <2> QED
    BY <1>1, <2>1 DEF Goto
<1>10. CASE FetchFails(t) \/ InstallFails(t) \/ CreateStat(t) \/ Mark(t)
            \/ UploadFails(t) \/ DeleteLocal(t)
  BY <1>1, <1>3, <1>6, <1>10 DEF FetchFails, InstallFails, CreateStat, Mark, UploadFails,
     DeleteLocal, maps
<1>11. CASE UseStreams(t) \/ DeleteRPC(t)
  <2>1. /\ Return(t) \/ (\E l : Goto(t, l)) \/ thread' = thread
        /\ opened' = opened \/ opened' # "no"
    BY <1>11 DEF UseStreams, DeleteRPC, maps, Cleared
  <2> QED
    BY <1>1, <2>1 DEF Goto, Return
<1>12. CASE Install(t) \/ CreateInstall(t)
  BY <1>1, <1>3, <1>5, <1>12 DEF Install, CreateInstall
<1>13. CASE Unmark(t) \/ CloseErase(t) \/ DeleteErase(t)
  BY <1>4, <1>13 DEF Unmark, CloseErase, DeleteErase, Forget
<1>14. CASE Flush(t)
  <2>1. opened' # "no" \/ opened' = opened
    BY <1>14 DEF Flush, ClosedAgain
  <2>2. thread'[u] = thread[u]
    BY <1>14 DEF Flush, Return
  <2> QED
    BY <1>1, <2>1, <2>2
<1> QED
  BY <1>8, <1>9, <1>10, <1>11, <1>12, <1>13, <1>14 DEF Steps, Continue

-----------------------------------------------------------------------------
(***************************************************************************)
(* The shape of the threads, the maps and the locks.                       *)
(***************************************************************************)
\* A thread is at a step of its operation, whatever it does.
LEMMA ShapeKept ==
  ASSUME TypeOK, ShapeOK, NEW t \in Thread, Steps(t)
  PROVE  ShapeOK'
<1> USE DEF TypeOK
<1> DEFINE OfShape(r) ==
    /\ r.pc = "idle" => r = Idle
    /\ r.op = "none"   <=> r.pc = "idle"
    /\ r.op = "open"   <=> r.pc \in OpenSteps
    /\ r.op = "create" <=> r.pc \in CreateSteps
    /\ r.op \in Users  <=> r.pc \in UseSteps
    /\ r.op = "close"  <=> r.pc \in CloseSteps
    /\ r.op = "delete" <=> r.pc \in DeleteSteps
    /\ r.op \in Users  <=> r.ref = "node" \/ (r.ref = "stale" /\ r.op # "close")
    /\ r.pc = "mark" => r.op = "write"
    /\ r.ref = "streams" => r.pc \in {"close_lock", "flush"} /\ r.flush
    /\ r.flush /\ r.pc \in {"close_lock", "flush"} => r.ref \in {"streams", "stale"}
    /\ r.pc \in {"flush", "upload", "unmark"} => r.flush
    /\ r.pc = "erase" => ~r.flush
<1>1. thread' \in [Thread -> ThreadRecord] /\ \A u \in Thread : OfShape(thread[u])
  BY ThreadStepTypes DEF ShapeOK
<1>2. ASSUME NEW u \in Thread \ {t} PROVE OfShape(thread'[u])
  <2>1. OfShape(thread[u]) /\ thread[u] \in ThreadRecord /\ thread'[u] \in ThreadRecord
    BY <1>1
  <2>2. CASE thread'[u] = thread[u]
    BY <2>1, <2>2
  <2>3. CASE thread'[u].ref # thread[u].ref
    <3>1. thread[u].pc # "idle"
      BY <2>1, <2>3, OthersKept DEF Idle
    <3> QED
      BY <2>1, <2>3, <3>1, OthersKept DEF Users, UseSteps, CloseSteps
  <2>4. CASE thread'[u].ref = thread[u].ref
    <3>1. thread'[u] = thread[u]
      BY <2>1, <2>4, OthersKept DEF ThreadRecord
    <3> QED
      BY <2>1, <3>1
  <2> QED
    BY <2>3, <2>4
<1>3. OfShape(Idle)
  BY DEF Idle, OpenSteps, CreateSteps, UseSteps, CloseSteps, DeleteSteps, Users
<1>4. OfShape(thread'[t])
  <2> USE DEF OpenSteps, CreateSteps, UseSteps, CloseSteps, DeleteSteps, Users, At
  <2>1. ASSUME thread'[t] = Idle PROVE OfShape(thread'[t])
    BY <1>3, <2>1
  <2>2. thread[t] \in ThreadRecord /\ OfShape(thread[t])
    BY <1>1
  <2> USE <1>1, <2>2
  <2>3. ASSUME NEW l, Goto(t, l)
         PROVE  /\ thread'[t].pc = l /\ thread'[t].op = thread[t].op
                /\ thread'[t].ref = thread[t].ref /\ thread'[t].flush = thread[t].flush
    BY <2>3 DEF Goto, ThreadRecord
  <2>4. ASSUME NEW o \in {"open", "create", "delete"},
                NEW l \in OpenSteps \cup CreateSteps \cup DeleteSteps,
                thread'[t] = Begin(o, l),
                o = "open" <=> l \in OpenSteps, o = "create" <=> l \in CreateSteps
         PROVE  OfShape(thread'[t])
    BY <2>4 DEF Begin, Idle
  <2>5. CASE Caller(t)
    <3> USE DEF Start
    <3>1. CASE OpenStart(t)
      BY <2>4, <3>1 DEF OpenStart
    <3>2. CASE CreateStart(t)
      BY <2>4, <3>2 DEF CreateStart
    <3>3. CASE OpenAgain(t) \/ CloseRefused(t)
      BY <2>1, <3>3 DEF OpenAgain, CloseRefused
    <3>4. CASE \E o \in Users : UseStart(t, o)
      BY <2>1, <3>4 DEF UseStart, Begin, Idle
    <3>5. CASE CloseStart(t)
      <4> DEFINE r == [Begin("close", "close_lock") EXCEPT
                         !.ref = IF cache = "dirty" THEN "streams" ELSE "none",
                         !.mutex = file_mutex, !.flush = (cache = "dirty")]
      <4>1. thread'[t] = r
        BY <3>5 DEF CloseStart
      <4>2. OfShape(r)
        <5>1. /\ r.op = "close" /\ r.pc = "close_lock" /\ r.flush = (cache = "dirty")
              /\ r.ref = IF cache = "dirty" THEN "streams" ELSE "none"
          BY DEF Begin, Idle
        <5>2. Idle.pc = "idle"
          BY DEF Idle
        <5> HIDE DEF r
        <5> QED
          BY <5>1, <5>2
      <4> QED
        BY <4>1, <4>2
    <3>6. CASE DeleteStart(t)
      BY <3>6 DEF DeleteStart, Begin, Idle
    <3>7. CASE CloseUncached(t)
      BY <2>1, <3>7 DEF CloseUncached, EraseOpen, Invalidate
    <3>8. CASE DeleteClosed(t)
      BY <2>4, <3>8 DEF DeleteClosed, Forget, EraseOpen, Invalidate
    <3> QED
      BY <2>5, <3>1, <3>4, <3>5, <3>6, <3>7, <3>2, <3>3, <3>8 DEF Caller
  <2>6. CASE Fetch(t) \/ FetchReply(t) \/ EnterCache(t) \/ CreateFile(t) \/ CreateEnter(t)
    BY <2>6, <2>3 DEF Fetch, FetchReply, EnterCache, CreateFile, CreateEnter
  <2>7. CASE UseLock(t) \/ Upload(t) \/ DeleteWait(t) \/ DeleteLock(t)
    BY <2>7, <2>3 DEF UseLock, Upload, DeleteWait, DeleteLock
  <2>8. CASE CloseLock(t)
    <3>1. /\ thread'[t].pc = IF thread[t].flush THEN "flush" ELSE "erase"
          /\ thread[t].pc = "close_lock" /\ thread'[t].op = "close"
          /\ thread'[t].ref = thread[t].ref /\ thread'[t].flush = thread[t].flush
      BY <2>8, <2>3 DEF CloseLock
    <3>2. CASE thread[t].flush
      <4>1. thread'[t].pc = "flush" /\ thread'[t].flush
        BY <3>1, <3>2
      <4>2. thread'[t].ref \in {"streams", "stale"}
        BY <3>1, <3>2
      <4> QED
        BY <3>1, <4>1, <4>2
    <3>3. CASE ~thread[t].flush
      <4>1. thread'[t].pc = "erase" /\ ~thread'[t].flush
        BY <3>1, <3>3
      <4>2. thread'[t].ref \notin {"node", "streams"}
        BY <3>1, <3>3
      <4> QED
        BY <3>1, <4>1, <4>2
    <3> QED
      BY <3>2, <3>3
  <2>9. CASE FetchFails(t) \/ InstallFails(t) \/ CreateStat(t) \/ Mark(t)
             \/ UploadFails(t) \/ DeleteLocal(t)
    BY <2>1, <2>9 DEF FetchFails, InstallFails, CreateStat, Mark, UploadFails,
       DeleteLocal, Return
  <2>10. CASE UseStreams(t) \/ DeleteRPC(t)
    BY <2>1, <2>10, <2>3 DEF UseStreams, DeleteRPC, Return
  <2>11. CASE Install(t) \/ CreateInstall(t)
    BY <2>1, <2>4, <2>11 DEF Install, CreateInstall, EnterOpen, Invalidate, Return
  <2>12. CASE Unmark(t) \/ CloseErase(t)
    BY <2>1, <2>12 DEF Unmark, CloseErase, EraseOpen, Invalidate
  <2>13. CASE DeleteErase(t)
    BY <2>13, <2>4 DEF DeleteErase, Forget, EraseOpen, Invalidate
  <2>14. CASE Flush(t)
    <3>1. ASSUME thread' = [thread EXCEPT ![t].pc = "upload", ![t].data = local,
                                          ![t].ref = "none"]
          PROVE  /\ thread'[t].pc = "upload" /\ thread'[t].op = thread[t].op
                 /\ thread'[t].ref = "none" /\ thread'[t].flush = thread[t].flush
      BY <3>1 DEF ThreadRecord
    <3> QED
      BY <2>1, <2>14, <3>1 DEF Flush, Return
  <2> QED
    BY <2>5, <2>6, <2>7, <2>9, <2>10, <2>11, <2>12, <2>13, <2>14, <2>8 DEF Steps, Continue
<1>5. \A u \in Thread : OfShape(thread'[u])
  BY <1>2, <1>4
<1> QED
  BY <1>5 DEF ShapeOK

\* opened_files and file_mutexes are entered and erased together.
LEMMA EntriesKept ==
  ASSUME TypeOK, ShapeOK, FoundOK, EntriesOK, NEW t \in Thread, Steps(t)
  PROVE  EntriesOK'
<1> USE DEF EntriesOK
<1>1. ASSUME UNCHANGED <<opened, file_mutex>> PROVE EntriesOK'
  BY <1>1
<1>2. ASSUME RemoveLocal, UNCHANGED file_mutex PROVE EntriesOK'
  BY <1>2 DEF RemoveLocal
<1>3. ASSUME NEW r, EraseOpen(t, r) PROVE EntriesOK'
  BY <1>3 DEF EraseOpen
<1>4. CASE Caller(t)
  BY <1>1, <1>3, <1>4 DEF Caller, OpenStart, OpenAgain, CreateStart, UseStart,
     CloseRefused, CloseUncached, CloseStart, DeleteStart, DeleteClosed, Forget, maps
<1>5. CASE Install(t) \/ CreateInstall(t)
  BY <1>1, <1>5, NewMutexIsNew DEF Install, CreateInstall, EnterOpen
<1>6. CASE \/ Fetch(t) \/ FetchReply(t) \/ EnterCache(t) \/ CreateFile(t)
           \/ CreateEnter(t) \/ UseLock(t) \/ CloseLock(t) \/ Upload(t)
           \/ DeleteWait(t) \/ DeleteLock(t) \/ InstallFails(t) \/ CreateStat(t)
           \/ Mark(t) \/ UploadFails(t) \/ DeleteRPC(t)
  BY <1>1, <1>6 DEF Fetch, FetchReply, EnterCache, CreateFile, CreateEnter, UseLock,
     CloseLock, Upload, DeleteWait, DeleteLock, InstallFails, CreateStat, Mark,
     UploadFails, DeleteRPC, maps
<1>7. CASE FetchFails(t) \/ DeleteLocal(t)
  BY <1>2, <1>7 DEF FetchFails, DeleteLocal
<1>8. CASE Unmark(t) \/ CloseErase(t) \/ DeleteErase(t)
  BY <1>3, <1>8 DEF Unmark, CloseErase, DeleteErase, Forget
<1>9. CASE Flush(t)
  <2>1. thread[t].ref = "streams" \/ thread[t].ref = "stale"
    BY <1>9 DEF Flush, ShapeOK, At
  <2> QED
    BY <1>9, <2>1 DEF Flush, FoundOK, ClosedAgain
<1>10. CASE UseStreams(t)
  BY <1>10 DEF UseStreams, Cleared
<1> QED
  BY <1>4, <1>5, <1>6, <1>7, <1>8, <1>9, <1>10 DEF Steps, Continue

(***************************************************************************)
(* A thread that holds a mutex after its step has held it before, or has   *)
(* found it free.                                                          *)
(***************************************************************************)
LEMMA HeldOrFree ==
  ASSUME TypeOK, ShapeOK, NEW t \in Thread, Steps(t), thread'[t].pc \in Holding
  PROVE  /\ thread'[t].mutex = thread[t].mutex
         /\ \/ thread[t].pc \in Holding
            \/ thread[t].pc \in Locking /\ Free(thread[t].mutex)
<1> USE DEF TypeOK, Holding, Locking, At
<1>1. Idle.pc \notin Holding /\ \A o, l : Begin(o, l).pc = l
  BY DEF Idle, Begin
<1>2. ASSUME NEW l, Goto(t, l)
      PROVE thread'[t].pc = l /\ thread'[t].mutex = thread[t].mutex
  BY <1>2 DEF Goto, ThreadRecord
<1>3. ASSUME NEW r, NEW refs, Invalidate(t, r, refs) PROVE thread'[t] = r
  BY <1>3 DEF Invalidate
<1>4. ASSUME Return(t) PROVE FALSE
  BY <1>1, <1>4 DEF Return
<1>5. ASSUME NEW o, NEW r, Start(t, o, r) PROVE thread'[t] = r
  BY <1>5 DEF Start
<1>6. CASE Caller(t)
  <2>1. CASE OpenAgain(t)
    BY <1>1, <2>1 DEF OpenAgain, ShapeOK
  <2>2. CASE OpenStart(t) \/ CreateStart(t) \/ CloseRefused(t)
    BY <1>1, <1>5, <2>2 DEF OpenStart, CreateStart, CloseRefused
  <2>3. ASSUME NEW o \in Users, UseStart(t, o)
        PROVE thread'[t].pc \in {"idle", "use_lock"}
    <3>1. [Begin(o, "use_lock") EXCEPT !.ref = "node", !.mutex = file_mutex].pc
            = "use_lock"
          /\ Idle.pc = "idle"
      BY DEF Begin, Idle
    <3> QED
      BY <1>5, <2>3, <3>1 DEF UseStart
  <2>4. CASE CloseStart(t) \/ DeleteStart(t)
    <3>1. CASE CloseStart(t)
      <4>1. thread'[t] = [Begin("close", "close_lock") EXCEPT
                            !.ref = IF cache = "dirty" THEN "streams" ELSE "none",
                            !.mutex = file_mutex, !.flush = (cache = "dirty")]
        BY <1>5, <3>1 DEF CloseStart
      <4> QED
        BY <4>1 DEF Begin, Idle
    <3>2. CASE DeleteStart(t)
      BY <1>5, <3>2 DEF DeleteStart, Begin, Idle
    <3> QED
      BY <2>4, <3>1, <3>2
  <2>5. CASE CloseUncached(t) \/ DeleteClosed(t)
    BY <1>1, <1>3, <2>5 DEF CloseUncached, DeleteClosed, Forget, EraseOpen
  <2> QED
    BY <1>6, <2>1, <2>2, <2>3, <2>4, <2>5 DEF Caller, Users
<1>7. CASE Fetch(t) \/ FetchReply(t) \/ EnterCache(t) \/ CreateFile(t) \/ CreateEnter(t)
  BY <1>2, <1>7 DEF Fetch, FetchReply, EnterCache, CreateFile, CreateEnter
<1>8. CASE UseLock(t) \/ CloseLock(t) \/ DeleteWait(t)
  BY <1>2, <1>8 DEF UseLock, CloseLock, DeleteWait
<1>9. CASE Upload(t) \/ DeleteLock(t)
  BY <1>2, <1>9 DEF Upload, DeleteLock
<1>10. CASE FetchFails(t) \/ InstallFails(t) \/ CreateStat(t) \/ Mark(t)
            \/ UploadFails(t) \/ DeleteLocal(t)
  BY <1>4, <1>10 DEF FetchFails, InstallFails, CreateStat, Mark, UploadFails, DeleteLocal
<1>11. CASE UseStreams(t) \/ DeleteRPC(t)
  BY <1>2, <1>4, <1>11 DEF UseStreams, DeleteRPC
<1>12. CASE Install(t) \/ CreateInstall(t)
  BY <1>1, <1>3, <1>4, <1>12 DEF Install, CreateInstall, EnterOpen
<1>13. CASE Unmark(t) \/ CloseErase(t) \/ DeleteErase(t)
  BY <1>1, <1>3, <1>13 DEF Unmark, CloseErase, DeleteErase, Forget, EraseOpen
<1>14. CASE Flush(t)
  <2>1. ASSUME thread' = [thread EXCEPT ![t].pc = "upload", ![t].data = local,
                                        ![t].ref = "none"]
        PROVE  thread'[t].mutex = thread[t].mutex
    BY <2>1 DEF ThreadRecord
  <2> QED
    BY <1>4, <1>14, <2>1 DEF Flush
<1> QED
  BY <1>6, <1>7, <1>8, <1>9, <1>10, <1>11, <1>12, <1>13, <1>14 DEF Steps, Continue

\* A mutex has one holder: whoever locks it has waited until it was free.
LEMMA LockKept ==
  ASSUME TypeOK, ShapeOK, LockOK, NEW t \in Thread, Steps(t)
  PROVE  LockOK'
<1>1. \A u \in Thread \ {t} :
        thread'[u].pc = thread[u].pc /\ thread'[u].mutex = thread[u].mutex
  BY OthersKept
<1> QED
  BY <1>1, HeldOrFree DEF LockOK, Free

(***************************************************************************)
(* A thread goes on with its operation or returns, or calls one, and then  *)
(* the history variables say whom it meets; what they say stays said.      *)
(***************************************************************************)
LEMMA CallsMeet ==
  ASSUME TypeOK, ShapeOK, NEW t \in Thread, Steps(t)
  PROVE  /\ erasersMet => erasersMet'
         /\ openersMet => openersMet'
         /\ usersMet => usersMet'
         /\ removed => removed'
         /\ erasersMet' \in BOOLEAN /\ openersMet' \in BOOLEAN /\ usersMet' \in BOOLEAN
         /\ removed' \in BOOLEAN
         /\ \/ thread'[t].op = thread[t].op \/ thread'[t].op = "none"
            \/ At(t, "idle") /\ Meet(t, thread'[t].op)
<1> DEFINE Op == thread'[t].op
           Goal == /\ erasersMet => erasersMet'
                   /\ openersMet => openersMet'
                   /\ usersMet => usersMet'
                   /\ removed => removed'
                   /\ erasersMet' \in BOOLEAN /\ openersMet' \in BOOLEAN
                   /\ usersMet' \in BOOLEAN /\ removed' \in BOOLEAN
                   /\ \/ Op = thread[t].op \/ Op = "none"
                      \/ At(t, "idle") /\ Meet(t, Op)
<1> USE DEF TypeOK
<1>1. Idle.op = "none" /\ \A o, l : Begin(o, l).op = o
  BY DEF Idle, Begin
<1>2. ASSUME NEW l, Goto(t, l) PROVE thread'[t].op = thread[t].op
  BY <1>2 DEF Goto, ThreadRecord
<1>3. ASSUME NEW r, NEW refs, Invalidate(t, r, refs) PROVE thread'[t] = r
  BY <1>3 DEF Invalidate
<1>4. ASSUME Return(t) PROVE Op = "none"
  BY <1>1, <1>4 DEF Return
<1>5. ASSUME NEW o, NEW r, Start(t, o, r)
      PROVE  thread'[t] = r /\ At(t, "idle") /\ Meet(t, o)
  BY <1>5 DEF Start
<1>6. ASSUME NEW o, Meet(t, o), At(t, "idle"), Op = o \/ Op = "none" PROVE Goal
  BY <1>6 DEF Meet
<1>7. CASE Caller(t)
  <2>1. CASE OpenAgain(t)
    BY <2>1 DEF OpenAgain, history
  <2>2. CASE OpenStart(t)
    BY <1>1, <1>5, <1>6, <2>2 DEF OpenStart
  <2>3. CASE CreateStart(t)
    BY <1>1, <1>5, <1>6, <2>3 DEF CreateStart
  <2>4. CASE CloseRefused(t)
    BY <1>1, <1>5, <1>6, <2>4 DEF CloseRefused
  <2>5. ASSUME NEW o \in Users, UseStart(t, o) PROVE Goal
    <3>1. [Begin(o, "use_lock") EXCEPT !.ref = "node", !.mutex = file_mutex].op = o
      BY DEF Begin, Idle
    <3> QED
      BY <1>1, <1>5, <1>6, <2>5, <3>1 DEF UseStart
  <2>6. CASE CloseStart(t)
    <3>1. [Begin("close", "close_lock") EXCEPT
             !.ref = IF cache = "dirty" THEN "streams" ELSE "none",
             !.mutex = file_mutex, !.flush = (cache = "dirty")].op = "close"
      BY DEF Begin, Idle
    <3> QED
      BY <1>5, <1>6, <2>6, <3>1 DEF CloseStart
  <2>7. CASE DeleteStart(t)
    <3>1. [Begin("delete", "delete_wait") EXCEPT !.mutex = file_mutex].op = "delete"
      BY DEF Begin, Idle
    <3> QED
      BY <1>5, <1>6, <2>7, <3>1 DEF DeleteStart
  <2>8. CASE CloseUncached(t) \/ DeleteClosed(t)
    BY <1>1, <1>3, <1>6, <2>8 DEF CloseUncached, DeleteClosed, Forget, EraseOpen
  <2> QED
    BY <1>7, <2>1, <2>2, <2>3, <2>4, <2>5, <2>6, <2>7, <2>8 DEF Caller, Users
<1>8. CASE Fetch(t) \/ FetchReply(t) \/ EnterCache(t) \/ CreateFile(t) \/ CreateEnter(t)
  BY <1>2, <1>8 DEF Fetch, FetchReply, EnterCache, CreateFile, CreateEnter, history
<1>9. CASE UseLock(t) \/ CloseLock(t) \/ Upload(t) \/ DeleteWait(t) \/ DeleteLock(t)
  BY <1>2, <1>9 DEF UseLock, CloseLock, Upload, DeleteWait, DeleteLock, history
<1>10. CASE FetchFails(t) \/ InstallFails(t) \/ CreateStat(t) \/ Mark(t)
            \/ UploadFails(t) \/ DeleteLocal(t)
  BY <1>4, <1>10 DEF FetchFails, InstallFails, CreateStat, Mark, UploadFails, DeleteLocal,
     history
<1>11. CASE UseStreams(t) \/ DeleteRPC(t)
  BY <1>2, <1>4, <1>11 DEF UseStreams, DeleteRPC, history
<1>12. CASE Install(t) \/ CreateInstall(t)
  BY <1>1, <1>3, <1>4, <1>12 DEF Install, CreateInstall, EnterOpen, history, ShapeOK,
     CreateSteps, At
<1>13. CASE Unmark(t) \/ CloseErase(t)
  BY <1>1, <1>3, <1>13 DEF Unmark, CloseErase, EraseOpen, history
<1>14. CASE DeleteErase(t)
  BY <1>1, <1>3, <1>14 DEF DeleteErase, Forget, EraseOpen, ShapeOK, DeleteSteps, At
<1>15. CASE Flush(t)
  <2>1. ASSUME thread' = [thread EXCEPT ![t].pc = "upload", ![t].data = local,
                                        ![t].ref = "none"]
        PROVE  thread'[t].op = thread[t].op
    BY <2>1 DEF ThreadRecord
  <2> QED
    BY <1>4, <1>15, <2>1 DEF Flush, history
<1> QED
  BY <1>7, <1>8, <1>9, <1>10, <1>11, <1>12, <1>13, <1>14, <1>15 DEF Steps, Continue

\* What has not met does not overlap: every call looks at all other threads.
LEMMA AloneKept ==
  ASSUME TypeOK, ShapeOK, AloneOK, NEW t \in Thread, Steps(t)
  PROVE  AloneOK'
<1> DEFINE B(u, ops) == thread'[u].op \in ops
           Apart(u, v) == /\ B(u, Erasers) /\ B(v, Erasers) => erasersMet'
                          /\ B(u, Openers) /\ B(v, Openers) => openersMet'
                          /\ B(u, Users) /\ B(v, Erasers) => usersMet'
                          /\ B(u, {"delete"}) /\ B(v, Operation) => usersMet'
<1>1. \A u \in Thread \ {t} : thread'[u].op = thread[u].op
  BY OthersKept
<1>2. ASSUME NEW u \in Thread \ {t}, NEW v \in Thread \ {u, t} PROVE Apart(u, v)
  BY <1>1, CallsMeet DEF AloneOK, Busy
<1>3. ASSUME NEW u \in Thread \ {t} PROVE Apart(t, u) /\ Apart(u, t)
  <2>1. CASE thread'[t].op = thread[t].op \/ thread'[t].op = "none"
    BY <1>1, <2>1, CallsMeet DEF AloneOK, Busy, Erasers, Openers, Users, Operation
  <2>2. CASE Meet(t, thread'[t].op)
    BY <1>1, <2>2 DEF Meet, Busy, Erasers, Openers, Users, Operation
  <2> QED
    BY <2>1, <2>2, CallsMeet
<1>4. \A u \in Thread : \A v \in Thread \ {u} : Apart(u, v)
  BY <1>2, <1>3
<1> QED
  BY <1>4 DEF AloneOK, Busy

-----------------------------------------------------------------------------
(***************************************************************************)
(* Who changes the maps, and what a thread keeps of them.  The entry of    *)
(* opened_files is made by an open or create, erased by a close or delete; *)
(* only a create replaces the mutex of an entry.                           *)
(***************************************************************************)
LEMMA MapSteps ==
  ASSUME TypeOK, ShapeOK, FoundOK, NEW t \in Thread, Steps(t)
  PROVE  /\ opened = "no" /\ opened' # "no" => Busy(t, Openers)
         /\ opened # "no" /\ opened' = "no" =>
              Busy(t, Erasers) \/ (\E o \in Erasers : Meet(t, o))
         /\ file_mutex' # file_mutex =>
              opened' = "no" \/ file_mutex = NoMutex \/ At(t, "create_install")
         /\ \/ /\ thread'[t].op = thread[t].op /\ thread'[t].mutex = thread[t].mutex
               /\ At(t, "create_stat") => thread'[t].pc = "create_stat"
               /\ thread'[t].ref \in {thread[t].ref, "none"}
               /\ file_mutex' = file_mutex /\ (opened' = "no" <=> opened = "no")
            \/ /\ \/ thread'[t].op \in {"none", "open", "delete"}
                  \/ thread'[t].op = "create" /\ thread'[t].pc = "create_stat"
               /\ thread'[t].ref = "none"
            \/ /\ thread'[t].op = "create" /\ thread'[t].ref = "none"
               /\ opened = "no" /\ opened' = opened
            \/ /\ thread'[t].op \in Users \cup {"close"} /\ opened # "no"
               /\ thread'[t].mutex = file_mutex /\ UNCHANGED <<opened, file_mutex>>
<1> DEFINE r == thread'[t]
           Same == UNCHANGED <<opened, file_mutex>>
           Alike == file_mutex' = file_mutex /\ (opened' = "no" <=> opened = "no")
           Left == /\ \/ r.op \in {"none", "open", "delete"}
                      \/ r.op = "create" /\ r.pc = "create_stat"
                   /\ r.ref = "none"
           Goal ==
             /\ opened = "no" /\ opened' # "no" => Busy(t, Openers)
             /\ opened # "no" /\ opened' = "no" =>
                  Busy(t, Erasers) \/ (\E o \in Erasers : Meet(t, o))
             /\ file_mutex' # file_mutex =>
                  opened' = "no" \/ file_mutex = NoMutex \/ At(t, "create_install")
             /\ \/ /\ r.op = thread[t].op /\ r.mutex = thread[t].mutex
                   /\ At(t, "create_stat") => r.pc = "create_stat"
                   /\ r.ref \in {thread[t].ref, "none"} /\ Alike
                \/ Left
                \/ /\ r.op = "create" /\ r.ref = "none"
                   /\ opened = "no" /\ opened' = opened
                \/ /\ r.op \in Users \cup {"close"} /\ opened # "no"
                   /\ r.mutex = file_mutex /\ Same
<1> USE DEF TypeOK
<1>1. /\ Idle.op = "none" /\ Idle.ref = "none"
      /\ \A o, l : /\ Begin(o, l).op = o /\ Begin(o, l).ref = "none"
                   /\ Begin(o, l).pc = l
  BY DEF Idle, Begin
<1>2. ASSUME NEW l, Goto(t, l), Same, ~At(t, "create_stat") PROVE Goal
  BY <1>2 DEF Goto, ThreadRecord
<1>3. ASSUME NEW q, NEW refs, Invalidate(t, q, refs) PROVE r = q
  BY <1>3 DEF Invalidate
<1>4. ASSUME Return(t) PROVE Left
  BY <1>1, <1>4 DEF Return
<1>5. ASSUME NEW o, NEW q, Start(t, o, q) PROVE r = q
  BY <1>5 DEF Start
<1>6. ASSUME Left, Alike PROVE Goal
  BY <1>6
<1>7. ASSUME NEW q, EraseOpen(t, q), Busy(t, Erasers) \/ (\E o \in Erasers : Meet(t, o)),
             q \in {Idle, Begin("delete", "delete_rpc")}
      PROVE  Goal
  BY <1>1, <1>3, <1>7 DEF EraseOpen
<1>8. ASSUME RemoveLocal, UNCHANGED file_mutex, Left PROVE Goal
  BY <1>8 DEF RemoveLocal
<1>9. CASE Caller(t)
  <2>1. CASE OpenStart(t) \/ CloseRefused(t)
    BY <1>1, <1>5, <1>6, <2>1 DEF OpenStart, CloseRefused, maps
  <2>2. CASE OpenAgain(t)
    BY <2>2 DEF OpenAgain, maps, At
  <2>3. CASE CreateStart(t)
    BY <1>1, <1>5, <2>3 DEF CreateStart, maps
  <2>4. ASSUME NEW o \in Users, UseStart(t, o) PROVE Goal
    <3>1. /\ [Begin(o, "use_lock") EXCEPT !.ref = "node", !.mutex = file_mutex].op = o
          /\ [Begin(o, "use_lock") EXCEPT !.ref = "node", !.mutex = file_mutex].mutex
               = file_mutex
      BY DEF Begin, Idle
    <3>2. Same
      BY <2>4 DEF UseStart, maps
    <3>3. \/ r = Idle
          \/ r = [Begin(o, "use_lock") EXCEPT !.ref = "node", !.mutex = file_mutex]
             /\ opened # "no"
      BY <1>5, <2>4 DEF UseStart
    <3>4. CASE r = Idle
      BY <1>1, <1>6, <3>2, <3>4
    <3>5. CASE r.op = o /\ r.mutex = file_mutex /\ opened # "no"
      BY <3>2, <3>5
    <3> QED
      BY <3>1, <3>3, <3>4, <3>5
  <2>5. CASE CloseStart(t)
    <3> DEFINE q == [Begin("close", "close_lock") EXCEPT
                       !.ref = IF cache = "dirty" THEN "streams" ELSE "none",
                       !.mutex = file_mutex, !.flush = (cache = "dirty")]
    <3>1. q.op = "close" /\ q.mutex = file_mutex
      BY DEF Begin, Idle
    <3> QED
      BY <1>5, <2>5, <3>1 DEF CloseStart, maps
  <2>6. CASE DeleteStart(t)
    <3>1. /\ [Begin("delete", "delete_wait") EXCEPT !.mutex = file_mutex].op = "delete"
          /\ [Begin("delete", "delete_wait") EXCEPT !.mutex = file_mutex].ref = "none"
      BY DEF Begin, Idle
    <3> QED
      BY <1>5, <1>6, <2>6, <3>1 DEF DeleteStart, maps
  <2>7. CASE CloseUncached(t) \/ DeleteClosed(t)
    BY <1>7, <2>7 DEF CloseUncached, DeleteClosed, Forget, Erasers
  <2> QED
    BY <1>9, <2>1, <2>2, <2>3, <2>4, <2>5, <2>6, <2>7 DEF Caller, Users
<1>10. CASE Fetch(t) \/ FetchReply(t) \/ EnterCache(t) \/ CreateFile(t) \/ CreateEnter(t)
  BY <1>2, <1>10 DEF Fetch, FetchReply, EnterCache, CreateFile, CreateEnter, maps, At
<1>11. CASE UseLock(t) \/ CloseLock(t) \/ Upload(t) \/ DeleteWait(t) \/ DeleteLock(t)
  BY <1>2, <1>11 DEF UseLock, CloseLock, Upload, DeleteWait, DeleteLock, maps, At
<1>12. CASE InstallFails(t) \/ CreateStat(t) \/ Mark(t) \/ UploadFails(t)
  BY <1>4, <1>6, <1>12 DEF InstallFails, CreateStat, Mark, UploadFails, maps
<1>13. CASE FetchFails(t) \/ DeleteLocal(t)
  BY <1>4, <1>8, <1>13 DEF FetchFails, DeleteLocal
<1>14. CASE UseStreams(t) \/ DeleteRPC(t)
  BY <1>2, <1>4, <1>6, <1>14 DEF UseStreams, DeleteRPC, maps, At, Cleared
<1>15. CASE Install(t)
  <2>1. Busy(t, Openers)
    BY <1>15 DEF Install, At, ShapeOK, OpenSteps, Busy, Openers
  <2> QED
    BY <1>1, <1>3, <1>15, <2>1 DEF Install, EnterOpen
<1>16. CASE CreateInstall(t)
  <2>1. Busy(t, Openers) /\ At(t, "create_install")
    BY <1>16 DEF CreateInstall, At, ShapeOK, CreateSteps, Busy, Openers
  <2> QED
    BY <1>1, <1>3, <1>4, <1>6, <1>16, <2>1 DEF CreateInstall, EnterOpen
<1>17. CASE Unmark(t) \/ CloseErase(t) \/ DeleteErase(t)
  <2>1. Busy(t, Erasers)
    BY <1>17 DEF Unmark, CloseErase, DeleteErase, At, ShapeOK, CloseSteps, DeleteSteps,
       Busy, Erasers
  <2> QED
    BY <1>7, <1>17, <2>1 DEF Unmark, CloseErase, DeleteErase, Forget
<1>18. CASE Flush(t)
  <2>1. thread[t].ref = "stale" \/ opened # "no"
    BY <1>18 DEF Flush, At, ShapeOK, FoundOK
  <2>2. ASSUME thread' = [thread EXCEPT ![t].pc = "upload", ![t].data = local,
                                        ![t].ref = "none"]
        PROVE  r.op = thread[t].op /\ r.mutex = thread[t].mutex /\ r.ref = "none"
    BY <2>2 DEF ThreadRecord
  <2> QED
    BY <1>4, <1>6, <1>18, <2>1, <2>2 DEF Flush, At, ClosedAgain
<1> QED
  BY <1>9, <1>10, <1>11, <1>12, <1>13, <1>14, <1>15, <1>16, <1>17, <1>18
  DEF Steps, Continue

(***************************************************************************)
(* What a thread has found stays found: whoever could erase or replace it  *)
(* would have met the thread.                                              *)
(***************************************************************************)
LEMMA FoundKept ==
  ASSUME TypeOK, ShapeOK, EntriesOK, AloneOK, FoundOK, NEW t \in Thread, Steps(t)
  PROVE  FoundOK'
<1>1. (openersMet => openersMet') /\ (erasersMet => erasersMet')
  BY CallsMeet
<1>2. ASSUME NEW u \in Thread \ {t}, thread'[u].ref \in {"node", "streams"}
      PROVE  thread[u].ref = thread'[u].ref /\ opened # "no" /\ opened' # "no"
  BY <1>2, OthersKept DEF FoundOK
<1>3. ASSUME NEW u \in Thread \ {t}, ~openersMet', thread'[u].op = "create",
             thread'[u].pc # "create_stat"
      PROVE  opened' = "no"
  BY <1>1, <1>3, OthersKept, MapSteps DEF FoundOK, AloneOK, Busy, Openers, At
<1>4. ASSUME NEW u \in Thread \ {t}, ~openersMet', thread'[u].ref = "node"
      PROVE  thread'[u].mutex = file_mutex'
  <2>1. thread[u].ref = "node" /\ opened # "no" /\ opened' # "no"
    BY <1>2, <1>4
  <2>2. file_mutex' = file_mutex
    BY <1>1, <1>4, <2>1, MapSteps DEF FoundOK, EntriesOK, ShapeOK, CreateSteps, At
  <2> QED
    BY <1>1, <1>4, <2>1, <2>2, OthersKept DEF FoundOK
<1>5. ASSUME NEW u \in Thread \ {t}, ~openersMet', ~erasersMet', thread'[u].op = "close"
      PROVE  opened' # "no" /\ thread'[u].mutex = file_mutex'
  <2>1. thread[u].op = "close" /\ opened # "no" /\ thread[u].mutex = file_mutex
    BY <1>1, <1>5, OthersKept DEF FoundOK
  <2>2. ~Busy(t, Erasers) /\ \A o \in Erasers : ~Meet(t, o)
    BY <1>1, <1>5, <2>1 DEF AloneOK, Busy, Erasers, Meet
  <2>3. opened' # "no"
    BY <2>1, <2>2, MapSteps
  <2>4. file_mutex' = file_mutex
    BY <1>1, <1>5, <2>1, <2>3, MapSteps DEF FoundOK, EntriesOK, ShapeOK, CreateSteps, At
  <2> QED
    BY <2>1, <2>3, <2>4, OthersKept
<1> DEFINE Found(u) ==
    /\ thread'[u].ref \in {"node", "streams"} => opened' # "no"
    /\ ~openersMet' =>
         /\ thread'[u].op = "create" /\ thread'[u].pc # "create_stat" => opened' = "no"
         /\ thread'[u].ref = "node" => thread'[u].mutex = file_mutex'
         /\ ~erasersMet' /\ thread'[u].op = "close" =>
              opened' # "no" /\ thread'[u].mutex = file_mutex'
<1>6. Found(t)
  <2>1. thread[t].op \in Users => thread[t].op \notin {"create", "close"}
    BY DEF Users
  <2> QED
    BY <1>1, <2>1, MapSteps DEF FoundOK, Users, At
<1>7. \A u \in Thread : Found(u)
  BY <1>2, <1>3, <1>4, <1>5, <1>6
<1> QED
  BY <1>7 DEF FoundOK, At

-----------------------------------------------------------------------------
(***************************************************************************)
(* The types.                                                              *)
(***************************************************************************)
\* Sets of threads that differ by one thread.
LEMMA Counting ==
  ASSUME NEW A \in SUBSET Thread, NEW B \in SUBSET Thread, NEW t \in Thread
  PROVE  /\ Cardinality(A) \in Nat /\ Cardinality(B) \in Nat
         /\ B \subseteq A => Cardinality(B) <= Cardinality(A)
         /\ B \subseteq A \cup {t} => Cardinality(B) <= Cardinality(A) + 1
         /\ t \in A /\ B \subseteq A \ {t} => Cardinality(B) + 1 <= Cardinality(A)
<1>1. IsFiniteSet(A) /\ IsFiniteSet(B)
  BY ThreadAssumption, FS_Subset
<1>2. Cardinality(A) \in Nat /\ Cardinality(B) \in Nat
  BY <1>1, FS_CardinalityType
<1>3. ASSUME B \subseteq A PROVE Cardinality(B) <= Cardinality(A)
  BY <1>1, <1>3, FS_Subset
<1>4. ASSUME B \subseteq A \cup {t} PROVE Cardinality(B) <= Cardinality(A) + 1
  <2>1. /\ IsFiniteSet(A \cup {t})
        /\ Cardinality(A \cup {t}) =
             IF t \in A THEN Cardinality(A) ELSE Cardinality(A) + 1
    BY <1>1, FS_AddElement
  <2>2. Cardinality(B) <= Cardinality(A \cup {t})
    BY <1>4, <2>1, FS_Subset
  <2> QED
    BY <1>2, <2>1, <2>2
<1>5. ASSUME t \in A, B \subseteq A \ {t} PROVE Cardinality(B) + 1 <= Cardinality(A)
  <2>1. IsFiniteSet(A \ {t}) /\ Cardinality(A \ {t}) = Cardinality(A) - 1
    BY <1>1, <1>5, FS_RemoveElement
  <2>2. Cardinality(B) <= Cardinality(A \ {t})
    BY <1>5, <2>1, FS_Subset
  <2> QED
    BY <1>2, <2>1, <2>2
<1> QED
  BY <1>2, <1>3, <1>4, <1>5

(***************************************************************************)
(* A step counts a call, gives or takes back a handle, or finishes a write *)
(* or open that was in progress.                                           *)
(***************************************************************************)
LEMMA CallSteps ==
  ASSUME TypeOK, ShapeOK, NEW t \in Thread, Steps(t)
  PROVE  /\ calls' \in 0..MaxCalls /\ handles' \in Nat
         /\ \/ /\ handles' <= handles /\ calls' >= calls
               /\ Busy(t, Openers)' => Busy(t, Openers)
            \/ /\ handles' = handles + 1 /\ calls' = calls + 1
               /\ Busy(t, Openers)' => Busy(t, Openers)
            \/ handles' = handles /\ calls' = calls + 1
            \/ /\ handles' = handles + 1 /\ calls' = calls
               /\ Busy(t, Openers) /\ ~Busy(t, Openers)'
         /\ \/ written' = written /\ calls' >= calls /\ (t \in ToWrite' => t \in ToWrite)
            \/ written' = written /\ calls' = calls + 1
            \/ /\ written' = written + 1 /\ calls' = calls
               /\ t \in ToWrite /\ t \notin ToWrite'
<1> DEFINE r == thread'[t]
           Opens == r.op \in Openers
           Writes == r.op = "write" /\ r.pc # "mark"
           Wrote == thread[t].op = "write" /\ thread[t].pc # "mark"
           Count ==
             /\ calls' \in 0..MaxCalls /\ handles' \in Nat
             /\ \/ handles' <= handles /\ calls' >= calls /\ (Opens => Busy(t, Openers))
                \/ /\ handles' = handles + 1 /\ calls' = calls + 1
                   /\ Opens => Busy(t, Openers)
                \/ handles' = handles /\ calls' = calls + 1
                \/ /\ handles' = handles + 1 /\ calls' = calls
                   /\ Busy(t, Openers) /\ ~Opens
             /\ \/ written' = written /\ calls' >= calls /\ (Writes => Wrote)
                \/ written' = written /\ calls' = calls + 1
                \/ written' = written + 1 /\ calls' = calls /\ Wrote /\ ~Writes
<1> SUFFICES Count
  BY DEF Busy, ToWrite
<1> USE BoundAssumption DEF TypeOK, Content
<1>1. /\ Idle.op = "none" /\ \A o, l : Begin(o, l).op = o
  BY DEF Idle, Begin
<1>2. ASSUME NEW l, Goto(t, l), thread[t].pc # "mark",
             UNCHANGED <<handles, calls, written>>
      PROVE  Count
  BY <1>2 DEF Goto, ThreadRecord, Busy
<1>3. ASSUME NEW q, NEW refs, Invalidate(t, q, refs) PROVE r = q
  BY <1>3 DEF Invalidate
<1>4. ASSUME Return(t) PROVE r.op = "none"
  BY <1>1, <1>4 DEF Return
<1>5. ASSUME NEW o, NEW q, Start(t, o, q)
      PROVE  r = q /\ calls' = calls + 1 /\ calls' \in 0..MaxCalls
  BY <1>5 DEF Start
<1>6. ASSUME r.op \in {"none", "delete"}, UNCHANGED <<handles, calls, written>>
      PROVE Count
  BY <1>6 DEF Openers
<1>7. CASE Caller(t)
  <2>1. CASE OpenStart(t) \/ CreateStart(t) \/ DeleteStart(t)
    BY <1>5, <2>1 DEF OpenStart, CreateStart, DeleteStart
  <2>2. CASE OpenAgain(t)
    BY <2>2 DEF OpenAgain, Busy, history
  <2>3. ASSUME NEW o \in Users, UseStart(t, o) PROVE Count
    BY <1>5, <2>3 DEF UseStart
  <2>4. CASE CloseRefused(t)
    BY <1>1, <1>5, <2>4 DEF CloseRefused, CloseBegins, Openers
  <2>5. CASE CloseUncached(t)
    BY <1>1, <1>3, <2>5 DEF CloseUncached, CloseBegins, EraseOpen, Openers
  <2>6. CASE CloseStart(t)
    <3> DEFINE q == [Begin("close", "close_lock") EXCEPT
                       !.ref = IF cache = "dirty" THEN "streams" ELSE "none",
                       !.mutex = file_mutex, !.flush = (cache = "dirty")]
    <3>1. q.op = "close"
      BY DEF Begin, Idle
    <3>2. r = q /\ calls' = calls + 1 /\ calls' \in 0..MaxCalls
      BY <1>5, <2>6 DEF CloseStart
    <3>3. r.op = "close"
      BY <3>1, <3>2
    <3>4. handles > 0 /\ handles' = handles - 1 /\ written' = written
      BY <2>6 DEF CloseStart, CloseBegins
    <3> QED
      BY <3>2, <3>3, <3>4 DEF Openers
  <2>7. CASE DeleteClosed(t)
    BY <2>7 DEF DeleteClosed, Forget
  <2> QED
    BY <1>7, <2>1, <2>2, <2>3, <2>4, <2>5, <2>6, <2>7 DEF Caller, Users
<1>8. CASE Fetch(t) \/ FetchReply(t) \/ EnterCache(t) \/ CreateFile(t) \/ CreateEnter(t)
  BY <1>2, <1>8 DEF Fetch, FetchReply, EnterCache, CreateFile, CreateEnter, history, At
<1>9. CASE UseLock(t) \/ CloseLock(t) \/ Upload(t) \/ DeleteWait(t) \/ DeleteLock(t)
  BY <1>2, <1>9 DEF UseLock, CloseLock, Upload, DeleteWait, DeleteLock, history, At
<1>10. CASE FetchFails(t) \/ InstallFails(t) \/ Mark(t) \/ UploadFails(t) \/
            DeleteLocal(t)
  BY <1>4, <1>6, <1>10 DEF FetchFails, InstallFails, Mark, UploadFails, DeleteLocal,
     history
<1>11. CASE DeleteRPC(t)
  BY <1>2, <1>4, <1>6, <1>11 DEF DeleteRPC, history, At
<1>12. CASE UseStreams(t)
  <2>1. CASE thread[t].ref = "stale"
    BY <1>12, <2>1 DEF UseStreams, Busy
  <2>2. CASE Return(t) /\ written' = written
    BY <1>4, <1>6, <1>12, <2>2 DEF UseStreams
  <2>3. CASE written' = written + 1
    <3>1. Wrote /\ r.pc = "mark"
      BY <1>12, <2>3 DEF UseStreams, At, Goto, ThreadRecord, ShapeOK, UseSteps, Users
    <3>2. r.op = thread[t].op
      BY <1>12, <2>3 DEF UseStreams, Goto, ThreadRecord
    <3> QED
      BY <1>12, <2>3, <3>1, <3>2 DEF UseStreams, Busy
  <2> QED
    BY <1>12, <2>1, <2>2, <2>3 DEF UseStreams
<1>13. CASE Install(t)
  <2>1. Busy(t, Openers)
    BY <1>13 DEF Install, At, ShapeOK, OpenSteps, Busy, Openers
  <2> QED
    BY <1>1, <1>3, <1>13, <2>1 DEF Install, EnterOpen, history, Openers
<1>14. CASE CreateInstall(t)
  <2>1. Busy(t, Openers)
    BY <1>14 DEF CreateInstall, At, ShapeOK, CreateSteps, Busy, Openers
  <2> QED
    BY <1>1, <1>3, <1>4, <1>6, <1>14, <2>1 DEF CreateInstall, EnterOpen, history
<1>15. CASE Unmark(t) \/ CloseErase(t)
  BY <1>1, <1>3, <1>6, <1>15 DEF Unmark, CloseErase, EraseOpen, history
<1>16. CASE DeleteErase(t)
  BY <1>1, <1>3, <1>6, <1>16 DEF DeleteErase, Forget, EraseOpen
<1>17. CASE Flush(t)
  <2>1. ASSUME thread' = [thread EXCEPT ![t].pc = "upload", ![t].data = local,
                                        ![t].ref = "none"]
        PROVE  r.op = thread[t].op /\ r.pc = "upload"
    BY <2>1 DEF ThreadRecord
  <2>2. thread[t].op = "close"
    BY <1>17 DEF Flush, At, ShapeOK, CloseSteps
  <2> QED
    BY <1>4, <1>6, <1>17, <2>1, <2>2 DEF Flush, history, Busy
<1>18. CASE CreateStat(t)
  <2>1. Busy(t, Openers)
    BY <1>18 DEF CreateStat, At, ShapeOK, CreateSteps, Busy, Openers
  <2> QED
    BY <1>4, <1>6, <1>18, <2>1 DEF CreateStat, history, Openers
<1> QED
  BY <1>7, <1>8, <1>9, <1>10, <1>11, <1>12, <1>13, <1>14, <1>15, <1>16, <1>17, <1>18
  DEF Steps, Continue

\* The calls bound the handles and the writes.
LEMMA CountKept ==
  ASSUME TypeOK, ShapeOK, CountOK, NEW t \in Thread, Steps(t)
  PROVE  CountOK'
<1>1. /\ Opening \in SUBSET Thread /\ Opening' \in SUBSET Thread
      /\ ToWrite \in SUBSET Thread /\ ToWrite' \in SUBSET Thread
  BY DEF Opening, ToWrite
<1>2. \A u \in Thread \ {t} :
        (u \in Opening' <=> u \in Opening) /\ (u \in ToWrite' <=> u \in ToWrite)
  BY OthersKept DEF Opening, ToWrite, Busy
<1>3. /\ t \in Opening <=> Busy(t, Openers)
      /\ t \in Opening' <=> Busy(t, Openers)'
  BY DEF Opening
<1> DEFINE O  == Cardinality(Opening)
           O1 == Cardinality(Opening')
           W  == Cardinality(ToWrite)
           W1 == Cardinality(ToWrite')
<1>4. /\ O \in Nat /\ O1 \in Nat /\ O1 <= O + 1
      /\ (Busy(t, Openers)' => Busy(t, Openers)) => O1 <= O
      /\ Busy(t, Openers) /\ ~Busy(t, Openers)' => O1 + 1 <= O
  <2>1. Opening' \subseteq Opening \cup {t}
    BY <1>1, <1>2
  <2>2. (Busy(t, Openers)' => Busy(t, Openers)) => Opening' \subseteq Opening
    BY <1>1, <1>2, <1>3
  <2>3. Busy(t, Openers) /\ ~Busy(t, Openers)' =>
          t \in Opening /\ Opening' \subseteq Opening \ {t}
    BY <1>1, <1>2, <1>3
  <2> QED
    BY <1>1, <2>1, <2>2, <2>3, Counting
<1>5. /\ W \in Nat /\ W1 \in Nat /\ W1 <= W + 1
      /\ (t \in ToWrite' => t \in ToWrite) => W1 <= W
      /\ t \in ToWrite /\ t \notin ToWrite' => W1 + 1 <= W
  <2>1. ToWrite' \subseteq ToWrite \cup {t}
    BY <1>1, <1>2
  <2>2. (t \in ToWrite' => t \in ToWrite) => ToWrite' \subseteq ToWrite
    BY <1>1, <1>2
  <2>3. t \in ToWrite /\ t \notin ToWrite' => ToWrite' \subseteq ToWrite \ {t}
    BY <1>1, <1>2
  <2> QED
    BY <1>1, <2>1, <2>2, <2>3, Counting
<1>6. handles \in Nat /\ calls \in Nat /\ written \in Nat
  BY BoundAssumption DEF TypeOK, Content
<1>7. handles' + O1 <= calls' + 1
  BY <1>4, <1>6, CallSteps DEF CountOK
<1>8. written' + W1 <= calls'
  BY <1>5, <1>6, CallSteps DEF CountOK
<1> QED
  BY <1>7, <1>8 DEF CountOK

\* What waits for a mutex has found one, so that it never waits for none.
LEMMA LockingFound ==
  ASSUME TypeOK, ShapeOK, NEW t \in Thread, Steps(t), thread'[t].pc \in Locking
  PROVE  thread'[t].mutex # NoMutex
<1> USE DEF TypeOK, Holding, Locking, At
<1>1. Idle.pc \notin Locking /\ \A o, l : Begin(o, l).pc = l
  BY DEF Idle, Begin
<1>2. ASSUME NEW l, Goto(t, l) PROVE thread'[t].pc = l
  BY <1>2 DEF Goto, ThreadRecord
<1>3. ASSUME NEW r, NEW refs, Invalidate(t, r, refs) PROVE thread'[t] = r
  BY <1>3 DEF Invalidate
<1>4. ASSUME Return(t) PROVE FALSE
  BY <1>1, <1>4 DEF Return
<1>5. ASSUME NEW o, NEW r, Start(t, o, r) PROVE thread'[t] = r
  BY <1>5 DEF Start
<1>6. CASE Caller(t)
  <2>1. CASE OpenAgain(t)
    BY <1>1, <2>1 DEF OpenAgain, ShapeOK
  <2>2. CASE OpenStart(t) \/ CreateStart(t) \/ CloseRefused(t)
    BY <1>1, <1>5, <2>2 DEF OpenStart, CreateStart, CloseRefused
  <2>3. ASSUME NEW o \in Users, UseStart(t, o) PROVE thread'[t].mutex # NoMutex
    <3>1. [Begin(o, "use_lock") EXCEPT !.ref = "node", !.mutex = file_mutex].mutex
            = file_mutex
      BY DEF Begin, Idle
    <3> QED
      BY <1>1, <1>5, <2>3, <3>1 DEF UseStart
  <2>4. CASE CloseStart(t)
    <3> DEFINE q == [Begin("close", "close_lock") EXCEPT
                       !.ref = IF cache = "dirty" THEN "streams" ELSE "none",
                       !.mutex = file_mutex, !.flush = (cache = "dirty")]
    <3>1. q.mutex = file_mutex
      BY DEF Begin, Idle
    <3>2. thread'[t] = q /\ file_mutex # NoMutex
      BY <1>5, <2>4 DEF CloseStart
    <3> QED
      BY <3>1, <3>2
  <2>5. CASE DeleteStart(t)
    <3>1. [Begin("delete", "delete_wait") EXCEPT !.mutex = file_mutex].mutex = file_mutex
      BY DEF Begin, Idle
    <3> QED
      BY <1>5, <2>5, <3>1 DEF DeleteStart
  <2>6. CASE CloseUncached(t) \/ DeleteClosed(t)
    BY <1>1, <1>3, <2>6 DEF CloseUncached, DeleteClosed, Forget, EraseOpen
  <2> QED
    BY <1>6, <2>1, <2>2, <2>3, <2>4, <2>6, <2>5 DEF Caller, Users
<1>7. CASE Fetch(t) \/ FetchReply(t) \/ EnterCache(t) \/ CreateFile(t) \/ CreateEnter(t)
  BY <1>2, <1>7 DEF Fetch, FetchReply, EnterCache, CreateFile, CreateEnter
<1>8. CASE UseLock(t) \/ CloseLock(t) \/ Upload(t) \/ DeleteWait(t) \/ DeleteLock(t)
  BY <1>2, <1>8 DEF UseLock, CloseLock, Upload, DeleteWait, DeleteLock
<1>9. CASE FetchFails(t) \/ InstallFails(t) \/ CreateStat(t) \/ Mark(t)
           \/ UploadFails(t) \/ DeleteLocal(t)
  BY <1>4, <1>9 DEF FetchFails, InstallFails, CreateStat, Mark, UploadFails, DeleteLocal
<1>10. CASE UseStreams(t) \/ DeleteRPC(t)
  BY <1>2, <1>4, <1>10 DEF UseStreams, DeleteRPC
<1>11. CASE Install(t) \/ CreateInstall(t)
  BY <1>1, <1>3, <1>4, <1>11 DEF Install, CreateInstall, EnterOpen
<1>12. CASE Unmark(t) \/ CloseErase(t) \/ DeleteErase(t)
  BY <1>1, <1>3, <1>12 DEF Unmark, CloseErase, DeleteErase, Forget, EraseOpen
<1>13. CASE Flush(t)
  <2>1. ASSUME thread' = [thread EXCEPT ![t].pc = "upload", ![t].data = local,
                                        ![t].ref = "none"]
        PROVE  thread'[t].pc = "upload"
    BY <2>1 DEF ThreadRecord
  <2> QED
    BY <1>4, <1>13, <2>1 DEF Flush
<1> QED
  BY <1>6, <1>7, <1>8, <1>9, <1>10, <1>11, <1>12, <1>13 DEF Steps, Continue

\* The maps, files and mutexes keep their types.
LEMMA MapTypes ==
  ASSUME TypeOK, NEW t \in Thread, Steps(t)
  PROVE  /\ cache' \in {"none", "clean", "dirty"}
         /\ opened' \in {"no", "open", "closed", "failed", "detached"}
         /\ file_mutex' \in Mutexes /\ cache_mutex' \in Thread \cup {NoThread}
         /\ server' \in Content \cup {NoFile}
         /\ local' \in {local, 0, server, written', NoFile}
         /\ saved' \in Content \cup {written'}
         /\ notified' \in BOOLEAN /\ undefined' \in BOOLEAN
<1> USE BoundAssumption, NewMutexIsNew DEF TypeOK
<1>1. NoMutex \in Mutexes /\ 0 \in Content
  BY ThreadAssumption, FS_CardinalityType DEF NoMutex, Mutexes, Content
<1>2. CASE Caller(t)
  <2>1. CASE OpenStart(t) \/ CreateStart(t) \/ DeleteStart(t) \/ CloseRefused(t)
             \/ CloseStart(t)
    BY <2>1 DEF OpenStart, CreateStart, DeleteStart, CloseRefused, CloseStart,
       CloseBegins,
       maps, files
  <2>2. CASE OpenAgain(t)
    BY <2>2 DEF OpenAgain, maps, files, history
  <2>3. CASE UseStart(t, "read") \/ UseStart(t, "write")
    BY <2>3 DEF UseStart, maps, files
  <2>4. CASE CloseUncached(t) \/ DeleteClosed(t)
    BY <1>1, <2>4 DEF CloseUncached, CloseBegins, DeleteClosed, Forget, EraseOpen, files
  <2> QED
    BY <1>2, <2>1, <2>2, <2>3, <2>4 DEF Caller
<1>3. CASE Fetch(t) \/ FetchReply(t) \/ EnterCache(t) \/ CreateFile(t) \/ CreateEnter(t)
  BY <1>3 DEF Fetch, FetchReply, EnterCache, CreateFile, CreateEnter, maps, files, history
<1>4. CASE UseLock(t) \/ CloseLock(t) \/ DeleteWait(t) \/ DeleteLock(t) \/ Mark(t)
           \/ UploadFails(t)
  BY <1>4 DEF UseLock, CloseLock, DeleteWait, DeleteLock, Mark, UploadFails, maps, files,
     history
<1>5. CASE FetchFails(t) \/ InstallFails(t) \/ CreateStat(t) \/ DeleteLocal(t)
  BY <1>5 DEF FetchFails, InstallFails, CreateStat, DeleteLocal, RemoveLocal, maps, files,
     history
<1>6. CASE Install(t) \/ CreateInstall(t)
  BY <1>6 DEF Install, CreateInstall, EnterOpen, files, history
<1>7. CASE Unmark(t) \/ CloseErase(t) \/ DeleteErase(t)
  BY <1>1, <1>7 DEF Unmark, CloseErase, DeleteErase, Forget, EraseOpen, files, history
<1>8. CASE UseStreams(t) \/ Flush(t) \/ DeleteRPC(t)
  BY <1>8 DEF UseStreams, Flush, DeleteRPC, maps, files, history, Cleared, ClosedAgain
<1>9. CASE Upload(t)
  <2>1. thread[t].data \in Content \cup {NoFile} /\ saved \in 0..MaxCalls
    BY DEF ThreadRecord, Content
  <2>2. thread[t].data > saved => thread[t].data \in Content
    BY <2>1 DEF NoFile, Content
  <2> QED
    BY <1>9, <2>1, <2>2 DEF Upload, maps
<1> QED
  BY <1>2, <1>3, <1>4, <1>5, <1>6, <1>7, <1>8, <1>9 DEF Steps, Continue

\* The state keeps its types; the bounds on handles and writes are CountOK.
LEMMA TypesKept ==
  ASSUME TypeOK, ShapeOK, CountOK, NEW t \in Thread, Steps(t)
  PROVE  TypeOK'
<1> USE BoundAssumption
<1>1. thread' \in [Thread -> ThreadRecord]
  BY ThreadStepTypes
<1>2. \A u \in Thread :
        thread'[u].pc \in Locking \cup Holding => thread'[u].mutex # NoMutex
  <2>1. \A u \in Thread \ {t} :
          thread'[u].pc = thread[u].pc /\ thread'[u].mutex = thread[u].mutex
    BY OthersKept
  <2> QED
    BY <2>1, HeldOrFree, LockingFound DEF TypeOK
<1>3. handles' \in 0 .. MaxCalls + 1 /\ calls' \in 0..MaxCalls /\ written' \in Content
  <2>1. Cardinality(Opening') \in Nat /\ Cardinality(ToWrite') \in Nat
    <3>1. Opening' \in SUBSET Thread /\ ToWrite' \in SUBSET Thread
      BY DEF Opening, ToWrite
    <3> QED
      BY <3>1, Counting
  <2>2. calls' \in 0..MaxCalls /\ handles' \in Nat /\ written' \in Nat
    BY CallSteps DEF TypeOK, Content
  <2>3. /\ handles' + Cardinality(Opening') <= calls' + 1
        /\ written' + Cardinality(ToWrite') <= calls'
    BY CountKept DEF CountOK
  <2> QED
    BY <2>1, <2>2, <2>3 DEF Content
<1>4. local' \in Content \cup {NoFile} /\ saved' \in Content
  BY <1>3, MapTypes DEF TypeOK, Content
<1>5. /\ erasersMet' \in BOOLEAN /\ openersMet' \in BOOLEAN /\ usersMet' \in BOOLEAN
      /\ removed' \in BOOLEAN
  BY CallsMeet
<1> QED
  BY <1>1, <1>2, <1>3, <1>4, <1>5, MapTypes DEF TypeOK

-----------------------------------------------------------------------------
(***************************************************************************)
(* Modifications.  What follows is about behaviours in which nothing has   *)
(* overlapped that may lose one.                                           *)
(***************************************************************************)
Calm == ~openersMet /\ ~usersMet /\ ~removed

Known == /\ TypeOK /\ ShapeOK /\ EntriesOK /\ AloneOK /\ FoundOK
         /\ CachedOK /\ ModifiedOK /\ \A u \in Thread : OperationOK(u)

\* Without an entry in the cache there is no modification.
LEMMA UncachedIsUnmodified ==
  ASSUME Known, cache = "none" PROVE ~Modified /\ \A u \in Thread : ~Busy(u, Users)
<1>1. \A u \in Thread : ~Busy(u, Users)
  BY DEF Known, OperationOK, Busy
<1>2. \A u \in Thread : ~At(u, "mark")
  BY <1>1 DEF Known, ShapeOK, At, UseSteps, Busy
<1> QED
  BY <1>1, <1>2 DEF Known, ModifiedOK

\* Others that are in the middle of something while t opens, uses, closes, deletes.
LEMMA OthersThen ==
  ASSUME Known, NEW t \in Thread, Steps(t), Calm', NEW u \in Thread \ {t}
  PROVE  /\ Calm
         /\ thread'[u].op \in Users => thread'[u].ref = "node"
         /\ Busy(t, Openers) => thread[u].op \notin Openers
         /\ Busy(t, Users) => thread[u].op \notin Erasers
         /\ Busy(t, Erasers) => thread[u].op \notin Users
         /\ Busy(t, {"delete"}) => thread[u].pc = "idle"
         /\ Busy(t, Operation) => thread[u].op # "delete"
<1>1. Calm
  BY CallsMeet DEF Calm, Known
<1>2. ASSUME thread'[u].op \in Users PROVE thread'[u].ref = "node"
  <2>1. thread[u].op \in Users /\ thread[u].ref = "node"
    BY <1>2, OthersKept DEF Known, OperationOK
  <2>2. opened # "no"
    BY <2>1 DEF Known, FoundOK
  <2>3. ~Busy(t, Erasers)
    BY <1>1, <2>1 DEF Known, AloneOK, Busy, Calm
  <2>4. \A o \in Erasers : ~Meet(t, o)
    BY <2>1 DEF Meet, Busy, Calm, Erasers, Users
  <2>5. opened' # "no"
    BY <2>2, <2>3, <2>4, MapSteps DEF Known
  <2> QED
    BY <2>1, <2>5, OthersKept DEF Known
<1>3. /\ Busy(t, Openers) => thread[u].op \notin Openers
      /\ Busy(t, Users) => thread[u].op \notin Erasers
      /\ Busy(t, Erasers) => thread[u].op \notin Users
      /\ Busy(t, Operation) => thread[u].op # "delete"
  BY <1>1 DEF Known, AloneOK, Busy, Calm
<1>4. ASSUME Busy(t, {"delete"}) PROVE thread[u].pc = "idle"
  <2>1. thread[u].op \notin Operation
    BY <1>1, <1>4 DEF Known, AloneOK, Busy, Calm
  <2>2. thread[u].op \in Operation \cup {"none"}
    BY DEF Known, TypeOK, ThreadRecord
  <2> QED
    BY <2>1, <2>2 DEF Known, ShapeOK
<1> QED
  BY <1>1, <1>2, <1>3, <1>4

(***************************************************************************)
(* A step that changes nothing but the steps of threads, or opens streams, *)
(* keeps what is known of the files.                                       *)
(***************************************************************************)
LEMMA StillMarked ==
  ASSUME Known, NEW t \in Thread, Steps(t), Calm', ~At(t, "mark"),
         UNCHANGED <<cache, local, written, saved>>,
         opened' = opened \/ (/\ opened' \in {"open", "closed", "failed"}
                              /\ Busy(t, Operation)
                              /\ opened # "no" \/ Busy(t, Openers)),
         OperationOK(t)'
  PROVE  CachedOK' /\ ModifiedOK' /\ \A u \in Thread : OperationOK(u)'
<1>1. CachedOK'
  BY DEF Known, CachedOK
<1>2. ModifiedOK'
  <2>1. SUFFICES ASSUME Modified'
                 PROVE  /\ opened' # "no" /\ local = written
                        /\ cache = "dirty" \/ \E u \in Thread : At(u, "mark")'
    BY DEF ModifiedOK
  <2>2. /\ opened # "no" /\ local = written
        /\ cache = "dirty" \/ \E u \in Thread : At(u, "mark")
    BY <2>1 DEF Known, ModifiedOK, Modified
  <2>3. \A u \in Thread : At(u, "mark") => At(u, "mark")'
    BY OthersKept DEF Known, At
  <2> QED
    BY <2>2, <2>3
<1>3. ASSUME NEW u \in Thread \ {t} PROVE OperationOK(u)'
  <2>1. /\ thread'[u].pc = thread[u].pc /\ thread'[u].op = thread[u].op
        /\ thread'[u].flush = thread[u].flush /\ thread'[u].data = thread[u].data
        /\ thread'[u].op \in Users => thread'[u].ref = "node"
    BY OthersKept, OthersThen DEF Known
  <2>2. thread[u].pc \in {"delete_rpc", "delete_local"} => opened' = opened
    BY OthersThen DEF Known, ShapeOK, DeleteSteps
  <2> QED
    BY <2>1, <2>2 DEF Known, OperationOK, Modified
<1> QED
  BY <1>1, <1>2, <1>3

\* Where there is no modification, the files may change.
LEMMA StillUnmodified ==
  ASSUME Known, NEW t \in Thread, Steps(t), Calm', ~Modified', CachedOK',
         cache' # "none" => cache # "none" \/ Busy(t, Openers),
         local' = NoFile => local = NoFile \/ Busy(t, Openers) \/ Busy(t, {"delete"}),
         cache' = "none" => cache = "none" \/ Busy(t, {"delete"}) \/ Meet(t, "delete"),
         opened' = opened \/ opened' = "no" \/ Busy(t, Operation),
         OperationOK(t)'
  PROVE  CachedOK' /\ ModifiedOK' /\ \A u \in Thread : OperationOK(u)'
<1>1. ModifiedOK'
  BY DEF ModifiedOK
<1>2. ASSUME NEW u \in Thread \ {t} PROVE OperationOK(u)'
  <2>1. /\ thread'[u].pc = thread[u].pc /\ thread'[u].op = thread[u].op
        /\ thread'[u].flush = thread[u].flush /\ thread'[u].data = thread[u].data
        /\ thread'[u].op \in Users => thread'[u].ref = "node"
    BY OthersKept, OthersThen DEF Known
  <2>2. thread[u].pc \in {"delete_rpc", "delete_local"} =>
          (opened' = opened \/ opened' = "no") /\ (cache' # "none" => cache # "none")
    BY OthersThen DEF Known, ShapeOK, DeleteSteps, Openers, Operation, Busy
  <2>3. thread[u].pc \in OpenSteps \cup CreateSteps =>
          (cache' # "none" => cache # "none") /\ (local' = NoFile => local = NoFile)
    BY OthersThen DEF Known, ShapeOK, OpenSteps, CreateSteps, DeleteSteps, Openers, Busy
  <2>4. thread[u].op \in Users => cache' # "none"
    <3>1. CASE Meet(t, "delete")
      BY <3>1 DEF Meet, Calm, Busy, Operation, Users, Erasers
    <3>2. CASE ~Meet(t, "delete")
      BY <3>2, OthersThen DEF Known, OperationOK, Erasers, Users, Busy
    <3> QED
      BY <3>1, <3>2
  <2> QED
    BY <2>1, <2>2, <2>3, <2>4 DEF Known, OperationOK, OpenSteps, CreateSteps
<1> QED
  BY <1>1, <1>2

(***************************************************************************)
(* No step of a thread loses a modification.                               *)
(***************************************************************************)
LEMMA MarkedKept ==
  ASSUME TypeOK, ShapeOK, EntriesOK, AloneOK, FoundOK, MarkedOK,
         NEW t \in Thread, Steps(t)
  PROVE  MarkedOK'
<1> DEFINE Goal == CachedOK' /\ ModifiedOK' /\ \A u \in Thread : OperationOK(u)'
           Changed == UNCHANGED <<cache, opened, local, written, saved>>
           r == thread'[t]
<1> SUFFICES ASSUME Calm' PROVE Goal
  BY DEF MarkedOK, Calm
<1>1. Known /\ Calm
  <2>1. Calm
    BY CallsMeet DEF Calm
  <2> QED
    BY <2>1 DEF Known, MarkedOK, Calm
<1>2. /\ Idle.op = "none" /\ Idle.pc = "idle"
      /\ \A o, l : Begin(o, l).op = o /\ Begin(o, l).pc = l
  BY DEF Idle, Begin
<1>3. ASSUME r.op = "none", r.pc = "idle" PROVE OperationOK(t)'
  BY <1>3 DEF OperationOK, Users
<1>4. ASSUME NEW l, Goto(t, l)
      PROVE  /\ r.pc = l /\ r.op = thread[t].op /\ r.ref = thread[t].ref
             /\ r.flush = thread[t].flush /\ r.data = thread[t].data
  BY <1>4 DEF Goto, TypeOK, ThreadRecord
<1>5. ASSUME Return(t) PROVE OperationOK(t)'
  BY <1>2, <1>3, <1>5 DEF Return, TypeOK
<1>6. ASSUME NEW q, NEW refs, Invalidate(t, q, refs) PROVE r = q
  BY <1>6 DEF Invalidate, TypeOK
<1>7. ASSUME NEW o, NEW q, Start(t, o, q) PROVE r = q /\ ~At(t, "mark") /\ Meet(t, o)
  BY <1>7 DEF Start, TypeOK, At
<1>8. ASSUME Changed, ~At(t, "mark"), OperationOK(t)' PROVE Goal
  BY <1>1, <1>8, StillMarked
<1>9. ASSUME cache = "none", UNCHANGED <<written, saved>> PROVE ~Modified'
  BY <1>1, <1>9, UncachedIsUnmodified DEF Modified
<1>10. CASE Caller(t)
  <2>1. CASE OpenStart(t)
    <3>1. /\ r.op = "open" /\ r.pc \in {"fetch", "reopen"}
          /\ r.pc = "fetch" => cache = "none"
      BY <1>2, <1>7, <2>1 DEF OpenStart
    <3>2. Changed
      BY <2>1 DEF OpenStart, maps, files
    <3>3. OperationOK(t)'
      BY <3>1, <3>2 DEF OperationOK, Users
    <3> QED
      BY <1>7, <1>8, <2>1, <3>2, <3>3 DEF OpenStart
  <2>2. CASE OpenAgain(t)
    <3>1. Changed /\ thread' = thread
      BY <2>2 DEF OpenAgain, maps, files, history
    <3>2. OperationOK(t)'
      BY <1>3, <2>2, <3>1 DEF OpenAgain, At, ShapeOK
    <3> QED
      BY <1>8, <2>2, <3>1, <3>2 DEF OpenAgain, At
  <2>3. CASE CreateStart(t)
    <3>1. r.op = "create" /\ r.pc = "create_file" /\ cache = "none"
      BY <1>2, <1>7, <2>3 DEF CreateStart
    <3>2. Changed
      BY <2>3 DEF CreateStart, maps, files
    <3>3. OperationOK(t)'
      BY <3>1, <3>2 DEF OperationOK, Users
    <3> QED
      BY <1>7, <1>8, <2>3, <3>2, <3>3 DEF CreateStart
  <2>4. ASSUME NEW o \in Users, UseStart(t, o) PROVE Goal
    <3> DEFINE q == [Begin(o, "use_lock") EXCEPT !.ref = "node", !.mutex = file_mutex]
    <3>1. q.op = o /\ q.pc = "use_lock" /\ q.ref = "node"
      BY DEF Begin, Idle
    <3>2. Changed
      BY <2>4 DEF UseStart, maps, files
    <3>3. r = Idle \/ (r = q /\ cache # "none")
      BY <1>7, <2>4 DEF UseStart
    <3>4. OperationOK(t)'
      <4>1. CASE r = q /\ cache # "none"
        <5>1. r.op = o /\ r.pc = "use_lock" /\ r.ref = "node"
          BY <3>1, <4>1
        <5> QED
          BY <3>2, <4>1, <5>1 DEF OperationOK, Users
      <4> QED
        BY <1>2, <1>3, <3>3, <4>1
    <3> QED
      BY <1>7, <1>8, <2>4, <3>2, <3>4 DEF UseStart
  <2>5. CASE CloseRefused(t)
    BY <1>2, <1>3, <1>7, <1>8, <2>5 DEF CloseRefused, CloseBegins, maps, files
  <2>6. CASE CloseStart(t)
    <3> DEFINE q == [Begin("close", "close_lock") EXCEPT
                       !.ref = IF cache = "dirty" THEN "streams" ELSE "none",
                       !.mutex = file_mutex, !.flush = (cache = "dirty")]
    <3>1. q.op = "close" /\ q.pc = "close_lock" /\ q.flush = (cache = "dirty")
      BY DEF Begin, Idle
    <3>2. Changed /\ r = q /\ ~At(t, "mark") /\ Meet(t, "close")
      BY <1>7, <2>6 DEF CloseStart, CloseBegins, maps, files
    <3>3. cache # "dirty" => ~Modified
      <4>1. \A u \in Thread : ~At(u, "mark")
        BY <3>2 DEF ShapeOK, At, UseSteps, Meet, Calm, Busy, Erasers
      <4> QED
        BY <1>1, <4>1 DEF Known, ModifiedOK
    <3>4. r.op = "close" /\ r.pc = "close_lock" /\ (~r.flush => ~Modified')
      BY <3>1, <3>2, <3>3 DEF Modified
    <3>5. OperationOK(t)'
      BY <3>4 DEF OperationOK, Users
    <3> QED
      BY <1>8, <3>2, <3>5
  <2>7. CASE DeleteStart(t)
    <3>1. /\ [Begin("delete", "delete_wait") EXCEPT !.mutex = file_mutex].op = "delete"
          /\ [Begin("delete", "delete_wait") EXCEPT !.mutex = file_mutex].pc
               = "delete_wait"
      BY DEF Begin, Idle
    <3>2. r.op = "delete" /\ r.pc = "delete_wait"
      BY <1>7, <2>7, <3>1 DEF DeleteStart
    <3>3. OperationOK(t)'
      BY <3>2 DEF OperationOK, Users
    <3> QED
      BY <1>7, <1>8, <2>7, <3>3 DEF DeleteStart, maps, files
  <2>8. CASE CloseUncached(t)
    <3>1. cache' = "none" /\ opened' = "no" /\ UNCHANGED <<local, written, saved>>
      BY <2>8 DEF CloseUncached, CloseBegins, EraseOpen, files
    <3>2. OperationOK(t)'
      BY <1>2, <1>3, <1>6, <2>8 DEF CloseUncached, EraseOpen
    <3>3. CachedOK'
      BY <3>1 DEF CachedOK
    <3> QED
      BY <1>1, <1>9, <2>8, <3>1, <3>2, <3>3, StillUnmodified DEF CloseUncached
  <2>9. CASE DeleteClosed(t)
    <3>1. Meet(t, "delete") /\ Forget(t)
      BY <2>9 DEF DeleteClosed
    <3>2. ~Modified' /\ cache' = "none" /\ opened' = "no" /\ local' = local
      BY <3>1 DEF Forget, Modified, EraseOpen, files, TypeOK, Content
    <3>3. r.op = "delete" /\ r.pc = "delete_rpc"
      BY <1>2, <1>6, <3>1 DEF Forget, EraseOpen
    <3>4. OperationOK(t)' /\ CachedOK'
      BY <3>2, <3>3 DEF OperationOK, Users, CachedOK
    <3> QED
      BY <1>1, <3>1, <3>2, <3>4, StillUnmodified
  <2> QED
    BY <1>10, <2>1, <2>2, <2>3, <2>4, <2>5, <2>6, <2>7, <2>8, <2>9 DEF Caller, Users
<1>11. CASE Fetch(t) \/ FetchReply(t) \/ CreateFile(t)
  <2>1. /\ thread[t].pc \in {"fetch", "reply", "create_file"}
        /\ r.pc \in {"reply", "enter", "create_enter"} /\ r.op = thread[t].op
        /\ local' # NoFile /\ UNCHANGED <<cache, opened, written, saved>>
    BY <1>4, <1>11 DEF Fetch, FetchReply, CreateFile, At, maps, history, NoFile
  <2>2. cache = "none" /\ Busy(t, Openers)
    BY <1>1, <2>1 DEF Known, OperationOK, ShapeOK, OpenSteps, CreateSteps, Busy, Openers
  <2>3. OperationOK(t)' /\ CachedOK'
    BY <1>1, <2>1, <2>2 DEF Known, OperationOK, Users, CachedOK, Busy, Openers
  <2> QED
    BY <1>1, <1>9, <2>1, <2>2, <2>3, StillUnmodified
<1>12. CASE EnterCache(t) \/ CreateEnter(t)
  <2>1. /\ thread[t].pc \in {"enter", "create_enter"}
        /\ r.pc \in {"install", "create_install"} /\ r.op = thread[t].op
        /\ cache' # "none" /\ UNCHANGED <<local, opened, written, saved>>
    BY <1>4, <1>12 DEF EnterCache, CreateEnter, At, files, history
  <2>2. cache = "none" /\ local # NoFile /\ Busy(t, Openers)
    BY <1>1, <2>1 DEF Known, OperationOK, ShapeOK, OpenSteps, CreateSteps, Busy, Openers
  <2>3. OperationOK(t)' /\ CachedOK'
    BY <1>1, <2>1, <2>2 DEF Known, OperationOK, Users, CachedOK, Busy, Openers
  <2> QED
    BY <1>1, <1>9, <2>1, <2>2, <2>3, StillUnmodified
<1>13. CASE FetchFails(t) \/ DeleteLocal(t)
  <2>1. /\ thread[t].pc \in {"reply", "delete_local"} /\ Return(t) /\ RemoveLocal
        /\ UNCHANGED <<cache, written, saved>>
    BY <1>13 DEF FetchFails, DeleteLocal, At, history
  <2>2. cache = "none" /\ opened # "open"
    <3>1. CASE FetchFails(t)
      BY <1>1, <2>1, <3>1 DEF FetchFails, Calm, Known, OperationOK, At
    <3>2. CASE DeleteLocal(t)
      BY <1>1, <2>1, <3>2 DEF DeleteLocal, Known, OperationOK, At
    <3> QED
      BY <1>13, <3>1, <3>2
  <2>3. opened' = opened /\ CachedOK'
    BY <1>1, <2>1, <2>2 DEF RemoveLocal, Known, CachedOK
  <2>4. Busy(t, Openers) \/ Busy(t, {"delete"})
    BY <2>1 DEF ShapeOK, OpenSteps, DeleteSteps, Busy, Openers
  <2> QED
    BY <1>1, <1>5, <1>9, <2>1, <2>2, <2>3, <2>4, StillUnmodified
<1>14. CASE Install(t) \/ CreateInstall(t) \/ InstallFails(t)
  <2>1. Busy(t, Openers) /\ ~At(t, "mark") /\ UNCHANGED <<local, written, saved>>
    BY <1>14 DEF Install, CreateInstall, InstallFails, At, ShapeOK, OpenSteps,
       CreateSteps,
       Busy, Openers, files, history
  <2>2. thread[t].pc \in {"install", "create_install"} => local # NoFile
    BY <1>1 DEF Known, OperationOK
  <2>3. cache' = cache /\ (opened' = opened \/ opened' = "open")
    BY <1>14, <2>2 DEF Install, CreateInstall, InstallFails, At, EnterOpen
  <2>4. OperationOK(t)'
    <3>1. CASE r = Begin("create", "create_stat")
      BY <1>2, <3>1 DEF OperationOK, Users
    <3> QED
      BY <1>2, <1>3, <1>5, <1>6, <1>14, <3>1 DEF Install, CreateInstall, InstallFails,
         EnterOpen
  <2> QED
    BY <1>1, <2>1, <2>3, <2>4, StillMarked DEF Busy, Openers, Operation
<1>15. CASE UseLock(t) \/ CloseLock(t) \/ DeleteWait(t) \/ DeleteLock(t)
  <2>1. /\ thread[t].pc \in Locking \cup {"delete_lock"}
        /\ r.pc \in {"use_streams", "flush", "erase", "delete_lock", "delete_erase"}
        /\ r.op = thread[t].op /\ r.ref = thread[t].ref /\ r.flush = thread[t].flush
        /\ Changed
    BY <1>4, <1>15 DEF UseLock, CloseLock, DeleteWait, DeleteLock, At, maps, files,
       history,
       Locking
  <2>2. OperationOK(t)'
    BY <1>1, <2>1 DEF Known, OperationOK, Modified
  <2> QED
    BY <1>8, <2>1, <2>2 DEF At, Locking
<1>16. CASE UploadFails(t) \/ DeleteRPC(t) \/ CreateStat(t)
  <2>1. Changed /\ ~At(t, "mark")
    BY <1>16 DEF UploadFails, DeleteRPC, CreateStat, maps, files, history, At
  <2>2. CASE Return(t)
    BY <1>5, <1>8, <2>1, <2>2
  <2>3. CASE DeleteRPC(t) /\ Goto(t, "delete_local")
    <3>1. thread[t].pc = "delete_rpc" /\ r.pc = "delete_local" /\ r.op = thread[t].op
      BY <1>4, <2>3 DEF DeleteRPC, At
    <3>2. r.op = "delete"
      BY <3>1 DEF ShapeOK, DeleteSteps
    <3>3. OperationOK(t)'
      BY <1>1, <2>1, <3>1, <3>2 DEF Known, OperationOK, Modified, Users
    <3> QED
      BY <1>8, <2>1, <3>3
  <2> QED
    BY <1>16, <2>2, <2>3 DEF UploadFails, DeleteRPC, CreateStat
<1>17. CASE UseStreams(t)
  <2>1. /\ thread[t].pc = "use_streams" /\ Busy(t, Users)
        /\ UNCHANGED <<cache, saved>>
        /\ thread[t].ref = "node" /\ cache # "none"
    BY <1>1, <1>17 DEF UseStreams, At, ShapeOK, UseSteps, Busy, maps, Known, OperationOK
  <2>2. CASE /\ Return(t) /\ UNCHANGED <<local, written>>
             /\ opened' \in {opened, Cleared(opened)}
    <3>1. opened' = opened \/ (opened' = "closed" /\ opened # "no")
      BY <2>2 DEF Cleared
    <3>2. Busy(t, Operation)
      BY <2>1 DEF Busy, Users, Operation
    <3> QED
      BY <1>1, <1>5, <2>1, <2>2, <3>1, <3>2, StillMarked DEF At
  <2>3. CASE /\ opened \notin {"closed", "failed"} /\ opened' = opened
             /\ written' = written + 1 /\ Goto(t, "mark")
             /\ local' = IF opened = "open" THEN written + 1 ELSE local
    <3>1. opened = "open"
      BY <1>1, <2>1, <2>3 DEF Known, FoundOK, CachedOK, TypeOK
    <3>2. local' = written' /\ local' # NoFile
      BY <2>3, <3>1 DEF TypeOK, Content, NoFile
    <3>3. r.pc = "mark" /\ r.op = thread[t].op /\ r.ref = "node"
      BY <1>4, <2>1, <2>3
    <3>4. CachedOK' /\ ModifiedOK'
      BY <1>1, <2>1, <2>3, <3>1, <3>2, <3>3 DEF Known, CachedOK, ModifiedOK, At
    <3>5. OperationOK(t)'
      <4>1. r.op \in Users /\ r.op # "close"
        BY <2>1, <3>3 DEF Busy, Users
      <4> QED
        BY <2>1, <3>3, <4>1 DEF OperationOK
    <3>6. ASSUME NEW u \in Thread \ {t} PROVE OperationOK(u)'
      <4>1. /\ thread'[u].pc = thread[u].pc /\ thread'[u].op = thread[u].op
            /\ thread'[u].op \in Users => thread'[u].ref = "node"
            /\ thread[u].op \notin Erasers
        BY <1>1, <2>1, OthersKept, OthersThen
      <4>2. thread[u].pc \notin CloseSteps \cup DeleteSteps
        BY <4>1 DEF ShapeOK, Erasers
      <4> QED
        BY <1>1, <2>1, <3>2, <4>1, <4>2 DEF Known, OperationOK, CloseSteps, DeleteSteps,
           Erasers
    <3> QED
      BY <3>4, <3>5, <3>6
  <2> QED
    BY <1>17, <2>1, <2>2, <2>3 DEF UseStreams
<1>18. CASE Mark(t)
  <2>1. /\ thread[t].pc = "mark" /\ Busy(t, Users) /\ cache' = "dirty"
        /\ UNCHANGED <<opened, local, written, saved>> /\ cache # "none"
    BY <1>1, <1>18 DEF Mark, At, ShapeOK, UseSteps, Busy, files, history, Known,
       OperationOK
  <2>2. CachedOK' /\ ModifiedOK'
    BY <1>1, <2>1 DEF Known, CachedOK, ModifiedOK, Modified
  <2>3. ASSUME NEW u \in Thread \ {t} PROVE OperationOK(u)'
    <3>1. /\ thread'[u].pc = thread[u].pc /\ thread'[u].op = thread[u].op
          /\ thread'[u].op \in Users => thread'[u].ref = "node"
          /\ thread[u].op \notin Erasers
      BY <1>1, <2>1, OthersKept, OthersThen
    <3>2. thread[u].pc \notin CloseSteps \cup DeleteSteps
      BY <3>1 DEF ShapeOK, Erasers
    <3> QED
      BY <1>1, <2>1, <3>1, <3>2 DEF Known, OperationOK, CloseSteps, DeleteSteps, Erasers
  <2> QED
    BY <1>5, <1>18, <2>2, <2>3 DEF Mark
<1>19. CASE Flush(t)
  <2>1. thread[t].pc = "flush" /\ thread[t].op = "close" /\ Busy(t, Operation)
        /\ UNCHANGED <<cache, local, written, saved>>
    BY <1>19 DEF Flush, At, ShapeOK, CloseSteps, Busy, Operation, files, history
  <2>2. CASE thread[t].ref = "stale"
    <3>1. Changed /\ thread' = thread
      BY <1>19, <2>1, <2>2 DEF Flush
    <3>2. OperationOK(t)'
      BY <1>1, <3>1 DEF Known, OperationOK, Modified
    <3> QED
      BY <1>8, <2>1, <3>1, <3>2 DEF At
  <2>3. CASE thread[t].ref # "stale"
    <3>1. opened' \in {"closed", "failed"} /\ opened # "no"
      BY <1>19, <2>3 DEF Flush, At, ShapeOK, FoundOK, ClosedAgain
    <3>2. OperationOK(t)'
      <4>1. CASE Return(t)
        BY <1>5, <4>1
      <4>2. CASE /\ local # NoFile
                 /\ thread' = [thread EXCEPT ![t].pc = "upload", ![t].data = local,
                                             ![t].ref = "none"]
        <5>1. /\ r.pc = "upload" /\ r.op = thread[t].op /\ r.flush = thread[t].flush
              /\ r.data = local
          BY <4>2 DEF TypeOK, ThreadRecord
        <5>2. (~r.flush => ~Modified') /\ (Modified' => r.data = written')
          BY <1>1, <2>1, <5>1 DEF Known, OperationOK, ModifiedOK, Modified
        <5>3. r.op = "close"
          BY <2>1, <5>1
        <5> QED
          BY <2>1, <4>2, <5>1, <5>2, <5>3 DEF OperationOK, Users
      <4> QED
        BY <1>19, <2>3, <4>1, <4>2 DEF Flush
    <3> QED
      BY <1>1, <2>1, <3>1, <3>2, StillMarked DEF At
  <2> QED
    BY <2>2, <2>3
<1>20. CASE Upload(t)
  <2>1. /\ thread[t].pc = "upload" /\ r.pc = "unmark" /\ r.op = thread[t].op
        /\ r.flush = thread[t].flush /\ UNCHANGED <<cache, opened, local, written>>
        /\ saved' = IF thread[t].data > saved THEN thread[t].data ELSE saved
    BY <1>4, <1>20 DEF Upload, At, maps
  <2>2. /\ thread[t].data \in Int /\ saved \in Int /\ written \in Int
    BY BoundAssumption DEF TypeOK, ThreadRecord, Content, NoFile
  <2>3. ~Modified'
    BY <1>1, <2>1, <2>2 DEF Known, OperationOK, Modified
  <2>4. OperationOK(t)' /\ CachedOK'
    <3>1. r.op = "close"
      BY <2>1 DEF ShapeOK, CloseSteps
    <3> QED
      BY <1>1, <2>1, <2>3, <3>1 DEF Known, OperationOK, CachedOK, Users
  <2> QED
    BY <1>1, <2>1, <2>3, <2>4, StillUnmodified
<1>21. CASE Unmark(t) \/ CloseErase(t)
  <2>1. /\ thread[t].pc \in {"unmark", "erase"} /\ opened' = "no" /\ r = Idle
        /\ UNCHANGED <<local, written, saved>> /\ (cache' = "none" <=> cache = "none")
    BY <1>6, <1>21 DEF Unmark, CloseErase, At, EraseOpen, files, history
  <2>2. ~Modified'
    BY <1>1, <2>1 DEF Known, OperationOK, ShapeOK, CloseSteps, Modified
  <2>3. OperationOK(t)' /\ CachedOK'
    BY <1>1, <1>2, <1>3, <2>1 DEF Known, CachedOK
  <2> QED
    BY <1>1, <2>1, <2>2, <2>3, StillUnmodified
<1>22. CASE DeleteErase(t)
  <2>1. Forget(t) /\ Busy(t, {"delete"})
    BY <1>22 DEF DeleteErase, At, ShapeOK, DeleteSteps, Busy
  <2>2. ~Modified' /\ cache' = "none" /\ opened' = "no" /\ local' = local
    BY <2>1 DEF Forget, Modified, EraseOpen, files, TypeOK, Content
  <2>3. r.op = "delete" /\ r.pc = "delete_rpc"
    BY <1>2, <1>6, <2>1 DEF Forget, EraseOpen
  <2>4. OperationOK(t)' /\ CachedOK'
    BY <2>2, <2>3 DEF OperationOK, Users, CachedOK
  <2> QED
    BY <1>1, <2>1, <2>2, <2>4, StillUnmodified
<1> QED
  BY <1>10, <1>11, <1>12, <1>13, <1>14, <1>15, <1>16, <1>17, <1>18, <1>19, <1>20, <1>21,
     <1>22 DEF Steps, Continue

-----------------------------------------------------------------------------
(***************************************************************************)
(* ThreadsInv is inductive, and what it is for.                            *)
(***************************************************************************)
\* A client that has just started, or has opened the file once.
LEMMA ThreadsInvInit == Init => ThreadsInv
<1> SUFFICES ASSUME Init PROVE ThreadsInv
  OBVIOUS
<1> USE BoundAssumption DEF Init
<1>1. NoMutex \in Mutexes /\ 1 \in Mutexes /\ 1 # NoMutex
  BY ThreadAssumption, FS_CardinalityType DEF NoMutex, Mutexes
<1>2. /\ Idle.op = "none" /\ Idle.pc = "idle" /\ Idle.ref = "none"
      /\ Idle \in ThreadRecord
  BY <1>1 DEF Idle, ThreadRecord, Operation, Step, Reference, Locking, Holding
<1>3. TypeOK
  <2>1. thread \in [Thread -> ThreadRecord]
    BY <1>2
  <2>2. \A t \in Thread : thread[t].pc = "idle"
    BY <1>2
  <2>3. \A t \in Thread : thread[t].pc \notin Locking \cup Holding
    BY <2>2 DEF Locking, Holding
  <2>4. /\ 0 \in Content /\ calls \in 0 .. MaxCalls
        /\ handles \in 0 .. MaxCalls + 1
    BY DEF Content
  <2>5. file_mutex \in Mutexes
    BY <1>1
  <2> QED
    BY <2>1, <2>3, <2>4, <2>5 DEF TypeOK
<1>4. ShapeOK /\ LockOK /\ AloneOK
  BY <1>2 DEF ShapeOK, LockOK, AloneOK, Busy, OpenSteps, CreateSteps, UseSteps,
     CloseSteps,
     DeleteSteps, Users, Erasers, Openers, Operation, Holding, Idle
<1>5. EntriesOK /\ FoundOK
  BY <1>1, <1>2 DEF EntriesOK, FoundOK, At
<1>6. CountOK
  <2>1. Opening = {} /\ ToWrite = {}
    BY <1>2 DEF Opening, ToWrite, Busy, Openers
  <2>2. Cardinality({}) = 0
    BY FS_EmptySet
  <2> QED
    BY <2>1, <2>2 DEF CountOK
<1>7. MarkedOK
  BY <1>2 DEF MarkedOK, CachedOK, ModifiedOK, Modified, OperationOK, Users, NoFile
<1> QED
  BY <1>3, <1>4, <1>5, <1>6, <1>7 DEF ThreadsInv

\* Another client changes only the server, and a notification only the cache,
\* of which it takes nothing while the file is open.
LEMMA OutsideKeeps ==
  ASSUME ThreadsInv, Change \/ HandleNotification
  PROVE  ThreadsInv'
<1> USE DEF ThreadsInv
<1>1. /\ UNCHANGED <<opened, file_mutex, cache_mutex, local, thread, undefined, handles,
                     calls, written, saved, erasersMet, openersMet, usersMet, removed>>
      /\ cache' \in {cache, "none"} /\ (cache' # cache => opened = "no")
      /\ server' \in {server, 0, NoFile} /\ notified' \in BOOLEAN
  BY DEF Change, HandleNotification, maps, files, history
<1>2. TypeOK'
  BY <1>1, BoundAssumption DEF TypeOK, Content
<1>3. ShapeOK' /\ LockOK' /\ EntriesOK' /\ FoundOK'
  BY <1>1 DEF ShapeOK, LockOK, EntriesOK, FoundOK, At
<1>4. CountOK' /\ AloneOK'
  BY <1>1 DEF CountOK, Opening, ToWrite, AloneOK, Busy
<1>5. MarkedOK'
  <2>1. CASE openersMet \/ usersMet \/ removed
    BY <1>1, <2>1 DEF MarkedOK
  <2>2. CASE CachedOK /\ ModifiedOK /\ \A t \in Thread : OperationOK(t)
    <3>1. CachedOK' /\ ModifiedOK'
      BY <1>1, <2>2 DEF CachedOK, ModifiedOK, Modified, At
    <3>2. ASSUME NEW t \in Thread PROVE OperationOK(t)'
      <4>1. thread[t].op \in Users => opened # "no"
        BY <2>2 DEF OperationOK, FoundOK
      <4> QED
        BY <1>1, <2>2, <4>1 DEF OperationOK, Modified
    <3> QED
      BY <3>1, <3>2 DEF MarkedOK
  <2> QED
    BY <2>1, <2>2 DEF MarkedOK
<1> QED
  BY <1>2, <1>3, <1>4, <1>5

\* Every step keeps the invariant.
LEMMA ThreadsInvNext == ThreadsInv /\ [Next]_vars => ThreadsInv'
<1> SUFFICES ASSUME ThreadsInv, [Next]_vars PROVE ThreadsInv'
  OBVIOUS
<1>1. ASSUME NEW t \in Thread, Steps(t) PROVE ThreadsInv'
  BY <1>1, TypesKept, ShapeKept, LockKept, EntriesKept, CountKept, AloneKept, FoundKept,
     MarkedKept DEF ThreadsInv
<1>2. CASE Change \/ HandleNotification
  BY <1>2, OutsideKeeps
<1>3. CASE UNCHANGED vars
  BY <1>3 DEF ThreadsInv, vars, maps, files, history, TypeOK, ShapeOK, LockOK, EntriesOK,
     CountOK, Opening, ToWrite, AloneOK, FoundOK, MarkedOK, CachedOK, ModifiedOK,
     Modified, OperationOK, Busy, At
<1> QED
  BY <1>1, <1>2, <1>3 DEF Next, Steps

\* The inductive invariant of the threads holds in every behaviour.
THEOREM ThreadsInvHolds == Spec => []ThreadsInv
BY ThreadsInvInit, ThreadsInvNext, PTL DEF Spec

(***************************************************************************)
(* The state has its types, for any number of threads and calls: a thread  *)
(* that waits for a mutex waits for one that exists, and there are no more *)
(* handles than opens and creates that were called.                        *)
(***************************************************************************)
THEOREM ThreadsTypes == Spec => []TypeOK
<1>1. ThreadsInv => TypeOK
  BY DEF ThreadsInv
<1> QED
  BY <1>1, ThreadsInvHolds, PTL

(***************************************************************************)
(* No thread writes to the file while another uploads it, unless the mutex *)
(* of one of them was erased or replaced: both have found the mutex of the *)
(* entry, and a mutex has one holder.                                      *)
(***************************************************************************)
THEOREM ThreadsUploadAlone == Spec => []UploadIsAlone
<1>1. ThreadsInv => UploadIsAlone
  <2> SUFFICES ASSUME ThreadsInv, ~erasersMet, ~openersMet,
                      NEW t \in Thread, NEW u \in Thread, Uploading(t), Writing(u)
               PROVE  FALSE
    BY DEF UploadIsAlone
  <2>1. thread[t].op = "close" /\ thread[t].pc \in Holding
    BY DEF Uploading, ThreadsInv, ShapeOK, CloseSteps, Holding
  <2>2. thread[u].op = "write" /\ thread[u].ref = "node" /\ thread[u].pc \in Holding
    BY DEF Writing, ThreadsInv, ShapeOK, Users, Holding
  <2>3. thread[t].mutex = file_mutex /\ thread[u].mutex = file_mutex
    BY <2>1, <2>2 DEF ThreadsInv, FoundOK
  <2> QED
    BY <2>1, <2>2, <2>3 DEF ThreadsInv, LockOK
<1> QED
  BY <1>1, ThreadsInvHolds, PTL

(***************************************************************************)
(* A successful write stays in the local file, and marked, until it has    *)
(* been uploaded: for any number of threads and calls, whatever other      *)
(* clients do, with the exceptions the property names.                     *)
(***************************************************************************)
THEOREM ThreadsModificationMarked == Spec => []ModificationIsMarked
<1>1. ThreadsInv => ModificationIsMarked
  BY DEF ThreadsInv, MarkedOK, ModifiedOK, Modified, ModificationIsMarked
<1> QED
  BY <1>1, ThreadsInvHolds, PTL
=============================================================================
