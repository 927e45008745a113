---------------------------- MODULE NotifierProof ----------------------------
(***************************************************************************)
(* The callback channel as the server has it is the FIFO the other modules *)
(* take it for: for any number of clients and calls, each step of its      *)
(* threads is a step of NotificationChannel, or none.                      *)
(***************************************************************************)
EXTENDS Notifier, SequenceTheorems, TLAPS

\* A callback in progress has a notification to push.
NoteOK == \A c \in Client : rpc[c].pc # "idle" => rpc[c].note \in Note

(***************************************************************************)
(* Who holds a mutex is where it is held, and holds subscriber_mutex only  *)
(* inside file_map_mutex.                                                  *)
(***************************************************************************)
MutexOK ==
  \A c \in Client :
    /\ rpc[c].pc \in {"lock_subscribers", "push"} <=> file_map_mutex = c
    /\ rpc[c].pc = "push" <=> subscriber_mutex = c

\* Who is still to be told is in both maps: these cannot change meanwhile.
TodoOK == \A c \in Client :
  rpc[c].pc = "push" => rpc[c].todo \subseteq (file_map \cap subscribers) \ {c}

(***************************************************************************)
(* The handler of subscribe() and the entries of its client come and go    *)
(* together, section by section of cleanup_client().                       *)
(***************************************************************************)
EntriesOK ==
  \A c \in Client :
    /\ c \in subscribers <=> handler[c] \in Running
    /\ c \in clients_db <=>
         handler[c] \in {"none", "pop", "sleep", "write", "clean_db"}

\* A client is cleaned up, and its queue shut down before, only when the server
\* knows that the stream is down.
DownOK ==
  \A c \in Client :
    /\ handler[c] \in {"clean_db", "clean_map", "clean_subscribers"} => link[c] = "down"
    /\ handler[c] # "done" /\ shutdown[c] => link[c] = "down"

(***************************************************************************)
(* The inductive invariant.                                                *)
(***************************************************************************)
NotifierInv == TypeOK /\ NoteOK /\ MutexOK /\ TodoOK /\ EntriesOK /\ DownOK

-----------------------------------------------------------------------------
(***************************************************************************)
(* The steps of the handlers keep the invariant.                           *)
(***************************************************************************)
HandlerPC == {"none", "done"} \cup Running

\* notify_one() moves the handler of that queue out of its sleep, or nothing.
LEMMA WakeIs ==
  ASSUME TypeOK, NEW d \in Client, Wake(d)
  PROVE  /\ handler' \in [Client -> HandlerPC]
         /\ \A c \in Client : \/ handler'[c] = handler[c]
                              \/ handler[c] = "sleep" /\ handler'[c] = "pop"
BY DEF TypeOK, Wake, HandlerPC, Running

\* What concerns the callbacks' mutexes is left alone by all other threads.
LEMMA CallsFrame ==
  ASSUME NotifierInv, UNCHANGED rpcVars
  PROVE  NoteOK' /\ MutexOK'
BY DEF NotifierInv, rpcVars, NoteOK, MutexOK

\* A handler moves between its wait and its write, or to the cleanup.
LEMMA HandlerMoves ==
  ASSUME NotifierInv, NEW c \in Client, NEW l \in Running, TypeOK',
         UNCHANGED <<mapVars, rpcVars, shutdown, link>>,
         handler[c] \in {"pop", "sleep", "write"},
         handler' = [handler EXCEPT ![c] = l],
         l \in {"pop", "sleep", "write"} \/ (l = "clean_db" /\ link[c] = "down")
  PROVE  NotifierInv'
<1> USE DEF NotifierInv, mapVars, rpcVars
<1>1. NoteOK' /\ MutexOK' /\ TodoOK'
  BY CallsFrame DEF TodoOK
<1>2. handler'[c] = l /\ \A d \in Client \ {c} : handler'[d] = handler[d]
  BY DEF TypeOK
<1>3. EntriesOK' /\ DownOK'
  BY <1>2 DEF EntriesOK, DownOK, Running
<1> QED
  BY <1>1, <1>3

\* subscribe() makes the entry with the handler that serves it.
LEMMA SubscribeStep ==
  ASSUME NotifierInv, NEW c \in Client, Subscribe(c)
  PROVE  NotifierInv'
<1> USE DEF NotifierInv, rpcVars, streamVars, Subscribe
<1>1. TypeOK'
  BY DEF TypeOK, Running
<1>2. NoteOK' /\ MutexOK'
  BY CallsFrame
<1>3. TodoOK'
  BY DEF TodoOK
<1>4. handler'[c] = "pop" /\ \A d \in Client \ {c} : handler'[d] = handler[d]
  BY DEF TypeOK
<1>5. EntriesOK' /\ DownOK'
  BY <1>4 DEF EntriesOK, DownOK, Running
<1> QED
  BY <1>1, <1>2, <1>3, <1>5

\* pop() returns what is first in the queue, sleeps, or ends the loop.
LEMMA PopStep ==
  ASSUME NotifierInv, NEW c \in Client, Pop(c)
  PROVE  NotifierInv'
<1> USE DEF NotifierInv, mapVars, rpcVars, streamVars
<1>1. CASE queue[c] # <<>>
  <2>1. /\ popped' = [popped EXCEPT ![c] = Head(queue[c])]
        /\ queue' = [queue EXCEPT ![c] = Tail(queue[c])]
        /\ handler' = [handler EXCEPT ![c] = "write"]
        /\ handler[c] = "pop"
        /\ UNCHANGED <<mapVars, rpcVars, shutdown, monitor, streamVars>>
    BY <1>1 DEF Pop
  <2>2. Head(queue[c]) \in Note /\ Tail(queue[c]) \in Seq(Note)
    BY <1>1 DEF TypeOK
  <2>3. TypeOK'
    BY <2>1, <2>2 DEF TypeOK, Running
  <2> QED
    BY <2>1, <2>3, HandlerMoves DEF Running
<1>2. CASE queue[c] = <<>>
  <2>1. PICK l \in Running :
          /\ handler' = [handler EXCEPT ![c] = l]
          /\ l = "sleep" \/ (l = "clean_db" /\ shutdown[c])
    BY <1>2 DEF Pop, Running, TypeOK
  <2>2. handler[c] = "pop"
        /\ UNCHANGED <<mapVars, rpcVars, queue, popped, shutdown, monitor, streamVars>>
    BY <1>2 DEF Pop
  <2>3. TypeOK'
    BY <2>1, <2>2 DEF TypeOK, Running
  <2>4. shutdown[c] => link[c] = "down"
    BY <2>2 DEF DownOK
  <2> QED
    BY <2>1, <2>2, <2>3, <2>4, HandlerMoves DEF Running
<1> QED
  BY <1>1, <1>2

\* A handler that wakes up for nothing goes back to its wait.
LEMMA WakeSpuriouslyStep ==
  ASSUME NotifierInv, NEW c \in Client, WakeSpuriously(c)
  PROVE  NotifierInv'
<1> USE DEF NotifierInv, mapVars, rpcVars, streamVars
<1>1. /\ handler' = [handler EXCEPT ![c] = "pop"] /\ handler[c] = "sleep"
      /\ UNCHANGED <<mapVars, rpcVars, queue, shutdown, popped, monitor, streamVars>>
  BY DEF WakeSpuriously, Wake, TypeOK
<1>2. TypeOK'
  BY <1>1 DEF TypeOK, Running
<1> QED
  BY <1>1, <1>2, HandlerMoves DEF Running

\* writer->Write(): only a stream that is known to be down ends the loop.
LEMMA WriteStep ==
  ASSUME NotifierInv, NEW c \in Client, Write(c)
  PROVE  NotifierInv'
<1> USE DEF NotifierInv, mapVars, rpcVars, streamVars
<1>1. PICK l \in Running :
        /\ handler' = [handler EXCEPT ![c] = l]
        /\ l = "pop" \/ (l = "clean_db" /\ link[c] = "down")
  BY DEF Write, Running
<1>2. /\ handler[c] = "write" /\ popped' = [popped EXCEPT ![c] = 0]
      /\ UNCHANGED <<mapVars, rpcVars, queue, shutdown, monitor, link, note>>
  BY DEF Write
<1>3. wire' \in [Client -> Seq(Note)]
  <2>1. popped[c] \in Note /\ wire[c] \in Seq(Note)
    BY <1>2 DEF TypeOK
  <2>2. Append(wire[c], popped[c]) \in Seq(Note)
    BY <2>1
  <2> QED
    BY <2>2 DEF TypeOK, Write
<1>4. TypeOK'
  BY <1>1, <1>2, <1>3 DEF TypeOK, Running
<1> QED
  BY <1>1, <1>2, <1>4, HandlerMoves DEF Running

\* The three sections of cleanup_client(): the second waits for file_map_mutex,
\* the third for subscriber_mutex, and so for a callback that goes over the maps.
LEMMA CleanStep ==
  ASSUME NotifierInv, NEW c \in Client, CleanDB(c) \/ CleanMap(c) \/ CleanSubscribers(c)
  PROVE  NotifierInv'
<1> USE DEF NotifierInv, mapVars, rpcVars, streamVars
<1>1. CASE CleanDB(c)
  <2>1. TypeOK'
    BY <1>1 DEF CleanDB, TypeOK, Running
  <2>2. NoteOK' /\ MutexOK' /\ TodoOK'
    BY <1>1, CallsFrame DEF CleanDB, TodoOK
  <2>3. handler'[c] = "clean_map" /\ \A d \in Client \ {c} : handler'[d] = handler[d]
    BY <1>1 DEF CleanDB, TypeOK
  <2>4. EntriesOK' /\ DownOK'
    BY <1>1, <2>3 DEF CleanDB, EntriesOK, DownOK, Running
  <2> QED
    BY <2>1, <2>2, <2>4
<1>2. CASE CleanMap(c)
  <2>1. TypeOK'
    BY <1>2 DEF CleanMap, TypeOK, Running
  <2>2. NoteOK' /\ MutexOK'
    BY <1>2, CallsFrame DEF CleanMap
  <2>3. \A d \in Client : rpc[d].pc # "push"
    BY <1>2, NobodyAssumption DEF CleanMap, MutexOK
  <2>4. TodoOK'
    BY <1>2, <2>3 DEF CleanMap, TodoOK
  <2>5. handler'[c] = "clean_subscribers"
        /\ \A d \in Client \ {c} : handler'[d] = handler[d]
    BY <1>2 DEF CleanMap, TypeOK
  <2>6. EntriesOK' /\ DownOK'
    BY <1>2, <2>5 DEF CleanMap, EntriesOK, DownOK, Running
  <2> QED
    BY <2>1, <2>2, <2>4, <2>6
<1>3. CASE CleanSubscribers(c)
  <2>1. TypeOK'
    BY <1>3 DEF CleanSubscribers, TypeOK, Running
  <2>2. NoteOK' /\ MutexOK'
    BY <1>3, CallsFrame DEF CleanSubscribers
  <2>3. \A d \in Client : rpc[d].pc # "push"
    BY <1>3, NobodyAssumption DEF CleanSubscribers, MutexOK
  <2>4. TodoOK'
    BY <1>3, <2>3 DEF CleanSubscribers, TodoOK
  <2>5. /\ handler'[c] = "done" /\ \A d \in Client \ {c} : handler'[d] = handler[d]
        /\ \A d \in Client \ {c} : shutdown'[d] = shutdown[d]
    BY <1>3 DEF CleanSubscribers, TypeOK
  <2>6. EntriesOK' /\ DownOK'
    BY <1>3, <2>5 DEF CleanSubscribers, EntriesOK, DownOK, Running
  <2> QED
    BY <2>1, <2>2, <2>4, <2>6
<1> QED
  BY <1>1, <1>2, <1>3

\* The monitor shuts down the queue of a stream that is down, or of a handler
\* that has returned; the handler may wake up.
LEMMA MonitorStep ==
  ASSUME NotifierInv, NEW c \in Client, Monitor(c)
  PROVE  NotifierInv'
<1> USE DEF NotifierInv, mapVars, rpcVars, streamVars, Monitor
<1>1. /\ handler' \in [Client -> HandlerPC]
      /\ \A d \in Client : \/ handler'[d] = handler[d]
                           \/ handler[d] = "sleep" /\ handler'[d] = "pop"
  BY WakeIs
<1>2. TypeOK'
  BY <1>1 DEF TypeOK, HandlerPC
<1>3. NoteOK' /\ MutexOK' /\ TodoOK'
  BY CallsFrame DEF TodoOK
<1>4. EntriesOK'
  BY <1>1 DEF EntriesOK, Running
<1>5. handler[c] = "done" \/ link[c] = "down"
  BY DEF IsCancelled
<1>6. \A d \in Client \ {c} : shutdown'[d] = shutdown[d]
  BY DEF TypeOK
<1>7. DownOK'
  BY <1>1, <1>5, <1>6 DEF DownOK
<1> QED
  BY <1>2, <1>3, <1>4, <1>7

-----------------------------------------------------------------------------
(***************************************************************************)
(* The steps of the callbacks and of the streams keep the invariant.       *)
(***************************************************************************)
\* What concerns the handlers is left alone by a callback that pushes nothing.
LEMMA HandlersFrame ==
  ASSUME NotifierInv, UNCHANGED <<clients_db, subscribers, handler, shutdown, link>>
  PROVE  EntriesOK' /\ DownOK'
BY DEF NotifierInv, EntriesOK, DownOK

\* The handler of a call that begins.
LEMMA NewCallIs ==
  ASSUME NotifierInv, NEW c \in Client, Call(c)
  PROVE  \E r \in RPC : /\ r.pc = "lock_map" /\ r.note \in Note
                        /\ rpc' = [rpc EXCEPT ![c] = r]
<1>1. calls + 1 \in Note
  BY CallsAssumption DEF Call, NotifierInv, TypeOK, Note
<1>2. PICK o \in {"open", "close", "unlink"}, n \in Note :
        rpc' = [rpc EXCEPT ![c] = [NoRPC EXCEPT !.op = o, !.pc = "lock_map",
                                                !.note = n]]
  BY <1>1 DEF Call
<1>3. PICK r : r = [NoRPC EXCEPT !.op = o, !.pc = "lock_map", !.note = n]
  OBVIOUS
<1>4. NoRPC \in RPC
  BY DEF NoRPC, RPC
<1>5. r \in RPC
  BY <1>3, <1>4 DEF RPC
<1>6. r.pc = "lock_map" /\ r.note \in Note
  BY <1>3 DEF NoRPC
<1>7. rpc' = [rpc EXCEPT ![c] = r]
  BY <1>2, <1>3
<1> QED
  BY <1>5, <1>6, <1>7

\* A client makes a call, with a notification of its own.
LEMMA CallStep ==
  ASSUME NotifierInv, NEW c \in Client, Call(c)
  PROVE  NotifierInv'
<1> USE DEF NotifierInv, mapVars, handlerVars, streamVars
<1>1. calls + 1 \in 0..MaxCalls
  BY CallsAssumption DEF Call, TypeOK
<1>2. PICK r \in RPC : /\ r.pc = "lock_map" /\ r.note \in Note
                       /\ rpc' = [rpc EXCEPT ![c] = r]
  BY NewCallIs
<1>3. /\ rpc[c].pc = "idle" /\ calls' = calls + 1
      /\ UNCHANGED <<mapVars, file_map_mutex, subscriber_mutex, handlerVars, monitor,
                     streamVars>>
  BY DEF Call
<1>4. TypeOK'
  BY <1>1, <1>2, <1>3 DEF TypeOK
<1>5. rpc'[c] = r /\ \A d \in Client \ {c} : rpc'[d] = rpc[d]
  BY <1>2 DEF TypeOK
<1>6. NoteOK' /\ MutexOK' /\ TodoOK'
  BY <1>2, <1>3, <1>5 DEF NoteOK, MutexOK, TodoOK
<1>7. EntriesOK' /\ DownOK'
  BY <1>3, HandlersFrame
<1> QED
  BY <1>4, <1>6, <1>7

\* A call that tells nobody: one section under file_map_mutex.
LEMMA RegisterStep ==
  ASSUME NotifierInv, NEW c \in Client, Register(c)
  PROVE  NotifierInv'
<1> USE DEF NotifierInv, handlerVars, streamVars, Register, EndCall
<1>1. NoRPC \in RPC /\ NoRPC.pc = "idle"
  BY DEF NoRPC, RPC
<1>2. TypeOK'
  BY <1>1 DEF TypeOK
<1>3. rpc'[c] = NoRPC /\ \A d \in Client \ {c} : rpc'[d] = rpc[d]
  BY DEF TypeOK
<1>4. \A d \in Client : rpc[d].pc # "push"
  BY NobodyAssumption DEF MutexOK
<1>5. NoteOK' /\ MutexOK' /\ TodoOK'
  BY <1>1, <1>3, <1>4 DEF NoteOK, MutexOK, TodoOK
<1>6. EntriesOK' /\ DownOK'
  BY HandlersFrame
<1> QED
  BY <1>2, <1>5, <1>6

\* A callback takes file_map_mutex, if it is free.
LEMMA LockMapStep ==
  ASSUME NotifierInv, NEW c \in Client, LockMap(c)
  PROVE  NotifierInv'
<1> USE DEF NotifierInv, mapVars, handlerVars, streamVars
<1>1. /\ UNCHANGED <<mapVars, subscriber_mutex, calls, handlerVars, monitor, streamVars>>
      /\ rpc[c].pc = "lock_map" /\ file_map_mutex = Nobody /\ file_map_mutex' = c
      /\ rpc' = [rpc EXCEPT ![c].pc = "lock_subscribers"]
      /\ rpc \in [Client -> RPC]
  BY DEF LockMap, TypeOK
<1>2. /\ rpc' \in [Client -> RPC]
      /\ rpc'[c].pc = "lock_subscribers" /\ rpc'[c].note = rpc[c].note
      /\ \A d \in Client \ {c} : rpc'[d] = rpc[d]
  BY <1>1 DEF RPC
<1>3. TypeOK'
  BY <1>1, <1>2 DEF TypeOK
<1>4. NoteOK' /\ TodoOK'
  BY <1>1, <1>2 DEF NoteOK, TodoOK
<1>5. MutexOK'
  BY <1>1, <1>2, NobodyAssumption DEF MutexOK
<1>6. EntriesOK' /\ DownOK'
  BY <1>1, HandlersFrame
<1> QED
  BY <1>3, <1>4, <1>5, <1>6

\* It takes subscriber_mutex too, and has its list of whom to tell.
LEMMA LockSubscribersStep ==
  ASSUME NotifierInv, NEW c \in Client, LockSubscribers(c)
  PROVE  /\ NotifierInv'
         /\ rpc'[c].pc = "push" /\ rpc'[c].todo = (file_map \cap subscribers) \ {c}
         /\ rpc'[c].note = rpc[c].note /\ rpc'[c].op = rpc[c].op
         /\ \A d \in Client \ {c} : rpc'[d] = rpc[d]
<1> USE DEF NotifierInv, mapVars, handlerVars, streamVars
<1>1. /\ UNCHANGED <<mapVars, file_map_mutex, calls, handlerVars, monitor, streamVars>>
      /\ rpc[c].pc = "lock_subscribers"
      /\ subscriber_mutex = Nobody /\ subscriber_mutex' = c
      /\ rpc \in [Client -> RPC]
      /\ (file_map \cap subscribers) \ {c} \in SUBSET Client
  BY DEF LockSubscribers, TypeOK
<1>2. PICK T \in SUBSET Client : T = (file_map \cap subscribers) \ {c}
  BY <1>1
<1>3. rpc' = [rpc EXCEPT ![c].pc = "push", ![c].todo = T]
  BY <1>2 DEF LockSubscribers
<1>4. /\ rpc' \in [Client -> RPC]
      /\ rpc'[c].pc = "push" /\ rpc'[c].note = rpc[c].note /\ rpc'[c].todo = T
      /\ rpc'[c].op = rpc[c].op
      /\ \A d \in Client \ {c} : rpc'[d] = rpc[d]
  BY <1>1, <1>3 DEF RPC
<1>5. TypeOK'
  BY <1>1, <1>4 DEF TypeOK
<1>6. NoteOK'
  BY <1>1, <1>4 DEF NoteOK
<1>7. MutexOK'
  BY <1>1, <1>4, NobodyAssumption DEF MutexOK
<1>8. TodoOK'
  BY <1>1, <1>2, <1>4 DEF TodoOK
<1>9. EntriesOK' /\ DownOK'
  BY <1>1, HandlersFrame
<1> QED
  BY <1>2, <1>4, <1>5, <1>6, <1>7, <1>8, <1>9

\* It tells one of them; the list gets shorter.
LEMMA PushStep ==
  ASSUME NotifierInv, NEW c \in Client, NEW e \in Client, Push(c, e)
  PROVE  /\ NotifierInv'
         /\ rpc'[c].pc = "push" /\ rpc'[c].todo = rpc[c].todo \ {e}
         /\ rpc'[c].note = rpc[c].note /\ rpc'[c].op = rpc[c].op
         /\ \A d \in Client \ {c} : rpc'[d] = rpc[d]
<1> USE DEF NotifierInv, mapVars, streamVars
<1>1. /\ UNCHANGED <<mapVars, file_map_mutex, subscriber_mutex, calls, shutdown, popped,
                     monitor, streamVars>>
      /\ rpc[c].pc = "push" /\ e \in rpc[c].todo
      /\ rpc \in [Client -> RPC]
      /\ rpc[c].todo \ {e} \in SUBSET Client
  BY DEF Push, TypeOK, RPC
<1>2. PICK T \in SUBSET Client : T = rpc[c].todo \ {e}
  BY <1>1
<1>3. rpc' = [rpc EXCEPT ![c].todo = T]
  BY <1>2 DEF Push
<1>4. /\ rpc' \in [Client -> RPC]
      /\ rpc'[c].pc = "push" /\ rpc'[c].note = rpc[c].note /\ rpc'[c].todo = T
      /\ rpc'[c].op = rpc[c].op
      /\ \A d \in Client \ {c} : rpc'[d] = rpc[d]
  BY <1>1, <1>3 DEF RPC
<1>5. /\ handler' \in [Client -> HandlerPC]
      /\ \A d \in Client : \/ handler'[d] = handler[d]
                           \/ handler[d] = "sleep" /\ handler'[d] = "pop"
  BY WakeIs DEF Push
<1>6. queue' \in [Client -> Seq(Note)]
  <2>1. rpc[c].note \in Note /\ queue[e] \in Seq(Note)
    BY <1>1 DEF NoteOK, TypeOK
  <2>2. Append(queue[e], rpc[c].note) \in Seq(Note)
    BY <2>1
  <2> QED
    BY <2>2 DEF Push, TypeOK
<1>7. TypeOK'
  BY <1>1, <1>4, <1>5, <1>6 DEF TypeOK, HandlerPC
<1>8. NoteOK' /\ MutexOK' /\ TodoOK'
  BY <1>1, <1>2, <1>4 DEF NoteOK, MutexOK, TodoOK
<1>9. EntriesOK' /\ DownOK'
  BY <1>1, <1>5 DEF EntriesOK, DownOK, Running
<1> QED
  BY <1>2, <1>4, <1>7, <1>8, <1>9

\* It unlocks both mutexes.
LEMMA PushDoneStep ==
  ASSUME NotifierInv, NEW c \in Client, PushDone(c)
  PROVE  NotifierInv'
<1> USE DEF NotifierInv, handlerVars, streamVars, PushDone, EndCall
<1>1. NoRPC \in RPC /\ NoRPC.pc = "idle"
  BY DEF NoRPC, RPC
<1>2. TypeOK'
  BY <1>1 DEF TypeOK
<1>3. rpc'[c] = NoRPC /\ \A d \in Client \ {c} : rpc'[d] = rpc[d]
  BY DEF TypeOK
<1>4. file_map_mutex = c /\ subscriber_mutex = c
  BY DEF MutexOK
<1>5. NoteOK' /\ MutexOK' /\ TodoOK'
  BY <1>1, <1>3, <1>4, NobodyAssumption DEF NoteOK, MutexOK, TodoOK
<1>6. EntriesOK' /\ DownOK'
  BY HandlersFrame
<1> QED
  BY <1>2, <1>5, <1>6

\* A stream that the server knows to be down stays down.
LEMMA StreamStep ==
  ASSUME NotifierInv, NEW c \in Client, Receive(c) \/ Break(c) \/ Notice(c)
  PROVE  NotifierInv'
<1> USE DEF NotifierInv, mapVars, rpcVars, handlerVars
<1>1. UNCHANGED <<mapVars, rpcVars, handlerVars, monitor>>
  BY DEF Receive, Break, Notice
<1>2. TypeOK'
  <2>1. CASE Receive(c)
    <3>1. Head(wire[c]) \in Note /\ Tail(wire[c]) \in Seq(Note)
      BY <2>1 DEF Receive, TypeOK
    <3> QED
      BY <2>1, <3>1 DEF Receive, TypeOK
  <2>2. CASE Break(c)
    <3>1. \A n \in 0..Len(wire[c]) : SubSeq(wire[c], 1, n) \in Seq(Note)
      BY DEF TypeOK
    <3> QED
      BY <2>2, <3>1 DEF Break, TypeOK
  <2>3. CASE Notice(c)
    BY <2>3 DEF Notice, TypeOK
  <2> QED
    BY <2>1, <2>2, <2>3
<1>3. NoteOK' /\ MutexOK' /\ TodoOK' /\ EntriesOK'
  BY <1>1, CallsFrame DEF TodoOK, EntriesOK
<1>4. \A d \in Client : link[d] = "down" => link'[d] = "down"
  BY DEF Receive, Break, Notice, TypeOK
<1>5. DownOK'
  BY <1>1, <1>4 DEF DownOK
<1> QED
  BY <1>2, <1>3, <1>5

-----------------------------------------------------------------------------
(***************************************************************************)
(* The invariants.                                                         *)
(***************************************************************************)
LEMMA NotifierInvInit == Init => NotifierInv
<1> SUFFICES ASSUME Init PROVE NotifierInv
  OBVIOUS
<1> USE DEF Init
<1>1. NoRPC \in RPC /\ NoRPC.pc = "idle"
  BY DEF NoRPC, RPC
<1>2. TypeOK
  BY <1>1, CallsAssumption DEF TypeOK
<1>3. NoteOK /\ MutexOK /\ TodoOK
  BY <1>1, NobodyAssumption DEF NoteOK, MutexOK, TodoOK
<1>4. EntriesOK /\ DownOK
  BY DEF EntriesOK, DownOK, Running
<1> QED
  BY <1>2, <1>3, <1>4 DEF NotifierInv

\* Every step keeps the invariant.
LEMMA NotifierInvNext == NotifierInv /\ [Next]_vars => NotifierInv'
<1> SUFFICES ASSUME NotifierInv, [Next]_vars PROVE NotifierInv'
  OBVIOUS
<1>1. ASSUME NEW c \in Client,
             Subscribe(c) \/ Handler(c) \/ WakeSpuriously(c) \/ Monitor(c)
      PROVE  NotifierInv'
  BY <1>1, SubscribeStep, PopStep, WriteStep, CleanStep, WakeSpuriouslyStep, MonitorStep
  DEF Handler
<1>2. ASSUME NEW c \in Client, Call(c) \/ Continue(c)
      PROVE  NotifierInv'
  BY <1>2, CallStep, RegisterStep, LockMapStep, LockSubscribersStep, PushStep,
     PushDoneStep
  DEF Continue
<1>3. ASSUME NEW c \in Client, Receive(c) \/ Break(c) \/ Notice(c)
      PROVE  NotifierInv'
  BY <1>3, StreamStep
<1>4. CASE UNCHANGED vars
  BY <1>4 DEF vars, mapVars, rpcVars, handlerVars, streamVars, NotifierInv, TypeOK,
              NoteOK, MutexOK, TodoOK, EntriesOK, DownOK
<1> QED
  BY <1>1, <1>2, <1>3, <1>4 DEF Next

\* The invariant holds in all reachable states.
THEOREM NotifierInvHolds == Spec => []NotifierInv
BY NotifierInvInit, NotifierInvNext, PTL DEF Spec

(***************************************************************************)
(* The state has its types; in particular, a handler in writer->Write()    *)
(* has a notification to write.                                            *)
(***************************************************************************)
THEOREM NotifierTypes == Spec => []TypeOK
<1>1. NotifierInv => TypeOK
  BY DEF NotifierInv
<1> QED
  BY <1>1, NotifierInvHolds, PTL

(***************************************************************************)
(* A callback never feeds a queue nobody reads: an entry of subscribers    *)
(* has a thread that empties its queue or is about to erase it.            *)
(***************************************************************************)
THEOREM NotifierServesQueues == Spec => []QueuesAreServed
<1>1. NotifierInv => QueuesAreServed
  BY DEF NotifierInv, TypeOK, EntriesOK, QueuesAreServed
<1> QED
  BY <1>1, NotifierInvHolds, PTL

-----------------------------------------------------------------------------
(***************************************************************************)
(* The state of the FIFO, as Notifier maps it.                             *)
(***************************************************************************)
AbsMap    == IF \E c \in Telling : rpc[c].op = "unlink" THEN {} ELSE file_map
AbsDB     == clients_db \cup {c \in Client : handler[c] = "clean_map"}
AbsSubs   == {c \in subscribers : handler[c] # "clean_subscribers"}
AbsStream == [c \in Client |-> IF link[c] # "up" THEN "down"
                               ELSE IF handler[c] = "none" THEN "new" ELSE "up"]
Pending(c) == IF link[c] = "up"
              THEN wire[c] \o InHand(c) \o queue[c] \o ToldNow(c)
              ELSE wire[c]
AbsQueue  == [c \in Client |-> Pending(c)]

\* A step that changes none of it is no step of the channel.
LEMMA AbsStutter ==
  ASSUME AbsMap' = AbsMap, AbsDB' = AbsDB, AbsSubs' = AbsSubs,
         AbsStream' = AbsStream, AbsQueue' = AbsQueue, note' = note
  PROVE  UNCHANGED Channel!vars
BY DEF AbsMap, AbsDB, AbsSubs, AbsStream, AbsQueue, Pending, Channel!vars

(***************************************************************************)
(* Sequences.                                                              *)
(***************************************************************************)
\* What has been taken from a queue is in front of what is left.
LEMMA HeadAndTail ==
  ASSUME NEW w \in Seq(Note), NEW q \in Seq(Note), NEW t \in Seq(Note), q # <<>>
  PROVE  w \o <<Head(q)>> \o Tail(q) \o t = w \o <<>> \o q \o t
<1>1. /\ Head(q) \in Note /\ Tail(q) \in Seq(Note)
      /\ <<Head(q)>> \in Seq(Note) /\ <<>> \in Seq(Note)
  BY HeadTailProperties
<1>2. <<Head(q)>> \o Tail(q) = q
  OBVIOUS
<1>3. (w \o <<Head(q)>>) \o Tail(q) = w \o (<<Head(q)>> \o Tail(q))
  BY <1>1, ConcatAssociative
<1>4. w \o <<>> = w
  BY ConcatEmptySeq
<1> QED
  BY <1>2, <1>3, <1>4

\* What is written to the stream was in hand.
LEMMA AppendToWire ==
  ASSUME NEW S, NEW w \in Seq(S), NEW n \in S
  PROVE  Append(w, n) \o <<>> = w \o <<n>>
<1>1. Append(w, n) \in Seq(S) /\ Append(w, n) = w \o <<n>>
  BY AppendIsConcat, AppendProperties
<1> QED
  BY <1>1, ConcatEmptySeq

\* What is pushed was told before.
LEMMA AppendToQueue ==
  ASSUME NEW S, NEW w \in Seq(S), NEW q \in Seq(S), NEW n \in S
  PROVE  (w \o Append(q, n)) \o <<>> = (w \o q) \o <<n>>
<1>1. Append(q, n) \in Seq(S) /\ <<n>> \in Seq(S) /\ Append(q, n) = q \o <<n>>
  BY AppendIsConcat, AppendProperties
<1>2. w \o Append(q, n) \in Seq(S)
  BY <1>1, ConcatProperties
<1>3. (w \o q) \o <<n>> = w \o (q \o <<n>>)
  BY <1>1, ConcatAssociative
<1> QED
  BY <1>1, <1>2, <1>3, ConcatEmptySeq

\* It does not matter where what is under way is divided.
LEMMA NotesAssociative ==
  ASSUME NEW s \in Seq(Note), NEW t \in Seq(Note), NEW u \in Seq(Note)
  PROVE  (s \o t) \o u = s \o (t \o u)
BY ConcatAssociative

\* Reading what has arrived takes the first of all that is under way.
LEMMA HeadOfConcat ==
  ASSUME NEW S, NEW w \in Seq(S), NEW t \in Seq(S), w # <<>>
  PROVE  /\ w \o t # <<>> /\ Head(w \o t) = Head(w)
         /\ Tail(w \o t) = Tail(w) \o t
<1>1. /\ w \o t \in Seq(S) /\ Len(w \o t) = Len(w) + Len(t)
      /\ \A i \in 1 .. Len(w) + Len(t) :
           (w \o t)[i] = IF i <= Len(w) THEN w[i] ELSE t[i - Len(w)]
  BY ConcatProperties
<1>2. Len(w) \in Nat \ {0} /\ Len(t) \in Nat
  BY EmptySeq, LenProperties
<1>3. w \o t # <<>>
  BY <1>1, <1>2
<1>4. Head(w \o t) = Head(w)
  BY <1>1, <1>2, <1>3
<1>5. /\ Tail(w) \in Seq(S) /\ Len(Tail(w)) = Len(w) - 1
      /\ \A i \in 1 .. Len(Tail(w)) : Tail(w)[i] = w[i + 1]
  BY HeadTailProperties
<1>6. /\ Tail(w \o t) \in Seq(S) /\ Len(Tail(w \o t)) = Len(w \o t) - 1
      /\ \A i \in 1 .. Len(Tail(w \o t)) : Tail(w \o t)[i] = (w \o t)[i + 1]
  BY <1>1, <1>3, HeadTailProperties
<1>7. /\ Tail(w) \o t \in Seq(S) /\ Len(Tail(w) \o t) = Len(Tail(w)) + Len(t)
      /\ \A i \in 1 .. Len(Tail(w)) + Len(t) :
           (Tail(w) \o t)[i] = IF i <= Len(Tail(w)) THEN Tail(w)[i]
                               ELSE t[i - Len(Tail(w))]
  BY <1>5, ConcatProperties
<1>8. Len(Tail(w \o t)) = Len(Tail(w) \o t)
  BY <1>1, <1>2, <1>5, <1>6, <1>7
<1>9. \A i \in 1 .. Len(Tail(w \o t)) : Tail(w \o t)[i] = (Tail(w) \o t)[i]
  <2> SUFFICES ASSUME NEW i \in 1 .. (Len(w) + Len(t) - 1)
               PROVE  Tail(w \o t)[i] = (Tail(w) \o t)[i]
    BY <1>1, <1>2, <1>6
  <2>1. Tail(w \o t)[i] = IF i + 1 <= Len(w) THEN w[i + 1] ELSE t[i + 1 - Len(w)]
    BY <1>1, <1>2, <1>6
  <2>2. (Tail(w) \o t)[i] = IF i <= Len(w) - 1 THEN w[i + 1] ELSE t[i - (Len(w) - 1)]
    BY <1>2, <1>5, <1>7
  <2>3. i + 1 - Len(w) = i - (Len(w) - 1)
    BY <1>2
  <2> QED
    BY <1>2, <2>1, <2>2, <2>3
<1>10. Tail(w \o t) = Tail(w) \o t
  BY <1>6, <1>7, <1>8, <1>9, SeqEqual
<1> QED
  BY <1>3, <1>4, <1>10

\* Cutting off what has not arrived leaves a beginning of what has.
LEMMA PrefixOfConcat ==
  ASSUME NEW S, NEW w \in Seq(S), NEW t \in Seq(S), NEW n \in 0..Len(w)
  PROVE  n \in 0..Len(w \o t) /\ SubSeq(w \o t, 1, n) = SubSeq(w, 1, n)
<1>1. /\ w \o t \in Seq(S) /\ Len(w \o t) = Len(w) + Len(t)
      /\ Len(w) \in Nat /\ Len(t) \in Nat
  BY ConcatProperties, LenProperties
<1>2. CASE n = 0
  BY <1>1, <1>2, SubSeqEmpty
<1>3. CASE n # 0
  <2>1. 1 \in 1..Len(w) /\ n \in 1..Len(w)
    BY <1>1, <1>3
  <2> QED
    BY <1>1, <2>1, SubSeqOfConcat1
<1> QED
  BY <1>2, <1>3

-----------------------------------------------------------------------------
(***************************************************************************)
(* Who is told.                                                            *)
(***************************************************************************)
\* One callback at a time goes over the queues.
LEMMA ToldIs ==
  ASSUME NotifierInv, NEW c \in Client, rpc[c].pc = "push"
  PROVE  /\ Telling = {c}
         /\ \A d \in Client :
              ToldNow(d) = IF d \in rpc[c].todo THEN <<rpc[c].note>> ELSE <<>>
         /\ AbsMap = IF rpc[c].op = "unlink" THEN {} ELSE file_map
<1>1. Telling = {c}
  BY DEF NotifierInv, MutexOK, Telling
<1>2. (CHOOSE x \in Telling : TRUE) = c
  BY <1>1
<1> QED
  BY <1>1, <1>2 DEF ToldNow, AbsMap

\* Nor after a step.
LEMMA ToldIsNext ==
  ASSUME NotifierInv', NEW c \in Client, rpc'[c].pc = "push"
  PROVE  /\ \A d \in Client :
              ToldNow(d)' = IF d \in rpc'[c].todo THEN <<rpc'[c].note>> ELSE <<>>
         /\ AbsMap' = IF rpc'[c].op = "unlink" THEN {} ELSE file_map'
<1>1. Telling' = {c}
  BY DEF NotifierInv, MutexOK, Telling
<1>2. (CHOOSE x \in Telling' : TRUE) = c
  BY <1>1
<1> QED
  BY <1>1, <1>2 DEF ToldNow, AbsMap

\* If none does, nobody is told.
LEMMA NobodyTells ==
  ASSUME Telling = {}
  PROVE  AbsMap = file_map /\ \A d \in Client : ToldNow(d) = <<>>
BY DEF ToldNow, AbsMap

\* None does while one of the mutexes is free.
LEMMA FreeMutexes ==
  ASSUME NotifierInv, file_map_mutex = Nobody \/ subscriber_mutex = Nobody
  PROVE  Telling = {}
BY NobodyAssumption DEF NotifierInv, MutexOK, Telling

\* What is told is at most one notification.
LEMMA ToldType ==
  ASSUME NotifierInv
  PROVE  \A d \in Client : ToldNow(d) \in Seq(Note)
<1>0. <<>> \in Seq(Note) /\ \A n \in Note : <<n>> \in Seq(Note)
  OBVIOUS
<1>1. CASE Telling = {}
  BY <1>0, <1>1, NobodyTells
<1>2. ASSUME NEW c \in Telling
      PROVE  \A d \in Client : ToldNow(d) \in Seq(Note)
  <2>1. c \in Client /\ rpc[c].pc = "push"
    BY <1>2 DEF Telling
  <2>2. rpc[c].note \in Note
    BY <2>1 DEF NotifierInv, NoteOK
  <2> QED
    BY <1>0, <2>1, <2>2, ToldIs
<1> QED
  BY <1>1, <1>2

\* What the mapping of a queue is made of.
LEMMA PendingType ==
  ASSUME NotifierInv, NEW d \in Client
  PROVE  /\ wire[d] \in Seq(Note) /\ queue[d] \in Seq(Note)
         /\ InHand(d) \in Seq(Note) /\ ToldNow(d) \in Seq(Note)
BY ToldType DEF NotifierInv, TypeOK, InHand

\* The steps in which no callback takes part.
LEMMA ToldFrame ==
  ASSUME rpc' = rpc
  PROVE  /\ \A d \in Client : ToldNow(d)' = ToldNow(d)
         /\ file_map' = file_map => AbsMap' = AbsMap
BY DEF ToldNow, Telling, AbsMap

\* Nothing changes for a client whose parts do not.
LEMMA PendingFrame ==
  ASSUME NEW d \in Client, wire'[d] = wire[d], queue'[d] = queue[d], link'[d] = link[d],
         popped'[d] = popped[d], handler'[d] = "write" <=> handler[d] = "write",
         ToldNow(d)' = ToldNow(d)
  PROVE  Pending(d)' = Pending(d)
BY DEF Pending, InHand

-----------------------------------------------------------------------------
(***************************************************************************)
(* Each step is one of the channel, or none.                               *)
(***************************************************************************)
\* A handler that waits, takes and writes: what is under way to its client
\* stays the same.
LEMMA HandlerRefines ==
  ASSUME NotifierInv, NotifierInv', NEW c \in Client,
         UNCHANGED <<mapVars, rpcVars, link, note>>,
         \A d \in Client \ {c} : /\ handler'[d] = handler[d] /\ popped'[d] = popped[d]
                                 /\ queue'[d] = queue[d] /\ wire'[d] = wire[d],
         handler[c] \in {"pop", "sleep", "write"},
         handler'[c] \in {"pop", "sleep", "write", "clean_db"},
         Pending(c)' = Pending(c)
  PROVE  UNCHANGED Channel!vars
<1> USE DEF mapVars, rpcVars
<1>1. AbsMap' = AbsMap
  BY ToldFrame
<1>2. \A d \in Client : Pending(d)' = Pending(d)
  BY ToldFrame, PendingFrame
<1>3. AbsQueue' = AbsQueue
  BY <1>2 DEF AbsQueue
<1>4. \A d \in Client : handler'[d] = handler[d] \/ d = c
  OBVIOUS
<1>5. AbsDB' = AbsDB
  BY <1>4 DEF AbsDB
<1>6. AbsSubs' = AbsSubs
  <2>1. subscribers \subseteq Client
    BY DEF NotifierInv, TypeOK
  <2> QED
    BY <1>4, <2>1 DEF AbsSubs
<1>7. AbsStream' = AbsStream
  BY <1>4 DEF AbsStream
<1> QED
  BY <1>1, <1>3, <1>5, <1>6, <1>7, AbsStutter

\* pop() takes a notification in hand.
LEMMA PopRefines ==
  ASSUME NotifierInv, NotifierInv', NEW c \in Client, Pop(c)
  PROVE  UNCHANGED Channel!vars
<1>1. /\ UNCHANGED <<mapVars, rpcVars, link, wire, note>> /\ handler[c] = "pop"
      /\ handler \in [Client -> {"none", "done"} \cup Running]
      /\ popped \in [Client -> Note \cup {0}] /\ queue \in [Client -> Seq(Note)]
  BY DEF Pop, streamVars, NotifierInv, TypeOK
<1>2. \A d \in Client \ {c} : /\ handler'[d] = handler[d] /\ popped'[d] = popped[d]
                              /\ queue'[d] = queue[d] /\ wire'[d] = wire[d]
  BY <1>1 DEF Pop
<1>3. handler'[c] \in {"write", "clean_db", "sleep"}
  BY <1>1 DEF Pop
<1>4. Pending(c)' = Pending(c)
  <2>1. CASE queue[c] # <<>>
    <3>1. InHand(c) = <<>> /\ InHand(c)' = <<Head(queue[c])>>
      BY <1>1, <2>1 DEF Pop, InHand
    <3>2. queue'[c] = Tail(queue[c]) /\ ToldNow(c)' = ToldNow(c)
      BY <1>1, <2>1, ToldFrame DEF Pop, rpcVars
    <3>3. /\ wire[c] \in Seq(Note) /\ queue[c] \in Seq(Note)
          /\ ToldNow(c) \in Seq(Note)
      BY PendingType
    <3>4. wire[c] \o <<Head(queue[c])>> \o Tail(queue[c]) \o ToldNow(c)
            = wire[c] \o <<>> \o queue[c] \o ToldNow(c)
      <4>1. \A w, q, t \in Seq(Note) :
              q # <<>> => w \o <<Head(q)>> \o Tail(q) \o t = w \o <<>> \o q \o t
        BY HeadAndTail, Zenon
      <4> QED
        BY <2>1, <3>3, <4>1
    <3> QED
      BY <1>1, <3>1, <3>2, <3>4 DEF Pending
  <2>2. CASE queue[c] = <<>>
    <3>1. queue'[c] = queue[c] /\ popped'[c] = popped[c] /\ handler'[c] # "write"
      BY <1>1, <2>2 DEF Pop
    <3> QED
      BY <1>1, <3>1, ToldFrame, PendingFrame DEF rpcVars
  <2> QED
    BY <2>1, <2>2
<1> QED
  BY <1>1, <1>2, <1>3, <1>4, HandlerRefines

\* writer->Write() moves it to the stream.
LEMMA WriteRefines ==
  ASSUME NotifierInv, NotifierInv', NEW c \in Client, Write(c)
  PROVE  UNCHANGED Channel!vars
<1>1. /\ UNCHANGED <<mapVars, rpcVars, queue, link, note>> /\ handler[c] = "write"
      /\ handler \in [Client -> {"none", "done"} \cup Running]
      /\ popped \in [Client -> Note \cup {0}] /\ wire \in [Client -> Seq(Note)]
  BY DEF Write, NotifierInv, TypeOK
<1>2. \A d \in Client \ {c} : /\ handler'[d] = handler[d] /\ popped'[d] = popped[d]
                              /\ queue'[d] = queue[d] /\ wire'[d] = wire[d]
  BY <1>1 DEF Write
<1>3. handler'[c] \in {"pop", "clean_db"}
  BY <1>1 DEF Write
<1>4. Pending(c)' = Pending(c)
  <2>1. CASE link[c] = "up"
    <3>1. InHand(c) = <<popped[c]>> /\ InHand(c)' = <<>> /\ popped[c] \in Note
      BY <1>1, <1>3 DEF InHand, NotifierInv, TypeOK
    <3>2. wire'[c] = Append(wire[c], popped[c]) /\ ToldNow(c)' = ToldNow(c)
      BY <1>1, <2>1, ToldFrame DEF Write, rpcVars
    <3>3. wire'[c] \o <<>> = wire[c] \o <<popped[c]>>
      BY <1>1, <3>1, <3>2, AppendToWire
    <3> QED
      BY <1>1, <2>1, <3>1, <3>2, <3>3 DEF Pending
  <2>2. CASE link[c] # "up"
    BY <1>1, <2>2 DEF Write, Pending
  <2> QED
    BY <2>1, <2>2
<1> QED
  BY <1>1, <1>2, <1>3, <1>4, HandlerRefines

\* A handler that wakes up is still waiting.
LEMMA WakeRefines ==
  ASSUME NotifierInv, NotifierInv', NEW c \in Client, WakeSpuriously(c) \/ Monitor(c)
  PROVE  UNCHANGED Channel!vars
<1>1. UNCHANGED <<mapVars, rpcVars, queue, popped, streamVars>>
  BY DEF WakeSpuriously, Monitor
<1>2. \A d \in Client : \/ handler'[d] = handler[d]
                        \/ handler[d] = "sleep" /\ handler'[d] = "pop"
  BY WakeIs DEF WakeSpuriously, Monitor, NotifierInv
<1>3. AbsMap' = AbsMap
  BY <1>1, ToldFrame DEF rpcVars, mapVars
<1>4. \A d \in Client : Pending(d)' = Pending(d)
  BY <1>1, <1>2, ToldFrame, PendingFrame DEF rpcVars, streamVars
<1>5. AbsDB' = AbsDB /\ AbsStream' = AbsStream
  BY <1>1, <1>2 DEF AbsDB, AbsStream, mapVars, streamVars
<1>6. AbsSubs' = AbsSubs
  <2>1. subscribers \subseteq Client
    BY DEF NotifierInv, TypeOK
  <2> QED
    BY <1>1, <1>2, <2>1 DEF AbsSubs, mapVars
<1> QED
  BY <1>1, <1>3, <1>4, <1>5, <1>6, AbsStutter DEF AbsQueue, streamVars

\* subscribe() makes the entry.
LEMMA SubscribeRefines ==
  ASSUME NotifierInv, NotifierInv', NEW c \in Client, Subscribe(c)
  PROVE  Channel!Next
<1>1. /\ UNCHANGED <<file_map, clients_db, rpcVars, queue, popped, streamVars>>
      /\ handler[c] = "none" /\ subscribers' = subscribers \cup {c}
      /\ handler'[c] = "pop" /\ \A d \in Client \ {c} : handler'[d] = handler[d]
      /\ c \notin subscribers /\ subscribers \subseteq Client
  <2>1. /\ UNCHANGED <<file_map, clients_db, rpcVars, queue, popped, streamVars>>
        /\ handler[c] = "none" /\ subscribers' = subscribers \cup {c}
        /\ handler' = [handler EXCEPT ![c] = "pop"]
    BY DEF Subscribe
  <2>2. handler'[c] = "pop" /\ \A d \in Client \ {c} : handler'[d] = handler[d]
    BY <2>1 DEF NotifierInv, TypeOK
  <2>3. c \notin subscribers /\ subscribers \subseteq Client
    BY <2>1 DEF NotifierInv, TypeOK, EntriesOK, Running
  <2> QED
    BY <2>1, <2>2, <2>3
<1>2. AbsMap' = AbsMap
  BY <1>1, ToldFrame DEF rpcVars
<1>3. AbsDB' = AbsDB
  BY <1>1 DEF AbsDB
<1>4. AbsSubs' = AbsSubs \cup {c} /\ c \notin AbsSubs
  BY <1>1 DEF AbsSubs
<1>5. AbsStream' = [AbsStream EXCEPT ![c] = IF @ = "new" THEN "up" ELSE @]
  BY <1>1 DEF AbsStream, streamVars
<1>6. \A d \in Client : Pending(d)' = Pending(d)
  BY <1>1, ToldFrame, PendingFrame DEF rpcVars, streamVars
<1>7. AbsQueue' = AbsQueue /\ note' = note
  BY <1>1, <1>6 DEF AbsQueue, streamVars
<1>8. Channel!Subscribe(c)
  BY <1>2, <1>3, <1>4, <1>5, <1>7
  DEF Channel!Subscribe, AbsMap, AbsDB, AbsSubs, AbsStream, AbsQueue, Pending
<1> QED
  BY <1>8 DEF Channel!Next

\* The second section of cleanup_client() is where the client is gone; before
\* and after, only one map at a time has changed.
LEMMA CleanRefines ==
  ASSUME NotifierInv, NotifierInv', NEW c \in Client,
         CleanDB(c) \/ CleanMap(c) \/ CleanSubscribers(c)
  PROVE  [Channel!Next]_Channel!vars
<1>1. /\ UNCHANGED <<rpcVars, queue, popped, streamVars>>
      /\ handler[c] \in {"clean_db", "clean_map", "clean_subscribers"}
      /\ handler'[c] \in {"clean_map", "clean_subscribers", "done"}
      /\ \A d \in Client \ {c} : handler'[d] = handler[d]
      /\ subscribers \subseteq Client /\ clients_db \subseteq Client
      /\ link[c] = "down"
  BY DEF CleanDB, CleanMap, CleanSubscribers, NotifierInv, TypeOK, DownOK
<1>2. \A d \in Client : Pending(d)' = Pending(d)
  BY <1>1, ToldFrame, PendingFrame DEF rpcVars, streamVars
<1>3. AbsQueue' = AbsQueue /\ AbsStream' = AbsStream /\ note' = note
  BY <1>1, <1>2 DEF AbsQueue, AbsStream, streamVars
<1>4. CASE CleanDB(c)
  <2>1. AbsMap' = AbsMap
    BY <1>1, <1>4, ToldFrame DEF CleanDB, rpcVars
  <2>2. AbsDB' = AbsDB
    BY <1>1, <1>4 DEF CleanDB, AbsDB, NotifierInv, EntriesOK, TypeOK
  <2>3. AbsSubs' = AbsSubs
    BY <1>1, <1>4 DEF CleanDB, AbsSubs, NotifierInv, TypeOK
  <2> QED
    BY <1>3, <2>1, <2>2, <2>3, AbsStutter
<1>5. CASE CleanMap(c)
  <2>1. Telling = {} /\ Telling' = {}
    BY <1>1, <1>5, FreeMutexes DEF CleanMap, Telling, rpcVars
  <2>2. AbsMap = file_map /\ AbsMap' = file_map'
    BY <2>1 DEF AbsMap
  <2>3. AbsMap' = AbsMap \ {c}
    BY <1>5, <2>2 DEF CleanMap
  <2>4. /\ handler[c] = "clean_map" /\ handler'[c] = "clean_subscribers"
        /\ c \notin clients_db /\ c \in subscribers
        /\ UNCHANGED <<clients_db, subscribers>>
    BY <1>1, <1>5 DEF CleanMap, NotifierInv, EntriesOK, TypeOK, Running
  <2>5. AbsDB' = AbsDB \ {c}
    BY <1>1, <2>4 DEF AbsDB
  <2>6. AbsSubs' = AbsSubs \ {c} /\ c \in AbsSubs
    BY <1>1, <2>4 DEF AbsSubs
  <2>7. AbsStream[c] = "down"
    BY <1>1 DEF AbsStream
  <2>8. Channel!Cleanup(c)
    BY <1>3, <2>3, <2>5, <2>6, <2>7
    DEF Channel!Cleanup, AbsMap, AbsDB, AbsSubs, AbsStream, AbsQueue, Pending
  <2> QED
    BY <2>8 DEF Channel!Next
<1>6. CASE CleanSubscribers(c)
  <2>1. AbsMap' = AbsMap
    BY <1>1, <1>6, ToldFrame DEF CleanSubscribers, rpcVars
  <2>2. AbsDB' = AbsDB
    BY <1>1, <1>6 DEF CleanSubscribers, AbsDB, NotifierInv, TypeOK
  <2>3. AbsSubs' = AbsSubs
    BY <1>1, <1>6 DEF CleanSubscribers, AbsSubs, NotifierInv, TypeOK
  <2> QED
    BY <1>3, <2>1, <2>2, <2>3, AbsStutter
<1> QED
  BY <1>4, <1>5, <1>6

\* The steps of a callback before and after it holds both mutexes: at most it
\* registers its client.
LEMMA LockRefines ==
  ASSUME NotifierInv, NotifierInv', NEW c \in Client,
         Call(c) \/ Register(c) \/ LockMap(c)
  PROVE  [Channel!Next]_Channel!vars
<1>1. /\ UNCHANGED <<clients_db, subscribers, handlerVars, streamVars>>
      /\ rpc[c].pc # "push" /\ \A d \in Client \ {c} : rpc'[d] = rpc[d]
  BY DEF Call, Register, EndCall, LockMap, mapVars, NotifierInv, TypeOK
<1>2. rpc'[c].pc # "push"
  <2>1. CASE Call(c)
    <3>1. PICK r \in RPC : r.pc = "lock_map" /\ rpc' = [rpc EXCEPT ![c] = r]
      BY <2>1, NewCallIs
    <3> QED
      BY <3>1 DEF NotifierInv, TypeOK
  <2>2. CASE Register(c)
    BY <2>2 DEF Register, EndCall, NoRPC, NotifierInv, TypeOK
  <2>3. CASE LockMap(c)
    BY <2>3 DEF LockMap, NotifierInv, TypeOK, RPC
  <2> QED
    BY <2>1, <2>2, <2>3
<1>3. Telling' = Telling /\ \A d \in Telling : rpc'[d] = rpc[d]
  BY <1>1, <1>2 DEF Telling
<1>4. \A d \in Client : ToldNow(d)' = ToldNow(d)
  <2>1. CASE Telling = {}
    BY <1>3, <2>1 DEF ToldNow
  <2>2. ASSUME NEW e \in Telling
        PROVE  \A d \in Client : ToldNow(d)' = ToldNow(d)
    <3>1. e \in Client /\ Telling = {e} /\ rpc'[e] = rpc[e]
      BY <1>3, <2>2, ToldIs DEF Telling
    <3> QED
      BY <1>3, <3>1 DEF ToldNow
  <2> QED
    BY <2>1, <2>2
<1>5. \A d \in Client : Pending(d)' = Pending(d)
  BY <1>1, <1>4, PendingFrame DEF handlerVars, streamVars
<1>6. /\ AbsQueue' = AbsQueue /\ AbsStream' = AbsStream /\ AbsDB' = AbsDB
      /\ AbsSubs' = AbsSubs /\ note' = note
  BY <1>1, <1>5 DEF AbsQueue, AbsStream, AbsDB, AbsSubs, handlerVars, streamVars
<1>7. CASE file_map' = file_map
  <2>1. AbsMap' = AbsMap
    BY <1>3, <1>7 DEF AbsMap
  <2> QED
    BY <1>6, <2>1, AbsStutter
<1>8. CASE Register(c) /\ file_map' = file_map \cup {c}
  <2>1. Telling = {}
    BY <1>8, FreeMutexes DEF Register
  <2>2. AbsMap' = AbsMap \cup {c}
    BY <1>3, <1>8, <2>1 DEF AbsMap
  <2>3. Channel!Register(c)
    BY <1>6, <2>2
    DEF Channel!Register, AbsMap, AbsDB, AbsSubs, AbsStream, AbsQueue, Pending
  <2> QED
    BY <2>3 DEF Channel!Next
<1> QED
  BY <1>7, <1>8 DEF Call, Register, LockMap, mapVars

\* With both mutexes, a callback tells all it will tell.
LEMMA LockSubscribersRefines ==
  ASSUME NotifierInv, NotifierInv', NEW c \in Client, LockSubscribers(c)
  PROVE  Channel!Next
<1>1. /\ rpc'[c].pc = "push" /\ rpc'[c].todo = (file_map \cap subscribers) \ {c}
      /\ rpc'[c].note = rpc[c].note /\ rpc'[c].op = rpc[c].op
  BY LockSubscribersStep
<1>2. /\ UNCHANGED <<mapVars, handlerVars, streamVars>>
      /\ rpc[c].pc = "lock_subscribers" /\ subscriber_mutex = Nobody
      /\ subscribers \subseteq Client /\ rpc[c].note \in Note
  BY DEF LockSubscribers, NotifierInv, TypeOK, NoteOK
<1>3. AbsMap = file_map /\ \A d \in Client : ToldNow(d) = <<>>
  BY <1>2, FreeMutexes, NobodyTells
<1>4. \A d \in Client :
        ToldNow(d)' = IF d \in rpc'[c].todo THEN <<rpc[c].note>> ELSE <<>>
  BY <1>1, ToldIsNext
<1>5. AbsMap' \in {AbsMap, {}}
  BY <1>1, <1>2, <1>3, ToldIsNext DEF mapVars
<1>6. AbsDB' = AbsDB /\ AbsSubs' = AbsSubs /\ AbsStream' = AbsStream /\ note' = note
  BY <1>2 DEF AbsDB, AbsSubs, AbsStream, mapVars, handlerVars, streamVars
<1>7. ASSUME NEW d \in Client, link[d] = "up"
      PROVE  d \in rpc'[c].todo
               <=> d \in (AbsMap \cap AbsSubs) \ {c} /\ AbsStream[d] = "up"
  <2>1. d \in subscribers => handler[d] # "none" /\ handler[d] # "clean_subscribers"
    BY <1>7 DEF NotifierInv, EntriesOK, DownOK, Running
  <2> QED
    BY <1>1, <1>3, <1>7, <2>1 DEF AbsSubs, AbsStream
<1>8. ASSUME NEW d \in Client
      PROVE  Pending(d)' = IF d \in (AbsMap \cap AbsSubs) \ {c} /\ AbsStream[d] = "up"
                           THEN Append(Pending(d), rpc[c].note) ELSE Pending(d)
  <2>1. /\ UNCHANGED <<link, wire, queue, handler, popped>>
        /\ wire[d] \in Seq(Note) /\ queue[d] \in Seq(Note) /\ InHand(d) \in Seq(Note)
    BY <1>2, PendingType DEF handlerVars, streamVars
  <2>2. InHand(d)' = InHand(d)
    BY <2>1 DEF InHand
  <2>3. PICK s \in Seq(Note) : s = wire[d] \o InHand(d) \o queue[d]
    <3>1. wire[d] \o InHand(d) \in Seq(Note)
      BY <2>1, ConcatProperties
    <3>2. wire[d] \o InHand(d) \o queue[d] \in Seq(Note)
      BY <2>1, <3>1, ConcatProperties
    <3> QED
      BY <3>2
  <2>4. CASE link[d] = "up" /\ d \in rpc'[c].todo
    <3>1. Pending(d) = s \o <<>> /\ Pending(d)' = s \o <<rpc[c].note>>
      BY <1>3, <1>4, <2>1, <2>2, <2>3, <2>4 DEF Pending
    <3>2. s \o <<>> = s /\ s \o <<rpc[c].note>> = Append(s, rpc[c].note)
      BY <1>2, ConcatEmptySeq, AppendIsConcat
    <3> QED
      BY <1>7, <2>4, <3>1, <3>2
  <2>5. CASE link[d] = "up" /\ d \notin rpc'[c].todo
    BY <1>3, <1>4, <1>7, <2>1, <2>2, <2>5 DEF Pending
  <2>6. CASE link[d] # "up"
    BY <2>1, <2>6 DEF Pending, AbsStream
  <2> QED
    BY <2>4, <2>5, <2>6
<1>9. AbsQueue' = [d \in Client |->
                     IF d \in (AbsMap \cap AbsSubs) \ {c} /\ AbsStream[d] = "up"
                     THEN Append(AbsQueue[d], rpc[c].note) ELSE AbsQueue[d]]
  BY <1>8 DEF AbsQueue
<1>10. PICK n \in Note : n = rpc[c].note
  BY <1>2
<1>11. Channel!Announce(c, n)
  BY <1>5, <1>6, <1>9, <1>10
  DEF Channel!Announce, AbsMap, AbsDB, AbsSubs, AbsStream, AbsQueue, Pending
<1> QED
  BY <1>11 DEF Channel!Next

\* A push moves into the queue what was told, and wakes up its handler.
LEMMA PushRefines ==
  ASSUME NotifierInv, NotifierInv', NEW c \in Client, NEW e \in Client, Push(c, e)
  PROVE  UNCHANGED Channel!vars
<1>1. /\ rpc'[c].pc = "push" /\ rpc'[c].todo = rpc[c].todo \ {e}
      /\ rpc'[c].note = rpc[c].note /\ rpc'[c].op = rpc[c].op
  BY PushStep
<1>2. /\ UNCHANGED <<mapVars, popped, streamVars>>
      /\ rpc[c].pc = "push" /\ e \in rpc[c].todo
      /\ queue' = [queue EXCEPT ![e] = Append(queue[e], rpc[c].note)]
      /\ queue \in [Client -> Seq(Note)]
      /\ subscribers \subseteq Client /\ rpc[c].note \in Note
  BY DEF Push, NotifierInv, TypeOK, NoteOK
<1>3. \A d \in Client : \/ handler'[d] = handler[d]
                        \/ handler[d] = "sleep" /\ handler'[d] = "pop"
  BY WakeIs DEF Push, NotifierInv
<1>4. \A d \in Client :
        /\ ToldNow(d) = IF d \in rpc[c].todo THEN <<rpc[c].note>> ELSE <<>>
        /\ ToldNow(d)' = IF d \in rpc'[c].todo THEN <<rpc[c].note>> ELSE <<>>
  BY <1>1, <1>2, ToldIs, ToldIsNext
<1>5. AbsMap' = AbsMap
  BY <1>1, <1>2, ToldIs, ToldIsNext DEF mapVars
<1>6. AbsDB' = AbsDB /\ AbsSubs' = AbsSubs /\ AbsStream' = AbsStream
  <2>1. AbsDB' = AbsDB /\ AbsStream' = AbsStream
    BY <1>2, <1>3 DEF AbsDB, AbsStream, mapVars, streamVars
  <2>2. AbsSubs' = AbsSubs
    BY <1>2, <1>3 DEF AbsSubs, mapVars
  <2> QED
    BY <2>1, <2>2
<1>7. \A d \in Client : InHand(d)' = InHand(d)
  BY <1>2, <1>3 DEF InHand
<1>8. ASSUME NEW d \in Client \ {e} PROVE Pending(d)' = Pending(d)
  BY <1>1, <1>2, <1>3, <1>4, <1>8, PendingFrame DEF streamVars
<1>9. Pending(e)' = Pending(e)
  <2>1. PICK s \in Seq(Note) : s = wire[e] \o InHand(e)
    BY PendingType, ConcatProperties
  <2>2. (s \o Append(queue[e], rpc[c].note)) \o <<>> = (s \o queue[e]) \o <<rpc[c].note>>
    BY <1>2, AppendToQueue
  <2>3. ToldNow(e) = <<rpc[c].note>> /\ ToldNow(e)' = <<>>
    BY <1>1, <1>2, <1>4
  <2>4. queue'[e] = Append(queue[e], rpc[c].note) /\ wire' = wire /\ link' = link
    BY <1>2 DEF streamVars
  <2> QED
    BY <1>7, <2>1, <2>2, <2>3, <2>4 DEF Pending
<1>10. AbsQueue' = AbsQueue
  BY <1>8, <1>9 DEF AbsQueue
<1> QED
  BY <1>2, <1>5, <1>6, <1>10, AbsStutter DEF streamVars

\* When all are told, the mutexes are unlocked; unlink() has erased the entry.
LEMMA PushDoneRefines ==
  ASSUME NotifierInv, NotifierInv', NEW c \in Client, PushDone(c)
  PROVE  UNCHANGED Channel!vars
<1>1. /\ UNCHANGED <<clients_db, subscribers, handlerVars, streamVars>>
      /\ rpc[c].pc = "push" /\ rpc[c].todo = {} /\ subscriber_mutex' = Nobody
      /\ file_map' = IF rpc[c].op = "unlink" THEN {} ELSE file_map
  BY DEF PushDone
<1>2. AbsMap' = file_map' /\ \A d \in Client : ToldNow(d)' = <<>>
  <2>1. Telling' = {}
    BY <1>1, NobodyAssumption DEF NotifierInv, MutexOK, Telling
  <2> QED
    BY <2>1 DEF ToldNow, AbsMap
<1>3. AbsMap' = AbsMap /\ \A d \in Client : ToldNow(d) = <<>>
  BY <1>1, <1>2, ToldIs
<1>4. \A d \in Client : Pending(d)' = Pending(d)
  BY <1>1, <1>2, <1>3, PendingFrame DEF handlerVars, streamVars
<1>5. /\ AbsQueue' = AbsQueue /\ AbsStream' = AbsStream /\ AbsDB' = AbsDB
      /\ AbsSubs' = AbsSubs /\ note' = note
  BY <1>1, <1>4 DEF AbsQueue, AbsStream, AbsDB, AbsSubs, handlerVars, streamVars
<1> QED
  BY <1>3, <1>5, AbsStutter

\* The client reads from the stream, it breaks, or the server finds out.
LEMMA StreamRefines ==
  ASSUME NotifierInv, NotifierInv', NEW c \in Client,
         Receive(c) \/ Break(c) \/ Notice(c)
  PROVE  [Channel!Next]_Channel!vars
<1>1. /\ UNCHANGED <<mapVars, rpcVars, handlerVars, monitor>>
      /\ wire \in [Client -> Seq(Note)] /\ link \in [Client -> {"up", "broken", "down"}]
  BY DEF Receive, Break, Notice, NotifierInv, TypeOK
<1>2. AbsMap' = AbsMap /\ \A d \in Client : ToldNow(d)' = ToldNow(d)
  BY <1>1, ToldFrame DEF mapVars, rpcVars
<1>3. AbsDB' = AbsDB /\ AbsSubs' = AbsSubs
  BY <1>1 DEF AbsDB, AbsSubs, mapVars, handlerVars
<1>4. \A d \in Client \ {c} : wire'[d] = wire[d] /\ link'[d] = link[d]
  BY <1>1 DEF Receive, Break, Notice
<1>5. \A d \in Client \ {c} : Pending(d)' = Pending(d)
  BY <1>1, <1>2, <1>4, PendingFrame DEF handlerVars
<1>6. \A d \in Client : InHand(d)' = InHand(d)
  BY <1>1 DEF InHand, handlerVars
<1>7. PICK t \in Seq(Note) :
        /\ wire[c] \o InHand(c) \o queue[c] \o ToldNow(c) = wire[c] \o t
        /\ wire[c] # <<>> =>
             Tail(wire[c]) \o InHand(c) \o queue[c] \o ToldNow(c) = Tail(wire[c]) \o t
  <2>1. PICK h \in Seq(Note), q \in Seq(Note), u \in Seq(Note) :
          h = InHand(c) /\ q = queue[c] /\ u = ToldNow(c)
    BY PendingType
  <2>2. PICK g \in Seq(Note) : g = h \o q
    BY ConcatProperties
  <2>3. PICK t \in Seq(Note) : t = g \o u
    BY ConcatProperties
  <2>4. ASSUME NEW w \in Seq(Note)
        PROVE  w \o h \o q \o u = w \o t
    <3>1. w \o h \o q = w \o g
      <4>1. (w \o h) \o q = w \o (h \o q)
        BY NotesAssociative
      <4> QED
        BY <2>2, <4>1
    <3>2. (w \o g) \o u = w \o (g \o u)
      BY NotesAssociative
    <3> QED
      BY <2>3, <3>1, <3>2
  <2>5. wire[c] \in Seq(Note) /\ (wire[c] # <<>> => Tail(wire[c]) \in Seq(Note))
    BY <1>1
  <2> QED
    BY <2>1, <2>4, <2>5
<1>8. CASE Receive(c)
  <2>1. /\ wire[c] # <<>> /\ UNCHANGED link
        /\ note' = [note EXCEPT ![c] = Head(wire[c])]
        /\ wire'[c] = Tail(wire[c]) /\ Tail(wire[c]) \in Seq(Note)
    BY <1>1, <1>8 DEF Receive
  <2>2. /\ AbsQueue[c] # <<>> /\ Head(AbsQueue[c]) = Head(wire[c])
        /\ Pending(c)' = Tail(AbsQueue[c])
    <3>1. CASE link[c] = "up"
      <4>1. Pending(c) = wire[c] \o t /\ Pending(c)' = Tail(wire[c]) \o t
        BY <1>1, <1>2, <1>6, <1>7, <2>1, <3>1 DEF Pending, handlerVars
      <4>2. /\ wire[c] \o t # <<>> /\ Head(wire[c] \o t) = Head(wire[c])
            /\ Tail(wire[c] \o t) = Tail(wire[c]) \o t
        BY <1>1, <2>1, HeadOfConcat
      <4> QED
        BY <4>1, <4>2 DEF AbsQueue
    <3>2. CASE link[c] # "up"
      BY <2>1, <3>2 DEF Pending, AbsQueue
    <3> QED
      BY <3>1, <3>2
  <2>3. AbsQueue' = [AbsQueue EXCEPT ![c] = Tail(@)]
    BY <1>5, <2>2 DEF AbsQueue
  <2>4. AbsStream' = AbsStream
    BY <1>1, <2>1 DEF AbsStream, handlerVars
  <2>5. Channel!Receive(c)
    BY <1>2, <1>3, <2>1, <2>2, <2>3, <2>4
    DEF Channel!Receive, AbsMap, AbsDB, AbsSubs, AbsStream, AbsQueue, Pending
  <2> QED
    BY <2>5 DEF Channel!Next
<1>9. CASE Break(c)
  <2>1. /\ link[c] = "up" /\ link' = [link EXCEPT ![c] = "broken"] /\ note' = note
    BY <1>9 DEF Break
  <2>2. PICK n \in 0..Len(wire[c]) : wire' = [wire EXCEPT ![c] = SubSeq(wire[c], 1, n)]
    BY <1>9 DEF Break
  <2>3. Pending(c) = wire[c] \o t /\ Pending(c)' = SubSeq(wire[c], 1, n)
    BY <1>1, <1>7, <2>1, <2>2 DEF Pending
  <2>4. n \in 0..Len(wire[c] \o t) /\ SubSeq(wire[c] \o t, 1, n) = SubSeq(wire[c], 1, n)
    BY <1>1, PrefixOfConcat
  <2>5. n \in 0..Len(AbsQueue[c]) /\ AbsQueue' = [AbsQueue EXCEPT ![c] = SubSeq(@, 1, n)]
    BY <1>5, <2>3, <2>4 DEF AbsQueue
  <2>6. AbsStream[c] # "down" /\ AbsStream' = [AbsStream EXCEPT ![c] = "down"]
    BY <1>1, <2>1 DEF AbsStream, handlerVars
  <2>7. Channel!Break(c)
    BY <1>2, <1>3, <2>1, <2>5, <2>6
    DEF Channel!Break, AbsMap, AbsDB, AbsSubs, AbsStream, AbsQueue, Pending
  <2> QED
    BY <2>7 DEF Channel!Next
<1>10. CASE Notice(c)
  <2>1. /\ link[c] = "broken" /\ link' = [link EXCEPT ![c] = "down"]
        /\ UNCHANGED <<wire, note>>
    BY <1>10 DEF Notice
  <2>2. Pending(c)' = Pending(c) /\ AbsStream' = AbsStream
    BY <1>1, <2>1 DEF Pending, AbsStream, handlerVars
  <2>3. AbsQueue' = AbsQueue
    BY <1>5, <2>2 DEF AbsQueue
  <2> QED
    BY <1>2, <1>3, <2>1, <2>2, <2>3, AbsStutter
<1> QED
  BY <1>8, <1>9, <1>10

(***************************************************************************)
(* Queue, condition variable, stream and the locks around them make one    *)
(* FIFO per client, and the three sections of cleanup_client() one step:   *)
(* Notifier implements NotificationChannel.                                *)
(***************************************************************************)
THEOREM NotifierIsChannel == Spec => ImplementsChannel
<1>1. Init => Channel!Init
  <2> SUFFICES ASSUME Init PROVE Channel!Init
    OBVIOUS
  <2> USE DEF Init
  <2>1. Telling = {}
    BY DEF Telling, NoRPC
  <2>2. AbsMap = file_map /\ \A d \in Client : ToldNow(d) = <<>>
    BY <2>1, NobodyTells
  <2>3. AbsDB = Client /\ AbsSubs = {} /\ AbsStream = [c \in Client |-> "new"]
    BY DEF AbsDB, AbsSubs, AbsStream
  <2>4. \A d \in Client : Pending(d) = <<>>
    <3>1. <<>> \o <<>> = <<>>
      OBVIOUS
    <3> QED
      BY <2>2, <3>1 DEF Pending, InHand
  <2>5. AbsQueue = [c \in Client |-> <<>>]
    BY <2>4 DEF AbsQueue
  <2> QED
    BY <2>2, <2>3, <2>5
    DEF Channel!Init, AbsMap, AbsDB, AbsSubs, AbsStream, AbsQueue, Pending
<1>2. NotifierInv /\ NotifierInv' /\ [Next]_vars => [Channel!Next]_Channel!vars
  <2> SUFFICES ASSUME NotifierInv, NotifierInv', [Next]_vars
               PROVE  [Channel!Next]_Channel!vars
    OBVIOUS
  <2>1. ASSUME NEW c \in Client, Subscribe(c) \/ Handler(c)
        PROVE  [Channel!Next]_Channel!vars
    BY <2>1, SubscribeRefines, PopRefines, WriteRefines, CleanRefines DEF Handler
  <2>2. ASSUME NEW c \in Client, WakeSpuriously(c) \/ Monitor(c)
        PROVE  [Channel!Next]_Channel!vars
    BY <2>2, WakeRefines
  <2>3. ASSUME NEW c \in Client, Call(c) \/ Continue(c)
        PROVE  [Channel!Next]_Channel!vars
    BY <2>3, LockRefines, LockSubscribersRefines, PushRefines, PushDoneRefines
    DEF Continue
  <2>4. ASSUME NEW c \in Client, Receive(c) \/ Break(c) \/ Notice(c)
        PROVE  [Channel!Next]_Channel!vars
    BY <2>4, StreamRefines
  <2>5. CASE UNCHANGED vars
    <3>1. UNCHANGED <<mapVars, rpcVars, handlerVars, streamVars>>
      BY <2>5 DEF vars
    <3>2. AbsMap' = AbsMap /\ \A d \in Client : ToldNow(d)' = ToldNow(d)
      BY <3>1, ToldFrame DEF mapVars, rpcVars
    <3>3. \A d \in Client : Pending(d)' = Pending(d)
      BY <3>1, <3>2, PendingFrame DEF handlerVars, streamVars
    <3>4. /\ AbsQueue' = AbsQueue /\ AbsStream' = AbsStream /\ AbsDB' = AbsDB
          /\ AbsSubs' = AbsSubs /\ note' = note
      BY <3>1, <3>3
      DEF AbsQueue, AbsStream, AbsDB, AbsSubs, mapVars, handlerVars, streamVars
    <3> QED
      BY <3>2, <3>4, AbsStutter
  <2> QED
    BY <2>1, <2>2, <2>3, <2>4, <2>5 DEF Next
<1> QED
  BY <1>1, <1>2, NotifierInvHolds, PTL DEF Spec, ImplementsChannel, Channel!Spec
=============================================================================
