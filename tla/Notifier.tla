------------------------------ MODULE Notifier ------------------------------
(***************************************************************************)
(* The callback channel as the server has it: per client a                 *)
(* NotificationQueue with its condition variable, the handler thread of    *)
(* subscribe() that waits in pop(), the detached monitor thread, and the   *)
(* handler threads of open(), close() and unlink(), which take             *)
(* file_map_mutex, subscriber_mutex and the queue's own mutex, in this     *)
(* order.  The queue's mutex is held by nobody who waits for something:    *)
(* what is done under it is one step.                                      *)
(*                                                                         *)
(* One file; a rename tells its watchers as an unlink does (AFS has its    *)
(* self-lock).  A client id is a fresh uuid, so a client subscribes once.  *)
(***************************************************************************)
EXTENDS Integers, Sequences

CONSTANTS Client,
          Nobody,     \* holds a mutex that is free
          MaxCalls    \* bound: RPCs the clients make

ASSUME NobodyAssumption == Nobody \notin Client
ASSUME CallsAssumption  == MaxCalls \in Nat

Note == 1..MaxCalls

VARIABLES
  file_map,          \* the clients registered for the file
  clients_db,
  subscribers,       \* the clients that have an entry
  file_map_mutex, subscriber_mutex,   \* whose handler holds them
  rpc,               \* the handler of each client's call in progress
  calls,             \* started so far
  \* per client, its subscription
  queue, shutdown,   \* the NotificationQueue
  handler,           \* what the handler of subscribe() does
  popped,            \* its local note, or 0
  monitor,           \* what its monitor thread does
  link,              \* its stream: "up", "broken", "down" once the server knows
  wire,              \* written to the stream, and not yet read by the client
  note               \* the last notification RunSubscriber has read, or 0

mapVars     == <<file_map, clients_db, subscribers>>
rpcVars     == <<file_map_mutex, subscriber_mutex, rpc, calls>>
handlerVars == <<queue, shutdown, handler, popped>>
streamVars  == <<link, wire, note>>
vars == <<mapVars, rpcVars, handlerVars, monitor, streamVars>>

Running == {"pop", "sleep", "write", "clean_db", "clean_map", "clean_subscribers"}

RPC == [op : {"none", "open", "close", "unlink"},
        pc : {"idle", "lock_map", "lock_subscribers", "push"},
        note : Note \cup {0}, todo : SUBSET Client]
NoRPC == [op |-> "none", pc |-> "idle", note |-> 0, todo |-> {}]

TypeOK ==
  /\ file_map \subseteq Client /\ clients_db \subseteq Client
  /\ subscribers \subseteq Client
  /\ file_map_mutex \in Client \cup {Nobody}
  /\ subscriber_mutex \in Client \cup {Nobody}
  /\ rpc \in [Client -> RPC] /\ calls \in 0..MaxCalls
  /\ queue \in [Client -> Seq(Note)] /\ shutdown \in [Client -> BOOLEAN]
  /\ handler \in [Client -> {"none", "done"} \cup Running]
  /\ popped \in [Client -> Note \cup {0}]
  /\ \A c \in Client : handler[c] = "write" => popped[c] \in Note
  /\ monitor \in [Client -> {"none", "running", "done"}]
  /\ link \in [Client -> {"up", "broken", "down"}]
  /\ wire \in [Client -> Seq(Note)] /\ note \in [Client -> Note \cup {0}]

\* The requests of the clients' constructors: request_dir() is answered, and
\* subscribe() on its way.
Init ==
  /\ file_map \in SUBSET Client
  /\ clients_db = Client /\ subscribers = {}
  /\ file_map_mutex = Nobody /\ subscriber_mutex = Nobody
  /\ rpc = [c \in Client |-> NoRPC] /\ calls = 0
  /\ queue = [c \in Client |-> <<>>]
  /\ shutdown = [c \in Client |-> FALSE]
  /\ handler = [c \in Client |-> "none"]
  /\ popped = [c \in Client |-> 0]
  /\ monitor = [c \in Client |-> "none"]
  /\ link = [c \in Client |-> "up"]
  /\ wire = [c \in Client |-> <<>>]
  /\ note = [c \in Client |-> 0]

-----------------------------------------------------------------------------
(***************************************************************************)
(* subscribe().                                                            *)
(***************************************************************************)
\* subscribers[client_id] = queue, and the monitor is started.
Subscribe(c) ==
  /\ handler[c] = "none" /\ subscriber_mutex = Nobody
  /\ subscribers' = subscribers \cup {c}
  /\ handler' = [handler EXCEPT ![c] = "pop"]
  /\ monitor' = [monitor EXCEPT ![c] = "running"]
  /\ UNCHANGED <<file_map, clients_db, rpcVars, queue, shutdown, popped, streamVars>>

\* Mutation: subscribe() returns as soon as pop() is false.
PopReturns(c) ==
  /\ handler[c] = "pop"
  /\ IF queue[c] # <<>>
     THEN /\ popped' = [popped EXCEPT ![c] = Head(queue[c])]
          /\ queue' = [queue EXCEPT ![c] = Tail(@)]
          /\ handler' = [handler EXCEPT ![c] = "write"]
     ELSE /\ handler' = [handler EXCEPT ![c] = IF shutdown[c] THEN "done" ELSE "sleep"]
          /\ UNCHANGED <<popped, queue>>
  /\ UNCHANGED <<mapVars, rpcVars, shutdown, monitor, streamVars>>

\* pop(): cv.wait() tests its condition, and sleeps if it is false.
Pop(c) ==
  /\ handler[c] = "pop"
  /\ IF queue[c] # <<>>
     THEN /\ popped' = [popped EXCEPT ![c] = Head(queue[c])]
          /\ queue' = [queue EXCEPT ![c] = Tail(@)]
          /\ handler' = [handler EXCEPT ![c] = "write"]
     ELSE /\ handler' = [handler EXCEPT ![c] = IF shutdown[c] THEN "clean_db"
                                                ELSE "sleep"]
          /\ UNCHANGED <<popped, queue>>
  /\ UNCHANGED <<mapVars, rpcVars, shutdown, monitor, streamVars>>

\* notify_one() or notify_all(): the one thread that may sleep on it wakes up.
Wake(c) == handler' = [handler EXCEPT ![c] = IF @ = "sleep" THEN "pop" ELSE @]

\* Mutation: cv.wait() without a condition.
WakeUnchecked(c) ==
  /\ handler[c] = "sleep"
  /\ handler' = [handler EXCEPT ![c] = "write"]
  /\ UNCHANGED <<mapVars, rpcVars, queue, shutdown, popped, monitor, streamVars>>

WakeSpuriously(c) ==
  /\ handler[c] = "sleep"
  /\ Wake(c)
  /\ UNCHANGED <<mapVars, rpcVars, queue, shutdown, popped, monitor, streamVars>>

\* writer->Write(note): accepted while the server does not know better.
Write(c) ==
  /\ handler[c] = "write"
  /\ popped' = [popped EXCEPT ![c] = 0]
  /\ wire' = IF link[c] = "up" THEN [wire EXCEPT ![c] = Append(@, popped[c])]
             ELSE wire
  /\ handler' = [handler EXCEPT ![c] = IF link[c] = "down" THEN "clean_db" ELSE "pop"]
  /\ UNCHANGED <<mapVars, rpcVars, queue, shutdown, monitor, link, note>>

\* cleanup_client(), section by section.
CleanDB(c) ==
  /\ handler[c] = "clean_db"
  /\ clients_db' = clients_db \ {c}
  /\ handler' = [handler EXCEPT ![c] = "clean_map"]
  /\ UNCHANGED <<file_map, subscribers, rpcVars, queue, shutdown, popped, monitor,
                 streamVars>>

\* Mutation: entries are erased whoever else is in them.
CleanMapErases(c) ==
  /\ handler[c] = "clean_map" /\ file_map_mutex = Nobody
  /\ file_map' = IF c \in file_map THEN {} ELSE file_map
  /\ handler' = [handler EXCEPT ![c] = "clean_subscribers"]
  /\ UNCHANGED <<clients_db, subscribers, rpcVars, queue, shutdown, popped, monitor,
                 streamVars>>

CleanMap(c) ==
  /\ handler[c] = "clean_map" /\ file_map_mutex = Nobody
  /\ file_map' = file_map \ {c}
  /\ handler' = [handler EXCEPT ![c] = "clean_subscribers"]
  /\ UNCHANGED <<clients_db, subscribers, rpcVars, queue, shutdown, popped, monitor,
                 streamVars>>

\* The queue is shut down, the entry erased, and the handler returns.
CleanSubscribers(c) ==
  /\ handler[c] = "clean_subscribers" /\ subscriber_mutex = Nobody
  /\ subscribers' = subscribers \ {c}
  /\ shutdown' = [shutdown EXCEPT ![c] = TRUE]
  /\ handler' = [handler EXCEPT ![c] = "done"]
  /\ UNCHANGED <<file_map, clients_db, rpcVars, queue, popped, monitor, streamVars>>

Handler(c) ==
  \/ Pop(c) \/ Write(c)
  \/ CleanDB(c) \/ CleanMap(c) \/ CleanSubscribers(c)

-----------------------------------------------------------------------------
(***************************************************************************)
(* The monitor: it polls the context, every five seconds.  Once the        *)
(* handler has returned, that context is gone and what is read arbitrary.  *)
(***************************************************************************)
IsCancelled(c) == IF handler[c] = "done" THEN BOOLEAN ELSE {link[c] = "down"}

\* Mutation: the flag is set, and nobody is woken up.
MonitorSilently(c) ==
  /\ monitor[c] = "running" /\ TRUE \in IsCancelled(c)
  /\ shutdown' = [shutdown EXCEPT ![c] = TRUE]
  /\ monitor' = [monitor EXCEPT ![c] = "done"]
  /\ UNCHANGED <<mapVars, rpcVars, queue, handler, popped, streamVars>>

\* queue->cancel(), also of a queue that is no longer in subscribers.
Monitor(c) ==
  /\ monitor[c] = "running" /\ TRUE \in IsCancelled(c)
  /\ shutdown' = [shutdown EXCEPT ![c] = TRUE]
  /\ Wake(c)
  /\ monitor' = [monitor EXCEPT ![c] = "done"]
  /\ UNCHANGED <<mapVars, rpcVars, queue, popped, streamVars>>

-----------------------------------------------------------------------------
(***************************************************************************)
(* The locked sections of open(), close() and unlink().                    *)
(***************************************************************************)
\* The clients go on with their RPCs also when their stream is broken.
Call(c) ==
  /\ rpc[c].pc = "idle" /\ calls < MaxCalls
  /\ calls' = calls + 1
  /\ \E o \in {"open", "close", "unlink"} :
       rpc' = [rpc EXCEPT ![c] = [NoRPC EXCEPT !.op = o, !.pc = "lock_map",
                                               !.note = calls + 1]]
  /\ UNCHANGED <<mapVars, file_map_mutex, subscriber_mutex, handlerVars, monitor,
                 streamVars>>

EndCall(c) == rpc' = [rpc EXCEPT ![c] = NoRPC]

\* open(), and close() of a file without an entry, register the caller; unlink()
\* of one does nothing.
Register(c) ==
  /\ rpc[c].pc = "lock_map" /\ file_map_mutex = Nobody
  /\ rpc[c].op = "open" \/ file_map = {}
  /\ file_map' = IF rpc[c].op = "unlink" THEN file_map ELSE file_map \cup {c}
  /\ EndCall(c)
  /\ UNCHANGED <<clients_db, subscribers, file_map_mutex, subscriber_mutex, calls,
                 handlerVars, monitor, streamVars>>

LockMap(c) ==
  /\ rpc[c].pc = "lock_map" /\ file_map_mutex = Nobody
  /\ rpc[c].op # "open" /\ file_map # {}
  /\ file_map_mutex' = c
  /\ rpc' = [rpc EXCEPT ![c].pc = "lock_subscribers"]
  /\ UNCHANGED <<mapVars, subscriber_mutex, calls, handlerVars, monitor, streamVars>>

\* The loop: those of client_set who are in subscribers, except the caller.
LockSubscribers(c) ==
  /\ rpc[c].pc = "lock_subscribers" /\ subscriber_mutex = Nobody
  /\ subscriber_mutex' = c
  /\ rpc' = [rpc EXCEPT ![c].pc = "push",
                        ![c].todo = (file_map \cap subscribers) \ {c}]
  /\ UNCHANGED <<mapVars, file_map_mutex, calls, handlerVars, monitor, streamVars>>

\* Mutation: cv.notify_one() is left out.
PushSilently(c, d) ==
  /\ rpc[c].pc = "push" /\ d \in rpc[c].todo
  /\ queue' = [queue EXCEPT ![d] = Append(@, rpc[c].note)]
  /\ rpc' = [rpc EXCEPT ![c].todo = @ \ {d}]
  /\ UNCHANGED <<mapVars, file_map_mutex, subscriber_mutex, calls, shutdown, handler,
                 popped, monitor, streamVars>>

\* Mutation: push() waits until the queue has room.
PushBounded(c, d) ==
  /\ rpc[c].pc = "push" /\ d \in rpc[c].todo /\ queue[d] = <<>>
  /\ queue' = [queue EXCEPT ![d] = Append(@, rpc[c].note)]
  /\ Wake(d)
  /\ rpc' = [rpc EXCEPT ![c].todo = @ \ {d}]
  /\ UNCHANGED <<mapVars, file_map_mutex, subscriber_mutex, calls, shutdown, popped,
                 monitor, streamVars>>

Push(c, d) ==
  /\ rpc[c].pc = "push" /\ d \in rpc[c].todo
  /\ queue' = [queue EXCEPT ![d] = Append(@, rpc[c].note)]
  /\ Wake(d)
  /\ rpc' = [rpc EXCEPT ![c].todo = @ \ {d}]
  /\ UNCHANGED <<mapVars, file_map_mutex, subscriber_mutex, calls, shutdown, popped,
                 monitor, streamVars>>

\* Both mutexes are unlocked; unlink() has erased the entry before.
PushDone(c) ==
  /\ rpc[c].pc = "push" /\ rpc[c].todo = {}
  /\ file_map' = IF rpc[c].op = "unlink" THEN {} ELSE file_map
  /\ file_map_mutex' = Nobody /\ subscriber_mutex' = Nobody
  /\ EndCall(c)
  /\ UNCHANGED <<clients_db, subscribers, calls, handlerVars, monitor, streamVars>>

Continue(c) ==
  \/ Register(c) \/ LockMap(c) \/ LockSubscribers(c)
  \/ \E d \in Client : Push(c, d)
  \/ PushDone(c)

-----------------------------------------------------------------------------
(***************************************************************************)
(* The stream and the client's end of it.                                  *)
(***************************************************************************)
Receive(c) ==
  /\ wire[c] # <<>>
  /\ note' = [note EXCEPT ![c] = Head(wire[c])]
  /\ wire' = [wire EXCEPT ![c] = Tail(@)]
  /\ UNCHANGED <<mapVars, rpcVars, handlerVars, monitor, link>>

\* The client cancels, dies or is cut off; what has arrived can be read.
Break(c) ==
  /\ link[c] = "up"
  /\ link' = [link EXCEPT ![c] = "broken"]
  /\ \E n \in 0..Len(wire[c]) : wire' = [wire EXCEPT ![c] = SubSeq(@, 1, n)]
  /\ UNCHANGED <<mapVars, rpcVars, handlerVars, monitor, note>>

Notice(c) ==
  /\ link[c] = "broken"
  /\ link' = [link EXCEPT ![c] = "down"]
  /\ UNCHANGED <<mapVars, rpcVars, handlerVars, monitor, wire, note>>

Next ==
  \E c \in Client :
    \/ Subscribe(c) \/ Handler(c) \/ WakeSpuriously(c) \/ Monitor(c)
    \/ Call(c) \/ Continue(c)
    \/ Receive(c) \/ Break(c) \/ Notice(c)

\* The threads run, the transport finds out about a broken connection, and
\* spurious wake-ups need not come.
Fairness ==
  \A c \in Client :
    /\ WF_vars(Subscribe(c)) /\ WF_vars(Handler(c)) /\ WF_vars(Monitor(c))
    /\ WF_vars(Continue(c))
    /\ WF_vars(Receive(c)) /\ WF_vars(Notice(c))

Spec == Init /\ [][Next]_vars /\ Fairness
-----------------------------------------------------------------------------
(***************************************************************************)
(* An entry of subscribers has a thread that empties its queue or is about *)
(* to erase it: a callback never feeds a queue nobody reads (subscribe,    *)
(* cleanup_client).                                                        *)
(***************************************************************************)
QueuesAreServed == \A c \in subscribers : handler[c] \in Running

(***************************************************************************)
(* "keeps returning true unless shutdown + queue empty"                    *)
(* (subscriber_handler.hpp): each notification pushed for a client comes   *)
(* out of the Read() of its RunSubscriber, or its stream breaks.  One that *)
(* is pushed just before the handler goes to sleep is no exception, nor is *)
(* one the handler has popped and not yet written.                         *)
(***************************************************************************)
Queued(c, n) == \E i \in 1..Len(queue[c]) : queue[c][i] = n

PushedIsRead ==
  \A c \in Client, n \in Note :
    [](Queued(c, n) /\ link[c] = "up" => <>(note[c] = n \/ link[c] # "up"))

(***************************************************************************)
(* "when a client disconnects, we need to clean up the maps on the server" *)
(* (cleanup_client): the handler of a broken stream wakes up and returns,  *)
(* and the client has no queue any more.                                   *)
(***************************************************************************)
BrokenIsForgotten ==
  \A c \in Client :
    [](link[c] # "up" => <>(handler[c] = "done" /\ c \notin subscribers))

(***************************************************************************)
(* The callbacks hold two mutexes while they push into the queues of       *)
(* others, whose handlers sleep, clean up and wait for the same mutexes:   *)
(* every call returns.                                                     *)
(***************************************************************************)
CallbacksReturn == \A c \in Client : []<>(rpc[c].pc = "idle")

-----------------------------------------------------------------------------
(***************************************************************************)
(* The channel as a FIFO.  A callback tells its clients when it has both   *)
(* mutexes; a client is cleaned up when it leaves file_map.                *)
(***************************************************************************)
Telling == {c \in Client : rpc[c].pc = "push"}

ToldNow(d) == IF \E c \in Telling : d \in rpc[c].todo
              THEN <<rpc[CHOOSE c \in Telling : TRUE].note>> ELSE <<>>

InHand(c) == IF handler[c] = "write" THEN <<popped[c]>> ELSE <<>>

Channel == INSTANCE NotificationChannel WITH
  file_map    <- IF \E c \in Telling : rpc[c].op = "unlink" THEN {} ELSE file_map,
  clients_db  <- clients_db \cup {c \in Client : handler[c] = "clean_map"},
  subscribers <- {c \in subscribers : handler[c] # "clean_subscribers"},
  stream      <- [c \in Client |-> IF link[c] # "up" THEN "down"
                                   ELSE IF handler[c] = "none" THEN "new" ELSE "up"],
  queue       <- [c \in Client |->
                    IF link[c] = "up"
                    THEN wire[c] \o InHand(c) \o queue[c] \o ToldNow(c)
                    ELSE wire[c]]

(***************************************************************************)
(* Queue, condition variable, stream and the locks around them make one    *)
(* FIFO per client, and the three sections of cleanup_client() one step,   *)
(* as AFS has them.                                                        *)
(***************************************************************************)
ImplementsChannel == Channel!Spec
=============================================================================
