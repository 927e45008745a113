-------------------------------- MODULE AFS ---------------------------------
(***************************************************************************)
(* The server, the clients and the callback channel together, and what the *)
(* callback protocol promises: a client's copy of a file differs from the  *)
(* server's only while a notification is on its way to it, unless one was  *)
(* thrown away.                                                            *)
(***************************************************************************)
EXTENDS AFSServer, AFSClient

\* History: the files of which a client has missed a change for good, by
\* throwing the notification away or by having no queue to receive it.
VARIABLE missed

vars == <<stateVars, missed>>

Init == StateInit /\ missed = [c \in Client |-> {}]

\* The notification of CloseNotify(c) reaches no queue of these clients.
Unreached(c) == (Registered(op[c].path) \ {c}) \ subscribers

(***************************************************************************)
(* The steps that the history variable watches.  A client that reads the   *)
(* file from the server, or stores its own content there, is up to date.   *)
(***************************************************************************)
MissAtServer(c) ==
  missed' = [d \in Client |->
               IF At(c, "close_notify") /\ d \in Unreached(c)
               THEN missed[d] \cup {op[c].path}
               ELSE IF d = c /\ op[c].pc \in {"open_read", "close_write"}
               THEN missed[d] \ {op[c].path}
               ELSE missed[d]]

MissAtClient(c) ==
  missed' = IF Dropped(c, Head(queue[c]))
            THEN [missed EXCEPT ![c] = @ \cup {Head(queue[c])}]
            ELSE missed

Server(c)     == ServerStep(c) /\ MissAtServer(c)
Subscriber(c) == HandleNotification(c) /\ MissAtClient(c)
Caller(c)     == CallerStep(c) /\ UNCHANGED missed
Continue(c)   == ClientStep(c) /\ UNCHANGED missed
Connect(c)    == Subscribe(c) /\ UNCHANGED missed
Disconnect(c) == (StreamBreak(c) \/ Cleanup(c)) /\ UNCHANGED missed

Next == \E c \in Client :
          \/ Server(c) \/ Subscriber(c) \/ Caller(c)
          \/ Continue(c) \/ Connect(c) \/ Disconnect(c)

Spec == Init /\ [][Next]_vars

(***************************************************************************)
(* Threads that can run do run: the server's handler and the client's code *)
(* go on with a call, a subscription is received, notifications are read.  *)
(* Nothing makes a caller start an operation or a stream break.            *)
(***************************************************************************)
Fairness == \A c \in Client :
              /\ WF_vars(Server(c))
              /\ WF_vars(Continue(c))
              /\ WF_vars(Connect(c))
              /\ WF_vars(Subscriber(c))

FairSpec == Spec /\ Fairness

-----------------------------------------------------------------------------
(***************************************************************************)
(* Properties of sharing: open, read, write and close, by any number of    *)
(* clients at once.  (Ops without create, rename, unlink and truncate.)    *)
(***************************************************************************)
SharingOps == AllOps \ {"create", "rename", "unlink", "truncate"}

Connected(c) == stream[c] # "down"

\* c is past the registration of an open() of p that has not returned.
Fetching(c, p) == op[c].path = p /\ op[c].pc \in {"open_read", "open_reply"}

\* c holds, or is about to cache, content v of p as the server's.
Holds(c, p, v) ==
  \/ cache[c][p] = "clean" /\ v = local[c][p]
  \/ At(c, "open_reply") /\ op[c].path = p /\ op[c].data # None /\ v = op[c].data
  \/ op[c].pc \in {"close_notify", "close_reply"} /\ op[c].path = p /\ v = op[c].data

\* A close() of p has truncated the file and not yet told the others.
Storing(d, p) == op[d].path = p /\ op[d].pc \in {"close_write", "close_notify"}

\* A notification that will make c drop its copy of p is on its way.
Announced(c, p) ==
  \/ p \in Range(queue[c])
  \/ \E d \in Client \ {c} : Storing(d, p)

(***************************************************************************)
(* The map that close() consults knows every connected client that has the *)
(* file, from before the file is read for it: "this file_map is basically  *)
(* recording the list of clients that have the specific file in cache"     *)
(* (filesystem_server.hpp).                                                *)
(***************************************************************************)
CachedIsRegistered ==
  \A c \in Client, p \in Path :
    Connected(c) /\ (Cached(c, p) \/ Fetching(c, p)) => c \in file_map[p]

(***************************************************************************)
(* A copy that differs from the server's file is one whose invalidation is *)
(* on its way or was thrown away: no order of registration, read, write    *)
(* and callback loses a notification inside the server.                    *)
(***************************************************************************)
StaleIsExcused ==
  \A c \in Client, p \in Path : \A v \in Stored :
    Connected(c) /\ Holds(c, p, v)
      => v = disk[p] \/ Announced(c, p) \/ p \in missed[c]

(***************************************************************************)
(* The abstract specification these steps implement: as long as the stream *)
(* is up and no notification was thrown away, a clean entry of the cache   *)
(* is a coherent copy from the moment nothing is announced for it.         *)
(***************************************************************************)
CoherentCopy(c, p) ==
  IF cache[c][p] = "clean" /\ Connected(c) /\ ~Announced(c, p) /\ p \notin missed[c]
  THEN local[c][p] ELSE None

CC == INSTANCE CoherentCache
        WITH content <- disk,
             copy    <- [c \in Client |-> [p \in Path |-> CoherentCopy(c, p)]]

ImplementsCoherentCache == CC!Spec

-----------------------------------------------------------------------------
(***************************************************************************)
(* Every operation a client starts comes to an end, whatever the others    *)
(* do: retries are bounded and no handler waits for another client.        *)
(***************************************************************************)
CallsReturn == \A c \in Client : []<>IsIdle(c)

(***************************************************************************)
(* Once no more contents are written, every copy a connected client holds  *)
(* and did not miss a change of is the server's for ever.                  *)
(***************************************************************************)
EventuallyCoherent ==
  <>[](\A c \in Client, p \in Path :
         cache[c][p] = "clean" /\ Connected(c) /\ p \notin missed[c]
           => local[c][p] = disk[p])

\* Callers that wait until their client is subscribed.
SubscribedStep == \A c \in Client : op'[c] # op[c] => stream[c] = "up"

SubscribedSpec == Init /\ [][Next /\ SubscribedStep]_vars /\ Fairness

(***************************************************************************)
(* "When a file is modified, renamed, or deleted by one client, the server *)
(* instantly notifies other subscribed clients to invalidate their local   *)
(* caches for that specific file" (README.md): once nothing is written any *)
(* more, a subscribed client's copy is the server's.                       *)
(***************************************************************************)
EventuallyFresh ==
  <>[](\A c \in Client, p \in Path :
         cache[c][p] = "clean" /\ Connected(c) => local[c][p] = disk[p])

-----------------------------------------------------------------------------
(***************************************************************************)
(* Properties of every operation.                                          *)
(*                                                                         *)
(* A modification that has not been stored belongs to a file that is open, *)
(* or that create_file() is about to open.  Of an open file the subscriber *)
(* thread drops no entry; whether close() finds the file's mutex is what   *)
(* OpenIsUsable, below, is about.                                          *)
(***************************************************************************)
UnflushedIsOpen ==
  \A c \in Client, p \in Path :
    cache[c][p] = "dirty" =>
      IsOpen(c, p) \/ (At(c, "create_install") /\ op[c].path = p)

(***************************************************************************)
(* A call in progress finds the entry it works on as it left it, although  *)
(* it holds no lock on the cache: what close() stores is, until the reply, *)
(* the content of a modified entry that stays; what open() fetches is for  *)
(* a file that is not cached.                                              *)
(***************************************************************************)
FlushingPC == {"close_truncate", "close_write", "close_notify", "close_reply"}
FillingPC  == {"open_register", "open_read", "open_reply"}

CallOwnsEntry ==
  \A c \in Client :
    LET p == op[c].path IN
    /\ op[c].pc \in FlushingPC => cache[c][p] = "dirty" /\ local[c][p] = op[c].data
    /\ op[c].pc \in FillingPC => ~Cached(c, p)

(***************************************************************************)
(* What takes the mark off a modified file is a step of the client's own   *)
(* operation on it, and that step has a reason: close() has stored what    *)
(* the local file holds; rename() moves the mark with the file, or has     *)
(* replaced the file; unlink() was asked for.  A notification, which goes  *)
(* on with no operation, discards no write: it takes the mark only off a   *)
(* file that create_file() is making, in which nothing has been written.   *)
(***************************************************************************)
Unmarks(c, p) == cache[c][p] = "dirty" /\ cache'[c][p] # "dirty"

StoredBy(c, p) ==
  /\ At(c, "close_reply") /\ op'[c] = Idle
  /\ op[c].path = p /\ op[c].data = local[c][p]

RenamedBy(c, p) ==
  /\ At(c, "rename_maps") /\ op'[c].pc = "rename_move"
  /\ \/ p = op[c].path /\ cache'[c][op[c].to] = "dirty"
     \/ p = op[c].to /\ Cached(c, op[c].path)

UnlinkedBy(c, p) ==
  /\ IsIdle(c) /\ op'[c].pc = "unlink_remove"
  /\ op'[c].path = p

UnwrittenYet(c, p) ==
  /\ At(c, "create_install") /\ op'[c] = op[c]
  /\ op[c].path = p /\ local[c][p] = Empty

UnflushedSurvives ==
  [][\A c \in Client, p \in Path :
       Unmarks(c, p) => \/ StoredBy(c, p) \/ RenamedBy(c, p)
                        \/ UnlinkedBy(c, p) \/ UnwrittenYet(c, p)]_vars

-----------------------------------------------------------------------------
(***************************************************************************)
(* The discipline client_subscriber.hpp takes for granted, "two clients    *)
(* can't open the same file at the same time", which nothing enforces: a   *)
(* file is opened only when the client is subscribed, has no notification  *)
(* of it to read, and no other client has it open or is working on it.     *)
(***************************************************************************)
Opening(c, p) == op[c].path = p /\ op[c].pc \in FillingPC \cup {"open_install"}

MayOpen(c, p) ==
  /\ stream[c] = "up"
  /\ p \notin Range(queue[c])
  /\ \A d \in Client \ {c} : ~IsOpen(d, p) /\ ~Opening(d, p)

PoliteStep ==
  \A c \in Client, p \in Path :
    ~Opening(c, p) /\ Opening(c, p)' => MayOpen(c, p)

PoliteSpec == Init /\ [][Next /\ PoliteStep]_vars

(***************************************************************************)
(* Then the callbacks are enough: what a client reads from a file it has   *)
(* open and has not modified is what the server has, and no connected      *)
(* client has missed a change of a file that is in its cache.              *)
(***************************************************************************)
OpenIsCurrent ==
  \A c \in Client, p \in Path :
    Usable(c, p) /\ cache[c][p] = "clean" /\ IsIdle(c) => local[c][p] = disk[p]

NothingMissed ==
  \A c \in Client, p \in Path :
    Connected(c) /\ Cached(c, p) => p \notin missed[c]

-----------------------------------------------------------------------------
(***************************************************************************)
(* What comments of the code say and its steps do not do (see README.md).  *)
(*                                                                         *)
(* filesystem_server.hpp, of file_map: "recording the list of clients that *)
(* have the specific file in cache".  When no operation is in progress, no *)
(* notification unread and none was thrown away, a connected client whose  *)
(* unmodified copy is not what the server now has under the name, a rename *)
(* having replaced that file, is at least in the list of the name.         *)
(***************************************************************************)
Quiet == \A c \in Client : IsIdle(c) /\ queue[c] = <<>> /\ missed[c] = {}

QuietIsRegistered ==
  Quiet => \A c \in Client, p \in Path :
             /\ Connected(c) /\ cache[c][p] = "clean"
             /\ local[c][p] # disk[p] /\ None \notin {local[c][p], disk[p]}
             => c \in file_map[p]

(***************************************************************************)
(* file_change_callback_rename(), else-branch: "If old_path is not in the  *)
(* map, just register the new_path with the client".                       *)
(***************************************************************************)
RenameRegisters ==
  [][\A c \in Client :
       At(c, "rename_notify") /\ Registered(op[c].path) = {} /\ op'[c] # op[c]
         => c \in file_map'[op[c].to]]_vars

(***************************************************************************)
(* rename_file(): "Update all client structures".  A file that is open and *)
(* in the cache can be read, written and closed, whatever its name became. *)
(***************************************************************************)
OpenIsUsable ==
  \A c \in Client, p \in Path :
    IsIdle(c) /\ Cached(c, p) /\ IsOpen(c, p) => p \in mutexes[c]

(***************************************************************************)
(* locally_modified: "True if the local copy has been modified and then if *)
(* locally_modified == true, we push it to the server on close()".  A step *)
(* that changes the local file of an entry that stays leaves it marked.    *)
(***************************************************************************)
LocalChangeIsMarked ==
  [][\A c \in Client, p \in Path :
       Cached(c, p) /\ Cached(c, p)' /\ local'[c][p] # local[c][p]
         => cache'[c][p] = "dirty"]_vars

=============================================================================
