------------------------------ MODULE AFSState ------------------------------
(***************************************************************************)
(* The state of the distributed file system: one server, a set of clients  *)
(* that cache whole files, and the callback channel between them.  The     *)
(* modules AFSServer and AFSClient hold the steps, AFS composes them.      *)
(*                                                                         *)
(* What is abstracted.  A file name is an element of Path: all files are   *)
(* regular files directly under the root directory.  The bytes of a file   *)
(* are one number, a fresh one for every write_file, 0 for the empty file, *)
(* None for no file; the size stat() reports is identified with that       *)
(* number, so two contents never have the same size.  A file is read or    *)
(* written by one step, whatever its number of 4096-byte chunks.           *)
(***************************************************************************)
EXTENDS Integers, Sequences, Functions

CONSTANTS Client,      \* client ids (a fresh uuid per FileSystemClient)
          Path,        \* file names under the root directory
          None,        \* no file, no argument, no cached attributes
          Ops,         \* the operations callers use: see AllOps
          MaxContent   \* bound: the largest content write_file may produce

AllOps == {"getattr", "open", "write", "close", "create", "rename",
           "unlink", "truncate", "disconnect"}

ASSUME NoneAssumption == None \notin Nat /\ None \notin Path
ASSUME BoundAssumption == MaxContent \in Nat \ {0}
ASSUME OpsAssumption == Ops \subseteq AllOps

\* while (num_of_retries < 3 && !status.ok())
MaxTries == 3

Empty   == 0
Content == Empty .. MaxContent
Stored  == Content \cup {None}

VARIABLES
  \* the server
  disk,           \* the files under root_dir
  file_map,       \* path -> clients registered for it ({}: no entry)
  file_map_open,  \* path -> clients the dashboard shows ({}: no entry)
  subscribers,    \* clients that have a NotificationQueue
  clients_db,     \* clients that called request_dir and were not cleaned up
  mapLocked,      \* TRUE: a handler deadlocked on itself holding file_map_mutex
  \* the channel: NotificationQueue and gRPC stream, as one FIFO of paths
  queue, stream,
  \* the clients
  cache,          \* "none", "clean", or "dirty" (locally_modified)
  local,          \* the files under cache_directory
  opened,         \* opened_files and what the streams of an entry refer to
  mutexes,        \* the keys of file_mutexes
  cached_attr,    \* cached FileAttributes, reduced to the size
  op,             \* the FUSE operation in progress, and its RPC
  written         \* the largest content any write_file has produced

serverVars  == <<disk, file_map, file_map_open, subscribers, clients_db, mapLocked>>
channelVars == <<queue, stream>>
clientVars  == <<cache, local, opened, mutexes, cached_attr, written>>
stateVars   == <<serverVars, channelVars, clientVars, op>>

-----------------------------------------------------------------------------
(***************************************************************************)
(* A synchronous RPC blocks its caller, so one program counter walks both  *)
(* the client's function and the server's handler.  The name says which    *)
(* step comes next; those of ServerPC are steps of a handler.              *)
(***************************************************************************)
ServerPC == {"getattr_stat", "open_register", "open_read",
             "close_truncate", "close_write", "close_notify",
             "rename_move", "rename_notify", "rename_hung",
             "unlink_remove", "unlink_notify"}
ClientPC == {"getattr_reply", "open_reply", "open_install", "create_install",
             "close_reply", "rename_maps", "rename_reply",
             "unlink_ok", "unlink_fail"}

RenamePC == {"rename_maps", "rename_move", "rename_notify", "rename_hung",
             "rename_reply"}

OpFields == [pc    : {"idle"} \cup ServerPC \cup ClientPC,
             path  : Path \cup {None},   \* the file the call is about
             to    : Path \cup {None},   \* rename: the new name
             data  : Stored,             \* content in the request or reply
             fd    : Path \cup {None},   \* close: the file outfile refers to
             tries : 0..MaxTries]        \* open: failed attempts

\* A call in progress is about some file, and a rename about two.
OpRecord == {r \in OpFields :
               /\ r.pc # "idle" => r.path \in Path
               /\ r.pc \in RenamePC => r.to \in Path}

Idle == [pc |-> "idle", path |-> None, to |-> None, data |-> None,
         fd |-> None, tries |-> 0]

IsIdle(c) == op[c].pc = "idle"
At(c, l)  == op[c].pc = l

\* The call of c becomes r: it starts, goes on at l, gets its data, returns.
Becomes(c, r)  == op' = [op EXCEPT ![c] = r]
Call(c, l, p)  == Becomes(c, [Idle EXCEPT !.pc = l, !.path = p])
Goto(c, l)     == Becomes(c, [op[c] EXCEPT !.pc = l])
Reply(c, l, v) == Becomes(c, [op[c] EXCEPT !.pc = l, !.data = v])
Return(c)      == Becomes(c, Idle)

\* What the streams of an entry of opened_files refer to: no entry; the file
\* now at that name in the cache directory; a file removed or replaced since;
\* nothing, the flush of close_file having closed them, the second time in vain,
\* which sets the fail bit.
Handle == {"no", "open", "detached", "closed", "failed"}

ServerTypeOK ==
  /\ disk \in [Path -> Stored]
  /\ file_map \in [Path -> SUBSET Client]
  /\ file_map_open \in [Path -> SUBSET Client]
  /\ subscribers \in SUBSET Client
  /\ clients_db \in SUBSET Client
  /\ mapLocked \in BOOLEAN

ChannelTypeOK ==
  /\ queue \in [Client -> Seq(Path)]
  /\ stream \in [Client -> {"new", "up", "down"}]

ClientTypeOK ==
  /\ cache \in [Client -> [Path -> {"none", "clean", "dirty"}]]
  /\ local \in [Client -> [Path -> Stored]]
  /\ opened \in [Client -> [Path -> Handle]]
  /\ mutexes \in [Client -> SUBSET Path]
  /\ cached_attr \in [Client -> [Path -> Stored]]
  /\ written \in Content

OpTypeOK == op \in [Client -> OpRecord]

TypeOK == ServerTypeOK /\ ChannelTypeOK /\ ClientTypeOK /\ OpTypeOK

(***************************************************************************)
(* The server has just started in a directory that holds some files, each  *)
(* client has called request_dir in its constructor and its subscribe()    *)
(* request is on its way; the cache directories are empty.                 *)
(***************************************************************************)
StateInit ==
  /\ disk \in [Path -> {None, 1}]
  /\ file_map = [p \in Path |-> {}]
  /\ file_map_open = [p \in Path |-> {}]
  /\ subscribers = {}
  /\ clients_db = Client
  /\ mapLocked = FALSE
  /\ queue = [c \in Client |-> <<>>]
  /\ stream = [c \in Client |-> "new"]
  /\ cache = [c \in Client |-> [p \in Path |-> "none"]]
  /\ local = [c \in Client |-> [p \in Path |-> None]]
  /\ opened = [c \in Client |-> [p \in Path |-> "no"]]
  /\ mutexes = [c \in Client |-> {}]
  /\ cached_attr = [c \in Client |-> [p \in Path |-> None]]
  /\ op = [c \in Client |-> Idle]
  /\ written = 1
=============================================================================
