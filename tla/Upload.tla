------------------------------- MODULE Upload -------------------------------
(***************************************************************************)
(* close_file() over RPCs that fail: the upload is a stream of chunks,     *)
(* tried up to three times.  An attempt that has failed for the client may *)
(* still be running on the server, beside the handler of the next attempt, *)
(* writing through a stream of its own into the same file; and a handler   *)
(* takes the end of a broken stream for the end of the file.               *)
(*                                                                         *)
(* One client modifies one file, others read it.  The content of the local *)
(* file is its version, the same for all its chunks; on the server every   *)
(* chunk has the version it was written from.  A reader's open() is one    *)
(* step here: AFS is about what comes between its parts.  A chunk is in    *)
(* the file as soon as it is written: what an ofstream holds back until    *)
(* the end of the handler are the last bytes, which nothing follows.       *)
(***************************************************************************)
EXTENDS Integers, Sequences

CONSTANTS Reader,       \* the clients that read the file
          Chunks,       \* chunks of the file, of 4096 bytes
          MaxTries,     \* attempts of one call: while (num_of_tries < 3 && ...)
          MaxVersion,   \* bound: versions write_file() may produce
          MaxFaults     \* bound: what goes wrong in a behaviour

ASSUME TriesAssumption    == MaxTries \in Nat \ {0}
ASSUME ChunksAssumption   == Chunks \in Nat \ {0}
ASSUME BoundsAssumption   == MaxVersion \in Nat \ {0} /\ MaxFaults \in Nat

Version == 1..MaxVersion

\* An upload is for a new version, or follows one that failed.
MaxAttempts == MaxVersion - 1 + MaxFaults
Attempt == 1..MaxAttempts

Hole    == 0                              \* bytes never written, read as zeros
Full(v) == [k \in 1..Chunks |-> v]

\* Chunk i written at its own offset, into a file of any length.
WriteAt(s, i, v) ==
  [k \in DOMAIN s \cup 1..i |->
     IF k = i THEN v ELSE IF k \in DOMAIN s THEN s[k] ELSE Hole]

VARIABLES
  \* the server
  disk,        \* the file, a sequence of versions
  registered,  \* the readers in the file's entry of file_map
  handler,     \* the close() handler of each attempt, and its stream
  \* the readers
  connected,   \* whose notification stream is up
  inbox,       \* notifications pushed and not yet handled
  copy,        \* the file in the cache: "none", "current", or "stale" since
               \* a handler changed the server's
  \* the client that modifies the file
  version,     \* of the local file
  dirty,       \* locally_modified
  streams,     \* of opened_files: "no" entry; "open"; "closed" by
               \* close_file(); closed once more, and "failed" by that
  call,        \* close_file() in progress
  attempts,    \* uploads started so far
  faults,      \* how often something has gone wrong so far
  \* history
  newest,      \* the last attempt whose handler has opened the file
  disturbed    \* an older one has changed the file since

serverVars == <<disk, registered, handler>>
readerVars == <<connected, inbox, copy>>
clientVars == <<version, dirty, streams, call, attempts>>
history    == <<newest, disturbed>>
vars == <<serverVars, readerVars, clientVars, faults, history>>

(***************************************************************************)
(* A handler is in its loop around reader->Read(), past it, or done.  Of   *)
(* its stream: the version being sent, the chunks sent so far and those    *)
(* written, whether the connection is up, and the status.                  *)
(***************************************************************************)
HandlerRecord ==
  [pc : {"none", "read", "callback", "done"}, opened : BOOLEAN,
   v : Version \cup {Hole}, sent : 0..Chunks, written : 0..Chunks,
   up : BOOLEAN, status : {"none", "ok", "error"}]

NoHandler == [pc |-> "none", opened |-> FALSE, v |-> Hole, sent |-> 0,
              written |-> 0, up |-> FALSE, status |-> "none"]

Done(a, s) ==
  [handler EXCEPT ![a] = [NoHandler EXCEPT !.pc = "done", !.up = handler[a].up,
                                           !.status = s]]

CallRecord == [pc : {"idle", "try", "send", "finish", "return", "crashed"},
               tries : 0..MaxTries, ok : BOOLEAN]
Idle == [pc |-> "idle", tries |-> 0, ok |-> FALSE]

TypeOK ==
  /\ disk \in UNION {[1..n -> Version \cup {Hole}] : n \in 0..Chunks}
  /\ registered \subseteq Reader /\ connected \subseteq Reader
  /\ handler \in [Attempt -> HandlerRecord]
  /\ inbox \in [Reader -> Nat]
  /\ copy \in [Reader -> {"none", "current", "stale"}]
  /\ version \in Version /\ dirty \in BOOLEAN
  /\ streams \in {"no", "open", "closed", "failed"}
  /\ call \in CallRecord
  /\ attempts \in 0..MaxAttempts /\ newest \in 0..MaxAttempts
  /\ faults \in 0..MaxFaults
  /\ disturbed \in BOOLEAN

\* The readers have subscribed, and those that are registered have opened and
\* closed the file; the client has it open, and nothing has been modified.
Init ==
  /\ disk = Full(1)
  /\ registered \in SUBSET Reader
  /\ handler = [a \in Attempt |-> NoHandler]
  /\ connected = Reader
  /\ inbox = [r \in Reader |-> 0]
  /\ copy = [r \in Reader |-> IF r \in registered THEN "current" ELSE "none"]
  /\ version = 1 /\ dirty = FALSE /\ streams = "open"
  /\ call = Idle /\ attempts = 0 /\ faults = 0
  /\ newest = 0 /\ disturbed = FALSE

-----------------------------------------------------------------------------
(***************************************************************************)
(* The client.                                                             *)
(***************************************************************************)
\* open_file() of the cached file; of an entry that is still there after a
\* close_file() that failed it says "already open" and changes nothing.
Open ==
  /\ call.pc = "idle" /\ streams = "no"
  /\ streams' = "open"
  /\ UNCHANGED <<serverVars, readerVars, history, version, dirty, call, attempts>>

WriteFile ==
  /\ call.pc = "idle" /\ streams = "open"
  /\ version + 1 \in Version
  /\ version' = version + 1
  /\ dirty' = TRUE
  /\ UNCHANGED <<serverVars, readerVars, history, streams, call, attempts>>

\* seekp() fails on a closed stream, and the fail bit is cleared.
WriteFails ==
  /\ call.pc = "idle" /\ streams = "failed"
  /\ streams' = "closed"
  /\ UNCHANGED <<serverVars, readerVars, history, version, dirty, call, attempts>>

CloseClean ==
  /\ call.pc = "idle" /\ streams # "no" /\ ~dirty
  /\ streams' = "no"
  /\ UNCHANGED <<serverVars, readerVars, history, version, dirty, call, attempts>>

\* flush() fails on a stream that failed; else the streams are closed, the
\* second time in vain, which sets the fail bit.
CloseFlush ==
  /\ call.pc = "idle" /\ streams \in {"open", "closed"} /\ dirty
  /\ streams' = IF streams = "open" THEN "closed" ELSE "failed"
  /\ call' = [Idle EXCEPT !.pc = "try"]
  /\ UNCHANGED <<serverVars, readerVars, history, version, dirty, attempts>>

\* stub_->close(): one more handler on the server, whatever became of the last.
StartUpload ==
  /\ call.pc = "try" /\ call.tries < MaxTries
  /\ attempts' = attempts + 1
  /\ handler' = [handler EXCEPT ![attempts + 1] =
                    [NoHandler EXCEPT !.pc = "read", !.v = version, !.up = TRUE]]
  /\ call' = [call EXCEPT !.pc = "send"]
  /\ UNCHANGED <<disk, registered, readerVars, history,
                 version, dirty, streams>>

\* writer->Write(), and after the last chunk WritesDone().
SendChunk ==
  /\ call.pc = "send"
  /\ handler[attempts].up
  /\ handler' = [handler EXCEPT ![attempts].sent = @ + 1]
  /\ call' = IF handler'[attempts].sent = Chunks
             THEN [call EXCEPT !.pc = "finish"] ELSE call
  /\ UNCHANGED <<disk, registered, readerVars, history,
                 version, dirty, streams, attempts>>

\* Write() returns false: the loop is left, and Finish() says why.
SendFails ==
  /\ call.pc = "send"
  /\ ~handler[attempts].up \/ handler[attempts].status # "none"
  /\ call' = [call EXCEPT !.pc = "finish"]
  /\ UNCHANGED <<serverVars, readerVars, history, version, dirty, streams, attempts>>

Answered(a) == handler[a].up /\ handler[a].status = "ok"
GivenUp(a)  == ~handler[a].up \/ handler[a].status = "error"

FinishOK ==
  /\ call.pc = "finish" /\ Answered(attempts)
  /\ call' = [call EXCEPT !.pc = "return", !.ok = TRUE]
  /\ UNCHANGED <<serverVars, readerVars, history, version, dirty, streams, attempts>>

FinishFailed ==
  /\ call.pc = "finish" /\ GivenUp(attempts)
  /\ call' = [call EXCEPT !.tries = @ + 1, !.pc = "try"]
  /\ UNCHANGED <<serverVars, readerVars, history, version, dirty, streams, attempts>>

GiveUp ==
  /\ call.pc = "try" /\ call.tries = MaxTries
  /\ call' = [call EXCEPT !.pc = "return"]
  /\ UNCHANGED <<serverVars, readerVars, history, version, dirty, streams, attempts>>

\* Mutation: the mark is taken off whatever the status.
CloseReturnUnmarks ==
  /\ call.pc = "return"
  /\ dirty' = FALSE
  /\ streams' = IF call.ok THEN "no" ELSE streams
  /\ call' = Idle
  /\ UNCHANGED <<serverVars, readerVars, history, version, attempts>>

\* The mark is taken off and the entry erased only after an answer.
CloseReturn ==
  /\ call.pc = "return"
  /\ dirty' = (dirty /\ ~call.ok)
  /\ streams' = IF call.ok THEN "no" ELSE streams
  /\ call' = Idle
  /\ UNCHANGED <<serverVars, readerVars, history, version, attempts>>

-----------------------------------------------------------------------------
(***************************************************************************)
(* The handler of attempt a.                                               *)
(***************************************************************************)
\* The file changes under the readers' copies.
Outdate == copy' = [r \in Reader |-> IF copy[r] = "current" THEN "stale" ELSE copy[r]]

\* Mutation: the file is opened without truncation.
OpenFileKeeps(a) ==
  /\ handler[a].pc = "read" /\ ~handler[a].opened /\ handler[a].sent > 0
  /\ handler' = [handler EXCEPT ![a].opened = TRUE]
  /\ newest' = IF a > newest THEN a ELSE newest
  /\ disturbed' = (a < newest)
  /\ Outdate
  /\ UNCHANGED <<disk, registered, connected, inbox, clientVars>>

\* Read() returns true for a chunk that was sent, also before a connection
\* broke.  With the first one the file is opened, and truncated.
OpenFile(a) ==
  /\ handler[a].pc = "read" /\ ~handler[a].opened /\ handler[a].sent > 0
  /\ disk' = <<>>
  /\ handler' = [handler EXCEPT ![a].opened = TRUE]
  /\ newest' = IF a > newest THEN a ELSE newest
  /\ disturbed' = (a < newest)
  /\ Outdate
  /\ UNCHANGED <<registered, connected, inbox, clientVars>>

\* "failed to open file": PERMISSION_DENIED.
OpenFails(a) ==
  /\ handler[a].pc = "read" /\ ~handler[a].opened /\ handler[a].sent > 0
  /\ handler' = Done(a, "error")
  /\ UNCHANGED <<disk, registered, readerVars, clientVars, history>>

\* Mutation: chunks go to the end of the file, wherever that is now.
WriteChunkAppends(a) ==
  /\ handler[a].pc = "read" /\ handler[a].opened
  /\ handler[a].written < handler[a].sent
  /\ disk' = Append(disk, handler[a].v)
  /\ handler' = [handler EXCEPT ![a].written = @ + 1]
  /\ disturbed' = (disturbed \/ a < newest)
  /\ Outdate
  /\ UNCHANGED <<registered, connected, inbox, clientVars, newest>>

WriteChunk(a) ==
  /\ handler[a].pc = "read" /\ handler[a].opened
  /\ handler[a].written < handler[a].sent
  /\ disk' = WriteAt(disk, handler[a].written + 1, handler[a].v)
  /\ handler' = [handler EXCEPT ![a].written = @ + 1]
  /\ disturbed' = (disturbed \/ a < newest)
  /\ Outdate
  /\ UNCHANGED <<registered, connected, inbox, clientVars, newest>>

\* Read() returns false: all chunks were sent and written, or the connection
\* broke.  Without any message: INVALID_ARGUMENT, "No file data received".
EndOfStream(a) ==
  /\ handler[a].pc = "read"
  /\ handler[a].written = Chunks \/ ~handler[a].up
  /\ handler[a].opened => handler[a].written > 0

\* Mutation: a handler that hears of the broken connection gives up.
ReadEndChecked(a) ==
  /\ EndOfStream(a)
  /\ handler' = IF handler[a].opened /\ handler[a].up
                THEN [handler EXCEPT ![a].pc = "callback"] ELSE Done(a, "error")
  /\ UNCHANGED <<disk, registered, readerVars, clientVars, history>>

ReadEnd(a) ==
  /\ EndOfStream(a)
  /\ handler' = IF handler[a].opened
                THEN [handler EXCEPT ![a].pc = "callback"] ELSE Done(a, "error")
  /\ UNCHANGED <<disk, registered, readerVars, clientVars, history>>

\* Mutation: without an entry, the callback locks file_map_mutex once more.
CallbackSelfLock(a) ==
  /\ handler[a].pc = "callback" /\ registered # {}
  /\ inbox' = [r \in Reader |-> IF r \in registered \cap connected
                                THEN inbox[r] + 1 ELSE inbox[r]]
  /\ handler' = Done(a, "ok")
  /\ UNCHANGED <<disk, registered, connected, copy, clientVars, history>>

\* file_change_callback_close(), and OK.  (Without an entry in file_map, after
\* a restart, the uploading client is entered there and nobody is told.)
Callback(a) ==
  /\ handler[a].pc = "callback"
  /\ inbox' = [r \in Reader |-> IF r \in registered \cap connected
                                THEN inbox[r] + 1 ELSE inbox[r]]
  /\ handler' = Done(a, "ok")
  /\ UNCHANGED <<disk, registered, connected, copy, clientVars, history>>

Handler(a) ==
  \/ OpenFile(a) \/ WriteChunk(a) \/ ReadEnd(a) \/ Callback(a)

-----------------------------------------------------------------------------
(***************************************************************************)
(* The readers, which do not have the file open when they are told of a    *)
(* change: RunSubscriber throws the notification away if they have.  That, *)
(* and what a reader does whose stream is down, is the subject of AFS.     *)
(***************************************************************************)
\* Mutation: open() does not register the client.
FetchUnregistered(r) ==
  /\ r \in connected /\ copy[r] = "none"
  /\ copy' = [copy EXCEPT ![r] = "current"]
  /\ UNCHANGED <<disk, registered, handler, connected, inbox, clientVars, history>>

Fetch(r) ==
  /\ r \in connected /\ copy[r] = "none"
  /\ copy' = [copy EXCEPT ![r] = "current"]
  /\ registered' = registered \cup {r}
  /\ UNCHANGED <<disk, handler, connected, inbox, clientVars, history>>

Receive(r) ==
  /\ r \in connected /\ inbox[r] > 0
  /\ inbox' = [inbox EXCEPT ![r] = @ - 1]
  /\ copy' = [copy EXCEPT ![r] = "none"]
  /\ UNCHANGED <<serverVars, connected, clientVars, history>>

-----------------------------------------------------------------------------
(***************************************************************************)
(* What may go wrong at any time.                                          *)
(***************************************************************************)
\* The connection of the upload in progress is lost, or its answer is.
Break ==
  /\ call.pc \in {"send", "finish"} /\ handler[attempts].up
  /\ handler' = [handler EXCEPT ![attempts].up = FALSE]
  /\ UNCHANGED <<disk, registered, readerVars, clientVars, history>>

\* The server cannot be reached for the rest of the call: the attempts that are
\* left fail without a handler.
Unreachable ==
  /\ call.pc = "try" /\ call.tries < MaxTries
  /\ call' = [call EXCEPT !.tries = MaxTries]
  /\ UNCHANGED <<serverVars, readerVars, history, version, dirty, streams, attempts>>

\* The client's process ends, and with it all it knew; its cache directory is
\* never used again.
Crash ==
  /\ call.pc # "crashed"
  /\ call' = [Idle EXCEPT !.pc = "crashed"]
  /\ dirty' = FALSE /\ streams' = "no"
  /\ handler' = IF attempts = 0 THEN handler
                ELSE [handler EXCEPT ![attempts].up = FALSE]
  /\ UNCHANGED <<disk, registered, readerVars, history, version, attempts>>

\* A new server process has empty maps, and nobody's notification stream; only
\* a restart that some reader notices is a step.
Restart ==
  /\ connected # {}
  /\ connected' = {} /\ registered' = {}
  /\ inbox' = [r \in Reader |-> 0]
  /\ handler' = [a \in Attempt |->
                   IF handler[a].pc = "none" THEN NoHandler
                   ELSE [NoHandler EXCEPT !.pc = "done"]]
  /\ UNCHANGED <<disk, copy, clientVars, history>>

Caller   == Open \/ WriteFile \/ WriteFails \/ CloseClean \/ CloseFlush
Continue == StartUpload \/ SendChunk \/ SendFails
            \/ FinishOK \/ FinishFailed \/ GiveUp \/ CloseReturn

Fault == Break \/ Unreachable \/ Crash \/ Restart \/ \E a \in Attempt : OpenFails(a)

Next ==
  \/ (Caller \/ Continue) /\ UNCHANGED faults
  \/ \E a \in Attempt : Handler(a) /\ UNCHANGED faults
  \/ \E r \in Reader : (Fetch(r) \/ Receive(r)) /\ UNCHANGED faults
  \/ Fault /\ faults' = faults + 1 /\ faults' <= MaxFaults

\* The thread in close_file(), the handler threads and the subscriber threads
\* run; callers and faults need not come.
Fairness == /\ WF_vars(Continue /\ UNCHANGED faults)
            /\ \A a \in Attempt : WF_vars(Handler(a) /\ UNCHANGED faults)
            /\ \A r \in Reader : WF_vars(Receive(r) /\ UNCHANGED faults)

Spec == Init /\ [][Next]_vars /\ Fairness

-----------------------------------------------------------------------------
\* A handler that has changed the file and has not told the readers yet.
Changing(a) == handler[a].opened /\ handler[a].pc # "done"

(***************************************************************************)
(* A connected reader whose copy is not the server's file has a            *)
(* notification to read, or a handler is still to send one: also when the  *)
(* upload fails half-way, its client dies, or its handler is overtaken by  *)
(* the handler of the next attempt.                                        *)
(***************************************************************************)
ChangeIsAnnounced ==
  \A r \in connected :
    copy[r] = "stale" => inbox[r] > 0 \/ \E a \in Attempt : Changing(a)

(***************************************************************************)
(* "@return true if the file was successfully closed (and flushed, if      *)
(* needed)" (filesystem_client.hpp): the last modification is on the       *)
(* server, or it is marked in the cache of the client, in an entry that a  *)
(* later close_file() finds.  The one thing that can undo an upload that   *)
(* was answered is the handler of an attempt given up before.              *)
(***************************************************************************)
ModificationIsKept ==
  \/ disk = Full(version)
  \/ dirty /\ streams # "no"
  \/ disturbed
  \/ call.pc = "crashed"

(***************************************************************************)
(* What an interrupted upload leaves is the beginning of one version of    *)
(* the file: never a mixture of the old content and the new, unless the    *)
(* handler of an attempt given up before writes into it.                   *)
(***************************************************************************)
FileIsOneVersion ==
  disturbed \/ \E v \in Version : \A k \in DOMAIN disk : disk[k] = v

(***************************************************************************)
(* close_file() returns, whatever is lost: three attempts, each answered   *)
(* or broken, and no handler waits for another.                            *)
(***************************************************************************)
CloseReturns == []<>(call.pc \in {"idle", "crashed"})

(***************************************************************************)
(* A reader that stays connected gets rid of an outdated copy, although    *)
(* the upload that made it so may have failed for the client.              *)
(***************************************************************************)
StaleCopyIsDropped ==
  \A r \in Reader : []<>(r \in connected => copy[r] # "stale")
=============================================================================
