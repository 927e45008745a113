# Distributed_Filesystem in TLA+

A verification development of the AFS-like distributed file system of this
repository: TLA+ modules of the server, of the caching clients and of the callback
channel between them, TLC runs on small instances, and TLAPS proofs of every safety
property and both refinements for any number of clients, files, threads and faults.

Line numbers refer to `src/Basic_Operation/`: `server` =
`server_code/filesystem_server.cpp`, `client` = `client_code/filesystem_client.cpp`,
`subscriber` = `client_code/client_subscriber.hpp`. `PROJECT.json` gives, for each
definition, the lines it models.

## 1. The system

A client caches whole files. It fetches a file on `open()`, works on its local copy,
and sends a modified copy back on `close()`. The server remembers who fetched a file
(`file_map`) and, when somebody stores, renames or removes it, puts the file's name in
the notification queue of every other registered client. Each client has a
subscriber thread that reads this stream and drops cache entries.

| Component | State | Operations | Talks to |
|---|---|---|---|
| Server, file operations (`server`) | the files under `root_dir` | `request_dir`, `open`, `close`, `getattr`, `ls`, `mkdir`, `rename`, `unlink` | answers the clients; calls the callbacks |
| Server, callbacks (`server` 52-199) | `file_map`, `file_map_open` under `file_map_mutex`; `subscribers` under `subscriber_mutex` | `file_change_callback_close/rename/unlink`, `cleanup_client` | pushes into the queues |
| Server, subscription (`subscriber_handler.hpp`, `filesystem_server.hpp`) | a `NotificationQueue` per client, the monitor thread | `subscribe` | streams to the subscriber threads |
| Client, operations (`client`) | `cache`, `opened_files`, `cached_attr`, `file_mutexes`, the cache directory | `get_attributes`, `open_file`, `read_file`, `write_file`, `create_file`, `close_file`, `rename_file`, `truncate_file`, `delete_file`, `ls`, `mkdir` | synchronous RPCs |
| Client, subscriber thread (`subscriber`) | none of its own | `RunSubscriber` | erases from `cache` and `cached_attr` |
| Client, start and stop | the stub, the client id | constructor, destructor | `request_dir`, `subscribe` |
| FUSE layer (`src/FUSE`) | none | one client operation per callback | the client |
| Path resolution (`client`) | none | `resolve_server_path` and the key formats | all client operations |
| Dashboard (`GetStatus`, `src/Dashboard`) | none | read-only view of `clients_db`, `file_map_open` | the server |

### What is hard about it

The client maps and the server maps are guarded by mutexes that are *released between
the parts of one operation*, around each RPC and around each file access. So:

* registration, the read of `open()`, the truncation, the write and the callback of
  `close()` are separate steps of different handlers, and the notification travels
  separately from the reply of the RPC;
* the subscriber thread erases entries between two sections of an operation that
  looked at them;
* the stream may break and is never reopened; the server learns of it later;
* `rename` re-keys maps on both sides in several steps, for a folder all keys below it;
* the handlers of FUSE run in several threads, which meet in the per-file mutexes that
  `close_file` and `delete_file` erase while others wait for them;
* an upload is a stream of chunks, repeated up to three times, and the server's handler
  of an attempt the client has given up goes on with what it has received;
* the notification channel of a client is a queue with a condition variable, read by
  one thread, watched by a second and filled by all others under two further mutexes.

`PROJECT.json` lists each such hazard at its line, with the properties that would catch
it going wrong, or why none does yet.

### What makes each component correct

* *Server file operations*: every call is answered; a stored file is what the client sent.
* *Callbacks*: the map names everybody who has the file; nobody's invalidation is lost
  by an order of registration, read, write and callback.
* *Subscription*: a connected client gets every notification, in order; after a break
  the server forgets the client.
* *Client operations*: a modification is never lost before it is stored; an operation
  finds its entry as it left it; every call returns.
* *Subscriber thread*: a stale copy does not survive its notification; a modified file
  is never dropped.
* *Path resolution*: client and server build the same key for one file.
* *Upload*: after a failure the modification is on the server or still marked; what the
  server has is one version, and the others are told of it.

## 2. The modules

| Module | What it is |
|---|---|
| `AFSState` | constants, all variables, the record of a call in progress, `TypeOK` parts, the initial state |
| `AFSServer` | one action per atomic section of each server handler, the subscription and its end |
| `AFSClient` | one action per atomic section of each client operation, and the subscriber thread |
| `CoherentCache` | the abstract specification: a copy not withdrawn is the server's file |
| `AFS` | the composition, its fairness, the history variable `missed`, all properties |
| `MCAFS`, `MCNamespace` | instances for TLC: operation sets, symmetry, the bound on calls |
| `Upload` | `close_file()` and the server's `close()` chunk by chunk, over RPCs that fail: retries, handlers that outlive their attempt, crash, restart |
| `ClientThreads` | one client's operations on one file in several threads, with its mutexes, and the subscriber thread |
| `NotificationChannel` | the abstract specification of the callback channel: one FIFO per client |
| `Notifier` | the channel in detail: queue, condition variable, monitor thread, cleanup, the locks of the callbacks |
| `Folders`, `MCFolders` | one client and the server's tree of folders: every operation on names; the instance for TLC |
| `AFSTypeProof` | proof of type correctness |
| `AFSUnflushedProof` | proof that unsaved modifications are safe, for all operations |
| `AFSSharingProof` | proof that sharing loses no notification inside the server |
| `AFSCoherentProof` | proof that sharing implements `CoherentCache`, and of what polite callers get |
| `UploadProof` | proofs of the safety properties of `Upload`: what failed and repeated uploads keep |
| `NotifierProof` | proof that the server's threads implement `NotificationChannel` |
| `ClientThreadsProof` | proof of what the mutexes of a client protect, for any number of threads |
| `FoldersProof` | proof that the maps of a client name its files in any finite tree of folders |

`AFS` is the composition of server, clients and channel. Each of the other four looks
closer at one thing `AFS` takes as simple: `Upload` at the RPC of `close`,
`ClientThreads` at the one operation per client, `Notifier` at the channel, `Folders` at
the flat names. Only for the channel is the simple form shown to be implemented by the
detailed one (`ImplementsChannel`); for the three others the detailed module states its
own properties.

### How state and actions correspond to the code: AFS

| Model | Code |
|---|---|
| `disk` | the files under `root_dir` |
| `file_map`, `file_map_open`, `clients_db` | the members of these names; `{}` is "no entry" |
| `subscribers` | the keys of `subscribers` |
| `mapLocked` | a handler has deadlocked on itself while holding `file_map_mutex` |
| `queue`, `stream` | the `NotificationQueue` and the gRPC stream behind it, one FIFO; `new`: the request is on its way, `down`: broken |
| `cache[c][p]` | entry of `cache`: none, clean, or dirty (`locally_modified`) |
| `local[c][p]` | the file in the cache directory |
| `opened[c][p]` | entry of `opened_files` and what its streams refer to: the file now at that name, one removed or replaced since (`detached`), nothing (`closed`), nothing and with the fail bit set by a second `close()` of the streams (`failed`) |
| `mutexes[c]` | the keys of `file_mutexes` |
| `cached_attr` | the attributes, reduced to the size |
| `op[c]` | the operation in progress. A synchronous RPC blocks its caller, so one program counter walks the client's function and the server's handler |
| `written` | the last content `write_file` produced, for fresh contents |
| `missed` (in `AFS`) | history, read by nothing: the files of which a client has missed a change for good |

An operation is cut wherever another process can come in between with an effect:
at each RPC, between locked sections, between file accesses of a handler. `open_file()`
is `OpenMiss` (client 126-165), `OpenRegister`, `OpenRead` (server 306-358),
`OpenReturn` or `OpenFailed`, `OpenInstall`; `close_file()` is `CloseFlush`,
`CloseTruncate`, `CloseWrite`, `CloseNotify`, `CloseReturn`; `rename_file()` is
`RenameFile`, `RenameMaps`, `RenameMove`, `RenameNotify` (or `RenameSelfLock`),
`RenameReturn`. Sections that are joined have a comment in the module that says why
nothing is lost: for instance the two locked sections of `open()`.

### The detailed modules

**`Upload`** (client 605-763, server 361-432). One client modifies a file, readers have
it in their caches. `version` is the content of the local file; `disk` is the sequence
of versions the chunks on the server come from. `handler[a]` is the server's handler of
the a-th attempt: `OpenFile` (create or truncate on the first chunk), `WriteChunk` (at
the stream's own offset), `ReadEnd` (the handler does not ask why `Read()` was false),
`Callback`. The client's part is `StartUpload`, `SendChunk`, `SendFails`, `FinishOK` or
`FinishFailed`, `GiveUp`, `CloseReturn`. `streams` follows the `fstream`s through a
`close_file()` that failed: closed, then with the fail bit set. Faults: a connection or
an answer is lost (`Break`), the server cannot be reached, it cannot open the file, the
client's process ends, the server is restarted (all maps empty, all streams down). The
history variable `disturbed` records that the handler of an older attempt has touched
the file after a newer one opened it.

**`ClientThreads`** (client, all operations on a file but rename and truncate). `cache`,
`opened`, `file_mutex` are the entries of the three maps for one file, `cache_mutex` its
holder where a section is more than one step, `thread[t]` the operation of a thread, the
mutex object it holds a `shared_ptr` to, and what it keeps of `opened_files`: an
iterator (`node`, in `read_file` and `write_file`) or stream pointers (`streams`, in
`close_file`). Erasing or replacing the entry makes these `stale`; using one that is
stale sets `undefined`, after which nothing is claimed. Streams that were closed twice
have their fail bit set (`failed`), as in `AFS`; `create_file` may fail at its last step
(`CreateStat`) and leaves its entries behind. A mutex that was erased and created again
is another object, so two threads may each hold "the" mutex of the file. Another client
may store or remove the file at any time (`Change`), so a download may fail, upon which
`open_file` removes the local file. Three history variables record which operations have
overlapped, and `removed` that such a failure took the file away under streams that are
open.

**`Notifier`** (server 80-216, `filesystem_server.hpp` 21-49, `subscriber_handler.hpp`).
`queue` and `shutdown` are the `NotificationQueue`, `handler` the thread in
`subscribe()` (`Pop`, `Write`, then the three sections of `cleanup_client`), `monitor`
the detached thread, `rpc` the handlers of `open`, `close`, `unlink` with the locks they
take, `link` and `wire` the stream. Once the handler has returned, what the monitor
reads from the context is arbitrary. Under the refinement mapping a callback happens
when it holds both mutexes, and a cleanup when it leaves `file_map`.

**`Folders`** (client and server, all operations on names, with the guards of the lookup
FUSE does first). `server` and `local` are trees: functions from paths to a file number,
a folder or nothing. An operation is one step, since there is one client and it does one
thing at a time. `UpdateMapKeys` is the client's `update_map_keys`, `MoveTree` is
`std::filesystem::rename`, `RenameServer` the handler, which answers NOT_FOUND to every
error. The history variables name the two exceptions of the properties: `refused` and
`shadowed`.

### Abstractions

In `AFS`, unless another module is named:

* A file is a model value; all files are regular files directly under the root. At the
  root the resolved path of a local file ends with `/`, which is why `truncate_file`
  finds a file there. Folders are in `Folders`, without `truncate_file`, which builds
  another key there.
* The content of a file is one number, fresh for each `write_file`; 0 is the empty file,
  `None` no file. Its size is identified with it, so `cached_attr` can tell an old size
  from the present one.
* A file is transferred in one read and in one truncation plus one write, whatever its
  number of 4096-byte chunks. An `open()` that reads between the two gets the empty
  file, the stand-in for every half-written state. In `Upload` a file has chunks, and
  there a reader's `open()` is one step.
* `read_file` changes nothing and is no action; what it would return is `local`.
* One operation at a time per client, as the test programs run it or a mount with `-s`.
  `fuse_main` is called without that flag: several at a time are in `ClientThreads`, for
  one file and with the server reduced to the content it has.
* RPCs are reliable: the call gets its answer. Streams break. RPCs that fail are in
  `Upload`.
* Reads and writes go on in the same `fstream` as long as the file is open; a rename
  onto or removal of the local file detaches them.
* `rename` of a file to itself is left out (FUSE never passes it on).
* Queue and stream are one FIFO, and `cleanup_client`'s three locked sections one step:
  `ImplementsChannel` justifies both.
* `Notifier` has one file, and a client subscribes once: its id is a fresh uuid.
* In `Folders` a file has a number, new with every write.
* Timestamps, error numbers, logging are left out.

## 3. Runs

| Run | Specification, instance | Question |
|---|---|---|
| `sharing` | `FairSpec`; 2 clients, 1 file, 3 contents; open, write, close, broken streams | are types kept; does `file_map` name everybody who has a file; is every stale copy excused; does the protocol implement `CoherentCache`; does every call return; do copies become coherent once writing stops |
| `polite` | `PoliteSpec`; 3 clients, 1 file, 2 contents | if nobody opens a file another has open, is every open file current, and is a client told of each change of what it has cached |
| `namespace` | `MCSpec`; 2 clients, 2 files, 2 contents, 4 calls; all operations but getattr and disconnect | who takes the mark off a modification, and is an operation's entry changed under it |
| `upload` | `Upload`; 1 reader, 2 chunks, 2 attempts a call, 3 versions, 2 faults | what do failed and repeated uploads leave on the server, in the client, with the reader |
| `threads` | `ClientThreads`; 2 threads, 6 calls | which overlaps of operations do the mutexes make safe; does every operation return |
| `notifier` | `Notifier`; 2 clients, 2 calls | is every notification delivered, every broken client forgotten; can the locks deadlock; is it a FIFO |
| `folders` | `MCFolders`; paths a, ab, a/b, ab/b; 1 file created or written beside the initial ones | do the maps of the client keep naming its files and the server's |
| `stale_open` | `SubscribedSpec`; violation | README.md:10, "instantly notifies other subscribed clients to invalidate their local caches" |
| `rename_registers` | `Spec`; violation | server:143, "just register the new_path with the client" |
| `rename_watchers` | `SubscribedSpec`; violation | `filesystem_server.hpp`:59, the list of clients that have the file in cache |
| `rename_mutex` | `Spec`; violation | client:879, "Update all client structures" |
| `truncate_mark` | `Spec`; violation | `filesystem_client.hpp`:23, what `locally_modified` means |

**`sharing`.** `CachedIsRegistered` relates a client's cache to the server's map across
`open()`; `StaleIsExcused` says that a connected client's copy differs from the server's
file only while the notification is queued, or a `close()` is between truncation and
callback, or the client missed it. "Missed" is exactly two events: the client threw the
notification away (`Dropped`, subscriber:34-37 and 42-46), or it was registered without
a queue, its `subscribe()` not yet received. So no *other* order loses one.
`ImplementsCoherentCache` says the same as a refinement: the copies that are not excused
form a coherent cache, and a step that changes a file withdraws all of them at once.

Under the fairness below, `CallsReturn`: retries are bounded and no handler waits for
another client; `EventuallyCoherent`: every copy that missed nothing is in the end the
server's.

**`polite`.** The comment at subscriber:28 takes for granted that "two clients can't
open the same file at the same time". Nothing in the code enforces it. `PoliteSpec`
constrains the callers, not the code, to respect it and to have read their
notifications; then `OpenIsCurrent` and `NothingMissed` hold. The second is about
connected clients and what they have in their caches: a client whose entry was dropped
stays registered, and may throw away the next notification of a file it no longer has.
Together with `stale_open` this says what the callback protocol is good for.

**`namespace`.** Every operation, renames and removals on both sides included. An
unsaved file stays open; what `close()` sends stays in the local file until the reply.
`UnflushedSurvives` says of every step that takes the mark off which one it is: the
client's own `close()` on an OK answer, which has stored this very content (`StoredBy`);
its own rename, which takes the mark to the new name or replaces the file
(`RenamedBy`); its own unlink (`UnlinkedBy`). One step of the subscriber thread is among
them: between the two sections of `create_file` it may drop the entry of a file that is
still empty (`UnwrittenYet`). With `OpenIsUsable` violated (section 5), that the file is
open does not mean that `close_file()` can store it.

**`upload`.** `ChangeIsAnnounced` and `StaleCopyIsDropped`: a reader learns also of an
upload that failed for the client, because the handler takes the end of a broken stream
for the end of the file and runs the callback. `ModificationIsKept`: after any failure
the last version is on the server or still marked in an entry a later `close_file()`
finds. `FileIsOneVersion`: what is on the server is a beginning of one version. Both
have one exception besides the death of the client, `disturbed`, which TLC shows to be
needed: the handler of an attempt given up writes into the file after a later attempt
was answered.

**`threads`.** `UploadIsAlone` is what the comment at client:644 promises. TLC shows
that it fails when a close or delete, or an open and a create, of one file overlap with
another: threads then hold different mutexes, since entries are erased and replaced by
their key, whoever made them. `ModificationIsMarked`: a successful write stays in the
file and marked until it is uploaded, except where opens, or a use and a close or
delete, overlap. Each exception is needed; without any of them the property fails.
`OperationsReturn`: no operations wait for each other, although `delete_file` waits for
a file's mutex and others for `cache_mutex` while they hold one. A third exception of
`ModificationIsMarked` is `removed`, see section 5.

**`notifier`.** `PushedIsRead`: no notification is lost between the test of `pop()` and
its sleep, nor between `pop()` and `Write()`: each one in a queue is read by
`RunSubscriber`, unless the stream breaks. `BrokenIsForgotten`: the monitor ends every
subscription whose stream broke, although it may read a context that is gone.
`CallbacksReturn`: three mutexes are taken in one order by all. `ImplementsChannel` is
the refinement of section 2.

**`folders`.** `CleanIsServers`: under every path, what is cached and unmodified is the
server's file of that path. `DirtyHasItsFile`: a modified file keeps its local file and
its open entry under one path. `DirtyCanBeStored`: a `close_file()` of it that finds its
mutex does not fail half way, the server having a place for the file also when `rmdir`
has removed its folder; after a rename the mutex is missing and `close_file()` refuses
(section 5, 4). `SeenExists`: the cached attributes, which are never compared again, are
of things that exist. The exceptions are a rename the server refused and the client
takes for success (`refused`), and a rename of something not cached onto something
cached (`shadowed`). A folder is in nobody's `file_map`, so that every rename of one the
server accepts ends in the self-lock (section 5, 2): it is the last step of a behaviour
(`hung`), and the properties say what it leaves. Behaviours go on after renames of files,
and of folders only the client has.

### Bounds

In `sharing`, `polite` and `namespace`, two clients are a writer and a reader, or two
writers; each property is about one client's entry and the calls of the others, which
influence it only through `disk[p]`, `file_map[p]` and its queue. `polite` uses three,
so that two may wait for one. Contents 1..3 give the initial file and two different
writes, hence an old copy, a newer one and the newest. `namespace` has two files,
because a rename needs a source and a target, and bounds the number of multi-step calls
by 4 (create, close, rename and one interfering call). Symmetry is used in `polite` and
`namespace`, which check no liveness. The proofs of section 4 do away with the bounds
for all safety properties of all passing runs; what the instances decide alone is
liveness.

`upload`: two chunks make a half-written file, two attempts (three in the code) a retry
and a call that gives up, two faults a failure during the recovery from one; three
versions let a later call follow a failed one. `threads`: two threads are an operation
and the one that overlaps it; six calls, from a file that is closed or open, are enough
to erase a mutex, make a new one and erase that (1.5 million states). `notifier`: with
an arbitrary `file_map` to begin with, two calls put two notifications into one queue,
or make callback and cleanup of two clients meet. `folders`: two folders, each with a
file, one of which begins like the other, so that re-keying `a` must leave `ab` and
`ab/b` alone; a second new file was checked once for the first four properties (2.9
million states), and paths three deep for all (4.9 million).

Deadlock is checked in `sharing`. It is switched off where the system may stop: `polite`
(after all streams are broken nobody may open), `namespace` (the bound on calls; the
self-lock of rename), `upload` (the client has ended, or the bounds), `threads` and
`notifier` (the bound on calls), `folders` (the client waits for the self-lock of
rename), and some violation runs. The liveness properties of those runs say that nothing
stops in the middle.

### Fairness

`FairSpec` assumes weak fairness of the server's handlers (`Server`), of a client that
has started an operation (`Continue`), of the arrival of `subscribe()` (`Connect`), and
of the subscriber thread (`Subscriber`). Each is a thread of its own, enabled until it
acts: a handler thread of gRPC, the thread blocked in the RPC, the thread of
`RunSubscriber`. No fairness is assumed of callers, nor of streams breaking, nor of
`Cleanup`. `file_map_mutex` appears only as held for ever (`mapLocked`) or held inside a
step; so weak fairness does not hide a starving lock.

`Upload`, `ClientThreads` and `Notifier` state theirs in the same way: weak fairness of
each thread that is inside an operation or a handler, of the subscriber threads and the
monitor. `Notifier` adds that the transport learns of a broken connection (`Notice`), as
gRPC's keepalive or the closed socket does. Calls, faults and spurious wake-ups need not
come. In `ClientThreads` and `Notifier` mutexes are held across steps: a thread that
waits for one has weak fairness only, which is enough because the bound on calls lets
every lock become free for good.

### Mutants

Each property of a passing run has a mutant: a plausible bug (a registration that only
records the first client, a callback that consults `file_map_open`, a retry that is not
counted, an entry erased before the upload has been answered, ...), defined next to the
code it replaces and marked "Mutation". TLC finds the property violated for each.

## 4. Proofs

Every safety property of a passing run, and both refinements, are proved for arbitrary
values of the constants: any number of clients, files, contents, threads, readers,
chunks, attempts, faults, folders. The assumptions are those named in the modules:

* `AFSState`: `None` is neither a path nor a number, the bound on contents is positive,
  `Ops` are known operations. The theorems about files that "are only shared" assume
  `Ops \subseteq SharingOps` besides (everything but create, rename, unlink and
  truncate); each says so in its statement.
* `Upload`, `Notifier`, `ClientThreads`: bounds are natural numbers, `Nobody` and
  `NoThread` are nobody; the threads are finitely many, since otherwise a mutex that is
  new might not exist.
* `Folders`: the paths are finitely many sequences of names, with all their parents.

For each module there is an inductive invariant, a conjunction of named parts; one lemma
per action or per group of actions says that it is kept, and lemmas on what a step
leaves alone keep the cases few. TLC has checked each of these invariants too, on the
instance of the run.

### `AFS`

* **`TypeCorrect`**: `Spec => []TypeOK`. One lemma per way the call record changes, one
  case per action.
* **`UnflushedFilesAreOpen`, `CallsOwnTheirEntries`, `UnflushedWritesSurvive`**, with
  all operations. The inductive invariant `UnflushedInv` has, per client, the
  conjunction `OwnOK`: the two invariants, which are proved together, and that a file
  being created is empty until its streams are entered. That a notification cannot erase
  what `close()` is sending follows from the file being open, and that a fetched copy
  does not overwrite a modified one follows from the fetch being for a file that is not
  cached. The third theorem is an action property, proved under `OwnOK` with one lemma
  per group of steps that may take a mark off (`UnmarkedBy...`): that `close()` has
  stored the very content the mark was for is the second invariant, and that a
  notification finds a marked file that is not open only in `create_file`, and empty, is
  the first with the last part of `OwnOK`.
* **`RegistrationCovers`, `StaleCopiesAreExcused`**, when files are only shared. The
  inductive invariant `SharingInv` adds to the two properties
  - `MissedOK`, the shape of the history variable;
  - `ShapeOK`: only sharing calls are in progress, a `close()` that is writing writes to
    the file it truncated, and a client whose `subscribe()` has not arrived has no
    queue.

  It is kept together with `UnflushedInv`: that the content in a call's request or reply
  is the one its cache entry will have is needed for `StaleIsExcused`, and
  `CachedIsRegistered` is what makes the callback of `close()` reach every copy. The
  assumption is needed: with rename, `QuietIsRegistered` fails (run `rename_watchers`).
* **`CopiesAreCoherent`**: when files are only shared, `AFS` implements `CoherentCache`.
  The invariant is `CoherentInv`: what is known so far and `FlushDataOK`, that what
  `close()` sends is a content. Under the mapping the truncation is the abstract
  `Change`, which withdraws all copies at once: from this step on every copy of another
  client is announced, queued or missed (`AnnouncedServer`). The write of the new
  content is another `Change`, of a file of which nobody has a copy that counts
  (`NoCopyStored`); the replies of `open()` and `close()` are a `Fetch`. The callback
  brings no copy back, since who has the file is told or misses it (`NoCopyNotified`),
  nor does a notification, which ends an announcement and the copy together or, thrown
  away, leaves a copy that missed a change. All other steps only withdraw copies.
* **`PoliteOpenIsCurrent`, `PoliteNothingMissed`**: for `PoliteSpec`, when files are only
  shared. `OpenIsCurrent` says nothing of clients about to have a file open, so the
  invariant `PoliteInv` speaks of everybody that is *using* it, from the request of
  `open()` to the reply of `close()`:
  - `AloneOK`: who uses a file uses it alone, and has no notification of it in its queue;
  - `UnmissedOK`: what a connected client has cached or read, it has missed no change of;
  - `CurrentOK`: whatever a user holds of the file, clean in its cache, in the reply of
    `open()` or stored by its `close()`, is what is on the server;
  - `SubscribedOK`, `FlushedIsOpen`: the states of the stream and of `close()` in which
    the others are needed.

### The detailed modules

* **`Upload`**: `UploadTypes`, `UploadIsAnnounced`, `UploadIsKept`, `UploadIsOneVersion`.
  `ModificationIsKept` is not inductive, because it does not say which handlers may
  still write. `UploadInv` adds `KeptOK` (once an upload has been answered, only handlers
  of attempts given up before are at work), `NewestOK` (the last handler that opened the
  file alone decides what is in it), `HandlersOK` (a handler whose connection is up
  reaches its callback only when it has written all chunks), `CallOK` (the attempt in
  progress sends the version the local file has), `RegisteredOK`, and `CountOK`, by
  which the model's attempts suffice for its faults.
* **`Notifier`**: `NotifierTypes`, `NotifierServesQueues`, `NotifierIsChannel`.
  `NotifierInv`: who holds a mutex and in which order (`MutexOK`), that the clients a
  callback has yet to tell stay in both maps meanwhile (`TodoOK`), that the entries of a
  client come and go with its handler, section by section of `cleanup_client`
  (`EntriesOK`), that nobody is cleaned up whose stream is up (`DownOK`). The refinement
  is proved step by step: a callback is one abstract step when it takes
  `subscriber_mutex`, and what it pushes one by one after that is already in the
  abstract queue, since the mapping appends the notification to the queue of everyone
  in `todo`; `pop` and `Write` move a notification along one FIFO; everything else is a
  stutter.
* **`ClientThreads`**: `ThreadsTypes`, `ThreadsUploadAlone`, `ThreadsModificationMarked`.
  `ThreadsInv`: an erased entry of `opened_files` leaves nobody a live reference to it,
  and where closes, deletes, opens and creates have not met, the mutex a thread has
  found is still the one in the map (`FoundOK`) and has one holder (`LockOK`);
  `MarkedOK` says for each step of each operation where a modification is; `AloneOK`
  ties the history variables to the operations in progress; `CountOK` bounds handles
  and writes by the calls, which type correctness needs.
* **`Folders`**: `FoldersTypes`, `FoldersClean`, `FoldersDirtyHasFile`,
  `FoldersDirtyStored`, `FoldersSeen`, for trees of any depth. `FoldersInv` is, for every
  path, `OpenOK` (the three maps agree), `EntryOK` (an entry has its local file) and
  `SeenOK`. `DirtyCanBeStored` and `SeenExists` need the last of these: that a cached
  path was seen to be a file, that a file the server lacks is modified here, and that a
  folder here is no file there. The lemmas are about the paths (`MovedUnder`,
  `MovedOrder`: a renamed tree keeps its shape; `MovedTree`: what results is a tree) and
  about rename: if the server did not refuse, nothing below the target was there, or
  seen, or cached (`NothingSeenBelow`), so that re-keying merges no two entries.

### What the proofs found

* `ModificationIsMarked` used to hold for want of an event: the module did not let
  another client create or remove the file (`Change`). With it the property needs the
  exception `removed`, and the proof needed no other.
* `Folders` used to assume of paths that each has its immediate parent; the proofs use
  all of them, which says the same, but would take an induction to see.

### Only model-checked

Liveness, which TLAPS cannot do under fairness: `CallsReturn`, `EventuallyCoherent`,
`CloseReturns`, `StaleCopyIsDropped`, `OperationsReturn`, `PushedIsRead`,
`BrokenIsForgotten`, `CallbacksReturn`. The properties of the violation runs are refuted
on their instances, which is all there is to show.

## 5. Where the code and its comments disagree

1. **A dropped notification leaves a stale file for good** (`stale_open`). A notification
   for a file that is open is thrown away; after the `close()` the old copy is a valid
   cache entry, never compared with the server again.
2. **The rename callback locks its mutex twice** (`rename_registers`). Renaming a file
   nobody has opened hangs the handler, and with it every later `open()` and `close()`.
3. **A rename replaces the registrations of the file it replaces** (`rename_watchers`).
   Who has the replaced file in its cache is neither told nor registered any more: its
   old copy stays valid, and it hears of no later change. The same assignment discards a
   client that opens the new name between the move and the callback.
4. **The mutex of a renamed open file stays under the old name** (`rename_mutex`), and
   `read_file`, `write_file` and `close_file` fail.
5. **`truncate_file` changes a local file without marking it** (`truncate_mark`).

The exceptions in the properties of the detailed modules are observations of the same
kind. Nothing in the repository promises otherwise, so they are no violation runs; each is
reached when the exception is struck from the property:

* the handler of an upload attempt given up may overwrite the attempt that succeeded
  (`disturbed`);
* a close or delete that waited erases the mutex of a file that was opened again
  meanwhile, and a create replaces the one of an open beside it: a write then runs beside
  an upload (`erasersMet`, `openersMet`);
* an `open_file()` whose download fails removes the local file by its name (client:210),
  also when the file is open: if the entry is dropped after `create_file` has made the
  cache entry and before it has made the one of `opened_files`, or another client has
  removed the file, a later open fails and takes the file away under streams that go on
  accepting writes. These go nowhere (`removed`);
* a read or write that waits while its file is closed uses an iterator that was erased
  (`undefined`);
* a rename the server refuses with any error counts as success (`refused`): a folder
  onto a folder that is empty in the cache only, for instance;
* renaming something not cached onto a cached file removes the local file and keeps the
  entry (`shadowed`).

Two more, which no property is about: `unlink` of a folder that is not empty answers OK,
and the client forgets its attributes (a step of `DeleteFile`, harmless there);
`truncate_file` in a subfolder misses the `/` before the name (not modelled).

## 6. Not modelled

* `ls`, which changes no state; `truncate_file` in a folder.
* `resolve_server_path` and the key formats as string functions: `Folders` takes a path
  for all of them, and its header says why they agree.
* Data races on containers (`clients_db`, the iterator of `cached_attr` that
  `get_attributes` returns after its unlock, `file_map.erase(it)` after an insertion):
  below the level of these modules, listed as hazards where they bite.
* A failing `request_dir`; the read-only RPC and the web page of the dashboard; tests,
  build and deployment.
* Downloads over a broken RPC: `AFS` has the three attempts of `open_file`, with
  NOT_FOUND as the only failure; in `ClientThreads` a download may fail because the file
  is gone.

## 7. Plan

Done: all modules of section 2, and proofs of the safety properties and refinements of
all of them. Next, in order of importance:

1. **Registration with `create`** (in `AFS`): a creator that closes is registered only
   if the path has no entry (server:108). State what holds without rename; prove it.
2. **Downloads that fail part way** in `Upload`.
3. **Path resolution**: the string functions, checked over bounded names against the
   path they stand for.
