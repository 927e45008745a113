------------------------------- MODULE Folders ------------------------------
(***************************************************************************)
(* Folders: one client's cache directory and maps beside the server's file *)
(* tree, through every operation on names.  A path is the sequence of its  *)
(* names.  There is one client, which does one thing at a time: nothing    *)
(* comes between the parts of an operation, which is one step here.  What  *)
(* other clients and notifications do to a single file is AFS.             *)
(*                                                                         *)
(* The key of a file is built in four places from the same parts: cache,   *)
(* opened_files and file_mutexes have cache_directory + resolved path +    *)
(* '/' + name, cached_attr and file_map lack the first part, delete_file() *)
(* and RunSubscriber start from the whole path.  With a '/' between each   *)
(* two parts they agree, and a path stands for all of them.                *)
(***************************************************************************)
EXTENDS Integers, FiniteSets, SequencesExt, Functions

CONSTANTS Path,     \* sequences of names, with all parents
          MaxNew    \* bound: files created and versions written

\* The parts of paths; every folder above a path is a path.
Name == UNION {Range(p) : p \in Path}
ASSUME PathAssumption ==
  /\ IsFiniteSet(Path) /\ Path \subseteq Seq(Name) \ {<<>>}
  /\ \A p \in Path : \A n \in 1..Len(p) : SubSeq(p, 1, n) \in Path
ASSUME NewAssumption == MaxNew \in Nat

\* What is at a path: nothing, a folder, or a file, known by its number.
None  == -1
Dir   == 0
First == Cardinality(Path)
File  == 1 .. First + MaxNew

\* The file the server has at p in the beginning, if any.
Number == CHOOSE f \in [Path -> 1..First] : IsInjective(f)

VARIABLES
  server,       \* the tree under root_dir
  file_map,     \* the paths the client is registered for
  local,        \* the tree in the cache directory
  cache,        \* "none", "clean", "dirty"
  opened,       \* streams: "no"; of the file at that path: "live"; or "dead"
  file_mutexes,
  cached_attr,  \* "none", "file", "dir"
  used,         \* the highest file number so far
  hung,         \* the client waits for a handler that waits for itself
  \* history
  refused,      \* the server answered NOT_FOUND to a rename of what it has
  shadowed      \* cached paths onto which something was renamed that was not cached

entries == <<cache, opened, file_mutexes, cached_attr>>
history == <<refused, shadowed>>
vars == <<server, file_map, local, entries, used, hung, history>>

Under(q, p) == IsPrefix(p, q)
Below(q, p) == Under(q, p) /\ q # p
IsFile(t, p) == t[p] \in File

\* The folders a path is in, apart from the root, which is always there.
Above(p) == {q \in Path : Below(p, q)}
InFolder(t, p) == \A d \in Above(p) : t[d] = Dir
IsEmpty(t, p)  == \A q \in Path : Below(q, p) => t[q] = None

\* create_directories(), which fails if one of them is a file.
CanMakeFolders(t, p) == \A d \in Above(p) : ~IsFile(t, d)
MakeFolders(t, p)    == [q \in Path |-> IF q \in Above(p) THEN Dir ELSE t[q]]

TypeOK ==
  /\ server \in [Path -> {None, Dir} \cup File]
  /\ local \in [Path -> {None, Dir} \cup File]
  /\ \A p \in Path : /\ server[p] # None => InFolder(server, p)
                     /\ local[p] # None => InFolder(local, p)
  /\ file_map \subseteq Path /\ file_mutexes \subseteq Path
  /\ cache \in [Path -> {"none", "clean", "dirty"}]
  /\ opened \in [Path -> {"no", "live", "dead"}]
  /\ cached_attr \in [Path -> {"none", "file", "dir"}]
  /\ used \in 0 .. First + MaxNew
  /\ hung \in BOOLEAN /\ refused \in BOOLEAN /\ shadowed \subseteq Path

Init ==
  /\ server \in {t \in [Path -> {None, Dir} \cup 1..First] :
                   \A p \in Path : /\ t[p] \in {None, Dir, Number[p]}
                                   /\ t[p] # None => InFolder(t, p)}
  /\ file_map = {}
  /\ local = [p \in Path |-> None]
  /\ cache = [p \in Path |-> "none"]
  /\ opened = [p \in Path |-> "no"]
  /\ file_mutexes = {}
  /\ cached_attr = [p \in Path |-> "none"]
  /\ used = First
  /\ hung = FALSE /\ refused = FALSE /\ shadowed = {}

-----------------------------------------------------------------------------
(***************************************************************************)
(* FUSE looks a path up, component by component, before it calls anything  *)
(* else.  Seen(p): it was found, and is a folder or a file.                *)
(***************************************************************************)
Seen(p, k)   == cached_attr[p] = k
InSeen(p)    == \A d \in Above(p) : Seen(d, "dir")
Missing(p)   == cached_attr[p] = "none" /\ server[p] = None /\ InSeen(p)

GetAttributes(p) ==
  /\ cached_attr[p] = "none" /\ InSeen(p) /\ server[p] # None
  /\ cached_attr' = [cached_attr EXCEPT ![p] = IF server[p] = Dir THEN "dir" ELSE "file"]
  /\ UNCHANGED <<server, file_map, local, cache, opened, file_mutexes, used, hung,
                 history>>

\* make_directory() and the server's mkdir().
MakeDirectory(p) ==
  /\ Missing(p)
  /\ InFolder(server, p)
  /\ server' = [server EXCEPT ![p] = Dir]
  /\ UNCHANGED <<file_map, local, entries, used, hung, history>>

-----------------------------------------------------------------------------
\* open_file() of what is not cached: the server registers the client, and the
\* file is copied; the folder it is in is made in the cache directory.
OpenMiss(p) ==
  /\ Seen(p, "file") /\ cache[p] = "none" /\ server[p] # Dir
  /\ CanMakeFolders(local, p)
  /\ file_map' = file_map \cup {p}
  /\ LET t == MakeFolders(local, p) IN
     IF local[p] = Dir
     THEN /\ local' = t
          /\ UNCHANGED <<cache, opened, file_mutexes>>
     ELSE IF server[p] = None
     THEN /\ local' = [t EXCEPT ![p] = None]
          /\ UNCHANGED <<cache, opened, file_mutexes>>
     ELSE /\ local' = [t EXCEPT ![p] = server[p]]
          /\ cache' = [cache EXCEPT ![p] = "clean"]
          /\ opened' = [opened EXCEPT ![p] = "live"]
          /\ file_mutexes' = file_mutexes \cup {p}
  /\ shadowed' = shadowed \ {p}
  /\ UNCHANGED <<server, cached_attr, used, hung, refused>>

OpenCached(p) ==
  /\ Seen(p, "file") /\ cache[p] # "none" /\ opened[p] = "no" /\ IsFile(local, p)
  /\ opened' = [opened EXCEPT ![p] = "live"]
  /\ file_mutexes' = file_mutexes \cup {p}
  /\ UNCHANGED <<server, file_map, local, cache, cached_attr, used, hung, history>>

\* create_file(): in the cache only, until it is closed.
CreateFile(p) ==
  /\ Missing(p) /\ cache[p] = "none" /\ opened[p] = "no"
  /\ CanMakeFolders(local, p) /\ local[p] # Dir
  /\ used + 1 \in File /\ used' = used + 1
  /\ local' = [MakeFolders(local, p) EXCEPT ![p] = used + 1]
  /\ cache' = [cache EXCEPT ![p] = "dirty"]
  /\ opened' = [opened EXCEPT ![p] = "live"]
  /\ file_mutexes' = file_mutexes \cup {p}
  /\ cached_attr' = [cached_attr EXCEPT ![p] = "file"]
  /\ shadowed' = shadowed \ {p}
  /\ UNCHANGED <<server, file_map, hung, refused>>

\* write_file(): the number stands for the new content too.
WriteFile(p) ==
  /\ cache[p] # "none" /\ opened[p] # "no" /\ p \in file_mutexes
  /\ used + 1 \in File /\ used' = used + 1
  /\ local' = IF opened[p] = "live" THEN [local EXCEPT ![p] = used + 1] ELSE local
  /\ cache' = [cache EXCEPT ![p] = "dirty"]
  /\ UNCHANGED <<server, file_map, opened, file_mutexes, cached_attr, hung, history>>

\* close_file() of an unmodified file, or of one that is not in the cache.
CloseClean(p) ==
  /\ opened[p] # "no" /\ p \in file_mutexes /\ cache[p] # "dirty"
  /\ opened' = [opened EXCEPT ![p] = "no"]
  /\ file_mutexes' = file_mutexes \ {p}
  /\ UNCHANGED <<server, file_map, local, cache, cached_attr, used, hung, history>>

\* Mutation: the server does not call create_directories().
CanStoreInFolder(p) == InFolder(server, p) /\ server[p] # Dir

\* The server makes the folder the file is in, if it has none.
CanStore(p) == CanMakeFolders(server, p) /\ server[p] # Dir

CloseDirty(p) ==
  /\ opened[p] # "no" /\ p \in file_mutexes /\ cache[p] = "dirty"
  /\ IsFile(local, p) /\ CanStore(p)
  /\ server' = [MakeFolders(server, p) EXCEPT ![p] = local[p]]
  /\ file_map' = file_map \cup {p}
  /\ cache' = [cache EXCEPT ![p] = "clean"]
  /\ opened' = [opened EXCEPT ![p] = "no"]
  /\ file_mutexes' = file_mutexes \ {p}
  /\ shadowed' = shadowed \ {p}
  /\ UNCHANGED <<local, cached_attr, used, hung, refused>>

\* "Could not re-open file for flushing", or the server cannot store it: the
\* entry stays, with streams that have been closed.
CloseFails(p) ==
  /\ opened[p] # "no" /\ p \in file_mutexes /\ cache[p] = "dirty"
  /\ ~(IsFile(local, p) /\ CanStore(p))
  /\ opened' = [opened EXCEPT ![p] = "dead"]
  /\ UNCHANGED <<server, file_map, local, cache, file_mutexes, cached_attr, used,
                 hung, history>>

-----------------------------------------------------------------------------
(***************************************************************************)
(* rename_file() of p to q.                                                *)
(***************************************************************************)
\* q with the part under p below it, and back.
Moved(r, p, q) == q \o SubSeq(r, Len(p) + 1, Len(r))

\* Mutation: what is below p stays behind.
MoveTreeAlone(t, p, q) ==
  [r \in Path |-> IF r = q THEN t[p] ELSE IF r = p THEN None ELSE t[r]]

\* std::filesystem::rename(): p with all below it, in place of q.
MoveTree(t, p, q) ==
  [r \in Path |-> IF Under(r, q) THEN IF Moved(r, q, p) \in Path
                                      THEN t[Moved(r, q, p)] ELSE None
                  ELSE IF Under(r, p) THEN None ELSE t[r]]

\* Mutation: keys that continue with '/' are not looked for.
UpdateExactKey(m, none, p, q) ==
  [r \in Path |-> IF r = q /\ m[p] # none THEN m[p]
                  ELSE IF r = p THEN none ELSE m[r]]

\* An entry of p or below it, in m, becomes the entry of r.
Arrives(m, none, r, p, q) ==
  Under(r, q) /\ Moved(r, q, p) \in Path /\ m[Moved(r, q, p)] # none

\* update_map_keys(): what has no counterpart under p stays where it is.
UpdateMapKeys(m, none, p, q) ==
  [r \in Path |-> IF Arrives(m, none, r, p, q) THEN m[Moved(r, q, p)]
                  ELSE IF Under(r, p) THEN none ELSE m[r]]

\* Mutation: a folder is replaced with all it contains.
CollidesNever(q) == FALSE

\* "SAFETY CHECK: Destination Collision".
Collides(q) == local[q] = Dir /\ ~IsEmpty(local, q)

\* If p is cached, its file or folder takes the place of q in the cache
\* directory; else what is at q is removed all the same.
RenameLocal(p, q) ==
  LET gone == IF local[q] = None THEN opened
              ELSE [opened EXCEPT ![q] = IF @ = "live" THEN "dead" ELSE @]
  IN
  /\ local' = IF local[p] = None THEN [local EXCEPT ![q] = None]
              ELSE MoveTree(local, p, q)
  /\ cache' = UpdateMapKeys(cache, "none", p, q)
  /\ opened' = UpdateMapKeys(gone, "no", p, q)
  /\ cached_attr' = UpdateMapKeys(cached_attr, "none", p, q)
  /\ shadowed' = {r \in Path :
                    IF Arrives(cache, "none", r, p, q) THEN Moved(r, q, p) \in shadowed
                    ELSE /\ ~Under(r, p)
                         /\ r \in shadowed \/ (r = q /\ cache[q] # "none")}

\* rename() of the operating system refuses to replace a folder with content,
\* or a file by a folder or a folder by a file.
CanReplace(p, q) ==
  \/ server[q] = None
  \/ IsFile(server, p) /\ IsFile(server, q)
  \/ server[p] = Dir /\ server[q] = Dir /\ IsEmpty(server, q)

\* Any filesystem_error is answered NOT_FOUND, which the client takes for "the
\* file is new and exists ONLY in our local cache".
RenameServer(p, q) ==
  IF server[p] = None \/ ~CanMakeFolders(server, q) \/ ~CanReplace(p, q)
  THEN /\ server' = IF CanMakeFolders(server, q) THEN MakeFolders(server, q) ELSE server
       /\ refused' = (refused \/ server[p] # None)
       /\ UNCHANGED <<file_map, hung>>
  ELSE /\ server' = MoveTree(MakeFolders(server, q), p, q)
       /\ IF p \in file_map
          THEN file_map' = (file_map \ {p}) \cup {q} /\ UNCHANGED hung
          ELSE hung' = TRUE /\ UNCHANGED file_map
       /\ UNCHANGED refused

\* FUSE renames what it has found, and replaces only what is of the same kind.
\* (Bound: what is moved keeps a path in Path.)
Rename(p, q) ==
  /\ cached_attr[p] # "none" /\ InSeen(q) /\ ~Under(q, p) /\ ~Under(p, q)
  /\ Missing(q) \/ cached_attr[q] = cached_attr[p]
  /\ \A r \in Path : Under(r, p) => Moved(r, p, q) \in Path
  /\ ~Collides(q)
  /\ local[p] # None => InFolder(local, q)
  /\ RenameLocal(p, q)
  /\ RenameServer(p, q)
  /\ UNCHANGED <<file_mutexes, used>>

-----------------------------------------------------------------------------
(***************************************************************************)
(* delete_file(), for unlink and for rmdir.                                *)
(***************************************************************************)
\* Mutation: the attributes are looked for under another key.
DeleteFileKeepsAttr(p) ==
  /\ cached_attr[p] # "none"
  /\ cache' = [cache EXCEPT ![p] = "none"]
  /\ opened' = [opened EXCEPT ![p] = "no"]
  /\ file_mutexes' = file_mutexes \ {p}
  /\ IF server[p] = None
     THEN UNCHANGED <<server, file_map, local>>
     ELSE /\ IF IsEmpty(server, p)
             THEN /\ server' = [server EXCEPT ![p] = None]
                  /\ file_map' = file_map \ {p}
             ELSE UNCHANGED <<server, file_map>>
          /\ local' = IF IsEmpty(local, p) THEN [local EXCEPT ![p] = None] ELSE local
  /\ shadowed' = shadowed \ {p}
  /\ UNCHANGED <<cached_attr, used, hung, refused>>

\* The server says OK also of a folder that is not empty.
DeleteFile(p) ==
  /\ cached_attr[p] # "none"
  /\ cache' = [cache EXCEPT ![p] = "none"]
  /\ opened' = [opened EXCEPT ![p] = "no"]
  /\ cached_attr' = [cached_attr EXCEPT ![p] = "none"]
  /\ file_mutexes' = file_mutexes \ {p}
  /\ IF server[p] = None
     THEN UNCHANGED <<server, file_map, local>>
     ELSE /\ IF IsEmpty(server, p)
             THEN /\ server' = [server EXCEPT ![p] = None]
                  /\ file_map' = file_map \ {p}
             ELSE UNCHANGED <<server, file_map>>
          /\ local' = IF IsEmpty(local, p) THEN [local EXCEPT ![p] = None] ELSE local
  /\ shadowed' = shadowed \ {p}
  /\ UNCHANGED <<used, hung, refused>>

Operation ==
  \/ \E p \in Path :
       \/ GetAttributes(p) \/ MakeDirectory(p)
       \/ OpenMiss(p) \/ OpenCached(p) \/ CreateFile(p) \/ WriteFile(p)
       \/ CloseClean(p) \/ CloseDirty(p) \/ CloseFails(p)
       \/ DeleteFile(p)
  \/ \E p, q \in Path : Rename(p, q)

\* A client that waits for the answer of rename() does nothing more.
Next == ~hung /\ Operation

Spec == Init /\ [][Next]_vars
-----------------------------------------------------------------------------
(***************************************************************************)
(* What is cached under a path, and not modified, is the file the server   *)
(* has there, through the renames and removals of files and folders that   *)
(* re-key the maps (update_map_keys).  (The client goes on after a rename  *)
(* of a file, or of a folder the server does not have; one of a folder     *)
(* that the server accepts is its last step, `hung`.)  Exceptions:         *)
(* something that is not cached was renamed onto it, so that the local     *)
(* file is removed or replaced and the entry stays (`shadowed`); or the    *)
(* server has refused a rename and the client takes that for success       *)
(* (`refused`).                                                            *)
(***************************************************************************)
CleanIsServers ==
  ~refused => \A p \in Path \ shadowed :
    cache[p] = "clean" => IsFile(local, p) /\ local[p] = server[p]

(***************************************************************************)
(* A modified file keeps its local file and its open entry under the same  *)
(* path, also when the folder it is in is renamed or removed, or the       *)
(* server refuses that.  Exception: something that is not cached was       *)
(* renamed onto it, which removes the local file (`shadowed`).  The file's *)
(* mutex, the third thing close_file() looks for, is not claimed: a rename *)
(* loses it (OpenIsUsable in AFS).                                         *)
(***************************************************************************)
DirtyHasItsFile ==
  \A p \in Path \ shadowed :
    cache[p] = "dirty" => IsFile(local, p) /\ opened[p] # "no"

(***************************************************************************)
(* A close_file() of a modified file that finds the file's mutex does not  *)
(* fail half way: the local file is there to be sent, and the server has a *)
(* place for it, its folder being there or such that it can be made,       *)
(* although rmdir, which knows nothing of new files, may have removed it   *)
(* meanwhile.  Exceptions: `shadowed` and `refused`, as above.             *)
(***************************************************************************)
DirtyCanBeStored ==
  ~refused => \A p \in Path \ shadowed :
    cache[p] = "dirty" => IsFile(local, p) /\ CanStore(p)

(***************************************************************************)
(* Cached attributes, which nothing checks again, are of a file or folder  *)
(* that exists, there being no other client: for FUSE what                 *)
(* get_attributes() finds is there.  Exception: `refused`.                 *)
(***************************************************************************)
SeenExists ==
  ~refused => \A p \in Path :
    /\ cached_attr[p] = "dir"  => server[p] = Dir
    /\ cached_attr[p] = "file" => IsFile(server, p) \/ IsFile(local, p)
=============================================================================
