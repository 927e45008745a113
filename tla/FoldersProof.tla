----------------------------- MODULE FoldersProof ----------------------------
(***************************************************************************)
(* The maps of the client through operations on names, for any finite tree *)
(* of paths, of any depth, and any number of files.                        *)
(***************************************************************************)
EXTENDS Folders, FiniteSetTheorems, SequenceTheorems, TLAPS

(***************************************************************************)
(* The maps agree on p: what is open is cached, what is modified is open,  *)
(* and streams that are live are of a file in the cache directory.         *)
(***************************************************************************)
OpenOK(p) ==
  /\ opened[p] # "no" => cache[p] # "none"
  /\ cache[p] = "dirty" => opened[p] # "no"
  /\ opened[p] = "live" => IsFile(local, p)

\* An entry has its local file, and that is the server's if it is not modified.
EntryOK(p) ==
  p \notin shadowed /\ cache[p] # "none" =>
    /\ IsFile(local, p)
    /\ cache[p] = "clean" /\ ~refused => local[p] = server[p]

(***************************************************************************)
(* What the client has seen is there, and of the kind it was seen to be; a *)
(* cached path was seen to be a file.  A file the server does not have is  *)
(* modified here; a folder here is no file there.                          *)
(***************************************************************************)
SeenOK(p) ==
  ~refused =>
    /\ cached_attr[p] = "dir" => server[p] = Dir
    /\ cached_attr[p] = "file" =>
         /\ server[p] # Dir
         /\ IsFile(server, p) \/ (cache[p] = "dirty" /\ IsFile(local, p))
    /\ cache[p] # "none" => cached_attr[p] = "file"
    /\ local[p] = Dir => ~IsFile(server, p)

PathOK(p) == OpenOK(p) /\ EntryOK(p) /\ SeenOK(p)

FoldersInv == TypeOK /\ \A p \in Path : PathOK(p)

-----------------------------------------------------------------------------
(***************************************************************************)
(* Paths.                                                                  *)
(***************************************************************************)
\* A path is under another if it begins with its names.
LEMMA UnderNames ==
  ASSUME NEW p \in Seq(Name), NEW r \in Seq(Name)
  PROVE  Under(r, p) <=> Len(p) <= Len(r) /\ \A i \in 1..Len(p) : r[i] = p[i]
<1>1. CASE ~(Len(p) <= Len(r))
  BY <1>1 DEF Under, IsPrefix
<1>2. CASE Len(p) <= Len(r)
  <2>1. /\ SubSeq(p, 1, Len(p)) \in Seq(Name) /\ Len(SubSeq(p, 1, Len(p))) = Len(p)
        /\ \A i \in 1..Len(p) : SubSeq(p, 1, Len(p))[i] = p[i]
    OBVIOUS
  <2>2. /\ SubSeq(r, 1, Len(p)) \in Seq(Name) /\ Len(SubSeq(r, 1, Len(p))) = Len(p)
        /\ \A i \in 1..Len(p) : SubSeq(r, 1, Len(p))[i] = r[i]
    BY <1>2
  <2>3. SubSeq(p, 1, Len(p)) = SubSeq(r, 1, Len(p)) <=> \A i \in 1..Len(p) : r[i] = p[i]
    BY <2>1, <2>2, SeqEqual
  <2> QED
    BY <1>2, <2>3 DEF Under, IsPrefix
<1> QED
  BY <1>1, <1>2

\* What is under a path is ordered as a tree.
LEMMA UnderOrder ==
  ASSUME NEW a \in Seq(Name), NEW b \in Seq(Name), NEW c \in Seq(Name)
  PROVE  /\ Under(a, a)
         /\ Under(a, b) /\ Under(b, a) => a = b
         /\ Under(a, b) /\ Under(b, c) => Under(a, c)
         /\ Under(a, b) /\ Under(a, c) => Under(b, c) \/ Under(c, b)
<1>1. Under(a, a)
  BY UnderNames
<1>2. Under(a, b) /\ Under(b, a) => a = b
  BY UnderNames, SeqEqual
<1>3. Under(a, b) /\ Under(b, c) => Under(a, c)
  BY UnderNames
<1>4. Under(a, b) /\ Under(a, c) => Under(b, c) \/ Under(c, b)
  BY UnderNames
<1> QED
  BY <1>1, <1>2, <1>3, <1>4

\* The folders a path is in are paths.
LEMMA PrefixIsPath ==
  ASSUME NEW r \in Path, NEW d \in Seq(Name), d # <<>>, Under(r, d)
  PROVE  d \in Path
<1>1. r \in Seq(Name)
  BY PathAssumption
<1>2. Len(d) \in 1..Len(r)
  BY <1>1, UnderNames, EmptySeq
<1>3. SubSeq(r, 1, Len(d)) = d
  <2>1. /\ SubSeq(r, 1, Len(d)) \in Seq(Name) /\ Len(SubSeq(r, 1, Len(d))) = Len(d)
        /\ \A i \in 1..Len(d) : SubSeq(r, 1, Len(d))[i] = r[i]
    BY <1>1, <1>2
  <2> QED
    BY <1>1, <2>1, UnderNames, SeqEqual
<1> QED
  BY <1>2, <1>3, PathAssumption

\* The names of a path that is moved.
LEMMA MovedNames ==
  ASSUME NEW p \in Seq(Name), NEW q \in Seq(Name), NEW r \in Seq(Name), Under(r, p)
  PROVE  /\ Moved(r, p, q) \in Seq(Name)
         /\ Len(Moved(r, p, q)) = Len(q) + (Len(r) - Len(p))
         /\ \A i \in 1..Len(q) : Moved(r, p, q)[i] = q[i]
         /\ \A i \in Len(q) + 1 .. Len(q) + (Len(r) - Len(p)) :
              Moved(r, p, q)[i] = r[i - Len(q) + Len(p)]
<1> DEFINE s == SubSeq(r, Len(p) + 1, Len(r))
<1>1. Len(p) <= Len(r)
  BY UnderNames
<1>2. /\ s \in Seq(Name) /\ Len(s) = Len(r) - Len(p)
      /\ \A i \in 1 .. Len(r) - Len(p) : s[i] = r[i + Len(p)]
  BY <1>1
<1>3. /\ q \o s \in Seq(Name) /\ Len(q \o s) = Len(q) + Len(s)
      /\ \A i \in 1..Len(q) : (q \o s)[i] = q[i]
      /\ \A i \in Len(q) + 1 .. Len(q) + Len(s) : (q \o s)[i] = s[i - Len(q)]
  BY <1>2
<1>4. Moved(r, p, q) = q \o s
  BY DEF Moved
<1> HIDE DEF s
<1>5. ASSUME NEW i \in Len(q) + 1 .. Len(q) + (Len(r) - Len(p))
      PROVE  (q \o s)[i] = r[i - Len(q) + Len(p)]
  <2>1. (q \o s)[i] = s[i - Len(q)]
    BY <1>1, <1>2, <1>3
  <2>2. i - Len(q) \in 1 .. Len(r) - Len(p)
    BY <1>1
  <2> QED
    BY <1>2, <2>1, <2>2
<1> QED
  BY <1>2, <1>3, <1>4, <1>5

(***************************************************************************)
(* Moving puts what is under p under q, each path at another place in the  *)
(* same order, and moving back undoes it.                                  *)
(***************************************************************************)
LEMMA MovedUnder ==
  ASSUME NEW p \in Seq(Name), NEW q \in Seq(Name), NEW r \in Seq(Name), Under(r, p)
  PROVE  /\ Moved(r, p, q) \in Seq(Name) /\ Under(Moved(r, p, q), q)
         /\ Moved(Moved(r, p, q), q, p) = r
         /\ Moved(r, p, q) = q <=> r = p
<1> DEFINE m == Moved(r, p, q)
           b == Moved(m, q, p)
<1>1. /\ m \in Seq(Name) /\ Len(m) = Len(q) + (Len(r) - Len(p)) /\ Len(p) <= Len(r)
      /\ \A i \in 1..Len(q) : m[i] = q[i]
      /\ \A i \in Len(q) + 1 .. Len(q) + (Len(r) - Len(p)) :
           m[i] = r[i - Len(q) + Len(p)]
  <2>1. Len(p) <= Len(r)
    BY UnderNames
  <2> QED
    BY <2>1, MovedNames, ZenonT(30)
<1>2. Under(m, q)
  BY <1>1, UnderNames
<1>3. /\ b \in Seq(Name) /\ Len(b) = Len(p) + (Len(m) - Len(q))
      /\ \A i \in 1..Len(p) : b[i] = p[i]
      /\ \A i \in Len(p) + 1 .. Len(p) + (Len(m) - Len(q)) :
           b[i] = m[i - Len(p) + Len(q)]
  BY <1>1, <1>2, MovedNames, ZenonT(30)
<1>4. b = r
  <2> HIDE DEF m, b
  <2>1. Len(b) = Len(r)
    BY <1>1, <1>3
  <2>2. ASSUME NEW i \in 1..Len(r) PROVE b[i] = r[i]
    <3>1. CASE i <= Len(p)
      BY <1>1, <1>3, <3>1, UnderNames
    <3>2. CASE i > Len(p)
      <4>1. b[i] = m[i - Len(p) + Len(q)]
        BY <1>1, <1>3, <3>2
      <4>2. m[i - Len(p) + Len(q)] = r[(i - Len(p) + Len(q)) - Len(q) + Len(p)]
        BY <1>1, <3>2
      <4>3. (i - Len(p) + Len(q)) - Len(q) + Len(p) = i
        OBVIOUS
      <4> QED
        BY <4>1, <4>2, <4>3
    <3> QED
      BY <3>1, <3>2
  <2> QED
    BY <1>3, <2>1, <2>2, SeqEqual
<1>5. m = q <=> r = p
  <2>1. m = q => Len(r) = Len(p)
    BY <1>1
  <2>2. r = p => Len(m) = Len(q)
    BY <1>1
  <2>3. Len(r) = Len(p) => r = p
    BY UnderNames, SeqEqual
  <2>4. Len(m) = Len(q) => m = q
    BY <1>1, SeqEqual
  <2> QED
    BY <2>1, <2>2, <2>3, <2>4
<1> QED
  BY <1>1, <1>2, <1>4, <1>5

\* Moving a tree keeps the order of what is in it.
LEMMA MovedOrder ==
  ASSUME NEW p \in Seq(Name), NEW q \in Seq(Name), NEW r \in Seq(Name), Under(r, p),
         NEW d \in Seq(Name), Under(d, p), Under(r, d)
  PROVE  Under(Moved(r, p, q), Moved(d, p, q))
<1> DEFINE m == Moved(r, p, q)
           n == Moved(d, p, q)
<1>1. /\ m \in Seq(Name) /\ Len(m) = Len(q) + (Len(r) - Len(p)) /\ Len(p) <= Len(r)
      /\ \A i \in 1..Len(q) : m[i] = q[i]
      /\ \A i \in Len(q) + 1 .. Len(q) + (Len(r) - Len(p)) :
           m[i] = r[i - Len(q) + Len(p)]
  <2>1. Len(p) <= Len(r)
    BY UnderNames
  <2> QED
    BY <2>1, MovedNames, ZenonT(30)
<1>2. /\ n \in Seq(Name) /\ Len(n) = Len(q) + (Len(d) - Len(p)) /\ Len(p) <= Len(d)
      /\ \A i \in 1..Len(q) : n[i] = q[i]
      /\ \A i \in Len(q) + 1 .. Len(q) + (Len(d) - Len(p)) :
           n[i] = d[i - Len(q) + Len(p)]
  <2>1. Len(p) <= Len(d)
    BY UnderNames
  <2> QED
    BY <2>1, MovedNames, ZenonT(30)
<1>3. Len(d) <= Len(r) /\ \A i \in 1..Len(d) : r[i] = d[i]
  BY UnderNames
<1> HIDE DEF m, n
<1>4. Len(n) <= Len(m)
  BY <1>1, <1>2, <1>3
<1>5. ASSUME NEW i \in 1..Len(n) PROVE m[i] = n[i]
  <2>1. CASE i <= Len(q)
    BY <1>1, <1>2, <2>1
  <2>2. CASE i > Len(q)
    <3>1. m[i] = r[i - Len(q) + Len(p)] /\ n[i] = d[i - Len(q) + Len(p)]
      BY <1>1, <1>2, <1>3, <2>2
    <3>2. i - Len(q) + Len(p) \in 1..Len(d)
      BY <1>2, <2>2
    <3> QED
      BY <1>3, <3>1, <3>2
  <2> QED
    BY <2>1, <2>2
<1>6. Under(m, n)
  BY <1>1, <1>2, <1>4, <1>5, UnderNames
<1> QED
  BY <1>6 DEF m, n

-----------------------------------------------------------------------------
(***************************************************************************)
(* Trees.                                                                  *)
(***************************************************************************)
Entry == {None, Dir} \cup File

Tree(t) ==
  /\ t \in [Path -> Entry]
  /\ \A p \in Path : t[p] # None => InFolder(t, p)

\* A file is neither a folder nor nothing.
LEMMA FileKinds ==
  /\ First \in Nat /\ None \notin File /\ Dir \notin File /\ None # Dir
  /\ File \subseteq Nat
<1>1. First \in Nat
  BY PathAssumption, FS_CardinalityType DEF First
<1> QED
  BY <1>1, NewAssumption DEF File, None, Dir

\* Under(_, _) orders the paths.
LEMMA PathOrder ==
  /\ \A p \in Path : Under(p, p)
  /\ \A p, q \in Path : Under(p, q) /\ Under(q, p) => p = q
  /\ \A p, q, r \in Path : Under(r, q) /\ Under(q, p) => Under(r, p)
  /\ \A p, q, r \in Path : Under(r, p) /\ Under(r, q) => Under(p, q) \/ Under(q, p)
<1>1. Path \subseteq Seq(Name)
  BY PathAssumption
<1> QED
  BY <1>1, UnderOrder

\* Below a file there is nothing.
LEMMA NothingBelow ==
  ASSUME NEW t, Tree(t), NEW p \in Path, t[p] # Dir
  PROVE  IsEmpty(t, p)
BY DEF Tree, IsEmpty, InFolder, Above

\* What is at p may change, if nothing is below it and its folder is there.
LEMMA LeafTree ==
  ASSUME NEW t, Tree(t), NEW p \in Path, NEW e \in Entry, IsEmpty(t, p),
         e # None => InFolder(t, p)
  PROVE  Tree([t EXCEPT ![p] = e])
<1> DEFINE u == [t EXCEPT ![p] = e]
<1>1. u \in [Path -> Entry] /\ u[p] = e /\ \A r \in Path \ {p} : u[r] = t[r]
  BY DEF Tree
<1>2. ASSUME NEW r \in Path, u[r] # None, NEW d \in Above(r) PROVE u[d] = Dir
  <2>1. d \in Path /\ Below(r, d)
    BY <1>2 DEF Above
  <2>2. CASE r = p
    BY <1>1, <1>2, <2>1, <2>2 DEF Below, InFolder
  <2>3. CASE r # p
    <3>1. t[r] # None /\ t[d] = Dir
      BY <1>1, <1>2, <2>3 DEF Tree, InFolder
    <3>2. d # p
      BY <2>1, <3>1 DEF IsEmpty
    <3> QED
      BY <1>1, <2>1, <3>1, <3>2
  <2> QED
    BY <2>2, <2>3
<1> QED
  BY <1>1, <1>2 DEF Tree, InFolder

\* create_directories() makes the folders of p, and changes nothing else.
LEMMA FoldersMade ==
  ASSUME NEW t, Tree(t), NEW p \in Path, CanMakeFolders(t, p)
  PROVE  /\ Tree(MakeFolders(t, p)) /\ InFolder(MakeFolders(t, p), p)
         /\ \A r \in Path : MakeFolders(t, p)[r] = IF Below(p, r) THEN Dir ELSE t[r]
         /\ \A r \in Path : Below(p, r) => ~IsFile(t, r)
<1> DEFINE u == MakeFolders(t, p)
<1>1. \A r \in Path : u[r] = IF Below(p, r) THEN Dir ELSE t[r]
  BY DEF MakeFolders, Above
<1>2. u \in [Path -> Entry]
  BY DEF MakeFolders, Tree, Entry
<1>3. ASSUME NEW r \in Path, u[r] # None, NEW d \in Above(r) PROVE u[d] = Dir
  <2>1. d \in Path /\ Below(r, d)
    BY <1>3 DEF Above
  <2>2. CASE Below(p, r)
    <3>1. Below(p, d)
      BY <2>1, <2>2, PathOrder DEF Below
    <3> QED
      BY <1>1, <2>1, <3>1
  <2>3. CASE ~Below(p, r)
    BY <1>1, <1>3, <2>1, <2>3 DEF Tree, InFolder
  <2> QED
    BY <2>2, <2>3
<1>4. InFolder(u, p)
  BY <1>1 DEF InFolder, Above
<1>5. \A r \in Path : Below(p, r) => ~IsFile(t, r)
  BY DEF CanMakeFolders, Above
<1> HIDE DEF u
<1>6. Tree(u)
  BY <1>2, <1>3 DEF Tree, InFolder
<1> QED
  BY <1>1, <1>4, <1>5, <1>6 DEF u

\* What is not under both of two paths, neither of which is under the other.
LEMMA Apart ==
  ASSUME NEW p \in Path, NEW q \in Path, ~Under(q, p), ~Under(p, q), NEW r \in Path
  PROVE  ~(Under(r, p) /\ Under(r, q))
BY PathOrder

\* A path and what is moved to it or from it.
LEMMA MovedPath ==
  ASSUME NEW p \in Path, NEW q \in Path, NEW r \in Path, Under(r, q),
         Moved(r, q, p) \in Path
  PROVE  /\ Under(Moved(r, q, p), p)
         /\ Moved(r, q, p) = p <=> r = q
         /\ Moved(q, q, p) = p
         /\ Moved(Moved(r, q, p), p, q) = r
         /\ \A d \in Path : Below(r, d) /\ Under(d, q) =>
              Moved(d, q, p) \in Path /\ Below(Moved(r, q, p), Moved(d, q, p))
<1>1. Path \subseteq Seq(Name) \ {<<>>}
  BY PathAssumption
<1>2. /\ Under(Moved(r, q, p), p) /\ (Moved(r, q, p) = p <=> r = q)
      /\ Moved(Moved(r, q, p), p, q) = r
  BY <1>1, MovedUnder
<1>3. Moved(q, q, p) = p
  BY <1>1, MovedUnder, UnderOrder
<1>4. ASSUME NEW d \in Path, Below(r, d), Under(d, q)
      PROVE  Moved(d, q, p) \in Path /\ Below(Moved(r, q, p), Moved(d, q, p))
  <2>1. /\ Moved(d, q, p) \in Seq(Name) /\ Under(Moved(d, q, p), p)
        /\ Moved(Moved(d, q, p), p, q) = d
    BY <1>1, <1>4, MovedUnder
  <2>2. Under(Moved(r, q, p), Moved(d, q, p))
    BY <1>1, <1>4, MovedOrder DEF Below
  <2>3. Moved(d, q, p) # <<>>
    <3>1. p \in Seq(Name) /\ p # <<>>
      BY <1>1
    <3>2. Len(p) > 0 /\ Len(p) <= Len(Moved(d, q, p))
      BY <2>1, <3>1, UnderNames, EmptySeq
    <3> QED
      BY <3>2, <2>1, EmptySeq
  <2>4. Moved(d, q, p) \in Path
    BY <2>1, <2>2, <2>3, PrefixIsPath
  <2>5. Moved(r, q, p) # Moved(d, q, p)
    BY <1>2, <1>4, <2>1 DEF Below
  <2> QED
    BY <2>2, <2>4, <2>5 DEF Below
<1> QED
  BY <1>2, <1>3, <1>4

\* std::filesystem::rename() leaves a tree.
LEMMA MovedTree ==
  ASSUME NEW t, Tree(t), NEW p \in Path, NEW q \in Path,
         ~Under(q, p), ~Under(p, q), InFolder(t, q)
  PROVE  Tree(MoveTree(t, p, q))
<1> DEFINE u == MoveTree(t, p, q)
<1>1. \A r \in Path :
        u[r] = IF Under(r, q) THEN IF Moved(r, q, p) \in Path
                                   THEN t[Moved(r, q, p)] ELSE None
               ELSE IF Under(r, p) THEN None ELSE t[r]
  BY DEF MoveTree
<1>2. u \in [Path -> Entry]
  BY DEF MoveTree, Tree, Entry
<1>3. ASSUME NEW r \in Path, u[r] # None, NEW d \in Above(r) PROVE u[d] = Dir
  <2>1. d \in Path /\ Below(r, d)
    BY <1>3 DEF Above
  <2>2. CASE Under(r, q) /\ Under(d, q)
    <3>1. Moved(r, q, p) \in Path /\ t[Moved(r, q, p)] # None
      BY <1>1, <1>3, <2>2
    <3>2. Moved(d, q, p) \in Path /\ Below(Moved(r, q, p), Moved(d, q, p))
      BY <2>1, <2>2, <3>1, MovedPath
    <3>3. t[Moved(d, q, p)] = Dir
      BY <3>1, <3>2 DEF Tree, InFolder, Above
    <3> QED
      BY <1>1, <2>1, <2>2, <3>2, <3>3
  <2>3. CASE Under(r, q) /\ ~Under(d, q)
    <3>1. Below(q, d) /\ ~Under(d, p)
      BY <2>1, <2>3, PathOrder DEF Below
    <3>2. t[d] = Dir
      BY <2>1, <3>1 DEF InFolder, Above
    <3> QED
      BY <1>1, <2>1, <2>3, <3>1, <3>2
  <2>4. CASE ~Under(r, q)
    <3>1. ~Under(r, p) /\ t[r] # None
      BY <1>1, <1>3, <2>4
    <3>2. ~Under(d, q) /\ ~Under(d, p)
      BY <2>1, <2>4, <3>1, PathOrder DEF Below
    <3>3. t[d] = Dir
      BY <2>1, <3>1 DEF Tree, InFolder, Above
    <3> QED
      BY <1>1, <2>1, <3>2, <3>3
  <2> QED
    BY <2>2, <2>3, <2>4
<1> HIDE DEF u
<1>4. Tree(u)
  BY <1>2, <1>3 DEF Tree, InFolder
<1> QED
  BY <1>4 DEF u

-----------------------------------------------------------------------------
(***************************************************************************)
(* The operations, but for the renames.                                    *)
(***************************************************************************)
MapsOK ==
  /\ file_map \subseteq Path /\ file_mutexes \subseteq Path
  /\ cache \in [Path -> {"none", "clean", "dirty"}]
  /\ opened \in [Path -> {"no", "live", "dead"}]
  /\ cached_attr \in [Path -> {"none", "file", "dir"}]
  /\ used \in 0 .. First + MaxNew
  /\ hung \in BOOLEAN /\ refused \in BOOLEAN /\ shadowed \subseteq Path

\* The types are those of two trees and of the maps.
LEMMA Types ==
  /\ TypeOK <=> Tree(server) /\ Tree(local) /\ MapsOK
  /\ TypeOK' <=> Tree(server)' /\ Tree(local)' /\ MapsOK'
<1>1. TypeOK <=> Tree(server) /\ Tree(local) /\ MapsOK
  BY DEF TypeOK, Tree, MapsOK, Entry
<1>2. TypeOK' <=> Tree(server)' /\ Tree(local)' /\ MapsOK'
  BY DEF TypeOK, Tree, MapsOK, Entry
<1> QED
  BY <1>1, <1>2

(***************************************************************************)
(* A path whose entries and files stay is as it was, whatever folders are  *)
(* made.                                                                   *)
(***************************************************************************)
LEMMA Kept ==
  ASSUME NEW r \in Path, PathOK(r), MapsOK,
         cache'[r] = cache[r], opened'[r] = opened[r], cached_attr'[r] = cached_attr[r],
         r \in shadowed => r \in shadowed', ~refused' => ~refused,
         IsFile(local, r) => local'[r] = local[r],
         ~refused' /\ IsFile(server, r) => server'[r] = server[r],
         ~refused' /\ server[r] = Dir => server'[r] = Dir,
         ~refused' /\ server'[r] = Dir => server[r] = Dir \/ cached_attr[r] # "file",
         ~refused' /\ local'[r] = Dir /\ IsFile(server', r) =>
           local[r] = Dir /\ IsFile(server, r)
  PROVE  PathOK(r)'
<1>1. OpenOK(r)'
  BY DEF PathOK, OpenOK, IsFile
<1>2. EntryOK(r)'
  BY DEF PathOK, EntryOK, IsFile
<1>3. SeenOK(r)'
  BY DEF PathOK, SeenOK, IsFile
<1> QED
  BY <1>1, <1>2, <1>3 DEF PathOK

\* A step that changes attributes of what is seen, or makes a folder.
LEMMA LookupKeeps ==
  ASSUME FoldersInv, NEW p \in Path, GetAttributes(p) \/ MakeDirectory(p)
  PROVE  FoldersInv'
<1> USE FileKinds DEF FoldersInv
<1>1. TypeOK'
  <2>1. CASE GetAttributes(p)
    BY <2>1, Types DEF GetAttributes, MapsOK, history
  <2>2. CASE MakeDirectory(p)
    <3>1. server[p] # Dir /\ Tree([server EXCEPT ![p] = Dir])
      BY <2>2, Types, NothingBelow, LeafTree DEF MakeDirectory, Missing, Entry
    <3> QED
      BY <2>2, <3>1, Types DEF MakeDirectory, MapsOK, history, entries
  <2> QED
    BY <2>1, <2>2
<1>2. ASSUME NEW r \in Path, r # p PROVE PathOK(r)'
  <2>1. UNCHANGED <<local, cache, opened, shadowed, refused>>
    BY DEF GetAttributes, MakeDirectory, history, entries
  <2>2. cached_attr'[r] = cached_attr[r] /\ server'[r] = server[r]
    BY <1>2, Types DEF GetAttributes, MakeDirectory, MapsOK, entries, Tree
  <2>3. PathOK(r) /\ MapsOK
    BY Types
  <2> QED
    BY <2>1, <2>2, <2>3, Kept DEF IsFile
<1>3. PathOK(p)'
  <2>1. CASE GetAttributes(p)
    BY <2>1, Types DEF GetAttributes, MapsOK, history, Tree, Entry, PathOK, OpenOK,
       EntryOK, SeenOK, IsFile
  <2>2. CASE MakeDirectory(p)
    BY <2>2, Types DEF MakeDirectory, Missing, MapsOK, history, entries, Tree, PathOK,
       OpenOK, EntryOK, SeenOK, IsFile
  <2> QED
    BY <2>1, <2>2
<1> QED
  BY <1>1, <1>2, <1>3

\* create_directories() in the cache directory, for a file that is seen or made.
LEMMA LocalFolders ==
  ASSUME FoldersInv, NEW p \in Path, CanMakeFolders(local, p),
         ~refused => InFolder(server, p) \/ InFolder(local, p),
         NEW r \in Path
  PROVE  /\ IsFile(local, r) => MakeFolders(local, p)[r] = local[r]
         /\ ~refused /\ MakeFolders(local, p)[r] = Dir /\ IsFile(server, r) =>
              local[r] = Dir /\ IsFile(server, r)
<1>1. /\ \A d \in Path : MakeFolders(local, p)[d] = IF Below(p, d) THEN Dir ELSE local[d]
      /\ Below(p, r) => ~IsFile(local, r)
  BY Types, FoldersMade DEF FoldersInv
<1>2. ~refused /\ Below(p, r) => ~IsFile(server, r)
  BY FileKinds DEF FoldersInv, PathOK, SeenOK, InFolder, Above, IsFile
<1> QED
  BY <1>1, <1>2

\* Of what is seen and not refused, the folders are there.
LEMMA SeenIsInFolder ==
  ASSUME FoldersInv, NEW p \in Path, cached_attr[p] # "none" \/ InSeen(p), ~refused
  PROVE  InFolder(server, p) \/ InFolder(local, p)
<1>1. CASE InSeen(p)
  BY <1>1 DEF InSeen, Seen, InFolder, Above, FoldersInv, PathOK, SeenOK
<1>2. CASE cached_attr[p] # "none"
  <2>1. server[p] # None \/ local[p] # None
    BY <1>2, FileKinds, Types DEF FoldersInv, PathOK, SeenOK, MapsOK, IsFile
  <2> QED
    BY <2>1, Types DEF FoldersInv, Tree
<1> QED
  BY <1>1, <1>2

\* open_file(), of what is cached and of what is not.
LEMMA OpenKeeps ==
  ASSUME FoldersInv, NEW p \in Path, OpenMiss(p) \/ OpenCached(p)
  PROVE  FoldersInv'
<1> USE FileKinds DEF FoldersInv
<1>1. PathOK(p) /\ MapsOK /\ Tree(server) /\ Tree(local)
  BY Types
<1>2. CASE OpenCached(p)
  <2>1. TypeOK'
    BY <1>1, <1>2, Types DEF OpenCached, MapsOK, history
  <2>2. ASSUME NEW r \in Path PROVE PathOK(r)'
    BY <1>1, <1>2, <2>2 DEF OpenCached, MapsOK, history, PathOK, OpenOK, EntryOK, SeenOK,
       IsFile
  <2> QED
    BY <2>1, <2>2
<1>3. CASE OpenMiss(p)
  <2> DEFINE t == MakeFolders(local, p)
  <2>1. /\ Tree(t) /\ InFolder(t, p)
        /\ \A r \in Path : t[r] = IF Below(p, r) THEN Dir ELSE local[r]
    BY <1>1, <1>3, FoldersMade DEF OpenMiss
  <2>2. t[p] = local[p]
    BY <2>1 DEF Below
  <2> HIDE DEF t
  <2>3. \/ local' = t /\ local[p] = Dir /\ UNCHANGED <<cache, opened, file_mutexes>>
        \/ /\ local' = [t EXCEPT ![p] = None] /\ server[p] = None /\ local[p] # Dir
           /\ UNCHANGED <<cache, opened, file_mutexes>>
        \/ /\ local' = [t EXCEPT ![p] = server[p]] /\ IsFile(server, p) /\ local[p] # Dir
           /\ cache' = [cache EXCEPT ![p] = "clean"]
           /\ opened' = [opened EXCEPT ![p] = "live"]
           /\ file_mutexes' = file_mutexes \cup {p}
    BY <1>1, <1>3 DEF OpenMiss, t, Tree, Entry, IsFile
  <2>4. /\ cached_attr[p] = "file" /\ cache[p] = "none" /\ shadowed' = shadowed \ {p}
        /\ file_map' = file_map \cup {p}
        /\ UNCHANGED <<server, cached_attr, used, hung, refused>>
    BY <1>3 DEF OpenMiss, Seen
  <2>5. Tree(local')
    <3>1. local[p] # Dir => IsEmpty(t, p)
      BY <2>1, <2>2, NothingBelow
    <3> QED
      BY <1>1, <2>1, <2>3, <3>1, LeafTree DEF Entry, IsFile
  <2>6. TypeOK'
    BY <1>1, <2>3, <2>4, <2>5, Types DEF MapsOK
  <2>7. ASSUME NEW r \in Path, r # p PROVE PathOK(r)'
    <3>1. local'[r] = t[r]
      BY <2>1, <2>3, <2>7 DEF Tree
    <3>2. /\ cache'[r] = cache[r] /\ opened'[r] = opened[r]
          /\ r \in shadowed => r \in shadowed'
      BY <1>1, <2>3, <2>4, <2>7 DEF MapsOK
    <3>3. /\ IsFile(local, r) => t[r] = local[r]
          /\ ~refused /\ t[r] = Dir /\ IsFile(server, r) => local[r] = Dir
      BY <1>3, <2>4, LocalFolders, SeenIsInFolder DEF OpenMiss, t
    <3> QED
      BY <1>1, <2>4, <3>1, <3>2, <3>3, Kept DEF IsFile
  <2>8. PathOK(p)'
    <3>1. CASE UNCHANGED <<cache, opened>>
      <4>1. opened[p] = "no" /\ cache[p] = "none"
        BY <1>1, <2>4 DEF PathOK, OpenOK, MapsOK
      <4>2. ~refused => IsFile(server, p)
        BY <1>1, <2>4 DEF PathOK, SeenOK
      <4>3. OpenOK(p)' /\ EntryOK(p)'
        BY <3>1, <4>1 DEF OpenOK, EntryOK
      <4>4. SeenOK(p)'
        BY <1>1, <2>1, <2>2, <2>3, <2>4, <3>1, <4>1, <4>2 DEF PathOK, SeenOK, Tree, IsFile
      <4> QED
        BY <4>3, <4>4 DEF PathOK
    <3>2. CASE /\ local' = [t EXCEPT ![p] = server[p]] /\ IsFile(server, p)
               /\ cache' = [cache EXCEPT ![p] = "clean"]
               /\ opened' = [opened EXCEPT ![p] = "live"]
      <4>1. local'[p] = server[p] /\ cache'[p] = "clean" /\ opened'[p] = "live"
        BY <1>1, <2>1, <3>2 DEF MapsOK, Tree
      <4> QED
        BY <1>1, <2>4, <3>2, <4>1 DEF PathOK, OpenOK, EntryOK, SeenOK, IsFile
    <3> QED
      BY <2>3, <3>1, <3>2
  <2> QED
    BY <2>6, <2>7, <2>8
<1> QED
  BY <1>2, <1>3

\* create_file() and write_file().
LEMMA WriteKeeps ==
  ASSUME FoldersInv, NEW p \in Path, CreateFile(p) \/ WriteFile(p)
  PROVE  FoldersInv'
<1> USE FileKinds DEF FoldersInv
<1>1. PathOK(p) /\ MapsOK /\ Tree(server) /\ Tree(local)
  BY Types
<1>2. CASE CreateFile(p)
  <2> DEFINE t == MakeFolders(local, p)
  <2>1. /\ Tree(t) /\ InFolder(t, p)
        /\ \A r \in Path : t[r] = IF Below(p, r) THEN Dir ELSE local[r]
    BY <1>1, <1>2, FoldersMade DEF CreateFile
  <2>2. t[p] # Dir /\ IsEmpty(t, p)
    BY <1>2, <2>1, NothingBelow DEF Below, CreateFile
  <2>3. used + 1 \in File /\ local' = [t EXCEPT ![p] = used + 1]
    BY <1>2 DEF CreateFile
  <2> HIDE DEF t
  <2>4. Tree(local') /\ IsFile(local', p) /\ \A r \in Path \ {p} : local'[r] = t[r]
    BY <2>1, <2>2, <2>3, LeafTree DEF Entry, Tree, IsFile
  <2>5. TypeOK'
    BY <1>1, <1>2, <2>4, Types DEF CreateFile, MapsOK, File
  <2>6. ASSUME NEW r \in Path, r # p PROVE PathOK(r)'
    <3>1. /\ cache'[r] = cache[r] /\ opened'[r] = opened[r]
          /\ cached_attr'[r] = cached_attr[r]
          /\ UNCHANGED <<server, refused>>
      BY <1>1, <1>2, <2>6 DEF CreateFile, MapsOK
    <3>2. r \in shadowed => r \in shadowed'
      BY <1>2, <2>6 DEF CreateFile
    <3>3. /\ IsFile(local, r) => t[r] = local[r]
          /\ ~refused /\ t[r] = Dir /\ IsFile(server, r) => local[r] = Dir
      BY <1>2, LocalFolders, SeenIsInFolder DEF CreateFile, Missing, t
    <3> QED
      BY <1>1, <2>4, <2>6, <3>1, <3>2, <3>3, Kept DEF IsFile
  <2>7. PathOK(p)'
    <3>1. /\ cache'[p] = "dirty" /\ opened'[p] = "live" /\ cached_attr'[p] = "file"
          /\ server'[p] = None /\ refused' = refused
      BY <1>1, <1>2 DEF CreateFile, MapsOK, Missing
    <3> QED
      BY <2>4, <3>1 DEF PathOK, OpenOK, EntryOK, SeenOK, IsFile
  <2> QED
    BY <2>5, <2>6, <2>7
<1>3. CASE WriteFile(p)
  <2>1. /\ cache[p] # "none" /\ opened[p] # "no" /\ used + 1 \in File /\ used' = used + 1
        /\ cache' = [cache EXCEPT ![p] = "dirty"]
        /\ UNCHANGED <<server, file_map, opened, file_mutexes, cached_attr, hung,
                       refused, shadowed>>
    BY <1>3 DEF WriteFile, history
  <2>2. /\ opened[p] = "live" => local' = [local EXCEPT ![p] = used + 1]
        /\ opened[p] # "live" => local' = local
    BY <1>3 DEF WriteFile
  <2>3. Tree(local') /\ (IsFile(local, p) => IsFile(local', p))
    <3>1. CASE opened[p] = "live"
      <4>1. IsFile(local, p) /\ IsEmpty(local, p) /\ InFolder(local, p)
        BY <1>1, <3>1, NothingBelow DEF PathOK, OpenOK, Tree, IsFile
      <4> QED
        BY <1>1, <2>1, <2>2, <3>1, <4>1, LeafTree DEF Entry, Tree, IsFile
    <3>2. CASE opened[p] # "live"
      BY <1>1, <2>2, <3>2
    <3> QED
      BY <3>1, <3>2
  <2>4. TypeOK'
    BY <1>1, <2>1, <2>3, Types DEF MapsOK, File
  <2>5. ASSUME NEW r \in Path, r # p PROVE PathOK(r)'
    <3>1. local'[r] = local[r] /\ cache'[r] = cache[r]
      BY <1>1, <2>1, <2>2, <2>5 DEF Tree, MapsOK
    <3> QED
      BY <1>1, <2>1, <3>1, Kept DEF IsFile
  <2>6. PathOK(p)'
    <3>1. cache'[p] = "dirty"
      BY <1>1, <2>1 DEF MapsOK
    <3>2. local'[p] = Dir => local[p] = Dir
      BY <1>1, <2>1, <2>2 DEF Tree
    <3> QED
      BY <1>1, <2>1, <2>3, <3>1, <3>2 DEF PathOK, OpenOK, EntryOK, SeenOK, IsFile
  <2> QED
    BY <2>4, <2>5, <2>6
<1> QED
  BY <1>2, <1>3

\* close_file(), of a modified file and of others.
LEMMA CloseKeeps ==
  ASSUME FoldersInv, NEW p \in Path, CloseClean(p) \/ CloseDirty(p) \/ CloseFails(p)
  PROVE  FoldersInv'
<1> USE FileKinds DEF FoldersInv
<1>1. PathOK(p) /\ MapsOK /\ Tree(server) /\ Tree(local)
  BY Types
<1>2. CASE CloseClean(p) \/ CloseFails(p)
  <2>1. /\ opened[p] # "no" /\ UNCHANGED <<server, local, cache, cached_attr, history>>
        /\ \/ opened' = [opened EXCEPT ![p] = "no"]
           \/ opened' = [opened EXCEPT ![p] = "dead"]
        /\ cache[p] = "dirty" => opened' = [opened EXCEPT ![p] = "dead"]
    BY <1>2 DEF CloseClean, CloseFails
  <2>2. TypeOK'
    BY <1>1, <1>2, <2>1, Types DEF CloseClean, CloseFails, MapsOK, history
  <2>3. ASSUME NEW r \in Path, r # p PROVE PathOK(r)'
    <3>1. opened'[r] = opened[r]
      BY <1>1, <2>1, <2>3 DEF MapsOK
    <3> QED
      BY <1>1, <2>1, <3>1, Kept DEF IsFile, history
  <2>4. PathOK(p)'
    <3>1. opened'[p] # "live" /\ (cache[p] = "dirty" => opened'[p] # "no")
      BY <1>1, <2>1 DEF MapsOK
    <3> QED
      BY <1>1, <2>1, <3>1 DEF PathOK, OpenOK, EntryOK, SeenOK, IsFile, history
  <2> QED
    BY <2>2, <2>3, <2>4
<1>3. CASE CloseDirty(p)
  <2> DEFINE t == MakeFolders(server, p)
  <2>1. /\ Tree(t) /\ InFolder(t, p)
        /\ \A r \in Path : t[r] = IF Below(p, r) THEN Dir ELSE server[r]
        /\ \A r \in Path : Below(p, r) => ~IsFile(server, r)
    BY <1>1, <1>3, FoldersMade DEF CloseDirty, CanStore
  <2> HIDE DEF t
  <2>2. /\ IsFile(local, p) /\ server[p] # Dir /\ cache[p] = "dirty"
        /\ server' = [t EXCEPT ![p] = local[p]]
        /\ cache' = [cache EXCEPT ![p] = "clean"]
        /\ opened' = [opened EXCEPT ![p] = "no"]
        /\ file_map' = file_map \cup {p} /\ file_mutexes' = file_mutexes \ {p}
        /\ shadowed' = shadowed \ {p}
        /\ UNCHANGED <<local, cached_attr, used, hung, refused>>
    BY <1>3 DEF CloseDirty, CanStore, t
  <2>3. t[p] = server[p] /\ IsEmpty(t, p)
    BY <2>1, <2>2, NothingBelow DEF Below
  <2>4. /\ Tree(server') /\ server'[p] = local[p]
        /\ \A r \in Path \ {p} : server'[r] = t[r]
    BY <2>1, <2>2, <2>3, LeafTree DEF Entry, IsFile, Tree
  <2>5. TypeOK'
    BY <1>1, <2>2, <2>4, Types DEF MapsOK
  <2>6. ASSUME NEW r \in Path, r # p PROVE PathOK(r)'
    <3>1. cache'[r] = cache[r] /\ opened'[r] = opened[r] /\ server'[r] = t[r]
      BY <1>1, <2>2, <2>4, <2>6 DEF MapsOK
    <3>2. Below(p, r) => local[r] = Dir
      BY <1>1, <2>2 DEF Tree, InFolder, Above, IsFile
    <3>3. Below(p, r) /\ ~refused /\ cached_attr[r] = "file" => IsFile(server, r)
      BY <3>2 DEF PathOK, SeenOK, IsFile
    <3>4. /\ IsFile(server, r) => server'[r] = server[r]
          /\ server[r] = Dir => server'[r] = Dir
          /\ ~refused /\ server'[r] = Dir => server[r] = Dir \/ cached_attr[r] # "file"
          /\ IsFile(server', r) => IsFile(server, r)
      BY <2>1, <3>1, <3>3 DEF IsFile
    <3> QED
      BY <1>1, <2>2, <2>6, <3>1, <3>4, Kept DEF IsFile
  <2>7. PathOK(p)'
    <3>1. cache'[p] = "clean" /\ opened'[p] = "no"
      BY <1>1, <2>2 DEF MapsOK
    <3> QED
      BY <1>1, <2>2, <2>4, <3>1 DEF PathOK, OpenOK, EntryOK, SeenOK, IsFile
  <2> QED
    BY <2>5, <2>6, <2>7
<1> QED
  BY <1>2, <1>3

\* delete_file(): what is below p stays on both sides, and p with it.
LEMMA DeleteKeeps ==
  ASSUME FoldersInv, NEW p \in Path, DeleteFile(p)
  PROVE  FoldersInv'
<1> USE FileKinds DEF FoldersInv
<1>1. PathOK(p) /\ MapsOK /\ Tree(server) /\ Tree(local)
  BY Types
<1>2. /\ cache' = [cache EXCEPT ![p] = "none"] /\ opened' = [opened EXCEPT ![p] = "no"]
      /\ cached_attr' = [cached_attr EXCEPT ![p] = "none"]
      /\ file_mutexes' = file_mutexes \ {p} /\ shadowed' = shadowed \ {p}
      /\ file_map' \subseteq file_map /\ UNCHANGED <<used, hung, refused>>
  BY DEF DeleteFile
<1>3. /\ \/ server' = server
         \/ server' = [server EXCEPT ![p] = None] /\ IsEmpty(server, p)
      /\ \/ local' = local
         \/ local' = [local EXCEPT ![p] = None] /\ IsEmpty(local, p)
      /\ server[p] = None => UNCHANGED <<server, local>>
      /\ IsFile(server, p) => server' = [server EXCEPT ![p] = None]
  <2>1. IsFile(server, p) => IsEmpty(server, p)
    BY <1>1, NothingBelow DEF IsFile
  <2> QED
    BY <2>1 DEF DeleteFile, IsFile
<1>4. Tree(server') /\ Tree(local')
  BY <1>1, <1>3, LeafTree DEF Entry
<1>5. TypeOK'
  BY <1>1, <1>2, <1>4, Types DEF MapsOK
<1>6. ASSUME NEW r \in Path, r # p PROVE PathOK(r)'
  <2>1. /\ cache'[r] = cache[r] /\ opened'[r] = opened[r]
        /\ cached_attr'[r] = cached_attr[r]
        /\ server'[r] = server[r] /\ local'[r] = local[r]
    BY <1>1, <1>2, <1>3, <1>6 DEF MapsOK, Tree
  <2> QED
    BY <1>1, <1>2, <1>6, <2>1, Kept DEF IsFile
<1>7. PathOK(p)'
  <2>1. cache'[p] = "none" /\ opened'[p] = "no" /\ cached_attr'[p] = "none"
    BY <1>1, <1>2 DEF MapsOK
  <2>2. IsFile(server', p) => server'[p] = server[p] /\ local'[p] \in {local[p], None}
    BY <1>1, <1>3 DEF Tree, IsFile
  <2>3. server'[p] \in {server[p], None} /\ local'[p] \in {local[p], None}
    BY <1>1, <1>3 DEF Tree
  <2> QED
    BY <1>1, <1>2, <2>1, <2>2, <2>3 DEF PathOK, OpenOK, EntryOK, SeenOK, IsFile
<1> QED
  BY <1>5, <1>6, <1>7

-----------------------------------------------------------------------------
(***************************************************************************)
(* rename_file().                                                          *)
(***************************************************************************)
\* m becomes n: what was under p is under q, and replaces what was there.
Rekeys(m, n, none, p, q) ==
  \A r \in Path :
    LET o == Moved(r, q, p) IN
    /\ Under(r, q) /\ o \in Path /\ m[o] # none => n[r] = m[o]
    /\ Under(r, q) /\ ~(o \in Path /\ m[o] # none) => n[r] = m[r]
    /\ Under(r, p) => n[r] = none
    /\ ~Under(r, q) /\ ~Under(r, p) => n[r] = m[r]

\* What update_map_keys() makes of a map.
LEMMA Rekeyed ==
  ASSUME NEW S, NEW none \in S, NEW m \in [Path -> S], NEW p \in Path, NEW q \in Path,
         ~Under(q, p), ~Under(p, q)
  PROVE  /\ UpdateMapKeys(m, none, p, q) \in [Path -> S]
         /\ Rekeys(m, UpdateMapKeys(m, none, p, q), none, p, q)
<1>1. \A r \in Path : ~(Under(r, p) /\ Under(r, q))
  BY Apart
<1>2. UpdateMapKeys(m, none, p, q) \in [Path -> S]
  BY DEF UpdateMapKeys, Arrives
<1>3. Rekeys(m, UpdateMapKeys(m, none, p, q), none, p, q)
  BY <1>1 DEF UpdateMapKeys, Arrives, Rekeys
<1> QED
  BY <1>2, <1>3

\* Below the target there is no file in the cache directory.
LEMMA NothingLocalBelow ==
  ASSUME Tree(local), NEW q \in Path, ~Collides(q), NEW r \in Path, Below(r, q)
  PROVE  local[r] = None
BY DEF Tree, InFolder, Above, Collides, IsEmpty

\* The file or folder that is cached takes the place of q; if there is none,
\* it is as if nothing were moved there.
LEMMA LocalMoved ==
  ASSUME Tree(local), NEW p \in Path, NEW q \in Path, ~Under(q, p), ~Under(p, q),
         ~Collides(q), local[p] # None => InFolder(local, q), RenameLocal(p, q)
  PROVE  /\ Tree(local')
         /\ \A r \in Path :
              LET o == Moved(r, q, p) IN
              /\ Under(r, q) => local'[r] = IF o \in Path THEN local[o] ELSE None
              /\ Under(r, p) => local'[r] = None
              /\ ~Under(r, q) /\ ~Under(r, p) => local'[r] = local[r]
<1> USE FileKinds
<1>1. \A r \in Path : ~(Under(r, p) /\ Under(r, q))
  BY Apart
<1>2. CASE local[p] # None
  <2>1. local' = MoveTree(local, p, q)
    BY <1>2 DEF RenameLocal
  <2>2. Tree(local')
    BY <1>2, <2>1, MovedTree
  <2> QED
    BY <1>1, <2>1, <2>2 DEF MoveTree
<1>3. CASE local[p] = None
  <2>1. local' = [local EXCEPT ![q] = None]
    BY <1>3 DEF RenameLocal
  <2>2. IsEmpty(local, q)
    BY NothingLocalBelow DEF IsEmpty
  <2>3. Tree(local')
    BY <2>1, <2>2, LeafTree DEF Entry
  <2>4. \A r \in Path : Under(r, p) => local[r] = None
    BY <1>3 DEF Tree, InFolder, Above, Below
  <2>5. \A r \in Path : Under(r, q) => local'[r] = None
    BY <2>1, <2>2 DEF IsEmpty, Below, Tree
  <2>6. \A r \in Path : ~Under(r, q) => local'[r] = local[r]
    BY <2>1, PathOrder DEF Tree
  <2>7. \A r \in Path : Under(r, q) /\ Moved(r, q, p) \in Path => Under(Moved(r, q, p), p)
    BY MovedPath
  <2> QED
    BY <1>1, <2>3, <2>4, <2>5, <2>6, <2>7
<1> QED
  BY <1>2, <1>3

(***************************************************************************)
(* The server moves what it has, unless it refuses to.                     *)
(***************************************************************************)
LEMMA ServerMoved ==
  ASSUME FoldersInv, NEW p \in Path, NEW q \in Path, Rename(p, q)
  PROVE  /\ Tree(server') /\ MapsOK'
         /\ ~refused' =>
              /\ ~refused
              /\ server[p] = None => server' = server
              /\ server[p] # None => server' = MoveTree(server, p, q) /\ CanReplace(p, q)
<1> USE FileKinds DEF FoldersInv
<1> DEFINE t == MakeFolders(server, q)
<1>1. Tree(server) /\ MapsOK /\ ~Under(q, p) /\ ~Under(p, q) /\ InSeen(q)
      /\ RenameServer(p, q) /\ RenameLocal(p, q) /\ UNCHANGED <<file_mutexes, used>>
  BY Types DEF Rename
<1>2. CanMakeFolders(server, q) => Tree(t) /\ InFolder(t, q)
  BY <1>1, FoldersMade
<1>3. CanMakeFolders(server, q) => Tree(MoveTree(t, p, q))
  BY <1>1, <1>2, MovedTree
<1>4. Tree(server')
  BY <1>1, <1>2, <1>3 DEF RenameServer
<1>5. MapsOK'
  <2> DEFINE gone == IF local[q] = None THEN opened
                     ELSE [opened EXCEPT ![q] = IF @ = "live" THEN "dead" ELSE @]
  <2>1. gone \in [Path -> {"no", "live", "dead"}]
    BY <1>1 DEF MapsOK
  <2>2. /\ cache' = UpdateMapKeys(cache, "none", p, q)
        /\ opened' = UpdateMapKeys(gone, "no", p, q)
        /\ cached_attr' = UpdateMapKeys(cached_attr, "none", p, q)
        /\ shadowed' \subseteq Path
    BY <1>1 DEF RenameLocal
  <2> HIDE DEF gone
  <2>3. cache' \in [Path -> {"none", "clean", "dirty"}]
    BY <1>1, <2>2, Rekeyed DEF MapsOK
  <2>4. opened' \in [Path -> {"no", "live", "dead"}]
    BY <1>1, <2>1, <2>2, Rekeyed DEF MapsOK
  <2>5. cached_attr' \in [Path -> {"none", "file", "dir"}]
    BY <1>1, <2>2, Rekeyed DEF MapsOK
  <2>6. file_map' \subseteq Path /\ hung' \in BOOLEAN /\ refused' \in BOOLEAN
    BY <1>1 DEF RenameServer, MapsOK
  <2> QED
    BY <1>1, <2>2, <2>3, <2>4, <2>5, <2>6 DEF MapsOK
<1>6. ASSUME ~refused'
      PROVE  /\ ~refused
             /\ server[p] = None => server' = server
             /\ server[p] # None => server' = MoveTree(server, p, q) /\ CanReplace(p, q)
  <2>1. ~refused
    BY <1>1, <1>6 DEF RenameServer, MapsOK
  <2>2. \A d \in Path : Below(q, d) => server[d] = Dir
    BY <1>1, <2>1 DEF InSeen, Seen, Above, PathOK, SeenOK
  <2>3. CanMakeFolders(server, q)
    BY <2>2 DEF CanMakeFolders, Above, IsFile
  <2>4. t = server
    BY <1>1, <2>2 DEF MakeFolders, Above, Tree
  <2>5. server[p] = None => server' = server
    BY <1>1, <2>3, <2>4 DEF RenameServer
  <2>6. server[p] # None => server' = MoveTree(server, p, q) /\ CanReplace(p, q)
    BY <1>1, <1>6, <2>3, <2>4 DEF RenameServer
  <2> QED
    BY <2>1, <2>5, <2>6
<1> QED
  BY <1>4, <1>5, <1>6

(***************************************************************************)
(* If the server has not refused, nothing below q is there, or seen, or    *)
(* cached: what is renamed to q comes into its place alone.                *)
(***************************************************************************)
LEMMA NothingSeenBelow ==
  ASSUME FoldersInv, NEW p \in Path, NEW q \in Path, Rename(p, q), ~refused',
         NEW r \in Path, Below(r, q)
  PROVE  server[r] = None /\ cached_attr[r] = "none" /\ cache[r] = "none"
<1> USE FileKinds DEF FoldersInv
<1>1. Tree(server) /\ Tree(local) /\ MapsOK /\ PathOK(p) /\ PathOK(q) /\ PathOK(r)
  BY Types
<1>2. ~refused /\ (server[p] # None => CanReplace(p, q))
  BY ServerMoved
<1>3. server[r] = None
  <2> SUFFICES ASSUME server[r] # None PROVE FALSE
    OBVIOUS
  <2>1. server[q] = Dir /\ ~IsEmpty(server, q)
    BY <1>1 DEF Tree, InFolder, Above, IsEmpty
  <2>2. CASE server[p] # None
    BY <1>2, <2>1, <2>2 DEF CanReplace, IsFile
  <2>3. CASE server[p] = None
    <3>1. cached_attr[p] = "file" /\ (server[q] = None \/ cached_attr[q] = "file")
      BY <1>1, <1>2, <2>3 DEF Rename, Missing, PathOK, SeenOK, MapsOK
    <3> QED
      BY <1>1, <1>2, <2>1, <3>1 DEF PathOK, SeenOK
  <2> QED
    BY <2>2, <2>3
<1>4. local[r] = None
  BY <1>1, NothingLocalBelow DEF Rename
<1>5. cached_attr[r] = "none"
  BY <1>1, <1>2, <1>3, <1>4 DEF PathOK, SeenOK, IsFile, MapsOK
<1> QED
  BY <1>1, <1>2, <1>3, <1>5 DEF PathOK, SeenOK

\* rename_file() keeps what is known of every path: of q and what is below it,
\* of p and what is below it, and of all others.
LEMMA RenameKeeps ==
  ASSUME FoldersInv, NEW p \in Path, NEW q \in Path, Rename(p, q)
  PROVE  FoldersInv'
<1> USE FileKinds
<1> DEFINE o(r) == Moved(r, q, p)
           gone == IF local[q] = None THEN opened
                   ELSE [opened EXCEPT ![q] = IF @ = "live" THEN "dead" ELSE @]
<1>1. /\ Tree(server) /\ Tree(local) /\ MapsOK /\ \A r \in Path : PathOK(r)
      /\ cached_attr[p] # "none" /\ ~Under(q, p) /\ ~Under(p, q) /\ ~Collides(q)
      /\ Missing(q) \/ cached_attr[q] = cached_attr[p]
      /\ local[p] # None => InFolder(local, q)
      /\ RenameLocal(p, q)
  BY Types DEF Rename, FoldersInv
<1>2. /\ Tree(local')
      /\ \A r \in Path :
           /\ Under(r, q) => local'[r] = IF o(r) \in Path THEN local[o(r)] ELSE None
           /\ Under(r, p) => local'[r] = None
           /\ ~Under(r, q) /\ ~Under(r, p) => local'[r] = local[r]
  BY <1>1, LocalMoved
<1>3. /\ Tree(server') /\ MapsOK' /\ (~refused' => ~refused)
      /\ ~refused' /\ server[p] = None => server' = server
      /\ ~refused' /\ server[p] # None => server' = MoveTree(server, p, q)
  BY ServerMoved
<1>4. TypeOK'
  BY <1>2, <1>3, Types
<1>5. /\ cache' = UpdateMapKeys(cache, "none", p, q)
      /\ opened' = UpdateMapKeys(gone, "no", p, q)
      /\ cached_attr' = UpdateMapKeys(cached_attr, "none", p, q)
      /\ shadowed' = {r \in Path :
                        IF Arrives(cache, "none", r, p, q) THEN o(r) \in shadowed
                        ELSE /\ ~Under(r, p)
                             /\ r \in shadowed \/ (r = q /\ cache[q] # "none")}
  BY <1>1 DEF RenameLocal
<1>6. /\ gone \in [Path -> {"no", "live", "dead"}]
      /\ \A r \in Path : gone[r] = "no" <=> opened[r] = "no"
      /\ \A r \in Path : r # q => gone[r] = opened[r]
      /\ gone[q] # "live"
  BY <1>1 DEF MapsOK, PathOK, OpenOK, IsFile
<1>7. /\ Rekeys(cache, cache', "none", p, q) /\ Rekeys(gone, opened', "no", p, q)
       /\ Rekeys(cached_attr, cached_attr', "none", p, q)
  <2> HIDE DEF gone
  <2>1. /\ cache \in [Path -> {"none", "clean", "dirty"}]
        /\ cached_attr \in [Path -> {"none", "file", "dir"}]
    BY <1>1 DEF MapsOK
  <2>2. Rekeys(cache, cache', "none", p, q)
    BY <1>1, <1>5, <2>1, Rekeyed
  <2>3. Rekeys(gone, opened', "no", p, q)
    BY <1>1, <1>5, <1>6, Rekeyed
  <2>4. Rekeys(cached_attr, cached_attr', "none", p, q)
    BY <1>1, <1>5, <2>1, Rekeyed
  <2> QED
    BY <2>2, <2>3, <2>4
<1> HIDE DEF o, gone
\* The entries of r, if it is under q.
<1>8. ASSUME NEW r \in Path, Under(r, q)
      PROVE  /\ o(r) \in Path => Under(o(r), p) /\ o(r) # q
             /\ r = q => o(r) = p
             /\ o(r) \in Path /\ cache[o(r)] # "none" =>
                  cache'[r] = cache[o(r)] /\ (r \in shadowed' <=> o(r) \in shadowed)
             /\ ~(o(r) \in Path /\ cache[o(r)] # "none") =>
                  /\ cache'[r] = cache[r]
                  /\ r \notin shadowed' =>
                       r \notin shadowed /\ ~(r = q /\ cache[q] # "none")
             /\ o(r) \in Path /\ opened[o(r)] # "no" => opened'[r] = opened[o(r)]
             /\ ~(o(r) \in Path /\ opened[o(r)] # "no") => opened'[r] = gone[r]
             /\ o(r) \in Path /\ cached_attr[o(r)] # "none" =>
                  cached_attr'[r] = cached_attr[o(r)]
             /\ ~(o(r) \in Path /\ cached_attr[o(r)] # "none") =>
                  cached_attr'[r] = cached_attr[r]
  <2>1. o(r) \in Path => Under(o(r), p) /\ o(r) # q
    BY <1>1, <1>8, MovedPath DEF o
  <2>2. r = q => o(r) = p
    BY <1>1, PathOrder, PathAssumption, MovedUnder DEF o
  <2>3. /\ o(r) \in Path /\ cache[o(r)] # "none" => cache'[r] = cache[o(r)]
        /\ ~(o(r) \in Path /\ cache[o(r)] # "none") => cache'[r] = cache[r]
    BY <1>8, <1>7 DEF o, Rekeys
  <2>4. /\ o(r) \in Path /\ gone[o(r)] # "no" => opened'[r] = gone[o(r)]
        /\ ~(o(r) \in Path /\ gone[o(r)] # "no") => opened'[r] = gone[r]
    BY <1>8, <1>7 DEF o, Rekeys
  <2>5. /\ o(r) \in Path /\ cached_attr[o(r)] # "none" =>
             cached_attr'[r] = cached_attr[o(r)]
        /\ ~(o(r) \in Path /\ cached_attr[o(r)] # "none") =>
             cached_attr'[r] = cached_attr[r]
    BY <1>8, <1>7 DEF o, Rekeys
  <2>6. ~Under(r, p)
    BY <1>1, <1>8, Apart
  <2>7. /\ o(r) \in Path /\ cache[o(r)] # "none" =>
             (r \in shadowed' <=> o(r) \in shadowed)
        /\ ~(o(r) \in Path /\ cache[o(r)] # "none") =>
             (r \notin shadowed' => r \notin shadowed /\ ~(r = q /\ cache[q] # "none"))
    BY <1>5, <1>8, <2>6 DEF Arrives, o
  <2> QED
    BY <1>6, <2>1, <2>2, <2>3, <2>4, <2>5, <2>7
\* The server's file, if the rename is not refused.
<1>9. ASSUME NEW r \in Path, Under(r, q), ~refused'
      PROVE  /\ server[p] # None =>
                  server'[r] = IF o(r) \in Path THEN server[o(r)] ELSE None
             /\ server[p] = None =>
                  server'[r] = server[r] /\ (o(r) \in Path => server[o(r)] = None)
  <2>1. o(r) \in Path /\ server[p] = None => server[o(r)] = None
    BY <1>1, <1>8, <1>9 DEF Tree, InFolder, Above, Below
  <2> QED
    BY <1>3, <1>9, <2>1 DEF MoveTree, o
<1>10. ASSUME NEW r \in Path, Under(r, q) PROVE PathOK(r)'
  <2>1. r # q => local[r] = None
    BY <1>1, <1>10, NothingLocalBelow DEF Below
  <2>2. gone[r] # "live"
    BY <1>1, <1>6, <2>1 DEF PathOK, OpenOK, IsFile
  <2>3. OpenOK(r)'
    BY <1>1, <1>2, <1>6, <1>8, <1>10, <2>2 DEF PathOK, OpenOK, IsFile
  <2>4. EntryOK(r)'
    BY <1>1, <1>2, <1>3, <1>8, <1>9, <1>10, <2>1 DEF PathOK, EntryOK, IsFile
  <2>5. SeenOK(r)'
    <3> SUFFICES ASSUME ~refused' PROVE SeenOK(r)'
      BY DEF SeenOK
    <3>1. r # q => server[r] = None /\ cached_attr[r] = "none" /\ cache[r] = "none"
      BY <1>10, NothingSeenBelow DEF Below
    <3>2. ~refused /\ PathOK(q) /\ PathOK(p)
      BY <1>1, <1>3
    <3>3. cached_attr'[r] # "none" =>
            /\ o(r) \in Path /\ cached_attr[o(r)] # "none"
            /\ cached_attr'[r] = cached_attr[o(r)]
      BY <1>1, <1>8, <1>10, <3>1
    <3>4. cached_attr'[r] = "dir" => server'[r] = Dir
      BY <1>1, <1>9, <1>10, <3>2, <3>3 DEF PathOK, SeenOK
    <3>5. ASSUME cached_attr'[r] = "file"
          PROVE  /\ server'[r] # Dir
                 /\ IsFile(server', r) \/ (cache'[r] = "dirty" /\ IsFile(local', r))
      <4>1. /\ o(r) \in Path /\ server[o(r)] # Dir
            /\ IsFile(server, o(r)) \/ (cache[o(r)] = "dirty" /\ IsFile(local, o(r)))
        BY <1>1, <3>2, <3>3, <3>5 DEF PathOK, SeenOK
      <4>2. cache[o(r)] = "dirty" /\ IsFile(local, o(r)) =>
              cache'[r] = "dirty" /\ IsFile(local', r)
        BY <1>2, <1>8, <1>10, <4>1 DEF IsFile
      <4>3. CASE server[p] # None
        BY <1>9, <1>10, <4>1, <4>2, <4>3 DEF IsFile
      <4>4. CASE server[p] = None
        <5>1. server'[r] = server[r] /\ ~IsFile(server, o(r))
          BY <1>9, <1>10, <4>1, <4>4 DEF IsFile
        <5>2. r = q => server[r] # Dir
          BY <1>1, <1>8, <1>10, <3>2, <3>3, <3>5 DEF Missing, PathOK, SeenOK
        <5> QED
          BY <3>1, <4>1, <4>2, <5>1, <5>2
      <4> QED
        BY <4>3, <4>4
    <3>6. cache'[r] # "none" => cached_attr'[r] = "file"
      <4>1. CASE o(r) \in Path /\ cache[o(r)] # "none"
        BY <1>1, <1>8, <1>10, <3>2, <4>1 DEF PathOK, SeenOK
      <4>2. CASE ~(o(r) \in Path /\ cache[o(r)] # "none")
        BY <1>1, <1>8, <1>10, <3>1, <3>2, <4>2 DEF Missing, PathOK, SeenOK
      <4> QED
        BY <4>1, <4>2
    <3>7. local'[r] = Dir => ~IsFile(server', r)
      <4> SUFFICES ASSUME local'[r] = Dir PROVE ~IsFile(server', r)
        OBVIOUS
      <4>1. o(r) \in Path /\ local[o(r)] = Dir /\ ~IsFile(server, o(r))
        BY <1>1, <1>2, <1>10, <3>2 DEF PathOK, SeenOK
      <4>2. CASE server[p] # None
        BY <1>9, <1>10, <4>1, <4>2 DEF IsFile
      <4>3. CASE server[p] = None
        <5>1. server'[r] = server[r]
          BY <1>9, <1>10, <4>3
        <5>2. r = q => local[p] = Dir
          BY <1>8, <1>10, <4>1
        <5>3. r # q
          BY <1>1, <3>2, <4>3, <5>2 DEF PathOK, SeenOK, IsFile, MapsOK
        <5> QED
          BY <3>1, <5>1, <5>3 DEF IsFile
      <4> QED
        BY <4>2, <4>3
    <3> QED
      BY <3>4, <3>5, <3>6, <3>7 DEF SeenOK
  <2> QED
    BY <2>3, <2>4, <2>5 DEF PathOK
<1>11. ASSUME NEW r \in Path, ~Under(r, q), Under(r, p) PROVE PathOK(r)'
  <2>1. cache'[r] = "none" /\ opened'[r] = "no" /\ cached_attr'[r] = "none"
    BY <1>11, <1>7 DEF Rekeys
  <2> QED
    BY <1>2, <1>11, <2>1 DEF PathOK, OpenOK, EntryOK, SeenOK
<1>12. ASSUME NEW r \in Path, ~Under(r, q), ~Under(r, p) PROVE PathOK(r)'
  <2>1. r # q
    BY <1>12, PathOrder
  <2>2. /\ cache'[r] = cache[r] /\ cached_attr'[r] = cached_attr[r]
        /\ opened'[r] = opened[r]
    BY <1>6, <1>12, <1>7, <2>1 DEF Rekeys
  <2>3. r \in shadowed => r \in shadowed'
    BY <1>5, <1>12 DEF Arrives
  <2>4. local'[r] = local[r] /\ (~refused' => server'[r] = server[r])
    BY <1>2, <1>3, <1>12 DEF MoveTree
  <2> QED
    BY <1>1, <1>3, <2>2, <2>3, <2>4, Kept DEF IsFile
<1> QED
  BY <1>4, <1>10, <1>11, <1>12 DEF FoldersInv

-----------------------------------------------------------------------------
(***************************************************************************)
(* The inductive invariant, and what it is for.                            *)
(***************************************************************************)
\* In the beginning the cache directory and the maps are empty.
LEMMA FoldersInvInit == Init => FoldersInv
<1> SUFFICES ASSUME Init PROVE FoldersInv
  OBVIOUS
<1> USE FileKinds DEF Init
<1>1. Tree(server)
  BY NewAssumption DEF Tree, Entry, File
<1>2. Tree(local)
  BY DEF Tree, Entry
<1>3. MapsOK
  <2>1. used \in 0 .. First + MaxNew
    BY NewAssumption
  <2>2. /\ cache \in [Path -> {"none", "clean", "dirty"}]
        /\ opened \in [Path -> {"no", "live", "dead"}]
        /\ cached_attr \in [Path -> {"none", "file", "dir"}]
    OBVIOUS
  <2> QED
    BY <2>1, <2>2 DEF MapsOK
<1>4. ASSUME NEW p \in Path PROVE PathOK(p)
  BY DEF PathOK, OpenOK, EntryOK, SeenOK
<1> QED
  BY <1>1, <1>2, <1>3, <1>4, Types DEF FoldersInv

\* Every operation keeps it.
LEMMA FoldersInvNext == FoldersInv /\ [Next]_vars => FoldersInv'
<1> SUFFICES ASSUME FoldersInv, [Next]_vars PROVE FoldersInv'
  OBVIOUS
<1>1. CASE Operation
  BY <1>1, LookupKeeps, OpenKeeps, WriteKeeps, CloseKeeps, DeleteKeeps, RenameKeeps
  DEF Operation
<1>2. CASE UNCHANGED vars
  BY <1>2 DEF vars, entries, history, FoldersInv, TypeOK, InFolder, PathOK, OpenOK,
     EntryOK, SeenOK, IsFile
<1> QED
  BY <1>1, <1>2 DEF Next

\* The inductive invariant holds in every behaviour.
THEOREM FoldersInvHolds == Spec => []FoldersInv
BY FoldersInvInit, FoldersInvNext, PTL DEF Spec

(***************************************************************************)
(* The maps keep their types, and both sides are trees: what is there is   *)
(* in folders that are there.  For any finite set of paths with all their  *)
(* parents, of any depth, and any number of files.                         *)
(***************************************************************************)
THEOREM FoldersTypes == Spec => []TypeOK
<1>1. FoldersInv => TypeOK
  BY DEF FoldersInv
<1> QED
  BY <1>1, FoldersInvHolds, PTL

(***************************************************************************)
(* What is cached under a path, and not modified, is the file the server   *)
(* has there, through renames and removals at any depth: unless something  *)
(* that is not cached was renamed onto it (`shadowed`), or the server      *)
(* refused a rename (`refused`).                                           *)
(***************************************************************************)
THEOREM FoldersClean == Spec => []CleanIsServers
<1>1. FoldersInv => CleanIsServers
  BY DEF FoldersInv, PathOK, EntryOK, CleanIsServers
<1> QED
  BY <1>1, FoldersInvHolds, PTL

(***************************************************************************)
(* A modified file keeps its local file and its open entry under the path  *)
(* of its cache entry, unless something that is not cached was renamed     *)
(* onto it (`shadowed`).                                                   *)
(***************************************************************************)
THEOREM FoldersDirtyHasFile == Spec => []DirtyHasItsFile
<1>1. FoldersInv => DirtyHasItsFile
  BY DEF FoldersInv, PathOK, EntryOK, OpenOK, DirtyHasItsFile
<1> QED
  BY <1>1, FoldersInvHolds, PTL

(***************************************************************************)
(* A close_file() that finds the mutex of a modified file can send it and  *)
(* the server can store it: the file is in folders here, which are no      *)
(* files there, and was seen to be no folder itself.  The exceptions are   *)
(* `shadowed` and `refused`.                                               *)
(***************************************************************************)
THEOREM FoldersDirtyStored == Spec => []DirtyCanBeStored
<1>1. FoldersInv => DirtyCanBeStored
  <2> SUFFICES ASSUME FoldersInv, ~refused, NEW p \in Path \ shadowed,
                      cache[p] = "dirty"
               PROVE  IsFile(local, p) /\ CanStore(p)
    BY DEF DirtyCanBeStored
  <2>1. Tree(local) /\ IsFile(local, p) /\ server[p] # Dir
    BY Types DEF FoldersInv, PathOK, EntryOK, SeenOK
  <2>2. \A d \in Above(p) : d \in Path /\ local[d] = Dir
    BY <2>1, FileKinds DEF Tree, InFolder, IsFile, Above
  <2>3. CanMakeFolders(server, p)
    BY <2>2 DEF CanMakeFolders, FoldersInv, PathOK, SeenOK
  <2> QED
    BY <2>1, <2>3 DEF CanStore
<1> QED
  BY <1>1, FoldersInvHolds, PTL

(***************************************************************************)
(* Cached attributes are of files and folders that exist, unless the       *)
(* server refused a rename (`refused`).                                    *)
(***************************************************************************)
THEOREM FoldersSeen == Spec => []SeenExists
<1>1. FoldersInv => SeenExists
  BY DEF FoldersInv, PathOK, SeenOK, SeenExists
<1> QED
  BY <1>1, FoldersInvHolds, PTL
=============================================================================
