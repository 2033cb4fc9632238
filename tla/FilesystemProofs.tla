-------------------------- MODULE FilesystemProofs --------------------------
(* Proofs about the tables of module Filesystem, for every set of names,   *)
(* flags and payloads, both kinds of service, and any number of inodes.    *)
EXTENDS Filesystem, FiniteSetTheorems, TLAPS

(* A writer that holds the object's current file is on an object that is there
   and is a file: no unlink, rmdir, mkdir, create or outside change leaves such
   a writer behind on a missing object or on a directory. *)
AttachedBacked ==
    \A path \in DOMAIN opened_files_writer :
        opened_files_writer[path].attached => IsFile(Obj(path))

TablesTypeOK ==
    /\ opened_files \in Seq(Paths)
    /\ \A i \in 1 .. Len(opened_files) : Len(opened_files[i]) >= 2
    /\ opened_files_map \in [DOMAIN opened_files_map -> Nat]

ServiceTypeOK ==
    /\ opened_files_writer \in [DOMAIN opened_files_writer -> Writers]
    /\ store \in [DOMAIN store -> Nodes]
    /\ reply.error \in Errors

TablesInv == TablesTypeOK /\ MapSlabCoherent /\ RootResolves

ServiceInv == ServiceTypeOK /\ AttachedBacked /\ CountNeverAhead

-----------------------------------------------------------------------------
(* The six things a step can do to the slab and the map.                   *)

InsertsOne ==
    \E path \in Paths :
        /\ opened_files # <<>>
        /\ Len(path) >= 2 /\ path # RootPath
        /\ opened_files' = Append(opened_files, path)
        /\ opened_files_map' = Bind(opened_files_map, path, Len(opened_files))

InsertsListed ==
    \E n \in Nat, order \in Seq(Paths) :
        /\ opened_files # <<>>
        /\ Len(order) = n
        /\ \A i \in 1 .. n : Len(order[i]) >= 3 /\ order[i] \notin DOMAIN opened_files_map
        /\ \A i, j \in 1 .. n : order[i] = order[j] => i = j
        /\ opened_files' = opened_files \o order
        /\ opened_files_map' =
             [k \in DOMAIN opened_files_map \cup {order[i] : i \in 1 .. n} |->
                IF k \in DOMAIN opened_files_map THEN opened_files_map[k]
                ELSE Len(opened_files) + (CHOOSE i \in 1 .. n : order[i] = k) - 1]

InsertsRoot ==
    /\ opened_files' = opened_files \o <<RootPath, RootPath>>
    /\ opened_files_map' = Bind(opened_files_map, RootPath, RootInode)

DropsOne ==
    \E path \in Paths :
        /\ path # RootPath
        /\ opened_files' = opened_files
        /\ opened_files_map' = Unbind(opened_files_map, path)

Empties ==
    opened_files' = <<>> /\ opened_files_map' = <<>> /\ opened_files_writer' = <<>>

TablesStep ==
    \/ UNCHANGED tables
    \/ InsertsOne \/ InsertsListed \/ InsertsRoot \/ DropsOne \/ Empties

-----------------------------------------------------------------------------
(* Path strings the handlers build are never "/" itself.                   *)

LEMMA ConcatParts ==
    ASSUME NEW S, NEW s \in Seq(S), NEW t \in Seq(S)
    PROVE  /\ Len(s \o t) = Len(s) + Len(t)
           /\ \A i \in 1 .. Len(s) : (s \o t)[i] = s[i]
           /\ \A i \in 1 .. Len(t) : (s \o t)[Len(s) + i] = t[i]
  <1>1. Len(s \o t) = Len(s) + Len(t) /\ \A i \in 1 .. Len(s) : (s \o t)[i] = s[i]
    OBVIOUS
  <1>2. ASSUME NEW i \in 1 .. Len(t) PROVE (s \o t)[Len(s) + i] = t[i]
    <2>1. Len(s) + i \in 1 .. (Len(s) + Len(t)) /\ ~(Len(s) + i <= Len(s))
      OBVIOUS
    <2>2. (Len(s) + i) - Len(s) = i
      OBVIOUS
    <2> QED
      BY <2>1, <2>2
  <1> QED
    BY <1>1, <1>2

LEMMA JoinPath ==
    ASSUME NEW path \in Paths, Len(path) >= 2, NEW name \in Names
    PROVE  Join(path, name) \in Paths /\ Len(Join(path, name)) >= 3 /\ Join(path, name) # RootPath
  <1>1. Join(path, name) \in Paths
    BY DEF Join, Paths, Segments
  <1>2. Len(Join(path, name)) = Len(path) + 1
    BY DEF Join, Paths
  <1>3. Len(RootPath) = 2
    BY DEF RootPath
  <1> QED
    BY <1>1, <1>2, <1>3 DEF Paths

LEMMA EntryKeyPath ==
    ASSUME NEW path \in Paths, Len(path) >= 2, NEW name \in Names
    PROVE  EntryKey(path, name) \in Paths /\ Len(EntryKey(path, name)) >= 3
  <1>1. WithSlash(path) \in Paths /\ Len(WithSlash(path)) >= 2
    BY DEF WithSlash, Paths, Segments
  <1>2. Append(WithSlash(path), name) \in Paths /\ Len(Append(WithSlash(path), name)) >= 3
    BY <1>1 DEF Paths, Segments
  <1> QED
    BY <1>2 DEF EntryKey, Paths, Segments

LEMMA ResolvedPath ==
    ASSUME TablesTypeOK, NEW node \in Nat, Resolves(node)
    PROVE  PathOf(node) \in Paths /\ Len(PathOf(node)) >= 2 /\ opened_files # <<>>
  BY DEF TablesTypeOK, Resolves, PathOf

-----------------------------------------------------------------------------
(* What object a path string names.                                        *)

LEMMA NamedFinite ==
    ASSUME NEW path \in Paths
    PROVE  /\ Named(path) \subseteq 1 .. Len(path)
           /\ IsFiniteSet(Named(path)) /\ Cardinality(Named(path)) \in Nat
  <1>1. Named(path) \subseteq 1 .. Len(path)
    BY DEF Named, Paths
  <1>2. IsFiniteSet(1 .. Len(path))
    BY FS_Interval DEF Paths
  <1> QED
    BY <1>1, <1>2, FS_Subset, FS_CardinalityType

(* The segments of rank k, of which there is one when k is not too large. *)
SegmentsAt(path, k) == {path[i] : i \in {j \in Named(path) : Rank(j, Named(path)) = k}}

LEMMA ObjSegments ==
    ASSUME NEW path
    PROVE  Obj(path) = [k \in 1 .. Cardinality(Named(path)) |-> Only(SegmentsAt(path, k))]
  BY DEF Obj, SegmentsAt

(* A trailing or doubled slash names nothing more. *)
LEMMA ObjSlash ==
    ASSUME NEW path \in Paths
    PROVE  Obj(Append(path, Empty)) = Obj(path)
  <1> DEFINE longer == Append(path, Empty)
  <1>1. DOMAIN longer = 1 .. (Len(path) + 1) /\ longer[Len(path) + 1] = Empty
    BY DEF Paths
  <1>2. \A i \in 1 .. Len(path) : longer[i] = path[i]
    BY DEF Paths
  <1>3. Named(longer) = Named(path)
    BY <1>1, <1>2 DEF Named, Paths
  <1> HIDE DEF longer
  <1>4. ASSUME NEW k PROVE SegmentsAt(longer, k) = SegmentsAt(path, k)
    BY <1>2, <1>3, NamedFinite DEF SegmentsAt
  <1>5. Obj(longer) = Obj(path)
    BY <1>3, <1>4, ObjSegments
  <1> QED
    BY <1>5 DEF longer

(* A name behind a path is the last name of the object. *)
LEMMA ObjName ==
    ASSUME NEW path \in Paths, NEW name \in Names
    PROVE  Obj(Append(path, name)) = Append(Obj(path), name)
  <1> DEFINE longer == Append(path, name)
             last == Len(path) + 1
             count == Cardinality(Named(path))
  <1>0. /\ last \in Nat /\ last \notin Named(path)
        /\ Named(path) \subseteq 1 .. Len(path) /\ IsFiniteSet(Named(path)) /\ count \in Nat
    BY NamedFinite DEF Paths
  <1>1. DOMAIN longer = 1 .. last /\ longer[last] = name /\ name # Empty
    BY NamesAssumption DEF Paths
  <1>2. \A i \in 1 .. Len(path) : longer[i] = path[i]
    BY DEF Paths
  <1>3. Named(longer) = Named(path) \cup {last}
    BY <1>1, <1>2 DEF Named, Paths
  <1> HIDE DEF longer, last, count
  <1>4. Cardinality(Named(longer)) = count + 1
    BY <1>0, <1>3, FS_AddElement DEF count
  <1>5. \A i \in Named(path) : i < last
    BY <1>0 DEF last, Paths
  <1>6. ASSUME NEW i \in Named(path)
        PROVE  /\ Rank(i, Named(longer)) = Rank(i, Named(path))
               /\ Rank(i, Named(path)) \in Nat /\ Rank(i, Named(path)) <= count
    <2>1. {j \in Named(longer) : j <= i} = {j \in Named(path) : j <= i}
      BY <1>0, <1>3, <1>5 DEF Paths
    <2>2. {j \in Named(path) : j <= i} \subseteq Named(path)
      OBVIOUS
    <2>3. /\ Cardinality({j \in Named(path) : j <= i}) <= count
          /\ IsFiniteSet({j \in Named(path) : j <= i})
      BY <1>0, <2>2, FS_Subset DEF count
    <2> QED
      BY <2>1, <2>3, FS_CardinalityType DEF Rank
  <1>7. Rank(last, Named(longer)) = count + 1
    <2>1. {j \in Named(longer) : j <= last} = Named(longer)
      BY <1>0, <1>3, <1>5
    <2> QED
      BY <2>1, <1>4 DEF Rank
  <1>8. ASSUME NEW k \in 1 .. count PROVE SegmentsAt(longer, k) = SegmentsAt(path, k)
    <2>1. k # count + 1
      BY <1>0
    <2>2. {j \in Named(longer) : Rank(j, Named(longer)) = k}
            = {j \in Named(path) : Rank(j, Named(path)) = k}
      BY <1>3, <1>6, <1>7, <2>1
    <2>3. \A j \in Named(path) : longer[j] = path[j]
      BY <1>0, <1>2
    <2> QED
      BY <2>2, <2>3 DEF SegmentsAt
  <1>9. SegmentsAt(longer, count + 1) = {name}
    <2>0. \A j \in Named(path) : Rank(j, Named(longer)) # count + 1
      BY <1>0, <1>6
    <2>1. {j \in Named(longer) : Rank(j, Named(longer)) = count + 1} = {last}
      BY <1>3, <1>7, <2>0
    <2> QED
      BY <1>1, <2>1 DEF SegmentsAt
  <1>10. Only({name}) = name
    BY DEF Only
  <1> DEFINE at(k) == Only(SegmentsAt(path, k))
             values == {at(k) : k \in 1 .. count}
  <1>11. Obj(path) = [k \in 1 .. count |-> at(k)] /\ Obj(path) \in Seq(values \cup {name})
    <2>1. Obj(path) = [k \in 1 .. count |-> at(k)]
      BY ObjSegments DEF count
    <2>2. \A k \in 1 .. count : at(k) \in values
      OBVIOUS
    <2> HIDE DEF at, values
    <2> QED
      BY <1>0, <2>1, <2>2
  <1>12. Len(Obj(path)) = count
    BY <1>0, <1>11
  <1>13. Obj(longer) = [k \in 1 .. (count + 1) |-> Only(SegmentsAt(longer, k))]
    BY <1>4, ObjSegments
  <1>14. Append(Obj(path), name) = [k \in 1 .. (count + 1) |-> IF k = count + 1 THEN name ELSE at(k)]
    BY <1>0, <1>11, <1>12
  <1> HIDE DEF at, values
  <1>15. ASSUME NEW k \in 1 .. (count + 1)
         PROVE  Only(SegmentsAt(longer, k)) = IF k = count + 1 THEN name ELSE at(k)
    <2>1. CASE k = count + 1
      BY <2>1, <1>9, <1>10
    <2>2. CASE k # count + 1
      <3>1. k \in 1 .. count
        BY <1>0, <2>2
      <3> QED
        BY <2>2, <3>1, <1>8 DEF at
    <2> QED
      BY <2>1, <2>2
  <1>16. Obj(longer) = Append(Obj(path), name)
    BY <1>13, <1>14, <1>15, Zenon
  <1> QED
    BY <1>16 DEF longer

LEMMA ObjRoot == Obj(RootPath) = <<>>
  <1>1. Named(RootPath) = {}
    BY DEF Named, RootPath
  <1>2. Cardinality({}) = 0
    BY FS_EmptySet
  <1>3. Obj(RootPath) = [k \in 1 .. 0 |-> Only(SegmentsAt(RootPath, k))]
    BY <1>1, <1>2, ObjSegments
  <1> QED
    BY <1>3

(* The key of a directory entry names that entry's object, slashes and all. *)
LEMMA ObjEntryKey ==
    ASSUME NEW path \in Paths, Len(path) >= 2, NEW name \in Names
    PROVE  Obj(EntryKey(path, name)) = Append(Obj(path), name)
  <1>1. WithSlash(path) \in Paths /\ Obj(WithSlash(path)) = Obj(path)
    BY ObjSlash DEF WithSlash, Paths, Segments
  <1>2. Append(WithSlash(path), name) \in Paths
    BY <1>1 DEF Paths, Segments
  <1>3. Obj(Append(WithSlash(path), name)) = Append(Obj(path), name)
    BY <1>1, ObjName
  <1> QED
    BY <1>2, <1>3, ObjSlash DEF EntryKey

-----------------------------------------------------------------------------
(* A step of any client of the server, without the bounds TLC needs: the clients
   of Next and the kernel of module Guest are among them. *)
AnyStep ==
    \/ \E ok \in BOOLEAN : FuseInit(ok)
    \/ Destroy \/ OversizedRequest \/ UnknownOpcode \/ MalformedName
    \/ \E node \in Nat :
         \/ Forget(node) \/ Flush(node)
         \/ Opendir(node) \/ Releasedir(node) \/ Fsyncdir(node)
         \/ \E up \in BOOLEAN :
              \/ Getattr(node, up) \/ Setattr(node, up) \/ Release(node, up)
              \/ \E offset, room \in Nat : Readdir(node, offset, room, up)
              \/ \E offset, size \in Nat : Read(node, offset, size, up)
              \/ \E offset \in Nat, chunk \in Chunks : Write(node, offset, chunk, up)
              \/ \E name \in Names :
                   \/ Lookup(node, name, up) \/ Mkdir(node, name, up)
                   \/ Unlink(node, name, up) \/ Rmdir(node, name, up)
         \/ \E flags, fault :
              \/ Open(node, flags, fault)
              \/ \E name \in Names : Create(node, name, flags, fault)
    \/ Restart
    \/ \E obj : ExternalDelete(obj) \/ \E data \in Chunks : ExternalPut(obj, data)

(* The bounded client is one of these. *)
LEMMA NextIsAny ==
    ASSUME [Next]_vars PROVE [AnyStep]_vars
  <1>1. Nodeids \subseteq Nat /\ Places \subseteq Nat /\ Offsets \subseteq Nat
    BY BoundsAssumption DEF Nodeids, Places, Offsets
  <1> QED
    BY <1>1 DEF Next, AnyStep

-----------------------------------------------------------------------------
(* Every step is one of the six.                                           *)

LEMMA InsertInodeStep ==
    ASSUME TablesInv, NEW path \in Paths, Len(path) >= 2, path # RootPath,
           opened_files # <<>>, InsertInode(path)
    PROVE  InsertsOne
  BY DEF InsertInode, InsertsOne, NextInode

LEMMA FindOrInsertStep ==
    ASSUME TablesInv, NEW path \in Paths, Len(path) >= 2, opened_files # <<>>,
           FindOrInsertInode(path)
    PROVE  UNCHANGED tables \/ InsertsOne
  <1>1. CASE path \in DOMAIN opened_files_map
    BY <1>1 DEF FindOrInsertInode
  <1>2. CASE path \notin DOMAIN opened_files_map
    <2>1. path # RootPath
      BY <1>2 DEF TablesInv, RootResolves
    <2>2. InsertInode(path)
      BY <1>2 DEF FindOrInsertInode
    <2> QED
      BY <2>1, <2>2, InsertInodeStep
  <1> QED
    BY <1>1, <1>2

LEMMA GetMetadataStep ==
    ASSUME TablesInv, NEW path \in Paths, Len(path) >= 2, opened_files # <<>>,
           NEW up \in BOOLEAN, GetMetadata(path, up)
    PROVE  UNCHANGED tables \/ InsertsOne
  <1>1. CASE Refuse("ENOENT")
    BY <1>1 DEF Refuse, tables
  <1>2. CASE FindOrInsertInode(path)
    BY <1>2, FindOrInsertStep
  <1> QED
    BY <1>1, <1>2 DEF GetMetadata

LEMMA RegisterEntriesStep ==
    ASSUME TablesInv, NEW keys, \A k \in keys : k \in Paths /\ Len(k) >= 3,
           opened_files # <<>>, RegisterEntries(keys)
    PROVE  InsertsListed
  <1> DEFINE new == keys \ DOMAIN opened_files_map
             n == Cardinality(new)
  <1>1. n \in 0 .. (MaxInodes - Len(opened_files))
    BY DEF RegisterEntries
  <1>2. n \in Nat
    BY <1>1, BoundsAssumption DEF TablesInv, TablesTypeOK
  <1>3. PICK order \in Orders(new) :
           /\ opened_files' = opened_files \o order
           /\ opened_files_map' =
                [k \in DOMAIN opened_files_map \cup {order[i] : i \in 1 .. n} |->
                   IF k \in DOMAIN opened_files_map THEN opened_files_map[k]
                   ELSE Len(opened_files) + (CHOOSE i \in 1 .. n : order[i] = k) - 1]
    BY DEF RegisterEntries, NextInode
  <1>4. /\ order \in [1 .. n -> new]
        /\ \A i, j \in 1 .. n : order[i] = order[j] => i = j
    BY DEF Orders
  <1> HIDE DEF n
  <1>5. order \in Seq(new) /\ Len(order) = n
    BY <1>2, <1>4
  <1>6. order \in Seq(Paths)
    BY <1>2, <1>4, <1>5
  <1>7. \A i \in 1 .. n : Len(order[i]) >= 3 /\ order[i] \notin DOMAIN opened_files_map
    BY <1>4
  <1> QED
    BY <1>2, <1>3, <1>4, <1>5, <1>6, <1>7 DEF InsertsListed

(* Whatever request is handled, whatever fails and whoever else acts, the two
   inode tables change in one of six ways: not at all, one new path, the paths of
   a listing, the root's two entries, one path dropped from the map, or emptied. *)
THEOREM StepChangesTables ==
    ASSUME TablesInv, [AnyStep]_vars
    PROVE  TablesStep
  <1> USE DEF TablesStep
  <1>a. ASSUME NEW e, Refuse(e) PROVE UNCHANGED tables
    BY <1>a DEF Refuse, tables
  <1>b. ASSUME NEW node, AckIfResolved(node) PROVE UNCHANGED tables
    BY <1>b DEF AckIfResolved, Unresolved, Refuse, tables
  <1>c. ASSUME NEW node \in Nat, Resolves(node)
        PROVE  PathOf(node) \in Paths /\ Len(PathOf(node)) >= 2 /\ opened_files # <<>>
    BY <1>c, ResolvedPath DEF TablesInv
  <1>1. CASE UNCHANGED vars
    BY <1>1 DEF vars, tables
  <1>2. ASSUME NEW ok \in BOOLEAN, FuseInit(ok) PROVE TablesStep
    BY <1>2, <1>a DEF FuseInit, InsertsRoot, RootEntries
  <1>3. CASE Destroy \/ OversizedRequest \/ UnknownOpcode \/ MalformedName
    BY <1>3, <1>a DEF Destroy, OversizedRequest, UnknownOpcode, MalformedName
  <1>4. ASSUME NEW node \in Nat,
               Forget(node) \/ Flush(node) \/ Opendir(node) \/ Releasedir(node) \/ Fsyncdir(node)
        PROVE  TablesStep
    BY <1>4, <1>a, <1>b DEF Forget, Flush, Opendir, Releasedir, Fsyncdir
  <1>5. ASSUME NEW node \in Nat, NEW up \in BOOLEAN, Getattr(node, up) \/ Setattr(node, up)
        PROVE  TablesStep
    BY <1>5, <1>a, <1>c, GetMetadataStep DEF Setattr, Getattr, Unresolved
  <1>6. ASSUME NEW node \in Nat, NEW up \in BOOLEAN, Release(node, up) PROVE TablesStep
    BY <1>6, <1>a DEF Release, Unresolved
  <1>7. ASSUME NEW node \in Nat, NEW offset \in Nat, NEW room \in Nat,
               NEW up \in BOOLEAN, Readdir(node, offset, room, up)
        PROVE  TablesStep
    <2> DEFINE keys == {EntryKey(PathOf(node), name) : name \in Children(Obj(PathOf(node)))}
    <2>1. CASE Unresolved(node) \/ Refuse("ENOENT")
      BY <2>1, <1>a DEF Unresolved
    <2>2. CASE Resolves(node) /\ RegisterEntries(keys)
      <3>1. \A k \in keys : k \in Paths /\ Len(k) >= 3
        BY <2>2, <1>c, EntryKeyPath DEF Children
      <3> HIDE DEF keys
      <3> QED
        BY <2>2, <3>1, <1>c, RegisterEntriesStep
    <2> QED
      BY <1>7, <2>1, <2>2 DEF Readdir
  <1>8. ASSUME NEW node \in Nat, NEW offset \in Nat, NEW size \in Nat,
               NEW up \in BOOLEAN, Read(node, offset, size, up)
        PROVE  TablesStep
    BY <1>8, <1>a DEF Read, Unresolved, tables
  <1>9. ASSUME NEW node \in Nat, NEW offset \in Nat, NEW chunk \in Chunks,
               NEW up \in BOOLEAN, Write(node, offset, chunk, up)
        PROVE  TablesStep
    BY <1>9, <1>a DEF Write, Unresolved, tables
  <1>10. ASSUME NEW node \in Nat, NEW name \in Names, NEW up \in BOOLEAN,
                Lookup(node, name, up)
         PROVE  TablesStep
    <2>1. CASE Unresolved(node)
      BY <2>1, <1>a DEF Unresolved
    <2>2. CASE Resolves(node) /\ GetMetadata(Join(PathOf(node), name), up)
      BY <2>2, <1>c, JoinPath, GetMetadataStep
    <2> QED
      BY <1>10, <2>1, <2>2 DEF Lookup
  <1>11. ASSUME NEW node \in Nat, NEW name \in Names, NEW up \in BOOLEAN,
                Mkdir(node, name, up)
         PROVE  TablesStep
    BY <1>11, <1>a, <1>c, JoinPath, InsertInodeStep DEF Mkdir, Unresolved
  <1>12. ASSUME NEW node \in Nat, NEW name \in Names, NEW up \in BOOLEAN,
                Unlink(node, name, up) \/ Rmdir(node, name, up)
         PROVE  TablesStep
    <2>1. CASE Unresolved(node)
      BY <2>1, <1>a DEF Unresolved
    <2>2. CASE Resolves(node) /\ ~Unresolved(node)
      <3>1. Join(PathOf(node), name) \in Paths /\ Join(PathOf(node), name) # RootPath
        BY <2>2, <1>c, JoinPath
      <3>2. \/ UNCHANGED tables
            \/ /\ opened_files_map' = Unbind(opened_files_map, Join(PathOf(node), name))
               /\ opened_files' = opened_files
        BY <1>12, <2>2 DEF Unlink, Rmdir, Remove
      <3> QED
        BY <3>1, <3>2 DEF DropsOne
    <2> QED
      BY <1>12, <2>1, <2>2 DEF Unlink, Rmdir, Remove
  <1>13. ASSUME NEW node \in Nat, NEW flags, NEW fault,
                Open(node, flags, fault)
         PROVE  TablesStep
    BY <1>13, <1>a DEF Open, Unresolved
  <1>14. ASSUME NEW node \in Nat, NEW flags, NEW fault,
                NEW name \in Names, Create(node, name, flags, fault)
         PROVE  TablesStep
    BY <1>14, <1>a, <1>c, JoinPath, InsertInodeStep DEF Create, Unresolved
  <1>15. CASE Restart
    BY <1>15 DEF Restart, Empties
  <1>16. ASSUME NEW obj,
                ExternalDelete(obj) \/ \E data \in Chunks : ExternalPut(obj, data)
         PROVE  TablesStep
    BY <1>16 DEF ExternalDelete, ExternalPut, tables
  <1> QED
    BY <1>1, <1>2, <1>3, <1>4, <1>5, <1>6, <1>7, <1>8, <1>9, <1>10, <1>11, <1>12, <1>13,
       <1>14, <1>15, <1>16 DEF AnyStep

-----------------------------------------------------------------------------
(* The six kinds of step keep the tables coherent, keep what every nodeid  *)
(* means, and keep retired nodeids retired.                                *)

SlabKept ==
    Keeps(opened_files, opened_files') \/ (opened_files' = <<>> /\ opened_files_writer' = <<>>)

RetiredKept ==
    \A node \in 0 .. (Len(opened_files) - 1) :
        node \notin InodesInMap => node \notin InodesInMap' \/ opened_files' = <<>>

LEMMA UnchangedTables ==
    ASSUME TablesInv, UNCHANGED tables
    PROVE  TablesInv' /\ SlabKept /\ RetiredKept
  <1>1. opened_files' = opened_files /\ opened_files_map' = opened_files_map
    BY DEF tables
  <1>2. TablesInv'
    BY <1>1 DEF TablesInv, TablesTypeOK, MapSlabCoherent, RootResolves, Resolves, PathOf
  <1>3. SlabKept
    BY <1>1 DEF SlabKept, Keeps, TablesInv, TablesTypeOK
  <1>4. InodesInMap' = InodesInMap
    BY <1>1 DEF InodesInMap
  <1> QED
    BY <1>2, <1>3, <1>4 DEF RetiredKept

LEMMA InsertOneKeeps ==
    ASSUME TablesInv, InsertsOne
    PROVE  TablesInv' /\ SlabKept /\ RetiredKept
  <1>1. PICK path \in Paths :
           /\ opened_files # <<>>
           /\ Len(path) >= 2 /\ path # RootPath
           /\ opened_files' = Append(opened_files, path)
           /\ opened_files_map' = Bind(opened_files_map, path, Len(opened_files))
    BY DEF InsertsOne
  <1>2. opened_files \in Seq(Paths) /\ opened_files' \in Seq(Paths)
    BY <1>1 DEF TablesInv, TablesTypeOK
  <1>3. /\ Len(opened_files') = Len(opened_files) + 1
        /\ \A i \in 1 .. Len(opened_files) : opened_files'[i] = opened_files[i]
        /\ opened_files'[Len(opened_files) + 1] = path
    BY <1>1, <1>2
  <1>4. /\ DOMAIN opened_files_map' = DOMAIN opened_files_map \cup {path}
        /\ opened_files_map'[path] = Len(opened_files)
        /\ \A p \in DOMAIN opened_files_map : p # path => opened_files_map'[p] = opened_files_map[p]
    BY <1>1 DEF Bind
  <1>5. TablesTypeOK'
    <2>1. \A i \in 1 .. Len(opened_files') : Len(opened_files'[i]) >= 2
      BY <1>1, <1>2, <1>3 DEF TablesInv, TablesTypeOK
    <2>2. opened_files_map' \in [DOMAIN opened_files_map' -> Nat]
      BY <1>1, <1>2 DEF Bind, TablesInv, TablesTypeOK
    <2> QED
      BY <1>2, <2>1, <2>2 DEF TablesTypeOK
  <1>6. MapSlabCoherent'
    BY <1>2, <1>3, <1>4 DEF TablesInv, MapSlabCoherent, Resolves, PathOf
  <1>7. RootResolves'
    BY <1>1, <1>2, <1>3, <1>4 DEF TablesInv, RootResolves, Resolves, PathOf, RootInode
  <1>8. SlabKept
    BY <1>2, <1>3 DEF SlabKept, Keeps
  <1>9. RetiredKept
    BY <1>2, <1>4 DEF RetiredKept, InodesInMap
  <1> QED
    BY <1>5, <1>6, <1>7, <1>8, <1>9 DEF TablesInv

LEMMA InsertListedKeeps ==
    ASSUME TablesInv, InsertsListed
    PROVE  TablesInv' /\ SlabKept /\ RetiredKept
  <1>1. PICK n \in Nat, order \in Seq(Paths) :
           /\ opened_files # <<>>
           /\ Len(order) = n
           /\ \A i \in 1 .. n : Len(order[i]) >= 3 /\ order[i] \notin DOMAIN opened_files_map
           /\ \A i, j \in 1 .. n : order[i] = order[j] => i = j
           /\ opened_files' = opened_files \o order
           /\ opened_files_map' =
                [k \in DOMAIN opened_files_map \cup {order[i] : i \in 1 .. n} |->
                   IF k \in DOMAIN opened_files_map THEN opened_files_map[k]
                   ELSE Len(opened_files) + (CHOOSE i \in 1 .. n : order[i] = k) - 1]
    BY DEF InsertsListed
  <1>2. opened_files \in Seq(Paths) /\ opened_files' \in Seq(Paths)
    BY <1>1 DEF TablesInv, TablesTypeOK
  <1>3. /\ Len(opened_files') = Len(opened_files) + n
        /\ \A i \in 1 .. Len(opened_files) : opened_files'[i] = opened_files[i]
        /\ \A i \in 1 .. n : opened_files'[Len(opened_files) + i] = order[i]
    <2>1. opened_files' = opened_files \o order /\ Len(order) = n
      BY <1>1
    <2>2. /\ Len(opened_files \o order) = Len(opened_files) + Len(order)
          /\ \A i \in 1 .. Len(opened_files) : (opened_files \o order)[i] = opened_files[i]
          /\ \A i \in 1 .. Len(order) :
               (opened_files \o order)[Len(opened_files) + i] = order[i]
      BY <1>2, ConcatParts
    <2> QED
      BY <2>1, <2>2, Zenon
  <1>4. /\ DOMAIN opened_files_map' = DOMAIN opened_files_map \cup {order[i] : i \in 1 .. n}
        /\ \A p \in DOMAIN opened_files_map : opened_files_map'[p] = opened_files_map[p]
    BY <1>1
  <1>5. \A i \in 1 .. n : opened_files_map'[order[i]] = Len(opened_files) + i - 1
    <2> SUFFICES ASSUME NEW i \in 1 .. n
                 PROVE  opened_files_map'[order[i]] = Len(opened_files) + i - 1
      OBVIOUS
    <2>1. (CHOOSE j \in 1 .. n : order[j] = order[i]) = i
      BY <1>1
    <2>2. opened_files_map'[order[i]] =
            Len(opened_files) + (CHOOSE j \in 1 .. n : order[j] = order[i]) - 1
      BY <1>1
    <2> QED
      BY <2>1, <2>2
  <1>6. TablesTypeOK'
    <2>1. \A i \in 1 .. Len(opened_files') : Len(opened_files'[i]) >= 2
      <3> SUFFICES ASSUME NEW i \in 1 .. Len(opened_files') PROVE Len(opened_files'[i]) >= 2
        OBVIOUS
      <3>1. CASE i <= Len(opened_files)
        BY <1>2, <1>3, <3>1 DEF TablesInv, TablesTypeOK
      <3>2. CASE i > Len(opened_files)
        <4>1. i - Len(opened_files) \in 1 .. n /\ Len(opened_files) + (i - Len(opened_files)) = i
          BY <1>2, <1>3, <3>2
        <4>2. opened_files'[i] = order[i - Len(opened_files)]
          BY <1>3, <4>1
        <4>3. order[i - Len(opened_files)] \in Paths /\ Len(order[i - Len(opened_files)]) >= 3
          BY <1>1, <4>1
        <4> QED
          BY <4>2, <4>3 DEF Paths
      <3> QED
        BY <1>2, <3>1, <3>2
    <2>2. \A p \in DOMAIN opened_files_map' : opened_files_map'[p] \in Nat
      BY <1>2, <1>4, <1>5 DEF TablesInv, TablesTypeOK
    <2>3. opened_files_map' \in [DOMAIN opened_files_map' -> Nat]
      BY <1>1, <2>2
    <2> QED
      BY <1>2, <2>1, <2>3 DEF TablesTypeOK
  <1>7. MapSlabCoherent'
    <2>1. ASSUME NEW p \in DOMAIN opened_files_map
          PROVE  /\ opened_files_map'[p] \in 0 .. (Len(opened_files') - 1)
                 /\ opened_files'[opened_files_map'[p] + 1] = p
      BY <1>2, <1>3, <1>4 DEF TablesInv, TablesTypeOK, MapSlabCoherent, Resolves, PathOf
    <2>2. ASSUME NEW i \in 1 .. n
          PROVE  /\ opened_files_map'[order[i]] \in 0 .. (Len(opened_files') - 1)
                 /\ opened_files'[opened_files_map'[order[i]] + 1] = order[i]
      <3>1. opened_files_map'[order[i]] = Len(opened_files) + i - 1
        BY <1>5
      <3>2. opened_files_map'[order[i]] + 1 = Len(opened_files) + i
        BY <1>2, <3>1
      <3>3. opened_files'[Len(opened_files) + i] = order[i]
        BY <1>3
      <3> QED
        BY <1>2, <1>3, <3>1, <3>2, <3>3
    <2> QED
      BY <1>4, <2>1, <2>2 DEF MapSlabCoherent, Resolves, PathOf
  <1>8. RootResolves'
    BY <1>1, <1>2, <1>3, <1>4 DEF TablesInv, RootResolves, Resolves, PathOf, RootInode
  <1>9. SlabKept
    BY <1>2, <1>3 DEF SlabKept, Keeps
  <1>10. RetiredKept
    BY <1>2, <1>4, <1>5 DEF RetiredKept, InodesInMap
  <1> QED
    BY <1>6, <1>7, <1>8, <1>9, <1>10 DEF TablesInv

LEMMA InsertRootKeeps ==
    ASSUME TablesInv, InsertsRoot
    PROVE  TablesInv' /\ SlabKept /\ RetiredKept
  <1>1. RootPath \in Paths /\ Len(RootPath) = 2
    BY DEF RootPath, Paths, Segments
  <1>2. opened_files \in Seq(Paths) /\ opened_files' \in Seq(Paths)
    BY <1>1 DEF TablesInv, TablesTypeOK, InsertsRoot
  <1>3. /\ Len(opened_files') = Len(opened_files) + 2
        /\ \A i \in 1 .. Len(opened_files) : opened_files'[i] = opened_files[i]
        /\ opened_files'[Len(opened_files) + 1] = RootPath
        /\ opened_files'[Len(opened_files) + 2] = RootPath
    BY <1>1, <1>2 DEF InsertsRoot
  <1>4. /\ DOMAIN opened_files_map' = DOMAIN opened_files_map \cup {RootPath}
        /\ opened_files_map'[RootPath] = 1
        /\ \A p \in DOMAIN opened_files_map :
             p # RootPath => opened_files_map'[p] = opened_files_map[p]
    BY DEF InsertsRoot, Bind, RootInode
  <1>5. opened_files'[2] = RootPath
    <2>1. CASE opened_files = <<>>
      BY <1>3, <2>1
    <2>2. CASE opened_files # <<>>
      BY <1>2, <1>3, <2>2 DEF TablesInv, RootResolves, Resolves, PathOf, RootInode
    <2> QED
      BY <2>1, <2>2
  <1>6. TablesTypeOK'
    <2>1. \A i \in 1 .. Len(opened_files') : Len(opened_files'[i]) >= 2
      <3> SUFFICES ASSUME NEW i \in 1 .. Len(opened_files') PROVE Len(opened_files'[i]) >= 2
        OBVIOUS
      <3>1. CASE i <= Len(opened_files)
        BY <1>2, <1>3, <3>1 DEF TablesInv, TablesTypeOK
      <3>2. CASE i > Len(opened_files)
        <4>1. i = Len(opened_files) + 1 \/ i = Len(opened_files) + 2
          BY <1>2, <1>3, <3>2
        <4>2. opened_files'[i] = RootPath
          BY <1>3, <4>1
        <4>3. Len(RootPath) = 2
          BY DEF RootPath
        <4> QED
          BY <4>2, <4>3
      <3> QED
        BY <1>2, <3>1, <3>2
    <2>2. opened_files_map' \in [DOMAIN opened_files_map' -> Nat]
      BY DEF Bind, TablesInv, TablesTypeOK, InsertsRoot, RootInode
    <2> QED
      BY <1>2, <2>1, <2>2 DEF TablesTypeOK
  <1>7. MapSlabCoherent'
    <2> SUFFICES ASSUME NEW p \in DOMAIN opened_files_map'
                 PROVE  /\ opened_files_map'[p] \in 0 .. (Len(opened_files') - 1)
                        /\ opened_files'[opened_files_map'[p] + 1] = p
      BY DEF MapSlabCoherent, Resolves, PathOf
    <2>1. CASE p = RootPath
      BY <1>2, <1>3, <1>4, <1>5, <2>1
    <2>2. CASE p # RootPath
      BY <1>2, <1>3, <1>4, <2>2 DEF TablesInv, TablesTypeOK, MapSlabCoherent, Resolves, PathOf
    <2> QED
      BY <2>1, <2>2
  <1>8. RootResolves'
    BY <1>2, <1>3, <1>4, <1>5 DEF RootResolves, Resolves, PathOf, RootInode
  <1>9. SlabKept
    BY <1>2, <1>3 DEF SlabKept, Keeps
  <1>10. RetiredKept
    <2> SUFFICES ASSUME NEW node \in 0 .. (Len(opened_files) - 1), node \in InodesInMap'
                 PROVE  node \in InodesInMap
      BY DEF RetiredKept
    <2>1. opened_files # <<>>
      BY <1>2
    <2>2. 1 \in InodesInMap
      BY <2>1 DEF TablesInv, RootResolves, InodesInMap, RootInode
    <2> QED
      BY <1>4, <2>2 DEF InodesInMap
  <1> QED
    BY <1>6, <1>7, <1>8, <1>9, <1>10 DEF TablesInv

LEMMA DropOneKeeps ==
    ASSUME TablesInv, DropsOne
    PROVE  TablesInv' /\ SlabKept /\ RetiredKept
  <1>1. PICK path \in Paths :
           /\ path # RootPath
           /\ opened_files' = opened_files
           /\ opened_files_map' = Unbind(opened_files_map, path)
    BY DEF DropsOne
  <1>2. /\ DOMAIN opened_files_map' = DOMAIN opened_files_map \ {path}
        /\ \A p \in DOMAIN opened_files_map' : opened_files_map'[p] = opened_files_map[p]
    BY <1>1 DEF Unbind
  <1>3. TablesTypeOK'
    BY <1>1 DEF Unbind, TablesInv, TablesTypeOK
  <1>4. MapSlabCoherent'
    BY <1>1, <1>2 DEF TablesInv, MapSlabCoherent, Resolves, PathOf
  <1>5. RootResolves'
    BY <1>1, <1>2 DEF TablesInv, RootResolves, Resolves, PathOf
  <1>6. SlabKept
    BY <1>1 DEF SlabKept, Keeps, TablesInv, TablesTypeOK
  <1>7. RetiredKept
    BY <1>2 DEF RetiredKept, InodesInMap
  <1> QED
    BY <1>3, <1>4, <1>5, <1>6, <1>7 DEF TablesInv

LEMMA EmptyKeeps ==
    ASSUME TablesInv, Empties
    PROVE  TablesInv' /\ SlabKept /\ RetiredKept
  BY DEF Empties, TablesInv, TablesTypeOK, MapSlabCoherent, RootResolves, SlabKept, RetiredKept

LEMMA TablesStepKeeps ==
    ASSUME TablesInv, TablesStep
    PROVE  TablesInv' /\ SlabKept /\ RetiredKept
  BY UnchangedTables, InsertOneKeeps, InsertListedKeeps, InsertRootKeeps, DropOneKeeps, EmptyKeeps
     DEF TablesStep

LEMMA InitTables == Init => TablesInv
  BY DEF Init, TablesInv, TablesTypeOK, MapSlabCoherent, RootResolves

(* The two inode tables always agree, and nodeid 1 is the root in both. *)
THEOREM TablesCoherent == Spec => [](MapSlabCoherent /\ RootResolves)
  <1>1. TablesInv /\ [Next]_vars => TablesInv'
    BY NextIsAny, StepChangesTables, TablesStepKeeps
  <1>2. TablesInv => MapSlabCoherent /\ RootResolves
    BY DEF TablesInv
  <1> QED
    BY <1>1, <1>2, InitTables, PTL DEF Spec

(* Nodeid 1 is the root in both tables from the first init on, also after a second
   one, whatever is looked up, listed, made or removed in between. *)
THEOREM RootKept == Spec => []RootResolves
  <1>1. MapSlabCoherent /\ RootResolves => RootResolves
    OBVIOUS
  <1> QED
    BY <1>1, TablesCoherent, PTL

(* A nodeid means the same path for ever, until the server restarts. *)
THEOREM NodeidsStable == Spec => NodeidStable
  <1>1. TablesInv /\ [Next]_vars => TablesInv'
    BY NextIsAny, StepChangesTables, TablesStepKeeps
  <1>2. TablesInv /\ [Next]_vars =>
          [Keeps(opened_files, opened_files') \/ opened_files' = <<>>]_vars
    BY NextIsAny, StepChangesTables, TablesStepKeeps DEF SlabKept
  <1> QED
    BY <1>1, <1>2, InitTables, PTL DEF Spec, NodeidStable

(* A nodeid that has left the map never comes back to it. *)
THEOREM RetiredNodeids == Spec => RetiredStaysRetired
  <1>1. TablesInv /\ [Next]_vars => TablesInv'
    BY NextIsAny, StepChangesTables, TablesStepKeeps
  <1>2. TablesInv /\ [Next]_vars =>
          [\A node \in 0 .. (Len(opened_files) - 1) :
             node \notin InodesInMap => node \notin InodesInMap' \/ opened_files' = <<>>]_vars
    BY NextIsAny, StepChangesTables, TablesStepKeeps DEF RetiredKept
  <1> QED
    BY <1>1, <1>2, InitTables, PTL DEF Spec, RetiredStaysRetired

-----------------------------------------------------------------------------
(* The writers and the store.                                              *)

LEMMA FileNode == ASSUME NEW data \in Seq(Nat) PROVE File(data) \in Nodes /\ File(data).kind = "file"
  BY DEF File, Nodes

LEMMA PutNode ==
    ASSUME ServiceTypeOK, NEW obj, NEW node \in Nodes
    PROVE  Put(obj, node) \in [DOMAIN Put(obj, node) -> Nodes]
  <1>1. Dir \in Nodes
    BY DEF Dir, Nodes
  <1> QED
    BY <1>1 DEF Put, ServiceTypeOK

LEMMA PutKeepsFiles ==
    ASSUME NEW obj, NEW node, NEW o, IsFile(o), o = obj => node.kind = "file"
    PROVE  o \in DOMAIN Put(obj, node) /\ Put(obj, node)[o].kind = "file"
  BY DEF Put, IsFile

LEMMA PutHasFile ==
    ASSUME NEW obj, NEW node, node.kind = "file"
    PROVE  obj \in DOMAIN Put(obj, node) /\ Put(obj, node)[obj].kind = "file"
  BY DEF Put

LEMMA OverlayType ==
    ASSUME NEW data \in Seq(Nat), NEW pos \in Nat, NEW chunk \in Seq(Nat)
    PROVE  Overlay(data, pos, chunk) \in Seq(Nat)
  <1> DEFINE m == Larger(Len(data), pos + Len(chunk))
  <1>1. m \in Nat
    BY DEF Larger
  <1>2. ASSUME NEW k \in 1 .. m
        PROVE  (IF k \in (pos + 1) .. (pos + Len(chunk)) THEN chunk[k - pos]
                ELSE IF k <= Len(data) THEN data[k] ELSE 0) \in Nat
    <2>1. CASE k \in (pos + 1) .. (pos + Len(chunk))
      <3>1. k - pos \in 1 .. Len(chunk)
        BY <1>1, <2>1
      <3>2. chunk[k - pos] \in Nat
        BY <3>1
      <3> QED
        BY <2>1, <3>2
    <2>2. CASE k \notin (pos + 1) .. (pos + Len(chunk))
      BY <1>1, <2>2
    <2> QED
      BY <2>1, <2>2
  <1>3. Overlay(data, pos, chunk) \in [1 .. m -> Nat]
    BY <1>2 DEF Overlay
  <1> HIDE DEF m
  <1> QED
    BY <1>1, <1>3

LEMMA DetachedKeeps ==
    ASSUME ServiceTypeOK, NEW obj
    PROVE  /\ DOMAIN Detached(obj) = DOMAIN opened_files_writer
           /\ Detached(obj) \in [DOMAIN Detached(obj) -> Writers]
           /\ \A p \in DOMAIN opened_files_writer :
                /\ Detached(obj)[p].written = opened_files_writer[p].written
                /\ Detached(obj)[p].pos = opened_files_writer[p].pos
                /\ Detached(obj)[p].attached => opened_files_writer[p].attached /\ Obj(p) # obj
                /\ NotAhead(opened_files_writer[p]) => NotAhead(Detached(obj)[p])
  BY DEF Detached, ServiceTypeOK, Writers, NotAhead

(* Three ways in which a step leaves ServiceInv true. *)

LEMMA SameService ==
    ASSUME ServiceInv, opened_files_writer' = opened_files_writer, store' = store,
           reply'.error \in Errors
    PROVE  ServiceInv'
  BY DEF ServiceInv, ServiceTypeOK, AttachedBacked, CountNeverAhead, IsFile

LEMMA StorePut ==
    ASSUME ServiceInv, NEW obj, NEW node \in Nodes, IsFile(obj) => node.kind = "file",
           store' = Put(obj, node), opened_files_writer' = opened_files_writer,
           reply'.error \in Errors
    PROVE  ServiceInv'
  <1>1. store' \in [DOMAIN store' -> Nodes]
    BY PutNode DEF ServiceInv
  <1>2. ASSUME NEW p \in DOMAIN opened_files_writer, IsFile(Obj(p)) PROVE IsFile(Obj(p))'
    BY <1>2, PutKeepsFiles DEF IsFile
  <1>3. AttachedBacked'
    BY <1>2 DEF ServiceInv, AttachedBacked
  <1> QED
    BY <1>1, <1>3 DEF ServiceInv, ServiceTypeOK, CountNeverAhead

LEMMA WriterBound ==
    ASSUME ServiceInv, NEW path, NEW writer \in Writers, NotAhead(writer),
           writer.attached => IsFile(Obj(path))',
           \A p \in DOMAIN opened_files_writer : IsFile(Obj(p)) => IsFile(Obj(p))',
           store' \in [DOMAIN store' -> Nodes],
           opened_files_writer' = Bind(opened_files_writer, path, writer),
           reply'.error \in Errors
    PROVE  ServiceInv'
  <1>1. /\ DOMAIN opened_files_writer' = DOMAIN opened_files_writer \cup {path}
        /\ opened_files_writer'[path] = writer
        /\ \A p \in DOMAIN opened_files_writer :
             p # path => opened_files_writer'[p] = opened_files_writer[p]
    BY DEF Bind
  <1>2. opened_files_writer' \in [DOMAIN opened_files_writer' -> Writers]
    BY DEF Bind, ServiceInv, ServiceTypeOK
  <1>3. AttachedBacked'
    BY <1>1 DEF ServiceInv, AttachedBacked
  <1>4. CountNeverAhead'
    BY <1>1 DEF ServiceInv, CountNeverAhead
  <1> QED
    BY <1>2, <1>3, <1>4 DEF ServiceInv, ServiceTypeOK

LEMMA RemovedKeeps ==
    ASSUME ServiceInv, NEW obj, Removed(obj), reply'.error \in Errors
    PROVE  ServiceInv'
  <1>1. store' = Unbind(store, obj) /\ opened_files_writer' = Detached(obj)
    BY DEF Removed
  <1>2. store' \in [DOMAIN store' -> Nodes]
    BY <1>1 DEF Unbind, ServiceInv, ServiceTypeOK
  <1>3. ASSUME NEW o, o # obj, IsFile(o) PROVE IsFile(o)'
    BY <1>1, <1>3 DEF IsFile, Unbind
  <1>4. AttachedBacked'
    BY <1>1, <1>3, DetachedKeeps DEF ServiceInv, AttachedBacked
  <1>5. CountNeverAhead'
    BY <1>1, DetachedKeeps DEF ServiceInv, CountNeverAhead
  <1> QED
    BY <1>1, <1>2, <1>4, <1>5, DetachedKeeps DEF ServiceInv, ServiceTypeOK

-----------------------------------------------------------------------------
(* The handlers that touch the writers or the store keep ServiceInv.       *)

LEMMA ReplyErrors ==
    /\ Ack.error \in Errors
    /\ \A e \in Errors : Fail(e).error \in Errors
    /\ \A i, k, n : Attr(i, k, n).error \in Errors
    /\ \A n : [Ack EXCEPT !.size = n].error \in Errors
    /\ \A n, d : [Ack EXCEPT !.size = n, !.data = d].error \in Errors
    /\ \A es : [Ack EXCEPT !.entries = es].error \in Errors
  BY DEF Ack, Fail, Attr, Errors

LEMMA RefuseKeeps ==
    ASSUME ServiceInv, NEW e \in Errors, Refuse(e)
    PROVE  ServiceInv'
  BY SameService, ReplyErrors DEF Refuse

LEMMA UnresolvedKeeps ==
    ASSUME ServiceInv, NEW node, Unresolved(node)
    PROVE  ServiceInv'
  <1>1. "ENOENT" \in Errors
    BY DEF Errors
  <1> QED
    BY <1>1, RefuseKeeps DEF Unresolved

LEMMA OpenedDataType ==
    ASSUME ServiceTypeOK, NEW obj, NEW append
    PROVE  OpenedData(obj, append) \in Seq(Nat)
  BY DEF OpenedData, IsFile, ServiceTypeOK, Nodes

LEMMA SetWriterKeeps ==
    ASSUME ServiceInv, NEW path, NEW flags, NEW fault, NEW ok, ok.error \in Errors,
           SetWriter(path, flags, fault, ok)
    PROVE  ServiceInv'
  <1> DEFINE append == IsAppend(flags)
             data == OpenedData(Obj(path), append)
             writer == NewWriter(Len(data), append)
  <1>1. "ENOENT" \in Errors /\ Fail("ENOENT").error \in Errors
    BY ReplyErrors DEF Errors
  <1>2. data \in Seq(Nat) /\ append \in BOOLEAN
    BY OpenedDataType DEF ServiceInv, IsAppend
  <1>3. CASE UNCHANGED <<opened_files_writer, store>> /\ (reply' = Fail("ENOENT") \/ reply' = ok)
    BY <1>1, <1>3, SameService
  <1>4. CASE /\ store' = StoreAfterOpen(path, append)
             /\ \/ reply' = Fail("ENOENT") /\ UNCHANGED opened_files_writer
                \/ /\ opened_files_writer' = Bind(opened_files_writer, path, writer)
                   /\ reply' = ok
    <2>1. /\ store' = (IF WriteThrough THEN Put(Obj(path), File(data)) ELSE store)
          /\ File(data) \in Nodes /\ File(data).kind = "file"
      BY <1>2, <1>4, FileNode DEF StoreAfterOpen
    <2>2. store' \in [DOMAIN store' -> Nodes]
      BY <2>1, PutNode DEF ServiceInv, ServiceTypeOK
    <2>3. ASSUME NEW o, IsFile(o) PROVE IsFile(o)'
      BY <2>1, <2>3, PutKeepsFiles DEF IsFile
    <2>4. /\ writer \in Writers /\ NotAhead(writer)
          /\ writer.attached = WriteThrough
      <3>1. Len(data) \in Nat
        BY <1>2
      <3> HIDE DEF data, append
      <3> QED
        BY <1>2, <3>1, CapabilityAssumption DEF NewWriter, Writers, NotAhead
    <2>5. WriteThrough => IsFile(Obj(path))'
      BY <2>1, PutHasFile DEF IsFile
    <2>6. CASE reply' = Fail("ENOENT") /\ UNCHANGED opened_files_writer
      <3>1. CASE WriteThrough
        BY <1>1, <2>1, <2>6, <3>1, StorePut
      <3>2. CASE ~WriteThrough
        BY <1>1, <2>1, <2>6, <3>2, SameService
      <3> QED
        BY <3>1, <3>2
    <2>7. CASE opened_files_writer' = Bind(opened_files_writer, path, writer) /\ reply' = ok
      <3> HIDE DEF writer
      <3> QED
        BY <2>2, <2>3, <2>4, <2>5, <2>7, WriterBound
    <2> QED
      BY <1>4, <2>6, <2>7
  <1>5. ASSUME NEW new \in Chunks, append, store' = Put(Obj(path), File(new)),
               opened_files_writer' = Bind(Detached(Obj(path)), path, Overtaken(writer, Len(new))),
               reply' = ok
        PROVE  ServiceInv'
    <2> DEFINE w == Overtaken(writer, Len(new))
    <2>1. w \in Writers /\ w.append /\ ~w.attached
      <3>1. Len(data) \in Nat /\ Len(new) \in Nat
        BY <1>2, ChunksAssumption
      <3>2. append = TRUE
        BY <1>2, <1>5
      <3> HIDE DEF data, append
      <3>3. writer \in Writers /\ writer.append = TRUE
        BY <1>2, <3>1, <3>2, CapabilityAssumption DEF NewWriter, Writers
      <3> HIDE DEF writer
      <3> QED
        BY <3>1, <3>3 DEF Overtaken, Writers
    <2> HIDE DEF w
    <2>2. NotAhead(w)
      BY <2>1 DEF NotAhead
    <2>3. /\ DOMAIN opened_files_writer' = DOMAIN opened_files_writer \cup {path}
          /\ opened_files_writer'[path] = w
          /\ \A p \in DOMAIN opened_files_writer :
               p # path => opened_files_writer'[p] = Detached(Obj(path))[p]
      BY <1>5, DetachedKeeps DEF Bind, ServiceInv, w
    <2>4. opened_files_writer' \in [DOMAIN opened_files_writer' -> Writers]
      BY <1>5, <2>1, DetachedKeeps DEF Bind, ServiceInv, w
    <2>5. File(new) \in Nodes /\ File(new).kind = "file"
      BY FileNode, ChunksAssumption
    <2>6. store' \in [DOMAIN store' -> Nodes]
      BY <1>5, <2>5, PutNode DEF ServiceInv
    <2>7. ASSUME NEW o, IsFile(o) PROVE IsFile(o)'
      BY <1>5, <2>5, <2>7, PutKeepsFiles DEF IsFile
    <2>8. AttachedBacked'
      BY <2>1, <2>3, <2>7, DetachedKeeps DEF ServiceInv, AttachedBacked
    <2>9. CountNeverAhead'
      BY <2>2, <2>3, DetachedKeeps DEF ServiceInv, CountNeverAhead
    <2> QED
      BY <1>5, <2>4, <2>6, <2>8, <2>9 DEF ServiceInv, ServiceTypeOK
  <1> QED
    BY <1>3, <1>4, <1>5 DEF SetWriter

LEMMA ReleaseKeeps ==
    ASSUME ServiceInv, NEW node, NEW up, Release(node, up)
    PROVE  ServiceInv'
  <1> DEFINE path == PathOf(node)
  <1>1. "EIO" \in Errors /\ Fail("EIO").error \in Errors /\ Ack.error \in Errors
    BY ReplyErrors DEF Errors
  <1>2. CASE Unresolved(node)
    BY <1>2, UnresolvedKeeps
  <1>3. CASE Refuse("EIO")
    BY <1>1, <1>3, RefuseKeeps
  <1>4. CASE /\ path \in DOMAIN opened_files_writer
             /\ store' = store \/ store' = StoreAfterClose(path)
             /\ \/ opened_files_writer' = Unbind(opened_files_writer, path) /\ reply' = Ack
                \/ UNCHANGED opened_files_writer /\ reply' = Fail("EIO")
    <2>1. opened_files_writer[path].buf \in Seq(Nat)
      BY <1>4 DEF ServiceInv, ServiceTypeOK, Writers
    <2>2. /\ store' = store \/ store' = Put(Obj(path), File(opened_files_writer[path].buf))
          /\ File(opened_files_writer[path].buf) \in Nodes
          /\ File(opened_files_writer[path].buf).kind = "file"
      BY <1>4, <2>1, FileNode DEF StoreAfterClose
    <2>3. store' \in [DOMAIN store' -> Nodes]
      BY <2>2, PutNode DEF ServiceInv, ServiceTypeOK
    <2>4. ASSUME NEW o, IsFile(o) PROVE IsFile(o)'
      BY <2>2, <2>4, PutKeepsFiles DEF IsFile
    <2>5. CASE UNCHANGED opened_files_writer /\ reply' = Fail("EIO")
      BY <1>1, <2>3, <2>4, <2>5
         DEF ServiceInv, ServiceTypeOK, AttachedBacked, CountNeverAhead
    <2>6. CASE opened_files_writer' = Unbind(opened_files_writer, path) /\ reply' = Ack
      <3>1. /\ DOMAIN opened_files_writer' \subseteq DOMAIN opened_files_writer
            /\ \A p \in DOMAIN opened_files_writer' :
                 opened_files_writer'[p] = opened_files_writer[p]
        BY <2>6 DEF Unbind
      <3>2. opened_files_writer' \in [DOMAIN opened_files_writer' -> Writers]
        BY <2>6 DEF Unbind, ServiceInv, ServiceTypeOK
      <3> QED
        BY <1>1, <2>3, <2>4, <2>6, <3>1, <3>2
           DEF ServiceInv, ServiceTypeOK, AttachedBacked, CountNeverAhead
    <2> QED
      BY <1>4, <2>5, <2>6
  <1> QED
    BY <1>2, <1>3, <1>4 DEF Release, CloseWriter

LEMMA WriteKeeps ==
    ASSUME ServiceInv, NEW node, NEW offset, NEW chunk \in Chunks, NEW up,
           Write(node, offset, chunk, up)
    PROVE  ServiceInv'
  <1> DEFINE path == PathOf(node)
             writer == opened_files_writer[path]
  <1>1. "EIO" \in Errors /\ Fail("EIO").error \in Errors
    BY ReplyErrors DEF Errors
  <1>2. CASE Unresolved(node)
    BY <1>2, UnresolvedKeeps
  <1>3. CASE Refuse("EIO")
    BY <1>1, <1>3, RefuseKeeps
  <1>4. CASE /\ path \in DOMAIN opened_files_writer
             /\ reply'.error \in Errors
             /\ \/ /\ store' = StoreAfterTake(path, writer, chunk)
                   /\ \/ opened_files_writer' =
                           Bind(opened_files_writer, path, Acknowledged(writer, chunk))
                      \/ opened_files_writer' =
                           Bind(opened_files_writer, path, TakenBy(writer, chunk))
                \/ /\ store' = store
                   /\ opened_files_writer' =
                        Bind(opened_files_writer, path, Failed(writer, chunk))
    <2>1. /\ chunk \in Seq(Nat) /\ Len(chunk) \in Nat
          /\ writer \in Writers /\ NotAhead(writer)
          /\ writer.attached => IsFile(Obj(path))
      BY <1>4, ChunksAssumption DEF ServiceInv, ServiceTypeOK, AttachedBacked, CountNeverAhead
    <2> HIDE DEF writer
    <2>2. /\ writer.buf \o chunk \in Seq(Nat)
          /\ writer.pos + Len(chunk) \in Nat /\ writer.written + Len(chunk) \in Nat
          /\ writer.written <= writer.pos =>
               /\ writer.written + Len(chunk) <= writer.pos + Len(chunk)
               /\ writer.written <= writer.pos + Len(chunk)
      BY <2>1 DEF Writers
    <2>3. /\ TakenBy(writer, chunk) \in Writers
          /\ NotAhead(TakenBy(writer, chunk))
          /\ TakenBy(writer, chunk).attached = writer.attached
      BY <2>1, <2>2 DEF TakenBy, Writers, NotAhead
    <2>4. /\ Acknowledged(writer, chunk) \in Writers
          /\ NotAhead(Acknowledged(writer, chunk))
          /\ Acknowledged(writer, chunk).attached = writer.attached
      BY <2>1, <2>2 DEF Acknowledged, TakenBy, Writers, NotAhead
    <2>5. Failed(writer, chunk) = writer
      BY DEF Failed
    <2>6. /\ store' \in [DOMAIN store' -> Nodes]
          /\ \A o : IsFile(o) => IsFile(o)'
      <3>1. CASE store' = store
        BY <3>1 DEF ServiceInv, ServiceTypeOK, IsFile
      <3>2. CASE store' = StoreAfterTake(path, writer, chunk) /\ writer.attached
        <4> DEFINE data == store[Obj(path)].data
                   after == IF writer.append THEN data \o chunk
                            ELSE Overlay(data, writer.pos, chunk)
        <4>1. data \in Seq(Nat)
          BY <2>1, <3>2 DEF IsFile, ServiceInv, ServiceTypeOK, Nodes
        <4>2. writer.pos \in Nat
          BY <2>1 DEF Writers
        <4>3. after \in Seq(Nat)
          <5> HIDE DEF data
          <5> QED
            BY <2>1, <4>1, <4>2, OverlayType
        <4>4. store' = Put(Obj(path), File(after))
          BY <3>2 DEF StoreAfterTake
        <4>5. File(after) \in Nodes /\ File(after).kind = "file"
          BY <4>3, FileNode
        <4> HIDE DEF after
        <4>6. store' \in [DOMAIN store' -> Nodes]
          BY <4>4, <4>5, PutNode DEF ServiceInv
        <4>7. ASSUME NEW o, IsFile(o) PROVE IsFile(o)'
          BY <4>4, <4>5, <4>7, PutKeepsFiles DEF IsFile
        <4> QED
          BY <4>6, <4>7
      <3>3. CASE store' = StoreAfterTake(path, writer, chunk) /\ ~writer.attached
        BY <3>1, <3>3 DEF StoreAfterTake
      <3> QED
        BY <1>4, <3>1, <3>2, <3>3 DEF writer
    <2>7. PICK w \in Writers :
             /\ NotAhead(w)
             /\ w.attached = writer.attached
             /\ opened_files_writer' = Bind(opened_files_writer, path, w)
      BY <1>4, <2>1, <2>3, <2>4, <2>5 DEF writer
    <2> QED
      BY <1>4, <2>1, <2>6, <2>7, WriterBound
  <1> QED
    BY <1>1, <1>2, <1>3, <1>4, ReplyErrors DEF Write

LEMMA RemoveKeeps ==
    ASSUME ServiceInv, NEW parent, NEW name, NEW up, Remove(parent, name, up)
    PROVE  ServiceInv'
  <1>1. "ENOENT" \in Errors /\ Fail("ENOENT").error \in Errors /\ Ack.error \in Errors
    BY ReplyErrors DEF Errors
  <1> QED
    BY <1>1, UnresolvedKeeps, RemovedKeeps, SameService DEF Remove

LEMMA MkdirKeeps ==
    ASSUME ServiceInv, NEW parent, NEW name, NEW up, Mkdir(parent, name, up)
    PROVE  ServiceInv'
  <1>1. Fail("ENOENT").error \in Errors /\ Attr(NextInode, "dir", 0).error \in Errors
    BY ReplyErrors DEF Errors
  <1>2. Dir \in Nodes
    BY DEF Dir, Nodes
  <1>3. ASSUME NEW obj, DirFits(obj), store' = Put(obj, Dir), reply'.error \in Errors,
               opened_files_writer' = opened_files_writer
        PROVE  ServiceInv'
    BY <1>2, <1>3, StorePut DEF DirFits
  <1> QED
    BY <1>1, <1>3, UnresolvedKeeps, SameService DEF Mkdir

LEMMA GetMetadataKeeps ==
    ASSUME ServiceInv, NEW path, NEW up, GetMetadata(path, up)
    PROVE  ServiceInv'
  <1>1. "ENOENT" \in Errors
    BY DEF Errors
  <1> QED
    BY <1>1, RefuseKeeps, SameService, ReplyErrors DEF GetMetadata

LEMMA ReaddirKeeps ==
    ASSUME ServiceInv, NEW node, NEW offset, NEW room, NEW up, Readdir(node, offset, room, up)
    PROVE  ServiceInv'
  <1>1. "ENOENT" \in Errors /\ "EIO" \in Errors
    BY DEF Errors
  <1>2. CASE Unresolved(node)
    BY <1>2, UnresolvedKeeps
  <1>3. CASE Refuse("ENOENT")
    BY <1>1, <1>3, RefuseKeeps
  <1>4. CASE /\ UNCHANGED <<opened_files_writer, store>>
             /\ \/ reply' = Ack \/ reply' = Fail("EIO")
                \/ \E es : reply' = [Ack EXCEPT !.entries = es]
    BY <1>1, <1>4, SameService, ReplyErrors
  <1> QED
    BY <1>2, <1>3, <1>4 DEF Readdir

LEMMA ExternalKeeps ==
    ASSUME ServiceInv, NEW obj,
           ExternalDelete(obj) \/ \E data \in Chunks : ExternalPut(obj, data)
    PROVE  ServiceInv'
  <1>1. reply'.error \in Errors
    BY DEF ExternalDelete, ExternalPut, ServiceInv, ServiceTypeOK
  <1>2. CASE ExternalDelete(obj)
    BY <1>1, <1>2, RemovedKeeps DEF ExternalDelete
  <1>3. ASSUME NEW data \in Chunks, ExternalPut(obj, data) PROVE ServiceInv'
    <2>1. store' = Put(obj, File(data)) /\ opened_files_writer' = Detached(obj)
      BY <1>3 DEF ExternalPut
    <2>2. File(data) \in Nodes /\ File(data).kind = "file"
      BY FileNode, ChunksAssumption
    <2>3. store' \in [DOMAIN store' -> Nodes]
      BY <2>1, <2>2, PutNode DEF ServiceInv
    <2>4. ASSUME NEW o, IsFile(o) PROVE IsFile(o)'
      BY <2>1, <2>2, <2>4, PutKeepsFiles DEF IsFile
    <2>5. AttachedBacked'
      BY <2>1, <2>4, DetachedKeeps DEF ServiceInv, AttachedBacked
    <2>6. CountNeverAhead'
      BY <2>1, DetachedKeeps DEF ServiceInv, CountNeverAhead
    <2> QED
      BY <1>1, <2>1, <2>3, <2>5, <2>6, DetachedKeeps DEF ServiceInv, ServiceTypeOK
  <1> QED
    BY <1>2, <1>3

LEMMA StepKeepsService ==
    ASSUME ServiceInv, [AnyStep]_vars
    PROVE  ServiceInv'
  <1>e. {"EIO", "ENOSYS", "NOREPLY"} \subseteq Errors
    BY DEF Errors
  <1>1. CASE UNCHANGED vars
    BY <1>1, SameService DEF vars, ServiceInv, ServiceTypeOK
  <1>2. ASSUME NEW ok \in BOOLEAN, FuseInit(ok) PROVE ServiceInv'
    BY <1>2, <1>e, RefuseKeeps, SameService, ReplyErrors DEF FuseInit
  <1>3. CASE Destroy \/ OversizedRequest \/ UnknownOpcode \/ MalformedName
    BY <1>3, <1>e, RefuseKeeps DEF Destroy, OversizedRequest, UnknownOpcode, MalformedName
  <1>4. ASSUME NEW node \in Nat,
               Forget(node) \/ Flush(node) \/ Opendir(node) \/ Releasedir(node) \/ Fsyncdir(node)
        PROVE  ServiceInv'
    <2>1. CASE Forget(node)
      BY <2>1, <1>e, RefuseKeeps DEF Forget
    <2>2. CASE AckIfResolved(node)
      BY <2>2, UnresolvedKeeps, SameService, ReplyErrors DEF AckIfResolved
    <2> QED
      BY <1>4, <2>1, <2>2 DEF Flush, Opendir, Releasedir, Fsyncdir
  <1>5. ASSUME NEW node \in Nat, NEW up \in BOOLEAN, Getattr(node, up) \/ Setattr(node, up)
        PROVE  ServiceInv'
    BY <1>5, UnresolvedKeeps, GetMetadataKeeps DEF Getattr, Setattr
  <1>6. ASSUME NEW node \in Nat, NEW up \in BOOLEAN, Release(node, up) PROVE ServiceInv'
    BY <1>6, ReleaseKeeps
  <1>7. ASSUME NEW node \in Nat, NEW offset \in Nat, NEW room \in Nat,
               NEW up \in BOOLEAN, Readdir(node, offset, room, up)
        PROVE  ServiceInv'
    BY <1>7, ReaddirKeeps
  <1>8. ASSUME NEW node \in Nat, NEW offset \in Nat, NEW size \in Nat,
               NEW up \in BOOLEAN, Read(node, offset, size, up)
        PROVE  ServiceInv'
    <2>1. "ENOENT" \in Errors
      BY DEF Errors
    <2> QED
      BY <1>8, <2>1, UnresolvedKeeps, RefuseKeeps, SameService, ReplyErrors DEF Read
  <1>9. ASSUME NEW node \in Nat, NEW offset \in Nat, NEW chunk \in Chunks,
               NEW up \in BOOLEAN, Write(node, offset, chunk, up)
        PROVE  ServiceInv'
    BY <1>9, WriteKeeps
  <1>10. ASSUME NEW node \in Nat, NEW name \in Names, NEW up \in BOOLEAN,
                \/ Lookup(node, name, up) \/ Mkdir(node, name, up)
                \/ Unlink(node, name, up) \/ Rmdir(node, name, up)
         PROVE  ServiceInv'
    BY <1>10, UnresolvedKeeps, GetMetadataKeeps, MkdirKeeps, RemoveKeeps
       DEF Lookup, Unlink, Rmdir
  <1>11. ASSUME NEW node \in Nat, NEW flags, NEW fault,
                Open(node, flags, fault)
         PROVE  ServiceInv'
    BY <1>11, UnresolvedKeeps, SetWriterKeeps, ReplyErrors DEF Open
  <1>12. ASSUME NEW node \in Nat, NEW flags, NEW fault,
                NEW name \in Names, Create(node, name, flags, fault)
         PROVE  ServiceInv'
    BY <1>12, UnresolvedKeeps, SetWriterKeeps, ReplyErrors DEF Create
  <1>13. CASE Restart
    <2>1. opened_files_writer' = <<>> /\ store' = store /\ reply'.error \in Errors
      BY <1>13, ReplyErrors DEF Restart
    <2> QED
      BY <2>1 DEF ServiceInv, ServiceTypeOK, AttachedBacked, CountNeverAhead
  <1>14. ASSUME NEW obj,
                ExternalDelete(obj) \/ \E data \in Chunks : ExternalPut(obj, data)
         PROVE  ServiceInv'
    BY <1>14, ExternalKeeps
  <1> QED
    BY <1>1, <1>2, <1>3, <1>4, <1>5, <1>6, <1>7, <1>8, <1>9, <1>10, <1>11, <1>12, <1>13, <1>14
       DEF AnyStep

LEMMA InitService == Init => ServiceInv
  <1>1. Dir \in Nodes
    BY DEF Dir, Nodes
  <1> QED
    BY <1>1, ReplyErrors
       DEF Init, ServiceInv, ServiceTypeOK, AttachedBacked, CountNeverAhead

(* Type correctness of the server and of the service, for every instance. *)
THEOREM TypeCorrect == Spec => []TypeOK
  <1>1. TablesInv /\ ServiceInv /\ [Next]_vars => TablesInv' /\ ServiceInv'
    BY NextIsAny, StepChangesTables, TablesStepKeeps, StepKeepsService
  <1>2. TablesInv /\ ServiceInv => TypeOK
    BY DEF TablesInv, TablesTypeOK, ServiceInv, ServiceTypeOK, TypeOK
  <1> QED
    BY <1>1, <1>2, InitTables, InitService, PTL DEF Spec

(* The server never counts a byte of a writer that the service has not taken, but
   for a writer that appends to a file another user has replaced. *)
THEOREM CountsTakenBytes == Spec => []CountNeverAhead
  <1>1. ServiceInv /\ [Next]_vars => ServiceInv'
    BY NextIsAny, StepKeepsService
  <1>2. ServiceInv => CountNeverAhead
    BY DEF ServiceInv
  <1> QED
    BY <1>1, <1>2, InitService, PTL DEF Spec

-----------------------------------------------------------------------------
(* Writers stay within reach.                                              *)

InSlab(slab, path) == \E i \in 1 .. Len(slab) : slab[i] = path

LEMMA SetWriterKeys ==
    ASSUME NEW path, NEW flags, NEW fault, NEW ok, SetWriter(path, flags, fault, ok)
    PROVE  DOMAIN opened_files_writer' \subseteq DOMAIN opened_files_writer \cup {path}
  BY DEF SetWriter, Bind, Detached

LEMMA StepWriterKeys ==
    ASSUME TablesInv, ServiceInv, [AnyStep]_vars
    PROVE  \A p \in DOMAIN opened_files_writer' :
             p \in DOMAIN opened_files_writer \/ InSlab(opened_files', p)
  <1> DEFINE Goal == \A p \in DOMAIN opened_files_writer' :
                        p \in DOMAIN opened_files_writer \/ InSlab(opened_files', p)
  <1>a. ASSUME NEW e, Refuse(e) PROVE Goal
    BY <1>a DEF Refuse
  <1>u. ASSUME NEW node, Unresolved(node) PROVE Goal
    BY <1>a, <1>u DEF Unresolved
  <1>b. ASSUME DOMAIN opened_files_writer' \subseteq DOMAIN opened_files_writer PROVE Goal
    BY <1>b
  <1>1. CASE UNCHANGED vars
    BY <1>1 DEF vars
  <1>2. ASSUME NEW ok \in BOOLEAN, FuseInit(ok) PROVE Goal
    BY <1>2, <1>a DEF FuseInit
  <1>3. CASE Destroy \/ OversizedRequest \/ UnknownOpcode \/ MalformedName
    BY <1>3, <1>a DEF Destroy, OversizedRequest, UnknownOpcode, MalformedName
  <1>4. ASSUME NEW node \in Nat,
               Forget(node) \/ Flush(node) \/ Opendir(node) \/ Releasedir(node) \/ Fsyncdir(node)
        PROVE  Goal
    BY <1>4, <1>a, <1>u DEF Forget, Flush, Opendir, Releasedir, Fsyncdir, AckIfResolved
  <1>5. ASSUME NEW node \in Nat, NEW up \in BOOLEAN, Getattr(node, up) \/ Setattr(node, up)
        PROVE  Goal
    BY <1>5, <1>a, <1>u DEF Getattr, Setattr, GetMetadata
  <1>6. ASSUME NEW node \in Nat, NEW up \in BOOLEAN, Release(node, up) PROVE Goal
    BY <1>6, <1>a, <1>u DEF Release, Unbind
  <1>7. ASSUME NEW node \in Nat, NEW offset \in Nat, NEW room \in Nat,
               NEW up \in BOOLEAN, Readdir(node, offset, room, up)
        PROVE  Goal
    <2>1. UNCHANGED opened_files_writer
      BY <1>7 DEF Readdir, Unresolved, Refuse
    <2> QED
      BY <2>1
  <1>8. ASSUME NEW node \in Nat, NEW offset \in Nat, NEW size \in Nat,
               NEW up \in BOOLEAN, Read(node, offset, size, up)
        PROVE  Goal
    BY <1>8, <1>a, <1>u DEF Read
  <1>9. ASSUME NEW node \in Nat, NEW offset \in Nat, NEW chunk \in Chunks,
               NEW up \in BOOLEAN, Write(node, offset, chunk, up)
        PROVE  Goal
    <2>1. CASE Unresolved(node) \/ Refuse("EIO")
      BY <2>1, <1>a, <1>u
    <2>2. CASE /\ PathOf(node) \in DOMAIN opened_files_writer
               /\ \E w : opened_files_writer' = Bind(opened_files_writer, PathOf(node), w)
      <3>1. DOMAIN opened_files_writer' \subseteq DOMAIN opened_files_writer
        BY <2>2 DEF Bind
      <3> QED
        BY <3>1, <1>b
    <2> QED
      BY <1>9, <2>1, <2>2 DEF Write
  <1>10. ASSUME NEW node \in Nat, NEW name \in Names, NEW up \in BOOLEAN,
                \/ Lookup(node, name, up) \/ Mkdir(node, name, up)
                \/ Unlink(node, name, up) \/ Rmdir(node, name, up)
         PROVE  Goal
    <2>1. CASE Lookup(node, name, up)
      BY <2>1, <1>a, <1>u DEF Lookup, GetMetadata
    <2>2. CASE Mkdir(node, name, up)
      BY <2>2, <1>u DEF Mkdir
    <2>3. CASE Remove(node, name, up)
      <3>1. \A obj : DOMAIN Detached(obj) = DOMAIN opened_files_writer
        BY DEF Detached
      <3> QED
        BY <2>3, <3>1, <1>u DEF Remove, Removed
    <2> QED
      BY <1>10, <2>1, <2>2, <2>3 DEF Unlink, Rmdir
  <1>11. ASSUME NEW node \in Nat, NEW flags, NEW fault,
                Open(node, flags, fault)
         PROVE  Goal
    <2>1. CASE Unresolved(node)
      BY <2>1, <1>u
    <2>2. CASE /\ Resolves(node) /\ SetWriter(PathOf(node), flags, fault, Ack)
               /\ UNCHANGED tables
      <3>1. opened_files' = opened_files /\ node + 1 \in 1 .. Len(opened_files)
        BY <2>2 DEF Resolves, tables, TablesInv, TablesTypeOK
      <3>2. InSlab(opened_files', PathOf(node))
        BY <3>1 DEF InSlab, PathOf
      <3> QED
        BY <2>2, <3>2, SetWriterKeys
    <2> QED
      BY <1>11, <2>1, <2>2 DEF Open
  <1>12. ASSUME NEW node \in Nat, NEW flags, NEW fault,
                NEW name \in Names, Create(node, name, flags, fault)
         PROVE  Goal
    <2> DEFINE path == Join(PathOf(node), name)
    <2>1. CASE Unresolved(node)
      BY <2>1, <1>u
    <2>2. CASE \E ok : InsertInode(path) /\ SetWriter(path, flags, fault, ok)
      <3>1. /\ opened_files' = Append(opened_files, path)
            /\ opened_files \in Seq(Paths)
        BY <2>2 DEF InsertInode, TablesInv, TablesTypeOK
      <3> HIDE DEF path
      <3>2. opened_files'[Len(opened_files) + 1] = path /\ Len(opened_files') = Len(opened_files) + 1
        BY <3>1
      <3>3. InSlab(opened_files', path)
        BY <3>1, <3>2 DEF InSlab
      <3> QED
        BY <2>2, <3>3, SetWriterKeys
    <2> QED
      BY <1>12, <2>1, <2>2 DEF Create
  <1>13. CASE Restart
    BY <1>13 DEF Restart
  <1>14. ASSUME NEW obj,
                ExternalDelete(obj) \/ \E data \in Chunks : ExternalPut(obj, data)
         PROVE  Goal
    <2>1. DOMAIN Detached(obj) = DOMAIN opened_files_writer
      BY DEF Detached
    <2> QED
      BY <1>14, <2>1 DEF ExternalDelete, ExternalPut, Removed
  <1> QED
    BY <1>1, <1>2, <1>3, <1>4, <1>5, <1>6, <1>7, <1>8, <1>9, <1>10, <1>11, <1>12, <1>13, <1>14
       DEF AnyStep

(* Every writer the server holds can be closed through some nodeid. *)
THEOREM WritersInReach == Spec => []WritersReleasable
  <1>1. TablesInv /\ ServiceInv /\ [Next]_vars => TablesInv' /\ ServiceInv'
    BY NextIsAny, StepChangesTables, TablesStepKeeps, StepKeepsService
  <1>2. ASSUME TablesInv, ServiceInv, WritersReleasable, [Next]_vars PROVE WritersReleasable'
    <2>1. SlabKept
      BY <1>2, NextIsAny, StepChangesTables, TablesStepKeeps
    <2>2. CASE opened_files_writer' = <<>>
      BY <2>2 DEF WritersReleasable
    <2>3. CASE Keeps(opened_files, opened_files')
      <3>1. opened_files \in Seq(Paths) /\ opened_files' \in Seq(Paths)
        BY <1>1, <1>2 DEF TablesInv, TablesTypeOK
      <3>2. ASSUME NEW p, InSlab(opened_files, p) PROVE InSlab(opened_files', p)
        BY <2>3, <3>1, <3>2 DEF InSlab, Keeps
      <3>3. \A p \in DOMAIN opened_files_writer : InSlab(opened_files, p)
        BY <1>2, <3>1 DEF WritersReleasable, InSlab, PathOf
      <3>4. \A p \in DOMAIN opened_files_writer' : InSlab(opened_files', p)
        BY <1>2, <3>2, <3>3, NextIsAny, StepWriterKeys
      <3>5. ASSUME NEW p, InSlab(opened_files', p)
            PROVE  \E node \in 0 .. (Len(opened_files') - 1) : opened_files'[node + 1] = p
        <4>1. PICK i \in 1 .. Len(opened_files') : opened_files'[i] = p
          BY <3>5 DEF InSlab
        <4>2. i - 1 \in 0 .. (Len(opened_files') - 1) /\ (i - 1) + 1 = i
          BY <3>1
        <4> QED
          BY <4>1, <4>2
      <3> QED
        BY <3>4, <3>5 DEF WritersReleasable, PathOf
    <2> QED
      BY <2>1, <2>2, <2>3 DEF SlabKept
  <1>3. Init => WritersReleasable
    BY DEF Init, WritersReleasable
  <1> QED
    BY <1>1, <1>2, <1>3, InitTables, InitService, PTL DEF Spec

-----------------------------------------------------------------------------
(* Directory listings.                                                     *)

(* The entries of the last reply, as long as it is the last one, resolve to the
   objects they are entries of. *)
EntriesInv == \A e \in reply.entries : Resolves(e.ino) /\ Obj(opened_files[e.ino + 1]) = e.obj

LEMMA ReplyNoEntries ==
    /\ Ack.entries = {}
    /\ \A e : Fail(e).entries = {}
    /\ \A i, k, n : Attr(i, k, n).entries = {}
    /\ \A n : [Ack EXCEPT !.size = n].entries = {}
    /\ \A n, d : [Ack EXCEPT !.size = n, !.data = d].entries = {}
    /\ \A es : [Ack EXCEPT !.entries = es].entries = es
  BY DEF Ack, Fail, Attr

(* An order of a finite set has every member. *)
LEMMA OrderHasAll ==
    ASSUME NEW S, IsFiniteSet(S), NEW order \in Orders(S)
    PROVE  \A x \in S : \E i \in 1 .. Cardinality(S) : order[i] = x
  <1> DEFINE n == Cardinality(S)
  <1>1. n \in Nat
    BY FS_CardinalityType
  <1>2. IsFiniteSet(1 .. n) /\ Cardinality(1 .. n) = n
    BY <1>1, FS_Interval
  <1>3. order \in Injection(1 .. n, S)
    BY DEF Orders, Injection, IsInjective
  <1>4. order \in Surjection(1 .. n, S)
    BY <1>2, <1>3, FS_SameCardinalityBij, FS_Injection
  <1> QED
    BY <1>4 DEF Surjection

(* do_readdir has put every entry it lists in the map when it reads the inodes. *)
LEMMA RegisteredKeys ==
    ASSUME NEW keys, IsFiniteSet(keys), RegisterEntries(keys)
    PROVE  keys \subseteq DOMAIN opened_files_map'
  <1> DEFINE new == keys \ DOMAIN opened_files_map
             n == Cardinality(new)
  <1>1. IsFiniteSet(new)
    BY FS_Subset
  <1>2. PICK order \in Orders(new) :
          DOMAIN opened_files_map' = DOMAIN opened_files_map \cup {order[i] : i \in 1 .. n}
    BY DEF RegisterEntries
  <1>3. \A x \in new : \E i \in 1 .. n : order[i] = x
    BY <1>1, OrderHasAll
  <1> QED
    BY <1>2, <1>3

LEMMA ReaddirEntries ==
    ASSUME TablesInv, TablesInv', IsFiniteSet(Names), NEW node \in Nat, NEW offset, NEW room,
           NEW up, Readdir(node, offset, room, up)
    PROVE  EntriesInv'
  <1> DEFINE path == PathOf(node)
             listed == Children(Obj(path))
             keys == {EntryKey(path, name) : name \in listed}
  <1>1. CASE reply'.entries = {}
    BY <1>1 DEF EntriesInv
  <1>2. CASE /\ Resolves(node) /\ RegisterEntries(keys)
             /\ reply' = [Ack EXCEPT !.entries =
                            {[obj |-> Append(Obj(path), name),
                              kind |-> store[Append(Obj(path), name)].kind,
                              ino |-> opened_files_map'[EntryKey(path, name)]] : name \in listed}]
    <2>1. path \in Paths /\ Len(path) >= 2
      BY <1>2, ResolvedPath DEF TablesInv
    <2>2. listed \subseteq Names /\ IsFiniteSet(listed)
      BY FS_Subset DEF Children
    <2>3. IsFiniteSet(keys)
      <3>1. [name \in listed |-> EntryKey(path, name)] \in Surjection(listed, keys)
        BY DEF Surjection
      <3> QED
        BY <2>2, <3>1, FS_Surjection
    <2>4. keys \subseteq DOMAIN opened_files_map'
      BY <1>2, <2>3, RegisteredKeys
    <2> SUFFICES ASSUME NEW e \in reply'.entries
                 PROVE  Resolves(e.ino)' /\ Obj(opened_files'[e.ino + 1]) = e.obj
      BY DEF EntriesInv
    <2>5. PICK name \in listed : /\ e.obj = Append(Obj(path), name)
                                 /\ e.ino = opened_files_map'[EntryKey(path, name)]
      BY <1>2, ReplyNoEntries
    <2>6. EntryKey(path, name) \in DOMAIN opened_files_map'
      BY <2>4
    <2>7. Resolves(e.ino)' /\ opened_files'[e.ino + 1] = EntryKey(path, name)
      BY <2>5, <2>6 DEF TablesInv, MapSlabCoherent, Resolves, PathOf
    <2> QED
      BY <2>1, <2>2, <2>5, <2>7, ObjEntryKey
  <1> QED
    BY <1>1, <1>2, ReplyNoEntries DEF Readdir, Unresolved, Refuse

LEMMA StepKeepsEntries ==
    ASSUME TablesInv, TablesInv', IsFiniteSet(Names), EntriesInv, [AnyStep]_vars
    PROVE  EntriesInv'
  <1>a. ASSUME NEW e, Refuse(e) PROVE EntriesInv'
    BY <1>a, ReplyNoEntries DEF Refuse, EntriesInv
  <1>u. ASSUME NEW node, Unresolved(node) PROVE EntriesInv'
    BY <1>a, <1>u DEF Unresolved
  <1>n. ASSUME reply'.entries = {} PROVE EntriesInv'
    BY <1>n DEF EntriesInv
  <1>k. ASSUME UNCHANGED <<opened_files, reply>> PROVE EntriesInv'
    BY <1>k DEF EntriesInv, Resolves
  <1>g. ASSUME NEW path, NEW up, GetMetadata(path, up) PROVE EntriesInv'
    BY <1>g, <1>a, <1>n, ReplyNoEntries DEF GetMetadata
  <1>w. ASSUME NEW path, NEW flags, NEW fault, NEW ok, ok.entries = {},
               SetWriter(path, flags, fault, ok)
        PROVE  EntriesInv'
    BY <1>w, <1>n, ReplyNoEntries DEF SetWriter
  <1>1. CASE UNCHANGED vars
    BY <1>1, <1>k DEF vars
  <1>2. ASSUME NEW ok \in BOOLEAN, FuseInit(ok) PROVE EntriesInv'
    BY <1>2, <1>a, <1>n, ReplyNoEntries DEF FuseInit
  <1>3. CASE Destroy \/ OversizedRequest \/ UnknownOpcode \/ MalformedName
    BY <1>3, <1>a DEF Destroy, OversizedRequest, UnknownOpcode, MalformedName
  <1>4. ASSUME NEW node \in Nat,
               Forget(node) \/ Flush(node) \/ Opendir(node) \/ Releasedir(node) \/ Fsyncdir(node)
        PROVE  EntriesInv'
    BY <1>4, <1>a, <1>u, <1>n, ReplyNoEntries
       DEF Forget, Flush, Opendir, Releasedir, Fsyncdir, AckIfResolved
  <1>5. ASSUME NEW node \in Nat, NEW up \in BOOLEAN, Getattr(node, up) \/ Setattr(node, up)
        PROVE  EntriesInv'
    BY <1>5, <1>u, <1>g DEF Getattr, Setattr
  <1>6. ASSUME NEW node \in Nat, NEW up \in BOOLEAN, Release(node, up) PROVE EntriesInv'
    BY <1>6, <1>a, <1>u, <1>n, ReplyNoEntries DEF Release
  <1>7. ASSUME NEW node \in Nat, NEW offset \in Nat, NEW room \in Nat,
               NEW up \in BOOLEAN, Readdir(node, offset, room, up)
        PROVE  EntriesInv'
    BY <1>7, ReaddirEntries
  <1>8. ASSUME NEW node \in Nat, NEW offset \in Nat, NEW size \in Nat,
               NEW up \in BOOLEAN, Read(node, offset, size, up)
        PROVE  EntriesInv'
    <2>1. CASE Unresolved(node) \/ Refuse("ENOENT")
      BY <2>1, <1>a, <1>u
    <2>2. CASE \E n, d : reply' = [Ack EXCEPT !.size = n, !.data = d]
      BY <2>2, <1>n, ReplyNoEntries
    <2> QED
      BY <1>8, <2>1, <2>2 DEF Read
  <1>9. ASSUME NEW node \in Nat, NEW offset \in Nat, NEW chunk \in Chunks,
               NEW up \in BOOLEAN, Write(node, offset, chunk, up)
        PROVE  EntriesInv'
    <2>1. CASE Unresolved(node) \/ Refuse("EIO")
      BY <2>1, <1>a, <1>u
    <2>2. CASE reply' = [Ack EXCEPT !.size = Len(chunk)] \/ reply' = Fail("EIO")
      BY <2>2, <1>n, ReplyNoEntries
    <2> QED
      BY <1>9, <2>1, <2>2 DEF Write
  <1>10. ASSUME NEW node \in Nat, NEW name \in Names, NEW up \in BOOLEAN,
                \/ Lookup(node, name, up) \/ Mkdir(node, name, up)
                \/ Unlink(node, name, up) \/ Rmdir(node, name, up)
         PROVE  EntriesInv'
    <2>1. CASE Lookup(node, name, up)
      BY <2>1, <1>u, <1>g DEF Lookup
    <2>2. CASE Mkdir(node, name, up)
      BY <2>2, <1>u, <1>n, ReplyNoEntries DEF Mkdir
    <2>3. CASE Remove(node, name, up)
      BY <2>3, <1>u, <1>n, ReplyNoEntries DEF Remove
    <2> QED
      BY <1>10, <2>1, <2>2, <2>3 DEF Unlink, Rmdir
  <1>11. ASSUME NEW node \in Nat, NEW flags, NEW fault, Open(node, flags, fault)
         PROVE  EntriesInv'
    BY <1>11, <1>u, <1>w, ReplyNoEntries DEF Open
  <1>12. ASSUME NEW node \in Nat, NEW flags, NEW fault,
                NEW name \in Names, Create(node, name, flags, fault)
         PROVE  EntriesInv'
    BY <1>12, <1>u, <1>w, ReplyNoEntries DEF Create
  <1>13. CASE Restart
    BY <1>13, <1>n, ReplyNoEntries DEF Restart
  <1>14. ASSUME NEW obj,
                ExternalDelete(obj) \/ \E data \in Chunks : ExternalPut(obj, data)
         PROVE  EntriesInv'
    BY <1>14, <1>k DEF ExternalDelete, ExternalPut
  <1> QED
    BY <1>1, <1>2, <1>3, <1>4, <1>5, <1>6, <1>7, <1>8, <1>9, <1>10, <1>11, <1>12, <1>13, <1>14
       DEF AnyStep

(* Every inode a directory listing shows resolves to a path of the object listed,
   for any finite set of names (a file name has at most 255 bytes). *)
THEOREM ListedInodesResolve ==
    ASSUME IsFiniteSet(Names)
    PROVE  Spec => EntriesResolve
  <1>1. TablesInv /\ [Next]_vars => TablesInv'
    BY NextIsAny, StepChangesTables, TablesStepKeeps
  <1>2. TablesInv /\ TablesInv' /\ EntriesInv /\ [Next]_vars => EntriesInv'
    BY NextIsAny, StepKeepsEntries
  <1>3. EntriesInv' =>
          [\A e \in reply'.entries : Resolves(e.ino)' /\ Obj(opened_files'[e.ino + 1]) = e.obj]_vars
    BY DEF EntriesInv
  <1>4. Init => EntriesInv
    BY ReplyNoEntries DEF Init, EntriesInv
  <1> QED
    BY <1>1, <1>2, <1>3, <1>4, InitTables, PTL DEF Spec, EntriesResolve

=============================================================================
