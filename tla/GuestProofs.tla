---------------------------- MODULE GuestProofs -----------------------------
(* Proofs about the guest of module Guest: what a nodeid it was given leads *)
(* to and what a writing session owns, for every set of names, flags,       *)
(* payloads and handles.                                                    *)
EXTENDS Guest, FilesystemProofs

KnownNodes == [names : Seq(Names), kind : {"file", "dir"}]

\* The guest's part of its type invariant.
KnownTypeOK ==
    /\ known \in [DOMAIN known -> KnownNodes]
    /\ DOMAIN known \subseteq Nat
    /\ handles \in [DOMAIN handles -> Sessions]

GuestInv == TablesInv /\ ServiceInv /\ KnownTypeOK /\ KnownResolves

-----------------------------------------------------------------------------
(* The guest is one of the clients the server was proved for.              *)

LEMMA GuestIsAny ==
    ASSUME KnownTypeOK, [GuestNext]_gvars
    PROVE  [AnyStep]_vars
  <1>n. Places \subseteq Nat /\ Offsets \subseteq Nat /\ MaxSize \in Nat
    BY BoundsAssumption DEF Places, Offsets
  <1>k. DOMAIN known \subseteq Nat /\ KnownDirs \subseteq Nat /\ KnownFiles \subseteq Nat
    BY DEF KnownTypeOK, KnownDirs, KnownFiles
  <1>h. \A h \in DOMAIN handles : handles[h].node \in Nat
    BY DEF KnownTypeOK, Sessions
  <1>1. CASE UNCHANGED gvars
    BY <1>1 DEF gvars, vars
  <1>2. CASE Mount
    BY <1>2 DEF Mount, AnyStep
  <1>3. CASE Unmount \/ ServerRestart
    BY <1>3 DEF Unmount, ServerRestart, AnyStep
  <1>4. ASSUME NEW obj \in Objects, OutsideChange(obj) PROVE AnyStep
    BY <1>4 DEF OutsideChange, AnyStep
  <1>5. ASSUME NEW node \in DOMAIN known, GuestForget(node) PROVE AnyStep
    BY <1>5, <1>k DEF GuestForget, AnyStep
  <1>6. ASSUME NEW node \in DOMAIN known, NEW up \in BOOLEAN, GuestGetattr(node, up) PROVE AnyStep
    BY <1>6, <1>k DEF GuestGetattr, AnyStep
  <1>7. ASSUME NEW parent \in KnownDirs, NEW name \in Names, NEW up \in BOOLEAN,
               \/ GuestLookup(parent, name, up) \/ GuestMkdir(parent, name, up)
               \/ GuestRemove(parent, name, up)
        PROVE  AnyStep
    BY <1>7, <1>k DEF GuestLookup, GuestMkdir, GuestRemove, AnyStep
  <1>8. ASSUME NEW node \in KnownDirs, NEW offset \in Places, NEW room \in Places,
               NEW up \in BOOLEAN, GuestReaddir(node, offset, room, up)
        PROVE  AnyStep
    BY <1>8, <1>k, <1>n DEF GuestReaddir, AnyStep
  <1>9. ASSUME NEW h, NEW flags, NEW fault, NEW node \in KnownFiles, GuestOpen(h, node, flags, fault)
        PROVE  AnyStep
    BY <1>9, <1>k DEF GuestOpen, AnyStep
  <1>10. ASSUME NEW h, NEW flags, NEW fault, NEW parent \in KnownDirs, NEW name \in Names,
                GuestCreate(h, parent, name, flags, fault)
         PROVE  AnyStep
    BY <1>10, <1>k DEF GuestCreate, AnyStep
  <1>11. ASSUME NEW h \in DOMAIN handles, NEW up \in BOOLEAN, NEW offset \in Offsets,
                NEW chunk \in Chunks, GuestWrite(h, offset, chunk, up)
         PROVE  AnyStep
    BY <1>11, <1>h, <1>n DEF GuestWrite, AnyStep
  <1>12. ASSUME NEW h \in DOMAIN handles, NEW up \in BOOLEAN,
                GuestRead(h, 0, MaxSize, up)
         PROVE  AnyStep
    BY <1>12, <1>h, <1>n DEF GuestRead, AnyStep
  <1>13. ASSUME NEW h \in DOMAIN handles, NEW up \in BOOLEAN, GuestRelease(h, up) PROVE AnyStep
    BY <1>13, <1>h DEF GuestRelease, AnyStep
  <1>14. ASSUME NEW h \in DOMAIN handles, GuestFlush(h) PROVE AnyStep
    BY <1>14, <1>h DEF GuestFlush, AnyStep
  <1> QED
    BY <1>1, <1>2, <1>3, <1>4, <1>5, <1>6, <1>7, <1>8, <1>9, <1>10, <1>11, <1>12, <1>13, <1>14
       DEF GuestNext

-----------------------------------------------------------------------------
(* A restarted server knows no nodeid, so it learns nothing until a mount. *)

LEMMA EmptyStays ==
    ASSUME opened_files = <<>>, GuestNext, ~Mount
    PROVE  opened_files' = <<>>
  <1>u. \A node : ~Resolves(node)
    BY DEF Resolves
  <1>r. ASSUME NEW e, Refuse(e) PROVE opened_files' = <<>>
    BY <1>r DEF Refuse
  <1>a. ASSUME NEW node, AckIfResolved(node) PROVE opened_files' = <<>>
    BY <1>a, <1>u, <1>r DEF AckIfResolved, Unresolved
  <1>2. CASE Unmount \/ ServerRestart
    BY <1>2, <1>r DEF Unmount, Destroy, ServerRestart, Restart
  <1>4. ASSUME NEW obj \in Objects, OutsideChange(obj) PROVE opened_files' = <<>>
    BY <1>4 DEF OutsideChange, ExternalDelete, ExternalPut
  <1>5. ASSUME NEW node, GuestForget(node) PROVE opened_files' = <<>>
    BY <1>5, <1>r DEF GuestForget, Forget
  <1>6. ASSUME NEW node, NEW up, GuestGetattr(node, up) PROVE opened_files' = <<>>
    BY <1>6, <1>u, <1>r DEF GuestGetattr, Getattr, Unresolved
  <1>7. ASSUME NEW parent, NEW name, NEW up,
               \/ GuestLookup(parent, name, up) \/ GuestMkdir(parent, name, up)
               \/ GuestRemove(parent, name, up)
        PROVE  opened_files' = <<>>
    BY <1>7, <1>u, <1>r
       DEF GuestLookup, GuestMkdir, GuestRemove, Lookup, Mkdir, Unlink, Remove, Unresolved
  <1>8. ASSUME NEW node, NEW offset, NEW room, NEW up, GuestReaddir(node, offset, room, up)
        PROVE  opened_files' = <<>>
    BY <1>8, <1>u, <1>r, <1>a DEF GuestReaddir, Opendir, Readdir, Unresolved
  <1>9. ASSUME NEW h, NEW flags, NEW fault, NEW node, GuestOpen(h, node, flags, fault)
        PROVE  opened_files' = <<>>
    BY <1>9, <1>u, <1>r DEF GuestOpen, Open, Unresolved
  <1>10. ASSUME NEW h, NEW flags, NEW fault, NEW parent, NEW name,
                GuestCreate(h, parent, name, flags, fault)
         PROVE  opened_files' = <<>>
    BY <1>10, <1>u, <1>r DEF GuestCreate, Create, Unresolved
  <1>11. ASSUME NEW h, NEW up, NEW offset, NEW chunk, GuestWrite(h, offset, chunk, up)
         PROVE  opened_files' = <<>>
    BY <1>11, <1>u, <1>r DEF GuestWrite, Write, Unresolved
  <1>12. ASSUME NEW h, NEW up, NEW offset, NEW size, GuestRead(h, offset, size, up)
         PROVE  opened_files' = <<>>
    BY <1>12, <1>u, <1>r DEF GuestRead, Read, Unresolved
  <1>13. ASSUME NEW h, NEW up, GuestRelease(h, up) PROVE opened_files' = <<>>
    BY <1>13, <1>u, <1>r DEF GuestRelease, Release, Unresolved
  <1>14. ASSUME NEW h, GuestFlush(h) PROVE opened_files' = <<>>
    BY <1>14, <1>a DEF GuestFlush, Flush
  <1> QED
    BY <1>2, <1>4, <1>5, <1>6, <1>7, <1>8, <1>9, <1>10, <1>11, <1>12, <1>13, <1>14
       DEF GuestNext

-----------------------------------------------------------------------------
(* A nodeid in a reply resolves to the path that was asked for.            *)

LEMMA FailedReply == \A e : e # "OK" => Fail(e).error # "OK"
  BY DEF Fail, Ack

LEMMA AttrReply ==
    \A ino, kind, size : Attr(ino, kind, size).ino = ino /\ Attr(ino, kind, size).kind = kind
  BY DEF Attr, Ack

LEMMA InsertedResolves ==
    ASSUME TablesInv, NEW path, path \in Paths, InsertInode(path)
    PROVE  /\ NextInode \in Nat
           /\ NextInode + 1 \in 1 .. Len(opened_files')
           /\ opened_files'[NextInode + 1] = path
  BY DEF InsertInode, NextInode, TablesInv, TablesTypeOK

LEMMA RepliedResolves ==
    ASSUME TablesInv, ServiceInv, TablesInv', NEW node \in Nat, NEW name \in Names,
           reply'.error = "OK",
           \/ \E up \in BOOLEAN : Lookup(node, name, up) \/ Mkdir(node, name, up)
           \/ \E flags, fault : Create(node, name, flags, fault)
    PROVE  /\ Resolves(node)
           /\ reply'.ino \in Nat /\ reply'.kind \in {"file", "dir"}
           /\ reply'.ino + 1 \in 1 .. Len(opened_files')
           /\ opened_files'[reply'.ino + 1] = Join(PathOf(node), name)
  <1> DEFINE path == Join(PathOf(node), name)
  <1>f. reply' # Fail("ENOENT")
    BY FailedReply
  <1>u. ~Unresolved(node) /\ ~Refuse("ENOENT")
    BY <1>f DEF Unresolved, Refuse
  <1>1. Resolves(node)
    BY <1>u DEF Lookup, Mkdir, Create
  <1>2. path \in Paths
    BY <1>1, ResolvedPath, JoinPath DEF TablesInv
  <1>3. CASE \E up \in BOOLEAN : Lookup(node, name, up)
    <2>1. /\ FindOrInsertInode(path)
          /\ StatFinds(path)
          /\ \E size : reply' = Attr(opened_files_map'[path], store[Obj(path)].kind, size)
      BY <1>3, <1>u DEF Lookup, GetMetadata
    <2>2. reply'.ino = opened_files_map'[path] /\ reply'.kind = store[Obj(path)].kind
      BY <2>1, AttrReply
    <2>k. store[Obj(path)].kind \in {"file", "dir"}
      BY <2>1 DEF StatFinds, IsDir, IsFile
    <2> HIDE DEF path
    <2>3. path \in DOMAIN opened_files_map'
      BY <2>1 DEF FindOrInsertInode, InsertInode, tables, Bind
    <2>4. /\ opened_files_map'[path] \in 0 .. (Len(opened_files') - 1)
          /\ opened_files'[opened_files_map'[path] + 1] = path
      BY <2>3 DEF TablesInv, MapSlabCoherent, Resolves, PathOf
    <2>5. Len(opened_files') \in Nat
      BY DEF TablesInv, TablesTypeOK
    <2> QED
      BY <1>1, <2>2, <2>k, <2>4, <2>5 DEF path
  <1>4. CASE \E up \in BOOLEAN : Mkdir(node, name, up)
    <2>1. InsertInode(path) /\ reply' = Attr(NextInode, "dir", 0)
      BY <1>4, <1>u, <1>f DEF Mkdir
    <2>2. reply'.ino = NextInode /\ reply'.kind \in {"file", "dir"}
      BY <2>1, AttrReply
    <2> QED
      BY <1>1, <1>2, <2>1, <2>2, InsertedResolves
  <1>5. CASE \E flags, fault : Create(node, name, flags, fault)
    <2>1. InsertInode(path) /\ reply' = Attr(NextInode, "file", 0)
      BY <1>5, <1>u, <1>f DEF Create, SetWriter
    <2>2. reply'.ino = NextInode /\ reply'.kind \in {"file", "dir"}
      BY <2>1, AttrReply
    <2> QED
      BY <1>1, <1>2, <2>1, <2>2, InsertedResolves
  <1> QED
    BY <1>3, <1>4, <1>5

-----------------------------------------------------------------------------
(* What the guest knows stays true.                                        *)

\* names leads to node in slab.
LeadsTo(slab, node, names) ==
    node \in 0 .. (Len(slab) - 1) /\ slab[node + 1] = RootPath \o names

\* Every step but a mount keeps what was known, or the server has lost it all.
LEMMA OldStaysTrue ==
    ASSUME GuestInv, GuestNext, ~Mount
    PROVE  \/ opened_files' = <<>>
           \/ \A node \in DOMAIN known : LeadsTo(opened_files', node, known[node].names)
  <1>1. SlabKept /\ TablesInv'
    BY GuestIsAny, StepChangesTables, TablesStepKeeps DEF GuestInv
  <1>2. CASE opened_files = <<>> \/ opened_files' = <<>>
    BY <1>2, EmptyStays
  <1>3. CASE opened_files # <<>> /\ Keeps(opened_files, opened_files')
    <2>1. opened_files \in Seq(Paths) /\ opened_files' \in Seq(Paths)
      BY <1>1 DEF GuestInv, TablesInv, TablesTypeOK
    <2>2. ASSUME NEW node \in DOMAIN known PROVE LeadsTo(opened_files', node, known[node].names)
      <3>1. LeadsTo(opened_files, node, known[node].names)
        BY <1>3 DEF GuestInv, KnownResolves, KnownPath, Resolves, PathOf, LeadsTo
      <3> QED
        BY <1>3, <2>1, <3>1 DEF LeadsTo, Keeps
    <2> QED
      BY <2>2
  <1> QED
    BY <1>1, <1>2, <1>3 DEF SlabKept

LEMMA KnownFrom ==
    ASSUME \/ opened_files' = <<>>
           \/ \A node \in DOMAIN known' : LeadsTo(opened_files', node, known'[node].names)
    PROVE  KnownResolves'
  BY DEF KnownResolves, KnownPath, Resolves, PathOf, LeadsTo

LEMMA JoinNames ==
    ASSUME NEW names \in Seq(Names), NEW name \in Names
    PROVE  /\ Append(names, name) \in Seq(Names)
           /\ RootPath \o Append(names, name) = Join(RootPath \o names, name)
  <1>1. RootPath \in Seq(Segments) /\ names \in Seq(Segments) /\ name \in Segments
    BY DEF RootPath, Segments
  <1>2. Append(names, name) \in Seq(Names)
    OBVIOUS
  <1>3. RootPath \o Append(names, name) = Append(RootPath \o names, name)
    BY <1>1
  <1> QED
    BY <1>2, <1>3 DEF Join

LEMMA LearnKeeps ==
    ASSUME GuestInv, GuestNext, ~Mount, TablesInv', NEW parent \in DOMAIN known, NEW name \in Names,
           Learn(parent, name),
           \/ \E up \in BOOLEAN : Lookup(parent, name, up) \/ Mkdir(parent, name, up)
           \/ \E flags, fault : Create(parent, name, flags, fault)
    PROVE  /\ DOMAIN known' \subseteq Nat /\ known' \in [DOMAIN known' -> KnownNodes]
           /\ KnownResolves'
           /\ reply'.error = "OK" => reply'.ino \in Nat
  <1>1. CASE reply'.error # "OK"
    <2>1. known' = known
      BY <1>1 DEF Learn
    <2> QED
      BY <1>1, <2>1, OldStaysTrue, KnownFrom DEF GuestInv, KnownTypeOK
  <1>2. CASE reply'.error = "OK"
    <2> DEFINE names == Append(known[parent].names, name)
               ino == reply'.ino
    <2>1. parent \in Nat /\ known[parent].names \in Seq(Names)
      BY DEF GuestInv, KnownTypeOK, KnownNodes
    <2>2. /\ Resolves(parent) /\ ino \in Nat /\ reply'.kind \in {"file", "dir"}
          /\ ino + 1 \in 1 .. Len(opened_files')
          /\ opened_files'[ino + 1] = Join(PathOf(parent), name)
      BY <1>2, <2>1, RepliedResolves DEF GuestInv
    <2>3. PathOf(parent) = RootPath \o known[parent].names
      <3>1. opened_files # <<>>
        BY <2>1, <2>2, ResolvedPath DEF GuestInv, TablesInv
      <3> QED
        BY <3>1 DEF GuestInv, KnownResolves, KnownPath
    <2>4. names \in Seq(Names) /\ RootPath \o names = Join(PathOf(parent), name)
      BY <2>1, <2>3, JoinNames
    <2>5. known' = Bind(known, ino, [names |-> names, kind |-> reply'.kind])
      BY <1>2 DEF Learn
    <2> HIDE DEF names, ino
    <2>6. /\ DOMAIN known' = DOMAIN known \cup {ino}
          /\ known'[ino].names = names
          /\ \A node \in DOMAIN known : node # ino => known'[node] = known[node]
      BY <2>5 DEF Bind
    <2>7. LeadsTo(opened_files', ino, names)
      <3>1. Len(opened_files') \in Nat
        BY DEF TablesInv, TablesTypeOK
      <3> QED
        BY <2>2, <2>4, <3>1 DEF LeadsTo
    <2>8. KnownResolves'
      BY <2>6, <2>7, OldStaysTrue, KnownFrom
    <2>9. known' \in [DOMAIN known' -> KnownNodes]
      <3>1. [names |-> names, kind |-> reply'.kind] \in KnownNodes
        BY <2>2, <2>4 DEF KnownNodes
      <3> QED
        BY <2>5, <3>1 DEF Bind, GuestInv, KnownTypeOK
    <2> QED
      BY <2>2, <2>6, <2>8, <2>9 DEF GuestInv, KnownTypeOK, ino
  <1> QED
    BY <1>1, <1>2

-----------------------------------------------------------------------------
(* The guest's handles stay well typed.                                    *)

HandlesType(hs) == hs \in [DOMAIN hs -> Sessions]

LEMMA BindType ==
    ASSUME NEW hs, HandlesType(hs), NEW h, NEW s \in Sessions
    PROVE  HandlesType(Bind(hs, h, s))
  BY DEF HandlesType, Bind

LEMMA SessionType ==
    ASSUME NEW node \in Nat, NEW path \in Paths, NEW write \in BOOLEAN, NEW expect \in Seq(Nat),
           NEW rivals \in {"none", "readers", "writers"}
    PROVE  Session(node, path, write, rivals, expect) \in Sessions
  BY DEF Session, Sessions

LEMMA DisturbType == ASSUME NEW s \in Sessions PROVE Disturb(s) \in Sessions
  <1>1. <<>> \in Seq(Nat)
    OBVIOUS
  <1> QED
    BY <1>1 DEF Disturb, Sessions

LEMMA DisturbedType ==
    ASSUME KnownTypeOK, NEW obj PROVE HandlesType(Disturbed(obj))
  BY DisturbType DEF KnownTypeOK, HandlesType, Disturbed

LEMMA WatchedType ==
    ASSUME KnownTypeOK, NEW obj PROVE HandlesType(Watched(obj))
  <1>1. ASSUME NEW s \in Sessions PROVE [s EXCEPT !.rivals = "readers"] \in Sessions
    BY DEF Sessions
  <1> QED
    BY <1>1 DEF KnownTypeOK, HandlesType, Watched

LEMMA OpenedType ==
    ASSUME KnownTypeOK, ServiceTypeOK, NEW h, NEW node \in Nat, NEW path \in Paths, NEW flags, NEW fault
    PROVE  HandlesType(Opened(h, node, path, flags, fault))
  <1>1. <<>> \in Seq(Nat) /\ OpenedData(Obj(path), IsAppend(flags)) \in Seq(Nat)
    BY OpenedDataType
  <1>2. Session(node, path, FALSE, "writers", <<>>) \in Sessions
    BY <1>1, SessionType
  <1>3. \A rivals \in {"none", "readers", "writers"} :
          /\ Session(node, path, TRUE, rivals, <<>>) \in Sessions
          /\ Session(node, path, TRUE, rivals, OpenedData(Obj(path), IsAppend(flags))) \in Sessions
    BY <1>1, SessionType
  <1>4. HandlesType(OpenedForReading(h, node, path))
    BY <1>2, WatchedType, BindType DEF OpenedForReading
  <1>5. HandlesType(OpenedForWriting(h, node, path, IsAppend(flags), fault))
    BY <1>3, DisturbedType, BindType DEF OpenedForWriting
  <1> QED
    BY <1>4, <1>5 DEF Opened

LEMMA WriteType ==
    ASSUME KnownTypeOK, NEW h \in DOMAIN handles, NEW offset \in Nat, NEW chunk \in Chunks, NEW up,
           GuestWrite(h, offset, chunk, up)
    PROVE  HandlesType(handles')
  <1> DEFINE s == handles[h]
             longer == Extended(s, offset, chunk)
  <1>1. s \in Sessions /\ s.expect \in Seq(Nat) /\ chunk \in Seq(Nat)
    BY ChunksAssumption DEF KnownTypeOK, Sessions
  <1>2. Overlay(s.expect, offset, chunk) \in Seq(Nat)
    BY <1>1, OverlayType
  <1>3. longer \in Sessions
    BY <1>1, <1>2 DEF Sessions, Extended
  <1>4. Disturb(s) \in Sessions
    BY <1>1, DisturbType
  <1>5. handles' = [handles EXCEPT ![h] =
                      IF reply'.error = "OK" /\ s.rivals # "writers" THEN longer
                      ELSE IF up THEN s ELSE Disturb(s)]
    BY DEF GuestWrite
  <1> HIDE DEF s, longer
  <1>6. \E t \in Sessions : handles' = [handles EXCEPT ![h] = t]
    BY <1>1, <1>3, <1>4, <1>5
  <1> QED
    BY <1>6 DEF KnownTypeOK, HandlesType

-----------------------------------------------------------------------------
(* Every step of the guest keeps the invariant.                            *)

KnownKept ==
    /\ DOMAIN known' \subseteq Nat /\ known' \in [DOMAIN known' -> KnownNodes]
    /\ KnownResolves'

LEMMA SameKnown ==
    ASSUME GuestInv, GuestNext, ~Mount,
           known' = known \/ known' = <<>> \/ \E node : known' = Unbind(known, node)
    PROVE  KnownKept
  <1>1. /\ DOMAIN known' \subseteq DOMAIN known
        /\ \A node \in DOMAIN known' : known'[node] = known[node]
        /\ known' = [node \in DOMAIN known' |-> known'[node]]
    <2>1. CASE known' = known
      BY <2>1 DEF GuestInv, KnownTypeOK
    <2>2. CASE known' = <<>>
      BY <2>2
    <2>3. ASSUME NEW node, known' = Unbind(known, node)
          PROVE  /\ DOMAIN known' \subseteq DOMAIN known
                 /\ \A n \in DOMAIN known' : known'[n] = known[n]
                 /\ known' = [n \in DOMAIN known' |-> known'[n]]
      BY <2>3 DEF Unbind
    <2> QED
      BY <2>1, <2>2, <2>3
  <1>2. KnownResolves'
    BY <1>1, OldStaysTrue, KnownFrom
  <1> QED
    BY <1>1, <1>2 DEF KnownKept, GuestInv, KnownTypeOK

LEMMA MountKeeps ==
    ASSUME GuestInv, TablesInv', Mount
    PROVE  KnownKept /\ HandlesType(handles')
  <1>1. opened_files' = opened_files \o <<RootPath, RootPath>>
    BY DEF Mount, FuseInit, RootEntries
  <1>2. /\ opened_files \in Seq(Paths) /\ opened_files' \in Seq(Paths)
        /\ RootPath \in Paths
    BY DEF GuestInv, TablesInv, TablesTypeOK, RootPath, Paths, Segments
  <1>3. opened_files' # <<>>
    BY <1>1, <1>2
  <1>4. RootInode \in 0 .. (Len(opened_files') - 1) /\ opened_files'[RootInode + 1] = RootPath
    BY <1>3 DEF TablesInv, RootResolves, Resolves, PathOf
  <1>5. known' = [n \in {RootInode} |-> [names |-> <<>>, kind |-> "dir"]]
    BY DEF Mount
  <1>6. RootPath \o <<>> = RootPath
    BY <1>2 DEF Paths
  <1>7. LeadsTo(opened_files', RootInode, <<>>)
    BY <1>4, <1>6 DEF LeadsTo
  <1>8. DOMAIN known' = {RootInode} /\ known'[RootInode] = [names |-> <<>>, kind |-> "dir"]
    BY <1>5
  <1>9. KnownResolves'
    BY <1>7, <1>8, KnownFrom
  <1>10. [names |-> <<>>, kind |-> "dir"] \in KnownNodes
    BY DEF KnownNodes
  <1>11. RootInode \in Nat
    BY DEF RootInode
  <1>12. known' \in [DOMAIN known' -> KnownNodes]
    BY <1>5, <1>8, <1>10
  <1>13. HandlesType(handles')
    BY DEF Mount, GuestInv, KnownTypeOK, HandlesType
  <1> QED
    BY <1>8, <1>9, <1>11, <1>12, <1>13 DEF KnownKept

LEMMA KnownPathType ==
    ASSUME GuestInv, NEW node \in DOMAIN known
    PROVE  /\ KnownPath(node) \in Paths
           /\ \A name \in Names : Append(KnownPath(node), name) \in Paths
  <1>1. RootPath \in Seq(Segments) /\ known[node].names \in Seq(Segments)
    BY DEF GuestInv, KnownTypeOK, KnownNodes, RootPath, Segments
  <1>2. KnownPath(node) \in Paths
    BY <1>1 DEF KnownPath, Paths
  <1> QED
    BY <1>2 DEF Paths, Segments

LEMMA GuestStepKeeps ==
    ASSUME GuestInv, GuestNext
    PROVE  KnownKept /\ HandlesType(handles')
  <1>t. TablesInv'
    BY GuestIsAny, StepChangesTables, TablesStepKeeps DEF GuestInv
  <1>h. KnownTypeOK /\ HandlesType(handles)
    BY DEF GuestInv, KnownTypeOK, HandlesType
  <1>s. ServiceTypeOK
    BY DEF GuestInv, ServiceInv
  <1>d. KnownDirs \subseteq DOMAIN known /\ KnownFiles \subseteq DOMAIN known
    BY DEF KnownDirs, KnownFiles
  <1>k. DOMAIN known \subseteq Nat
    BY <1>h DEF KnownTypeOK
  <1>o. Offsets \subseteq Nat
    BY BoundsAssumption DEF Offsets
  <1>1. CASE Mount
    BY <1>t, <1>1, MountKeeps
  <1> SUFFICES ASSUME ~Mount PROVE KnownKept /\ HandlesType(handles')
    BY <1>1
  <1>2. CASE Unmount
    BY <1>2, <1>h, SameKnown DEF Unmount
  <1>3. CASE ServerRestart
    <2>1. known' = known /\ handles' = [h \in DOMAIN handles |-> Disturb(handles[h])]
      BY <1>3 DEF ServerRestart
    <2>2. HandlesType(handles')
      BY <2>1, <1>h, DisturbType DEF HandlesType
    <2> QED
      BY <2>1, <2>2, SameKnown
  <1>4. ASSUME NEW obj \in Objects, OutsideChange(obj) PROVE KnownKept /\ HandlesType(handles')
    BY <1>4, <1>h, SameKnown, DisturbedType DEF OutsideChange
  <1>5. ASSUME NEW node \in DOMAIN known, GuestForget(node)
        PROVE  KnownKept /\ HandlesType(handles')
    BY <1>5, <1>h, SameKnown DEF GuestForget
  <1>6. ASSUME NEW node \in DOMAIN known, NEW up \in BOOLEAN, GuestGetattr(node, up)
        PROVE  KnownKept /\ HandlesType(handles')
    BY <1>6, <1>h, SameKnown DEF GuestGetattr
  <1>7. ASSUME NEW parent \in KnownDirs, NEW name \in Names, NEW up \in BOOLEAN,
               GuestLookup(parent, name, up)
        PROVE  KnownKept /\ HandlesType(handles')
    BY <1>7, <1>d, <1>h, <1>t, LearnKeeps DEF GuestLookup, KnownKept
  <1>8. ASSUME NEW parent \in KnownDirs, NEW name \in Names, NEW up \in BOOLEAN,
               GuestMkdir(parent, name, up)
        PROVE  KnownKept /\ HandlesType(handles')
    BY <1>8, <1>d, <1>h, <1>t, LearnKeeps, DisturbedType DEF GuestMkdir, KnownKept
  <1>9. ASSUME NEW parent \in KnownDirs, NEW name \in Names, NEW up \in BOOLEAN,
               GuestRemove(parent, name, up)
        PROVE  KnownKept /\ HandlesType(handles')
    BY <1>9, <1>h, SameKnown, DisturbedType DEF GuestRemove
  <1>10. ASSUME NEW node \in KnownDirs, NEW offset \in Places, NEW room \in Places,
                NEW up \in BOOLEAN, GuestReaddir(node, offset, room, up)
         PROVE  KnownKept /\ HandlesType(handles')
    BY <1>10, <1>h, SameKnown DEF GuestReaddir
  <1>11. ASSUME NEW h, NEW flags, NEW fault, NEW node \in KnownFiles,
                GuestOpen(h, node, flags, fault)
         PROVE  KnownKept /\ HandlesType(handles')
    <2>1. node \in Nat /\ KnownPath(node) \in Paths
      BY <1>d, <1>k, KnownPathType
    <2> QED
      BY <1>11, <1>h, <1>s, <2>1, SameKnown, DisturbedType, OpenedType DEF GuestOpen
  <1>12. ASSUME NEW h, NEW flags, NEW fault, NEW parent \in KnownDirs, NEW name \in Names,
                GuestCreate(h, parent, name, flags, fault)
         PROVE  KnownKept /\ HandlesType(handles')
    <2> DEFINE path == Append(KnownPath(parent), name)
    <2>1. path \in Paths
      BY <1>d, KnownPathType
    <2>2. KnownKept /\ (reply'.error = "OK" => reply'.ino \in Nat)
      BY <1>12, <1>d, <1>t, LearnKeeps DEF GuestCreate, KnownKept
    <2>3. handles' = IF reply'.error = "OK" THEN Opened(h, reply'.ino, path, flags, fault)
                     ELSE Disturbed(Obj(path))
      BY <1>12 DEF GuestCreate
    <2> HIDE DEF path
    <2>4. CASE reply'.error = "OK"
      <3>1. reply'.ino \in Nat /\ handles' = Opened(h, reply'.ino, path, flags, fault)
        BY <2>2, <2>3, <2>4
      <3>2. HandlesType(Opened(h, reply'.ino, path, flags, fault))
        BY <1>h, <1>s, <2>1, <3>1, OpenedType
      <3> QED
        BY <2>2, <3>1, <3>2
    <2>5. CASE reply'.error # "OK"
      BY <1>h, <2>2, <2>3, <2>5, DisturbedType
    <2> QED
      BY <2>4, <2>5
  <1>13. ASSUME NEW h \in DOMAIN handles, NEW up \in BOOLEAN, NEW offset \in Offsets,
                NEW chunk \in Chunks, GuestWrite(h, offset, chunk, up)
         PROVE  KnownKept /\ HandlesType(handles')
    <2>1. known' = known
      BY <1>13 DEF GuestWrite
    <2> QED
      BY <1>13, <1>h, <1>o, <2>1, SameKnown, WriteType
  <1>14. ASSUME NEW h \in DOMAIN handles, NEW up \in BOOLEAN,
                GuestRead(h, 0, MaxSize, up)
         PROVE  KnownKept /\ HandlesType(handles')
    BY <1>14, <1>h, SameKnown DEF GuestRead
  <1>15. ASSUME NEW h \in DOMAIN handles, NEW up \in BOOLEAN, GuestRelease(h, up)
         PROVE  KnownKept /\ HandlesType(handles')
    <2>1. known' = known /\ handles' = Unbind(handles, h)
      BY <1>15 DEF GuestRelease
    <2>2. HandlesType(handles')
      BY <1>h, <2>1 DEF HandlesType, Unbind
    <2> QED
      BY <2>1, <2>2, SameKnown
  <1>16. ASSUME NEW h \in DOMAIN handles, GuestFlush(h) PROVE KnownKept /\ HandlesType(handles')
    BY <1>16, <1>h, SameKnown DEF GuestFlush
  <1> QED
    BY <1>2, <1>3, <1>4, <1>5, <1>6, <1>7, <1>8, <1>9, <1>10, <1>11, <1>12, <1>13, <1>14,
       <1>15, <1>16 DEF GuestNext

LEMMA GuestStep ==
    ASSUME GuestInv, [GuestNext]_gvars
    PROVE  GuestInv'
  <1>1. TablesInv' /\ ServiceInv'
    BY GuestIsAny, StepChangesTables, TablesStepKeeps, StepKeepsService DEF GuestInv
  <1>2. CASE GuestNext
    BY <1>1, <1>2, GuestStepKeeps DEF GuestInv, KnownKept, KnownTypeOK, HandlesType
  <1>3. CASE UNCHANGED gvars
    <2>1. KnownTypeOK' /\ KnownResolves'
      BY <1>3 DEF gvars, GuestInv, KnownTypeOK, KnownResolves, KnownPath, Resolves, PathOf
    <2> QED
      BY <1>1, <2>1 DEF GuestInv
  <1> QED
    BY <1>2, <1>3

LEMMA GuestStart == GuestInit => GuestInv
  <1>1. ASSUME GuestInit PROVE KnownTypeOK /\ KnownResolves
    BY <1>1 DEF GuestInit, KnownTypeOK, KnownResolves
  <1> QED
    BY <1>1, InitTables, InitService DEF GuestInit, GuestInv

(* Every nodeid the guest was given and has not forgotten leads to the object it
   was given for, whatever was unlinked, made anew, listed or failed meanwhile;
   only a restarted server that was not mounted again knows none of them. *)
THEOREM KnownNodeids == GuestSpec => []KnownResolves
  <1>1. GuestInv => KnownResolves
    BY DEF GuestInv
  <1> QED
    BY <1>1, GuestStart, GuestStep, PTL DEF GuestSpec

(* Type correctness of the server, the service and the guest together. *)
THEOREM GuestTypeCorrect == GuestSpec => []GuestTypeOK
  <1>1. GuestInv => GuestTypeOK
    BY DEF GuestInv, TablesInv, TablesTypeOK, ServiceInv, ServiceTypeOK, TypeOK, GuestTypeOK,
           KnownTypeOK, KnownNodes
  <1> QED
    BY <1>1, GuestStart, GuestStep, PTL DEF GuestSpec

-----------------------------------------------------------------------------
(* Writing sessions: a session without rivals owns the server's writer and  *)
(* the object, for every set of names, flags, payloads and handles and both *)
(* kinds of service.                                                        *)

\* OwnWriter over given writers and a given store; that the object is there is added.
Owns(s, writers, objects) ==
    /\ s.path \in DOMAIN writers
    /\ writers[s.path].written = Len(s.expect) /\ writers[s.path].pos = Len(s.expect)
    /\ IF WriteThrough
       THEN /\ writers[s.path].attached
            /\ Obj(s.path) \in DOMAIN objects /\ objects[Obj(s.path)] = File(s.expect)
       ELSE writers[s.path].buf = s.expect

\* The server has the path of the session for its nodeid, or nothing at all.
Placed(s, slab) == slab = <<>> \/ (s.node + 1 \in 1 .. Len(slab) /\ slab[s.node + 1] = s.path)

\* A session without rivals owns its writer, and nobody else has its object open.
Alone(h, hs) == \A g \in DOMAIN hs : Obj(hs[g].path) = Obj(hs[h].path) => g = h

PlacedInv == \A h \in DOMAIN handles : Placed(handles[h], opened_files)

SoleInv ==
    \A h \in DOMAIN handles :
        handles[h].rivals = "none" => Owns(handles[h], opened_files_writer, store) /\ Alone(h, handles)

SessionInv == GuestInv /\ PlacedInv /\ SoleInv

-----------------------------------------------------------------------------
(* A request changes writers and data of one object only.                  *)

OnlyAt(obj) ==
    /\ \A p \in DOMAIN opened_files_writer :
         Obj(p) # obj => p \in DOMAIN opened_files_writer' /\ opened_files_writer'[p] = opened_files_writer[p]
    /\ \A o \in DOMAIN store : o # obj => o \in DOMAIN store' /\ store'[o] = store[o]

LEMMA UntouchedOnlyAt ==
    ASSUME UNCHANGED <<opened_files_writer, store>>, NEW STATE obj PROVE OnlyAt(obj)
  BY DEF OnlyAt

LEMMA OwnsElsewhere ==
    ASSUME NEW STATE obj, OnlyAt(obj), NEW STATE s, Obj(s.path) # obj,
           Owns(s, opened_files_writer, store)
    PROVE  Owns(s, opened_files_writer', store')
  BY DEF OnlyAt, Owns

LEMMA PutOnly ==
    ASSUME NEW STATE obj, NEW STATE node, store' = Put(obj, node)
    PROVE  /\ \A o \in DOMAIN store : o # obj => o \in DOMAIN store' /\ store'[o] = store[o]
           /\ obj \in DOMAIN store' /\ store'[obj] = node
  BY DEF Put

LEMMA BindOnly ==
    ASSUME NEW STATE path, NEW STATE w, opened_files_writer' = Bind(opened_files_writer, path, w)
    PROVE  /\ \A p \in DOMAIN opened_files_writer :
                Obj(p) # Obj(path) => p \in DOMAIN opened_files_writer' /\ opened_files_writer'[p] = opened_files_writer[p]
           /\ path \in DOMAIN opened_files_writer' /\ opened_files_writer'[path] = w
  BY DEF Bind

LEMMA RemovedOnly ==
    ASSUME NEW STATE obj, Removed(obj) PROVE OnlyAt(obj)
  BY DEF Removed, Unbind, Detached, OnlyAt

LEMMA SetWriterOnly ==
    ASSUME NEW STATE path, NEW flags, NEW fault, NEW STATE ok, SetWriter(path, flags, fault, ok)
    PROVE  OnlyAt(Obj(path))
  <1> DEFINE w == NewWriter(Len(OpenedData(Obj(path), IsAppend(flags))), IsAppend(flags))
             node == File(OpenedData(Obj(path), IsAppend(flags)))
             Others(ws) == \A p \in DOMAIN opened_files_writer :
                             Obj(p) # Obj(path) => p \in DOMAIN ws /\ ws[p] = opened_files_writer[p]
  <1>1. store' = store \/ \E n : store' = Put(Obj(path), n)
    BY DEF SetWriter, StoreAfterOpen
  <1>2. \/ opened_files_writer' = opened_files_writer
        \/ opened_files_writer' = Bind(opened_files_writer, path, w)
        \/ \E v : opened_files_writer' = Bind(Detached(Obj(path)), path, v)
    BY DEF SetWriter
  <1> HIDE DEF w, node
  <1>3. \A o \in DOMAIN store : o # Obj(path) => o \in DOMAIN store' /\ store'[o] = store[o]
    BY <1>1 DEF Put
  <1>4. Others(opened_files_writer')
    <2>1. \A v : Others(Bind(opened_files_writer, path, v))
      BY DEF Bind
    <2>2. \A v : Others(Bind(Detached(Obj(path)), path, v))
      BY DEF Bind, Detached
    <2> QED
      BY <1>2, <2>1, <2>2
  <1> QED
    BY <1>3, <1>4 DEF OnlyAt

LEMMA ReleaseOnly ==
    ASSUME NEW STATE node, NEW up, Release(node, up)
    PROVE  UNCHANGED <<opened_files_writer, store>> \/ (Resolves(node) /\ OnlyAt(Obj(PathOf(node))))
  <1> DEFINE path == PathOf(node)
  <1>1. CASE Unresolved(node) \/ Refuse("EIO")
    BY <1>1 DEF Unresolved, Refuse
  <1>2. CASE ~(Unresolved(node) \/ Refuse("EIO"))
    <2>1. /\ Resolves(node)
          /\ store' = store \/ store' = Put(Obj(path), File(opened_files_writer[path].buf))
          /\ opened_files_writer' = opened_files_writer \/ opened_files_writer' = Unbind(opened_files_writer, path)
      BY <1>2 DEF Release, CloseWriter, StoreAfterClose
    <2> HIDE DEF path
    <2>2. \A o \in DOMAIN store : o # Obj(path) => o \in DOMAIN store' /\ store'[o] = store[o]
      BY <2>1, PutOnly
    <2>3. \A p \in DOMAIN opened_files_writer :
            Obj(p) # Obj(path) => p \in DOMAIN opened_files_writer' /\ opened_files_writer'[p] = opened_files_writer[p]
      BY <2>1 DEF Unbind
    <2> QED
      BY <2>1, <2>2, <2>3 DEF OnlyAt, path
  <1> QED
    BY <1>1, <1>2

LEMMA WriteOnly ==
    ASSUME NEW STATE node, NEW offset, NEW chunk, NEW up, Write(node, offset, chunk, up)
    PROVE  UNCHANGED <<opened_files_writer, store>> \/ (Resolves(node) /\ OnlyAt(Obj(PathOf(node))))
  <1> DEFINE path == PathOf(node)
  <1>1. CASE Unresolved(node) \/ Refuse("EIO")
    BY <1>1 DEF Unresolved, Refuse
  <1>2. CASE ~(Unresolved(node) \/ Refuse("EIO"))
    <2>1. /\ Resolves(node)
          /\ store' = store \/ \E n : store' = Put(Obj(path), n)
          /\ \E w : opened_files_writer' = Bind(opened_files_writer, path, w)
      BY <1>2 DEF Write, StoreAfterTake
    <2> HIDE DEF path
    <2>2. \A o \in DOMAIN store : o # Obj(path) => o \in DOMAIN store' /\ store'[o] = store[o]
      BY <2>1, PutOnly
    <2>3. \A p \in DOMAIN opened_files_writer :
            Obj(p) # Obj(path) => p \in DOMAIN opened_files_writer' /\ opened_files_writer'[p] = opened_files_writer[p]
      BY <2>1, BindOnly
    <2> QED
      BY <2>1, <2>2, <2>3 DEF OnlyAt, path
  <1> QED
    BY <1>1, <1>2

LEMMA RemoveOnly ==
    ASSUME NEW STATE parent, NEW name, NEW up, Remove(parent, name, up)
    PROVE  UNCHANGED <<opened_files_writer, store>> \/ (Resolves(parent) /\ OnlyAt(Obj(Join(PathOf(parent), name))))
  BY RemovedOnly DEF Remove, Unresolved, Refuse

LEMMA MkdirOnly ==
    ASSUME NEW STATE parent, NEW name, NEW up, Mkdir(parent, name, up)
    PROVE  UNCHANGED <<opened_files_writer, store>> \/ (Resolves(parent) /\ OnlyAt(Obj(Join(PathOf(parent), name))))
  <1> DEFINE path == Join(PathOf(parent), name)
  <1>1. CASE Unresolved(parent)
    BY <1>1 DEF Unresolved, Refuse
  <1>2. CASE ~Unresolved(parent)
    <2>1. /\ Resolves(parent) /\ opened_files_writer' = opened_files_writer
          /\ store' = store \/ store' = Put(Obj(path), Dir)
      BY <1>2 DEF Mkdir
    <2> HIDE DEF path
    <2>2. \A o \in DOMAIN store : o # Obj(path) => o \in DOMAIN store' /\ store'[o] = store[o]
      BY <2>1, PutOnly
    <2> QED
      BY <2>1, <2>2 DEF OnlyAt, path
  <1> QED
    BY <1>1, <1>2

-----------------------------------------------------------------------------
(* Sessions stay where they were opened.                                   *)

\* The sessions of hs that are not in handles with the same nodeid and path.
SameOrPlaced(g, hs, slab) ==
    \/ g \in DOMAIN handles /\ hs[g].node = handles[g].node /\ hs[g].path = handles[g].path
    \/ Placed(hs[g], slab)

LEMMA PlacedStep ==
    ASSUME GuestInv, PlacedInv, GuestNext, ~Mount,
           \A g \in DOMAIN handles' : SameOrPlaced(g, handles', opened_files')
    PROVE  PlacedInv'
  <1>1. SlabKept /\ TablesInv'
    BY GuestIsAny, StepChangesTables, TablesStepKeeps DEF GuestInv
  <1>2. opened_files = <<>> => opened_files' = <<>>
    BY EmptyStays
  <1>3. opened_files \in Seq(Paths) /\ opened_files' \in Seq(Paths)
    BY <1>1 DEF GuestInv, TablesInv, TablesTypeOK
  <1>4. ASSUME NEW g \in DOMAIN handles PROVE Placed(handles[g], opened_files')
    <2>1. Placed(handles[g], opened_files)
      BY DEF PlacedInv
    <2> QED
      BY <1>1, <1>2, <1>3, <2>1 DEF Placed, SlabKept, Keeps
  <1>5. ASSUME NEW g \in DOMAIN handles' PROVE Placed(handles'[g], opened_files')
    BY <1>4 DEF SameOrPlaced, Placed
  <1> QED
    BY <1>5 DEF PlacedInv

LEMMA DisturbKeeps ==
    ASSUME NEW STATE s, s \in Sessions
    PROVE  Disturb(s).node = s.node /\ Disturb(s).path = s.path /\ Disturb(s).rivals = "writers"
  BY DEF Disturb, Sessions

LEMMA DisturbedSessions ==
    ASSUME KnownTypeOK, NEW STATE obj
    PROVE  /\ DOMAIN Disturbed(obj) = DOMAIN handles
           /\ \A g \in DOMAIN handles :
                /\ Disturbed(obj)[g].node = handles[g].node /\ Disturbed(obj)[g].path = handles[g].path
                /\ Disturbed(obj)[g].rivals = "none" =>
                     Obj(handles[g].path) # obj /\ Disturbed(obj)[g] = handles[g]
  BY DisturbKeeps DEF Disturbed, KnownTypeOK

LEMMA WatchedSessions ==
    ASSUME KnownTypeOK, NEW STATE obj
    PROVE  /\ DOMAIN Watched(obj) = DOMAIN handles
           /\ \A g \in DOMAIN handles :
                /\ Watched(obj)[g].node = handles[g].node /\ Watched(obj)[g].path = handles[g].path
                /\ Watched(obj)[g].rivals = "none" =>
                     Obj(handles[g].path) # obj /\ Watched(obj)[g] = handles[g]
  <1>1. ASSUME NEW s \in Sessions, NEW t, t = [s EXCEPT !.rivals = "readers"]
        PROVE  t.node = s.node /\ t.path = s.path /\ t.rivals = "readers"
    BY <1>1 DEF Sessions
  <1> QED
    BY <1>1 DEF Watched, KnownTypeOK

-----------------------------------------------------------------------------
(* A session without rivals keeps its writer.                              *)

LEMMA SameSole ==
    ASSUME SoleInv, UNCHANGED <<handles, opened_files_writer, store>>
    PROVE  SoleInv'
  BY DEF SoleInv, Owns, Alone

\* Somebody changed obj, and the sessions on it were disturbed.
LEMMA DisturbedSole ==
    ASSUME KnownTypeOK, SoleInv, NEW STATE obj, OnlyAt(obj), handles' = Disturbed(obj)
    PROVE  SoleInv'
  <1>1. ASSUME NEW g \in DOMAIN handles, handles'[g].rivals = "none"
        PROVE  /\ handles'[g] = handles[g] /\ Owns(handles[g], opened_files_writer', store')
               /\ Alone(g, handles)
    <2>1. Obj(handles[g].path) # obj /\ handles'[g] = handles[g]
      BY <1>1, DisturbedSessions
    <2>2. Owns(handles[g], opened_files_writer, store) /\ Alone(g, handles)
      BY <1>1, <2>1 DEF SoleInv
    <2> QED
      BY <2>1, <2>2, OwnsElsewhere
  <1>2. DOMAIN handles' = DOMAIN handles /\ \A g \in DOMAIN handles : handles'[g].path = handles[g].path
    BY DisturbedSessions
  <1>3. ASSUME NEW g \in DOMAIN handles', handles'[g].rivals = "none"
        PROVE  Owns(handles'[g], opened_files_writer', store') /\ Alone(g, handles')
    BY <1>1, <1>2, <1>3 DEF Alone
  <1> QED
    BY <1>3 DEF SoleInv

LEMMA SameSequence ==
    ASSUME NEW s \in Seq(Nat), NEW t \in Seq(Nat), Len(s) = Len(t), \A k \in 1 .. Len(s) : s[k] = t[k]
    PROVE  s = t
  OBVIOUS

LEMMA OverlayAtEnd ==
    ASSUME NEW d \in Seq(Nat), NEW c \in Seq(Nat)
    PROVE  Overlay(d, Len(d), c) = d \o c
  <1> DEFINE n == Len(d) + Len(c)
             o == Overlay(d, Len(d), c)
  <1>1. Larger(Len(d), n) = n
    BY DEF Larger
  <1>2. o = [k \in 1 .. n |-> IF k \in (Len(d) + 1) .. n THEN c[k - Len(d)]
                              ELSE IF k <= Len(d) THEN d[k] ELSE 0]
    BY <1>1 DEF Overlay
  <1>3. \A k \in 1 .. n : o[k] = (d \o c)[k]
    BY <1>2
  <1>4. o \in Seq(Nat) /\ d \o c \in Seq(Nat) /\ Len(d \o c) = n /\ Len(o) = n
    <2>1. o \in Seq(Nat)
      BY OverlayType
    <2>2. DOMAIN o = 1 .. n
      BY <1>2
    <2> HIDE DEF o
    <2> QED
      BY <2>1, <2>2
  <1> HIDE DEF o
  <1>5. o = d \o c
    BY <1>3, <1>4, SameSequence
  <1> QED
    BY <1>5 DEF o


\* A writer that was just opened belongs to the session that starts from its data.
LEMMA OpenedOwns ==
    ASSUME ServiceTypeOK, NEW STATE path, NEW flags, NEW fault, NEW STATE ok,
           SetWriter(path, flags, fault, ok), reply'.error = "OK", IsWrite(flags),
           ~(IsAppend(flags) /\ fault = "overtaken"),
           NEW ACTION node, NEW STATE rivals
    PROVE  Owns(Session(node, path, TRUE, rivals, OpenedData(Obj(path), IsAppend(flags))),
                opened_files_writer', store')
  <1> DEFINE append == IsAppend(flags)
             data == OpenedData(Obj(path), append)
             w == NewWriter(Len(data), append)
  <1>f. reply' # Fail("ENOENT")
    BY FailedReply
  <1>1. /\ CheckFlags(flags) /\ store' = StoreAfterOpen(path, append)
        /\ opened_files_writer' = Bind(opened_files_writer, path, w)
    BY <1>f DEF SetWriter
  <1>2. /\ w.written = Len(data) /\ w.pos = Len(data) /\ w.attached = WriteThrough /\ w.buf = <<>>
    BY DEF NewWriter
  <1>3. CASE WriteThrough
    <2>1. store' = Put(Obj(path), File(data))
      BY <1>1, <1>3 DEF StoreAfterOpen
    <2> HIDE DEF w, data
    <2>2. Obj(path) \in DOMAIN store' /\ store'[Obj(path)] = File(data)
      BY <2>1, PutOnly
    <2>3. path \in DOMAIN opened_files_writer' /\ opened_files_writer'[path] = w
      BY <1>1, BindOnly
    <2>4. Owns(Session(node, path, TRUE, rivals, data), opened_files_writer', store')
      <3> DEFINE s == Session(node, path, TRUE, rivals, data)
      <3>1. s.path = path /\ s.expect = data
        BY DEF Session
      <3> HIDE DEF s
      <3>2. Owns(s, opened_files_writer', store')
        BY <1>2, <1>3, <2>2, <2>3, <3>1 DEF Owns
      <3> QED
        BY <3>2 DEF s
    <2> QED
      BY <2>4 DEF data
  <1>4. CASE ~WriteThrough
    <2>1. data = <<>>
      BY <1>1, <1>4, CapabilityAssumption DEF CheckFlags, OpenedData
    <2> HIDE DEF w, data
    <2>2. path \in DOMAIN opened_files_writer' /\ opened_files_writer'[path] = w
      BY <1>1, BindOnly
    <2>3. Owns(Session(node, path, TRUE, rivals, data), opened_files_writer', store')
      <3> DEFINE s == Session(node, path, TRUE, rivals, data)
      <3>1. s.path = path /\ s.expect = data
        BY DEF Session
      <3> HIDE DEF s
      <3>2. Owns(s, opened_files_writer', store')
        BY <1>2, <1>4, <2>1, <2>2, <3>1 DEF Owns
      <3> QED
        BY <3>2 DEF s
    <2> QED
      BY <2>3 DEF data
  <1> QED
    BY <1>3, <1>4

\* The other sessions when h was opened on path: the ones on its object are no longer
\* without rivals.
LEMMA OthersSole ==
    ASSUME KnownTypeOK, SoleInv, NEW STATE path, OnlyAt(Obj(path)), NEW h, h \notin DOMAIN handles,
           NEW STATE others, others = Disturbed(Obj(path)) \/ others = Watched(Obj(path)),
           NEW ACTION s, s.path = path, handles' = Bind(others, h, s),
           s.rivals = "none" => Owns(s, opened_files_writer', store') /\ ~InUse(Obj(path))
    PROVE  SoleInv'
  <1>1. /\ DOMAIN others = DOMAIN handles
        /\ \A g \in DOMAIN handles :
             /\ others[g].path = handles[g].path
             /\ others[g].rivals = "none" => Obj(handles[g].path) # Obj(path) /\ others[g] = handles[g]
    BY DisturbedSessions, WatchedSessions
  <1>2. /\ DOMAIN handles' = DOMAIN handles \cup {h} /\ handles'[h] = s
        /\ \A g \in DOMAIN handles : handles'[g] = others[g]
    BY <1>1 DEF Bind
  <1>3. ASSUME NEW g \in DOMAIN handles, handles'[g].rivals = "none"
        PROVE  Owns(handles'[g], opened_files_writer', store') /\ Alone(g, handles')
    <2>1. handles'[g] = handles[g] /\ handles[g].rivals = "none" /\ Obj(handles[g].path) # Obj(path)
      BY <1>1, <1>2, <1>3
    <2>2. Owns(handles[g], opened_files_writer, store) /\ Alone(g, handles)
      BY <2>1 DEF SoleInv
    <2>3. Owns(handles[g], opened_files_writer', store')
      BY <2>1, <2>2, OwnsElsewhere
    <2>4. Alone(g, handles')
      BY <1>1, <1>2, <2>1, <2>2 DEF Alone
    <2> QED
      BY <2>1, <2>3, <2>4
  <1>4. ASSUME s.rivals = "none"
        PROVE  Owns(handles'[h], opened_files_writer', store') /\ Alone(h, handles')
    BY <1>1, <1>2, <1>4 DEF Alone, InUse
  <1> QED
    BY <1>2, <1>3, <1>4 DEF SoleInv

LEMMA OpenedSole ==
    ASSUME KnownTypeOK, ServiceTypeOK, SoleInv, NEW STATE path, NEW flags, NEW asked, NEW fault, NEW STATE ok,
           IsWrite(asked) <=> IsWrite(flags), IsAppend(asked) = IsAppend(flags),
           SetWriter(path, asked, fault, ok), reply'.error = "OK",
           NEW h, h \notin DOMAIN handles, NEW ACTION node, handles' = Opened(h, node, path, flags, fault)
    PROVE  SoleInv'
  <1> DEFINE obj == Obj(path)
             data == OpenedData(obj, IsAppend(flags))
             rivals == IF InUse(obj) THEN "readers" ELSE "none"
             own == Session(node, path, TRUE, rivals, data)
             shared == Session(node, path, TRUE, "writers", <<>>)
             reader == Session(node, path, FALSE, "writers", <<>>)
  <1>1. OnlyAt(obj)
    BY SetWriterOnly
  <1>2. CASE IsWrite(flags)
    <2>1. ASSUME ~(IsAppend(flags) /\ fault = "overtaken") PROVE Owns(own, opened_files_writer', store')
      <3>1. IsWrite(asked) /\ OpenedData(obj, IsAppend(asked)) = data
        BY <1>2
      <3> HIDE DEF rivals
      <3>2. Owns(Session(node, path, TRUE, rivals, OpenedData(obj, IsAppend(asked))), opened_files_writer', store')
        BY <2>1, <3>1, OpenedOwns
      <3> QED
        BY <3>1, <3>2
    <2>2. /\ own.path = path /\ own.rivals = rivals
          /\ shared.path = path /\ shared.rivals = "writers"
      BY DEF Session
    <2>3. \/ handles' = Bind(Disturbed(obj), h, shared)
          \/ /\ ~(IsAppend(flags) /\ fault = "overtaken")
             /\ handles' = Bind(Disturbed(obj), h, own)
      BY <1>2 DEF Opened, OpenedForWriting
    <2>4. rivals = "none" => ~InUse(obj)
      OBVIOUS
    <2> HIDE DEF own, shared, rivals
    <2>5. CASE handles' = Bind(Disturbed(obj), h, shared)
      BY <1>1, <2>2, <2>5, OthersSole
    <2>6. CASE ~(IsAppend(flags) /\ fault = "overtaken") /\ handles' = Bind(Disturbed(obj), h, own)
      BY <1>1, <2>1, <2>2, <2>4, <2>6, OthersSole
    <2> QED
      BY <2>3, <2>5, <2>6
  <1>3. CASE ~IsWrite(flags)
    <2>1. handles' = Bind(Watched(obj), h, reader)
      BY <1>3 DEF Opened, OpenedForReading
    <2>2. reader.path = path /\ reader.rivals = "writers"
      BY DEF Session
    <2> HIDE DEF reader
    <2> QED
      BY <1>1, <2>1, <2>2, OthersSole
  <1> QED
    BY <1>2, <1>3

\* Where a handle's requests go.
LEMMA HandlePath ==
    ASSUME PlacedInv, TablesInv, NEW h \in DOMAIN handles, Resolves(handles[h].node)
    PROVE  PathOf(handles[h].node) = handles[h].path
  <1>1. opened_files # <<>>
    BY DEF Resolves
  <1> QED
    BY <1>1 DEF PlacedInv, Placed, PathOf


\* A request of h: other sessions without rivals are on other objects.
LEMMA ElsewhereSole ==
    ASSUME SoleInv, NEW h \in DOMAIN handles, OnlyAt(Obj(handles[h].path)),
           NEW g \in DOMAIN handles, g # h, handles[g].rivals = "none"
    PROVE  Owns(handles[g], opened_files_writer', store') /\ Alone(g, handles)
  <1>1. Owns(handles[g], opened_files_writer, store) /\ Alone(g, handles)
    BY DEF SoleInv
  <1>2. Obj(handles[g].path) # Obj(handles[h].path)
    BY <1>1 DEF Alone
  <1> QED
    BY <1>1, <1>2, OwnsElsewhere

\* The session of h is replaced by t, which is on the same path.
LEMMA ReplacedSole ==
    ASSUME SoleInv, NEW h \in DOMAIN handles, OnlyAt(Obj(handles[h].path)),
           NEW ACTION t, handles' = [handles EXCEPT ![h] = t], t.path = handles[h].path,
           t.rivals = "none" => handles[h].rivals = "none" /\ Owns(t, opened_files_writer', store')
    PROVE  SoleInv'
  <1>1. /\ DOMAIN handles' = DOMAIN handles /\ handles'[h] = t
        /\ \A g \in DOMAIN handles : g # h => handles'[g] = handles[g]
        /\ \A g \in DOMAIN handles : handles'[g].path = handles[g].path
    OBVIOUS
  <1>2. ASSUME NEW g \in DOMAIN handles, handles'[g].rivals = "none"
        PROVE  Owns(handles'[g], opened_files_writer', store') /\ Alone(g, handles)
    <2>1. CASE g = h
      BY <1>1, <1>2, <2>1 DEF SoleInv
    <2>2. CASE g # h
      BY <1>1, <1>2, <2>2, ElsewhereSole
    <2> QED
      BY <2>1, <2>2
  <1>3. ASSUME NEW g \in DOMAIN handles, Alone(g, handles) PROVE Alone(g, handles')
    BY <1>1, <1>3 DEF Alone
  <1> QED
    BY <1>1, <1>2, <1>3 DEF SoleInv

\* A write the server acknowledged, on the session's own writer.
LEMMA WriteOwns ==
    ASSUME SessionInv, NEW h \in DOMAIN handles, NEW offset \in Nat, NEW chunk \in Chunks, NEW up \in BOOLEAN,
           Write(handles[h].node, offset, chunk, up), reply'.error = "OK", handles[h].rivals = "none",
           NEW STATE t, t.path = handles[h].path, t.expect = Overlay(handles[h].expect, offset, chunk)
    PROVE  Owns(t, opened_files_writer', store')
  <1> DEFINE path == handles[h].path
             e == handles[h].expect
             w == opened_files_writer[path]
             obj == Obj(path)
  <1>f. ~Unresolved(handles[h].node) /\ ~Refuse("EIO") /\ reply' # Fail("EIO")
    BY FailedReply DEF Unresolved, Refuse
  <1>1. Resolves(handles[h].node) /\ PathOf(handles[h].node) = path
    BY <1>f, HandlePath DEF Write, SessionInv, GuestInv
  <1>2. /\ OffsetAccepted(w, offset)
        /\ store' = StoreAfterTake(path, w, chunk)
        /\ opened_files_writer' = Bind(opened_files_writer, path, Acknowledged(w, chunk))
    BY <1>f, <1>1 DEF Write
  <1>3. /\ path \in DOMAIN opened_files_writer /\ w.written = Len(e) /\ w.pos = Len(e)
        /\ IF WriteThrough THEN w.attached /\ obj \in DOMAIN store /\ store[obj] = File(e) ELSE w.buf = e
    BY DEF SessionInv, SoleInv, Owns
  <1>4. e \in Seq(Nat) /\ chunk \in Seq(Nat) /\ w \in Writers
    BY <1>3, ChunksAssumption DEF SessionInv, GuestInv, KnownTypeOK, Sessions, ServiceInv, ServiceTypeOK
  <1>5. offset = Len(e) /\ t.expect = e \o chunk
    BY <1>2, <1>3, <1>4, OverlayAtEnd DEF OffsetAccepted
  <1> DEFINE v == Acknowledged(w, chunk)
  <1>6. /\ v.written = Len(e) + Len(chunk) /\ v.pos = Len(e) + Len(chunk) /\ v.attached = w.attached
        /\ v.buf = IF WriteThrough THEN w.buf ELSE w.buf \o chunk
    BY <1>3, <1>4 DEF Acknowledged, TakenBy, Writers
  <1>7. Len(e \o chunk) = Len(e) + Len(chunk)
    BY <1>4
  <1> HIDE DEF v
  <1>8. path \in DOMAIN opened_files_writer' /\ opened_files_writer'[path] = v
    BY <1>2, BindOnly DEF v
  <1>9. CASE WriteThrough
    <2>1. store[obj].data = e
      BY <1>3, <1>9 DEF File
    <2>2. Overlay(store[obj].data, w.pos, chunk) = e \o chunk
      BY <1>3, <1>4, <2>1, OverlayAtEnd
    <2>3. store' = Put(obj, File(e \o chunk))
      BY <1>2, <1>3, <1>9, <2>1, <2>2 DEF StoreAfterTake
    <2> HIDE DEF w, e, obj
    <2>4. obj \in DOMAIN store' /\ store'[obj] = File(e \o chunk)
      BY <2>3, PutOnly
    <2> QED
      BY <1>3, <1>5, <1>6, <1>7, <1>8, <1>9, <2>4 DEF Owns, obj
  <1>10. CASE ~WriteThrough
    BY <1>3, <1>5, <1>6, <1>7, <1>8, <1>10 DEF Owns
  <1> QED
    BY <1>9, <1>10

LEMMA WriteSole ==
    ASSUME SessionInv, NEW h \in DOMAIN handles, NEW offset \in Nat, NEW chunk \in Chunks, NEW up \in BOOLEAN,
           GuestWrite(h, offset, chunk, up)
    PROVE  SoleInv'
  <1> DEFINE s == handles[h]
             longer == Extended(s, offset, chunk)
  <1>1. s \in Sessions
    BY DEF SessionInv, GuestInv, KnownTypeOK
  <1>2. Write(s.node, offset, chunk, up)
    BY DEF GuestWrite
  <1>3. OnlyAt(Obj(s.path))
    BY <1>2, WriteOnly, UntouchedOnlyAt, HandlePath DEF SessionInv, GuestInv
  <1>4. /\ longer.path = s.path /\ longer.rivals = s.rivals
        /\ longer.expect = Overlay(s.expect, offset, chunk)
    BY <1>1 DEF Extended, Sessions
  <1>5. Disturb(s).path = s.path /\ Disturb(s).rivals = "writers"
    BY <1>1, DisturbKeeps
  <1>6. CASE reply'.error = "OK" /\ s.rivals # "writers"
    <2>1. handles' = [handles EXCEPT ![h] = longer]
      BY <1>6 DEF GuestWrite
    <2>2. s.rivals = "none" => Owns(longer, opened_files_writer', store')
      <3> HIDE DEF longer
      <3> QED
        BY <1>2, <1>4, <1>6, WriteOwns
    <2> HIDE DEF longer
    <2> QED
      BY <1>3, <1>4, <2>1, <2>2, ReplacedSole DEF SessionInv
  <1>7. CASE ~(reply'.error = "OK" /\ s.rivals # "writers") /\ ~up
    <2>1. handles' = [handles EXCEPT ![h] = Disturb(s)]
      BY <1>7 DEF GuestWrite
    <2> QED
      BY <1>3, <1>5, <2>1, ReplacedSole DEF SessionInv
  <1>8. CASE ~(reply'.error = "OK" /\ s.rivals # "writers") /\ up
    <2>1. handles' = [handles EXCEPT ![h] = s]
      BY <1>8 DEF GuestWrite
    <2>2. s.rivals = "none" => UNCHANGED <<opened_files_writer, store>>
      <3>1. ASSUME s.rivals = "none" PROVE reply'.error # "OK"
        BY <1>8, <3>1
      <3>2. \A n : [Ack EXCEPT !.size = n].error = "OK"
        BY DEF Ack
      <3> QED
        BY <1>2, <1>8, <3>1, <3>2 DEF Write, Unresolved, Refuse
    <2>3. s.rivals = "none" => Owns(s, opened_files_writer', store')
      BY <2>2 DEF SessionInv, SoleInv
    <2> QED
      BY <1>3, <2>1, <2>3, ReplacedSole DEF SessionInv
  <1> QED
    BY <1>6, <1>7, <1>8

LEMMA ReleaseSole ==
    ASSUME SessionInv, NEW h \in DOMAIN handles, NEW up \in BOOLEAN, GuestRelease(h, up)
    PROVE  SoleInv'
  <1>1. Release(handles[h].node, up) /\ handles' = Unbind(handles, h)
    BY DEF GuestRelease
  <1>2. OnlyAt(Obj(handles[h].path))
    BY <1>1, ReleaseOnly, UntouchedOnlyAt, HandlePath DEF SessionInv, GuestInv
  <1>3. DOMAIN handles' = DOMAIN handles \ {h} /\ \A g \in DOMAIN handles' : handles'[g] = handles[g]
    BY <1>1 DEF Unbind
  <1>4. ASSUME NEW g \in DOMAIN handles', handles'[g].rivals = "none"
        PROVE  Owns(handles'[g], opened_files_writer', store') /\ Alone(g, handles')
    <2>1. Owns(handles[g], opened_files_writer', store') /\ Alone(g, handles)
      BY <1>2, <1>3, <1>4, ElsewhereSole DEF SessionInv
    <2> QED
      BY <1>3, <2>1 DEF Alone
  <1> QED
    BY <1>4 DEF SoleInv

-----------------------------------------------------------------------------
(* Every step of the guest keeps the sessions placed and the sole ones owners. *)

\* The paths the guest goes by are the server's, when the server has any.
LEMMA ParentPath ==
    ASSUME GuestInv, NEW node \in DOMAIN known, Resolves(node)
    PROVE  PathOf(node) = KnownPath(node)
  <1>1. opened_files # <<>>
    BY DEF Resolves
  <1> QED
    BY <1>1 DEF GuestInv, KnownResolves

LEMMA DisturbedStep ==
    ASSUME SessionInv, GuestNext, ~Mount, NEW STATE obj, handles' = Disturbed(obj), OnlyAt(obj)
    PROVE  PlacedInv' /\ SoleInv'
  <1>1. \A g \in DOMAIN handles' : SameOrPlaced(g, handles', opened_files')
    BY DisturbedSessions DEF SessionInv, GuestInv, SameOrPlaced
  <1> QED
    BY <1>1, PlacedStep, DisturbedSole DEF SessionInv, GuestInv

LEMMA SameHandlesStep ==
    ASSUME SessionInv, GuestNext, ~Mount, UNCHANGED <<handles, opened_files_writer, store>>
    PROVE  PlacedInv' /\ SoleInv'
  <1>1. \A g \in DOMAIN handles' : SameOrPlaced(g, handles', opened_files')
    BY DEF SameOrPlaced
  <1> QED
    BY <1>1, PlacedStep, SameSole DEF SessionInv

LEMMA OpenedStep ==
    ASSUME SessionInv, GuestNext, ~Mount, NEW STATE path, NEW flags, NEW asked, NEW fault, NEW STATE ok,
           IsWrite(asked) <=> IsWrite(flags), IsAppend(asked) = IsAppend(flags),
           SetWriter(path, asked, fault, ok), reply'.error = "OK",
           NEW h, h \notin DOMAIN handles, NEW ACTION node, handles' = Opened(h, node, path, flags, fault),
           node + 1 \in 1 .. Len(opened_files'), opened_files'[node + 1] = path
    PROVE  PlacedInv' /\ SoleInv'
  <1>1. \E others, s : /\ handles' = Bind(others, h, s)
                       /\ others = Disturbed(Obj(path)) \/ others = Watched(Obj(path))
                       /\ s.node = node /\ s.path = path
    <2>1. \A w, r, e : /\ Session(node, path, w, r, e).node = node
                       /\ Session(node, path, w, r, e).path = path
      BY DEF Session
    <2>2. CASE ~IsWrite(flags)
      <3>1. handles' = Bind(Watched(Obj(path)), h, Session(node, path, FALSE, "writers", <<>>))
        BY <2>2 DEF Opened, OpenedForReading
      <3> QED
        BY <2>1, <3>1
    <2>3. CASE IsWrite(flags)
      <3>1. \E w, r, e : handles' = Bind(Disturbed(Obj(path)), h, Session(node, path, w, r, e))
        <4>1. CASE InUseByWriter(Obj(path))
          BY <2>3, <4>1 DEF Opened, OpenedForWriting
        <4>2. CASE ~InUseByWriter(Obj(path))
          BY <2>3, <4>2 DEF Opened, OpenedForWriting
        <4> QED
          BY <4>1, <4>2
      <3> QED
        BY <2>1, <3>1
    <2> QED
      BY <2>2, <2>3
  <1>2. PICK others, s : /\ handles' = Bind(others, h, s)
                         /\ others = Disturbed(Obj(path)) \/ others = Watched(Obj(path))
                         /\ s.node = node /\ s.path = path
    BY <1>1
  <1>3. /\ DOMAIN others = DOMAIN handles
        /\ \A g \in DOMAIN handles : others[g].node = handles[g].node /\ others[g].path = handles[g].path
    BY <1>2, DisturbedSessions, WatchedSessions DEF SessionInv, GuestInv
  <1>4. ASSUME NEW g \in DOMAIN handles' PROVE SameOrPlaced(g, handles', opened_files')
    <2>1. CASE g = h
      <3>1. handles'[g] = s
        BY <1>2, <2>1 DEF Bind
      <3> QED
        BY <1>2, <3>1 DEF SameOrPlaced, Placed
    <2>2. CASE g # h
      <3>1. g \in DOMAIN handles /\ handles'[g] = others[g]
        BY <1>2, <1>3, <1>4, <2>2 DEF Bind
      <3> QED
        BY <1>3, <3>1 DEF SameOrPlaced
    <2> QED
      BY <2>1, <2>2
  <1>5. SoleInv'
    BY OpenedSole DEF SessionInv, GuestInv, ServiceInv
  <1> QED
    BY <1>4, <1>5, PlacedStep DEF SessionInv

LEMMA OpenStep ==
    ASSUME SessionInv, GuestNext, ~Mount, NEW h, NEW flags, NEW fault, NEW node \in KnownFiles,
           GuestOpen(h, node, flags, fault)
    PROVE  PlacedInv' /\ SoleInv'
  <1> DEFINE path == KnownPath(node)
  <1>1. h \notin DOMAIN handles /\ node \in DOMAIN known /\ node \in Nat /\ Open(node, flags, fault)
    BY DEF GuestOpen, KnownFiles, SessionInv, GuestInv, KnownTypeOK
  <1>2. \/ UNCHANGED <<opened_files_writer, store>> /\ reply' = Fail("ENOENT")
        \/ /\ Resolves(node) /\ PathOf(node) = path /\ opened_files' = opened_files
           /\ SetWriter(path, flags, fault, Ack)
    BY <1>1, ParentPath DEF Open, Unresolved, Refuse, SessionInv, tables
  <1>3. OnlyAt(Obj(path))
    BY <1>2, UntouchedOnlyAt, SetWriterOnly
  <1>4. CASE reply'.error # "OK"
    BY <1>3, <1>4, DisturbedStep DEF GuestOpen
  <1>5. CASE reply'.error = "OK"
    <2>1. /\ Resolves(node) /\ PathOf(node) = path /\ opened_files' = opened_files
          /\ SetWriter(path, flags, fault, Ack)
      BY <1>2, <1>5, FailedReply
    <2>2. node + 1 \in 1 .. Len(opened_files') /\ opened_files'[node + 1] = path
      <3>1. Len(opened_files) \in Nat
        BY DEF SessionInv, GuestInv, TablesInv, TablesTypeOK
      <3> QED
        BY <1>1, <2>1, <3>1 DEF Resolves, PathOf
    <2>3. handles' = Opened(h, node, path, flags, fault)
      BY <1>5 DEF GuestOpen
    <2> HIDE DEF path
    <2> QED
      BY <1>1, <1>5, <2>1, <2>2, <2>3, OpenedStep
  <1> QED
    BY <1>4, <1>5

LEMMA CreateStep ==
    ASSUME SessionInv, GuestNext, ~Mount, NEW h, NEW flags, NEW fault, NEW parent \in KnownDirs,
           NEW name \in Names, GuestCreate(h, parent, name, flags, fault)
    PROVE  PlacedInv' /\ SoleInv'
  <1> DEFINE path == Append(KnownPath(parent), name)
             asked == flags \cup {"O_CREAT"}
  <1>1. /\ h \notin DOMAIN handles /\ parent \in DOMAIN known /\ parent \in Nat
        /\ Create(parent, name, asked, fault)
    BY DEF GuestCreate, KnownDirs, SessionInv, GuestInv, KnownTypeOK
  <1>2. \/ UNCHANGED <<opened_files_writer, store>> /\ reply' = Fail("ENOENT")
        \/ /\ Resolves(parent) /\ Join(PathOf(parent), name) = path
           /\ SetWriter(path, asked, fault, Attr(NextInode, "file", 0))
    BY <1>1, ParentPath DEF Create, Unresolved, Refuse, SessionInv, Join
  <1>3. OnlyAt(Obj(path))
    <2> HIDE DEF path, asked
    <2> QED
      BY <1>2, UntouchedOnlyAt, SetWriterOnly
  <1>4. CASE reply'.error # "OK"
    BY <1>3, <1>4, DisturbedStep DEF GuestCreate
  <1>5. CASE reply'.error = "OK"
    <2>1. /\ Resolves(parent) /\ Join(PathOf(parent), name) = path
          /\ SetWriter(path, asked, fault, Attr(NextInode, "file", 0))
      BY <1>2, <1>5, FailedReply
    <2>2. TablesInv'
      BY GuestIsAny, StepChangesTables, TablesStepKeeps DEF SessionInv, GuestInv
    <2>3. reply'.ino + 1 \in 1 .. Len(opened_files') /\ opened_files'[reply'.ino + 1] = path
      BY <1>1, <1>5, <2>1, <2>2, RepliedResolves DEF SessionInv, GuestInv
    <2>4. handles' = Opened(h, reply'.ino, path, flags, fault)
      BY <1>5 DEF GuestCreate
    <2>5. (IsWrite(asked) <=> IsWrite(flags)) /\ IsAppend(asked) = IsAppend(flags)
      BY DEF IsWrite, IsAppend
    <2> HIDE DEF path, asked
    <2> QED
      BY <1>1, <1>5, <2>1, <2>3, <2>4, <2>5, OpenedStep
  <1> QED
    BY <1>4, <1>5


LEMMA SessionStepKeeps ==
    ASSUME SessionInv, GuestNext
    PROVE  PlacedInv' /\ SoleInv'
  <1>t. GuestInv /\ KnownTypeOK /\ PlacedInv /\ SoleInv
    BY DEF SessionInv, GuestInv
  <1>d. KnownDirs \subseteq DOMAIN known
    BY DEF KnownDirs
  <1>o. Offsets \subseteq Nat
    BY BoundsAssumption DEF Offsets
  <1>1. CASE Mount
    <2>1. DOMAIN handles' = {}
      BY <1>1 DEF Mount
    <2> QED
      BY <2>1 DEF PlacedInv, SoleInv
  <1> SUFFICES ASSUME ~Mount PROVE PlacedInv' /\ SoleInv'
    BY <1>1
  <1>2. CASE Unmount
    BY <1>2, SameHandlesStep DEF Unmount, Destroy, Refuse
  <1>3. CASE ServerRestart
    <2>1. handles' = [h \in DOMAIN handles |-> Disturb(handles[h])] /\ opened_files' = <<>>
      BY <1>3 DEF ServerRestart, Restart
    <2>2. \A h \in DOMAIN handles' : handles'[h].rivals = "writers"
      BY <1>t, <2>1, DisturbKeeps DEF KnownTypeOK
    <2> QED
      BY <2>1, <2>2 DEF PlacedInv, Placed, SoleInv
  <1>4. ASSUME NEW obj \in Objects, OutsideChange(obj) PROVE PlacedInv' /\ SoleInv'
    <2>1. OnlyAt(obj)
      <3>1. CASE ExternalDelete(obj)
        BY <3>1, RemovedOnly DEF ExternalDelete
      <3>2. ASSUME NEW data \in Chunks, ExternalPut(obj, data) PROVE OnlyAt(obj)
        <4>1. store' = Put(obj, File(data)) /\ opened_files_writer' = Detached(obj)
          BY <3>2 DEF ExternalPut
        <4> QED
          BY <4>1, PutOnly DEF Detached, OnlyAt
      <3> QED
        BY <1>4, <3>1, <3>2 DEF OutsideChange
    <2> QED
      BY <1>4, <2>1, DisturbedStep DEF OutsideChange
  <1>5. ASSUME NEW node \in DOMAIN known, GuestForget(node) PROVE PlacedInv' /\ SoleInv'
    BY <1>5, SameHandlesStep DEF GuestForget, Forget, Refuse
  <1>g. ASSUME NEW path, NEW up, GetMetadata(path, up) PROVE UNCHANGED <<opened_files_writer, store>>
    BY <1>g DEF GetMetadata, Refuse
  <1>6. ASSUME NEW node \in DOMAIN known, NEW up \in BOOLEAN, GuestGetattr(node, up)
        PROVE  PlacedInv' /\ SoleInv'
    BY <1>6, <1>g, SameHandlesStep DEF GuestGetattr, Getattr, Unresolved, Refuse
  <1>7. ASSUME NEW parent \in KnownDirs, NEW name \in Names, NEW up \in BOOLEAN,
               GuestLookup(parent, name, up)
        PROVE  PlacedInv' /\ SoleInv'
    BY <1>7, <1>g, SameHandlesStep DEF GuestLookup, Lookup, Unresolved, Refuse
  <1>8. ASSUME NEW parent \in KnownDirs, NEW name \in Names, NEW up \in BOOLEAN,
               GuestMkdir(parent, name, up) \/ GuestRemove(parent, name, up)
        PROVE  PlacedInv' /\ SoleInv'
    <2> DEFINE path == Append(KnownPath(parent), name)
    <2>1. \/ UNCHANGED <<opened_files_writer, store>>
          \/ Resolves(parent) /\ OnlyAt(Obj(Join(PathOf(parent), name)))
      BY <1>8, MkdirOnly, RemoveOnly DEF GuestMkdir, GuestRemove, Unlink
    <2>2. Resolves(parent) => Join(PathOf(parent), name) = path
      BY <1>d, <1>t, ParentPath DEF Join
    <2>3. OnlyAt(Obj(path))
      BY <2>1, <2>2, UntouchedOnlyAt
    <2> QED
      BY <1>8, <2>3, DisturbedStep DEF GuestMkdir, GuestRemove
  <1>9. ASSUME NEW node \in KnownDirs, NEW offset \in Places, NEW room \in Places,
               NEW up \in BOOLEAN, GuestReaddir(node, offset, room, up)
        PROVE  PlacedInv' /\ SoleInv'
    <2>1. UNCHANGED <<opened_files_writer, store>>
      BY <1>9 DEF GuestReaddir, Opendir, Readdir, AckIfResolved, Unresolved, Refuse
    <2> QED
      BY <1>9, <2>1, SameHandlesStep DEF GuestReaddir
  <1>10. ASSUME NEW h, NEW flags, NEW fault, NEW node \in KnownFiles, GuestOpen(h, node, flags, fault)
         PROVE  PlacedInv' /\ SoleInv'
    BY <1>10, OpenStep
  <1>11. ASSUME NEW h, NEW flags, NEW fault, NEW parent \in KnownDirs, NEW name \in Names,
                GuestCreate(h, parent, name, flags, fault)
         PROVE  PlacedInv' /\ SoleInv'
    BY <1>11, CreateStep
  <1>12. ASSUME NEW h \in DOMAIN handles, NEW up \in BOOLEAN, NEW offset \in Offsets,
                NEW chunk \in Chunks, GuestWrite(h, offset, chunk, up)
         PROVE  PlacedInv' /\ SoleInv'
    <2>1. \E t : /\ handles' = [handles EXCEPT ![h] = t]
                 /\ t.node = handles[h].node /\ t.path = handles[h].path
      <3>1. /\ Extended(handles[h], offset, chunk).node = handles[h].node
            /\ Extended(handles[h], offset, chunk).path = handles[h].path
            /\ Disturb(handles[h]).node = handles[h].node /\ Disturb(handles[h]).path = handles[h].path
        BY <1>t, DisturbKeeps DEF Extended, KnownTypeOK, Sessions
      <3>2. \/ handles' = [handles EXCEPT ![h] = Extended(handles[h], offset, chunk)]
            \/ handles' = [handles EXCEPT ![h] = Disturb(handles[h])]
            \/ handles' = [handles EXCEPT ![h] = handles[h]]
        BY <1>12 DEF GuestWrite
      <3> QED
        BY <3>1, <3>2
    <2>2. \A g \in DOMAIN handles' : SameOrPlaced(g, handles', opened_files')
      BY <2>1 DEF SameOrPlaced
    <2> QED
      BY <1>12, <1>o, <1>t, <2>2, PlacedStep, WriteSole
  <1>13. ASSUME NEW h \in DOMAIN handles, NEW up \in BOOLEAN,
                GuestRead(h, 0, MaxSize, up)
         PROVE  PlacedInv' /\ SoleInv'
    <2>1. UNCHANGED <<handles, opened_files_writer, store>>
      BY <1>13 DEF GuestRead, Read, Unresolved, Refuse
    <2> QED
      BY <2>1, SameHandlesStep
  <1>14. ASSUME NEW h \in DOMAIN handles, NEW up \in BOOLEAN, GuestRelease(h, up)
         PROVE  PlacedInv' /\ SoleInv'
    <2>1. \A g \in DOMAIN handles' : SameOrPlaced(g, handles', opened_files')
      BY <1>14 DEF GuestRelease, Unbind, SameOrPlaced
    <2> QED
      BY <1>14, <1>t, <2>1, PlacedStep, ReleaseSole
  <1>15. ASSUME NEW h \in DOMAIN handles, GuestFlush(h) PROVE PlacedInv' /\ SoleInv'
    <2>1. UNCHANGED <<handles, opened_files_writer, store>>
      BY <1>15 DEF GuestFlush, Flush, AckIfResolved, Unresolved, Refuse
    <2> QED
      BY <2>1, SameHandlesStep
  <1> QED
    BY <1>2, <1>3, <1>4, <1>5, <1>6, <1>7, <1>8, <1>9, <1>10, <1>11, <1>12, <1>13, <1>14, <1>15
       DEF GuestNext

LEMMA SessionStep ==
    ASSUME SessionInv, [GuestNext]_gvars
    PROVE  SessionInv'
  <1>1. GuestInv'
    BY GuestStep DEF SessionInv
  <1>2. CASE GuestNext
    BY <1>1, <1>2, SessionStepKeeps DEF SessionInv
  <1>3. CASE UNCHANGED gvars
    BY <1>1, <1>3 DEF gvars, SessionInv, PlacedInv, SoleInv, Owns, Alone
  <1> QED
    BY <1>2, <1>3

LEMMA SessionStart == GuestInit => SessionInv
  <1>1. ASSUME GuestInit PROVE PlacedInv /\ SoleInv
    BY <1>1 DEF GuestInit, PlacedInv, SoleInv
  <1> QED
    BY <1>1, GuestStart DEF SessionInv

(* The writer kept under the path of a session without rivals is the session's own:
   it counts what the session was acknowledged, and the data stored, or on an object
   store the data its close publishes, is just that, for any number of handles, any
   names, payloads and flags, failures and restarts. *)
THEOREM SoleSessionsOwn == GuestSpec => []SoleSession
  <1>1. SessionInv => SoleSession
    BY DEF SessionInv, SoleInv, Owns, SoleSession, OwnWriter
  <1> QED
    BY <1>1, SessionStart, SessionStep, PTL DEF GuestSpec

(* A session without rivals that is released with success leaves in the store exactly
   what it was acknowledged to have written, on both kinds of service. *)
THEOREM ReleasedIsStored == GuestSpec => SoleDurable
  <1> DEFINE Durable ==
        \A h \in DOMAIN handles :
          handles[h].rivals = "none" /\ h \notin DOMAIN handles' /\ reply'.error = "OK" =>
            /\ Obj(handles[h].path) \in DOMAIN store'
            /\ store'[Obj(handles[h].path)] = File(handles[h].expect)
  <1>1. ASSUME SessionInv, GuestNext PROVE Durable
    <2> SUFFICES ASSUME NEW h \in DOMAIN handles, handles[h].rivals = "none", h \notin DOMAIN handles',
                        reply'.error = "OK"
                 PROVE  /\ Obj(handles[h].path) \in DOMAIN store'
                        /\ store'[Obj(handles[h].path)] = File(handles[h].expect)
      OBVIOUS
    <2> DEFINE path == handles[h].path
               w == opened_files_writer[path]
    <2>1. PICK up \in BOOLEAN : GuestRelease(h, up)
      <3>1. \A obj : DOMAIN Disturbed(obj) = DOMAIN handles /\ DOMAIN Watched(obj) = DOMAIN handles
        BY DEF Disturbed, Watched
      <3>2. \A g, n, p, f, e : h \in DOMAIN Opened(g, n, p, f, e)
        BY <3>1 DEF Opened, OpenedForWriting, OpenedForReading, Bind
      <3>3. \A g, up : GuestRelease(g, up) => g = h
        BY DEF GuestRelease, Unbind
      <3> QED
        BY <1>1, <3>1, <3>2, <3>3
           DEF GuestNext, Mount, Unmount, ServerRestart, OutsideChange, GuestForget, GuestGetattr,
               GuestLookup, GuestMkdir, GuestRemove, GuestReaddir, GuestOpen, GuestCreate, GuestWrite,
               GuestRead, GuestFlush
    <2>2. ~Unresolved(handles[h].node) /\ ~Refuse("EIO") /\ reply' # Fail("EIO")
      BY FailedReply DEF Unresolved, Refuse
    <2>3. Resolves(handles[h].node) /\ PathOf(handles[h].node) = path
      BY <1>1, <2>1, <2>2, HandlePath DEF GuestRelease, Release, SessionInv, GuestInv
    <2>4. store' = StoreAfterClose(path)
      BY <2>1, <2>2, <2>3 DEF GuestRelease, Release, CloseWriter
    <2>5. IF WriteThrough THEN Obj(path) \in DOMAIN store /\ store[Obj(path)] = File(handles[h].expect)
          ELSE w.buf = handles[h].expect
      BY <1>1 DEF SessionInv, SoleInv, Owns
    <2>6. CASE WriteThrough
      BY <2>4, <2>5, <2>6 DEF StoreAfterClose
    <2>7. CASE ~WriteThrough
      <3>1. store' = Put(Obj(path), File(handles[h].expect))
        BY <2>4, <2>5, <2>7 DEF StoreAfterClose
      <3> QED
        BY <3>1, PutOnly
    <2> QED
      BY <2>6, <2>7
  <1>2. SessionInv /\ [GuestNext]_gvars => [Durable]_gvars
    BY <1>1
  <1> QED
    BY <1>2, SessionStart, SessionStep, PTL DEF GuestSpec, SoleDurable

=============================================================================
