----------------------------- MODULE UserProofs -----------------------------
(* Proofs about the process of module FileUser, which uses one file in one   *)
(* session after another: for every name, payload and number of sessions,   *)
(* both kinds of service, whatever fails.  The process opens the file with  *)
(* "r", "w" or "a" and does not call ftruncate: a file opened with "r+" is  *)
(* emptied and a size that is set is ignored (README.md, "Known limits").   *)
EXTENDS FileUser, FilesystemProofs

\* The path string under which the server knows the file.
FilePath == Join(RootPath, Name)

PlainUse == Modes \subseteq {"r", "w", "a"} /\ ~MayTruncate

UserTypes ==
    /\ mode \in {"r", "w", "a"}
    /\ phase \in {"closed", "looked", "emptying", "open", "read", "flushed"}
    /\ expected \in Seq(Nat) /\ Len(expected) <= MaxSize
    /\ sure \in BOOLEAN

\* The process's nodeid resolves to the file; no nodeid of a file is 0, which
\* stands for none.
NodeInv ==
    /\ opened_files # <<>> /\ opened_files[1] = RootPath
    /\ node # NoNode => node \in Nat /\ Resolves(node) /\ PathOf(node) = FilePath
    /\ phase \notin {"closed", "looked"} => node # NoNode

\* The file is no directory, and the directory it is in is no file.
PlaceInv == ~IsFile(<<>>) /\ ~IsDir(Object)

Stored == IF IsFile(Object) THEN store[Object].data = expected ELSE expected = <<>>

Idle == FilePath \notin DOMAIN opened_files_writer

\* The writer of the session: it has taken data, and nothing else is stored.
Holds(writers, objects, data) ==
    /\ FilePath \in DOMAIN writers
    /\ writers[FilePath].written = Len(data)
    /\ writers[FilePath].attached = WriteThrough
    /\ WriteThrough => /\ Object \in DOMAIN objects
                       /\ objects[Object].kind = "file" /\ objects[Object].data = data
                       /\ writers[FilePath].append \/ writers[FilePath].pos = Len(data)
    /\ ~WriteThrough => writers[FilePath].buf = data

Writes(data) == Holds(opened_files_writer, store, data)

\* What each phase of a session has reached.  A file that is being emptied has a
\* fresh writer whatever failed before; the rest holds while no call has failed
\* since.  The writer of a failed session may be left over, but only while there
\* is no file.
SessionState ==
    /\ phase = "emptying" => mode = "w" /\ Writes(<<>>)
    /\ sure =>
      /\ phase \in {"closed", "looked"} => Stored /\ (IsFile(Object) => Idle)
      /\ phase = "looked" => (node = NoNode <=> ~IsFile(Object))
      /\ phase \in {"open", "flushed"} /\ mode # "r" => Writes(expected)
      /\ phase \in {"open", "read", "flushed"} /\ mode = "r" => Stored /\ Idle
      /\ phase = "read" => mode = "r" /\ reply.data = expected

UserInv == TablesInv /\ ServiceInv /\ UserTypes /\ NodeInv /\ PlaceInv /\ SessionState

-----------------------------------------------------------------------------
(* The file and the path that names it.                                    *)

LEMMA FileFacts ==
    /\ FilePath \in Paths /\ Len(FilePath) = 3 /\ FilePath # RootPath
    /\ Obj(FilePath) = Object /\ Object # <<>> /\ ~EndsWithSlash(FilePath)
  <1>1. RootPath \in Paths /\ Len(RootPath) = 2
    BY DEF RootPath, Paths, Segments
  <1>2. FilePath \in Paths /\ Len(FilePath) = 3 /\ FilePath[3] = Name
    <2>1. Name \in Segments /\ FilePath = Append(RootPath, Name)
      BY UserAssumption DEF Segments, FilePath, Join
    <2>2. \A p \in Seq(Segments), e \in Segments :
            Append(p, e) \in Seq(Segments) /\ Len(Append(p, e)) = Len(p) + 1 /\ Append(p, e)[Len(p) + 1] = e
      OBVIOUS
    <2>3. RootPath \in Seq(Segments) /\ Len(RootPath) + 1 = 3
      BY <1>1 DEF Paths
    <2> QED
      BY <2>1, <2>2, <2>3, Zenon DEF Paths
  <1>3. Obj(FilePath) = Append(<<>>, Name)
    BY <1>1, UserAssumption, ObjName, ObjRoot DEF FilePath, Join
  <1>4. Append(<<>>, Name) = <<Name>> /\ Object # <<>>
    BY DEF Object
  <1>5. ~EndsWithSlash(FilePath)
    BY <1>2, UserAssumption, NamesAssumption DEF EndsWithSlash
  <1> QED
    BY <1>1, <1>2, <1>3, <1>4, <1>5 DEF Object

LEMMA RootUse ==
    ASSUME TablesInv, opened_files # <<>>
    PROVE  /\ Resolves(RootInode) /\ PathOf(RootInode) = RootPath /\ RootInode \in Nat
           /\ Join(PathOf(RootInode), Name) = FilePath
  BY DEF TablesInv, RootResolves, RootInode, FilePath

LEMMA ObjectAbove == Ancestors(Object) = {<<>>}
  <1>1. Len(Object) = 1 /\ Object \in Seq({Name})
    BY DEF Object
  <1>2. SubSeq(Object, 1, 0) = <<>>
    BY <1>1
  <1>3. 0 .. (Len(Object) - 1) = {0}
    BY <1>1
  <1>4. Ancestors(Object) = {SubSeq(Object, 1, k) : k \in {0}}
    BY <1>3, Zenon DEF Ancestors
  <1> QED
    BY <1>2, <1>4, Zenon

LEMMA PutObject ==
    ASSUME PlaceInv, NEW data, store' = Put(Object, File(data))
    PROVE  PlaceInv' /\ IsFile(Object)' /\ store'[Object].data = data
  <1>1. DOMAIN store' = DOMAIN store \cup {<<>>, Object}
    BY ObjectAbove DEF Put
  <1>2. store'[Object] = File(data)
    BY <1>1 DEF Put
  <1>3. \A o \in DOMAIN store' : o # Object => store'[o] = IF o \in DOMAIN store THEN store[o] ELSE Dir
    BY <1>1 DEF Put
  <1>4. <<>> # Object
    BY FileFacts
  <1>5. File(data).kind = "file" /\ File(data).data = data /\ Dir.kind = "dir"
    BY DEF File, Dir
  <1> QED
    BY <1>1, <1>2, <1>3, <1>4, <1>5 DEF PlaceInv, IsFile, IsDir

LEMMA RemoveObject ==
    ASSUME PlaceInv, store' = Unbind(store, Object)
    PROVE  PlaceInv' /\ ~IsFile(Object)'
  BY FileFacts DEF PlaceInv, IsFile, IsDir, Unbind

LEMMA ObjectFits == ASSUME PlaceInv PROVE FileFits(Object)
  BY ObjectAbove, FileFacts DEF PlaceInv, FileFits, NoFileAbove

(* A chunk laid over the end of a file is appended to it. *)
LEMMA OverlayEnd ==
    ASSUME NEW data \in Seq(Nat), NEW chunk \in Seq(Nat)
    PROVE  Overlay(data, Len(data), chunk) = data \o chunk
  <1>1. Larger(Len(data), Len(data) + Len(chunk)) = Len(data) + Len(chunk)
    BY DEF Larger
  <1>2. Overlay(data, Len(data), chunk) =
          [k \in 1 .. (Len(data) + Len(chunk)) |->
             IF k \in (Len(data) + 1) .. (Len(data) + Len(chunk)) THEN chunk[k - Len(data)]
             ELSE IF k <= Len(data) THEN data[k] ELSE 0]
    BY <1>1 DEF Overlay
  <1>3. data \o chunk = [k \in 1 .. (Len(data) + Len(chunk)) |->
                           IF k <= Len(data) THEN data[k] ELSE chunk[k - Len(data)]]
    <2>1. /\ data \o chunk \in Seq(Nat) /\ Len(data \o chunk) = Len(data) + Len(chunk)
          /\ \A k \in 1 .. Len(data) : (data \o chunk)[k] = data[k]
          /\ \A k \in 1 .. Len(chunk) : (data \o chunk)[Len(data) + k] = chunk[k]
      BY ConcatParts
    <2>2. ASSUME NEW k \in 1 .. (Len(data) + Len(chunk))
          PROVE  (data \o chunk)[k] = IF k <= Len(data) THEN data[k] ELSE chunk[k - Len(data)]
      <3>1. CASE k <= Len(data)
        BY <2>1, <3>1
      <3>2. CASE k > Len(data)
        <4>1. k - Len(data) \in 1 .. Len(chunk) /\ Len(data) + (k - Len(data)) = k
          BY <3>2
        <4> QED
          BY <2>1, <3>2, <4>1
      <3> QED
        BY <3>1, <3>2
    <2>3. DOMAIN (data \o chunk) = 1 .. (Len(data) + Len(chunk))
      BY <2>1
    <2> DEFINE whole == data \o chunk
    <2>4. whole = [k \in 1 .. (Len(data) + Len(chunk)) |-> whole[k]]
      <3>1. whole \in Seq(Nat) /\ DOMAIN whole = 1 .. (Len(data) + Len(chunk))
        BY <2>1, <2>3
      <3> HIDE DEF whole
      <3> QED
        BY <3>1
    <2>5. \A k \in 1 .. (Len(data) + Len(chunk)) :
            whole[k] = IF k <= Len(data) THEN data[k] ELSE chunk[k - Len(data)]
      BY <2>2
    <2> HIDE DEF whole
    <2>6. whole = [k \in 1 .. (Len(data) + Len(chunk)) |->
                     IF k <= Len(data) THEN data[k] ELSE chunk[k - Len(data)]]
      BY <2>4, <2>5
    <2> QED
      BY <2>6 DEF whole
  <1> QED
    BY <1>2, <1>3

LEMMA ReplyFields ==
    /\ Ack.error = "OK"
    /\ \A e : Fail(e).error = e
    /\ \A i, k, n : Attr(i, k, n).error = "OK" /\ Attr(i, k, n).ino = i
    /\ \A n, d : [Ack EXCEPT !.size = n, !.data = d].data = d
  BY DEF Ack, Fail, Attr

-----------------------------------------------------------------------------
(* The server under the process.                                           *)

LEMMA UserIsClient ==
    ASSUME UserInv, UserNext
    PROVE  AnyStep \/ UNCHANGED vars
  <1>1. node \in Nat /\ RootInode \in Nat /\ Len(expected) \in Nat /\ MaxSize \in Nat
        /\ 0 \in Nat /\ Name \in Names
    BY BoundsAssumption, UserAssumption
       DEF UserInv, NodeInv, UserTypes, NoNode, RootInode
  <1>2. CASE \E up \in BOOLEAN, m \in Modes : UserLookup(m, up)
    BY <1>1, <1>2 DEF UserLookup, AnyStep
  <1>3. CASE \E up \in BOOLEAN, size \in Offsets : UserTruncate(size, up)
    BY <1>1, <1>3 DEF UserTruncate, AnyStep
  <1>4. CASE \E up \in BOOLEAN, chunk \in Chunks : UserWrite(chunk, up)
    BY <1>1, <1>4 DEF UserWrite, AnyStep
  <1>5. CASE \E up \in BOOLEAN : UserRead(up)
    BY <1>1, <1>5 DEF UserRead, AnyStep
  <1>6. CASE \E up \in BOOLEAN : UserRelease(up)
    BY <1>1, <1>6 DEF UserRelease, AnyStep
  <1>7. CASE \E up \in BOOLEAN : UserUnlink(up)
    BY <1>1, <1>7 DEF UserUnlink, AnyStep
  <1>8. CASE \E fault \in OwnFaults : UserOpen(fault)
    BY <1>1, <1>8 DEF UserOpen, AnyStep
  <1>9. CASE \E fault \in OwnFaults : UserCreate(fault)
    BY <1>1, <1>9 DEF UserCreate, AnyStep
  <1>10. CASE UserFlush
    BY <1>1, <1>10 DEF UserFlush, AnyStep
  <1> QED
    BY <1>2, <1>3, <1>4, <1>5, <1>6, <1>7, <1>8, <1>9, <1>10 DEF UserNext

LEMMA UserServer ==
    ASSUME UserInv, UserNext
    PROVE  TablesInv' /\ ServiceInv'
  BY UserIsClient, StepChangesTables, TablesStepKeeps, StepKeepsService DEF UserInv

(* A slab that is kept or grows by one entry keeps what every nodeid means. *)
LEMMA SlabMeaning ==
    ASSUME TablesInv, NodeInv,
           \/ opened_files' = opened_files
           \/ \E path \in Paths : opened_files' = Append(opened_files, path)
    PROVE  /\ opened_files' # <<>> /\ opened_files'[1] = RootPath
           /\ \A n \in Nat : Resolves(n) => Resolves(n)' /\ opened_files'[n + 1] = opened_files[n + 1]
  <1>1. opened_files \in Seq(Paths) /\ Len(opened_files) > 0 /\ opened_files[1] = RootPath
    BY DEF TablesInv, TablesTypeOK, NodeInv
  <1>2. CASE opened_files' = opened_files
    BY <1>1, <1>2 DEF Resolves
  <1>3. ASSUME NEW path \in Paths, opened_files' = Append(opened_files, path)
        PROVE  /\ opened_files' # <<>> /\ opened_files'[1] = RootPath
               /\ \A n \in Nat : Resolves(n) => Resolves(n)' /\ opened_files'[n + 1] = opened_files[n + 1]
    <2>1. /\ Len(opened_files') = Len(opened_files) + 1 /\ opened_files' \in Seq(Paths)
          /\ \A i \in 1 .. Len(opened_files) : opened_files'[i] = opened_files[i]
      BY <1>1, <1>3
    <2>2. opened_files' # <<>> /\ opened_files'[1] = RootPath
      BY <1>1, <2>1
    <2>3. \A n \in Nat : Resolves(n) => Resolves(n)' /\ n + 1 \in 1 .. Len(opened_files)
      BY <1>1, <2>1 DEF Resolves
    <2> QED
      BY <2>1, <2>2, <2>3
  <1> QED
    BY <1>2, <1>3

-----------------------------------------------------------------------------
(* The calls of the process, one by one.                                   *)

(* Nothing of the file changes. *)
LEMMA FileKept ==
    ASSUME UNCHANGED <<store, opened_files_writer>>
    PROVE  /\ PlaceInv' = PlaceInv /\ IsFile(Object)' = IsFile(Object) /\ Idle' = Idle
           /\ expected' = expected => Stored' = Stored
  <1>1. IsFile(Object)' = IsFile(Object) /\ IsFile(<<>>)' = IsFile(<<>>) /\ IsDir(Object)' = IsDir(Object)
    BY DEF IsFile, IsDir
  <1> QED
    BY <1>1 DEF PlaceInv, Idle, Stored

(* The path of the process's nodeid, and the root's, as the handlers see them. *)
LEMMA UserNode ==
    ASSUME UserInv
    PROVE  /\ node # NoNode => Resolves(node) /\ PathOf(node) = FilePath /\ ~Unresolved(node)
           /\ Resolves(RootInode) /\ Join(PathOf(RootInode), Name) = FilePath /\ ~Unresolved(RootInode)
           /\ opened_files \in Seq(Paths)
  BY RootUse DEF UserInv, NodeInv, Unresolved, TablesInv, TablesTypeOK

\* n resolves to path in the slab.
Leads(slab, n, path) == n \in 0 .. (Len(slab) - 1) /\ slab[n + 1] = path

(* getattr of the file, after a lookup or for a setattr. *)
LEMMA MetadataOfFile ==
    ASSUME UserInv, TablesInv', NEW up \in BOOLEAN, GetMetadata(FilePath, up)
    PROVE  /\ UNCHANGED <<store, opened_files_writer>>
           /\ \/ opened_files' = opened_files
              \/ \E path \in Paths : opened_files' = Append(opened_files, path)
           /\ \/ reply'.error # "OK" /\ (up => ~IsFile(Object))
              \/ /\ reply'.error = "OK" /\ IsFile(Object)
                 /\ reply'.ino # NoNode /\ reply'.ino \in Nat
                 /\ Leads(opened_files', reply'.ino, FilePath)
  <1>1. CASE (~up \/ ~StatFinds(FilePath)) /\ Refuse("ENOENT")
    BY <1>1, ReplyFields, FileFacts DEF Refuse, StatFinds
  <1>2. CASE /\ StatFinds(FilePath) /\ FindOrInsertInode(FilePath)
             /\ reply' = Attr(opened_files_map'[FilePath], store[Obj(FilePath)].kind,
                              Len(store[Obj(FilePath)].data))
             /\ UNCHANGED <<opened_files_writer, store>>
    <2>1. reply'.error = "OK" /\ reply'.ino = opened_files_map'[FilePath]
      BY <1>2, ReplyFields
    <2>2. \/ opened_files' = opened_files
          \/ opened_files' = Append(opened_files, FilePath)
      BY <1>2 DEF FindOrInsertInode, InsertInode, tables
    <2>3. FilePath \in DOMAIN opened_files_map'
      BY <1>2 DEF FindOrInsertInode, InsertInode, Bind, tables
    <2>4. /\ Leads(opened_files', reply'.ino, FilePath)
          /\ reply'.ino \in Nat
      BY <2>1, <2>3 DEF TablesInv, TablesTypeOK, MapSlabCoherent, Resolves, PathOf, Leads
    <2>5. opened_files'[1] = RootPath
      BY <2>2, FileFacts, SlabMeaning DEF UserInv
    <2>6. reply'.ino # NoNode
      BY <2>4, <2>5, FileFacts DEF NoNode, Leads
    <2>7. IsFile(Object)
      BY <1>2, FileFacts DEF StatFinds, UserInv, PlaceInv
    <2> QED
      BY <1>2, <2>1, <2>2, <2>4, <2>6, <2>7, FileFacts
  <1> QED
    BY <1>1, <1>2 DEF GetMetadata

LEMMA UserLookupKeeps ==
    ASSUME PlainUse, UserInv, TablesInv', NEW m \in Modes, NEW up \in BOOLEAN, UserLookup(m, up)
    PROVE  UserTypes' /\ NodeInv' /\ PlaceInv' /\ SessionState'
  <1>1. GetMetadata(FilePath, up)
    BY UserNode DEF UserLookup, Lookup
  <1>2. /\ UNCHANGED <<store, opened_files_writer>>
        /\ \/ opened_files' = opened_files
           \/ \E path \in Paths : opened_files' = Append(opened_files, path)
        /\ \/ reply'.error # "OK" /\ (up => ~IsFile(Object))
           \/ /\ reply'.error = "OK" /\ IsFile(Object)
              /\ reply'.ino # NoNode /\ reply'.ino \in Nat
              /\ Leads(opened_files', reply'.ino, FilePath)
    BY <1>1, MetadataOfFile
  <1>3. /\ phase = "closed" /\ phase' = "looked" /\ mode' = m /\ expected' = expected
        /\ node' = (IF reply'.error = "OK" THEN reply'.ino ELSE NoNode)
        /\ sure' = (sure /\ up)
    BY DEF UserLookup
  <1>4. sure' \in BOOLEAN
    BY <1>3, Zenon
  <1>5. UserTypes'
    BY <1>3, <1>4 DEF PlainUse, UserInv, UserTypes
  <1>6. NodeInv'
    <2>1. opened_files' # <<>> /\ opened_files'[1] = RootPath
      BY <1>2, SlabMeaning DEF UserInv
    <2> QED
      BY <1>2, <1>3, <2>1 DEF NodeInv, Resolves, PathOf, Leads
  <1>7. PlaceInv'
    BY <1>2, FileKept DEF UserInv
  <1>8. ASSUME sure'
        PROVE  Stored' /\ (IsFile(Object)' => Idle') /\ (node' = NoNode <=> ~IsFile(Object)')
    <2>1. sure /\ up
      BY <1>3, <1>8
    <2>2. Stored /\ (IsFile(Object) => Idle)
      BY <1>3, <2>1 DEF UserInv, SessionState
    <2> QED
      BY <1>2, <1>3, <2>1, <2>2, FileKept
  <1> QED
    BY <1>3, <1>5, <1>6, <1>7, <1>8 DEF SessionState

(* do_set_writer on the file: it fails, or only a reader opens it, or the file has
   a new writer that has taken what the file is to begin with. *)
LEMMA WriterOfFile ==
    ASSUME UserInv, NEW flags, NEW fault, NEW ok, ok.error = "OK",
           fault \in OwnFaults, SetWriter(FilePath, flags, fault, ok),
           NEW data, data = OpenedData(Object, IsAppend(flags))
    PROVE  /\ PlaceInv'
           /\ \/ reply'.error # "OK"
              \/ reply' = ok /\ ~IsWrite(flags) /\ UNCHANGED <<opened_files_writer, store>>
              \/ reply' = ok /\ IsWrite(flags) /\ Holds(opened_files_writer', store', data)
  <1>0. Obj(FilePath) = Object /\ PlaceInv
    BY FileFacts DEF UserInv
  <1>1. CASE /\ reply' = Fail("ENOENT")
             /\ UNCHANGED <<opened_files_writer, store>>
    BY <1>0, <1>1, FileKept, ReplyFields
  <1>2. CASE /\ ~IsWrite(flags) /\ reply' = ok
             /\ UNCHANGED <<opened_files_writer, store>>
    BY <1>0, <1>2, FileKept
  <1>3. CASE /\ CheckFlags(flags) /\ IsWrite(flags)
             /\ store' = StoreAfterOpen(FilePath, IsAppend(flags))
             /\ \/ /\ reply' = Fail("ENOENT")
                   /\ UNCHANGED opened_files_writer
                \/ /\ opened_files_writer' =
                        Bind(opened_files_writer, FilePath, NewWriter(Len(data), IsAppend(flags)))
                   /\ reply' = ok
    <2>1. store' = IF WriteThrough THEN Put(Object, File(data)) ELSE store
      BY <1>0, <1>3 DEF StoreAfterOpen
    <2>2. PlaceInv' /\ (WriteThrough => IsFile(Object)' /\ store'[Object].data = data)
      <3>1. CASE WriteThrough
        BY <1>0, <2>1, <3>1, PutObject
      <3>2. CASE ~WriteThrough
        BY <1>0, <2>1, <3>2 DEF PlaceInv, IsFile, IsDir
      <3> QED
        BY <3>1, <3>2
    <2>3. CASE reply' = Fail("ENOENT")
      BY <2>2, <2>3, ReplyFields
    <2>4. CASE /\ opened_files_writer' =
                    Bind(opened_files_writer, FilePath, NewWriter(Len(data), IsAppend(flags)))
               /\ reply' = ok
      <3> DEFINE w == NewWriter(Len(data), IsAppend(flags))
      <3>1. FilePath \in DOMAIN opened_files_writer' /\ opened_files_writer'[FilePath] = w
        BY <2>4 DEF Bind
      <3>2. w.written = Len(data) /\ w.pos = Len(data) /\ w.attached = WriteThrough /\ w.buf = <<>>
        BY DEF NewWriter
      <3>3. ~WriteThrough => data = <<>>
        BY <1>3, CapabilityAssumption DEF CheckFlags, OpenedData
      <3> HIDE DEF w
      <3>4. Holds(opened_files_writer', store', data)
        BY <2>2, <3>1, <3>2, <3>3 DEF Holds, IsFile
      <3> QED
        BY <1>3, <2>2, <2>4, <3>4
    <2> QED
      BY <1>3, <2>3, <2>4
  <1> QED
    BY <1>0, <1>1, <1>2, <1>3 DEF SetWriter, OwnFaults

LEMMA FlagFacts ==
    /\ \A m \in {"r", "w", "a"} :
         /\ IsWrite(Flags(m)) <=> m # "r"
         /\ IsAppend(Flags(m)) <=> m = "a"
    /\ \A m \in {"w", "a"} :
         /\ IsWrite(Flags(m) \cup {"O_CREAT"})
         /\ IsAppend(Flags(m) \cup {"O_CREAT"}) <=> m = "a"
  BY DEF Flags, IsWrite, IsAppend

LEMMA UserOpenKeeps ==
    ASSUME UserInv, NEW fault \in OwnFaults, UserOpen(fault)
    PROVE  UserTypes' /\ NodeInv' /\ PlaceInv' /\ SessionState'
  <1>1. /\ phase = "looked" /\ node # NoNode
        /\ UNCHANGED <<node, mode, expected>>
        /\ phase' = (IF reply'.error # "OK" THEN "closed" ELSE IF mode = "w" THEN "emptying" ELSE "open")
        /\ sure' = (sure /\ reply'.error = "OK")
    BY DEF UserOpen, Note
  <1>2. SetWriter(FilePath, Flags(mode), fault, Ack) /\ UNCHANGED tables
    BY <1>1, UserNode DEF UserOpen, Open
  <1>3. sure' \in BOOLEAN
    BY <1>1, Zenon
  <1>4. UserTypes'
    BY <1>1, <1>3 DEF UserInv, UserTypes
  <1>5. NodeInv'
    BY <1>1, <1>2 DEF UserInv, NodeInv, tables, Resolves, PathOf
  <1>6. mode \in {"r", "w", "a"}
    BY DEF UserInv, UserTypes
  <1> DEFINE data == OpenedData(Object, IsAppend(Flags(mode)))
  <1>7. /\ PlaceInv'
        /\ \/ reply'.error # "OK"
           \/ mode = "r" /\ UNCHANGED <<opened_files_writer, store>>
           \/ mode # "r" /\ Holds(opened_files_writer', store', data)
    <2>1. PICK d : d = data
      OBVIOUS
    <2> HIDE DEF data
    <2>2. Ack.error = "OK"
      BY ReplyFields
    <2> QED
      BY <1>2, <1>6, <2>1, <2>2, WriterOfFile, FlagFacts DEF data
  <1>8. ASSUME mode = "w", reply'.error = "OK" PROVE Writes(<<>>)'
    <2>1. data = <<>>
      BY <1>8, FlagFacts DEF OpenedData
    <2> QED
      BY <1>7, <1>8, <2>1 DEF Writes
  <1>9. ASSUME sure' PROVE SessionState'
    <2>1. sure /\ reply'.error = "OK" /\ Stored /\ Idle
      BY <1>1, <1>9 DEF UserInv, SessionState
    <2>2. CASE mode = "r"
      BY <1>1, <1>7, <2>1, <2>2, FileKept DEF SessionState
    <2>3. CASE mode = "w"
      BY <1>1, <1>8, <2>1, <2>3 DEF SessionState
    <2>4. CASE mode = "a"
      <3>1. data = expected
        BY <1>6, <2>1, <2>4, FlagFacts DEF OpenedData, Stored
      <3> QED
        BY <1>1, <1>7, <2>1, <2>4, <3>1 DEF SessionState, Writes
    <2> QED
      BY <1>6, <2>2, <2>3, <2>4
  <1> QED
    BY <1>1, <1>4, <1>5, <1>7, <1>8, <1>9 DEF SessionState

LEMMA UserCreateKeeps ==
    ASSUME UserInv, NEW fault \in OwnFaults, UserCreate(fault)
    PROVE  UserTypes' /\ NodeInv' /\ PlaceInv' /\ SessionState'
  <1>1. phase = "looked" /\ node = NoNode /\ UNCHANGED mode /\ mode \in {"r", "w", "a"}
    BY DEF UserCreate, UserInv, UserTypes
  <1>2. CASE phase' = "closed" /\ UNCHANGED <<vars, node, expected, sure>>
    <2>1. UNCHANGED <<opened_files, store, opened_files_writer>>
      BY <1>2 DEF vars
    <2>2. UserTypes' /\ NodeInv'
      BY <1>1, <1>2, <2>1 DEF UserInv, UserTypes, NodeInv, Resolves, PathOf
    <2> QED
      BY <1>1, <1>2, <2>1, <2>2, FileKept DEF UserInv, SessionState
  <1>3. CASE /\ mode \in {"w", "a"}
             /\ Create(RootInode, Name, Flags(mode) \cup {"O_CREAT"}, fault)
             /\ node' = (IF reply'.error = "OK" THEN reply'.ino ELSE NoNode)
             /\ phase' = (IF reply'.error = "OK" THEN "open" ELSE "closed")
             /\ expected' = <<>>
             /\ sure' = ((sure \/ mode = "w") /\ reply'.error = "OK")
    <2> DEFINE flags == Flags(mode) \cup {"O_CREAT"}
               ok == Attr(NextInode, "file", 0)
    <2>1. InsertInode(FilePath) /\ SetWriter(FilePath, flags, fault, ok)
      BY <1>3, UserNode DEF Create
    <2>2. ok.error = "OK" /\ ok.ino = Len(opened_files)
      BY ReplyFields DEF NextInode
    <2>3. IsWrite(flags)
      BY <1>3, FlagFacts
    <2>4. opened_files' = Append(opened_files, FilePath) /\ opened_files \in Seq(Paths)
      BY <2>1, UserNode DEF InsertInode
    <2>5. /\ opened_files' # <<>> /\ opened_files'[1] = RootPath
          /\ Len(opened_files) \in Nat \ {0}
          /\ Leads(opened_files', Len(opened_files), FilePath)
      <3>1. Len(opened_files) \in Nat \ {0}
        BY <2>4 DEF UserInv, NodeInv
      <3>2. Leads(opened_files', Len(opened_files), FilePath)
        BY <2>4, FileFacts DEF Leads
      <3> QED
        BY <2>4, <3>1, <3>2, FileFacts, SlabMeaning DEF UserInv
    <2>6. sure' \in BOOLEAN
      BY <1>3, Zenon
    <2>7. UserTypes'
      BY <1>1, <1>3, <2>6, BoundsAssumption DEF UserInv, UserTypes
    <2> HIDE DEF flags, ok
    <2>8. PICK d : d = OpenedData(Object, IsAppend(flags))
      OBVIOUS
    <2>9. /\ PlaceInv'
          /\ \/ reply'.error # "OK"
             \/ reply' = ok /\ Holds(opened_files_writer', store', d)
      BY <2>1, <2>2, <2>3, <2>8, WriterOfFile
    <2>10. NodeInv'
      BY <1>3, <2>2, <2>5, <2>9 DEF NodeInv, NoNode, Resolves, PathOf, Leads
    <2>11. ASSUME sure' PROVE SessionState'
      <3>1. reply'.error = "OK" /\ (mode = "w" \/ ~IsFile(Object))
        BY <1>1, <1>3, <2>11 DEF UserInv, SessionState
      <3>2. d = <<>>
        BY <1>3, <2>8, <3>1, FlagFacts DEF OpenedData, flags
      <3> QED
        BY <1>1, <1>3, <2>9, <3>1, <3>2 DEF SessionState, Writes
    <2> QED
      BY <1>3, <2>7, <2>9, <2>10, <2>11 DEF SessionState
  <1> QED
    BY <1>1, <1>2, <1>3 DEF UserCreate, Note

LEMMA UserTruncateKeeps ==
    ASSUME PlainUse, UserInv, TablesInv', NEW size, NEW up \in BOOLEAN, UserTruncate(size, up)
    PROVE  UserTypes' /\ NodeInv' /\ PlaceInv' /\ SessionState'
  <1>1. /\ phase = "emptying" /\ size = 0 /\ phase' = "open"
        /\ expected' = Resized(expected, size) /\ UNCHANGED <<node, mode>>
        /\ sure' = (reply'.error = "OK")
    BY DEF PlainUse, UserTruncate, Note
  <1>2. expected' = <<>>
    BY <1>1 DEF Resized
  <1>3. node # NoNode /\ node \in Nat /\ Resolves(node) /\ PathOf(node) = FilePath
    BY <1>1 DEF UserInv, NodeInv
  <1>4. GetMetadata(FilePath, up)
    BY <1>3, UserNode DEF UserTruncate, Setattr, Getattr
  <1>5. /\ UNCHANGED <<store, opened_files_writer>>
        /\ \/ opened_files' = opened_files
           \/ \E path \in Paths : opened_files' = Append(opened_files, path)
    BY <1>4, MetadataOfFile
  <1>6. sure' \in BOOLEAN
    BY <1>1, Zenon
  <1>7. UserTypes'
    <2>1. expected' \in Seq(Nat) /\ Len(expected') <= MaxSize
      BY <1>2, BoundsAssumption
    <2>2. mode' \in {"r", "w", "a"} /\ phase' = "open"
      BY <1>1 DEF UserInv, UserTypes
    <2> QED
      BY <1>6, <2>1, <2>2 DEF UserTypes
  <1>8. NodeInv'
    <2>1. /\ opened_files' # <<>> /\ opened_files'[1] = RootPath
          /\ Resolves(node)' /\ opened_files'[node + 1] = opened_files[node + 1]
      BY <1>1, <1>3, <1>5, SlabMeaning DEF UserInv, Resolves
    <2> QED
      BY <1>1, <1>3, <2>1 DEF NodeInv, PathOf
  <1>9. SessionState'
    <2>1. mode = "w" /\ Holds(opened_files_writer, store, <<>>)
      BY <1>1 DEF UserInv, SessionState, Writes
    <2> QED
      BY <1>1, <1>2, <1>5, <2>1 DEF SessionState, Writes
  <1> QED
    BY <1>5, <1>7, <1>8, <1>9, FileKept DEF UserInv, SessionState

LEMMA WholeSeq ==
    ASSUME NEW data \in Seq(Nat)
    PROVE  SubSeq(data, 1, Len(data)) = data
  <1>1. SubSeq(data, 1, Len(data)) \in Seq(Nat) /\ Len(SubSeq(data, 1, Len(data))) = Len(data)
    OBVIOUS
  <1>2. \A k \in 1 .. Len(data) : SubSeq(data, 1, Len(data))[k] = data[k]
    OBVIOUS
  <1> QED
    BY <1>1, <1>2

LEMMA UserReadKeeps ==
    ASSUME UserInv, NEW up \in BOOLEAN, UserRead(up)
    PROVE  UserTypes' /\ NodeInv' /\ PlaceInv' /\ SessionState'
  <1>1. /\ phase = "open" /\ mode = "r" /\ phase' = "read" /\ UNCHANGED <<node, mode, expected>>
        /\ sure' = (sure /\ reply'.error = "OK")
    BY DEF UserRead, Note
  <1>2. node # NoNode
    BY <1>1 DEF UserInv, NodeInv
  <1> DEFINE data == store[Object].data
             rest == SubSeq(data, 0 + 1, Len(data))
  <1>3. \/ Refuse("ENOENT")
        \/ /\ IsFile(Object)
           /\ reply' = [Ack EXCEPT !.size = Len(rest),
                                   !.data = SubSeq(rest, 1, Smaller(MaxSize, Len(rest)))]
           /\ UNCHANGED <<opened_files, opened_files_map, opened_files_writer, store>>
    BY <1>2, UserNode, FileFacts DEF UserRead, Read
  <1>4. UNCHANGED <<opened_files, opened_files_writer, store>>
    BY <1>3 DEF Refuse
  <1>5. sure' \in BOOLEAN
    BY <1>1, Zenon
  <1>6. UserTypes' /\ NodeInv'
    BY <1>1, <1>2, <1>4, <1>5 DEF UserInv, UserTypes, NodeInv, Resolves, PathOf
  <1>7. ASSUME sure' PROVE SessionState'
    <2>1. sure /\ reply'.error = "OK" /\ Stored /\ Idle
      BY <1>1, <1>7 DEF UserInv, SessionState
    <2>2. /\ IsFile(Object)
          /\ reply'.data = SubSeq(rest, 1, Smaller(MaxSize, Len(rest)))
      <3>1. ~Refuse("ENOENT")
        BY <2>1, ReplyFields DEF Refuse
      <3> DEFINE got == SubSeq(rest, 1, Smaller(MaxSize, Len(rest)))
                 size == Len(rest)
      <3>2. IsFile(Object) /\ reply' = [Ack EXCEPT !.size = size, !.data = got]
        BY <1>3, <3>1
      <3> HIDE DEF got, size
      <3>3. reply'.data = got
        BY <3>2, ReplyFields
      <3> QED
        BY <3>2, <3>3 DEF got
    <2>3. data = expected /\ expected \in Seq(Nat) /\ Len(expected) <= MaxSize
      BY <2>1, <2>2 DEF Stored, UserInv, UserTypes
    <2> HIDE DEF data
    <2>4. rest = expected
      BY <2>3, WholeSeq, 0 + 1 = 1
    <2>5. Smaller(MaxSize, Len(expected)) = Len(expected)
      BY <2>3, BoundsAssumption DEF Smaller
    <2>6. SubSeq(expected, 1, Len(expected)) = expected
      BY <2>3, WholeSeq
    <2>7. reply'.data = expected'
      BY <1>1, <2>2, <2>4, <2>5, <2>6
    <2> QED
      BY <1>1, <1>4, <2>1, <2>7, FileKept DEF SessionState
  <1> QED
    BY <1>1, <1>4, <1>6, <1>7, FileKept DEF UserInv, SessionState

LEMMA UserFlushKeeps ==
    ASSUME UserInv, UserFlush
    PROVE  UserTypes' /\ NodeInv' /\ PlaceInv' /\ SessionState'
  <1>1. /\ phase \in {"open", "read"} /\ phase' = "flushed" /\ UNCHANGED <<node, mode, expected>>
        /\ sure' = (sure /\ reply'.error = "OK")
    BY DEF UserFlush, Note
  <1>2. UNCHANGED <<opened_files, opened_files_writer, store>>
    BY DEF UserFlush, Flush, AckIfResolved, Unresolved, Refuse
  <1>3. sure' \in BOOLEAN
    BY <1>1, Zenon
  <1>4. UserTypes' /\ NodeInv'
    BY <1>1, <1>2, <1>3 DEF UserInv, UserTypes, NodeInv, Resolves, PathOf
  <1>5. ASSUME sure' PROVE SessionState'
    <2>1. CASE mode = "r"
      BY <1>1, <1>2, <1>5, <2>1, FileKept DEF UserInv, SessionState
    <2>2. CASE mode # "r"
      <3>1. phase = "open" /\ Writes(expected)
        BY <1>1, <1>5, <2>2 DEF UserInv, SessionState
      <3> QED
        BY <1>1, <1>2, <2>2, <3>1 DEF SessionState, Writes
    <2> QED
      BY <2>1, <2>2
  <1> QED
    BY <1>1, <1>2, <1>4, <1>5, FileKept DEF UserInv, SessionState

(* What the service makes of a chunk the writer has taken: the file stays a file. *)
LEMMA TakePlace ==
    ASSUME PlaceInv, NEW w, NEW chunk,
           store' = store \/ store' = StoreAfterTake(FilePath, w, chunk)
    PROVE  PlaceInv'
  <1>1. CASE store' = store
    BY <1>1 DEF PlaceInv, IsFile, IsDir
  <1>2. CASE \E data : store' = Put(Object, File(data))
    BY <1>2, PutObject
  <1> QED
    BY <1>1, <1>2, FileFacts DEF StoreAfterTake

(* An acknowledged write appends the chunk to what the writer has taken. *)
LEMMA TakeHolds ==
    ASSUME UserInv, NEW data \in Seq(Nat), NEW chunk \in Seq(Nat), Writes(data),
           NEW w, w = opened_files_writer[FilePath],
           store' = StoreAfterTake(FilePath, w, chunk),
           opened_files_writer' = Bind(opened_files_writer, FilePath, Acknowledged(w, chunk))
    PROVE  Holds(opened_files_writer', store', data \o chunk)
  <1>1. /\ FilePath \in DOMAIN opened_files_writer /\ w.written = Len(data)
        /\ w.attached = WriteThrough /\ w \in Writers
        /\ WriteThrough => /\ IsFile(Object) /\ store[Object].data = data
                           /\ w.append \/ w.pos = Len(data)
        /\ ~WriteThrough => w.buf = data
    BY DEF Writes, Holds, IsFile, UserInv, ServiceInv, ServiceTypeOK
  <1> DEFINE w2 == Acknowledged(w, chunk)
  <1>2. /\ w2.written = w.written + Len(chunk) /\ w2.pos = w.pos + Len(chunk)
        /\ w2.append = w.append /\ w2.attached = w.attached
        /\ w2.buf = IF WriteThrough THEN w.buf ELSE w.buf \o chunk
    BY <1>1 DEF Acknowledged, TakenBy, Writers
  <1>3. FilePath \in DOMAIN opened_files_writer' /\ opened_files_writer'[FilePath] = w2
    BY DEF Bind
  <1> HIDE DEF w2
  <1>4. Len(data \o chunk) = Len(data) + Len(chunk)
    BY ConcatParts
  <1>5. ASSUME WriteThrough
        PROVE  IsFile(Object)' /\ store'[Object].data = data \o chunk
    <2>1. store' = Put(Object, File(IF w.append THEN data \o chunk ELSE Overlay(data, w.pos, chunk)))
      BY <1>1, <1>5, FileFacts DEF StoreAfterTake
    <2>2. store' = Put(Object, File(data \o chunk))
      BY <1>1, <1>5, <2>1, OverlayEnd
    <2> QED
      BY <2>2, PutObject DEF UserInv
  <1>6. w2.written = Len(data \o chunk) /\ (w.append \/ w.pos = Len(data) => w2.append \/ w2.pos = Len(data \o chunk))
    BY <1>1, <1>2, <1>4
  <1> QED
    BY <1>1, <1>2, <1>3, <1>5, <1>6 DEF Holds, IsFile

LEMMA UserWriteKeeps ==
    ASSUME UserInv, NEW chunk \in Chunks, NEW up \in BOOLEAN, UserWrite(chunk, up)
    PROVE  UserTypes' /\ NodeInv' /\ PlaceInv' /\ SessionState'
  <1>1. /\ phase = "open" /\ mode # "r" /\ UNCHANGED <<node, phase, mode>>
        /\ expected' = expected \o chunk /\ Len(expected) + Len(chunk) <= MaxSize
        /\ sure' = (sure /\ reply'.error = "OK")
    BY DEF UserWrite, Note
  <1>2. chunk \in Seq(Nat) /\ expected \in Seq(Nat)
    BY ChunksAssumption DEF UserInv, UserTypes
  <1>3. node # NoNode /\ PathOf(node) = FilePath
    BY <1>1 DEF UserInv, NodeInv
  <1>4. PICK w : w = opened_files_writer[FilePath]
    OBVIOUS
  <1>5. /\ UNCHANGED opened_files
        /\ \/ reply' = Fail("EIO") /\ (store' = store \/ store' = StoreAfterTake(FilePath, w, chunk))
           \/ /\ store' = StoreAfterTake(FilePath, w, chunk)
              /\ opened_files_writer' = Bind(opened_files_writer, FilePath, Acknowledged(w, chunk))
    <2>1. Write(node, Len(expected), chunk, up) /\ ~Unresolved(node)
      BY <1>3, UserNode DEF UserWrite
    <2> QED
      BY <1>3, <1>4, <2>1 DEF Write, Refuse, tables
  <1>6. sure' \in BOOLEAN
    BY <1>1, Zenon
  <1>7. UserTypes'
    <2>1. expected' \in Seq(Nat) /\ Len(expected') <= MaxSize
      BY <1>1, <1>2, ConcatParts
    <2> QED
      BY <1>1, <1>6, <2>1 DEF UserInv, UserTypes
  <1>8. NodeInv'
    BY <1>1, <1>5 DEF UserInv, NodeInv, Resolves, PathOf
  <1>9. PlaceInv'
    BY <1>5, TakePlace DEF UserInv
  <1>10. ASSUME sure' PROVE SessionState'
    <2>1. reply'.error = "OK" /\ Writes(expected)
      BY <1>1, <1>10 DEF UserInv, SessionState
    <2>2. /\ store' = StoreAfterTake(FilePath, w, chunk)
          /\ opened_files_writer' = Bind(opened_files_writer, FilePath, Acknowledged(w, chunk))
      BY <1>5, <2>1, ReplyFields
    <2>3. PICK data \in Seq(Nat) : data = expected
      BY <1>2
    <2>4. Holds(opened_files_writer', store', data \o chunk)
      BY <1>2, <1>4, <2>1, <2>2, <2>3, TakeHolds DEF Writes
    <2> QED
      BY <1>1, <2>3, <2>4 DEF SessionState, Writes
  <1> QED
    BY <1>1, <1>7, <1>8, <1>9, <1>10 DEF SessionState

LEMMA UserReleaseKeeps ==
    ASSUME UserInv, NEW up \in BOOLEAN, UserRelease(up)
    PROVE  UserTypes' /\ NodeInv' /\ PlaceInv' /\ SessionState'
  <1>1. /\ phase = "flushed" /\ phase' = "closed" /\ UNCHANGED <<node, mode, expected>>
        /\ sure' = (sure /\ up)
    BY DEF UserRelease
  <1>2. node # NoNode /\ PathOf(node) = FilePath
    BY <1>1 DEF UserInv, NodeInv
  <1>3. CloseWorks(FilePath)
    BY ObjectFits, FileFacts DEF UserInv, CloseWorks
  <1> DEFINE closed == store' = StoreAfterClose(FilePath)
  <1>4. /\ UNCHANGED opened_files
        /\ \/ Idle /\ UNCHANGED <<opened_files_writer, store>>
           \/ ~Idle /\ up /\ closed /\ opened_files_writer' = Unbind(opened_files_writer, FilePath)
           \/ ~Idle /\ ~up /\ (store' = store \/ closed)
    <2>1. Release(node, up) /\ ~Unresolved(node)
      BY <1>2, UserNode DEF UserRelease
    <2> QED
      BY <1>2, <1>3, <2>1 DEF Release, Refuse, tables, CloseWriter, Idle
  <1>5. sure' \in BOOLEAN
    BY <1>1, Zenon
  <1>6. UserTypes' /\ NodeInv'
    BY <1>1, <1>4, <1>5 DEF UserInv, UserTypes, NodeInv, Resolves, PathOf
  <1>7. ASSUME closed
        PROVE  /\ PlaceInv'
               /\ WriteThrough => store' = store
               /\ ~WriteThrough => IsFile(Object)' /\ store'[Object].data = opened_files_writer[FilePath].buf
    <2>1. CASE WriteThrough
      BY <1>7, <2>1 DEF UserInv, StoreAfterClose, PlaceInv, IsFile, IsDir
    <2>2. CASE ~WriteThrough
      <3>1. store' = Put(Object, File(opened_files_writer[FilePath].buf))
        BY <1>7, <2>2, FileFacts DEF StoreAfterClose
      <3>2. PICK data : data = opened_files_writer[FilePath].buf
        OBVIOUS
      <3> QED
        BY <2>2, <3>1, <3>2, PutObject DEF UserInv
    <2> QED
      BY <2>1, <2>2
  <1>8. PlaceInv'
    <2>1. CASE store' = store
      BY <2>1 DEF UserInv, PlaceInv, IsFile, IsDir
    <2> QED
      BY <1>4, <1>7, <2>1
  <1>9. ASSUME sure' PROVE Stored' /\ Idle'
    <2>1. sure /\ up
      BY <1>1, <1>9
    <2>2. CASE mode = "r"
      <3>1. Stored /\ Idle
        BY <1>1, <2>1, <2>2 DEF UserInv, SessionState
      <3> QED
        BY <1>1, <1>4, <3>1, FileKept
    <2>3. CASE mode # "r"
      <3>1. Holds(opened_files_writer, store, expected)
        BY <1>1, <2>1, <2>3 DEF UserInv, SessionState, Writes
      <3>2. ~Idle
        BY <3>1 DEF Holds, Idle
      <3>3. closed /\ opened_files_writer' = Unbind(opened_files_writer, FilePath)
        BY <1>4, <2>1, <3>2
      <3>4. Idle'
        BY <3>3 DEF Idle, Unbind
      <3>5. IsFile(Object)' /\ store'[Object].data = expected
        BY <1>7, <3>1, <3>3, CapabilityAssumption DEF Holds, IsFile
      <3> QED
        BY <1>1, <3>4, <3>5 DEF Stored
    <2> QED
      BY <2>2, <2>3
  <1> QED
    BY <1>1, <1>6, <1>8, <1>9 DEF SessionState

LEMMA UserUnlinkKeeps ==
    ASSUME UserInv, NEW up \in BOOLEAN, UserUnlink(up)
    PROVE  UserTypes' /\ NodeInv' /\ PlaceInv' /\ SessionState'
  <1>1. /\ phase = "closed" /\ UNCHANGED <<node, phase, mode>> /\ expected' = <<>>
        /\ sure' = (reply'.error = "OK")
    BY DEF UserUnlink, Note
  <1>2. Remove(RootInode, Name, up) /\ ~Unresolved(RootInode)
    BY UserNode DEF UserUnlink, Unlink
  <1>3. /\ UNCHANGED opened_files
        /\ \/ Removed(Object)
           \/ reply' = Fail("ENOENT") /\ UNCHANGED <<opened_files_writer, store>>
    BY <1>2, UserNode, FileFacts DEF Remove, tables
  <1>4. sure' \in BOOLEAN
    BY <1>1, Zenon
  <1>5. UserTypes'
    <2>1. expected' \in Seq(Nat) /\ Len(expected') <= MaxSize
      BY <1>1, BoundsAssumption
    <2> QED
      BY <1>1, <1>4, <2>1 DEF UserInv, UserTypes
  <1>6. NodeInv'
    BY <1>1, <1>3 DEF UserInv, NodeInv, Resolves, PathOf
  <1>7. CASE Removed(Object)
    <2>1. PlaceInv' /\ ~IsFile(Object)'
      BY <1>7, RemoveObject DEF Removed, UserInv
    <2>2. Stored'
      BY <1>1, <2>1 DEF Stored
    <2> QED
      BY <1>1, <1>5, <1>6, <2>1, <2>2 DEF UserInv, SessionState
  <1>8. CASE reply' = Fail("ENOENT") /\ UNCHANGED <<opened_files_writer, store>>
    <2>1. ~sure'
      <3>1. reply'.error = "ENOENT"
        BY <1>8, ReplyFields
      <3>2. reply'.error # "OK"
        BY <3>1
      <3> QED
        BY <1>1, <3>2, Zenon
    <2> QED
      BY <1>1, <1>5, <1>6, <1>8, <2>1, FileKept DEF UserInv, SessionState
  <1> QED
    BY <1>3, <1>7, <1>8

-----------------------------------------------------------------------------
(* What the sessions leave.                                                *)

LEMMA InitUser == UserInit => UserInv
  <1> SUFFICES ASSUME UserInit PROVE UserInv
    OBVIOUS
  <1>1. opened_files = <<RootPath, RootPath>> /\ opened_files_map = [p \in {RootPath} |-> 1]
    BY DEF UserInit, RootEntries, RootInode
  <1>2. RootPath \in Paths /\ Len(RootPath) = 2
    BY DEF RootPath, Paths, Segments
  <1>3. /\ opened_files \in Seq(Paths) /\ Len(opened_files) = 2 /\ opened_files # <<>>
        /\ opened_files[1] = RootPath /\ opened_files[2] = RootPath
    BY <1>1, <1>2
  <1>4. DOMAIN opened_files_map = {RootPath} /\ opened_files_map[RootPath] = 1
    BY <1>1
  <1>5. TablesTypeOK
    BY <1>1, <1>2, <1>3, <1>4 DEF TablesTypeOK
  <1>6. Resolves(1) /\ PathOf(1) = RootPath
    BY <1>3 DEF Resolves, PathOf
  <1>7. TablesInv
    BY <1>3, <1>4, <1>5, <1>6 DEF TablesInv, MapSlabCoherent, RootResolves, RootInode
  <1>8. Dir \in Nodes /\ Dir.kind = "dir"
    BY DEF Dir, Nodes
  <1>9. opened_files_writer = <<>> /\ store = [o \in {<<>>} |-> Dir] /\ reply.error \in Errors
    BY ReplyErrors DEF UserInit
  <1>10. ServiceInv
    BY <1>8, <1>9 DEF ServiceInv, ServiceTypeOK, AttachedBacked, CountNeverAhead
  <1>11. PlaceInv /\ ~IsFile(Object)
    BY <1>8, <1>9, FileFacts DEF PlaceInv, IsFile, IsDir
  <1>12. sure \in BOOLEAN
    BY Zenon DEF UserInit
  <1>13. /\ node = NoNode /\ phase = "closed" /\ mode = "r" /\ expected = <<>>
    BY DEF UserInit
  <1>14. UserTypes
    BY <1>12, <1>13, BoundsAssumption DEF UserTypes
  <1>15. NodeInv
    BY <1>3, <1>13 DEF NodeInv
  <1>16. Stored /\ Idle
    BY <1>9, <1>11, <1>13 DEF Stored, Idle
  <1>17. SessionState
    BY <1>11, <1>13, <1>16 DEF SessionState
  <1> QED
    BY <1>7, <1>10, <1>11, <1>14, <1>15, <1>17 DEF UserInv

LEMMA UserStep ==
    ASSUME PlainUse, UserInv, [UserNext]_uvars
    PROVE  UserInv'
  <1>1. CASE UNCHANGED uvars
    <2>1. TablesInv' /\ ServiceInv'
      BY <1>1, StepChangesTables, TablesStepKeeps, StepKeepsService DEF UserInv, uvars, vars
    <2>2. UserTypes' /\ NodeInv'
      BY <1>1 DEF uvars, UserInv, UserTypes, NodeInv, Resolves, PathOf
    <2>3. PlaceInv' /\ IsFile(Object)' = IsFile(Object) /\ Idle' = Idle /\ Stored' = Stored
      BY <1>1, FileKept DEF uvars, UserInv
    <2>4. Writes(<<>>)' = Writes(<<>>) /\ Writes(expected)' = Writes(expected)
      BY <1>1 DEF uvars, Writes
    <2>5. UNCHANGED <<phase, mode, node, sure, reply, expected>>
      BY <1>1 DEF uvars
    <2>6. SessionState'
      BY <2>3, <2>4, <2>5 DEF UserInv, SessionState
    <2> QED
      BY <2>1, <2>2, <2>3, <2>6 DEF UserInv
  <1>2. CASE UserNext
    <2>1. TablesInv' /\ ServiceInv'
      BY <1>2, UserServer
    <2>2. UserTypes' /\ NodeInv' /\ PlaceInv' /\ SessionState'
      BY <1>2, <2>1, UserLookupKeeps, UserOpenKeeps, UserCreateKeeps, UserTruncateKeeps,
         UserWriteKeeps, UserReadKeeps, UserFlushKeeps, UserReleaseKeeps, UserUnlinkKeeps
         DEF UserNext
    <2> QED
      BY <2>1, <2>2 DEF UserInv
  <1> QED
    BY <1>1, <1>2

(* Between two sessions the stored file is the one POSIX describes, whatever the
   sessions before wrote, appended, emptied or removed, on a local file system and
   on an object store.  After a failed call this holds again as soon as the file was
   made anew or removed with success, the writer a failed close leaves included. *)
THEOREM SessionsAddUp ==
    ASSUME Modes \subseteq {"r", "w", "a"}, ~MayTruncate
    PROVE  UserSpec => []StoredAsPosix
  <1>1. PlainUse
    BY DEF PlainUse
  <1>2. UserInv /\ [UserNext]_uvars => UserInv'
    BY <1>1, UserStep
  <1>3. UserInv => StoredAsPosix
    BY DEF UserInv, SessionState, Stored, StoredAsPosix
  <1> QED
    BY <1>2, <1>3, InitUser, PTL DEF UserSpec

(* A process that reads its file in a later session gets exactly what the earlier
   ones were acknowledged to have written since the file was last made anew, whatever
   failed before that. *)
THEOREM ReadsWhatWasWritten ==
    ASSUME Modes \subseteq {"r", "w", "a"}, ~MayTruncate
    PROVE  UserSpec => []ReadsBack
  <1>1. PlainUse
    BY DEF PlainUse
  <1>2. UserInv /\ [UserNext]_uvars => UserInv'
    BY <1>1, UserStep
  <1>3. UserInv => ReadsBack
    BY DEF UserInv, SessionState, ReadsBack
  <1> QED
    BY <1>2, <1>3, InitUser, PTL DEF UserSpec

=============================================================================
