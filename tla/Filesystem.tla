----------------------------- MODULE Filesystem -----------------------------
(***************************************************************************)
(* The FUSE request handlers of OVFS (src/src/filesystem.rs) and the       *)
(* storage service they call through OpenDAL.                              *)
(*                                                                         *)
(* Requests are handled one at a time: one vring worker takes them off the *)
(* queue and every handler blocks (rt.block_on) until its reply is         *)
(* written.  An action is therefore one whole handler.  Every call of the  *)
(* service may fail; a failed call may still have taken effect there.      *)
(*                                                                         *)
(* A path string is the sequence of the segments between its "/"s, with E  *)
(* for the empty one: "/" is <<E, E>>, "//a" <<E, E, a>>, "//d/"           *)
(* <<E, E, d, E>>.                                                         *)
(* The distinction between a string and the object it names is kept,       *)
(* because the three tables of the server are keyed by the string.         *)
(*                                                                         *)
(* A definition whose name ends in _Xxx is a faulty variant of the one     *)
(* that follows it; no action uses it (README.md, "Mutants").              *)
(***************************************************************************)
EXTENDS Integers, Sequences, FiniteSets

CONSTANTS
    Names,         \* names of directory entries
    Empty,         \* the empty string, between two slashes of a path
    FlagSets,      \* the open(2) flags the guest uses, as sets of flag names
    Chunks,        \* the payloads of writes
    WriteThrough,  \* TRUE: written data is visible at once (services-fs);
                   \* FALSE: it is published by close (services-s3)
    CanWrite,      \* the service's capabilities: write, write_can_append
    CanAppend,
    MaxInodes,     \* bound: entries ever inserted in the slab
    MaxSize,       \* bound: bytes of a file, and offsets
    MaxEntries     \* bound: directory entries a reply holds, and readdir offsets

ASSUME NamesAssumption == Empty \notin Names
ASSUME ChunksAssumption == Chunks \subseteq Seq(Nat)
ASSUME BoundsAssumption == MaxInodes \in Nat /\ MaxSize \in Nat /\ MaxEntries \in Nat
\* An object store cannot append to an object.
ASSUME CapabilityAssumption ==
    /\ {WriteThrough, CanWrite, CanAppend} \subseteq BOOLEAN
    /\ CanAppend => WriteThrough /\ CanWrite

VARIABLES
    opened_files,         \* the slab: nodeid i resolves to opened_files[i + 1]
    opened_files_map,     \* path |-> nodeid, a partial function
    opened_files_writer,  \* path |-> its InnerWriter, a partial function
    store,                \* the storage service: object |-> file or directory
    reply                 \* the reply to the last request

tables == <<opened_files, opened_files_map>>
vars == <<opened_files, opened_files_map, opened_files_writer, store, reply>>

-----------------------------------------------------------------------------
(* Helpers: partial functions, and files as sequences of bytes.            *)

Bind(f, k, v) == [x \in DOMAIN f \cup {k} |-> IF x = k THEN v ELSE f[x]]
Unbind(f, k) == [x \in DOMAIN f \ {k} |-> f[x]]

Larger(m, n) == IF m >= n THEN m ELSE n
Smaller(m, n) == IF m <= n THEN m ELSE n

\* A file after chunk is written at position pos; a hole reads as zeros.
Overlay(data, pos, chunk) ==
    [k \in 1 .. Larger(Len(data), pos + Len(chunk)) |->
        IF k \in (pos + 1) .. (pos + Len(chunk)) THEN chunk[k - pos]
        ELSE IF k <= Len(data) THEN data[k] ELSE 0]

-----------------------------------------------------------------------------
(* Path strings.                                                           *)

Segments == Names \cup {Empty}
Paths == Seq(Segments)

RootPath == <<Empty, Empty>>
RootInode == 1

\* format!("{}/{}", parent_path, name)
Join(path, name) == Append(path, name)

EndsWithSlash(path) == path[Len(path)] = Empty
WithSlash(path) == IF EndsWithSlash(path) THEN path ELSE Append(path, Empty)

\* The object a path names: the service drops empty segments.  Its k-th name is
\* the segment of rank k among the others.
Named(path) == {i \in DOMAIN path : path[i] # Empty}
Rank(i, S) == Cardinality({j \in S : j <= i})
Only(S) == CHOOSE s \in S : TRUE
Obj(path) ==
    LET named == Named(path)
        At(k) == {path[i] : i \in {j \in named : Rank(j, named) = k}}
    IN  [k \in 1 .. Cardinality(named) |-> Only(At(k))]

-----------------------------------------------------------------------------
(* The storage service.  An object is the sequence of names that leads to  *)
(* it; the root directory is <<>>.                                         *)

File(data) == [kind |-> "file", data |-> data]
Dir == [kind |-> "dir", data |-> <<>>]
Nodes == [kind : {"file", "dir"}, data : Seq(Nat)]

Ancestors(obj) == {SubSeq(obj, 1, k) : k \in 0 .. (Len(obj) - 1)}
Children(obj) == {name \in Names : Append(obj, name) \in DOMAIN store}

IsFile(obj) == obj \in DOMAIN store /\ store[obj].kind = "file"
IsDir(obj) == obj \in DOMAIN store /\ store[obj].kind = "dir"

\* stat finds the object; a path with a trailing slash only names directories.
StatFinds(path) == IsDir(Obj(path)) \/ (IsFile(Obj(path)) /\ ~EndsWithSlash(path))

\* A file can be put at obj, or a directory: nothing of the other kind is there,
\* and the path to it crosses no file.
NoFileAbove(obj) == \A a \in Ancestors(obj) : ~IsFile(a)
FileFits(obj) == obj # <<>> /\ ~IsDir(obj) /\ NoFileAbove(obj)
DirFits(obj) == ~IsFile(obj) /\ NoFileAbove(obj)

\* The store with node at obj, missing directories created on the way.
Put(obj, node) ==
    [o \in DOMAIN store \cup Ancestors(obj) \cup {obj} |->
        IF o = obj THEN node ELSE IF o \in DOMAIN store THEN store[o] ELSE Dir]

\* delete of a missing object succeeds, of a directory only when it is empty.
Deletable(obj) == IsDir(obj) => obj # <<>> /\ Children(obj) = {}

\* An open writer of the service.  attached: it holds the file that is now the
\* object; pos: bytes it has taken; buf: what close publishes (object store).
\* written is the server's own count, the only one the handlers look at.
Writers == [written : Nat, pos : Nat, append : BOOLEAN, attached : BOOLEAN,
            buf : Seq(Nat)]

NewWriter_OffByOne(written, append) ==
    [written |-> written - 1, pos |-> written, append |-> append,
     attached |-> WriteThrough, buf |-> <<>>]
NewWriter(written, append) ==
    [written |-> written, pos |-> written, append |-> append,
     attached |-> WriteThrough, buf |-> <<>>]

\* Once obj is deleted or replaced, writers opened before write to the old file.
Detached(obj) ==
    [p \in DOMAIN opened_files_writer |->
        IF Obj(p) = obj THEN [opened_files_writer[p] EXCEPT !.attached = FALSE]
        ELSE opened_files_writer[p]]

-----------------------------------------------------------------------------
(* Replies.                                                                *)

Errors == {"OK", "EIO", "ENOENT", "ENOSYS", "NOREPLY"}

\* ino and kind: EntryOut and AttrOut; size: the attribute, or the length the
\* header of a read announces; data: what a read puts in the guest's buffer.
Ack == [error |-> "OK", ino |-> 0, kind |-> "none", size |-> 0,
        data |-> <<>>, entries |-> {}]
Fail(e) == [Ack EXCEPT !.error = e]
Attr_NoKind(ino, kind, size) == [Ack EXCEPT !.ino = ino, !.size = size]
Attr(ino, kind, size) == [Ack EXCEPT !.ino = ino, !.kind = kind, !.size = size]

TypeOK ==
    /\ opened_files \in Seq(Paths)
    /\ \A i \in 1 .. Len(opened_files) : Len(opened_files[i]) >= 2
    /\ opened_files_map \in [DOMAIN opened_files_map -> Nat]
    /\ opened_files_writer \in [DOMAIN opened_files_writer -> Writers]
    /\ store \in [DOMAIN store -> Nodes]
    /\ reply.error \in Errors

Init ==
    /\ opened_files = <<>>
    /\ opened_files_map = <<>>
    /\ opened_files_writer = <<>>
    /\ store = [o \in {<<>>} |-> Dir]
    /\ reply = Ack

-----------------------------------------------------------------------------
(* The slab and the map.                                                   *)

Resolves(node) == node \in 0 .. (Len(opened_files) - 1)
PathOf(node) == opened_files[node + 1]

HasRoom(n) == Len(opened_files) + n <= MaxInodes

\* The slab hands out increasing keys and nothing is ever removed from it.
NextInode_OneBased == Len(opened_files) + 1
NextInode == Len(opened_files)

\* Insert path and point the map at the new entry, whatever it held before.
InsertInode_ReusesRetired(path) ==
    LET retired == {node \in 2 .. (Len(opened_files) - 1) :
                      \A p \in DOMAIN opened_files_map : opened_files_map[p] # node}
    IN  /\ HasRoom(1)
        /\ IF retired = {}
           THEN /\ opened_files' = Append(opened_files, path)
                /\ opened_files_map' = Bind(opened_files_map, path, NextInode)
           ELSE \E node \in retired :
                  /\ opened_files' = [opened_files EXCEPT ![node + 1] = path]
                  /\ opened_files_map' = Bind(opened_files_map, path, node)
InsertInode(path) ==
    /\ HasRoom(1)
    /\ opened_files' = Append(opened_files, path)
    /\ opened_files_map' = Bind(opened_files_map, path, NextInode)

\* Reuse the entry the map has for path, insert one only if there is none.
FindOrInsertInode_FromSlab(path) ==
    IF path \in DOMAIN opened_files_map
    THEN UNCHANGED tables
    ELSE \/ \E node \in 0 .. (Len(opened_files) - 1) :
              /\ opened_files[node + 1] = path
              /\ opened_files_map' = Bind(opened_files_map, path, node)
              /\ UNCHANGED opened_files
         \/ InsertInode(path)
FindOrInsertInode(path) ==
    IF path \in DOMAIN opened_files_map
    THEN UNCHANGED tables
    ELSE InsertInode(path)

Refuse(error) ==
    /\ reply' = Fail(error)
    /\ UNCHANGED <<opened_files, opened_files_map, opened_files_writer, store>>

Unresolved(node) == ~Resolves(node) /\ Refuse("ENOENT")

-----------------------------------------------------------------------------
(* init, destroy, forget and requests rejected before their handler.       *)

\* "/" is inserted twice: key 0 is never used, key 1 is the FUSE root.
RootEntries_Once == <<RootPath>>
RootEntries == <<RootPath, RootPath>>

FuseInit(version_ok) ==
    \/ ~version_ok /\ Refuse("EIO")
    \/ /\ version_ok
       /\ HasRoom(2)
       /\ opened_files' = opened_files \o RootEntries
       /\ opened_files_map' = Bind(opened_files_map, RootPath, RootInode)
       /\ reply' = Ack
       /\ UNCHANGED <<opened_files_writer, store>>

Destroy == Refuse("NOREPLY")
Forget(node) == Refuse("NOREPLY")
OversizedRequest == Refuse("EIO")
UnknownOpcode == Refuse("ENOSYS")
MalformedName == Refuse("EIO")

-----------------------------------------------------------------------------
(* lookup, getattr, setattr.                                               *)

GetMetadata(path, up) ==
    \/ /\ ~up \/ ~StatFinds(path)
       /\ Refuse("ENOENT")
    \/ /\ up /\ StatFinds(path)
       /\ FindOrInsertInode(path)
       /\ LET node == store[Obj(path)]
          IN  reply' = Attr(opened_files_map'[path], node.kind, Len(node.data))
       /\ UNCHANGED <<opened_files_writer, store>>

Lookup(parent, name, up) ==
    \/ Unresolved(parent)
    \/ Resolves(parent) /\ GetMetadata(Join(PathOf(parent), name), up)

Getattr(node, up) ==
    \/ Unresolved(node)
    \/ Resolves(node) /\ GetMetadata(PathOf(node), up)

\* Whatever it is asked to set, it answers as getattr.
Setattr(node, up) == Getattr(node, up)

-----------------------------------------------------------------------------
(* create, open, release: the writers.                                     *)

IsTrunc(flags) == flags \cap {"O_TRUNC", "O_CREAT"} # {}
IsAppend_Ignored(flags) == FALSE
IsAppend(flags) == "O_APPEND" \in flags
IsWrite(flags) == flags \cap {"O_WRONLY", "O_RDWR", "O_APPEND"} # {}
CheckFlags(flags) == (IsTrunc(flags) => CanWrite) /\ (IsAppend(flags) => CanAppend)

\* writer_with(path).append(append).await gives a writer.
WriterOpens(path) == CanWrite /\ ~EndsWithSlash(path) /\ FileFits(Obj(path))

\* The file when a writer has just been opened on it.
OpenedData(obj, append) == IF append /\ IsFile(obj) THEN store[obj].data ELSE <<>>

StoreAfterOpen(path, append) ==
    IF WriteThrough THEN Put(Obj(path), File(OpenedData(Obj(path), append))) ELSE store

\* The writer whose file another user replaced by one of len bytes after it was
\* opened and before its length was asked for: the count is of the new file.
Overtaken(writer, len) == [writer EXCEPT !.written = len, !.attached = FALSE]

\* do_set_writer: the writer replaces the one the path may have had, which is
\* dropped unclosed.  An append asks the service for the length afterwards, a
\* second await: the object may have been replaced in between.  (One that was
\* deleted makes stat fail, as if it had been deleted after a failed stat.)
SetWriter(path, flags, fault, ok) ==
    \/ /\ ~CheckFlags(flags) \/ (IsWrite(flags) /\ (fault = "open" \/ ~WriterOpens(path)))
       /\ reply' = Fail("ENOENT")
       /\ UNCHANGED <<opened_files_writer, store>>
    \/ /\ CheckFlags(flags) /\ ~IsWrite(flags) /\ fault = "none"
       /\ reply' = ok
       /\ UNCHANGED <<opened_files_writer, store>>
    \/ /\ CheckFlags(flags) /\ IsWrite(flags) /\ fault # "open" /\ WriterOpens(path)
       /\ LET append == IsAppend(flags)
              writer == NewWriter(Len(OpenedData(Obj(path), append)), append)
          IN  \/ /\ append /\ fault = "stat"
                 /\ store' = StoreAfterOpen(path, append)
                 /\ reply' = Fail("ENOENT")
                 /\ UNCHANGED opened_files_writer
              \/ /\ fault = "none"
                 /\ store' = StoreAfterOpen(path, append)
                 /\ opened_files_writer' = Bind(opened_files_writer, path, writer)
                 /\ reply' = ok
              \/ /\ append /\ fault = "overtaken"
                 /\ \E data \in Chunks :
                      /\ store' = Put(Obj(path), File(data))
                      /\ opened_files_writer' =
                           Bind(Detached(Obj(path)), path, Overtaken(writer, Len(data)))
                 /\ reply' = ok

\* The inode is inserted before the writer is opened, and stays if that fails.
Create(parent, name, flags, fault) ==
    \/ Unresolved(parent)
    \/ /\ Resolves(parent)
       /\ LET path == Join(PathOf(parent), name)
          IN  /\ InsertInode(path)
              /\ SetWriter(path, flags, fault, Attr(NextInode, "file", 0))

Open(node, flags, fault) ==
    \/ Unresolved(node)
    \/ /\ Resolves(node)
       /\ SetWriter(PathOf(node), flags, fault, Ack)
       /\ UNCHANGED tables

\* What close makes of the store: an object store publishes the buffer.
CloseWorks(path) == WriteThrough \/ FileFits(Obj(path))
StoreAfterClose(path) ==
    IF WriteThrough THEN store ELSE Put(Obj(path), File(opened_files_writer[path].buf))

CloseWriter_Dropped(path) == store' = store
CloseWriter(path) == store' = StoreAfterClose(path)

\* do_release_writer: the writer leaves the map only when close succeeded.
Release(node, up) ==
    \/ Unresolved(node)
    \/ /\ Resolves(node)
       /\ PathOf(node) \notin DOMAIN opened_files_writer
       /\ Refuse("EIO")
    \/ /\ Resolves(node)
       /\ LET path == PathOf(node)
          IN  /\ path \in DOMAIN opened_files_writer
              /\ \/ /\ up /\ CloseWorks(path)
                    /\ CloseWriter(path)
                    /\ opened_files_writer' = Unbind(opened_files_writer, path)
                    /\ reply' = Ack
                 \/ /\ ~up \/ ~CloseWorks(path)
                    /\ \/ store' = store
                       \/ CloseWorks(path) /\ CloseWriter(path)
                    /\ reply' = Fail("EIO")
                    /\ UNCHANGED opened_files_writer
       /\ UNCHANGED tables

-----------------------------------------------------------------------------
(* read and write.                                                         *)

\* do_read: everything from offset on, whatever size was asked for; the guest's
\* buffer has room for size bytes.
Read(node, offset, size, up) ==
    \/ Unresolved(node)
    \/ /\ Resolves(node)
       /\ LET path == PathOf(node)
              readable == IsFile(Obj(path)) /\ ~EndsWithSlash(path)
              rest == SubSeq(store[Obj(path)].data, offset + 1, Len(store[Obj(path)].data))
          IN  \/ /\ ~up \/ ~readable
                 /\ Refuse("ENOENT")
              \/ /\ up /\ readable
                 /\ reply' = [Ack EXCEPT !.size = Len(rest),
                                         !.data = SubSeq(rest, 1, Smaller(size, Len(rest)))]
                 /\ UNCHANGED <<opened_files, opened_files_map, opened_files_writer, store>>

OffsetAccepted_AtMost(writer, offset) == offset <= writer.written
OffsetAccepted(writer, offset) == offset = writer.written

\* The writer once the service has taken the chunk, once that is also
\* acknowledged, and once the call failed; the store after the first.
TakenBy(writer, chunk) ==
    [writer EXCEPT !.pos = @ + Len(chunk),
                   !.buf = IF WriteThrough THEN @ ELSE @ \o chunk]
Acknowledged_Uncounted(writer, chunk) == TakenBy(writer, chunk)
Acknowledged(writer, chunk) == [TakenBy(writer, chunk) EXCEPT !.written = @ + Len(chunk)]
Failed_Counted(writer, chunk) == [writer EXCEPT !.written = @ + Len(chunk)]
Failed(writer, chunk) == writer
StoreAfterTake(path, writer, chunk) ==
    LET data == store[Obj(path)].data
    IN  IF ~writer.attached THEN store
        ELSE Put(Obj(path), File(IF writer.append THEN data \o chunk
                                 ELSE Overlay(data, writer.pos, chunk)))

\* Bound: a file and a writer's position stay within MaxSize.
SizeBound(path, writer, chunk) ==
    /\ writer.pos + Len(chunk) <= MaxSize
    /\ writer.attached => Len(store[Obj(path)].data) + Len(chunk) <= 2 * MaxSize

\* do_write: only at the offset reached so far; the count moves on success only.
Write(node, offset, chunk, up) ==
    \/ Unresolved(node)
    \/ /\ Resolves(node)
       /\ PathOf(node) \in DOMAIN opened_files_writer =>
            ~OffsetAccepted(opened_files_writer[PathOf(node)], offset)
       /\ Refuse("EIO")
    \/ /\ Resolves(node)
       /\ LET path == PathOf(node)
              writer == opened_files_writer[path]
          IN  /\ path \in DOMAIN opened_files_writer
              /\ OffsetAccepted(writer, offset)
              /\ SizeBound(path, writer, chunk)
              /\ \/ /\ up
                    /\ store' = StoreAfterTake(path, writer, chunk)
                    /\ opened_files_writer' =
                         Bind(opened_files_writer, path, Acknowledged(writer, chunk))
                    /\ reply' = [Ack EXCEPT !.size = Len(chunk)]
                 \/ /\ ~up
                    /\ \/ /\ store' = store
                          /\ opened_files_writer' =
                               Bind(opened_files_writer, path, Failed(writer, chunk))
                       \/ /\ store' = StoreAfterTake(path, writer, chunk)
                          /\ opened_files_writer' =
                               Bind(opened_files_writer, path, TakenBy(writer, chunk))
                    /\ reply' = Fail("EIO")
       /\ UNCHANGED tables

\* flush, releasedir, fsyncdir, opendir only look the nodeid up.
AckIfResolved(node) ==
    \/ Unresolved(node)
    \/ /\ Resolves(node)
       /\ reply' = Ack
       /\ UNCHANGED <<opened_files, opened_files_map, opened_files_writer, store>>

Flush(node) == AckIfResolved(node)
Opendir(node) == AckIfResolved(node)
Releasedir(node) == AckIfResolved(node)
Fsyncdir(node) == AckIfResolved(node)

-----------------------------------------------------------------------------
(* unlink, rmdir, mkdir, readdir.                                          *)

\* The object is gone for whoever looks it up; writers keep the old file.
Removed(obj) == store' = Unbind(store, obj) /\ opened_files_writer' = Detached(obj)

\* The map forgets the path; the slab and the path's writer stay.
Remove(parent, name, up) ==
    \/ Unresolved(parent)
    \/ /\ Resolves(parent)
       /\ LET path == Join(PathOf(parent), name)
          IN  \/ /\ up /\ Deletable(Obj(path))
                 /\ Removed(Obj(path))
                 /\ opened_files_map' = Unbind(opened_files_map, path)
                 /\ reply' = Ack
                 /\ UNCHANGED opened_files
              \/ /\ ~up \/ ~Deletable(Obj(path))
                 /\ \/ UNCHANGED <<opened_files_writer, store>>
                    \/ Deletable(Obj(path)) /\ Removed(Obj(path))
                 /\ reply' = Fail("ENOENT")
                 /\ UNCHANGED tables

\* unlink and rmdir are the same code: the service decides what it removes.
Unlink(parent, name, up) == Remove(parent, name, up)
Rmdir(parent, name, up) == Remove(parent, name, up)

Mkdir(parent, name, up) ==
    \/ Unresolved(parent)
    \/ /\ Resolves(parent)
       /\ LET path == Join(PathOf(parent), name)
          IN  /\ InsertInode(path)
              /\ \/ /\ up /\ DirFits(Obj(path))
                    /\ store' = Put(Obj(path), Dir)
                    /\ reply' = Attr(NextInode, "dir", 0)
                 \/ /\ ~up \/ ~DirFits(Obj(path))
                    /\ \/ store' = store
                       \/ DirFits(Obj(path)) /\ store' = Put(Obj(path), Dir)
                    /\ reply' = Fail("ENOENT")
       /\ UNCHANGED opened_files_writer

\* The key do_readdir gives an entry: a "/" after the directory's own trailing
\* one, and the name as the service lists it ("d/" for a directory).
EntryKey_NameOnly(path, name) == Append(RootPath, name)
EntryKey(path, name) ==
    LET key == Append(WithSlash(path), name)
    IN  IF IsDir(Append(Obj(path), name)) THEN Append(key, Empty) ELSE key

\* The orders in which the service may list the members of S.
Orders(S) == {f \in [1 .. Cardinality(S) -> S] :
                \A i, j \in 1 .. Cardinality(S) : f[i] = f[j] => i = j}

\* do_readdir: every listed entry without an inode gets one, in listing order.
RegisterEntries(keys) ==
    LET new == keys \ DOMAIN opened_files_map
        n == Cardinality(new)
    IN  /\ n \in 0 .. (MaxInodes - Len(opened_files))
        /\ \E order \in Orders(new) :
             /\ opened_files' = opened_files \o order
             /\ opened_files_map' =
                  [k \in DOMAIN opened_files_map \cup {order[i] : i \in 1 .. n} |->
                     IF k \in DOMAIN opened_files_map THEN opened_files_map[k]
                     ELSE NextInode + (CHOOSE i \in 1 .. n : order[i] = k) - 1]

\* offset only says whether anything is left to list.
PastEnd_OffByOne(offset, count) == offset + 1 >= count
PastEnd_Strict(offset, count) == offset > count
PastEnd(offset, count) == offset >= count

\* The entries are registered before the reply is built.  offset only decides
\* between nothing and everything; room is how many entries the buffer holds.
Readdir(node, offset, room, up) ==
    \/ Unresolved(node)
    \/ /\ Resolves(node)
       /\ LET path == PathOf(node)
              listed == Children(Obj(path))
          IN  \/ /\ ~up \/ IsFile(Obj(path))
                 /\ Refuse("ENOENT")
              \/ /\ up /\ ~IsFile(Obj(path))
                 /\ RegisterEntries({EntryKey(path, name) : name \in listed})
                 /\ reply' = IF PastEnd(offset, Cardinality(listed)) THEN Ack
                             ELSE IF Cardinality(listed) > room THEN Fail("EIO")
                             ELSE [Ack EXCEPT !.entries =
                                    {[obj |-> Append(Obj(path), name),
                                      kind |-> store[Append(Obj(path), name)].kind,
                                      ino |-> opened_files_map'[EntryKey(path, name)]] :
                                        name \in listed}]
                 /\ UNCHANGED <<opened_files_writer, store>>

-----------------------------------------------------------------------------
(* The server process restarts; other users of the service change it.      *)

Restart ==
    /\ opened_files' = <<>>
    /\ opened_files_map' = <<>>
    /\ opened_files_writer' = <<>>
    /\ reply' = Ack
    /\ UNCHANGED store

ExternalPut(obj, data) ==
    /\ FileFits(obj)
    /\ store' = Put(obj, File(data))
    /\ opened_files_writer' = Detached(obj)
    /\ UNCHANGED <<opened_files, opened_files_map, reply>>

ExternalDelete(obj) ==
    /\ obj \in DOMAIN store /\ Deletable(obj)
    /\ Removed(obj)
    /\ UNCHANGED <<opened_files, opened_files_map, reply>>

-----------------------------------------------------------------------------
(* Any client: every nodeid, name and offset, in any order.                *)

Nodeids == 0 .. MaxInodes
Offsets == 0 .. MaxSize
Places == 0 .. MaxEntries
Faults == {"none", "open", "stat", "overtaken"}
Objects == {<<n>> : n \in Names}

Next ==
    \/ \E ok \in BOOLEAN : FuseInit(ok)
    \/ Destroy \/ OversizedRequest \/ UnknownOpcode \/ MalformedName
    \/ \E node \in Nodeids :
         \/ Forget(node) \/ Flush(node)
         \/ Opendir(node) \/ Releasedir(node) \/ Fsyncdir(node)
         \/ \E up \in BOOLEAN :
              \/ Getattr(node, up) \/ Setattr(node, up) \/ Release(node, up)
              \/ \E offset, room \in Places : Readdir(node, offset, room, up)
              \/ \E offset, size \in Offsets : Read(node, offset, size, up)
              \/ \E offset \in Offsets, chunk \in Chunks : Write(node, offset, chunk, up)
              \/ \E name \in Names :
                   \/ Lookup(node, name, up) \/ Mkdir(node, name, up)
                   \/ Unlink(node, name, up) \/ Rmdir(node, name, up)
         \/ \E flags \in FlagSets, fault \in Faults :
              \/ Open(node, flags, fault)
              \/ \E name \in Names : Create(node, name, flags, fault)
    \/ Restart
    \/ \E obj \in Objects : ExternalDelete(obj) \/ \E data \in Chunks : ExternalPut(obj, data)

Spec == Init /\ [][Next]_vars

-----------------------------------------------------------------------------
(* What the tables promise, whatever the clients do.                       *)

(* The two inode tables agree: the nodeid the map holds for a path is in the
   slab and resolves to that same path, so a handler that finds an inode in
   the map (lookup, readdir) never returns the nodeid of another path. *)
MapSlabCoherent ==
    \A path \in DOMAIN opened_files_map :
        /\ Resolves(opened_files_map[path])
        /\ PathOf(opened_files_map[path]) = path

(* From the first init on, nodeid 1, which the guest uses for the root without
   asking, is "/" in both tables, also after a second init and although the
   slab chooses the keys itself. *)
RootResolves ==
    opened_files # <<>> =>
        /\ Resolves(RootInode) /\ PathOf(RootInode) = RootPath
        /\ RootPath \in DOMAIN opened_files_map
        /\ opened_files_map[RootPath] = RootInode

(* No writer is out of reach: some nodeid resolves to the path it is kept
   under, so a release can close it, even after the path was unlinked, made
   again or listed under another string. *)
WritersReleasable ==
    \A path \in DOMAIN opened_files_writer :
        \E node \in 0 .. (Len(opened_files) - 1) : PathOf(node) = path

NotAhead(writer) == (writer.append => writer.attached) => writer.written <= writer.pos

(* The server never counts more bytes of a writer than the service has taken,
   whatever fails on the way: an offset it accepts is never past the data.  Only a
   writer that appends to a file that was replaced may be ahead: its count may be
   the length of the new file. *)
CountNeverAhead ==
    \A path \in DOMAIN opened_files_writer : NotAhead(opened_files_writer[path])

(* Each inode a directory listing shows resolves to a path of the object listed,
   although do_readdir builds other path strings than lookup does. *)
EntriesResolve ==
    [][\A e \in reply'.entries : Resolves(e.ino)' /\ Obj(opened_files'[e.ino + 1]) = e.obj]_vars

Keeps(old, new) == Len(old) <= Len(new) /\ \A i \in 1 .. Len(old) : new[i] = old[i]

(* A nodeid given out once means the same path until the server restarts: no
   handler removes or rewrites a slab entry, forget and unlink included. *)
NodeidStable ==
    [][Keeps(opened_files, opened_files') \/ opened_files' = <<>>]_vars

InodesInMap == {opened_files_map[path] : path \in DOMAIN opened_files_map}

(* A nodeid that has left the map (its path was unlinked or made anew) is never
   put back: the next file of that name gets a nodeid of its own, so the guest's
   dead inode and the new file are told apart. *)
RetiredStaysRetired ==
    [][\A node \in 0 .. (Len(opened_files) - 1) :
         node \notin InodesInMap => node \notin InodesInMap' \/ opened_files' = <<>>]_vars

=============================================================================
