------------------------------- MODULE Guest --------------------------------
(***************************************************************************)
(* The server of module Filesystem driven by a guest kernel.               *)
(*                                                                         *)
(* The kernel (external: the FUSE client of the VM) only sends nodeids it  *)
(* was given: the root's, and those that lookup, create and mkdir returned *)
(* and that it has not forgotten.  It opens files through handles, but the *)
(* server is told, and keeps, nothing about handles: its writers are kept  *)
(* by path.  Several handles, crashes of the server, failures of the       *)
(* service and other users of the service interleave freely.               *)
(***************************************************************************)
EXTENDS Filesystem

CONSTANT Handles     \* file handles of the guest's processes

VARIABLES
    known,    \* nodeid |-> the names that lead to it, and its kind
    handles   \* handle |-> its session, a partial function

gvars == <<opened_files, opened_files_map, opened_files_writer, store, reply,
           known, handles>>

\* rivals: who else has touched the object since a writing session was opened on
\* it; "writers" also stands for an unlink, an outside change, a restart, and a
\* request of its own that the service failed.
\* expect: what the session's acknowledged writes should amount to, as long as
\* it has no rival writers.
Sessions == [node : Nat, path : Paths, write : BOOLEAN, expect : Seq(Nat),
             rivals : {"none", "readers", "writers"}]

Mounted == RootInode \in DOMAIN known

\* The path string the server should have for a nodeid the guest knows.
KnownPath(node) == RootPath \o known[node].names

GuestTypeOK ==
    /\ TypeOK
    /\ known \in [DOMAIN known -> [names : Seq(Names), kind : {"file", "dir"}]]
    /\ DOMAIN known \subseteq Nat
    /\ handles \in [DOMAIN handles -> Sessions]

GuestInit == Init /\ known = <<>> /\ handles = <<>>

-----------------------------------------------------------------------------

KnownDirs == {n \in DOMAIN known : known[n].kind = "dir"}
KnownFiles == {n \in DOMAIN known : known[n].kind = "file"}

\* The guest learns the nodeid of a reply that carries an entry.
Learn(parent, name) ==
    known' = IF reply'.error = "OK"
             THEN Bind(known, reply'.ino,
                       [names |-> Append(known[parent].names, name), kind |-> reply'.kind])
             ELSE known

Disturb(session) == [session EXCEPT !.rivals = "writers", !.expect = <<>>]

\* Sessions on obj once somebody else has changed it.
Disturbed(obj) ==
    [h \in DOMAIN handles |->
        IF Obj(handles[h].path) = obj THEN Disturb(handles[h]) ELSE handles[h]]

\* Sessions on obj once somebody else has opened it for reading.
Watched(obj) ==
    [h \in DOMAIN handles |->
        IF Obj(handles[h].path) = obj /\ handles[h].rivals = "none"
        THEN [handles[h] EXCEPT !.rivals = "readers"] ELSE handles[h]]

InUse(obj) == \E h \in DOMAIN handles : Obj(handles[h].path) = obj
InUseByWriter(obj) == \E h \in DOMAIN handles : Obj(handles[h].path) = obj /\ handles[h].write

Session(node, path, write, rivals, expect) ==
    [node |-> node, path |-> path, write |-> write, rivals |-> rivals, expect |-> expect]

\* Handle h opened on path: it starts from what the server starts from, unless
\* the file was replaced while it was opened.
OpenedForWriting(h, node, path, append, fault) ==
    LET obj == Obj(path)
    IN  Bind(Disturbed(obj), h,
             IF InUseByWriter(obj) \/ (append /\ fault = "overtaken")
             THEN Session(node, path, TRUE, "writers", <<>>)
             ELSE Session(node, path, TRUE, IF InUse(obj) THEN "readers" ELSE "none",
                          OpenedData(obj, append)))

OpenedForReading(h, node, path) ==
    Bind(Watched(Obj(path)), h, Session(node, path, FALSE, "writers", <<>>))

Opened(h, node, path, flags, fault) ==
    IF IsWrite(flags) THEN OpenedForWriting(h, node, path, IsAppend(flags), fault)
    ELSE OpenedForReading(h, node, path)

Mount ==
    /\ ~Mounted /\ handles = <<>>
    /\ FuseInit(TRUE)
    /\ known' = [n \in {RootInode} |-> [names |-> <<>>, kind |-> "dir"]]
    /\ UNCHANGED handles

Unmount ==
    /\ Mounted /\ handles = <<>>
    /\ Destroy
    /\ known' = <<>>
    /\ UNCHANGED handles

GuestForget(node) ==
    /\ node # RootInode
    /\ \A h \in DOMAIN handles : handles[h].node # node
    /\ Forget(node)
    /\ known' = Unbind(known, node)
    /\ UNCHANGED handles

GuestLookup(parent, name, up) ==
    /\ Lookup(parent, name, up)
    /\ Learn(parent, name)
    /\ UNCHANGED handles

\* A SETATTR is the same step.
GuestGetattr(node, up) ==
    /\ Getattr(node, up)
    /\ UNCHANGED <<known, handles>>

GuestMkdir(parent, name, up) ==
    /\ Mkdir(parent, name, up)
    /\ Learn(parent, name)
    /\ handles' = Disturbed(Obj(Append(KnownPath(parent), name)))

\* An RMDIR is the same step.
GuestRemove(parent, name, up) ==
    /\ Unlink(parent, name, up)
    /\ handles' = Disturbed(Obj(Append(KnownPath(parent), name)))
    /\ UNCHANGED known

\* OPENDIR, RELEASEDIR and FSYNCDIR are the same step.
GuestReaddir(node, offset, room, up) ==
    /\ Opendir(node) \/ Readdir(node, offset, room, up)
    /\ UNCHANGED <<known, handles>>

GuestCreate(h, parent, name, flags, fault) ==
    /\ h \notin DOMAIN handles
    /\ Create(parent, name, flags \cup {"O_CREAT"}, fault)
    /\ Learn(parent, name)
    /\ LET path == Append(KnownPath(parent), name)
       IN  handles' = IF reply'.error = "OK" THEN Opened(h, reply'.ino, path, flags, fault)
                      ELSE Disturbed(Obj(path))

GuestOpen(h, node, flags, fault) ==
    /\ h \notin DOMAIN handles
    /\ Open(node, flags, fault)
    /\ handles' = IF reply'.error = "OK" THEN Opened(h, node, KnownPath(node), flags, fault)
                  ELSE Disturbed(Obj(KnownPath(node)))
    /\ UNCHANGED known

\* The session once a write of its own was acknowledged.
Extended(session, offset, chunk) == [session EXCEPT !.expect = Overlay(@, offset, chunk)]

\* A refused write leaves the expectation alone; if the service may have taken
\* the data all the same, the session can no longer be sure of its file.
GuestWrite(h, offset, chunk, up) ==
    /\ handles[h].write
    /\ Write(handles[h].node, offset, chunk, up)
    /\ handles' = [handles EXCEPT ![h] =
         IF reply'.error = "OK" /\ @.rivals # "writers"
         THEN Extended(@, offset, chunk)
         ELSE IF up THEN @ ELSE Disturb(@)]
    /\ UNCHANGED known

GuestRead(h, offset, size, up) ==
    /\ Read(handles[h].node, offset, size, up)
    /\ UNCHANGED <<known, handles>>

\* close(2) sends flush, whose result the process sees ...
GuestFlush(h) ==
    /\ Flush(handles[h].node)
    /\ UNCHANGED <<known, handles>>

\* ... and the last reference sends release: the handle is gone whatever the reply.
GuestRelease(h, up) ==
    /\ Release(handles[h].node, up)
    /\ handles' = Unbind(handles, h)
    /\ UNCHANGED known

ServerRestart ==
    /\ Restart
    /\ handles' = [h \in DOMAIN handles |-> Disturb(handles[h])]
    /\ UNCHANGED known

OutsideChange(obj) ==
    /\ ExternalDelete(obj) \/ \E data \in Chunks : ExternalPut(obj, data)
    /\ handles' = Disturbed(obj)
    /\ UNCHANGED known

GuestNext ==
    \/ Mount \/ Unmount \/ ServerRestart
    \/ \E obj \in Objects : OutsideChange(obj)
    \/ \E node \in DOMAIN known : GuestForget(node)
    \/ \E node \in DOMAIN known, up \in BOOLEAN : GuestGetattr(node, up)
    \/ \E parent \in KnownDirs, name \in Names, up \in BOOLEAN :
         GuestLookup(parent, name, up) \/ GuestMkdir(parent, name, up) \/ GuestRemove(parent, name, up)
    \/ \E node \in KnownDirs, offset, room \in Places, up \in BOOLEAN :
         GuestReaddir(node, offset, room, up)
    \/ \E h \in Handles, flags \in FlagSets, fault \in Faults :
         \/ \E node \in KnownFiles : GuestOpen(h, node, flags, fault)
         \/ \E parent \in KnownDirs, name \in Names : GuestCreate(h, parent, name, flags, fault)
    \/ \E h \in DOMAIN handles, up \in BOOLEAN :
         \/ \E offset \in Offsets, chunk \in Chunks : GuestWrite(h, offset, chunk, up)
         \/ GuestRead(h, 0, MaxSize, up) \/ GuestRelease(h, up)
    \/ \E h \in DOMAIN handles : GuestFlush(h)

GuestSpec == GuestInit /\ [][GuestNext]_gvars

-----------------------------------------------------------------------------
(* What the guest can rely on.                                             *)

(* A nodeid the guest was given leads to the object it was given for, through
   any history of unlinks, renewed creates, failed creates, listings, forgets
   and remounts: the server has the very path string the guest's names make, or,
   after a crash and before the next mount, nothing at all. *)
KnownResolves ==
    \A node \in DOMAIN known :
        opened_files = <<>> \/ (Resolves(node) /\ PathOf(node) = KnownPath(node))

\* The server's writer for the session's path is the session's own.
OwnWriter(s) ==
    LET w == opened_files_writer[s.path]
    IN  /\ s.path \in DOMAIN opened_files_writer
        /\ w.written = Len(s.expect) /\ w.pos = Len(s.expect)
        /\ IF WriteThrough THEN w.attached /\ store[Obj(s.path)] = File(s.expect)
           ELSE w.buf = s.expect

(* While a writing session is the only user of its object, the server's writer
   for its path is its own: the count the server checks offsets against is the
   length the guest has written, and what is stored, or on an object store what
   close will publish, is exactly what was acknowledged. *)
SoleSession ==
    \A h \in DOMAIN handles : handles[h].rivals = "none" => OwnWriter(handles[h])

(* The same for a session whose only rivals are readers: the guest's read and
   write requests on one file, from a writer and from readers, are all handled
   correctly. *)
SoleWriter ==
    \A h \in DOMAIN handles : handles[h].rivals # "writers" => OwnWriter(handles[h])

(* A sole session that is released with success leaves exactly what it was
   acknowledged to have written: nothing lost, doubled or reordered, across
   refused writes at wrong offsets and whatever happens to other objects. *)
SoleDurable ==
    [][\A h \in DOMAIN handles :
         handles[h].rivals = "none" /\ h \notin DOMAIN handles' /\ reply'.error = "OK" =>
           /\ Obj(handles[h].path) \in DOMAIN store'
           /\ store'[Obj(handles[h].path)] = File(handles[h].expect)]_gvars

=============================================================================
