# OVFS in TLA+

OVFS serves a directory of a storage service (S3, a local file system, ...)
to a virtual machine. The guest kernel's FUSE client puts requests on a virtio
queue; a vhost-user worker takes them off, a handler turns each into calls of
OpenDAL and writes the reply back. This directory holds a TLA+ model of the
program, the TLC runs that check it on small instances, and TLAPS proofs for
every instance.

## Inventory

| Part | State | Operations | Modelled by |
| --- | --- | --- | --- |
| Inode tables (`src/src/filesystem.rs`) | `opened_files`: slab of paths, the key is the FUSE nodeid; `opened_files_map`: path string to nodeid | init, lookup, getattr, create, mkdir, readdir insert; unlink, rmdir remove from the map only; forget does nothing | `Filesystem` |
| Writer table (`filesystem.rs`) | `opened_files_writer`: path string to an OpenDAL writer and the bytes counted so far | `do_set_writer`, `do_write`, `do_release_writer` | `Filesystem` |
| Request handlers (`filesystem.rs`) | none of their own | `handle_message` and 19 opcodes | `Filesystem` |
| Storage service (OpenDAL, external) | objects: files and directories | stat, list, create_dir, delete, read, writer, close; other users change it at any time | `Filesystem` |
| Guest kernel (external) | known nodeids, file handles, a directory stream, a process's file | sends the requests | `Guest`, `DirectoryStream`, `FileUser` |
| Queue worker (`main.rs`) | the vrings, their eventfds and notification indices | `handle_event`, `handle_event_serial`, `process_queue_serial`, `return_descriptor` | `VhostQueue` |
| Virtio driver of the guest (external) | the other end of the rings | publish, kick, interrupt, reap | `VhostQueue` |
| Process and backend callbacks (`main.rs`) | `VhostUserFsThread` behind an `RwLock`, the kill eventfd | `main`, `set_event_idx`, `update_memory`, `set_backend_req_fd`, `exit_event`, `handle_event` | `Daemon` |
| vhost-user-backend crate, front-end (external) | the socket's thread, the event loop, the vring's `Mutex`, the guest memory | messages, kicks, exit | `Daemon` |
| Descriptor chains (`util.rs`, `buffer.rs`) | slices of guest memory, bytes consumed | `consume`, `split_at`, `Reader`, `Writer`, `BufferWrapper` | `DescriptorChain`, `ChainCalls` |
| Message formats (`filesystem_message.rs`) | none | sizes of the records, the opcodes, what each handler reads and writes | `Exchange` |
| Error conversion (`error.rs`), argument parsing | none | | not modelled |

How they interact. The worker is one thread (the vhost crate's default gives
every queue to one thread) and each handler blocks on its OpenDAL calls, so
requests are handled one at a time, in queue order. What interleaves is
therefore not two handlers but requests of *different guest handles*, changes
by *other users* of the storage, *failing* service calls (which may have taken
effect all the same), and *restarts* of the server, which loses its tables. The
worker itself runs beside the guest's driver, with which it shares the rings, and
beside the thread of the vhost-user socket, which changes its settings and its
memory.

What is hard in this code, and what would make it correct:

- Nodeids are slab keys that are never freed, paths are strings, and different
  handlers build different strings for one object (`"//a"` by lookup,
  `"//a/"` for a listed directory). Correct: the tables agree, a nodeid never
  changes its meaning, the root keeps nodeid 1, every nodeid leads to the object
  it was handed out for.
- Writers are kept by path although the protocol works by handle. Correct: a
  session that is alone on its object owns the writer, its acknowledged bytes
  are what is stored after release, and no writer gets out of reach.
- Tables are changed before the service call (create, mkdir) or after it
  (unlink, release, write), and that call may fail. Correct: counts and tables
  stay consistent with what the service did.
- `flush` is acknowledged without doing anything.
- The worker and the guest's driver run concurrently and tell each other through
  eventfds which the other side may have asked not to be used. Correct: no kick
  and no interrupt is lost, each request is returned at most once, in order, and
  is answered in the end.
- Requests and replies lie in slices of guest memory that the guest cuts as it
  likes; the code splits reply areas, writes data before headers and computes
  lengths instead of counting them. Correct: slices are invisible to a handler,
  nothing else is written to, and what is returned is a whole reply.
- Directory offsets, truncation and the mode of an open are part of requests, and
  the code looks at little of them. Correct: a process sees what POSIX says.
- Settings and memory change under a lock the worker holds for whole batches.
  Correct: a batch never sees them change, memory is there before the guest uses
  it, nobody waits for ever, and the process ends when its front-end goes.

The complete list, line by line, is under `hazards` in `PROJECT.json`.

## Modules

`Filesystem.tla` models the whole of `filesystem.rs`: the three tables, the
storage service (`store`) and the last reply. One action is one handler, with
the service calls it makes; `up`/`fault` say whether those calls succeed.
A failed call of delete, create_dir, close or write may or may not have taken
effect. Opening a file to append to it makes two service calls, `writer_with` and then
`stat` for the length; `SetWriter` has what can happen between them: the second call
fails, or (`fault` "overtaken") another user replaces the file, so that the count is of
a file the writer does not write to (`Overtaken`). Between two requests other users put
and delete objects (`ExternalPut`, `ExternalDelete`); an open writer of such an object
is detached from it. They are not modelled to change a file in place. `Next` lets *any* client send *any* request with any nodeid, so what
holds here depends on no good behaviour of the guest.

| Code | Model |
| --- | --- |
| `Slab::insert`, never removed from, used by one thread | keys are the positions of a sequence: nodeid `i` is `opened_files[i + 1]` |
| `opened_files_map`, `opened_files_writer` | partial functions on path strings |
| a path string | the sequence of its segments between slashes, `Empty` for an empty one: `format!("{}/{}", ..)` appends a segment, `"/"` is `<<Empty, Empty>>` |
| OpenDAL's normalisation of a path | `Obj`: the empty segments are dropped |
| `InnerWriter { writer, written }` | `Writers`: `written` is the server's count; `pos`, `append`, `attached`, `buf` are what the OpenDAL writer holds |
| `services-fs` / `services-s3` | `WriteThrough`: data is visible when written / published by close |
| `reply_ok`, `reply_error` | `reply`; nothing reads it |
| `do_get_metadata` | `GetMetadata`, with `FindOrInsertInode` |
| `check_flags`, `do_set_writer` | `CheckFlags`, `SetWriter` |
| `do_release_writer` | `Release`, `CloseWriter` |
| `do_write` | `Write`, with `OffsetAccepted`, `Acknowledged`, `Failed` |
| `do_readdir` | `EntryKey`, `RegisterEntries`, `Readdir` |

`Guest.tla` extends it with a guest kernel: it only uses nodeids it was given
and has not forgotten, opens files through handles, and sends flush and release
when they are closed. `known` is what it was told; a session in `handles`
records, for the properties only, what its acknowledged writes should amount to
and who else touched the object meanwhile; a session somebody else disturbed, a failed
call included, is promised nothing. A handle reads whole files, with one buffer size,
and of requests the server answers by one and the same step (RMDIR as UNLINK, SETATTR as
GETATTR, RELEASEDIR and FSYNCDIR as OPENDIR) one is sent.
It may `CREATE` a name that exists (a
kernel would look it up first), which only adds behaviour.

`VhostQueue.tla` models the vring worker of `main.rs` together with the guest's
virtio driver. Only here do two parties really run at once, so every access to
shared memory is a step: the worker takes the kick (`HandleEvent`), collects the
chains available (`CollectChains`), handles and returns them one by one
(`HandleMessage`, `SignalUsed`), asks to be kicked again and looks whether a
request came before that (`EnableNotification`, `Recheck`). Requests of a queue
are numbered in the order of the ring. `event_idx` is what `set_event_idx` set, either way:
without it the driver kicks and the worker signals every time, and the event is
handled after one batch. `WorkerDies` is an error that leaves the loop through
`?` (no memory, a bad ring) or a panicking `unwrap`; both end the worker and are
possible only where `MayFail`. Where `MayDrop`, `add_used` may fail, which the
worker only logs: it goes on to the notification with a used ring that has not
moved; and with event-idx `needs_notification` may fail, upon which the worker signals
in any case (`SignalUsed`). The driver holds the queue's lock from adding a request to deciding its
kick, as Linux does. The handler's work is opaque here: it is one action of
`Filesystem`, which touches no state of the rings.

`RequestService.tla` is what a driver may expect of all this, without rings,
notifications or a worker: requests are submitted, and answered in order.
`ServesRequests` states that `VhostQueue` implements it, with the requests
published as those submitted and the used entries the driver has seen as those
answered; `AnswersOnly` states it without the liveness, and so also of a worker
that fails or dies.

`DescriptorChain.tla` models the `Reader` and the `Writer` of a request and the
copies of `BufferWrapper`. Guest memory is a function from addresses to words, a
slice an address and a length, a consumer the slices left and the words consumed.
`consume` first picks whole slices (`Picked`), lets a callback copy (`CopyLens`,
`VectoredLens`, which stops at an empty slice, or all of them for `read_to_at`) and
then drops what was moved (`Advance`); `split_at` is `Kept` and `Advance`. The code's
loops over a deque are closed forms here: the slices before the point where the
running length reaches a count. A sum of lengths is the number of the words in
slices of these lengths (`Sum`, `WordsIn`), the contents of a chain are given word by
word (`Cells`: the slice a position falls into and the place in it), and the object a path names (`Obj`) is
given by the rank of each name among the others; none is a recursion, so that
they can be reasoned about for sequences of any length.

`ChainCalls.tla` makes any sequence of such calls; `FlatBuffer.tla` says what they
should amount to when nobody knows of slices: one run of words to take from, one to
write to, the latter split in two at most once. `ActsAsFlat` states that the former
implements the latter, with the contents of the slices in chain order as the runs.

`Exchange.tla` is one request on such a chain: `handle_message` and every handler as
the reads and writes they make, with record sizes in words of eight bytes. What a
handler does to the tables is left to `Filesystem`; here its outcome, success or
error, is chosen. Reads that run short and header writes that do not fit end the
worker (`Dies`), as the `unwrap` in `process_queue_serial` does. `Kernel` (external)
gives what a Linux guest sends and the room it leaves for the reply. A name counts
as one word; `Truncated` chains may be shorter than their headers say.

`DirectoryStream.tla` and `FileUser.tla` put a process of the guest in front of
`Filesystem`, each using its handlers as they are. The first lists the root
directory with a buffer of up to `Capacity` entries while others change it; the kernel
asks for the entries behind its position and takes the offset of the last entry it
could pass on as its new position. The second uses one file by POSIX calls, which
the kernel turns into lookup, create, open, setattr, write, read, flush and release,
and keeps beside it the contents POSIX prescribes. A failed call leaves them in doubt
(`sure` is FALSE) until the process removes the file or makes it anew, by creating or
truncating it on opening, with success; the inodes and the writer the failure may have
left are still there then, and the properties hold again.

`Daemon.tla` is the process: the main thread from the start of the daemon to the
kill event, the socket's thread with the backend's callbacks, and the worker with
`handle_event`. The two service threads are those of the vhost-user-backend crate
and are modelled from how `main.rs` is called by them. The `RwLock` lets no new
reader in while a writer waits, as the one of Rust's standard library on Linux does;
a guard that is dropped in a panic poisons it only if it was a write guard, while
the vring's `Mutex` is always poisoned. A message first changes the vring, under its
`Mutex`, or the shared memory, then asks for the `RwLock` (`AskLock`) and calls back,
then is answered. Event-idx is thus kept three times: by the vring, which goes by it for
the event fields (`ring.event_idx`), by the `VhostUserFsThread`, for the notification of
each reply, and by a running `handle_event_serial`, for its loop (`worker.event_idx`).
The kill event may fail to be written, which main only logs; cloning its eventfd at
start-up is taken to work. The front-end follows the protocol:
memory before start, features only while the ring is stopped, and its guest uses a
region of memory only once it was acknowledged.

`MC*.tla` are the roots of the runs (`Daemon` needs none). A behaviour of `MCFileUser`
is on a local file system or on an object store (`service`), the latter an INSTANCE
of the same module with the other constants.
The `*Proofs.tla` hold the theorems: `FilesystemProofs` and, above it,
`GuestProofs`, `StreamProofs` and `UserProofs`; `VhostQueueProofs`; `DaemonProofs`;
`ChainProofs` and, above it, `ExchangeProofs`.

Abstracted: times, modes and owners in attributes; in `Filesystem` the bytes of
requests and replies and how many bytes an entry takes (`room` is the number of
entries the buffer holds), in `Exchange` the values of the fields. The local file system is
taken to have data when a write is acknowledged. An object store's directories
are taken to be marker objects that can be deleted when empty.

## Runs

All runs pass but the two marked as violations. The `VIEW` of the cfgs of
`MCFilesystem` and `MCGuest` leaves out `reply`: no
action reads it and no invariant but `reply.error`'s type mentions it, and TLC
evaluates action properties on every step before states are merged.

| Run | States | Checks |
| --- | --- | --- |
| `server` | 56,229 | any client: `TypeOK`, `MapSlabCoherent`, `RootResolves`, `WritersReleasable`, `NodeidStable`, `RetiredStaysRetired`, `EntriesResolve` |
| `guest_fs` | 291,612 | kernel client, write-through service, two handles: `GuestTypeOK`, `KnownResolves`, `SoleSession`, `CountNeverAhead`, `SoleDurable` |
| `guest_s3` | 88,579 | the same on an object store: `SoleSession`, `SoleDurable` |
| `reader_close` | violation | `SoleWriter`: see Findings |
| `queue_service` | 102,678 | two queues, with and without event-idx: `ServesRequests` |
| `queue_death` | 128,114 | indices wrap, `add_used` and `needs_notification` may fail, the worker may die: `QueueTypeOK`, `ReturnedInOrder`, `NoLostKick`, `NoLostInterrupt`, `AnswersOnly` |
| `chain` | 21,221 | any calls on any chain: `NoStrayWrite`, `ActsAsFlat` |
| `exchange` | 43,898 | every request, cut anywhere or truncated: `Survives`, `ReplyInPlace`, `ReplyComplete`, `PayloadExact` |
| `read_overrun` | violation | `ReplyInPlace` for a read of a longer file: see Findings |
| `readdir_stream` | 461,897 | buffers of one and two entries, others change the directory: `ListsAll`, `ListsOnce`, `ListingEnds` |
| `user` | 222,398 | sessions on a local file system and on an object store: `StoredAsPosix`, `ReadsBack` |
| `daemon` | 38,810 | three threads, with panics: `MemoryCovers`, `OneRule`, `MainSurvives`, `ControlAnswers`, `ShutsDown`, no deadlock |

Bounds. `MaxInodes` 4 leaves, after the two entries of init, room for two more: an
unlink and a new create of one name, the same object under lookup's and readdir's
strings, a second init, a directory with an entry in it. `server` has two names, so
that files lie beside and below each other, listings of no and of one entry with
offsets at and below their number and buffers that hold all or too few, and files of
one byte. In the guest runs `MaxSize` 2 with one-byte chunks has a first write, a
second one, a repeated and a gapped offset, and an append to existing data and to a
file that is replaced by a longer or a shorter one; two
handles give every pair of openings on one file, and readdir, whose offset and room
only decide its reply, has `MaxEntries` 0. The bounds only limit TLC: the theorems
hold for all their values.

Symmetry is used for handles only; no property distinguishes them.

A ring of `QueueSize` 2 can be empty, partly used and full; `IndexMod` 4 is the
smallest index width that can tell these apart, and the 9 requests of `queue_death`
wrap it twice. In `queue_service` two requests on each of two queues are enough for a
batch of two on one queue while the other is kicked, and for a request that arrives
between a batch and `enable_notification`. The queue runs do not check deadlock: when
the guest has no more requests everything rests.

Chains of up to three slices and five words, empty slices among them, let a call end
inside a slice, at its border and behind the last one, and a split fall on each of
these; calls of up to three words span two borders. `exchange` cuts request and reply
once, anywhere, or ends them anywhere (`Truncated`). The sizes 4 and 8 are a directory
of one and of two entries, so that a listing of three fails after entries were
written; `MaxLen` 16 refuses the write of 8 words and takes all other requests. In
`exchange` no file goes on behind what a read asks for (`Rests`); that case is
`read_overrun`. Two names and three changes give a directory that grows,
shrinks and does both between two answers. Four sessions are: make a file, fail to
change it, make it anew, look at it; `MaxInodes` 6 is enough for the inodes of all. In `daemon` a second region of memory can be added while requests
of the first are served, and three requests keep the worker in its loop for a second
round with one more to come.

Fairness. In `VhostQueue`, for `ServesRequests`: the worker thread goes on whenever
it can (`WF` of its steps); an eventfd that is readable stays so and epoll reports it
(`WF` of `HandleEvent` for each queue); the guest finishes a kick it started and runs
its interrupt handler. Nothing obliges a guest to make requests. The claim is for a
worker that lives (`MayFail` is FALSE in that run) and for finitely many requests: a
guest that publishes for ever on one queue can keep the worker in the loop of
`handle_event_serial`. In `Daemon`, for `ControlAnswers` and `ShutsDown`: each of the
three threads goes on whenever its lock lets it. `ControlAnswers` is a claim for
finitely many requests: while a guest adds requests without end, the loop of
`handle_event_serial` can keep every callback, and with it the front-end's answer, out
for ever. Nothing obliges a front-end to
connect, send or go. In `DirectoryStream`, for `ListingEnds`: a process that opened a
directory reads on. No fairness or liveness is stated of `Filesystem`: a handler always
replies by construction of a serial server.

### Mutants

A definition named `X_Variant` is a faulty version of the `X` that follows it,
as a slip in the code could have it: a slab that reuses keys, one root entry
instead of two, a count that moves when the write failed, `<=` for `=` in the
offset check, a close that does not publish, and so on. No action uses them;
`PROJECT.json` says which property each of them must break.

### Findings

- `reader_close`: `do_release_writer` is keyed by path. A guest that has a file
  open for writing through one handle and for reading through another loses the
  writer when the reader is closed; the next write is answered with EIO.
- `read_overrun`: `read` ignores the size asked for. It copies what fits of the rest
  of the file, but header and used length count all of it.

### Known limits

The passing runs state what the program does promise. What follows is outside it, in the
properties' own conditions or in the constants, and worth knowing before one relies on
them:

- Nothing is stated of `flush`: it is acknowledged without a look at the writer. When the
  service publishes on close, nothing is stored then, while the proposal's table promises
  flush/fsync for object storage; `SoleDurable` is about the release.
- `readdir` uses its offset only to see the end and otherwise sends the listing from the
  start. A process whose buffer is smaller than the directory gets the first entries
  again and again: the listing does not end (`ListingEnds` is for a directory that comes
  to fit), names are repeated (`ListsOnce`) and, if others are removed meanwhile, missing
  at its end (`ListsAll`).
- `StoredAsPosix` and `ReadsBack` need `Modes` without "r+": opening an existing file for
  reading and writing, without appending, starts a new object. They also need
  `MayTruncate` to be FALSE: `setattr` is acknowledged and does nothing, so a file that is
  truncated while open keeps its contents. (Opening with O_TRUNC works, because any
  opening for writing empties the file.)
- `CountNeverAhead` exempts a writer that appends to a file another user replaced while,
  or after, it was opened: its count may be the length of the new file.
- A write that failed although the service took it, and is retried, stores its bytes
  twice: the properties about sessions exempt a session with a failed call, and
  `CountNeverAhead` only says that the count is not ahead of the data.
- `ActsAsFlat` lets a call take more than was asked for and fall short: `read_to_at` takes
  whole slices, and the copies stop at an empty one. `PayloadExact` and `ReplyInPlace` rest
  on the kernel's chains, whose slices end with the payload and are not empty.
- On an object store `user` leaves appending out, which the service refuses.

## Proofs

The theorems hold for all values of the constants that satisfy the assumptions of
the modules: of `Filesystem` (the empty segment is no name; payloads are sequences of
numbers; bounds are naturals; appending implies a write-through service that can
write) and of the modules above it, of `VhostQueue` (sizes are positive and an index
can count two rings, the flags are Booleans), `Daemon`, `ChainCalls` and `Exchange` (types only).
Some have a hypothesis of their own, which the code needs:

- `IsFiniteSet(Names)`: a name is at most 255 bytes long, so there are finitely many;
- `Modes` without "r+" and no truncation for the theorems of `UserProofs`: without them
  the properties are false (Known limits);
- `MaxLen >= SizeInHeader + 1` for `WorkerSurvives`: a FORGET comes without room for a
  reply, so it must not be refused as too long. The code's `MAX_BUFFER_SIZE` is a
  megabyte;
- no file holds more behind an offset than a READ asks for (`rest <= size` for `Rests`
  and `Sizes`) for `ReplyIsInPlace`: a longer one overruns, which is the finding of
  `read_overrun`.

| Module | Theorem | Statement |
| --- | --- | --- |
| `FilesystemProofs` | `TablesCoherent` | `Spec => [](MapSlabCoherent /\ RootResolves)` |
| | `RootKept` | `Spec => []RootResolves` |
| | `NodeidsStable` | `Spec => NodeidStable` |
| | `RetiredNodeids` | `Spec => RetiredStaysRetired` |
| | `TypeCorrect` | `Spec => []TypeOK` |
| | `CountsTakenBytes` | `Spec => []CountNeverAhead` |
| | `WritersInReach` | `Spec => []WritersReleasable` |
| | `ListedInodesResolve` | `Spec => EntriesResolve` |
| `GuestProofs` | `GuestTypeCorrect` | `GuestSpec => []GuestTypeOK` |
| | `KnownNodeids` | `GuestSpec => []KnownResolves` |
| | `SoleSessionsOwn` | `GuestSpec => []SoleSession` |
| | `ReleasedIsStored` | `GuestSpec => SoleDurable` |
| `StreamProofs` | `ListingComplete` | `StreamSpec => []ListsAll` |
| | `ListingOnce` | `StreamSpec => []ListsOnce` |
| `UserProofs` | `SessionsAddUp` | `UserSpec => []StoredAsPosix` |
| | `ReadsWhatWasWritten` | `UserSpec => []ReadsBack` |
| `VhostQueueProofs` | `ReturnedOnce` | `QueueSpec => []ReturnedInOrder` |
| | `QueueTypesHold` | `QueueSpec => []QueueTypeOK` |
| | `NoKickLost` | `QueueSpec => []NoLostKick` |
| | `NoInterruptLost` | `QueueSpec => []NoLostInterrupt` |
| | `QueueImplementsService` | `QueueSpec => AnswersOnly` |
| `DaemonProofs` | `BatchSeesItsMemory` | `DaemonSpec => []MemoryCovers` |
| | `BatchHasOneRule` | `DaemonSpec => []OneRule` |
| | `PanicIsContained` | `DaemonSpec => []MainSurvives` |
| `ChainProofs` | `WritesStayInside` | `ChainSpec => []NoStrayWrite` |
| | `ChainActsAsFlat` | `ChainSpec => ActsAsFlat` |
| `ExchangeProofs` | `WorkerSurvives` | `ExchangeSpec => []Survives` |
| | `RepliesStayInside` | `ExchangeSpec => []NoStrayWrite` |
| | `PayloadIsExact` | `ExchangeSpec => []PayloadExact` |
| | `ReplyIsComplete` | `ExchangeSpec => []ReplyComplete` |
| | `ReplyIsInPlace` | `ExchangeSpec => []ReplyInPlace` |

The arguments.

*The tables.* All handlers change the inode tables in six ways only: not at
all, insert one path, insert the two root entries, insert the keys of a listing,
forget a path, or empty everything. `StepChangesTables` shows that every step is
one of these; it and the lemmas after it speak of `AnyStep`, a request with any
arguments, so that they serve the steps of `Guest` as well as those of `Next`; each
theorem about the tables is then a case analysis over them. The inductive invariant
is `TablesInv`: typing of the two tables with `MapSlabCoherent` and `RootResolves`.
Coherence is needed for retirement: a retired nodeid could return through the map
only if the map held another path's nodeid. For the writers the invariant is
`ServiceInv`, which adds that an attached writer's object is a file
(`AttachedBacked`): without it a write could read the contents of a missing object
and `store` would lose its type. A writer that is detached can only become more exempt
from `NotAhead`, and one that was overtaken on opening is detached from the start. `WritersReleasable` follows from these since a path
is only bound to a writer by a handler that resolved or just inserted it, and the
slab keeps it.

*Listings.* `EntriesInv` says that each inode of a reply resolves to the object
listed. What `readdir` registers is a string of its own for each entry (`EntryKey`),
so the proof needs what `Obj` does to it: dropping the slashes, the string of a child
names the child (`ObjEntryKey`, from `ObjSegments`, `ObjName` and `ObjSlash`: joining a
name adds it, joining an empty segment adds nothing). Two entries never share a
string, and the map sends each to a slab entry that holds it.

*Sessions.* `SessionInv` adds to `GuestInv` that a handle's path is in the slab and its
nodeid resolves to it (`PlacedInv`), and that a session without rivals owns its writer
and its data and that no other handle is on its object (`SoleInv`). The step that
matters is `OnlyAt`: a request changes writers and data of one object only, the one its
path names. A session's rival is noted when the request is on its object, so every
other request leaves what it owns alone.

*The guest.* `GuestInv` is `TablesInv`, `ServiceInv`, the types of `known` and
`KnownResolves` itself. A reply teaches the guest the nodeid the map holds for the path
just looked up or inserted; coherence makes that nodeid resolve to the path, and the
six ways show that no step takes it away but a restart, which empties the slab.

*A directory stream.* `StreamInv`: what was there all the time is listed, what is
listed was there at some time (`SeenInv`); before the first answer nothing is given and
after it everything that stayed (`GivenInv`); as long as nothing is added, the position
is past what is left to list (`OnceInv`), which is why the next answer is empty. The last
two are for a buffer that holds all names seen (`Fits`), which later steps of a listing
can make false but not true.

*A process and its file.* `UserInv`: the nodeid the process has resolves to its file,
no directory stands in its place, and between and during sessions the writer holds, or
the service has, exactly what POSIX prescribes so far (`SessionState`), by phase of the
session and kind of service. After a failed call this is suspended, but for one thing
that is kept: a file being emptied on opening has a new, empty writer, whatever there
was before, so that success from there restores the rest, as does an unlink.

*The rings.* `OrderInv`: `ReturnedInOrder` is not inductive, since what is returned next
comes from the worker's batch. The invariant adds that the batch holds, in order and
without a gap, the last requests taken from the queue the worker is at, that everything
returned there comes before the batch, and that without a failing `add_used` nothing
between is missing. `WakeInv` is for the wake-ups: unless the worker will look at a ring
again, its kick is pending or it has taken all but what the driver is yet to decide
about (`KickInv`); a driver that waits asks for the entry after the last it saw, and
that one is not there, or signalled, or about to be (`InterruptInv`). Indices are
remainders by any modulus: two that are equal belong to counts a multiple apart, and
counts on a ring are less than that apart (`Remainders` and the lemmas after it).
`QueueImplementsService` maps each step to one of `RequestService` or a stutter; from
`CountsInv` an answer is to a request that was submitted.

*The threads.* `DaemonInv`: a region the guest may use is in the shared memory, and in
the snapshot a worker collects with (`RegionsInv`), since the front-end learns of it
only after the callback had the lock; the vring and the thread agree on event-idx except
between the two halves of its message, when the ring is stopped, and a running
`handle_event` has the thread's setting (`RuleInv`, which needs that a stopped ring ends
the worker before it handles anything); only the vring's lock is ever poisoned
(`PoisonInv`).

*Chains.* `InsideInv`: every writer holds slices that lie in the area the guest made
writable. Consuming, splitting and picking keep slices inside their area
(`AdvanceWithin`, `KeptWithin`, `PickedWithin`), and a copy is never longer than its
slice (`CopyFits`). They rest on `BeforeFacts` and `WholeFacts`: the words before a slice
add up, and the slice at which a count ends contains the rest of it; shown by counting
words, without induction.

*An exchange.* `RoomInv`: as long as request and room are all there, the reads a handler
still has to make ask for no more words than are left, and what it still has to write
fits what is left of the room; once the header's place is split off, that place stays
free until everything behind it is written. The records are compared with `Kernel`
opcode by opcode (`ReadsFit`, `RecordsFit`); a call moves what was asked for or all
there is (`CopySum`, a bijection between the words moved and their positions), and
takes as much off the total (`AdvanceTotal`). With `InsideInv` the same steps give
`RepliesStayInside`.

*Contents.* `Cells` gives the address of each position of a chain. Consuming n words
leaves the cells behind the first n and `split_at` keeps the first n (`SplitCells`, from
`CellAt` and `CellsConcat`), so a consumer is always where its count says (`PlacedIn`).
The slices of a chain share no cell (`LaidCells`), so a copy puts its words behind what
was written before and changes no other position (`StoredAt`).

*Two buffers.* `FlatInv`: the reader is where its count says and has delivered that many
words; what a writer has left is the part of the area behind the words it passed
(`Tracks`), counted from the front for `w` and from the end for `data_writer`; the
request's cells are outside the area, so no write disturbs what is still to be read.
Then a read is a `Hand` (`Hands`), a write an `Enter` (`Enters`) and a split a `Split`
(`Splits`) of `FlatBuffer`; `write_from_at` falls short only at an empty slice
(`VectoredIsCopy`).

*Requests and replies.* `ReaderInv` follows the count of the reader from what is still to
be read, so that the payload begins where `write` takes it. `WriterInv` places each
writer in the whole area or, once the header is split off, in its part of it (`Part`); a
write lands behind what was written (`Lands`). `ReplyInv` says that what is written and
what is pending are one reply: in one piece and in order (`Plain`); split, with the
header to come and to say the length that will then be reached (`Pending`); or split and
whole (`Ended`). `ReplyInPlace` alone is not inductive: while a reply is made, the
length its header announces is known only from the pieces pending.

Only model-checked: `ServesRequests`, `ListingEnds`, `ControlAnswers` and `ShutsDown`,
whose liveness is out of the prover's reach. Every invariant and action property and both
refinements of the passing runs are proved.

## Plan

All parts of the program that keep state are modelled, and what their runs check is
proved but for liveness. What is left is to weaken hypotheses where the code allows it
and to keep model and proofs in step with the code.

Not modelled: `error.rs` (every handler replaces the error by a fixed errno, so the
conversion shows in no reply); argument parsing and the choice of the backend scheme
(I/O, before any state exists); the values of attributes; the guest's page cache;
removal of memory regions; addresses outside guest memory and lengths that overflow a
`usize`, which end the worker as any error in a batch does; and the caches, DAX window
and hot reload the proposal describes but the code does not have.
