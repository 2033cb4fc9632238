---------------------------- MODULE StreamProofs ----------------------------
(* Proofs about a process that lists the root directory while others change *)
(* it (module DirectoryStream), for any finite set of names and any number  *)
(* of changes and buffers of any size.                                      *)
EXTENDS DirectoryStream, FilesystemProofs

StreamTypes ==
    /\ stream \in {"closed", "open", "ended", "failed"}
    /\ buffer \in Nat \ {0}
    /\ pos \in Nat
    /\ ever \subseteq Names
    /\ given \in [Names -> 0 .. 2]
    /\ grew \in BOOLEAN

\* What is there all the time is there now, and what is there now was there.
SeenInv ==
    stream # "closed" => /\ always \subseteq Listed
                         /\ Listed \subseteq ever
                         /\ \A name \in Names : given[name] > 0 => name \in ever

\* Before the first answer nothing is given, after it everything that stayed is, if
\* the answers fit the buffer.
GivenInv ==
    /\ stream = "open" /\ pos = 0 => \A name \in Names : given[name] = 0
    /\ stream = "open" /\ pos > 0 /\ Fits => \A name \in always : given[name] > 0
    /\ stream = "ended" /\ Fits => \A name \in always : given[name] > 0

\* As long as nothing is added, the position is past what is left to list.
OnceInv ==
    /\ ~grew /\ Fits => \A name \in Names : given[name] <= 1
    /\ stream = "open" /\ pos > 0 /\ ~grew /\ Fits => Cardinality(Listed) <= pos

StreamInv == StreamTypes /\ SeenInv /\ GivenInv /\ OnceInv

\* The server's tables while it is not restarted.
ServerInv == TablesInv /\ opened_files # <<>>

-----------------------------------------------------------------------------
(* The server under the stream.                                            *)

LEMMA RootNode ==
    ASSUME ServerInv
    PROVE  Resolves(RootInode) /\ PathOf(RootInode) = RootPath /\ RootInode \in Nat
  BY DEF ServerInv, TablesInv, RootResolves, RootInode

LEMMA ListedFinite ==
    ASSUME IsFiniteSet(Names)
    PROVE  /\ Listed \subseteq Names /\ IsFiniteSet(Listed)
           /\ Cardinality(Listed) \in Nat /\ Cardinality(Listed) <= Cardinality(Names)
           /\ Cardinality(Names) \in Nat
  <1>1. Listed \subseteq Names
    BY DEF Listed, Children
  <1> QED
    BY <1>1, FS_Subset, FS_CardinalityType

(* What others change leaves the server's tables sound, and not empty. *)
LEMMA OthersKeepServer ==
    ASSUME ServerInv, OthersChange
    PROVE  ServerInv'
  <1>1. PICK name \in Names :
          \/ Create(RootInode, name, {"O_WRONLY", "O_CREAT"}, "none")
          \/ Mkdir(RootInode, name, TRUE)
          \/ Unlink(RootInode, name, TRUE)
          \/ ExternalPut(<<name>>, <<>>)
          \/ ExternalDelete(<<name>>)
    BY DEF OthersChange
  <1>2. CASE ExternalPut(<<name>>, <<>>) \/ ExternalDelete(<<name>>)
    <2>1. UNCHANGED tables
      BY <1>2 DEF ExternalPut, ExternalDelete, tables
    <2> QED
      BY <2>1, TablesStepKeeps DEF ServerInv, TablesStep, tables
  <1>3. CASE \/ Create(RootInode, name, {"O_WRONLY", "O_CREAT"}, "none")
             \/ Mkdir(RootInode, name, TRUE)
             \/ Unlink(RootInode, name, TRUE)
    <2>1. AnyStep
      BY <1>3, RootNode DEF AnyStep
    <2>2. TablesInv'
      BY <2>1, StepChangesTables, TablesStepKeeps DEF ServerInv
    <2>3. \/ opened_files' = opened_files
          \/ \E path : opened_files' = Append(opened_files, path)
      BY <1>3 DEF Create, Mkdir, Unlink, Remove, InsertInode, Unresolved, Refuse, tables
    <2>4. ASSUME NEW path, opened_files' = Append(opened_files, path) PROVE opened_files' # <<>>
      <3>1. opened_files \in Seq(Paths)
        BY DEF ServerInv, TablesInv, TablesTypeOK
      <3>2. opened_files' \in Seq(Paths)
        BY <2>2 DEF TablesInv, TablesTypeOK
      <3>3. opened_files \in Seq(Paths \cup {path})
        BY <3>1
      <3>4. Len(opened_files') = Len(opened_files) + 1
        BY <2>4, <3>3
      <3> QED
        BY <3>1, <3>2, <3>4
    <2> QED
      BY <2>2, <2>3, <2>4 DEF ServerInv
  <1> QED
    BY <1>1, <1>2, <1>3

(* The root's READDIR: nothing changes but the inode tables, and the reply is a
   failure, the end, or the whole directory. *)
LEMMA RootReaddir ==
    ASSUME ServerInv, IsFiniteSet(Names), NEW offset \in Nat, NEW room \in Nat, NEW up \in BOOLEAN,
           Readdir(RootInode, offset, room, up)
    PROVE  /\ ServerInv' /\ store' = store
           /\ reply'.error = "OK" /\ reply'.entries = {} => offset >= Cardinality(Listed)
           /\ reply'.error = "OK" /\ reply'.entries # {} =>
                /\ offset < Cardinality(Listed)
                /\ IsFiniteSet(reply'.entries)
                /\ Cardinality(reply'.entries) = Cardinality(Listed)
                /\ \A name \in Names : name \in Listed <=> \E e \in reply'.entries : e.obj = <<name>>
  <1>0. AnyStep
    BY RootNode DEF AnyStep
  <1>1. TablesInv'
    BY <1>0, StepChangesTables, TablesStepKeeps DEF ServerInv
  <1>2. opened_files' # <<>>
    <2>1. CASE opened_files' = opened_files
      BY <2>1 DEF ServerInv
    <2>2. CASE \E keys : RegisterEntries(keys)
      <3>1. PICK keys : RegisterEntries(keys)
        BY <2>2
      <3>2. opened_files # <<>> /\ opened_files \in Seq(Paths)
        BY DEF ServerInv, TablesInv, TablesTypeOK
      <3>3. PICK order \in Orders(keys \ DOMAIN opened_files_map) : opened_files' = opened_files \o order
        BY <3>1 DEF RegisterEntries
      <3>4. Len(opened_files) > 0
        BY <3>2
      <3> QED
        BY <3>2, <3>3, <3>4
    <2> QED
      BY <2>1, <2>2 DEF Readdir, Unresolved, Refuse
  <1>3. store' = store
    BY DEF Readdir, Unresolved, Refuse
  <1> DEFINE entry(name) == [obj |-> Append(<<>>, name), kind |-> store[Append(<<>>, name)].kind,
                             ino |-> opened_files_map'[EntryKey(RootPath, name)]]
  <1>4. \/ reply'.error # "OK"
        \/ reply' = Ack /\ PastEnd(offset, Cardinality(Listed))
        \/ /\ ~PastEnd(offset, Cardinality(Listed))
           /\ reply' = [Ack EXCEPT !.entries = {entry(name) : name \in Listed}]
    <2>1. PathOf(RootInode) = RootPath /\ Obj(RootPath) = <<>> /\ Resolves(RootInode)
      BY RootNode, ObjRoot
    <2>2. \A e \in {"ENOENT", "EIO"} : Fail(e).error # "OK"
      BY DEF Fail, Ack
    <2>3. CASE Unresolved(RootInode) \/ Refuse("ENOENT")
      BY <2>2, <2>3 DEF Unresolved, Refuse
    <2>4. CASE reply' = IF PastEnd(offset, Cardinality(Listed)) THEN Ack
                        ELSE IF Cardinality(Listed) > room THEN Fail("EIO")
                        ELSE [Ack EXCEPT !.entries = {entry(name) : name \in Listed}]
      BY <2>2, <2>4
    <2> QED
      BY <2>1, <2>3, <2>4 DEF Readdir, Listed
  <1>5. CASE reply'.error # "OK"
    BY <1>1, <1>2, <1>3, <1>5 DEF ServerInv
  <1>6. CASE reply' = Ack /\ PastEnd(offset, Cardinality(Listed))
    BY <1>1, <1>2, <1>3, <1>6, ReplyNoEntries DEF ServerInv, PastEnd
  <1>7. CASE /\ ~PastEnd(offset, Cardinality(Listed))
             /\ reply' = [Ack EXCEPT !.entries = {entry(name) : name \in Listed}]
    <2>1. reply'.entries = {entry(name) : name \in Listed}
      BY <1>7, ReplyNoEntries
    <2>2. \A name : entry(name).obj = <<name>>
      OBVIOUS
    <2> HIDE DEF entry
    <2>3. [name \in Listed |-> entry(name)] \in Bijection(Listed, reply'.entries)
      BY <2>1, <2>2 DEF Bijection, Injection, Surjection, IsInjective
    <2>4. /\ IsFiniteSet(reply'.entries)
          /\ Cardinality(reply'.entries) = Cardinality(Listed)
      BY <2>3, ListedFinite, FS_Bijection DEF ExistsBijection
    <2>5. offset < Cardinality(Listed)
      BY <1>7, ListedFinite DEF PastEnd
    <2>6. reply'.entries # {}
      BY <2>4, <2>5, FS_EmptySet
    <2>7. \A name \in Names : name \in Listed <=> \E e \in reply'.entries : e.obj = <<name>>
      BY <2>1, <2>2
    <2> QED
      BY <1>1, <1>2, <1>3, <2>4, <2>5, <2>6, <2>7 DEF ServerInv
  <1> QED
    BY <1>4, <1>5, <1>6, <1>7

-----------------------------------------------------------------------------
(* The steps of the stream.                                                *)

(* Names are only added to those seen, so what fits the buffer now has always done. *)
LEMMA FitsBefore ==
    ASSUME IsFiniteSet(Names), ever \subseteq ever', ever' \subseteq Names, buffer' = buffer,
           buffer \in Nat, Fits'
    PROVE  Fits
  <1>1. IsFiniteSet(ever') /\ IsFiniteSet(ever)
    BY FS_Subset
  <1>2. Cardinality(ever) <= Cardinality(ever') /\ Cardinality(ever) \in Nat /\ Cardinality(ever') \in Nat
    BY <1>1, FS_Subset, FS_CardinalityType
  <1> QED
    BY <1>2 DEF Fits

LEMMA ListedFits ==
    ASSUME IsFiniteSet(Names), Listed \subseteq ever, ever \subseteq Names, buffer \in Nat, Fits
    PROVE  Cardinality(Listed) <= buffer
  <1>1. IsFiniteSet(ever)
    BY FS_Subset
  <1>2. Cardinality(Listed) <= Cardinality(ever) /\ Cardinality(ever) \in Nat
    BY <1>1, FS_Subset, FS_CardinalityType
  <1> QED
    BY <1>2, ListedFinite DEF Fits

(* Any buffer gives the process some of the names in the answer ... *)
LEMMA TakeSome ==
    ASSUME IsFiniteSet(Names), StreamTypes, NEW entries, IsFiniteSet(entries),
           Cardinality(entries) = Cardinality(Listed), Cardinality(Listed) > 0,
           \A name \in Names : name \in Listed <=> \E e \in entries : e.obj = <<name>>,
           Take(entries)
    PROVE  /\ pos' \in Nat /\ pos' > 0
           /\ given' \in [Names -> 0 .. 2]
           /\ \A name \in Names : name \notin Listed => given'[name] = given[name]
  <1> DEFINE n == Smaller(buffer, Cardinality(entries))
  <1>1. n \in Nat /\ n > 0 /\ n <= Cardinality(entries)
    BY ListedFinite DEF StreamTypes, Smaller
  <1>2. PICK order \in Orders(entries) :
          /\ given' = [name \in Names |->
               IF \E i \in 1 .. n : order[i].obj = <<name>> THEN Smaller(given[name] + 1, 2)
               ELSE given[name]]
          /\ pos' = n
    BY DEF Take
  <1>3. \A i \in 1 .. Cardinality(entries) : order[i] \in entries
    BY DEF Orders
  <1>4. \A i \in 1 .. n : order[i] \in entries
    BY <1>1, <1>3, ListedFinite
  <1> HIDE DEF n
  <1>5. ASSUME NEW name \in Names
        PROVE  given'[name] \in 0 .. 2 /\ (name \notin Listed => given'[name] = given[name])
    <2>1. name \notin Listed => ~ \E i \in 1 .. n : order[i].obj = <<name>>
      BY <1>4
    <2>2. given[name] \in 0 .. 2 /\ Smaller(given[name] + 1, 2) \in 0 .. 2
      BY DEF StreamTypes, Smaller
    <2> QED
      BY <1>2, <2>1, <2>2
  <1>6. given' \in [Names -> 0 .. 2]
    BY <1>2, <1>5
  <1> QED
    BY <1>1, <1>2, <1>5, <1>6

(* ... and one that holds the whole answer each of them once. *)
LEMMA TakeAll ==
    ASSUME IsFiniteSet(Names), buffer \in Nat, Cardinality(Listed) <= buffer,
           NEW entries, IsFiniteSet(entries),
           Cardinality(entries) = Cardinality(Listed),
           \A name \in Names : name \in Listed <=> \E e \in entries : e.obj = <<name>>,
           Take(entries)
    PROVE  /\ pos' = Cardinality(Listed)
           /\ given' = [name \in Names |-> IF name \in Listed THEN Smaller(given[name] + 1, 2)
                                            ELSE given[name]]
  <1> DEFINE n == Cardinality(entries)
  <1>1. Smaller(buffer, n) = n
    BY ListedFinite DEF Smaller
  <1>2. PICK order \in Orders(entries) :
          /\ given' = [name \in Names |->
               IF \E i \in 1 .. n : order[i].obj = <<name>> THEN Smaller(given[name] + 1, 2)
               ELSE given[name]]
          /\ pos' = n
    BY <1>1 DEF Take
  <1>3. \A e \in entries : \E i \in 1 .. n : order[i] = e
    BY OrderHasAll
  <1>4. \A i \in 1 .. n : order[i] \in entries
    BY DEF Orders
  <1> HIDE DEF n
  <1>5. \A name \in Names : (\E i \in 1 .. n : order[i].obj = <<name>>) <=> name \in Listed
    BY <1>3, <1>4
  <1>6. pos' = Cardinality(Listed)
    BY <1>2 DEF n
  <1> QED
    BY <1>2, <1>5, <1>6

LEMMA OpenStreamKeeps ==
    ASSUME ServerInv, StreamInv, OpenStream
    PROVE  StreamInv'
  <1>1. Listed' = Listed
    BY DEF OpenStream, Opendir, AckIfResolved, Unresolved, Refuse, Listed, Children
  <1>2. /\ stream' = "open" /\ pos' = 0 /\ given' = [name \in Names |-> 0]
        /\ always' = Listed /\ ever' = Listed /\ grew' = FALSE /\ buffer' \in Nat \ {0}
    BY StreamAssumption DEF OpenStream
  <1>3. \A name \in Names : given'[name] = 0
    BY <1>2
  <1>4. StreamTypes'
    <2>1. grew' \in BOOLEAN
      BY <1>2, Zenon
    <2>2. given' \in [Names -> 0 .. 2]
      BY <1>2
    <2>3. Listed \subseteq Names
      BY DEF Listed, Children
    <2> QED
      BY <1>2, <2>1, <2>2, <2>3 DEF StreamTypes
  <1> QED
    BY <1>1, <1>2, <1>3, <1>4 DEF StreamInv, SeenInv, GivenInv, OnceInv

LEMMA CloseStreamKeeps ==
    ASSUME StreamInv, CloseStream
    PROVE  StreamInv'
  <1>1. /\ stream' = "closed"
        /\ UNCHANGED <<buffer, pos, given, always, ever, grew>>
    BY DEF CloseStream
  <1> QED
    BY <1>1 DEF StreamInv, StreamTypes, SeenInv, GivenInv, OnceInv, Fits

LEMMA OthersChangeKeeps ==
    ASSUME IsFiniteSet(Names), StreamInv, OthersChange
    PROVE  StreamInv'
  <1>1. /\ UNCHANGED <<stream, buffer, pos, given>>
        /\ always' = always \cap Listed' /\ ever' = ever \cup Listed'
        /\ grew' = (grew \/ Listed' \ Listed # {})
    BY DEF OthersChange
  <1>2. StreamTypes'
    <2>1. grew' \in BOOLEAN
      BY <1>1, Zenon
    <2>2. Listed' \subseteq Names
      BY DEF Listed, Children
    <2> QED
      BY <1>1, <2>1, <2>2 DEF StreamInv, StreamTypes
  <1>3. SeenInv'
    BY <1>1 DEF StreamInv, SeenInv
  <1>4. Fits' => Fits
    BY <1>1, <1>2, FitsBefore DEF StreamInv, StreamTypes
  <1>5. GivenInv'
    BY <1>1, <1>4 DEF StreamInv, GivenInv
  <1>6. OnceInv'
    <2>1. CASE grew' \/ ~Fits'
      BY <2>1 DEF OnceInv
    <2>2. CASE ~grew' /\ Fits'
      <3>1. ~grew /\ Listed' \subseteq Listed /\ Fits
        BY <1>1, <1>4, <2>2
      <3>2. Cardinality(Listed') <= Cardinality(Listed) /\ Cardinality(Listed') \in Nat
        BY <3>1, ListedFinite, FS_Subset, FS_CardinalityType
      <3>3. \A name \in Names : given'[name] <= 1
        BY <1>1, <3>1 DEF StreamInv, OnceInv
      <3>4. stream' = "open" /\ pos' > 0 => Cardinality(Listed') <= pos'
        BY <1>1, <3>1, <3>2, ListedFinite DEF StreamInv, StreamTypes, OnceInv
      <3> QED
        BY <3>3, <3>4 DEF OnceInv
    <2> QED
      BY <2>1, <2>2
  <1> QED
    BY <1>2, <1>3, <1>5, <1>6 DEF StreamInv

LEMMA GetDentsKeeps ==
    ASSUME IsFiniteSet(Names), ServerInv, StreamInv, NEW room \in Nat, NEW up \in BOOLEAN,
           GetDents(room, up)
    PROVE  StreamInv'
  <1>1. /\ stream = "open" /\ Readdir(RootInode, pos, room, up) /\ pos \in Nat
        /\ UNCHANGED <<buffer, always, ever, grew>> /\ (Fits' <=> Fits)
    BY DEF Fits, GetDents, StreamInv, StreamTypes
  <1>2. /\ store' = store
        /\ reply'.error = "OK" /\ reply'.entries = {} => pos >= Cardinality(Listed)
        /\ reply'.error = "OK" /\ reply'.entries # {} =>
             /\ pos < Cardinality(Listed)
             /\ IsFiniteSet(reply'.entries)
             /\ Cardinality(reply'.entries) = Cardinality(Listed)
             /\ \A name \in Names : name \in Listed <=> \E e \in reply'.entries : e.obj = <<name>>
    BY <1>1, RootReaddir
  <1>3. Listed' = Listed
    BY <1>2 DEF Listed, Children
  <1>4. CASE reply'.error # "OK"
    <2>1. stream' = "failed" /\ UNCHANGED <<pos, given>>
      BY <1>4 DEF GetDents
    <2> QED
      BY <1>1, <1>3, <2>1 DEF StreamInv, StreamTypes, SeenInv, GivenInv, OnceInv
  <1>5. CASE reply'.error = "OK" /\ reply'.entries = {}
    <2>1. stream' = "ended" /\ UNCHANGED <<pos, given>>
      BY <1>5 DEF GetDents
    <2>2. Fits => \A name \in always : given[name] > 0
      <3>1. CASE pos > 0
        BY <1>1, <3>1 DEF StreamInv, GivenInv
      <3>2. CASE pos = 0
        <4>1. Listed = {}
          BY <1>2, <1>5, <3>2, ListedFinite, FS_EmptySet
        <4> QED
          BY <1>1, <4>1 DEF StreamInv, SeenInv
      <3> QED
        BY <1>1, <3>1, <3>2
    <2> QED
      BY <1>1, <1>3, <2>1, <2>2 DEF StreamInv, StreamTypes, SeenInv, GivenInv, OnceInv
  <1>6. CASE reply'.error = "OK" /\ reply'.entries # {}
    <2>1. UNCHANGED stream /\ Take(reply'.entries)
      BY <1>6 DEF GetDents
    <2>2. Cardinality(Listed) > 0 /\ Cardinality(Listed) \in Nat
      BY <1>1, <1>2, <1>6, ListedFinite
    <2>3. /\ pos' \in Nat /\ pos' > 0
          /\ given' \in [Names -> 0 .. 2]
          /\ \A name \in Names : name \notin Listed => given'[name] = given[name]
      BY <1>2, <1>6, <2>1, <2>2, TakeSome DEF StreamInv
    <2>4. ASSUME Fits
          PROVE  /\ pos' = Cardinality(Listed)
                 /\ \A name \in Names : /\ name \in Listed => given'[name] > 0
                                        /\ given[name] = 0 => given'[name] <= 1
      <3>1. Cardinality(Listed) <= buffer /\ buffer \in Nat
        BY <1>1, <2>4, ListedFits DEF StreamInv, StreamTypes, SeenInv
      <3>2. /\ pos' = Cardinality(Listed)
            /\ given' = [name \in Names |-> IF name \in Listed THEN Smaller(given[name] + 1, 2)
                                             ELSE given[name]]
        BY <1>2, <1>6, <2>1, <3>1, TakeAll
      <3> QED
        BY <3>2 DEF StreamInv, StreamTypes, Smaller
    <2>5. StreamTypes'
      BY <1>1, <2>1, <2>3 DEF StreamInv, StreamTypes
    <2>6. always \subseteq Listed /\ Listed \subseteq ever /\ Listed \subseteq Names
      BY <1>1, ListedFinite DEF StreamInv, SeenInv
    <2>7. SeenInv'
      <3>1. \A name \in Names : given'[name] > 0 => name \in ever
        BY <1>1, <2>3, <2>6 DEF StreamInv, SeenInv
      <3> QED
        BY <1>1, <1>3, <2>6, <3>1 DEF SeenInv
    <2>8. GivenInv'
      BY <1>1, <2>1, <2>3, <2>4, <2>6 DEF GivenInv
    <2>9. OnceInv'
      <3>1. CASE grew \/ ~Fits
        BY <1>1, <3>1 DEF OnceInv
      <3>2. CASE ~grew /\ Fits
        <4>1. pos = 0
          BY <1>1, <1>2, <1>6, <2>2, <3>2 DEF StreamInv, OnceInv
        <4>2. \A name \in Names : given'[name] <= 1
          BY <1>1, <2>4, <3>2, <4>1 DEF StreamInv, GivenInv
        <4> QED
          BY <1>1, <1>3, <2>2, <2>4, <3>2, <4>2 DEF OnceInv
      <3> QED
        BY <3>1, <3>2
    <2> QED
      BY <2>5, <2>7, <2>8, <2>9 DEF StreamInv
  <1> QED
    BY <1>4, <1>5, <1>6

-----------------------------------------------------------------------------
(* What a listing gives.                                                   *)

LEMMA InitStream == StreamInit => ServerInv /\ StreamInv
  <1>1. ASSUME StreamInit PROVE ServerInv
    <2>1. opened_files = <<RootPath, RootPath>> /\ opened_files_map = [p \in {RootPath} |-> 1]
      BY <1>1 DEF StreamInit, RootEntries, RootInode
    <2>2. RootPath \in Paths /\ Len(RootPath) = 2
      BY DEF RootPath, Paths, Segments
    <2> HIDE DEF RootPath
    <2>3. /\ opened_files \in Seq(Paths) /\ Len(opened_files) = 2 /\ opened_files # <<>>
          /\ opened_files[1] = RootPath /\ opened_files[2] = RootPath
      BY <2>1, <2>2
    <2>4. DOMAIN opened_files_map = {RootPath} /\ opened_files_map[RootPath] = 1
      BY <2>1
    <2>5. TablesTypeOK
      BY <2>1, <2>2, <2>3, <2>4 DEF TablesTypeOK
    <2>6. Resolves(1) /\ PathOf(1) = RootPath
      BY <2>3 DEF Resolves, PathOf
    <2> QED
      BY <2>3, <2>4, <2>5, <2>6
         DEF ServerInv, TablesInv, MapSlabCoherent, RootResolves, RootInode
  <1>2. ASSUME StreamInit PROVE StreamInv
    <2>1. grew \in BOOLEAN
      BY <1>2, Zenon DEF StreamInit
    <2>2. given \in [Names -> 0 .. 2] /\ \A name \in Names : given[name] = 0
      BY <1>2 DEF StreamInit
    <2>3. stream = "closed" /\ pos = 0 /\ buffer = 1 /\ ever = {}
      BY <1>2 DEF StreamInit
    <2> QED
      BY <2>1, <2>2, <2>3 DEF StreamInv, StreamTypes, SeenInv, GivenInv, OnceInv
  <1> QED
    BY <1>1, <1>2

LEMMA StreamStep ==
    ASSUME IsFiniteSet(Names), ServerInv, StreamInv, [StreamNext]_svars
    PROVE  ServerInv' /\ StreamInv'
  <1>1. CASE UNCHANGED svars
    <2>1. Listed' = Listed
      BY <1>1 DEF svars, Listed, Children
    <2>2. StreamInv'
      BY <1>1, <2>1 DEF svars, StreamInv, StreamTypes, SeenInv, GivenInv, OnceInv, Fits
    <2>3. ServerInv'
      BY <1>1, TablesStepKeeps DEF svars, ServerInv, TablesStep, tables
    <2> QED
      BY <2>2, <2>3
  <1>2. CASE OpenStream \/ CloseStream
    <2>1. UNCHANGED tables
      BY <1>2 DEF OpenStream, CloseStream, Opendir, Releasedir, AckIfResolved, Unresolved, Refuse, tables
    <2>2. ServerInv'
      BY <2>1, TablesStepKeeps DEF ServerInv, TablesStep, tables
    <2> QED
      BY <1>2, <2>2, OpenStreamKeeps, CloseStreamKeeps
  <1>3. CASE OthersChange
    BY <1>3, OthersKeepServer, OthersChangeKeeps
  <1>4. ASSUME NEW room \in Places, NEW up \in BOOLEAN, GetDents(room, up)
        PROVE  ServerInv' /\ StreamInv'
    <2>1. room \in Nat
      BY BoundsAssumption DEF Places
    <2>2. Readdir(RootInode, pos, room, up) /\ pos \in Nat
      BY <1>4 DEF GetDents, StreamInv, StreamTypes
    <2> QED
      BY <1>4, <2>1, <2>2, RootReaddir, GetDentsKeeps
  <1> QED
    BY <1>1, <1>2, <1>3, <1>4 DEF StreamNext

(* A listing that ends has every name that was there all the time, if the process's
   buffer holds the names seen meanwhile, and none that never was, however the
   directory changes between two answers. *)
THEOREM ListingComplete ==
    ASSUME IsFiniteSet(Names)
    PROVE  StreamSpec => []ListsAll
  <1>1. ServerInv /\ StreamInv /\ [StreamNext]_svars => ServerInv' /\ StreamInv'
    BY StreamStep
  <1>2. StreamInv => ListsAll
    BY DEF StreamInv, StreamTypes, SeenInv, GivenInv, ListsAll
  <1> QED
    BY <1>1, <1>2, InitStream, PTL DEF StreamSpec

(* No name of a directory that fits the process's buffer is given twice unless one
   was added meanwhile. *)
THEOREM ListingOnce ==
    ASSUME IsFiniteSet(Names)
    PROVE  StreamSpec => []ListsOnce
  <1>1. ServerInv /\ StreamInv /\ [StreamNext]_svars => ServerInv' /\ StreamInv'
    BY StreamStep
  <1>2. StreamInv => ListsOnce
    BY DEF StreamInv, OnceInv, ListsOnce
  <1> QED
    BY <1>1, <1>2, InitStream, PTL DEF StreamSpec

=============================================================================
