------------------------------ MODULE OpenFiles ------------------------------
(***************************************************************************)
(* The open files of catfs: CatFS and OpenFile (fs/fs_file.cpp,            *)
(* fs/open_file.cpp), with DirectReader, over the inodes of the metadata   *)
(* cache and the object that the files of one name share.                  *)
(*                                                                         *)
(* A handle has its own size, taken from the inode when it is opened and   *)
(* from its writer with each write.  What was written is put when the      *)
(* kernel's RELEASE comes, which close(2) does not wait for.  The inode    *)
(* gets its size from the writes and from HEAD requests, whose answer may  *)
(* be old when it is applied.  What a writer does with its bytes between   *)
(* two writes is SequenceWriter's; here it keeps the promise of FileUpload.*)
(***************************************************************************)
EXTENDS Integers, FiniteSets, Sequences

CONSTANTS
    MaxLen,         \* bound: bytes of a file; the kernel reads that many
    OldLen,         \* bytes of the object, if there is one in the beginning
    MaxHandles,     \* bound: how many files are opened
    MaxIno,         \* bound: how many inodes are made
    MaxFails,       \* bound: how many remote calls fail
    MaxDirs,        \* bound: how many directories are closed
    MaxBackground,  \* unanswered requests of the kernel's background queue
    EarlyUnlink     \* may a file be removed before its RELEASE is answered?

Handles == 1 .. MaxHandles
Lengths == 0 .. MaxLen

ASSUME FilesAssumption ==
    /\ {MaxLen, MaxHandles, MaxIno, MaxFails, MaxDirs} \subseteq Nat
    /\ OldLen \in Lengths
    /\ MaxBackground \in Nat \ {0}
    /\ EarlyUnlink \in BOOLEAN

VARIABLES
    object,     \* what the key holds: whose bytes, and how many
    inodes,     \* the inodes that were made for the name
    current,    \* the one that its dentry has, or 0
    fresh,      \* the dentry's ttl lies ahead
    head,       \* a HEAD under way, for a lookup of the name
    files,      \* handle |-> open file
    queue,      \* RELEASE and RELEASEDIR requests the kernel has yet to send
    dirs,       \* directories closed so far
    unanswered, \* RELEASEDIR requests sent, which are never answered
    fails,      \* remote calls that failed so far
    suspect,    \* the size of the inode may not be the object's: see SizeAgrees
    removed,    \* the file was removed, and not made again
    ub          \* memory was used after it was freed: anything may happen

tree == <<inodes, current, fresh>>
kernel == <<queue, dirs, unanswered>>
vars == <<object, tree, head, files, kernel, fails, suspect, removed, ub>>

-----------------------------------------------------------------------------
\* by is the handle that has put it, or 0 for an object made otherwise.
Missing == [by |-> -1, len |-> 0]
Exists == object # Missing

Inode(size) == [size |-> size, freed |-> FALSE]

\* seen is the object when the HEAD was answered.
NoHead == [busy |-> FALSE, ino |-> 0, seen |-> Missing]

NoRead == [st |-> "none", off |-> 0, n |-> 0]

\* phase goes from "open" to "closed" with the last close, to "releasing" when
\* the RELEASE reaches catfs, and to "released" or "failed".  stored and
\* disturbed are kept for the properties: its bytes were put; something came
\* between it and the object.
File(ino, size, dist) == [ino |-> ino, size |-> size, acked |-> 0, phase |-> "open",
                          read |-> NoRead, stored |-> FALSE, disturbed |-> dist]

\* Handles with bytes that are not in the object yet.
Writers == {h \in DOMAIN files : files[h].acked > 0
                                 /\ files[h].phase \in {"open", "closed", "releasing"}}
Quiet == Writers = {}

Open(h) == ~ub /\ h \in DOMAIN files /\ files[h].phase = "open"

\* Every open handle but h finds another object than the one it was opened on.
Disturbed(fs, h) == [g \in DOMAIN fs |-> IF g = h THEN fs[g] ELSE [fs[g] EXCEPT !.disturbed = TRUE]]

Least(a, b) == IF a < b THEN a ELSE b

-----------------------------------------------------------------------------
Init ==
    /\ object \in {Missing, [by |-> 0, len |-> OldLen]}
    /\ inodes = <<>> /\ current = 0 /\ fresh = FALSE
    /\ head = NoHead
    /\ files = <<>>
    /\ queue = <<>> /\ dirs = 0 /\ unanswered = 0
    /\ fails = 0
    /\ suspect = FALSE /\ removed = FALSE
    /\ ub = FALSE

-----------------------------------------------------------------------------
(* The name: lookup, create, unlink.                                       *)

\* A lookup asks the store when it has no dentry or an expired one; others
\* wait for the answer, or for the directory's lock.
Lookup ==
    /\ ~ub /\ ~head.busy /\ (current = 0 \/ ~fresh)
    /\ current # 0 \/ Len(inodes) < MaxIno
    /\ head' = [busy |-> TRUE, ino |-> current, seen |-> object]
    /\ UNCHANGED <<object, tree, files, kernel, fails, suspect, removed, ub>>

\* Variant: the answer renews the ttl and nothing else.
Answered_TtlOnly(size) ==
    /\ fresh' = TRUE
    /\ UNCHANGED <<inodes, current>>

\* update_inode and inc_ttl.
Answered(size) ==
    /\ fresh' = TRUE
    /\ inodes' = [inodes EXCEPT ![head.ino].size = size]
    /\ UNCHANGED current

\* The HEAD of a file that is gone leaves the size as the stack had it.
ApplyHead ==
    /\ ~ub /\ head.busy /\ head.ino # 0 /\ ~inodes[head.ino].freed
    /\ \E size \in IF head.seen # Missing THEN {head.seen.len} ELSE Lengths : Answered(size)
    /\ suspect' = (object # head.seen \/ ~Quiet)
    /\ head' = NoHead
    /\ UNCHANGED <<object, files, kernel, fails, removed, ub>>

\* find_dentry goes on with the dentry it has found before the HEAD.
ApplyHeadFreed ==
    /\ ~ub /\ head.busy /\ head.ino # 0 /\ inodes[head.ino].freed
    /\ ub' = TRUE
    /\ UNCHANGED <<object, tree, head, files, kernel, fails, suspect, removed>>

AddFound ==
    /\ ~ub /\ head.busy /\ head.ino = 0
    /\ IF head.seen = Missing THEN UNCHANGED <<tree, suspect>>
       ELSE /\ inodes' = Append(inodes, Inode(head.seen.len))
            /\ current' = Len(inodes) + 1
            /\ fresh' = TRUE
            /\ suspect' = (object # head.seen \/ ~Quiet)
    /\ head' = NoHead
    /\ UNCHANGED <<object, files, kernel, fails, removed, ub>>

HeadFails ==
    /\ ~ub /\ head.busy /\ fails < MaxFails
    /\ fails' = fails + 1
    /\ head' = NoHead
    /\ UNCHANGED <<object, tree, files, kernel, suspect, removed, ub>>

\* A handler that changes the directory waits for a lookup that holds its
\* lock; one that revalidates a name holds none.
DirUnlocked == ~ub /\ (head.busy => head.ino # 0)

\* create_dentry puts an empty object and gives the dentry no ttl; then the
\* file is opened.
Create ==
    /\ DirUnlocked /\ current = 0 /\ ~Exists
    /\ Len(inodes) < MaxIno /\ Len(files) < MaxHandles
    /\ object' = [by |-> 0, len |-> 0]
    /\ inodes' = Append(inodes, Inode(0))
    /\ current' = Len(inodes) + 1 /\ fresh' = FALSE
    /\ files' = Append(files, File(Len(inodes) + 1, 0, ~Quiet))
    /\ suspect' = FALSE /\ removed' = FALSE
    /\ UNCHANGED <<head, kernel, fails, ub>>

\* The put that failed may have been carried out all the same.
CreateFails ==
    /\ DirUnlocked /\ current = 0 /\ ~Exists /\ fails < MaxFails
    /\ object' \in {object, [by |-> 0, len |-> 0]}
    /\ fails' = fails + 1
    /\ UNCHANGED <<tree, head, files, kernel, suspect, removed, ub>>

MayUnlink ==
    /\ DirUnlocked /\ current # 0
    /\ \A h \in DOMAIN files : IF EarlyUnlink THEN files[h].phase # "open"
                               ELSE files[h].phase \in {"released", "failed"}

\* Variant: the dentry stays a child of the directory.
Unlink_StaysLinked ==
    /\ MayUnlink
    /\ object' = Missing
    /\ inodes' = [inodes EXCEPT ![current].freed = TRUE]
    /\ removed' = TRUE
    /\ UNCHANGED <<current, fresh, head, files, kernel, fails, suspect, ub>>

\* remove_child frees the inode.
Unlink ==
    /\ MayUnlink
    /\ object' = Missing
    /\ inodes' = [inodes EXCEPT ![current].freed = TRUE]
    /\ current' = 0 /\ fresh' = FALSE
    /\ removed' = TRUE
    /\ UNCHANGED <<head, files, kernel, fails, suspect, ub>>

\* The dentry stays.
UnlinkFails ==
    /\ MayUnlink /\ fails < MaxFails
    /\ object' \in {object, Missing}
    /\ fails' = fails + 1
    /\ UNCHANGED <<tree, head, files, kernel, suspect, removed, ub>>

Expire ==
    /\ ~ub /\ fresh
    /\ fresh' = FALSE
    /\ UNCHANGED <<object, inodes, current, head, files, kernel, fails, suspect, removed, ub>>

-----------------------------------------------------------------------------
(* Handles.                                                                *)

\* openfile asks nobody: the size is the cached one, old or new.
OpenFile ==
    /\ ~ub /\ current # 0 /\ Len(files) < MaxHandles
    /\ files' = Append(files, File(current, inodes[current].size, suspect \/ ~Quiet \/ ~Exists))
    /\ UNCHANGED <<object, tree, head, kernel, fails, suspect, removed, ub>>

\* Variant: the inode is not told of the new size.
Write_HandleOnly(h) ==
    /\ Open(h)
    /\ \E n \in files[h].acked + 1 .. MaxLen :
          files' = [files EXCEPT ![h].acked = n, ![h].size = n, ![h].disturbed = TRUE]
    /\ suspect' = (Writers \ {h} # {})
    /\ UNCHANGED <<object, tree, head, kernel, fails, removed, ub>>

\* writefile: the sizes of handle and inode become the writer's.  A write that
\* fails changes none of them.
Write(h) ==
    /\ Open(h)
    /\ \E n \in files[h].acked + 1 .. MaxLen :
          /\ files' = [files EXCEPT ![h].acked = n, ![h].size = n, ![h].disturbed = TRUE]
          /\ inodes' = [inodes EXCEPT ![files[h].ino].size = n]
    /\ suspect' = (Writers \ {h} # {})
    /\ UNCHANGED <<object, current, fresh, head, kernel, fails, removed, ub>>

\* Variant: a read over the end of the file is answered like one behind it.
Read_NoShort(h) ==
    /\ Open(h) /\ files[h].read.st # "asked"
    /\ \E off \in 0 .. MaxLen - 1 :
          files' = [files EXCEPT ![h].read =
              IF off + MaxLen > files[h].size THEN [st |-> "done", off |-> off, n |-> 0]
              ELSE [st |-> "asked", off |-> off, n |-> MaxLen]]
    /\ UNCHANGED <<object, tree, head, kernel, fails, suspect, removed, ub>>

\* OpenFile::read cuts the range off at the size that the handle has now.
Read(h) ==
    /\ Open(h) /\ files[h].read.st # "asked"
    /\ \E off \in 0 .. MaxLen - 1 :
          files' = [files EXCEPT ![h].read =
              IF off >= files[h].size THEN [st |-> "done", off |-> off, n |-> 0]
              ELSE [st |-> "asked", off |-> off, n |-> Least(MaxLen, files[h].size - off)]]
    /\ UNCHANGED <<object, tree, head, kernel, fails, suspect, removed, ub>>

\* DirectReader: the store refuses a range that begins behind the object.
Get(h) ==
    /\ Open(h) /\ files[h].read.st = "asked"
    /\ LET r == files[h].read
       IN  files' = [files EXCEPT ![h].read =
               IF r.off >= object.len THEN [r EXCEPT !.st = "refused", !.n = 0]
               ELSE [r EXCEPT !.st = "done", !.n = Least(r.n, object.len - r.off)]]
    /\ UNCHANGED <<object, tree, head, kernel, fails, suspect, removed, ub>>

GetFails(h) ==
    /\ Open(h) /\ files[h].read.st = "asked" /\ fails < MaxFails
    /\ fails' = fails + 1
    /\ files' = [files EXCEPT ![h].read = NoRead]
    /\ UNCHANGED <<object, tree, head, kernel, suspect, removed, ub>>

\* The last close(2): flush does nothing and is answered.
Close(h) ==
    /\ Open(h) /\ files[h].read.st # "asked"
    /\ files' = [files EXCEPT ![h].phase = "closed", ![h].read = NoRead]
    /\ queue' = Append(queue, h)
    /\ UNCHANGED <<object, tree, head, dirs, unanswered, fails, suspect, removed, ub>>

CloseDir ==
    /\ ~ub /\ dirs < MaxDirs
    /\ dirs' = dirs + 1
    /\ queue' = Append(queue, 0)
    /\ UNCHANGED <<object, tree, head, files, unanswered, fails, suspect, removed, ub>>

\* The kernel has so many requests of this kind out at a time.
Releasing == {h \in DOMAIN files : files[h].phase = "releasing"}

Send ==
    /\ ~ub /\ queue # <<>> /\ unanswered + Cardinality(Releasing) < MaxBackground
    /\ queue' = Tail(queue)
    /\ IF Head(queue) = 0
       THEN unanswered' = unanswered + 1 /\ UNCHANGED files
       ELSE files' = [files EXCEPT ![Head(queue)].phase = "releasing"] /\ UNCHANGED unanswered
    /\ UNCHANGED <<object, tree, head, dirs, fails, suspect, removed, ub>>

\* The object becomes what was written to the handle.
Put(h) ==
    IF files[h].acked = 0 THEN UNCHANGED object
    ELSE object' = [by |-> h, len |-> files[h].acked]

After(h, phase) ==
    LET fs == [files EXCEPT ![h].phase = phase, ![h].stored = (object' # object)]
    IN  files' = IF object' = object THEN fs ELSE Disturbed(fs, h)

\* Variant: a release in the middle of another is left to that one.
Release_Merged(h) ==
    /\ ~ub /\ h \in Releasing
    /\ IF Releasing # {h} THEN UNCHANGED object ELSE Put(h)
    /\ After(h, "released")
    /\ suspect' = (suspect \/ files[h].ino # current)
    /\ UNCHANGED <<tree, head, kernel, fails, removed, ub>>

Release(h) ==
    /\ ~ub /\ h \in Releasing
    /\ Put(h)
    /\ After(h, "released")
    /\ suspect' = (suspect \/ files[h].ino # current)
    /\ UNCHANGED <<tree, head, kernel, fails, removed, ub>>

\* Variant: a release that fails is not answered.
ReleaseFails_NoReply(h) ==
    /\ ~ub /\ h \in Releasing /\ files[h].acked > 0 /\ fails < MaxFails
    /\ fails' = fails + 1
    /\ UNCHANGED object \/ Put(h)
    /\ After(h, "failed")
    /\ suspect' = TRUE
    /\ unanswered' = unanswered + 1
    /\ UNCHANGED <<tree, head, queue, dirs, removed, ub>>

\* EIO, of which no application hears.
ReleaseFails(h) ==
    /\ ~ub /\ h \in Releasing /\ files[h].acked > 0 /\ fails < MaxFails
    /\ fails' = fails + 1
    /\ UNCHANGED object \/ Put(h)
    /\ After(h, "failed")
    /\ suspect' = TRUE
    /\ UNCHANGED <<tree, head, kernel, removed, ub>>

Rest == (ub \/ (queue = <<>> /\ Releasing = {} /\ ~head.busy)) /\ UNCHANGED vars

LookupReturns == ApplyHead \/ ApplyHeadFreed \/ AddFound \/ HeadFails
ReadReturns(h) == Get(h) \/ GetFails(h)
ReleaseReturns(h) == Release(h) \/ ReleaseFails(h)

Next ==
    \/ Lookup \/ LookupReturns \/ Create \/ CreateFails \/ Unlink \/ UnlinkFails \/ Expire
    \/ OpenFile \/ CloseDir \/ Send \/ Rest
    \/ \E h \in DOMAIN files :
          Write(h) \/ Read(h) \/ ReadReturns(h) \/ Close(h) \/ ReleaseReturns(h)

Spec == Init /\ [][Next]_vars

\* Handlers return, the kernel sends what it may, a ttl runs out, and the name
\* is looked up again and again.
Fairness ==
    /\ WF_vars(LookupReturns) /\ WF_vars(Send) /\ WF_vars(Expire) /\ WF_vars(Lookup)
    /\ \A h \in Handles : /\ WF_vars(h \in DOMAIN files /\ ReadReturns(h))
                          /\ WF_vars(h \in DOMAIN files /\ ReleaseReturns(h))
FairSpec == Spec /\ Fairness

-----------------------------------------------------------------------------
(* Properties.                                                             *)

TypeOK ==
    /\ object \in {Missing} \cup [by : {0} \cup Handles, len : Lengths]
    /\ Len(inodes) <= MaxIno
    /\ inodes \in Seq([size : Lengths, freed : BOOLEAN])
    /\ current \in 0 .. Len(inodes) /\ fresh \in BOOLEAN /\ suspect \in BOOLEAN
    /\ current # 0 => ~inodes[current].freed
    /\ head \in [busy : BOOLEAN, ino : 0 .. Len(inodes),
                 seen : {Missing} \cup [by : {0} \cup Handles, len : Lengths]]
    /\ Len(files) <= MaxHandles
    /\ files \in Seq([ino : DOMAIN inodes, size : Lengths, acked : Lengths,
                      phase : {"open", "closed", "releasing", "released", "failed"},
                      read : [st : {"none", "asked", "done", "refused"}, off : Lengths, n : Lengths],
                      stored : BOOLEAN, disturbed : BOOLEAN])
    /\ queue \in Seq({0} \cup {h \in DOMAIN files : files[h].phase = "closed"})
    /\ dirs \in 0 .. MaxDirs /\ unanswered \in 0 .. MaxBackground /\ fails \in 0 .. MaxFails
    /\ removed \in BOOLEAN /\ ub \in BOOLEAN

\* When nothing that was written is waiting to be put, the cache has the size
\* of the object.  It may not, which suspect says, when two handles were
\* written to at a time, when a release failed, or when the answer to a HEAD
\* was applied that is older than a put or came while one was due; a write by
\* one handle alone, or a HEAD that nothing came between, sets it right again.
SizeAgrees ==
    ~ub /\ Quiet /\ ~suspect /\ current # 0 /\ Exists => inodes[current].size = object.len

\* Whatever happened: once nothing is waiting to be put for good, the cache
\* comes to the size of the object and keeps it.
SizeCatchesUp ==
    <>[]Quiet => <>[](ub \/ (current # 0 /\ Exists => inodes[current].size = object.len))

\* A reader whose object was not replaced since it opened the file, and which
\* opened it when the size in the cache was right, reads it to its end: a read
\* ends short only there, and the store refuses none.
ReadsWhole ==
    \A h \in DOMAIN files :
        LET r == files[h].read
        IN  ~files[h].disturbed =>
               /\ r.st # "refused"
               /\ r.st = "done" /\ r.off <= object.len => r.off + r.n = object.len

PhaseOf(h) == IF h \in DOMAIN files THEN files[h].phase ELSE "unused"

\* Of every handle the object is replaced by what FileUpload says: by all the
\* bytes written to it, at its release, or by none.
Upload(h) == INSTANCE FileUpload WITH
    acked <- IF h \in DOMAIN files THEN files[h].acked ELSE 0,
    content <- IF h \in DOMAIN files /\ files[h].stored THEN "new" ELSE "old",
    phase <- CASE PhaseOf(h) = "released" -> "closed" [] PhaseOf(h) = "failed" -> "failed"
             [] OTHER -> "open"

HandlesUpload ==
    /\ \A h \in Handles : Upload(h)!Init
    /\ [][\A h \in Handles : [Upload(h)!Next]_(Upload(h)!uvars)]_vars

\* What was closed is released, although the kernel never has an answer to the
\* RELEASEDIR requests that are before it in its queue.
ReleasesHandled ==
    \A h \in Handles :
        PhaseOf(h) = "closed" ~> ub \/ PhaseOf(h) \in {"released", "failed"}

\* A file that was removed is gone until it is made again.
RemovedStaysGone == removed => ~Exists
=============================================================================
