----------------------------- MODULE DentryCache -----------------------------
(***************************************************************************)
(* The metadata cache of catfs: MetaImpl over LocalMemMeta, a tree of      *)
(* dentries that shadows the keys of the bucket (meta/meta_impl.cpp,       *)
(* meta/meta_local_mem.cpp, types/dentry.h).                               *)
(*                                                                         *)
(* A request is served by one thread of the FUSE loop.  It is cut at the   *)
(* remote calls: what a handler does between two of them is one step, and  *)
(* the answer of a call may be out of date when it is applied.             *)
(*                                                                         *)
(* A key is the sequence of its components, so that the key "d/f" is       *)
(* <<"d", "f">> and the marker object "d/" that mkdir puts is <<"d", "">>. *)
(* A dentry is known by its inode number, which is never given twice; it   *)
(* stays in dentry_index for good, whether or not its memory was freed.    *)
(***************************************************************************)
EXTENDS Integers, FiniteSets, Sequences, Functions

CONSTANTS
    Threads,        \* threads of the FUSE loop
    NameOrder,      \* the component names in key order, "" first
    Keys,           \* bound: the keys there can be
    PageSize,       \* entries of a page of a listing
    MaxIno,         \* bound: no request begins that may go beyond this number
    OtherClients,   \* do other clients write to the bucket?
    KeepsOpen,      \* may an inode be in use after its name was removed?
    RemoteFails,    \* may a remote call fail?
    LostReplies     \* may a failed put or delete have taken effect?

Root == 1
Names == Range(NameOrder)

ASSUME CacheAssumption ==
    /\ NameOrder \in Seq(Names) /\ NameOrder # <<>> /\ NameOrder[1] = ""
    /\ \A i, j \in DOMAIN NameOrder : NameOrder[i] = NameOrder[j] => i = j
    /\ \A k \in Keys : k \in Seq(Names) /\ k # <<>>
    /\ PageSize \in Nat \ {0}
    /\ MaxIno \in Nat \ {0}
    /\ {OtherClients, KeepsOpen, RemoteFails, LostReplies} \subseteq BOOLEAN

VARIABLES
    bucket,     \* the keys that exist
    dent,       \* inode number |-> dentry, of every dentry ever made
    freed,      \* those whose memory was given back by remove_child
    known,      \* inode numbers the kernel has been given and may use
    req,        \* thread |-> the request it serves
    ub          \* memory was used after it was freed: anything may happen

vars == <<bucket, dent, freed, known, req, ub>>

-----------------------------------------------------------------------------
(* Dentries.                                                               *)

\* type is the file type of the inode's mode: "dir", "reg", or "none" for a
\* mode without one.  fresh: the ttl lies ahead.
Dentry(name, parent, type) ==
    [name |-> name, parent |-> parent, type |-> type, fresh |-> FALSE,
     complete |-> FALSE, synced |-> FALSE, kids |-> [n \in {} |-> Root]]

\* Variant: the counter is bumped twice.
NextIno_Skips == Cardinality(DOMAIN dent) + 2

NextIno == Cardinality(DOMAIN dent) + 1

IsDir(x) == dent[x].type = "dir"
Kids(x) == Range(dent[x].kids)
HasKids(x) == DOMAIN dent[x].kids # {}

\* x and the dentries above it, as get_full_path walks them.
Ancestry(x) ==
    LET up[y \in DOMAIN dent] == IF y = Root THEN {Root} ELSE {y} \cup up[dent[y].parent]
    IN  up[x]

Path(x) ==
    LET path[y \in DOMAIN dent] ==
            IF y = Root THEN <<>> ELSE Append(path[dent[y].parent], dent[y].name)
    IN  path[x]

\* The path of x leads through memory that was freed.
PathFreed(x) == Ancestry(x) \cap freed # {}

\* The dentries of the tree: those that get_child can still come to.
Attached ==
    LET up[y \in DOMAIN dent] ==
            \/ y = Root
            \/ y \in Kids(dent[y].parent) /\ up[dent[y].parent]
    IN  {y \in DOMAIN dent : up[y]}

Bind(kids, name, x) == [n \in DOMAIN kids \cup {name} |-> IF n = name THEN x ELSE kids[n]]
Without(kids, names) == Restrict(kids, DOMAIN kids \ names)

\* add_child: an entry of that name is replaced.
AddKid(x, name, new) ==
    [y \in DOMAIN dent \cup {NextIno} |->
        IF y = NextIno THEN new
        ELSE IF y = x THEN [dent[x] EXCEPT !.kids = Bind(@, name, NextIno)]
        ELSE dent[y]]

\* remove_child of every entry in names frees these.
KidsNamed(x, names) == {dent[x].kids[n] : n \in DOMAIN dent[x].kids \cap names}

-----------------------------------------------------------------------------
(* The store.                                                              *)

FileKey(x, name) == Append(Path(x), name)
DirKey(x, name) == Path(x) \o <<name, "">>

\* The keys with prefix "path/".
Below(path) == {k \in bucket : Len(k) > Len(path) /\ SubSeq(k, 1, Len(path)) = path}

\* A listing with delimiter "/" has an entry for each next component: an
\* object, the marker of path itself among them, or a common prefix.
Entries(path) == {n \in Names : \E k \in Below(path) : k[Len(path) + 1] = n}
IsObject(path, name) == Append(path, name) \in bucket

Before(n, m) ==
    \E i, j \in DOMAIN NameOrder : i < j /\ NameOrder[i] = n /\ NameOrder[j] = m

Behind(path, marker) == {n \in Entries(path) : marker = "start" \/ Before(marker, n)}
Page(path, marker) ==
    LET rest == Behind(path, marker)
    IN  {n \in rest : Cardinality({m \in rest : Before(m, n)}) < PageSize}

Last(names) == {n \in names : \A m \in names : ~Before(n, m)}

\* build_ftree_from_listobjects: an object wins over a prefix of its name.
Listed(path, names) == [n \in names |-> IF IsObject(path, n) THEN "reg" ELSE "dir"]

-----------------------------------------------------------------------------
(* Requests.                                                               *)

\* type is what is to be made, found what the store has by the name.  page, seen,
\* marker and more belong to the refresh of a directory: seen, which the code
\* does not keep, are the names it has been given so far.
NoRequest == [op |-> "none", dir |-> Root, name |-> "", pc |-> "idle", lock |-> "none",
              type |-> "none", found |-> "none", target |-> Root, page |-> [n \in {} |-> "none"],
              seen |-> {}, marker |-> "start", more |-> FALSE]

Init ==
    /\ bucket \in SUBSET Keys
    /\ dent = [x \in {Root} |-> Dentry("", Root, "dir")]
    /\ freed = {}
    /\ known = {Root}
    /\ req = [t \in Threads |-> NoRequest]
    /\ ub = FALSE

At(t, pc) == ~ub /\ req[t].pc = pc
Goto(t, pc) == req' = [req EXCEPT ![t].pc = pc]
Finish(t) == req' = [req EXCEPT ![t] = NoRequest]

\* The kernel calls with the lock of a directory: shared for readdir and for a
\* lookup, exclusive for what changes it and for a directory being removed.
\* A lookup that only revalidates a name it knows takes none.
LockOf(op, x, name) ==
    CASE op = "readdir" -> "shared"
      [] op = "lookup" -> IF KidsNamed(x, {name}) \cap known # {} THEN "none" ELSE "shared"
      [] OTHER -> "exclusive"

Locks(t, x) ==
    IF req[t].op # "none" /\ req[t].dir = x THEN req[t].lock
    ELSE IF req[t].op = "remove" /\ x \in KidsNamed(req[t].dir, {req[t].name})
         THEN "exclusive" ELSE "none"

MayLock(lock, x) ==
    \A t \in Threads :
        Locks(t, x) = "none" \/ lock = "none" \/ (Locks(t, x) = "shared" /\ lock = "shared")

\* The kernel has one lookup at a time of a name it does not know.
LookedUp(x, name) ==
    \E t \in Threads : req[t].op = "lookup" /\ req[t].lock = "shared"
                       /\ req[t].dir = x /\ req[t].name = name

\* Bound: behind MaxIno only what the cache holds is asked for.
WithinBound(op, x, name) ==
    NextIno <= MaxIno \/ (op \in {"lookup", "remove"} /\ name \in DOMAIN dent[x].kids)

Begin(t, op, x, name, type) ==
    /\ At(t, "idle")
    /\ IsDir(x)
    /\ MayLock(LockOf(op, x, name), x)
    /\ WithinBound(op, x, name)
    /\ req' = [req EXCEPT ![t] = [NoRequest EXCEPT
                  !.op = op, !.dir = x, !.name = name, !.type = type,
                  !.lock = LockOf(op, x, name),
                  !.pc = IF op = "readdir" THEN "load" ELSE "find"]]
    /\ UNCHANGED <<bucket, dent, freed, known, ub>>

Lookup(t) ==
    \E x \in known, n \in Names \ {""} :
        /\ LockOf("lookup", x, n) = "none" \/ ~LookedUp(x, n)
        /\ Begin(t, "lookup", x, n, "none")

Create(t) ==
    \E x \in known, n \in Names \ {""} :
        \/ FileKey(x, n) \in Keys /\ Begin(t, "create", x, n, "reg")
        \/ DirKey(x, n) \in Keys /\ Begin(t, "create", x, n, "dir")

\* unlink and rmdir of a name that the kernel has looked up.
Remove(t) ==
    \E x \in known : \E n \in DOMAIN dent[x].kids :
        /\ dent[x].kids[n] \in known
        /\ MayLock("exclusive", dent[x].kids[n])
        /\ Begin(t, "remove", x, n, "none")

\* The first readdir of a directory handle.
ReadDir(t) == \E x \in known : Begin(t, "readdir", x, "", "none")

-----------------------------------------------------------------------------
(* find_dentry.                                                            *)

Hit(t) == req[t].name \in DOMAIN dent[req[t].dir].kids
Child(t) == dent[req[t].dir].kids[req[t].name]

\* The next step of t touches memory that remove_child has freed: the
\* directory, the dentry it has found, or one on the path it puts together.
NeedsPath(t) ==
    \/ req[t].pc = "find" /\ ~(Hit(t) /\ dent[Child(t)].fresh)
    \/ req[t].pc = "load" /\ ~(dent[req[t].dir].complete /\ dent[req[t].dir].fresh)
    \/ req[t].pc = "list_one"
    \/ req[t].pc = "absent" /\ req[t].op = "create"

TouchesFreed(t) ==
    \/ /\ req[t].pc \in {"find", "add", "add_new", "remove_child", "load", "build", "clear", "entries"}
       /\ req[t].dir \in freed
    \/ req[t].pc \in {"apply", "found"} /\ PathFreed(req[t].target)
    \/ NeedsPath(t) /\ PathFreed(req[t].dir)

UseAfterFree(t) ==
    /\ ~ub
    /\ TouchesFreed(t)
    /\ ub' = TRUE
    /\ UNCHANGED <<bucket, dent, freed, known, req>>

Local(t, pc) == At(t, pc) /\ ~TouchesFreed(t)

\* Variant: only the cache is asked.
FindMissing_OnlyLocal(t) ==
    /\ Local(t, "find") /\ ~Hit(t)
    /\ Goto(t, "absent")
    /\ UNCHANGED <<bucket, dent, freed, known, ub>>

FindMissing(t) ==
    /\ Local(t, "find") /\ ~Hit(t)
    /\ Goto(t, "head_file")
    /\ UNCHANGED <<bucket, dent, freed, known, ub>>

FindCached(t) ==
    /\ Local(t, "find") /\ Hit(t)
    /\ req' = [req EXCEPT ![t].target = Child(t),
                          ![t].pc = IF dent[Child(t)].fresh THEN "found" ELSE "head_expired"]
    /\ UNCHANGED <<bucket, dent, freed, known, ub>>

\* Variant: no HEAD is made for the directory's marker, nor the list call.
HeadFile_FilesOnly(t) ==
    /\ At(t, "head_file")
    /\ req' = [req EXCEPT ![t].found = "reg",
                  ![t].pc = IF FileKey(req[t].dir, req[t].name) \in bucket THEN "add" ELSE "absent"]
    /\ UNCHANGED <<bucket, dent, freed, known, ub>>

\* get_remote_obj: first the file, then the marker of a directory.
HeadFile(t) ==
    /\ At(t, "head_file")
    /\ IF FileKey(req[t].dir, req[t].name) \in bucket
       THEN req' = [req EXCEPT ![t].pc = "add", ![t].found = "reg"]
       ELSE Goto(t, "head_dir")
    /\ UNCHANGED <<bucket, dent, freed, known, ub>>

HeadDir(t) ==
    /\ At(t, "head_dir")
    /\ IF DirKey(req[t].dir, req[t].name) \in bucket
       THEN req' = [req EXCEPT ![t].pc = "add", ![t].found = "dir"]
       ELSE Goto(t, "list_one")
    /\ UNCHANGED <<bucket, dent, freed, known, ub>>

\* is_remote_dir_exist lists one entry below the name and looks for an object:
\* the store groups by "/" although the request says not to.
ListOne(t) ==
    /\ Local(t, "list_one")
    /\ LET path == FileKey(req[t].dir, req[t].name)
       IN  IF \E n \in Entries(path) :
                  IsObject(path, n) /\ \A m \in Entries(path) : ~Before(m, n)
           THEN req' = [req EXCEPT ![t].pc = "add", ![t].found = "dir"]
           ELSE Goto(t, "absent")
    /\ UNCHANGED <<bucket, dent, freed, known, ub>>

\* create_dentry_from_obj or, for a virtual directory, create_dentry; inc_ttl.
AddFound(t) ==
    /\ Local(t, "add")
    /\ dent' = AddKid(req[t].dir, req[t].name,
                   [Dentry(req[t].name, req[t].dir, req[t].found) EXCEPT !.fresh = TRUE])
    /\ req' = [req EXCEPT ![t].target = NextIno, ![t].pc = "found"]
    /\ UNCHANGED <<bucket, freed, known, ub>>

HeadExpired(t) ==
    /\ At(t, "head_expired")
    /\ Goto(t, "apply")
    /\ UNCHANGED <<bucket, dent, freed, known, ub>>

\* The answer to that HEAD only brings a size, and never has a mode, so a file's becomes 0644, without
\* the bits of a file type, whether or not the object still exists.
ApplyHead(t) ==
    /\ Local(t, "apply")
    /\ dent' = [dent EXCEPT ![req[t].target].fresh = TRUE,
                            ![req[t].target].type = IF @ = "dir" THEN @ ELSE "none"]
    /\ Goto(t, "found")
    /\ UNCHANGED <<bucket, freed, known, ub>>

-----------------------------------------------------------------------------
(* lookup, create, mkdir, unlink, rmdir.                                   *)

\* The kernel drops what it knew by the name, but for keep, and all below.
Dropped(x, name, keep) ==
    IF KeepsOpen THEN {}
    ELSE {y \in known : \E z \in Ancestry(y) \ {Root, keep} :
                            dent[z].parent = x /\ dent[z].name = name}

\* The answer to lookup, create and mkdir; the kernel refuses a file type it
\* does not know.
ReplyEntry(t) ==
    /\ Local(t, "found")
    /\ req[t].op \in {"lookup", "create"}
    /\ LET x == req[t].target
           now == IF dent[x].type = "none" THEN {} ELSE {x}
       IN  known' = (known \ Dropped(req[t].dir, req[t].name, x)) \cup now
    /\ Finish(t)
    /\ UNCHANGED <<bucket, dent, freed, ub>>

\* find_dentry has returned NULL: ENOENT for a lookup, nothing to do for a
\* remove, and create_dentry goes on.
Absent(t) ==
    /\ Local(t, "absent")
    /\ \/ /\ req[t].op = "create"
          /\ Goto(t, "put")
          /\ UNCHANGED known
       \/ /\ req[t].op # "create"
          /\ known' = known \ Dropped(req[t].dir, req[t].name, Root)
          /\ Finish(t)
    /\ UNCHANGED <<bucket, dent, freed, ub>>

NewKey(t) ==
    IF req[t].type = "dir" THEN DirKey(req[t].dir, req[t].name)
                           ELSE FileKey(req[t].dir, req[t].name)

PutObject(t) ==
    /\ At(t, "put")
    /\ bucket' = bucket \cup {NewKey(t)}
    /\ Goto(t, "add_new")
    /\ UNCHANGED <<dent, freed, known, ub>>

\* The new dentry's ttl stays in the past.
AddNew(t) ==
    /\ Local(t, "add_new")
    /\ dent' = AddKid(req[t].dir, req[t].name, Dentry(req[t].name, req[t].dir, req[t].type))
    /\ req' = [req EXCEPT ![t].target = NextIno, ![t].pc = "found"]
    /\ UNCHANGED <<bucket, freed, known, ub>>

\* A directory with children in the cache is not removed: ENOTEMPTY.
RemoveFound(t) ==
    /\ Local(t, "found")
    /\ req[t].op = "remove"
    /\ LET x == req[t].target
       IN  IF IsDir(x) /\ HasKids(x) THEN Finish(t) ELSE Goto(t, "delete")
    /\ UNCHANGED <<bucket, dent, freed, known, ub>>

\* Variant: a directory's key is taken without the slash.
OldKey_NoSlash(t) == Path(req[t].target)

OldKey(t) ==
    IF IsDir(req[t].target) THEN Append(Path(req[t].target), "") ELSE Path(req[t].target)

DeleteObject(t) ==
    /\ At(t, "delete")
    /\ bucket' = bucket \ {OldKey(t)}
    /\ Goto(t, "remove_child")
    /\ UNCHANGED <<dent, freed, known, ub>>

\* Variant: the dentry is left in its parent.
RemoveChild_StaysLinked(t) ==
    /\ Local(t, "remove_child")
    /\ freed' = freed \cup KidsNamed(req[t].dir, {req[t].name})
    /\ known' = known \ Dropped(req[t].dir, req[t].name, Root)
    /\ Finish(t)
    /\ UNCHANGED <<bucket, dent, ub>>

\* Variant: local_meta->remove_dentry is not called.
RemoveChild_Forgotten(t) ==
    /\ Local(t, "remove_child")
    /\ known' = known \ Dropped(req[t].dir, req[t].name, Root)
    /\ Finish(t)
    /\ UNCHANGED <<bucket, dent, freed, ub>>

\* remove_child frees whichever dentry now has the name.
RemoveChild(t) ==
    /\ Local(t, "remove_child")
    /\ freed' = freed \cup KidsNamed(req[t].dir, {req[t].name})
    /\ dent' = [dent EXCEPT ![req[t].dir].kids = Without(@, {req[t].name})]
    /\ known' = known \ Dropped(req[t].dir, req[t].name, Root)
    /\ Finish(t)
    /\ UNCHANGED <<bucket, ub>>

-----------------------------------------------------------------------------
(* readdir: load_sub_dentries and refresh_sub_dentries.                    *)

\* A directory that is complete and whose ttl lies ahead is not listed again.
LoadDir(t) ==
    /\ Local(t, "load")
    /\ LET d == dent[req[t].dir]
       IN  Goto(t, IF d.complete /\ d.fresh THEN "entries" ELSE "list")
    /\ UNCHANGED <<bucket, dent, freed, known, ub>>

\* Variant: the listing does not go on behind the page.
ListPage_First(t) ==
    /\ At(t, "list")
    /\ LET path == Path(req[t].dir)
           names == Page(path, req[t].marker)
       IN  req' = [req EXCEPT ![t].pc = "build",
                              ![t].page = Listed(path, names),
                              ![t].seen = @ \cup names]
    /\ UNCHANGED <<bucket, dent, freed, known, ub>>

\* Variant: the next page is asked for with the old marker.
ListPage_SameMarker(t) ==
    /\ At(t, "list")
    /\ LET path == Path(req[t].dir)
           names == Page(path, req[t].marker)
       IN  req' = [req EXCEPT ![t].pc = "build",
                              ![t].page = Listed(path, names),
                              ![t].seen = @ \cup names,
                              ![t].more = names # Behind(path, req[t].marker)]
    /\ UNCHANGED <<bucket, dent, freed, known, ub>>

\* One list_objects call.  The marker of the next page is the last entry of
\* this one.
ListPage(t) ==
    /\ At(t, "list")
    /\ LET path == Path(req[t].dir)
           names == Page(path, req[t].marker)
           more == names # Behind(path, req[t].marker)
       IN  \E marker \in IF more THEN Last(names) ELSE {req[t].marker} :
              req' = [req EXCEPT ![t].pc = "build",
                                 ![t].page = Listed(path, names),
                                 ![t].seen = @ \cup names,
                                 ![t].more = more,
                                 ![t].marker = marker]
    /\ UNCHANGED <<bucket, dent, freed, known, ub>>

\* The names of the page that the directory has no dentry of.
Missing(t) == DOMAIN req[t].page \ DOMAIN dent[req[t].dir].kids

Numbers(n) == NextIno..(NextIno + n - 1)

\* Variant: only the dentries that are new are marked.
Built_NewOnly(t, ino) ==
    LET x == req[t].dir
        kids == [n \in DOMAIN dent[x].kids \cup Missing(t) |->
                    IF n \in Missing(t) THEN ino[n] ELSE dent[x].kids[n]]
        New(n) == [Dentry(n, x, req[t].page[n]) EXCEPT !.synced = TRUE]
    IN  [y \in DOMAIN dent \cup Range(ino) |->
            IF y = x THEN [dent[x] EXCEPT !.kids = kids, !.synced = TRUE]
            ELSE IF y \in DOMAIN dent THEN dent[y]
            ELSE New(CHOOSE n \in Missing(t) : ino[n] = y)]

\* build_dentries over one page; ino gives the missing names their numbers.
Built(t, ino) ==
    LET x == req[t].dir
        kids == [n \in DOMAIN dent[x].kids \cup Missing(t) |->
                    IF n \in Missing(t) THEN ino[n] ELSE dent[x].kids[n]]
        listed == {kids[n] : n \in DOMAIN req[t].page}
        New(n) == [Dentry(n, x, req[t].page[n]) EXCEPT !.synced = TRUE]
    IN  [y \in DOMAIN dent \cup Range(ino) |->
            IF y = x THEN [dent[x] EXCEPT !.kids = kids, !.synced = TRUE]
            ELSE IF y \in DOMAIN dent THEN [dent[y] EXCEPT !.synced = @ \/ y \in listed]
            ELSE New(CHOOSE n \in Missing(t) : ino[n] = y)]

BuildPage(t) ==
    /\ Local(t, "build")
    /\ \E ino \in Bijection(Missing(t), Numbers(Cardinality(Missing(t)))) : dent' = Built(t, ino)
    /\ Goto(t, IF req[t].more THEN "list" ELSE "clear")
    /\ UNCHANGED <<bucket, freed, known, ub>>

\* clear_unsync_dentry walks down through the directories marked as synced.
Walked(x) ==
    LET down[y \in DOMAIN dent] ==
            \/ y = x
            \/ /\ y # Root /\ y \in Kids(dent[y].parent)
               /\ IsDir(y) /\ dent[y].synced
               /\ down[dent[y].parent]
    IN  {y \in DOMAIN dent : down[y]}

Unsynced(x) == {n \in DOMAIN dent[x].kids : ~dent[dent[x].kids[n]].synced}

\* Variant: the mark is left on the files.
Cleared_KeepsMark(walked) ==
    [y \in DOMAIN dent |->
        IF y \in walked
        THEN [dent[y] EXCEPT !.synced = TRUE, !.fresh = TRUE,
                             !.complete = @ \/ HasKids(y),
                             !.kids = Without(@, Unsynced(y))]
        ELSE IF dent[y].synced /\ \E x \in walked : y \in Kids(x)
        THEN [dent[y] EXCEPT !.fresh = TRUE]
        ELSE dent[y]]

\* A directory is marked once more when its turn comes, a file is not.
Cleared(walked) ==
    [y \in DOMAIN dent |->
        IF y \in walked
        THEN [dent[y] EXCEPT !.synced = TRUE, !.fresh = TRUE,
                             !.complete = @ \/ HasKids(y),
                             !.kids = Without(@, Unsynced(y))]
        ELSE IF dent[y].synced /\ \E x \in walked : y \in Kids(x)
        THEN [dent[y] EXCEPT !.synced = FALSE, !.fresh = TRUE]
        ELSE dent[y]]

\* remove_child erases the element the walk stands on: the walk goes on from
\* freed memory, as meant or in any other way.
ClearUnsynced(t) ==
    /\ Local(t, "clear")
    /\ LET walked == Walked(req[t].dir)
           removed == UNION {KidsNamed(y, Unsynced(y)) : y \in walked}
       IN  \/ /\ dent' = Cleared(walked)
              /\ freed' = freed \cup removed
              /\ Goto(t, "entries")
              /\ UNCHANGED ub
           \/ /\ removed # {}
              /\ ub' = TRUE
              /\ UNCHANGED <<dent, freed, req>>
    /\ UNCHANGED <<bucket, known>>

\* children_list, handed to the kernel by readdirplus.  A name of no length
\* is refused there, and so is a mode without a file type.
ReplyEntries(t) ==
    /\ Local(t, "entries")
    /\ LET x == req[t].dir
           named == {n \in DOMAIN dent[x].kids \ {""} : dent[dent[x].kids[n]].type # "none"}
       IN  known' = (known \ UNION {Dropped(x, n, dent[x].kids[n]) : n \in named})
                    \cup KidsNamed(x, named)
    /\ Finish(t)
    /\ UNCHANGED <<bucket, dent, freed, ub>>

-----------------------------------------------------------------------------
(* Failures, and what happens around the cache.                            *)

\* The store answers with an error, or not at all, and the handler with EIO.
\* A put or a delete may have taken effect all the same.
Fail(t) ==
    /\ RemoteFails /\ ~ub
    /\ \/ req[t].pc \in {"head_file", "head_dir", "list_one", "head_expired", "list", "put", "delete"}
          /\ UNCHANGED bucket
       \/ LostReplies /\ req[t].pc = "put" /\ bucket' = bucket \cup {NewKey(t)}
       \/ LostReplies /\ req[t].pc = "delete" /\ bucket' = bucket \ {OldKey(t)}
    /\ Finish(t)
    /\ UNCHANGED <<dent, freed, known, ub>>

\* getattr or open of an inode whose dentry, or a directory on the way to it,
\* was freed.
UseFreed ==
    /\ ~ub
    /\ \E x \in known : PathFreed(x)
    /\ ub' = TRUE
    /\ UNCHANGED <<bucket, dent, freed, known, req>>

\* The ttl of a dentry runs out.
Expire(x) ==
    /\ ~ub
    /\ dent[x].fresh
    /\ dent' = [dent EXCEPT ![x].fresh = FALSE]
    /\ UNCHANGED <<bucket, freed, known, req, ub>>

OtherClient ==
    /\ OtherClients /\ ~ub
    /\ \E k \in Keys : bucket' = IF k \in bucket THEN bucket \ {k} ELSE bucket \cup {k}
    /\ UNCHANGED <<dent, freed, known, req, ub>>

\* Nobody asks for anything; or the process may have ended.
Idle ==
    /\ ub \/ \A t \in Threads : req[t].pc = "idle"
    /\ UNCHANGED vars

Handler(t) ==
    \/ FindMissing(t) \/ FindCached(t) \/ HeadFile(t) \/ HeadDir(t) \/ ListOne(t)
    \/ AddFound(t) \/ HeadExpired(t) \/ ApplyHead(t)
    \/ ReplyEntry(t) \/ Absent(t) \/ PutObject(t) \/ AddNew(t)
    \/ RemoveFound(t) \/ DeleteObject(t) \/ RemoveChild(t)
    \/ LoadDir(t) \/ ListPage(t) \/ BuildPage(t) \/ ClearUnsynced(t) \/ ReplyEntries(t)
    \/ UseAfterFree(t) \/ Fail(t)

Request(t) == Lookup(t) \/ Create(t) \/ Remove(t) \/ ReadDir(t)

Next ==
    \/ \E t \in Threads : Request(t) \/ Handler(t)
    \/ UseFreed \/ OtherClient \/ Idle
    \/ \E x \in Attached : Expire(x)

Spec == Init /\ [][Next]_vars

\* A handler that runs goes on to its end: the loop gives each thread time,
\* and every call to the store is answered or fails in the end.
FairSpec == Spec /\ \A t \in Threads : WF_vars(Handler(t))

-----------------------------------------------------------------------------
(* Properties.                                                             *)

Types == {"dir", "reg", "none"}

IsDentry(d) ==
    /\ d \in [name : Names, parent : DOMAIN dent, type : Types, fresh : BOOLEAN,
              complete : BOOLEAN, synced : BOOLEAN, kids : {d.kids}]
    /\ d.kids \in [DOMAIN d.kids -> DOMAIN dent] /\ DOMAIN d.kids \subseteq Names

Steps == {"idle", "find", "head_file", "head_dir", "list_one", "add", "head_expired", "apply",
          "found", "absent", "put", "add_new", "delete", "remove_child",
          "load", "list", "build", "clear", "entries"}

IsRequest(r) ==
    /\ r \in [op : {"none", "lookup", "create", "remove", "readdir"}, dir : DOMAIN dent,
              name : Names, pc : Steps, lock : {"none", "shared", "exclusive"}, type : Types,
              found : Types, target : DOMAIN dent, page : {r.page}, seen : SUBSET Names,
              marker : Names \cup {"start"}, more : BOOLEAN]
    /\ r.page \in [DOMAIN r.page -> Types] /\ DOMAIN r.page \subseteq Names

\* Type invariant.  Inode numbers are given without gaps.
TypeOK ==
    /\ IsFiniteSet(DOMAIN dent) /\ DOMAIN dent = 1..Cardinality(DOMAIN dent)
    /\ \A x \in DOMAIN dent : IsDentry(dent[x])
    /\ freed \subseteq DOMAIN dent
    /\ known \subseteq DOMAIN dent
    /\ DOMAIN req = Threads /\ \A t \in Threads : IsRequest(req[t])
    /\ ub \in BOOLEAN

Quiet == ~ub /\ \A t \in Threads : req[t].pc = "idle"

\* The tree is sound: whichever dentry it is entered by, get_child comes to one
\* whose memory remove_child has not given back, and which is linked under its
\* own name in its own parent; only directories have children.
TreeSound ==
    /\ Root \notin freed
    /\ \A x \in DOMAIN dent :
          /\ HasKids(x) => IsDir(x)
          /\ \A n \in DOMAIN dent[x].kids :
                LET y == dent[x].kids[n]
                IN  y \notin freed /\ dent[y].parent = x /\ dent[y].name = n

\* While no other client writes, a file that the cache shows, so that the
\* kernel can be told of it, has its object in the bucket: create_dentry puts
\* before it adds, remove_dentry deletes and then forgets.
CachedFilesExist ==
    Quiet => \A x \in Attached :
                 ~IsDir(x) /\ dent[x].name # "" => Path(x) \in bucket

\* While no other client writes, a directory that load_sub_dentries would
\* answer from the cache alone has everything the bucket has in it.
ListingComplete ==
    Quiet => \A x \in Attached :
                 dent[x].complete /\ dent[x].fresh
                     => Entries(Path(x)) \ {""} \subseteq DOMAIN dent[x].kids

\* While no other client writes, what the kernel has been given a number for
\* stays in the tree until it is removed by name.
KnownStaysCached == Quiet => known \subseteq Attached

\* No memory is used after remove_child has given it back.
NoUseAfterFree == ~ub

\* create_dentry never puts its empty object over one that exists.
CreateDestroysNothing ==
    [][\A t \in Threads :
          req[t].pc = "put" /\ req'[t].pc = "add_new" => NewKey(t) \notin bucket]_vars

\* remove_dentry is done with a name, and reports success, only when neither
\* an object of the name nor anything below it is left in the bucket.
RemovedIsGone ==
    [][\A t \in Threads :
          LET path == FileKey(req[t].dir, req[t].name)
          IN  req[t].pc = "remove_child" /\ req'[t].pc = "idle"
                  => path \notin bucket /\ Below(path) = {}]_vars

\* ENOENT is answered, or a name created, only when the bucket has no object
\* of the name and none below it.
AbsentMeansNoKey ==
    [][\A t \in Threads :
          LET path == FileKey(req[t].dir, req[t].name)
          IN  req[t].pc = "absent" /\ req'[t].pc # "absent"
                  => path \notin bucket /\ Below(path) = {}]_vars

\* After a refresh a directory has the entries that the listing gave, all of
\* them and no others: clear_unsync_dentry drops those that were not in it.
RefreshExact ==
    [][\A t \in Threads :
          req[t].pc = "clear" /\ req'[t].pc = "entries"
              => DOMAIN dent'[req[t].dir].kids = req[t].seen]_vars

\* Every request is answered, unless freed memory was used: handlers do not
\* wait for one another, and a listing comes to its last page.
HandlerReturns == \A t \in Threads : req[t].pc # "idle" ~> req[t].pc = "idle" \/ ub

=============================================================================
