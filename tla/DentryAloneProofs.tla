--------------------------- MODULE DentryAloneProofs ---------------------------
(***************************************************************************)
(* One thread: what the cache knows of the bucket.                         *)
(***************************************************************************)
EXTENDS DentryBucketProofs

-----------------------------------------------------------------------------
(* The invariant of one thread.                                            *)

\* A put or a delete that fails has had no effect.
NoLostReplies == ~LostReplies

\* What is not in its parent any more has been freed: nothing is leaked.
Linked == \A x \in DOMAIN dent \ {Root} : x \in freed \/ x \in Kids(dent[x].parent)

\* While the store is asked for a name, the directory gets no entry of it.
Searching == {"head_file", "head_dir", "list_one", "add", "absent", "put", "add_new"}

NotCached(t) == req[t].pc \in Searching => req[t].name \notin DOMAIN dent[req[t].dir].kids

\* What a handler that is about to add a file knows of its key, and what it
\* deletes is in the tree.
KnowsKey(t) ==
    LET r == req[t]
    IN  /\ r.pc = "add" /\ r.found # "dir" => FileKey(r.dir, r.name) \in bucket
        /\ r.pc = "add_new" => NewKey(t) \in bucket
        /\ r.pc = "build" =>
              \A n \in DOMAIN r.page : r.page[n] # "dir" => FileKey(r.dir, n) \in bucket
        /\ r.pc \in {"delete", "remove_child"} => ~PathFreed(r.target)

\* A file of the tree has its object, but for one whose object was just deleted.
FilesStored ==
    \A x \in DOMAIN dent :
        ~PathFreed(x) /\ ~IsDir(x) /\ dent[x].name # NoName
            => \/ Path(x) \in bucket
               \/ \E t \in Threads : req[t].pc = "remove_child" /\ req[t].target = x

AloneInv == Linked /\ FilesStored /\ \A t \in Threads : NotCached(t) /\ KnowsKey(t)

-----------------------------------------------------------------------------
(* Files are stored.                                                       *)

\* Nothing that can be come to has been freed, nor lies below what was.
LEMMA AttachedLive ==
    ASSUME Rooted
    PROVE  \A x \in Attached : ~PathFreed(x)
<1> DEFINE T == {x \in Attached : PathFreed(x)}
<1> SUFFICES ASSUME T # {} PROVE FALSE
  OBVIOUS
<1>1. T \in SUBSET Nat
  BY AttachedFacts, ParentFacts DEF ParentLaws
<1>2. PICK x \in T : \A y \in T : ~(y < x)
  BY <1>1, Smallest
<1>3. x \in DOMAIN dent /\ x \in Attached /\ Root \notin freed
  BY <1>2, AttachedFacts DEF Rooted, IInv, DentInv, TreeSound
<1>4. x # Root
  BY <1>2, <1>3, AncestryFacts DEF PathFreed, AncestryLaws
<1>5. /\ dent[x].parent \in DOMAIN dent /\ dent[x].parent < x /\ Hangs(x)
      /\ dent[x].parent \in Attached
  BY <1>3, <1>4, AttachedFacts, ParentFacts DEF ParentLaws
<1>6. ~PathFreed(dent[x].parent)
  BY <1>2, <1>5
<1>7. x \notin freed
  BY <1>5, DentryFacts DEF Hangs, Kids, Range, Rooted, IInv
<1> QED
  BY <1>2, <1>3, <1>4, <1>6, <1>7, AncestryFacts DEF PathFreed, AncestryLaws

\* What hangs in a dentry does so by its own name.
LEMMA HangsByName ==
    ASSUME Rooted, NEW x \in DOMAIN dent, Hangs(x)
    PROVE  /\ dent[x].parent \in DOMAIN dent /\ x \notin freed /\ x # Root
           /\ dent[x].name \in DOMAIN dent[dent[x].parent].kids
           /\ dent[dent[x].parent].kids[dent[x].name] = x
<1>1. dent[x].parent \in DOMAIN dent
  BY DentryFacts DEF Rooted, IInv, IsDentry
<1>2. PICK n \in DOMAIN dent[dent[x].parent].kids : dent[dent[x].parent].kids[n] = x
  BY DEF Hangs, Kids, Range
<1> QED
  BY <1>1, <1>2, DentryFacts DEF Rooted, IInv

\* Nothing is freed on the way to the parent of what can be reached.
LEMMA ParentLive ==
    ASSUME Rooted, NEW x \in DOMAIN dent \ {Root}, ~PathFreed(x)
    PROVE  /\ dent[x].parent \in DOMAIN dent /\ ~PathFreed(dent[x].parent)
           /\ x \notin freed
  BY ParentFacts, AncestryFacts, AncestryType DEF PathFreed, ParentLaws, AncestryLaws

\* Two dentries of one path: one of them is below memory that was freed.
LEMMA OnePath ==
    ASSUME Rooted, Linked, NEW x \in DOMAIN dent, NEW y \in DOMAIN dent,
           ~PathFreed(x), ~PathFreed(y), Path(x) = Path(y)
    PROVE  x = y
<1> DEFINE Twin(u, v) == ~PathFreed(u) /\ ~PathFreed(v) /\ Path(u) = Path(v) /\ u # v
           T == {u \in DOMAIN dent : \E v \in DOMAIN dent : Twin(u, v)}
<1> SUFFICES ASSUME T # {} PROVE FALSE
  OBVIOUS
<1>1. T \in SUBSET Nat
  BY ParentFacts DEF ParentLaws
<1>2. PICK u \in T : \A v \in T : ~(v < u)
  BY <1>1, Smallest
<1>3. PICK v \in DOMAIN dent : Twin(u, v)
  BY <1>2
<1>4. u # Root /\ v # Root
  BY <1>2, <1>3, PathType
<1> DEFINE p == dent[u].parent
           q == dent[v].parent
<1>5. /\ p \in DOMAIN dent /\ p < u /\ dent[u].name \in Names
      /\ q \in DOMAIN dent /\ dent[v].name \in Names
  BY <1>2, <1>4, ParentFacts DEF ParentLaws
<1>6. Path(u) = Append(Path(p), dent[u].name) /\ Path(v) = Append(Path(q), dent[v].name)
  BY <1>2, <1>4, PathFacts DEF PathLaws
<1>7. Path(p) \in Seq(Names) /\ Path(q) \in Seq(Names)
  BY <1>5, PathType
<1>8. Path(p) = Path(q) /\ dent[u].name = dent[v].name
  <2>1. Append(Path(p), dent[u].name) = Append(Path(q), dent[v].name)
    BY <1>3, <1>6
  <2> HIDE DEF p, q
  <2> QED
    BY <2>1, <1>5, <1>7, AppendInjective
<1>9. ~PathFreed(p) /\ ~PathFreed(q) /\ u \notin freed /\ v \notin freed
  BY <1>2, <1>3, <1>4, ParentLive
<1>10. p = q
  BY <1>2, <1>5, <1>8, <1>9
<1>11. Hangs(u) /\ Hangs(v)
  BY <1>2, <1>4, <1>9 DEF Linked, Hangs
<1> QED
  BY <1>2, <1>3, <1>8, <1>10, <1>11, HangsByName

\* The tree keeps its shape.
TreeKept ==
    /\ DOMAIN dent' = DOMAIN dent /\ freed' = freed
    /\ \A x \in DOMAIN dent :
          /\ dent'[x].name = dent[x].name /\ dent'[x].parent = dent[x].parent
          /\ SameKids(x) /\ (IsDir(x)' <=> IsDir(x))
          /\ dent'[x].synced = dent[x].synced /\ dent'[x].complete = dent[x].complete

LEMMA TreeSteps ==
    ASSUME IInv, [Next]_vars
    PROVE  \/ TreeKept
           \/ \E t \in Threads : \/ AddFound(t) \/ AddNew(t) \/ RemoveChild(t) \/ BuildPage(t)
                                 \/ ClearUnsynced(t)
<1>1. CASE (\E t \in Threads : ApplyHead(t)) \/ (\E x \in Attached : Expire(x))
  BY <1>1, FlagStep DEF TreeKept
<1>2. CASE UNCHANGED <<dent, freed>>
  BY <1>2 DEF TreeKept, SameKids, IsDir
<1>3. CASE (\E t \in Threads : Request(t)) \/ UseFreed \/ OtherClient \/ Idle \/ UNCHANGED vars
  <2>1. UNCHANGED <<dent, freed>>
    BY <1>3 DEF Request, Lookup, Create, Remove, ReadDir, Begin, UseFreed, OtherClient, Idle, vars
  <2> QED
    BY <2>1, <1>2
<1> QED
  BY <1>1, <1>2, <1>3, TreeUntouched DEF Next

\* A dentry that was in its parent is still there, or was freed.
LEMMA StaysLinked ==
    ASSUME Rooted, Extends, [Next]_vars, \A t \in Threads : NotCached(t),
           NEW x \in DOMAIN dent, Hangs(x)
    PROVE  x \in freed' \/ Hangs(x)'
<1> DEFINE p == dent[x].parent
           n == dent[x].name
<1>1. p \in DOMAIN dent /\ n \in DOMAIN dent[p].kids /\ dent[p].kids[n] = x /\ DentInv
  BY HangsByName DEF Rooted, IInv
<1>2. dent'[x].parent = p
  BY DEF Extends
<1> HIDE DEF p
<1>3. SUFFICES ASSUME x \notin freed' PROVE n \in DOMAIN dent'[p].kids /\ dent'[p].kids[n] = x
  BY <1>2 DEF Hangs, Kids, Range
<1>4. CASE TreeKept
  BY <1>1, <1>4 DEF TreeKept, SameKids
<1>5. ASSUME NEW t \in Threads, AddFound(t) \/ AddNew(t)
      PROVE  n \in DOMAIN dent'[p].kids /\ dent'[p].kids[n] = x
  <2>1. PICK new : AddedTo(req[t].dir, req[t].name, new)
    BY <1>5, AddStep DEF Rooted
  <2>2. req[t].name \notin DOMAIN dent[req[t].dir].kids
    BY <1>5 DEF AddFound, AddNew, Local, At, NotCached, Searching
  <2> QED
    BY <1>1, <2>1, <2>2 DEF AddedTo, SameKids
<1>6. ASSUME NEW t \in Threads, RemoveChild(t)
      PROVE  n \in DOMAIN dent'[p].kids /\ dent'[p].kids[n] = x
  <2>1. req[t].dir \in DOMAIN dent
    BY DEF Rooted, IInv, ReqInv, IsRequest
  <2>2. /\ LosesNames(req[t].dir, {req[t].name})
        /\ \A z \in DOMAIN dent : z # req[t].dir => SameKids(z)
    BY <1>1, <1>6, <2>1, RemoveKidEffect DEF RemoveChild
  <2>3. p = req[t].dir => n # req[t].name
    BY <1>1, <1>3, <1>6 DEF RemoveChild, KidsNamed
  <2> QED
    BY <1>1, <2>2, <2>3 DEF LosesNames, SameKids
<1>7. ASSUME NEW t \in Threads, BuildPage(t)
      PROVE  n \in DOMAIN dent'[p].kids /\ dent'[p].kids[n] = x
  <2>1. PICK ino : BuiltFrom(t, ino)
    BY <1>7, BuildStep DEF Rooted
  <2>2. p = req[t].dir => n \notin Missing(t)
    BY <1>1 DEF Missing
  <2> QED
    BY <1>1, <2>1, <2>2 DEF BuiltFrom, SameKids
<1>8. ASSUME NEW t \in Threads, ClearUnsynced(t)
      PROVE  n \in DOMAIN dent'[p].kids /\ dent'[p].kids[n] = x
  <2>1. CASE UNCHANGED <<dent, freed>>
    BY <1>1, <2>1
  <2> DEFINE walked == Walked(req[t].dir)
  <2>2. CASE /\ ClearedIn(walked)
             /\ freed' = freed \cup UNION {KidsNamed(y, Unsynced(y)) : y \in walked}
    <3>1. p \in walked => n \notin Unsynced(p)
      BY <1>1, <1>3, <2>2 DEF KidsNamed
    <3> HIDE DEF walked
    <3> QED
      BY <1>1, <2>2, <3>1 DEF ClearedIn, LosesNames, SameKids
  <2> QED
    BY <1>8, <2>1, <2>2, ClearStep DEF Rooted
<1> QED
  BY <1>4, <1>5, <1>6, <1>7, <1>8, TreeSteps DEF Rooted

\* A dentry that is made hangs in its parent, and how it was made.
MadeFor(t, x) ==
    LET r == req[t]
        d == dent'[x]
    IN  /\ d.parent = r.dir /\ Hangs(x)' /\ UNCHANGED <<bucket, freed>>
        /\ \/ AddFound(t) /\ d.name = r.name /\ d.type = r.found
           \/ AddNew(t) /\ d.name = r.name /\ d.type = r.type
           \/ BuildPage(t) /\ d.name \in Missing(t) /\ d.type = r.page[d.name]

LEMMA MadeByHandler ==
    ASSUME IInv, [Next]_vars, NEW x \in DOMAIN dent' \ DOMAIN dent
    PROVE  \E t \in Threads : MadeFor(t, x)
<1>1. PICK t \in Threads : AddFound(t) \/ AddNew(t) \/ BuildPage(t)
  BY NewByHandler
<1>2. CASE AddFound(t) \/ AddNew(t)
  <2>1. PICK type \in {req[t].found, req[t].type} :
           /\ AddFound(t) => type = req[t].found
           /\ AddNew(t) => type = req[t].type
           /\ \E new \in NewDentry(t, type) : AddedTo(req[t].dir, req[t].name, new)
    BY <1>2, AddStep
  <2>2. PICK new \in NewDentry(t, type) : AddedTo(req[t].dir, req[t].name, new)
    BY <2>1
  <2>3. x = NextIno /\ dent'[x] = new
    BY <2>2 DEF AddedTo
  <2>4. dent'[x].parent = req[t].dir /\ dent'[x].name = req[t].name /\ dent'[x].type = type
    BY <2>3, NewDentryFields
  <2>5. req[t].name \in DOMAIN dent'[req[t].dir].kids /\ dent'[req[t].dir].kids[req[t].name] = x
    BY <2>2, <2>3 DEF AddedTo
  <2>6. Hangs(x)' /\ UNCHANGED <<bucket, freed>>
    BY <1>2, <2>4, <2>5, AddStep DEF Hangs, Kids, Range
  <2> QED
    BY <1>2, <2>1, <2>4, <2>6 DEF MadeFor
<1>3. CASE BuildPage(t)
  <2>1. PICK ino : BuiltFrom(t, ino)
    BY <1>3, BuildStep
  <2>2. PICK n \in Missing(t) : x = ino[n]
    BY <2>1 DEF BuiltFrom
  <2>3. dent'[x].parent = req[t].dir /\ dent'[x].name = n /\ dent'[x].type = req[t].page[n]
    BY <2>1, <2>2 DEF BuiltFrom
  <2>4. n \in DOMAIN dent'[req[t].dir].kids /\ dent'[req[t].dir].kids[n] = x
    BY <2>1, <2>2 DEF BuiltFrom, Missing
  <2>5. Hangs(x)' /\ UNCHANGED <<bucket, freed>>
    BY <1>3, <2>3, <2>4, BuildStep DEF Hangs, Kids, Range
  <2> QED
    BY <1>3, <2>2, <2>3, <2>5 DEF MadeFor
<1> QED
  BY <1>1, <1>2, <1>3

LEMMA LinkedStep ==
    ASSUME Rooted, Extends, Linked, \A t \in Threads : NotCached(t), [Next]_vars
    PROVE  Linked'
<1>1. ASSUME NEW x \in DOMAIN dent' \ {Root} PROVE x \in freed' \/ Hangs(x)'
  <2>1. CASE x \in DOMAIN dent
    BY <2>1, <1>1, StaysLinked DEF Linked, Hangs, Extends
  <2>2. CASE x \notin DOMAIN dent
    BY <2>2, <1>1, MadeByHandler DEF MadeFor, Rooted
  <2> QED
    BY <2>1, <2>2
<1> QED
  BY <1>1 DEF Linked, Hangs, Root

\* While the store is asked, the tree stays as it was.
LEMMA SearchNext ==
    ASSUME IInv, NEW t \in Threads, Handler(t), req'[t].pc \in Searching
    PROVE  /\ UNCHANGED dent /\ SameRequest(t)
           /\ FindMissing(t) \/ req[t].pc \in Searching
<1>1. NoRequest.pc = "idle"
  BY DEF NoRequest
<1>2. CASE FindMissing(t) \/ HeadFile(t) \/ HeadDir(t) \/ ListOne(t)
  <2>1. SameRequest(t)
    BY <1>2, SearchMoves DEF MovedTo, Moved, SameCall, SameRequest
  <2> QED
    BY <1>2, <2>1 DEF FindMissing, HeadFile, HeadDir, ListOne, Searching, At, Local
<1>3. CASE Absent(t) \/ PutObject(t)
  <2>1. SameRequest(t)
    BY <1>1, <1>3, ChangeMoves DEF MovedTo, Moved, SameCall, SameRequest, Ended, Searching
  <2> QED
    BY <1>3, <2>1 DEF Absent, PutObject, Searching, At, Local
<1>4. CASE UseAfterFree(t)
  BY <1>4 DEF UseAfterFree, SameRequest
<1>5. CASE FindCached(t) \/ AddFound(t) \/ AddNew(t) \/ HeadExpired(t) \/ ApplyHead(t)
  BY <1>5, SearchMoves DEF MovedTo, Moved, Searching
<1>6. CASE \/ RemoveFound(t) \/ DeleteObject(t) \/ LoadDir(t) \/ ReplyEntry(t) \/ RemoveChild(t)
           \/ ReplyEntries(t) \/ Fail(t)
  BY <1>1, <1>6, ChangeMoves DEF MovedTo, Moved, Ended, Searching
<1>7. CASE ClearUnsynced(t)
  <2>1. req'[t].pc \in {"clear", "entries"}
    BY <1>7, ChangeMoves DEF ClearUnsynced, Local, At, MovedTo, Moved
  <2> QED
    BY <2>1 DEF Searching
<1>8. CASE BuildPage(t)
  <2>1. PICK pc : pc = IF req[t].more THEN "list" ELSE "clear"
    OBVIOUS
  <2>2. req'[t].pc = pc
    BY <1>8, <2>1, ChangeMoves DEF MovedTo, Moved
  <2> QED
    BY <2>1, <2>2 DEF Searching
<1>9. CASE ListPage(t)
  BY <1>9, ListMoves DEF Searching
<1> QED
  BY <1>2, <1>3, <1>4, <1>5, <1>6, <1>7, <1>8, <1>9 DEF Handler

\* With one thread, a step is one of its request, or changes flags at most.
LEMMA NobodyElse ==
    ASSUME OneThread, IInv, [Next]_vars, NEW t \in Threads
    PROVE  \/ Request(t) \/ Handler(t)
           \/ TreeKept /\ UNCHANGED req /\ (OneClient => UNCHANGED bucket)
<1>1. CASE \E u \in Threads : Request(u) \/ Handler(u)
  BY <1>1 DEF OneThread
<1>2. CASE \E x \in Attached : Expire(x)
  BY <1>2, FlagStep DEF TreeKept, Expire
<1>3. CASE UseFreed \/ OtherClient \/ Idle \/ UNCHANGED vars
  <2>1. UNCHANGED <<dent, freed, req>> /\ (OneClient => UNCHANGED bucket)
    BY <1>3 DEF UseFreed, OtherClient, OneClient, Idle, vars
  <2> QED
    BY <2>1 DEF TreeKept, SameKids, IsDir
<1> QED
  BY <1>1, <1>2, <1>3 DEF Next

\* What a request is as it begins.
LEMMA Begun ==
    ASSUME IInv, Orderly, NEW t \in Threads, Request(t)
    PROVE  /\ req'[t].pc \in {"load", "find"}
           /\ UNCHANGED <<bucket, dent, freed, known, ub>>
<1>1. PICK op, x, name, type : BeginsFor(t, op, x, name, type)
  BY RequestBegins
<1> QED
  BY <1>1, BeginEffect DEF BeginsFor

LEMMA NotCachedStep ==
    ASSUME OneThread, OneClient, IInv, Orderly, [Next]_vars,
           NEW t \in Threads, NotCached(t)
    PROVE  NotCached(t)'
<1> SUFFICES ASSUME req'[t].pc \in Searching
             PROVE  req'[t].name \notin DOMAIN dent'[req'[t].dir].kids
  BY DEF NotCached
<1>1. ~Request(t)
  BY Begun DEF Searching
<1>2. CASE Handler(t)
  <2>1. /\ UNCHANGED dent /\ SameRequest(t)
        /\ FindMissing(t) \/ req[t].pc \in Searching
    BY <1>2, SearchNext
  <2> QED
    BY <2>1 DEF SameRequest, NotCached, FindMissing, Hit
<1>3. CASE TreeKept /\ UNCHANGED req
  <2>1. req[t].dir \in DOMAIN dent
    BY DEF IInv, ReqInv, IsRequest
  <2> QED
    BY <1>3, <2>1 DEF NotCached, TreeKept, SameKids
<1> QED
  BY <1>1, <1>2, <1>3, NobodyElse

\* Which steps come to one that relies on a key.
LEMMA KnowsNext ==
    ASSUME IInv, NEW t \in Threads, Handler(t),
           req'[t].pc \in {"add", "add_new", "build", "delete", "remove_child"}
    PROVE  /\ UNCHANGED <<dent, freed>>
           /\ \/ HeadFile(t) \/ HeadDir(t) \/ ListOne(t) \/ PutObject(t) \/ ListPage(t)
              \/ RemoveFound(t) \/ DeleteObject(t) \/ UNCHANGED <<bucket, req>>
<1>1. NoRequest.pc = "idle"
  BY DEF NoRequest
<1>2. CASE \/ HeadFile(t) \/ HeadDir(t) \/ ListOne(t) \/ PutObject(t) \/ ListPage(t)
           \/ RemoveFound(t) \/ DeleteObject(t)
  BY <1>2 DEF HeadFile, HeadDir, ListOne, PutObject, ListPage, RemoveFound, DeleteObject
<1>3. CASE UseAfterFree(t)
  BY <1>3 DEF UseAfterFree
<1>4. CASE \/ FindMissing(t) \/ FindCached(t) \/ AddFound(t) \/ AddNew(t) \/ HeadExpired(t)
           \/ ApplyHead(t)
  BY <1>4, SearchMoves DEF MovedTo, Moved
<1>5. CASE \/ Absent(t) \/ LoadDir(t) \/ ReplyEntry(t) \/ RemoveChild(t)
           \/ ReplyEntries(t) \/ Fail(t)
  BY <1>1, <1>5, ChangeMoves DEF MovedTo, Moved, Ended
<1>6. CASE ClearUnsynced(t)
  <2>1. req'[t].pc \in {"clear", "entries"}
    BY <1>6, ChangeMoves DEF ClearUnsynced, Local, At, MovedTo, Moved
  <2> QED
    BY <2>1
<1>7. CASE BuildPage(t)
  <2>1. PICK pc : pc = IF req[t].more THEN "list" ELSE "clear"
    OBVIOUS
  <2>2. req'[t].pc = pc
    BY <1>7, <2>1, ChangeMoves DEF MovedTo, Moved
  <2> QED
    BY <2>1, <2>2
<1> QED
  BY <1>2, <1>3, <1>4, <1>5, <1>6, <1>7 DEF Handler

LEMMA KnowsKeyStep ==
    ASSUME OneThread, OneClient, Rooted, Rooted', Orderly, [Next]_vars,
           NEW t \in Threads, KnowsKey(t)
    PROVE  KnowsKey(t)'
<1>1. Extends /\ IInv
  BY StepExtends DEF Rooted
<1>2. CASE /\ freed' = freed /\ UNCHANGED <<bucket, req>>
  <2>1. SameRequest(t) /\ req'[t] = req[t]
    BY <1>2 DEF SameRequest
  <2>2. req[t].dir \in DOMAIN dent /\ req[t].target \in DOMAIN dent
    BY <1>1 DEF IInv, ReqInv, IsRequest
  <2>3. PICK d, x : d = req[t].dir /\ x = req[t].target
    OBVIOUS
  <2>4. Path(d)' = Path(d) /\ Ancestry(x)' = Ancestry(x)
    BY <1>1, <2>2, <2>3, PathStable, AncestryStable
  <2>5. \A n : FileKey(req[t].dir, n)' = FileKey(req[t].dir, n)
    BY <2>1, <2>3, <2>4 DEF FileKey
  <2>6. PathFreed(req[t].target)' = PathFreed(req[t].target)
    BY <1>2, <2>1, <2>3, <2>4 DEF PathFreed
  <2>7. NewKey(t)' = NewKey(t)
    BY <1>1, <2>1, SameKeys
  <2>8. FileKey(req[t].dir, req[t].name)' = FileKey(req[t].dir, req[t].name)
    BY <1>1, <2>1, SameKeys
  <2> QED
    BY <1>2, <2>1, <2>5, <2>6, <2>7, <2>8 DEF KnowsKey
<1>3. CASE Request(t)
  BY <1>1, <1>3, Begun DEF KnowsKey
<1>4. CASE Handler(t)
  <2>1. CASE req'[t].pc \notin {"add", "add_new", "build", "delete", "remove_child"}
    BY <2>1 DEF KnowsKey
  <2>2. CASE UNCHANGED <<dent, freed>> /\ (HeadFile(t) \/ HeadDir(t) \/ ListOne(t))
    <3>1. SameRequest(t) /\ bucket' = bucket
      BY <1>1, <2>2, SearchMoves
         DEF MovedTo, Moved, SameCall, SameRequest, HeadFile, HeadDir, ListOne
    <3>2. FileKey(req[t].dir, req[t].name)' = FileKey(req[t].dir, req[t].name)
      BY <1>1, <3>1, SameKeys
    <3>3. req'[t].pc \in {"add", "head_dir", "list_one", "absent"}
      BY <1>1, <2>2, SearchMoves DEF MovedTo, Moved
    <3>4. /\ HeadFile(t) /\ req'[t].pc = "add" => FileKey(req[t].dir, req[t].name) \in bucket
          /\ ~HeadFile(t) /\ req'[t].pc = "add" => req'[t].found = "dir"
      BY <1>1, <2>2, SearchMoves DEF MovedTo, Moved
    <3> QED
      BY <3>1, <3>2, <3>3, <3>4 DEF KnowsKey
  <2>3. CASE PutObject(t)
    <3>1. SameRequest(t) /\ req'[t].pc = "add_new" /\ bucket' = bucket \cup {NewKey(t)}
      BY <1>1, <2>3, ChangeMoves DEF MovedTo, Moved, SameCall, SameRequest, PutObject
    <3>2. NewKey(t)' = NewKey(t)
      BY <1>1, <3>1, SameKeys
    <3> QED
      BY <3>1, <3>2 DEF KnowsKey
  <2>4. CASE ListPage(t)
    <3>1. /\ UNCHANGED <<bucket, dent>> /\ SameCall(t) /\ req'[t].pc = "build"
          /\ req'[t].page = Listed(Path(req[t].dir), Page(Path(req[t].dir), req[t].marker))
      BY <1>1, <2>4, ListMoves
    <3>2. PICK d : d = req[t].dir /\ d = req'[t].dir /\ d \in DOMAIN dent
      BY <1>1, <3>1 DEF SameCall, IInv, ReqInv, IsRequest
    <3>3. Path(d)' = Path(d)
      BY <1>1, <3>2, PathStable
    <3>4. \A n \in DOMAIN req'[t].page : req'[t].page[n] # "dir" => Append(Path(d), n) \in bucket
      BY <3>1, <3>2 DEF Listed, IsObject
    <3> QED
      BY <3>1, <3>2, <3>3, <3>4 DEF KnowsKey, FileKey
  <2>5. CASE UNCHANGED <<dent, freed>> /\ (RemoveFound(t) \/ DeleteObject(t))
    <3>1. CASE Ended(t)
      <4>1. NoRequest.pc = "idle"
        BY DEF NoRequest
      <4> QED
        BY <3>1, <4>1 DEF Ended, KnowsKey
    <3>2. CASE ~Ended(t)
      <4>1. req'[t].target = req[t].target /\ req'[t].pc \in {"delete", "remove_child"}
        BY <1>1, <2>5, <3>2, ChangeMoves DEF MovedTo, Moved
      <4>2. PICK x : x = req[t].target /\ x = req'[t].target /\ x \in DOMAIN dent
        BY <1>1, <4>1 DEF IInv, ReqInv, IsRequest
      <4>3. ~PathFreed(x)
        BY <2>5, <4>2 DEF RemoveFound, DeleteObject, Local, At, TouchesFreed, KnowsKey
      <4>4. Ancestry(x)' = Ancestry(x)
        BY <1>1, <4>2, AncestryStable
      <4>5. ~PathFreed(x)'
        BY <2>5, <4>3, <4>4 DEF PathFreed
      <4> QED
        BY <4>1, <4>2, <4>5 DEF KnowsKey
    <3> QED
      BY <3>1, <3>2
  <2>6. CASE UNCHANGED <<dent, freed>> /\ UNCHANGED <<bucket, req>>
    BY <1>2, <2>6
  <2> QED
    BY <1>1, <1>4, <2>1, <2>2, <2>3, <2>4, <2>5, <2>6, KnowsNext
<1>5. CASE TreeKept /\ UNCHANGED <<bucket, req>>
  BY <1>2, <1>5 DEF TreeKept
<1> QED
  BY <1>1, <1>3, <1>4, <1>5, NobodyElse

\* The object that is deleted is that of the file which is being removed, and no other's.
LEMMA OwnKeyGone ==
    ASSUME OneThread, OneClient, NoLostReplies, Rooted, Orderly, Linked, [Next]_vars,
           \A t \in Threads : KnowsKey(t),
           NEW x \in DOMAIN dent, ~PathFreed(x), ~IsDir(x), dent[x].name # NoName,
           Path(x) \in bucket, Path(x) \notin bucket'
    PROVE  \E t \in Threads : DeleteObject(t) /\ req[t].target = x
<1>1. PICK t \in Threads : Deletes(t)
  BY BucketStep DEF OneClient, OtherClient, Puts
<1>2. DeleteObject(t) /\ bucket' = bucket \ {OldKey(t)} /\ OldKey(t) = Path(x)
  <2>1. ~Fail(t) \/ bucket' = bucket
    BY <1>1 DEF Fail, NoLostReplies, Deletes
  <2> QED
    BY <1>1, <2>1 DEF Deletes
<1> DEFINE y == req[t].target
           p == dent[x].parent
<1>3. y \in DOMAIN dent /\ ~PathFreed(y)
  BY <1>1 DEF Rooted, IInv, ReqInv, IsRequest, KnowsKey, Deletes
<1>4. p \in DOMAIN dent /\ dent[x].name \in Names /\ Path(x) = Append(Path(p), dent[x].name)
  <2>1. x # Root
    BY DEF Rooted, IInv, DentInv, RootSound
  <2> QED
    BY <2>1, ParentFacts, PathFacts DEF ParentLaws, PathLaws
<1>5. Path(p) \in Seq(Names) /\ Path(y) \in Seq(Names)
  BY <1>3, <1>4, PathType
<1>6. ~IsDir(y)
  <2> SUFFICES ASSUME IsDir(y) PROVE FALSE
    OBVIOUS
  <2>1. OldKey(t) = Append(Path(y), NoName)
    BY DEF OldKey, NoName
  <2>2. Append(Path(y), NoName) = Append(Path(p), dent[x].name)
    BY <1>2, <1>4, <2>1
  <2> HIDE DEF y, p
  <2> QED
    BY <2>2, <1>4, <1>5, NoNameIsName, AppendInjective
<1>7. OldKey(t) = Path(y)
  BY <1>6 DEF OldKey
<1> QED
  BY <1>2, <1>3, <1>7, OnePath

\* A removal goes on until what it removes is freed.
LEMMA StillRemoved ==
    ASSUME OneThread, OneClient, Rooted, Orderly, Linked, [Next]_vars, NEW t \in Threads,
           req[t].pc = "remove_child", req[t].target \notin freed'
    PROVE  req'[t] = req[t]
<1>1. Extends /\ IInv
  BY StepExtends DEF Rooted
<1> DEFINE x == req[t].target
<1>2. ~Request(t)
  BY DEF Request, Lookup, Create, Remove, ReadDir, Begin, At
<1>3. x \in DOMAIN dent /\ dent[x].parent = req[t].dir /\ dent[x].name = req[t].name /\ x # Root
  BY <1>1 DEF IInv, ReqInv, IsRequest, Orderly, TargetNamed, HasTarget
<1>4. Hangs(x)
  BY <1>1, <1>3 DEF Linked, Hangs, Extends
<1>5. x \in KidsNamed(req[t].dir, {req[t].name})
  BY <1>3, <1>4, HangsByName DEF KidsNamed
<1>6. ~RemoveChild(t)
  BY <1>5 DEF RemoveChild
<1>7. CASE Handler(t)
  BY <1>6, <1>7
     DEF Handler, FindMissing, FindCached, HeadFile, HeadDir, ListOne, AddFound,
         HeadExpired, ApplyHead, ReplyEntry, Absent, PutObject, AddNew, RemoveFound,
         DeleteObject, LoadDir, ListPage, BuildPage, ClearUnsynced, ReplyEntries,
         UseAfterFree, Fail, Local, At
<1> QED
  BY <1>1, <1>2, <1>7, NobodyElse

LEMMA FilesStoredStep ==
    ASSUME OneThread, OneClient, NoLostReplies, Rooted, Rooted', Orderly, AloneInv, [Next]_vars
    PROVE  FilesStored'
<1>1. Extends /\ IInv
  BY StepExtends DEF Rooted
<1> SUFFICES ASSUME NEW x \in DOMAIN dent', ~PathFreed(x)', ~IsDir(x)', dent'[x].name # NoName,
                    Path(x)' \notin bucket'
             PROVE  \E t \in Threads : req'[t].pc = "remove_child" /\ req'[t].target = x
  BY DEF FilesStored
<1>2. CASE x \in DOMAIN dent
  <2>1. ~PathFreed(x) /\ ~IsDir(x) /\ dent[x].name # NoName /\ Path(x) \notin bucket'
    BY <1>1, <1>2, PathStable, AncestryStable DEF PathFreed, Extends
  <2>2. CASE Path(x) \in bucket
    <3>1. PICK t \in Threads : DeleteObject(t) /\ req[t].target = x
      BY <1>2, <2>1, <2>2, OwnKeyGone DEF AloneInv
    <3> QED
      BY <1>1, <3>1, ChangeMoves DEF MovedTo, Moved
  <2>3. CASE Path(x) \notin bucket
    <3>1. PICK t \in Threads : req[t].pc = "remove_child" /\ req[t].target = x
      BY <1>2, <2>1, <2>3 DEF AloneInv, FilesStored
    <3>2. x \notin freed'
      BY <1>1, <1>2, AncestryType, AncestryStable DEF PathFreed
    <3> QED
      BY <3>1, <3>2, StillRemoved DEF AloneInv
  <2> QED
    BY <2>2, <2>3
<1>3. CASE x \notin DOMAIN dent
  <2>1. PICK t \in Threads : MadeFor(t, x)
    BY <1>1, <1>3, MadeByHandler
  <2>2. x # Root /\ req[t].dir \in DOMAIN dent
    BY <1>1, <1>3 DEF IInv, DentInv, RootSound, ReqInv, IsRequest
  <2>3. PICK d : d = req[t].dir
    OBVIOUS
  <2>4. Path(x)' = Append(Path(d), dent'[x].name)
    <3>1. \A z \in DOMAIN dent' \ {Root} : Path(z)' = Append(Path(dent[z].parent)', dent'[z].name)
      BY LaterFacts DEF Root, PathLaws
    <3>2. dent'[x].parent = d
      BY <2>1, <2>3 DEF MadeFor
    <3>3. Path(d)' = Path(d)
      BY <1>1, <2>2, <2>3, PathStable
    <3> QED
      BY <2>2, <3>1, <3>2, <3>3
  <2>5. FileKey(d, dent'[x].name) \in bucket
    <3>1. dent'[x].type # "dir"
      BY DEF IsDir
    <3>2. KnowsKey(t)
      BY DEF AloneInv
    <3>3. CASE AddFound(t) /\ dent'[x].name = req[t].name /\ dent'[x].type = req[t].found
      BY <2>3, <3>1, <3>2, <3>3 DEF AddFound, Local, At, KnowsKey
    <3>4. CASE AddNew(t) /\ dent'[x].name = req[t].name /\ dent'[x].type = req[t].type
      BY <2>3, <3>1, <3>2, <3>4 DEF AddNew, Local, At, KnowsKey, NewKey
    <3>5. CASE /\ BuildPage(t) /\ dent'[x].name \in Missing(t)
               /\ dent'[x].type = req[t].page[dent'[x].name]
      BY <2>3, <3>1, <3>2, <3>5 DEF BuildPage, Local, At, KnowsKey, Missing
    <3> QED
      BY <2>1, <3>3, <3>4, <3>5 DEF MadeFor
  <2> QED
    BY <2>1, <2>4, <2>5 DEF MadeFor, FileKey
<1> QED
  BY <1>2, <1>3

LEMMA InitAlone == ASSUME Init PROVE AloneInv
<1>1. NoRequest.pc = "idle"
  BY DEF NoRequest
<1>2. DOMAIN dent = {Root} /\ IsDir(Root)
  BY DEF Init, Dentry, IsDir
<1>3. \A t \in Threads : req[t].pc = "idle"
  BY <1>1 DEF Init
<1> QED
  BY <1>2, <1>3 DEF AloneInv, Linked, FilesStored, NotCached, KnowsKey, Searching

LEMMA AlwaysAlone ==
    ASSUME OneThread, OneClient, NoLostReplies
    PROVE  Spec => []AloneInv
<1>1. Init => AloneInv
  BY InitAlone
<1>2. Rooted /\ Rooted' /\ Orderly /\ AloneInv /\ [Next]_vars => AloneInv'
  <2> SUFFICES ASSUME Rooted, Rooted', Orderly, AloneInv, [Next]_vars PROVE AloneInv'
    OBVIOUS
  <2>1. Extends /\ IInv
    BY StepExtends DEF Rooted
  <2>2. Linked'
    BY <2>1, LinkedStep DEF AloneInv
  <2>3. FilesStored'
    BY FilesStoredStep
  <2>4. \A t \in Threads : NotCached(t)' /\ KnowsKey(t)'
    BY <2>1, NotCachedStep, KnowsKeyStep DEF AloneInv
  <2> QED
    BY <2>2, <2>3, <2>4 DEF AloneInv
<1> QED
  BY <1>1, <1>2, AlwaysRooted, AlwaysOrderly, PTL DEF Spec

\* A file that the cache shows has its object in the bucket, whenever no
\* request is under way: for one thread and one client, whatever the keys and
\* however deep the directories, as long as a put or delete that is reported
\* to have failed has had no effect.
THEOREM FilesAreStored ==
    ASSUME OneThread, OneClient, NoLostReplies
    PROVE  Spec => []CachedFilesExist
<1>1. Rooted /\ AloneInv => CachedFilesExist
  <2> SUFFICES ASSUME Rooted, AloneInv, Quiet, NEW x \in Attached, ~IsDir(x),
                      dent[x].name # NoName
               PROVE  Path(x) \in bucket
    BY DEF CachedFilesExist, NoName
  <2>1. ~PathFreed(x) /\ x \in DOMAIN dent
    BY AttachedLive, AttachedFacts
  <2>2. \A t \in Threads : req[t].pc # "remove_child"
    BY DEF Quiet
  <2> QED
    BY <2>1, <2>2 DEF AloneInv, FilesStored
<1> QED
  BY <1>1, AlwaysRooted, AlwaysAlone, PTL

-----------------------------------------------------------------------------
(* ENOENT.                                                                 *)

\* Of some names one is listed first.
LEMMA FirstEntry ==
    ASSUME NEW E \in SUBSET Names, E # {}
    PROVE  \E n \in E : \A m \in E : ~Before(m, n)
<1> DEFINE T == {i \in DOMAIN NameOrder : NameOrder[i] \in E}
<1>1. DOMAIN NameOrder \subseteq Nat
  <2>1. NameOrder \in Seq(Names)
    BY CacheAssumption
  <2>2. DOMAIN NameOrder = 1..Len(NameOrder) /\ Len(NameOrder) \in Nat
    BY <2>1, LenProperties
  <2> QED
    BY <2>2
<1>2. T # {} /\ T \in SUBSET Nat
  BY <1>1 DEF Names, Range
<1>3. PICK i \in T : \A j \in T : ~(j < i)
  BY <1>2, Smallest
<1>4. ASSUME NEW m \in E, Before(m, NameOrder[i]) PROVE FALSE
  <2>1. PICK j, k \in DOMAIN NameOrder : j < k /\ NameOrder[j] = m /\ NameOrder[k] = NameOrder[i]
    BY <1>4 DEF Before
  <2>2. k = i
    BY <2>1, CacheAssumption
  <2> QED
    BY <1>3, <2>1, <2>2
<1> QED
  BY <1>3, <1>4

\* What is_remote_dir_exist has missed is not there.
LEMMA NothingListed ==
    ASSUME Shallow, bucket \subseteq Keys, NEW path \in Seq(Names), path # <<>>,
           ~\E n \in Entries(path) : IsObject(path, n) /\ \A m \in Entries(path) : ~Before(m, n)
    PROVE  Below(path) = {}
<1>1. Entries(path) \in SUBSET Names
  BY DEF Entries
<1>2. \A n \in Entries(path) : IsObject(path, n)
  BY ShallowEntries
<1>3. Entries(path) = {}
  BY <1>1, <1>2, FirstEntry
<1>4. ASSUME NEW k \in Below(path) PROVE FALSE
  <2>1. k \in Seq(Names) /\ Len(k) > Len(path)
    BY CacheAssumption DEF Below
  <2>2. Len(path) + 1 \in 1..Len(k)
    BY <2>1, LenProperties
  <2>3. k[Len(path) + 1] \in Names
    BY <2>1, <2>2, ElementOfSeq
  <2> QED
    BY <1>3, <2>3 DEF Entries
<1> QED
  BY <1>4

AbsentInv ==
    \A t \in Threads :
        req[t].pc = "absent" => Below(FileKey(req[t].dir, req[t].name)) = {}

\* Only the list call comes to absent.
LEMMA AbsentNext ==
    ASSUME IInv, NEW t \in Threads, Handler(t), req'[t].pc = "absent", req'[t] # req[t]
    PROVE  ListOne(t)
<1>1. NoRequest.pc = "idle"
  BY DEF NoRequest
<1>2. CASE HeadFile(t) \/ HeadDir(t)
  BY <1>2, SearchMoves DEF Moved, MovedTo
<1>3. CASE Absent(t)
  BY <1>1, <1>3, ChangeMoves DEF Moved, MovedTo, Ended
<1>4. CASE req[t].pc \in {"list_one", "absent"}
  <2>1. ListOne(t) \/ Absent(t) \/ Fail(t) \/ UseAfterFree(t)
    BY <1>4 DEF Handler, FindMissing, FindCached, HeadFile, HeadDir, AddFound, HeadExpired,
                ApplyHead, ReplyEntry, PutObject, AddNew, RemoveFound, DeleteObject,
                RemoveChild, LoadDir, ListPage, BuildPage, ClearUnsynced, ReplyEntries, Local, At
  <2>2. Fail(t) => req'[t].pc = "idle"
    BY <1>1, ChangeMoves DEF Ended
  <2> QED
    BY <2>1, <2>2, <1>3 DEF UseAfterFree
<1> QED
  BY <1>2, <1>4, AsksNext

LEMMA AbsentStep ==
    ASSUME OneClient, OneThread, Shallow, Rooted, Rooted', Orderly, KeysOnly, Flat => FlatInv,
           AbsentInv, [Next]_vars
    PROVE  AbsentInv'
<1>1. Extends /\ IInv
  BY StepExtends DEF Rooted
<1>2. ASSUME NEW t \in Threads, req'[t].pc = "absent"
      PROVE  Below(FileKey(req[t].dir, req[t].name))' = {}
  <2>1. ~Request(t)
    <3>1. SUFFICES ASSUME Request(t) PROVE FALSE
      OBVIOUS
    <3>2. PICK op, x, name, type : BeginsFor(t, op, x, name, type)
      BY <1>1, <3>1, RequestBegins
    <3>3. req'[t].pc = IF op = "readdir" THEN "load" ELSE "find"
      BY <1>1, <3>2, BeginEffect DEF BeginsFor
    <3> QED
      BY <1>2, <3>3
  <2>2. SameRequest(t)
    <3>1. NoRequest.pc = "idle"
      BY DEF NoRequest
    <3> QED
      BY <1>1, <1>2, <2>1, <3>1, RequestOf
  <2>3. bucket' \subseteq bucket
    BY <1>1, <1>2, OnlyOwnPut, PutEnds DEF Alone
  <2>4. PICK f : f = FileKey(req[t].dir, req[t].name) /\ f = FileKey(req[t].dir, req[t].name)'
    BY <1>1, <2>2, SameKeys
  <2>5. Below(f) = {}
    <3>1. CASE req'[t] = req[t]
      BY <1>2, <2>4, <3>1 DEF AbsentInv
    <3>2. CASE req'[t] # req[t]
      <4>1. ListOne(t)
        BY <1>1, <1>2, <2>1, <3>2, OthersServed, AbsentNext
      <4>2. ~\E n \in Entries(f) : IsObject(f, n) /\ \A m \in Entries(f) : ~Before(m, n)
        BY <1>1, <1>2, <2>4, <4>1, SearchMoves DEF Moved, MovedTo
      <4>3. f \in Seq(Names) /\ f # <<>> /\ bucket \subseteq Keys
        <5>1. req[t].dir \in DOMAIN dent /\ req[t].name \in Names
          BY DEF Rooted, IInv, ReqInv, IsRequest
        <5>2. Path(req[t].dir) \in Seq(Names) /\ f = Append(Path(req[t].dir), req[t].name)
          BY <5>1, <2>4, PathType DEF FileKey
        <5> QED
          BY <5>1, <5>2, AppendProperties DEF KeysOnly
      <4> QED
        BY <4>2, <4>3, NothingListed
    <3> QED
      BY <3>1, <3>2
  <2>6. Below(f)' \subseteq Below(f)
    BY <2>3 DEF Below
  <2> QED
    BY <2>4, <2>5, <2>6
<1> QED
  BY <1>2 DEF AbsentInv

\* ENOENT is answered, and a name created, only when the bucket has nothing of the
\* name: with one thread, while no other client writes and no directory has
\* directories in it.  Deeper down is_remote_dir_exist does not see a prefix
\* that has only prefixes below it.
THEOREM AbsentIsTrue ==
    ASSUME OneClient, OneThread, Shallow
    PROVE  Spec => AbsentMeansNoKey
<1>1. Init => AbsentInv
  <2>1. NoRequest.pc = "idle"
    BY DEF NoRequest
  <2> QED
    BY <2>1 DEF Init, AbsentInv
<1>2. Rooted /\ Rooted' /\ Orderly /\ KeysOnly /\ (Flat => FlatInv) /\ AbsentInv /\ [Next]_vars
         => AbsentInv'
  BY AbsentStep
<1>3. MissedInv /\ AbsentInv =>
         \A t \in Threads :
            LET path == FileKey(req[t].dir, req[t].name)
            IN  req[t].pc = "absent" /\ req'[t].pc # "absent"
                   => path \notin bucket /\ Below(path) = {}
  BY DEF MissedInv, Missed, Alone, AbsentInv
<1> QED
  BY <1>1, <1>2, <1>3, FlatIfFlat, AlwaysRooted, AlwaysOrderly, AlwaysKeysOnly, AlwaysMissed, PTL
     DEF Spec, AbsentMeansNoKey

=============================================================================
