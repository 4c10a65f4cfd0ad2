-------------------------- MODULE DentryRefreshProofs --------------------------
(***************************************************************************)
(* One thread: what a refresh of a directory leaves in the cache.  A       *)
(* listing goes through the names in key order, page after page, and marks *)
(* what it is given; what the mark is for, clear_unsync_dentry keeps.      *)
(***************************************************************************)
EXTENDS DentryAloneProofs

-----------------------------------------------------------------------------
(* Hypotheses.                                                             *)

\* Files in the root, and nothing else.
FilesOnly == \A k \in Keys : Len(k) = 1 /\ k[1] # NoName

\* No call to the store fails.
NoFailures == ~RemoteFails

\* The kernel holds on to nothing whose name was removed.
NoneHeld == ~KeepsOpen

-----------------------------------------------------------------------------
(* The invariants.                                                         *)

MarkedKid(n) == n \in DOMAIN dent[Root].kids /\ dent[dent[Root].kids[n]].synced

\* Of what the bucket has in the root, a listing has marked, has been given or
\* will be given everything.
ListsAll(t) ==
    LET r == req[t]
    IN  /\ r.pc = "load" => r.marker = "start"
        /\ r.dir = Root =>
              \A n \in Entries(<<>>) :
                 /\ r.pc = "list" => MarkedKid(n) \/ n \in Behind(<<>>, r.marker)
                 /\ r.pc = "build" => \/ MarkedKid(n) \/ n \in DOMAIN r.page
                                      \/ r.more /\ n \in Behind(<<>>, r.marker)
                 /\ r.pc = "clear" => MarkedKid(n)

ListedInv == \A t \in Threads : ListsAll(t)

\* Once complete, the root has all that the bucket has, but for what is being
\* created.
RootComplete ==
    dent[Root].complete =>
        \A n \in Entries(<<>>) :
            \/ n \in DOMAIN dent[Root].kids
            \/ \E t \in Threads : req[t].pc = "add_new" /\ req[t].name = n

\* A directory of the tree has its marker, but for one whose marker was just
\* deleted.
DirsStored ==
    \A x \in DOMAIN dent \ {Root} :
        x \notin freed /\ IsDir(x)
            => \/ <<dent[x].name, NoName>> \in bucket
               \/ \E t \in Threads : req[t].pc = "remove_child" /\ req[t].target = x

KnowsMarker(t) ==
    LET r == req[t]
    IN  /\ r.pc = "add" /\ r.found = "dir" => <<r.name, NoName>> \in bucket
        /\ r.pc = "build" =>
              \A n \in DOMAIN r.page : r.page[n] = "dir" => <<n, NoName>> \in bucket

MarkerInv == DirsStored /\ \A t \in Threads : KnowsMarker(t)

\* What the kernel may use has not been freed.
KnownLive == \A x \in known : ~PathFreed(x)

\* Outside of a refresh nothing is marked; within it, what was given.
Marks == {n \in DOMAIN dent[Root].kids : dent[dent[Root].kids[n]].synced}

MarksSeen(t) ==
    LET r == req[t]
    IN  /\ r.pc \notin {"list", "build", "clear"} => Marks = {}
        /\ r.pc = "load" => r.seen = {}
        /\ r.pc \in {"list", "clear"} => Marks = r.seen
        /\ r.pc = "build" => Marks \cup DOMAIN r.page = r.seen

-----------------------------------------------------------------------------
(* Pages.                                                                  *)

LEMMA OrderFacts ==
    /\ DOMAIN NameOrder \subseteq Nat
    /\ \A i, j \in DOMAIN NameOrder : NameOrder[i] = NameOrder[j] => i = j
<1>1. NameOrder \in Seq(Names) /\ \A i, j \in DOMAIN NameOrder : NameOrder[i] = NameOrder[j] => i = j
  BY CacheAssumption
<1>2. DOMAIN NameOrder = 1..Len(NameOrder) /\ Len(NameOrder) \in Nat
  BY <1>1, LenProperties
<1> QED
  BY <1>1, <1>2

\* Of two names one comes first, and what comes before them comes before the later one.
LEMMA KeyOrder ==
    /\ \A n, m \in Names : n = m \/ Before(n, m) \/ Before(m, n)
    /\ \A n, m, k \in Names : Before(n, m) /\ Before(m, k) => Before(n, k)
<1>1. ASSUME NEW n \in Names, NEW m \in Names, n # m PROVE Before(n, m) \/ Before(m, n)
  <2>1. PICK i, j \in DOMAIN NameOrder : NameOrder[i] = n /\ NameOrder[j] = m
    BY DEF Names, Range
  <2>2. i < j \/ j < i
    BY <1>1, <2>1, OrderFacts
  <2> QED
    BY <2>1, <2>2 DEF Before
<1>2. ASSUME NEW n \in Names, NEW m \in Names, NEW k \in Names, Before(n, m), Before(m, k)
      PROVE  Before(n, k)
  <2>1. PICK a, b \in DOMAIN NameOrder : a < b /\ NameOrder[a] = n /\ NameOrder[b] = m
    BY <1>2 DEF Before
  <2>2. PICK c, d \in DOMAIN NameOrder : c < d /\ NameOrder[c] = m /\ NameOrder[d] = k
    BY <1>2 DEF Before
  <2>3. b = c /\ a < d
    BY <2>1, <2>2, OrderFacts
  <2> QED
    BY <2>1, <2>2, <2>3 DEF Before
<1> QED
  BY <1>1, <1>2

\* What a page does not have comes behind all that it has.
LEMMA BehindPage ==
    ASSUME NEW path, NEW marker, NEW l \in Page(path, marker),
           NEW n \in Behind(path, marker), n \notin Page(path, marker)
    PROVE  Before(l, n)
<1> DEFINE rest == Behind(path, marker)
           Ahead(m) == {k \in rest : Before(k, m)}
<1>1. rest \subseteq Names /\ l \in rest
  BY DEF Behind, Entries, Page
<1>2. Cardinality(Ahead(l)) < PageSize /\ ~(Cardinality(Ahead(n)) < PageSize) /\ PageSize \in Nat
  BY CacheAssumption DEF Page
<1>3. IsFiniteSet(Ahead(l)) /\ IsFiniteSet(Ahead(n))
  <2>1. Ahead(l) \subseteq Names /\ Ahead(n) \subseteq Names
    BY <1>1
  <2> QED
    BY <2>1, NamesFinite, FS_Subset
<1>4. SUFFICES ASSUME ~Before(l, n) PROVE FALSE
  OBVIOUS
<1>5. l = n \/ Before(n, l)
  BY <1>1, <1>4, KeyOrder
<1>6. Ahead(n) \subseteq Ahead(l)
  <2>1. CASE l = n
    BY <2>1
  <2>2. CASE Before(n, l)
    BY <1>1, <2>2, KeyOrder
  <2> QED
    BY <1>5, <2>1, <2>2
<1>7. Cardinality(Ahead(n)) \in Nat /\ Cardinality(Ahead(l)) \in Nat
  BY <1>3, FS_CardinalityType
<1>8. Cardinality(Ahead(n)) <= Cardinality(Ahead(l))
  BY <1>3, <1>6, FS_Subset
<1> HIDE DEF Ahead, rest
<1> QED
  BY <1>2, <1>7, <1>8

-----------------------------------------------------------------------------
(* Directories are stored.                                                 *)

LEMMA KnowsMarkerStep ==
    ASSUME OneThread, OneClient, Flat, Rooted, Orderly, KeysOnly, [Next]_vars,
           NEW t \in Threads, KnowsMarker(t)
    PROVE  KnowsMarker(t)'
<1>1. IInv
  BY DEF Rooted
<1>2. CASE UNCHANGED <<bucket, req>>
  BY <1>2 DEF KnowsMarker
<1>3. CASE Request(t)
  BY <1>1, <1>3, Begun DEF KnowsMarker
<1>4. CASE Handler(t)
  <2>1. CASE req'[t].pc \notin {"add", "build"}
    BY <2>1 DEF KnowsMarker
  <2>2. CASE HeadFile(t) \/ HeadDir(t) \/ ListOne(t)
    <3>1. bucket' = bucket /\ req'[t].pc # "build"
      BY <1>1, <2>2, SearchMoves DEF MovedTo, Moved, HeadFile, HeadDir, ListOne
    <3>2. SUFFICES ASSUME req'[t].pc = "add", req'[t].found = "dir"
                   PROVE  <<req'[t].name, NoName>> \in bucket
      BY <3>1 DEF KnowsMarker
    <3>3. Moved(t, "add", "dir", req[t].target)
      BY <1>1, <2>2, <3>2, SearchMoves DEF MovedTo, Moved
    <3>4. RootKey(req[t].name, "dir") \in bucket
      BY <2>2, <3>3, FlatFound
    <3> QED
      BY <3>3, <3>4 DEF RootKey, Moved, SameCall
  <2>3. CASE ListPage(t)
    <3>1. bucket' = bucket /\ req'[t].pc = "build"
      BY <1>1, <2>3, ListMoves
    <3>2. \A n \in DOMAIN req'[t].page :
             req'[t].page[n] = "dir" => RootKey(n, req'[t].page[n]) \in bucket
      BY <2>3, FlatPage
    <3> QED
      BY <3>1, <3>2 DEF KnowsMarker, RootKey
  <2>4. CASE PutObject(t) \/ RemoveFound(t) \/ DeleteObject(t)
    <3>1. NoRequest.pc = "idle"
      BY DEF NoRequest
    <3> QED
      BY <1>1, <2>4, <3>1, <2>1, ChangeMoves DEF MovedTo, Moved, Ended
  <2> QED
    BY <1>1, <1>2, <1>4, <2>1, <2>2, <2>3, <2>4, KnowsNext
<1> QED
  BY <1>1, <1>2, <1>3, <1>4, NobodyElse

\* The key of a directory in the root, as the one and only.
LEMMA MarkerIsKey ==
    ASSUME NEW n \in Names, NEW m \in Names
    PROVE  /\ <<m>> # <<n, NoName>>
           /\ <<m, NoName>> = <<n, NoName>> => m = n
           /\ Append(<<m>>, NoName) = <<m, NoName>>
<1>1. <<m>> # <<n, NoName>>
  <2>1. Len(<<m>>) = 1 /\ Len(<<n, NoName>>) = 2
    OBVIOUS
  <2> QED
    BY <2>1
<1>2. <<m, NoName>> = <<n, NoName>> => m = n
  OBVIOUS
<1> QED
  BY <1>1, <1>2, SingleAppend

LEMMA OwnMarkerGone ==
    ASSUME OneClient, NoLostReplies, Rooted, Orderly, FlatInv, AloneInv, [Next]_vars,
           NEW x \in DOMAIN dent \ {Root}, x \notin freed, IsDir(x),
           <<dent[x].name, NoName>> \in bucket, <<dent[x].name, NoName>> \notin bucket'
    PROVE  \E t \in Threads : DeleteObject(t) /\ req[t].target = x
<1>1. PICK t \in Threads : Deletes(t)
  BY BucketStep DEF OneClient, OtherClient, Puts
<1>2. DeleteObject(t) /\ OldKey(t) = <<dent[x].name, NoName>>
  <2>1. ~Fail(t) \/ bucket' = bucket
    BY <1>1 DEF Fail, NoLostReplies, Deletes
  <2> QED
    BY <1>1, <2>1 DEF Deletes
<1> DEFINE y == req[t].target
<1>3. y \in DOMAIN dent \ {Root} /\ ~PathFreed(y) /\ dent[y].parent = Root
  <2>1. /\ y \in DOMAIN dent \ {Root} /\ dent[y].parent = req[t].dir
        /\ req[t].op = "remove"
    BY <1>1 DEF Rooted, IInv, ReqInv, IsRequest, Orderly, TargetNamed, HasTarget, InOrder, Deletes
  <2>2. ~PathFreed(y)
    BY <1>1 DEF AloneInv, KnowsKey, Deletes
  <2> QED
    BY <2>1, <2>2 DEF FlatInv, FlatRequest, ChangesDir
<1>4. dent[x].parent = Root
  BY DEF FlatInv, FlatTree, IsDir
<1>5. dent[x].name \in Names /\ dent[y].name \in Names
  BY <1>3, ParentFacts DEF ParentLaws
<1>6. Path(y) = <<dent[y].name>>
  BY <1>3, <1>5, RootKeys, PathFacts DEF FileKey, PathLaws
<1>7. OldKey(t) = IF IsDir(y) THEN Append(Path(y), NoName) ELSE Path(y)
  BY DEF OldKey, NoName
<1>8. dent[y].name = dent[x].name
  <2> HIDE DEF y
  <2> QED
    BY <1>2, <1>5, <1>6, <1>7, MarkerIsKey
<1>9. Hangs(x) /\ Hangs(y)
  <2>1. y \notin freed
    BY <1>3, ParentLive
  <2> QED
    BY <1>3, <2>1 DEF AloneInv, Linked, Hangs
<1>10. x = y
  BY <1>3, <1>4, <1>8, <1>9, HangsByName
<1> QED
  BY <1>2, <1>10

LEMMA DirsStoredStep ==
    ASSUME OneThread, OneClient, NoLostReplies, Rooted, Orderly, FlatInv, AloneInv,
           MarkerInv, [Next]_vars
    PROVE  DirsStored'
<1>1. Extends /\ IInv
  BY StepExtends DEF Rooted
<1> SUFFICES ASSUME NEW x \in DOMAIN dent' \ {Root}, x \notin freed', IsDir(x)',
                    <<dent'[x].name, NoName>> \notin bucket'
             PROVE  \E t \in Threads : req'[t].pc = "remove_child" /\ req'[t].target = x
  BY DEF DirsStored, Root
<1>2. CASE x \in DOMAIN dent
  <2>1. x \notin freed /\ IsDir(x) /\ <<dent[x].name, NoName>> \notin bucket'
    BY <1>1, <1>2 DEF Extends
  <2>2. CASE <<dent[x].name, NoName>> \in bucket
    <3>1. PICK t \in Threads : DeleteObject(t) /\ req[t].target = x
      BY <1>2, <2>1, <2>2, OwnMarkerGone
    <3> QED
      BY <1>1, <3>1, ChangeMoves DEF MovedTo, Moved
  <2>3. CASE <<dent[x].name, NoName>> \notin bucket
    <3>1. PICK t \in Threads : req[t].pc = "remove_child" /\ req[t].target = x
      BY <1>2, <2>1, <2>3 DEF MarkerInv, DirsStored
    <3> QED
      BY <3>1, StillRemoved DEF AloneInv
  <2> QED
    BY <2>2, <2>3
<1>3. CASE x \notin DOMAIN dent
  <2>1. PICK t \in Threads : MadeFor(t, x)
    BY <1>1, <1>3, MadeByHandler
  <2>2. dent'[x].type = "dir"
    BY DEF IsDir
  <2>3. KnowsMarker(t) /\ KnowsKey(t)
    BY DEF AloneInv, MarkerInv
  <2>4. CASE AddFound(t) /\ dent'[x].name = req[t].name /\ dent'[x].type = req[t].found
    BY <2>1, <2>2, <2>3, <2>4 DEF AddFound, Local, At, KnowsMarker, MadeFor
  <2>5. CASE AddNew(t) /\ dent'[x].name = req[t].name /\ dent'[x].type = req[t].type
    <3>1. req[t].op = "create" /\ req[t].name \in Names
      BY <1>1, <2>5 DEF AddNew, Local, At, Orderly, InOrder, IInv, ReqInv, IsRequest
    <3>2. NewKey(t) = DirKey(Root, req[t].name)
      BY <2>2, <2>5, <3>1 DEF NewKey, FlatInv, FlatRequest, ChangesDir
    <3> QED
      BY <2>1, <2>3, <2>5, <3>1, <3>2, RootKeys DEF AddNew, Local, At, KnowsKey, MadeFor
  <2>6. CASE /\ BuildPage(t) /\ dent'[x].name \in Missing(t)
             /\ dent'[x].type = req[t].page[dent'[x].name]
    BY <2>1, <2>2, <2>3, <2>6 DEF BuildPage, Local, At, KnowsMarker, Missing, MadeFor
  <2> QED
    BY <2>1, <2>4, <2>5, <2>6 DEF MadeFor
<1> QED
  BY <1>2, <1>3

LEMMA InitMarker == ASSUME Init PROVE MarkerInv
<1>1. NoRequest.pc = "idle"
  BY DEF NoRequest
<1>2. DOMAIN dent = {Root} /\ \A t \in Threads : req[t].pc = "idle"
  BY <1>1 DEF Init
<1> QED
  BY <1>2 DEF MarkerInv, DirsStored, KnowsMarker

LEMMA AlwaysMarker ==
    ASSUME OneThread, OneClient, NoLostReplies, Flat
    PROVE  Spec => []MarkerInv
<1>1. Init => MarkerInv
  BY InitMarker
<1>2. /\ Rooted /\ Orderly /\ KeysOnly /\ FlatInv /\ AloneInv /\ MarkerInv /\ [Next]_vars
      => MarkerInv'
  BY KnowsMarkerStep, DirsStoredStep DEF MarkerInv
<1> QED
  BY <1>1, <1>2, AlwaysRooted, AlwaysOrderly, AlwaysKeysOnly, AlwaysFlat, AlwaysAlone, PTL
     DEF Spec

-----------------------------------------------------------------------------
(* A listing is complete.                                                  *)

\* In a flat bucket a name is listed in the root for its file or its marker.
LEMMA ListedKey ==
    ASSUME NEW n \in Names, NEW k \in {<<n>>, <<n, NoName>>}, k \in bucket
    PROVE  n \in Entries(<<>>)
<1>1. Len(k) > Len(<<>>) /\ k[Len(<<>>) + 1] = n
  OBVIOUS
<1>2. SubSeq(k, 1, Len(<<>>)) = <<>>
  OBVIOUS
<1> QED
  BY <1>1, <1>2 DEF Entries, Below

LEMMA KeyListed ==
    ASSUME Flat, bucket \subseteq Keys, NEW n \in Entries(<<>>)
    PROVE  <<n>> \in bucket \/ <<n, NoName>> \in bucket
<1>1. PICK kind : kind = IF IsObject(<<>>, n) THEN "reg" ELSE "dir"
  OBVIOUS
<1>2. <<>> \in Seq(Names)
  OBVIOUS
<1>3. RootKey(n, kind) \in bucket
  BY <1>1, <1>2, FlatEntries
<1> QED
  BY <1>3 DEF RootKey

LEMMA SameEntries ==
    ASSUME bucket' = bucket
    PROVE  /\ \A path : Entries(path)' = Entries(path)
           /\ \A path, marker : Behind(path, marker)' = Behind(path, marker)
  BY DEF Entries, Below, Behind

LEMMA AllBehind ==
    \A path : Behind(path, "start") = Entries(path)
  BY DEF Behind

\* Only a walk that begins at the root comes to it.
LEMMA RootWalked ==
    ASSUME Rooted, NEW x \in DOMAIN dent, Root \in Walked(x)
    PROVE  x = Root
  BY WalkedFacts, ParentFacts DEF Leads, ParentLaws

\* Which steps take a name from the root.
LEMMA RootKidStays ==
    ASSUME Rooted, [Next]_vars, NEW n \in DOMAIN dent[Root].kids
    PROVE  \/ n \in DOMAIN dent'[Root].kids
           \/ \E t \in Threads : RemoveChild(t) /\ req[t].dir = Root /\ req[t].name = n
           \/ \E t \in Threads : /\ ClearUnsynced(t) /\ req[t].dir = Root
                                 /\ n \in Unsynced(Root)
<1>1. IInv /\ DentInv /\ Root \in DOMAIN dent
  BY ParentFacts DEF Rooted, IInv, ParentLaws
<1>2. ASSUME NEW t \in Threads PROVE req[t].dir \in DOMAIN dent
  BY <1>1 DEF IInv, ReqInv, IsRequest
<1>3. CASE TreeKept
  BY <1>1, <1>3 DEF TreeKept, SameKids
<1>4. ASSUME NEW t \in Threads, AddFound(t) \/ AddNew(t)
      PROVE  n \in DOMAIN dent'[Root].kids
  <2>1. PICK new : AddedTo(req[t].dir, req[t].name, new)
    BY <1>1, <1>4, AddStep
  <2> QED
    BY <1>1, <2>1 DEF AddedTo, SameKids
<1>5. ASSUME NEW t \in Threads, RemoveChild(t), n \notin DOMAIN dent'[Root].kids
      PROVE  req[t].dir = Root /\ req[t].name = n
  <2>1. /\ LosesNames(req[t].dir, {req[t].name})
        /\ \A z \in DOMAIN dent : z # req[t].dir => SameKids(z)
    BY <1>1, <1>2, <1>5, RemoveKidEffect DEF RemoveChild
  <2> QED
    BY <1>1, <1>5, <2>1 DEF LosesNames, SameKids
<1>6. ASSUME NEW t \in Threads, BuildPage(t)
      PROVE  n \in DOMAIN dent'[Root].kids
  <2>1. PICK ino : BuiltFrom(t, ino)
    BY <1>1, <1>6, BuildStep
  <2> QED
    BY <1>1, <2>1 DEF BuiltFrom, SameKids
<1>7. ASSUME NEW t \in Threads, ClearUnsynced(t), n \notin DOMAIN dent'[Root].kids
      PROVE  req[t].dir = Root /\ n \in Unsynced(Root)
  <2>1. ClearedIn(Walked(req[t].dir))
    BY <1>1, <1>7, ClearStep
  <2>2. Root \in Walked(req[t].dir) /\ n \in Unsynced(Root)
    BY <1>1, <1>7, <2>1 DEF ClearedIn, SameKids, LosesNames
  <2> QED
    BY <1>2, <2>2, RootWalked
<1> QED
  BY <1>1, <1>3, <1>4, <1>5, <1>6, <1>7, TreeSteps

\* Which step makes the root complete.
LEMMA RootCompletes ==
    ASSUME Rooted, [Next]_vars, dent'[Root].complete, ~dent[Root].complete
    PROVE  \E t \in Threads : /\ ClearUnsynced(t) /\ req[t].dir = Root
                              /\ DOMAIN dent'[Root].kids = DOMAIN dent[Root].kids \ Unsynced(Root)
<1>1. IInv /\ DentInv /\ Root \in DOMAIN dent
  BY ParentFacts DEF Rooted, IInv, ParentLaws
<1>2. ASSUME NEW t \in Threads PROVE req[t].dir \in DOMAIN dent
  BY <1>1 DEF IInv, ReqInv, IsRequest
<1>3. ~TreeKept
  BY <1>1 DEF TreeKept
<1>4. ASSUME NEW t \in Threads, AddFound(t) \/ AddNew(t) PROVE FALSE
  <2>1. PICK new : AddedTo(req[t].dir, req[t].name, new)
    BY <1>1, <1>4, AddStep
  <2> QED
    BY <1>1, <2>1 DEF AddedTo, SameFlags
<1>5. ASSUME NEW t \in Threads, RemoveChild(t) PROVE FALSE
  <2>1. \A z \in DOMAIN dent : SameFlags(z)
    BY <1>1, <1>2, <1>5, RemoveKidEffect DEF RemoveChild
  <2> QED
    BY <1>1, <2>1 DEF SameFlags
<1>6. ASSUME NEW t \in Threads, BuildPage(t) PROVE FALSE
  <2>1. PICK ino : BuiltFrom(t, ino)
    BY <1>1, <1>6, BuildStep
  <2> QED
    BY <1>1, <2>1 DEF BuiltFrom
<1>7. PICK t \in Threads : ClearUnsynced(t)
  BY <1>1, <1>3, <1>4, <1>5, <1>6, TreeSteps
<1>8. ClearedIn(Walked(req[t].dir))
  BY <1>1, <1>7, ClearStep
<1>9. Root \in Walked(req[t].dir)
  BY <1>1, <1>8 DEF ClearedIn
<1>10. req[t].dir = Root
  BY <1>2, <1>9, RootWalked
<1> QED
  BY <1>7, <1>8, <1>9, <1>10 DEF ClearedIn, LosesNames

\* A name comes into the bucket when it is created.
LEMMA NameComes ==
    ASSUME OneClient, NoLostReplies, Flat, Rooted, Orderly, FlatInv, [Next]_vars,
           NEW n \in Entries(<<>>)', n \notin Entries(<<>>)
    PROVE  \E t \in Threads : PutObject(t) /\ req[t].name = n
<1>1. ~(bucket' \subseteq bucket)
  BY DEF Entries, Below
<1>2. PICK t \in Threads : Puts(t)
  BY <1>1, BucketStep DEF OneClient, OtherClient, Deletes
<1>3. PutObject(t) /\ bucket' = bucket \cup {NewKey(t)}
  <2>1. ~Fail(t)
    BY <1>1 DEF Fail, NoLostReplies
  <2> QED
    BY <1>2, <2>1 DEF Puts
<1>4. req[t].op = "create" /\ req[t].dir = Root /\ req[t].name \in Names
  BY <1>2 DEF Puts, Orderly, InOrder, Rooted, IInv, ReqInv, IsRequest, FlatInv, FlatRequest,
              ChangesDir
<1>5. NewKey(t) = <<req[t].name>> \/ NewKey(t) = <<req[t].name, NoName>>
  BY <1>4, RootKeys DEF NewKey
<1>6. PICK k \in bucket' : /\ Len(k) > Len(<<>>) /\ SubSeq(k, 1, Len(<<>>)) = <<>>
                           /\ k[Len(<<>>) + 1] = n /\ n \in Names
  BY DEF Entries, Below
<1>7. k \notin bucket
  BY <1>6 DEF Entries, Below
<1>8. n = req[t].name
  BY <1>3, <1>5, <1>6, <1>7
<1> QED
  BY <1>3, <1>8

LEMMA RootCompleteStep ==
    ASSUME OneClient, NoLostReplies, Flat, Rooted, Orderly, KeysOnly, FlatInv, DeletedInv,
           ListedInv, RootComplete, [Next]_vars
    PROVE  RootComplete'
<1>1. Extends /\ IInv
  BY StepExtends DEF Rooted
<1> SUFFICES ASSUME dent'[Root].complete, NEW n \in Entries(<<>>)', n \notin DOMAIN dent'[Root].kids
             PROVE  \E t \in Threads : req'[t].pc = "add_new" /\ req'[t].name = n
  BY DEF RootComplete, Root
<1>2. CASE n \notin Entries(<<>>)
  <2>1. PICK t \in Threads : PutObject(t) /\ req[t].name = n
    BY <1>2, NameComes
  <2> QED
    BY <1>1, <2>1, ChangeMoves DEF MovedTo, Moved, SameCall
<1>3. CASE n \in Entries(<<>>) /\ n \in DOMAIN dent[Root].kids
  <2>1. ASSUME NEW t \in Threads, RemoveChild(t), req[t].name = n PROVE FALSE
    <3>1. <<n>> \notin bucket /\ <<n, NoName>> \notin bucket
      BY <2>1 DEF DeletedInv, Deleted, RemoveChild, Local, At
    <3> QED
      BY <1>3, <3>1, KeyListed DEF KeysOnly
  <2>2. ASSUME NEW t \in Threads, ClearUnsynced(t), req[t].dir = Root, n \in Unsynced(Root)
        PROVE  FALSE
    BY <1>3, <2>2 DEF ListedInv, ListsAll, ClearUnsynced, Local, At, Unsynced, MarkedKid
  <2> QED
    BY <1>3, <2>1, <2>2, RootKidStays
<1>4. CASE n \in Entries(<<>>) /\ n \notin DOMAIN dent[Root].kids /\ dent[Root].complete
  <2>1. PICK t \in Threads : req[t].pc = "add_new" /\ req[t].name = n
    BY <1>4 DEF RootComplete
  <2>2. req[t].op = "create" /\ req[t].dir = Root
    BY <2>1 DEF Orderly, InOrder, FlatInv, FlatRequest, ChangesDir
  <2>3. ~AddNew(t)
    <3> SUFFICES ASSUME AddNew(t) PROVE FALSE
      OBVIOUS
    <3>1. PICK new : AddedTo(Root, n, new)
      BY <1>1, <2>1, <2>2, AddStep
    <3> QED
      BY <3>1 DEF AddedTo
  <2>4. ~Request(t)
    BY <2>1 DEF Request, Lookup, Create, Remove, ReadDir, Begin, At
  <2>5. CASE Handler(t)
    <3>1. req' = req
      BY <2>1, <2>3, <2>5
         DEF Handler, FindMissing, FindCached, HeadFile, HeadDir, ListOne, AddFound,
             HeadExpired, ApplyHead, ReplyEntry, Absent, PutObject, RemoveFound,
             DeleteObject, RemoveChild, LoadDir, ListPage, BuildPage, ClearUnsynced,
             ReplyEntries, UseAfterFree, Fail, Local, At
    <3> QED
      BY <2>1, <3>1
  <2> QED
    BY <1>1, <2>1, <2>4, <2>5, OthersServed
<1>5. CASE n \in Entries(<<>>) /\ n \notin DOMAIN dent[Root].kids /\ ~dent[Root].complete
  <2>1. PICK t \in Threads : ClearUnsynced(t) /\ req[t].dir = Root
    BY <1>5, RootCompletes
  <2> QED
    BY <1>5, <2>1 DEF ListedInv, ListsAll, ClearUnsynced, Local, At, MarkedKid
<1> QED
  BY <1>2, <1>3, <1>4, <1>5

\* Which steps come to one of a listing.
LEMMA ListsNext ==
    ASSUME IInv, NEW t \in Threads, Handler(t), req'[t].pc \in {"load", "list", "build", "clear"}
    PROVE  LoadDir(t) \/ ListPage(t) \/ BuildPage(t) \/ UNCHANGED <<bucket, dent, freed, req>>
<1>1. NoRequest.pc = "idle"
  BY DEF NoRequest
<1>2. CASE UseAfterFree(t)
  BY <1>2 DEF UseAfterFree
<1>3. CASE \/ FindMissing(t) \/ FindCached(t) \/ HeadFile(t) \/ HeadDir(t) \/ ListOne(t)
           \/ AddFound(t) \/ AddNew(t) \/ HeadExpired(t) \/ ApplyHead(t)
  BY <1>3, SearchMoves DEF MovedTo, Moved
<1>4. CASE \/ Absent(t) \/ PutObject(t) \/ RemoveFound(t) \/ DeleteObject(t) \/ ReplyEntry(t)
           \/ RemoveChild(t) \/ ReplyEntries(t) \/ Fail(t)
  BY <1>1, <1>4, ChangeMoves DEF MovedTo, Moved, Ended
<1>5. CASE ClearUnsynced(t)
  <2>1. req'[t].pc = "entries" \/ UNCHANGED <<bucket, dent, freed, req>>
    BY <1>5, ClearStep, GotoMoves DEF MovedTo, Moved, IInv
  <2> QED
    BY <2>1
<1> QED
  BY <1>2, <1>3, <1>4, <1>5 DEF Handler

\* The marks of a page.
LEMMA PageMarked ==
    ASSUME Rooted, NEW t \in Threads, BuildPage(t), req[t].dir = Root, NEW n
    PROVE  MarkedKid(n)' <=> MarkedKid(n) \/ n \in DOMAIN req[t].page
<1>1. DentInv /\ Root \in DOMAIN dent /\ IInv
  BY ParentFacts DEF Rooted, IInv, ParentLaws
<1>2. PICK ino : BuiltFrom(t, ino)
  BY <1>1, BuildStep
<1>3. DOMAIN dent'[Root].kids = DOMAIN dent[Root].kids \cup DOMAIN req[t].page
  BY <1>2 DEF BuiltFrom
<1>4. CASE n \in Missing(t)
  <2>1. dent'[Root].kids[n] = ino[n] /\ dent'[ino[n]].synced /\ n \in DOMAIN req[t].page
    BY <1>2, <1>3, <1>4 DEF BuiltFrom, Missing
  <2> QED
    BY <1>3, <2>1 DEF MarkedKid, Root
<1>5. CASE n \in DOMAIN dent[Root].kids
  <2> DEFINE z == dent[Root].kids[n]
  <2>1. z \in DOMAIN dent /\ z # Root /\ dent[z].name = n
    BY <1>1, <1>5, DentryFacts
  <2>2. dent'[Root].kids[n] = z
    BY <1>2, <1>3, <1>5 DEF BuiltFrom, Missing
  <2>3. dent'[z].synced <=> dent[z].synced
                              \/ \E m \in DOMAIN req[t].page \ Missing(t) : z = dent[Root].kids[m]
    BY <1>2, <2>1 DEF BuiltFrom
  <2>4. (\E m \in DOMAIN req[t].page \ Missing(t) : z = dent[Root].kids[m])
           <=> n \in DOMAIN req[t].page
    <3>1. \A m \in DOMAIN req[t].page \ Missing(t) : m \in DOMAIN dent[Root].kids
      BY DEF Missing
    <3>2. \A m \in DOMAIN dent[Root].kids : z = dent[Root].kids[m] => m = n
      BY <1>1, <2>1, DentryFacts
    <3>3. n \notin Missing(t)
      BY <1>5 DEF Missing
    <3> QED
      BY <3>1, <3>2, <3>3
  <2> QED
    BY <1>3, <1>5, <2>2, <2>3, <2>4 DEF MarkedKid, Root
<1>6. CASE n \notin DOMAIN dent[Root].kids /\ n \notin Missing(t)
  BY <1>3, <1>6 DEF MarkedKid, Missing, Root
<1> QED
  BY <1>4, <1>5, <1>6

LEMMA MarksKept ==
    ASSUME Rooted, TreeKept, NEW n
    PROVE  MarkedKid(n)' <=> MarkedKid(n)
<1>1. Root \in DOMAIN dent /\ DentInv
  BY ParentFacts DEF ParentLaws
<1>2. DOMAIN dent'[Root].kids = DOMAIN dent[Root].kids
  BY <1>1 DEF TreeKept, SameKids
<1>3. CASE n \in DOMAIN dent[Root].kids
  <2>1. dent[Root].kids[n] \in DOMAIN dent /\ dent'[Root].kids[n] = dent[Root].kids[n]
    BY <1>1, <1>3, DentryFacts DEF TreeKept, SameKids
  <2> QED
    BY <1>2, <1>3, <2>1 DEF MarkedKid, TreeKept, Root
<1> QED
  BY <1>2, <1>3 DEF MarkedKid, Root

LEMMA ListsAllStep ==
    ASSUME OneThread, OneClient, Rooted, Rooted', Orderly, ListedInv, [Next]_vars,
           NEW t \in Threads
    PROVE  ListsAll(t)'
<1>1. IInv /\ ListsAll(t)
  BY DEF Rooted, ListedInv
<1>2. CASE TreeKept /\ UNCHANGED <<bucket, req>>
  BY <1>1, <1>2, MarksKept, SameEntries DEF ListsAll
<1>3. CASE Request(t)
  <2>1. req'[t].pc \in {"load", "find"} /\ req'[t].marker = "start"
    <3>1. PICK op, x, name, type : BeginsFor(t, op, x, name, type)
      BY <1>1, <1>3, RequestBegins
    <3> QED
      BY <1>1, <3>1, BeginEffect DEF BeginsFor
  <2> QED
    BY <2>1 DEF ListsAll
<1>4. CASE Handler(t) /\ req'[t].pc \notin {"load", "list", "build", "clear"}
  BY <1>4 DEF ListsAll
<1>5. CASE UNCHANGED <<bucket, dent, freed, req>>
  BY <1>1, <1>5, SameEntries DEF ListsAll, MarkedKid
<1>6. CASE LoadDir(t)
  <2>1. PICK pc \in {"list", "entries"} : MovedTo(t, pc)
    BY <1>1, <1>6, ChangeMoves
  <2>2. req'[t].pc = pc /\ req'[t].marker = "start" /\ bucket' = bucket
    BY <1>1, <1>6, <2>1 DEF MovedTo, Moved, LoadDir, Local, At, ListsAll
  <2> QED
    BY <2>1, <2>2, SameEntries, AllBehind DEF ListsAll
<1>7. CASE ListPage(t)
  <2> DEFINE names == Page(<<>>, req[t].marker)
             rest == Behind(<<>>, req[t].marker)
             l == req'[t].marker
  <2>1. SUFFICES ASSUME req[t].dir = Root, NEW n \in Entries(<<>>)
                 PROVE  \/ MarkedKid(n) \/ n \in DOMAIN req'[t].page
                        \/ req'[t].more /\ n \in Behind(<<>>, l)
    <3>1. UNCHANGED <<bucket, dent>> /\ req'[t].pc = "build" /\ req'[t].dir = req[t].dir
      BY <1>1, <1>7, ListMoves DEF SameCall
    <3>2. Entries(<<>>)' = Entries(<<>>) /\ Behind(<<>>, req[t].marker)' = Behind(<<>>, l)
      <4>1. PICK m : m = l
        OBVIOUS
      <4>2. Entries(<<>>)' = Entries(<<>>) /\ Behind(<<>>, m)' = Behind(<<>>, m)
        BY <3>1, SameEntries
      <4> QED
        BY <4>1, <4>2
    <3>3. \A n : MarkedKid(n)' <=> MarkedKid(n)
      BY <3>1 DEF MarkedKid
    <3> QED
      BY <2>1, <3>1, <3>2, <3>3 DEF ListsAll
  <2>2. /\ req'[t].page = Listed(<<>>, names)
        /\ req'[t].more = (names # rest)
        /\ l \in IF names # rest THEN Last(names) ELSE {req[t].marker}
    BY <1>1, <1>7, <2>1, ListMoves, PathFacts DEF PathLaws
  <2>3. MarkedKid(n) \/ n \in rest
    BY <1>1, <1>7, <2>1 DEF ListsAll, ListPage, At
  <2>4. CASE n \in rest /\ n \notin names
    <3>1. names # rest /\ l \in names
      BY <2>2, <2>4 DEF Last
    <3>2. Before(l, n)
      BY <2>4, <3>1, BehindPage
    <3>3. n \in Behind(<<>>, l)
      BY <2>1, <3>2 DEF Behind
    <3> QED
      BY <2>2, <3>1, <3>3
  <2> QED
    BY <2>2, <2>3, <2>4 DEF Listed
<1>8. CASE BuildPage(t)
  <2>1. PICK pc : pc = IF req[t].more THEN "list" ELSE "clear"
    OBVIOUS
  <2>2. MovedTo(t, pc)
    BY <1>1, <1>8, <2>1, ChangeMoves
  <2>3. /\ req'[t].dir = req[t].dir /\ req'[t].marker = req[t].marker /\ req'[t].pc = pc
        /\ bucket' = bucket
    BY <1>1, <1>8, <2>2, BuildStep DEF MovedTo, Moved, SameCall
  <2>4. Entries(<<>>)' = Entries(<<>>) /\ Behind(<<>>, req[t].marker)' = Behind(<<>>, req[t].marker)
    <3>1. PICK m : m = req[t].marker
      OBVIOUS
    <3>2. Entries(<<>>)' = Entries(<<>>) /\ Behind(<<>>, m)' = Behind(<<>>, m)
      BY <2>3, SameEntries
    <3> QED
      BY <2>3, <3>1, <3>2
  <2>5. req[t].dir = Root =>
           \A n \in Entries(<<>>) :
              MarkedKid(n)' \/ (req[t].more /\ n \in Behind(<<>>, req[t].marker))
    BY <1>1, <1>8, PageMarked DEF ListsAll, BuildPage, Local, At
  <2>6. pc \in {"list", "clear"} /\ (pc = "clear" => ~req[t].more)
    BY <2>1
  <2> QED
    BY <2>3, <2>4, <2>5, <2>6 DEF ListsAll
<1> QED
  BY <1>1, <1>2, <1>3, <1>4, <1>5, <1>6, <1>7, <1>8, NobodyElse, ListsNext

LEMMA InitListing == ASSUME Init PROVE ListedInv /\ RootComplete
<1>1. NoRequest.pc = "idle"
  BY DEF NoRequest
<1>2. ~dent[Root].complete /\ \A t \in Threads : req[t].pc = "idle"
  BY <1>1 DEF Init, Dentry
<1> QED
  BY <1>2 DEF ListedInv, RootComplete, ListsAll

LEMMA AlwaysListed == ASSUME OneThread, OneClient PROVE Spec => []ListedInv
<1>1. Init => ListedInv
  BY InitListing
<1>2. Rooted /\ Rooted' /\ Orderly /\ ListedInv /\ [Next]_vars => ListedInv'
  BY ListsAllStep DEF ListedInv
<1> QED
  BY <1>1, <1>2, AlwaysRooted, AlwaysOrderly, PTL DEF Spec

LEMMA AlwaysComplete ==
    ASSUME OneThread, OneClient, NoLostReplies, Flat, OneKind
    PROVE  Spec => []RootComplete
<1>1. Init => RootComplete
  BY InitListing
<1>2. /\ Rooted /\ Orderly /\ KeysOnly /\ FlatInv /\ DeletedInv /\ ListedInv
      /\ RootComplete /\ [Next]_vars
      => RootComplete'
  BY RootCompleteStep
<1> QED
  BY <1>1, <1>2, AlwaysRooted, AlwaysOrderly, AlwaysKeysOnly, AlwaysFlat, AlwaysDeleted,
     AlwaysListed, PTL DEF Spec

\* A directory that load_sub_dentries answers from the cache alone has all that
\* the bucket has in it, whenever no request is under way, for any number of
\* names and any size of a page: with one thread and one client, as long as
\* failed puts and deletes have had no effect, no name is a file's and a
\* directory's, and directories are empty.
THEOREM ListingsAreComplete ==
    ASSUME OneThread, OneClient, NoLostReplies, Flat, OneKind
    PROVE  Spec => []ListingComplete
<1>1. Rooted /\ KeysOnly /\ RootComplete => ListingComplete
  <2> SUFFICES ASSUME Rooted, KeysOnly, RootComplete, Quiet, NEW x \in Attached,
                      dent[x].complete, NEW n \in Entries(Path(x)) \ {NoName}
               PROVE  n \in DOMAIN dent[x].kids
    BY DEF ListingComplete, NoName
  <2>1. x \in DOMAIN dent
    BY AttachedFacts
  <2>2. CASE x = Root
    <3>1. n \in Entries(<<>>)
      BY <2>2, PathFacts DEF PathLaws
    <3> QED
      BY <2>2, <3>1 DEF RootComplete, Quiet
  <2>3. CASE x # Root
    <3>1. Path(x) \in Seq(Names) /\ Path(x) # <<>>
      BY <2>1, <2>3, PathType
    <3>2. n = NoName
      BY <3>1, FlatEntries DEF KeysOnly
    <3> QED
      BY <3>2
  <2> QED
    BY <2>2, <2>3
<1> QED
  BY <1>1, AlwaysRooted, AlwaysKeysOnly, AlwaysComplete, PTL

-----------------------------------------------------------------------------
(* What the kernel knows stays cached.                                     *)

\* What can be reached is in the tree, below directories.
LEMMA LiveAttached ==
    ASSUME Rooted, Linked
    PROVE  \A x \in DOMAIN dent : ~PathFreed(x) => x \in Attached
<1> DEFINE T == {x \in DOMAIN dent : ~PathFreed(x) /\ x \notin Attached}
<1> SUFFICES ASSUME T # {} PROVE FALSE
  OBVIOUS
<1>1. T \in SUBSET Nat
  BY ParentFacts DEF ParentLaws
<1>2. PICK x \in T : \A y \in T : ~(y < x)
  BY <1>1, Smallest
<1>3. x \in DOMAIN dent \ {Root} /\ ~PathFreed(x) /\ x \notin Attached
  BY <1>2, AttachedFacts
<1>4. /\ dent[x].parent \in DOMAIN dent /\ dent[x].parent < x
      /\ ~PathFreed(dent[x].parent) /\ x \notin freed
  BY <1>3, ParentLive, ParentFacts DEF ParentLaws
<1>5. dent[x].parent \in Attached
  BY <1>2, <1>4
<1>6. Hangs(x)
  BY <1>3, <1>4 DEF Linked, Hangs
<1> QED
  BY <1>3, <1>5, <1>6, AttachedFacts

LEMMA DirsAbove ==
    ASSUME Rooted, Linked, NEW x \in DOMAIN dent, ~PathFreed(x), NEW z \in Ancestry(x), z # x
    PROVE  IsDir(z)
<1> DEFINE Bad(u) == ~PathFreed(u) /\ \E v \in Ancestry(u) : v # u /\ ~IsDir(v)
           T == {u \in DOMAIN dent : Bad(u)}
<1> SUFFICES ASSUME T # {} PROVE FALSE
  OBVIOUS
<1>1. T \in SUBSET Nat
  BY ParentFacts DEF ParentLaws
<1>2. PICK u \in T : \A v \in T : ~(v < u)
  BY <1>1, Smallest
<1>3. PICK v \in Ancestry(u) : v # u /\ ~IsDir(v)
  BY <1>2
<1>4. u \in DOMAIN dent \ {Root}
  BY <1>2, <1>3, AncestryFacts DEF AncestryLaws
<1> DEFINE p == dent[u].parent
<1>5. /\ p \in DOMAIN dent /\ p < u /\ ~PathFreed(p) /\ u \notin freed
      /\ Ancestry(u) = {u} \cup Ancestry(p)
  BY <1>2, <1>4, ParentLive, ParentFacts, AncestryFacts DEF ParentLaws, AncestryLaws
<1>6. v = p
  BY <1>2, <1>3, <1>5
<1>7. Hangs(u)
  BY <1>4, <1>5 DEF Linked, Hangs
<1>8. HasKids(p)
  BY <1>4, <1>7, HangsByName DEF HasKids
<1> QED
  BY <1>3, <1>5, <1>6, <1>8 DEF Rooted, IInv, DentInv, TreeSound

\* A refresh of the root finds everything that is in it.
LEMMA AllMarked ==
    ASSUME OneThread, Rooted, Orderly, FlatInv, AloneInv, MarkerInv, ListedInv,
           NEW t \in Threads, req[t].pc = "clear", req[t].dir = Root
    PROVE  Unsynced(Root) = {}
<1> SUFFICES ASSUME NEW n \in Unsynced(Root) PROVE FALSE
  OBVIOUS
<1> DEFINE x == dent[Root].kids[n]
<1>1. n \in DOMAIN dent[Root].kids /\ ~dent[x].synced
  BY DEF Unsynced
<1>2. Root \in DOMAIN dent /\ DentInv
  BY ParentFacts DEF ParentLaws
<1>3. /\ x \in DOMAIN dent \ {Root} /\ x \notin freed /\ dent[x].parent = Root
      /\ dent[x].name = n /\ n \in Names
  BY <1>1, <1>2, DentryFacts
<1>4. \A u \in Threads : req[u].pc # "remove_child"
  BY DEF OneThread
<1>5. n \in Entries(<<>>)
  <2>1. CASE IsDir(x)
    <3>1. <<n, NoName>> \in bucket
      BY <1>3, <1>4, <2>1 DEF MarkerInv, DirsStored
    <3> QED
      BY <1>3, <3>1, ListedKey
  <2>2. CASE ~IsDir(x)
    <3>1. n # NoName
      BY <1>3 DEF FlatInv, FlatTree
    <3>2. ~PathFreed(x)
      BY <1>2, <1>3, AncestryFacts DEF AncestryLaws, PathFreed, DentInv, TreeSound
    <3>3. Path(x) \in bucket
      BY <1>3, <1>4, <2>2, <3>1, <3>2 DEF AloneInv, FilesStored
    <3>4. Path(x) = <<n>>
      BY <1>3, RootKeys, PathFacts DEF FileKey, PathLaws
    <3> QED
      BY <1>3, <3>3, <3>4, ListedKey
  <2> QED
    BY <2>1, <2>2
<1> QED
  BY <1>1, <1>5 DEF ListedInv, ListsAll, MarkedKid

\* Nothing that a refresh frees is, or is above, what the kernel knows.
LEMMA ClearSpares ==
    ASSUME OneThread, Rooted, Orderly, FlatInv, AloneInv, MarkerInv, ListedInv, KnownLive,
           NEW t \in Threads, req[t].pc = "clear", NEW x \in known,
           NEW y \in Walked(req[t].dir)
    PROVE  Ancestry(x) \cap KidsNamed(y, Unsynced(y)) = {}
<1> SUFFICES ASSUME NEW z \in Ancestry(x), z \in KidsNamed(y, Unsynced(y)) PROVE FALSE
  OBVIOUS
<1>1. /\ x \in DOMAIN dent /\ req[t].dir \in DOMAIN dent /\ y \in DOMAIN dent
      /\ DentInv
  BY WalkedFacts DEF Rooted, IInv, ReqInv, IsRequest
<1>2. PICK n \in Unsynced(y) : n \in DOMAIN dent[y].kids /\ z = dent[y].kids[n]
  BY DEF KidsNamed
<1>3. z \in DOMAIN dent \ {Root} /\ dent[z].parent = y
  BY <1>1, <1>2, DentryFacts
<1>4. y # Root
  <2>1. req[t].dir = Root => Unsynced(Root) = {}
    BY AllMarked
  <2> QED
    BY <1>1, <1>2, <2>1, RootWalked
<1>5. dent[z].name = NoName /\ ~IsDir(z)
  BY <1>3, <1>4 DEF FlatInv, FlatTree, IsDir
<1>6. z # x
  BY <1>3, <1>5 DEF Orderly, KnownNamed
<1> QED
  BY <1>1, <1>5, <1>6, DirsAbove DEF AloneInv, KnownLive

\* Which steps free memory, or tell the kernel of something.
LEMMA KnownSteps ==
    ASSUME IInv, Orderly, [Next]_vars
    PROVE  \/ UNCHANGED <<freed, known>>
           \/ \E t \in Threads : \/ ReplyEntry(t) \/ Absent(t) \/ RemoveChild(t)
                                 \/ ClearUnsynced(t) \/ ReplyEntries(t)
<1>1. CASE \E t \in Threads : Request(t)
  BY <1>1, Begun
<1>2. ASSUME NEW t \in Threads, Handler(t)
      PROVE  \/ UNCHANGED <<freed, known>>
             \/ \/ ReplyEntry(t) \/ Absent(t) \/ RemoveChild(t) \/ ClearUnsynced(t)
                \/ ReplyEntries(t)
  <2>1. CASE \/ FindMissing(t) \/ FindCached(t) \/ HeadFile(t) \/ HeadDir(t) \/ ListOne(t)
             \/ HeadExpired(t) \/ PutObject(t) \/ RemoveFound(t) \/ DeleteObject(t)
             \/ LoadDir(t) \/ UseAfterFree(t) \/ Fail(t)
    BY <2>1 DEF FindMissing, FindCached, HeadFile, HeadDir, ListOne, HeadExpired, PutObject,
                RemoveFound, DeleteObject, LoadDir, UseAfterFree, Fail
  <2>2. CASE AddFound(t) \/ AddNew(t) \/ ApplyHead(t) \/ ListPage(t) \/ BuildPage(t)
    BY <2>2, AddStep, FlagStep, ListMoves, BuildStep
  <2> QED
    BY <1>2, <2>1, <2>2 DEF Handler
<1>3. CASE \E x \in Attached : Expire(x)
  BY <1>3, FlagStep
<1>4. CASE UseFreed \/ OtherClient \/ Idle \/ UNCHANGED vars
  BY <1>4 DEF UseFreed, OtherClient, Idle, vars
<1> QED
  BY <1>1, <1>2, <1>3, <1>4 DEF Next

LEMMA KnownLiveStep ==
    ASSUME OneThread, NoneHeld, Rooted, Rooted', Orderly, FlatInv, AloneInv, MarkerInv,
           ListedInv, KnownLive, [Next]_vars
    PROVE  KnownLive'
<1>1. Extends /\ IInv /\ DentInv
  BY StepExtends DEF Rooted, IInv
<1> SUFFICES ASSUME NEW x \in known' PROVE Ancestry(x)' \cap freed' = {}
  BY DEF KnownLive, PathFreed
<1>2. ASSUME x \in DOMAIN dent, ~PathFreed(x), freed' = freed
      PROVE  Ancestry(x)' \cap freed' = {}
  BY <1>1, <1>2, AncestryStable DEF PathFreed
<1>3. CASE UNCHANGED <<freed, known>>
  BY <1>1, <1>2, <1>3 DEF IInv, KnownLive
<1>4. ASSUME NEW t \in Threads, ReplyEntry(t)
      PROVE  Ancestry(x)' \cap freed' = {}
  <2>1. x \in known \/ x = req[t].target
    BY <1>4 DEF ReplyEntry
  <2>2. req[t].target \in DOMAIN dent /\ ~PathFreed(req[t].target) /\ freed' = freed
    BY <1>1, <1>4 DEF ReplyEntry, Local, At, TouchesFreed, IInv, ReqInv, IsRequest
  <2> QED
    BY <1>1, <1>2, <2>1, <2>2 DEF IInv, KnownLive
<1>5. ASSUME NEW t \in Threads, Absent(t)
      PROVE  Ancestry(x)' \cap freed' = {}
  BY <1>1, <1>2, <1>5 DEF Absent, IInv, KnownLive
<1>6. ASSUME NEW t \in Threads, RemoveChild(t)
      PROVE  Ancestry(x)' \cap freed' = {}
  <2> DEFINE c == dent[req[t].dir].kids[req[t].name]
  <2>1. x \in known \ Dropped(req[t].dir, req[t].name, Root)
    BY <1>6 DEF RemoveChild
  <2>2. freed' = freed \cup KidsNamed(req[t].dir, {req[t].name})
    BY <1>6 DEF RemoveChild
  <2>3. x \in DOMAIN dent /\ Ancestry(x) \cap freed = {} /\ Ancestry(x)' = Ancestry(x)
    BY <1>1, <2>1, AncestryStable DEF IInv, KnownLive, PathFreed
  <2>4. ASSUME NEW z \in Ancestry(x), z \in KidsNamed(req[t].dir, {req[t].name}) PROVE FALSE
    <3>1. req[t].dir \in DOMAIN dent
      BY <1>1 DEF IInv, ReqInv, IsRequest
    <3>2. z # Root /\ dent[z].parent = req[t].dir /\ dent[z].name = req[t].name
      BY <1>1, <2>4, <3>1, DentryFacts DEF KidsNamed
    <3> QED
      BY <2>1, <2>4, <3>2 DEF Dropped, NoneHeld
  <2> QED
    BY <2>2, <2>3, <2>4
<1>7. ASSUME NEW t \in Threads, ClearUnsynced(t)
      PROVE  Ancestry(x)' \cap freed' = {}
  <2>1. x \in known /\ req[t].pc = "clear"
    BY <1>7 DEF ClearUnsynced, Local, At
  <2>2. x \in DOMAIN dent /\ Ancestry(x) \cap freed = {} /\ Ancestry(x)' = Ancestry(x)
    BY <1>1, <2>1, AncestryStable DEF IInv, KnownLive, PathFreed
  <2>3. \/ freed' = freed
        \/ freed' = freed \cup UNION {KidsNamed(y, Unsynced(y)) : y \in Walked(req[t].dir)}
    BY <1>1, <1>7, ClearStep
  <2>4. \A y \in Walked(req[t].dir) : Ancestry(x) \cap KidsNamed(y, Unsynced(y)) = {}
    BY <2>1, ClearSpares
  <2> QED
    BY <2>2, <2>3, <2>4
<1>8. ASSUME NEW t \in Threads, ReplyEntries(t)
      PROVE  Ancestry(x)' \cap freed' = {}
  <2> DEFINE d == req[t].dir
  <2>1. freed' = freed /\ d \in DOMAIN dent
    BY <1>1, <1>8 DEF ReplyEntries, IInv, ReqInv, IsRequest
  <2>2. x \in known \/ \E n \in DOMAIN dent[d].kids \ {NoName} : x = dent[d].kids[n]
    BY <1>8 DEF ReplyEntries, KidsNamed, NoName
  <2>3. ASSUME NEW n \in DOMAIN dent[d].kids \ {NoName}, x = dent[d].kids[n]
        PROVE  x \in DOMAIN dent /\ ~PathFreed(x)
    <3>1. x \in DOMAIN dent \ {Root} /\ x \notin freed /\ dent[x].parent = d /\ dent[x].name = n
      BY <1>1, <2>1, <2>3, DentryFacts
    <3>2. d = Root
      BY <3>1 DEF FlatInv, FlatTree
    <3> QED
      BY <1>1, <3>1, <3>2, AncestryFacts DEF AncestryLaws, PathFreed, DentInv, TreeSound
  <2> QED
    BY <1>1, <1>2, <2>1, <2>2, <2>3 DEF IInv, KnownLive
<1> QED
  BY <1>1, <1>3, <1>4, <1>5, <1>6, <1>7, <1>8, KnownSteps

LEMMA AlwaysKnownLive ==
    ASSUME OneThread, OneClient, NoLostReplies, NoneHeld, Flat
    PROVE  Spec => []KnownLive
<1>1. Init => KnownLive
  <2> SUFFICES ASSUME Init PROVE ~PathFreed(Root)
    BY DEF Init, KnownLive
  <2> QED
    BY DEF Init, PathFreed
<1>2. /\ Rooted /\ Rooted' /\ Orderly /\ FlatInv /\ AloneInv /\ MarkerInv /\ ListedInv
      /\ KnownLive /\ [Next]_vars
      => KnownLive'
  BY KnownLiveStep
<1> QED
  BY <1>1, <1>2, AlwaysRooted, AlwaysOrderly, AlwaysFlat, AlwaysAlone, AlwaysMarker,
     AlwaysListed, PTL DEF Spec

\* What the kernel has been given a number for is in the tree whenever no
\* request is under way, so that no refresh takes it away: with one thread and
\* one client, as long as the kernel uses nothing whose name was removed, failed
\* puts and deletes have had no effect, and directories are empty.
THEOREM KnownAreCached ==
    ASSUME OneThread, OneClient, NoLostReplies, NoneHeld, Flat
    PROVE  Spec => []KnownStaysCached
<1>1. Rooted /\ AloneInv /\ KnownLive => KnownStaysCached
  BY LiveAttached DEF KnownLive, KnownStaysCached, AloneInv, Rooted, IInv
<1> QED
  BY <1>1, AlwaysRooted, AlwaysAlone, AlwaysKnownLive, PTL

-----------------------------------------------------------------------------
(* A refresh of the root, whatever other clients do meanwhile.             *)

LEMMA FilesAreFlat == FilesOnly => Flat
  BY DEF FilesOnly, Flat

LEMMA OnlyRootIsDir ==
    ASSUME FilesOnly, Rooted, FlatInv
    PROVE  /\ \A x \in DOMAIN dent \ {Root} : ~IsDir(x)
           /\ \A t \in Threads : req[t].dir = Root
<1>1. ASSUME NEW x \in DOMAIN dent \ {Root}, IsDir(x) PROVE FALSE
  <2>1. RootKey(dent[x].name, "dir") \in Keys
    BY <1>1 DEF FlatInv, FlatTree, IsDir
  <2>2. <<dent[x].name, NoName>> \in Keys
    BY <2>1 DEF RootKey
  <2>3. Len(<<dent[x].name, NoName>>) = 2
    OBVIOUS
  <2>4. \A k \in Keys : Len(k) = 1
    BY DEF FilesOnly
  <2>5. Len(<<dent[x].name, NoName>>) = 1
    BY <2>2, <2>4, Zenon
  <2> QED
    BY <2>3, <2>5
<1>2. ASSUME NEW t \in Threads PROVE req[t].dir = Root
  BY <1>1 DEF Rooted, IInv, ReqInv, IsRequest
<1> QED
  BY <1>1, <1>2

LEMMA RootAlone ==
    ASSUME FilesOnly, Rooted, FlatInv
    PROVE  Walked(Root) = {Root}
<1>1. Root \in DOMAIN dent
  BY ParentFacts DEF ParentLaws
<1> QED
  BY <1>1, OnlyRootIsDir, WalkedFacts DEF Leads

\* What is left after a refresh: the marked, and no mark.
LEMMA RefreshEnds ==
    ASSUME Rooted, ClearedIn({Root})
    PROVE  DOMAIN dent'[Root].kids = Marks /\ Marks' = {}
<1>1. Root \in DOMAIN dent /\ DentInv
  BY ParentFacts DEF ParentLaws
<1>2. LosesNames(Root, Unsynced(Root))
  BY DEF ClearedIn
<1>3. DOMAIN dent'[Root].kids = Marks
  BY <1>2 DEF LosesNames, Marks, Unsynced
<1>4. ASSUME NEW n \in DOMAIN dent'[Root].kids PROVE ~dent'[dent'[Root].kids[n]].synced
  <2> DEFINE z == dent[Root].kids[n]
  <2>1. n \in DOMAIN dent[Root].kids /\ dent'[Root].kids[n] = z
    BY <1>2, <1>4 DEF LosesNames
  <2>2. z \in DOMAIN dent \ {Root} /\ z \in Kids(Root)
    BY <1>1, <2>1, DentryFacts DEF Kids, Range
  <2> QED
    BY <2>1, <2>2 DEF ClearedIn
<1> QED
  BY <1>3, <1>4 DEF Marks, Root

\* The steps of other operations, when no call fails.
LEMMA OutsideRefresh ==
    ASSUME NoFailures, IInv, NEW t \in Threads, Handler(t),
           ~(LoadDir(t) \/ ListPage(t) \/ BuildPage(t) \/ ClearUnsynced(t)),
           ~UNCHANGED <<dent, req>>
    PROVE  /\ req[t].pc \notin {"list", "build", "clear"}
           /\ req'[t].pc \notin {"load", "list", "build", "clear"}
<1>1. ~Fail(t) /\ ~UseAfterFree(t)
  BY DEF NoFailures, Fail, UseAfterFree
<1>2. req[t].pc \notin {"list", "build", "clear"}
  BY <1>1 DEF Handler, FindMissing, FindCached, HeadFile, HeadDir, ListOne, AddFound,
              HeadExpired, ApplyHead, ReplyEntry, Absent, PutObject, AddNew, RemoveFound,
              DeleteObject, RemoveChild, ReplyEntries, Local, At
<1> QED
  BY <1>2, ListsNext

\* No mark is made but by a refresh.
LEMMA NoMarkComes ==
    ASSUME Rooted, Orderly, [Next]_vars, Marks = {}, ~\E t \in Threads : BuildPage(t),
           \A t \in Threads : ClearUnsynced(t) => dent' = dent
    PROVE  Marks' = {}
<1>1. Root \in DOMAIN dent /\ IInv /\ DentInv
  BY ParentFacts DEF Rooted, IInv, ParentLaws
<1>2. \A n \in DOMAIN dent[Root].kids : ~dent[dent[Root].kids[n]].synced
  BY DEF Marks
<1>3. SUFFICES ASSUME NEW n \in DOMAIN dent'[Root].kids
               PROVE  ~dent'[dent'[Root].kids[n]].synced
  BY DEF Marks, Root
<1>4. CASE TreeKept
  <2>1. MarkedKid(n)' <=> MarkedKid(n)
    BY <1>4, MarksKept
  <2> QED
    BY <1>2, <1>3, <2>1 DEF MarkedKid, Root
<1>5. ASSUME NEW t \in Threads, AddFound(t) \/ AddNew(t)
      PROVE  ~dent'[dent'[Root].kids[n]].synced
  <2>1. PICK type \in {req[t].found, req[t].type} :
           \E new \in NewDentry(t, type) : AddedTo(req[t].dir, req[t].name, new)
    BY <1>1, <1>5, AddStep
  <2>2. PICK new \in NewDentry(t, type) : AddedTo(req[t].dir, req[t].name, new)
    BY <2>1
  <2>3. ~new.synced
    BY NewDentryFields
  <2>4. \/ dent'[Root].kids[n] = NextIno
        \/ n \in DOMAIN dent[Root].kids /\ dent'[Root].kids[n] = dent[Root].kids[n]
    BY <1>1, <1>3, <2>2 DEF AddedTo, SameKids
  <2>5. \A m \in DOMAIN dent[Root].kids : dent[Root].kids[m] \in DOMAIN dent
    BY <1>1, DentryFacts
  <2> QED
    BY <1>2, <2>2, <2>3, <2>4, <2>5 DEF AddedTo, SameFlags
<1>6. ASSUME NEW t \in Threads, RemoveChild(t)
      PROVE  ~dent'[dent'[Root].kids[n]].synced
  <2>1. req[t].dir \in DOMAIN dent
    BY <1>1 DEF IInv, ReqInv, IsRequest
  <2>2. /\ LosesNames(req[t].dir, {req[t].name})
        /\ \A z \in DOMAIN dent : SameFlags(z) /\ (z # req[t].dir => SameKids(z))
    BY <1>1, <1>6, <2>1, RemoveKidEffect DEF RemoveChild
  <2>3. n \in DOMAIN dent[Root].kids /\ dent'[Root].kids[n] = dent[Root].kids[n]
    BY <1>1, <1>3, <2>2 DEF LosesNames, SameKids
  <2>4. dent[Root].kids[n] \in DOMAIN dent
    BY <1>1, <2>3, DentryFacts
  <2> QED
    BY <1>2, <2>2, <2>3, <2>4 DEF SameFlags
<1>7. CASE dent' = dent
  BY <1>2, <1>3, <1>7
<1> QED
  BY <1>1, <1>4, <1>5, <1>6, <1>7, TreeSteps

MarksInv == \A t \in Threads : MarksSeen(t)

LEMMA MarksSeenStep ==
    ASSUME OneThread, NoFailures, FilesOnly, Rooted, Rooted', Orderly, FlatInv, MarksInv,
           [Next]_vars, NEW t \in Threads
    PROVE  MarksSeen(t)'
<1>1. IInv /\ MarksSeen(t) /\ req[t].dir = Root
  BY OnlyRootIsDir DEF Rooted, MarksInv
<1>2. CASE UNCHANGED <<dent, req>>
  BY <1>1, <1>2 DEF MarksSeen, Marks
<1>3. CASE TreeKept /\ UNCHANGED req
  <2>1. \A n : MarkedKid(n)' <=> MarkedKid(n)
    BY <1>3, MarksKept
  <2>2. Marks' = Marks
    BY <2>1 DEF Marks, MarkedKid
  <2> QED
    BY <1>1, <1>3, <2>2 DEF MarksSeen
<1>4. CASE Request(t)
  <2>1. PICK op, x, name, type : BeginsFor(t, op, x, name, type)
    BY <1>1, <1>4, RequestBegins
  <2>2. /\ req[t].pc = "idle" /\ req'[t].pc \in {"load", "find"} /\ req'[t].seen = {}
        /\ dent' = dent
    BY <1>1, <2>1, BeginEffect DEF BeginsFor
  <2>3. Marks' = Marks
    BY <2>2 DEF Marks
  <2> QED
    BY <1>1, <2>2, <2>3 DEF MarksSeen
<1>5. CASE LoadDir(t)
  <2>1. PICK pc \in {"list", "entries"} : MovedTo(t, pc)
    BY <1>1, <1>5, ChangeMoves
  <2>2. dent' = dent /\ req[t].pc = "load" /\ req'[t].pc = pc /\ req'[t].seen = req[t].seen
    BY <1>5, <2>1 DEF LoadDir, Local, At, MovedTo, Moved
  <2>3. Marks' = Marks
    BY <2>2 DEF Marks
  <2> QED
    BY <1>1, <2>2, <2>3 DEF MarksSeen
<1>6. CASE ListPage(t)
  <2>1. PICK names : names = Page(Path(req[t].dir), req[t].marker)
    OBVIOUS
  <2>2. /\ dent' = dent /\ req'[t].pc = "build" /\ req'[t].seen = req[t].seen \cup names
        /\ req'[t].page = Listed(Path(req[t].dir), names)
    BY <1>1, <1>6, <2>1, ListMoves
  <2>3. DOMAIN req'[t].page = names /\ req[t].pc = "list"
    BY <1>6, <2>2 DEF Listed, ListPage, At
  <2>4. Marks' = Marks
    BY <2>2 DEF Marks
  <2> QED
    BY <1>1, <2>2, <2>3, <2>4 DEF MarksSeen
<1>7. CASE BuildPage(t)
  <2>1. PICK pc \in {"list", "clear"} : pc = IF req[t].more THEN "list" ELSE "clear"
    OBVIOUS
  <2>2. req[t].pc = "build" /\ req'[t].pc = pc /\ req'[t].seen = req[t].seen
    BY <1>1, <1>7, <2>1, ChangeMoves DEF BuildPage, Local, At, MovedTo, Moved
  <2>3. \A n : MarkedKid(n)' <=> MarkedKid(n) \/ n \in DOMAIN req[t].page
    BY <1>1, <1>7, PageMarked
  <2>4. Marks' = Marks \cup DOMAIN req[t].page
    BY <2>3 DEF Marks, MarkedKid
  <2> QED
    BY <1>1, <2>2, <2>4 DEF MarksSeen
<1>8. CASE ClearUnsynced(t) /\ ~UNCHANGED <<dent, req>>
  <2>1. req'[t].pc = "entries"
    BY <1>1, <1>8, ClearStep, GotoMoves DEF IInv, MovedTo, Moved
  <2>2. ClearedIn({Root})
    BY <1>1, <1>8, ClearStep, RootAlone
  <2> QED
    BY <2>1, <2>2, RefreshEnds DEF MarksSeen
<1>9. CASE /\ Handler(t) /\ ~UNCHANGED <<dent, req>>
           /\ ~(LoadDir(t) \/ ListPage(t) \/ BuildPage(t) \/ ClearUnsynced(t))
  <2>1. /\ req[t].pc \notin {"list", "build", "clear"}
        /\ req'[t].pc \notin {"load", "list", "build", "clear"}
    BY <1>1, <1>9, OutsideRefresh
  <2>2. Marks = {}
    BY <1>1, <2>1 DEF MarksSeen
  <2>3. Marks' = {}
    BY <1>9, <2>2, NoMarkComes DEF OneThread
  <2> QED
    BY <2>1, <2>3 DEF MarksSeen
<1> QED
  BY <1>1, <1>2, <1>3, <1>4, <1>5, <1>6, <1>7, <1>8, <1>9, NobodyElse

\* What the walk leaves is what it was given.
LEMMA ExactStep ==
    ASSUME OneThread, FilesOnly, Rooted, FlatInv, MarksInv, [Next]_vars, NEW t \in Threads,
           req[t].pc = "clear", req'[t].pc = "entries"
    PROVE  DOMAIN dent'[req[t].dir].kids = req[t].seen
<1>1. IInv /\ MarksSeen(t) /\ req[t].dir = Root /\ Root \in DOMAIN dent
  BY OnlyRootIsDir, ParentFacts DEF Rooted, MarksInv, ParentLaws
<1>2. ~Request(t)
  BY DEF Request, Lookup, Create, Remove, ReadDir, Begin, At
<1>3. Handler(t)
  BY <1>1, <1>2, NobodyElse
<1>4. NoRequest.pc = "idle"
  BY DEF NoRequest
<1>5. ~Fail(t)
  BY <1>1, <1>4, ChangeMoves DEF Ended
<1>6. ClearUnsynced(t)
  BY <1>3, <1>5 DEF Handler, FindMissing, FindCached, HeadFile, HeadDir, ListOne, AddFound,
                    HeadExpired, ApplyHead, ReplyEntry, Absent, PutObject, AddNew, RemoveFound,
                    DeleteObject, RemoveChild, LoadDir, ListPage, BuildPage, ReplyEntries,
                    UseAfterFree, Local, At
<1>7. ClearedIn({Root})
  BY <1>1, <1>6, ClearStep, RootAlone
<1> QED
  BY <1>1, <1>7, RefreshEnds DEF MarksSeen

\* After a refresh the root has exactly the names that the listing gave,
\* whatever other clients have put and deleted between its pages: with one
\* thread, files in the root only, and no call that fails.  A refresh that is
\* given up leaves marks behind, and so does each one on a directory.
THEOREM RefreshIsExact ==
    ASSUME OneThread, NoFailures, FilesOnly
    PROVE  Spec => RefreshExact
<1>1. Init => MarksInv
  <2>1. NoRequest.pc = "idle" /\ NoRequest.seen = {}
    BY DEF NoRequest
  <2>2. Init => Marks = {}
    <3>1. SUFFICES ASSUME Init, NEW n \in DOMAIN dent[Root].kids PROVE FALSE
      BY DEF Marks
    <3>2. DentInv /\ DOMAIN dent = {Root}
      BY <3>1, InitSound DEF Init, IInv
    <3>3. IsDentry(dent[Root])
      BY <3>2 DEF DentInv, TypedDentries
    <3>4. n \in Names
      BY <3>1, <3>3 DEF IsDentry
    <3> QED
      BY <3>2, <3>3, <3>4 DEF DentInv, RootSound, IsDentry
  <2> QED
    BY <2>1, <2>2 DEF Init, MarksInv, MarksSeen
<1>2. Rooted /\ Rooted' /\ Orderly /\ FlatInv /\ MarksInv /\ [Next]_vars => MarksInv'
  BY MarksSeenStep DEF MarksInv
<1>3. Rooted /\ FlatInv /\ MarksInv /\ [Next]_vars =>
         \A t \in Threads :
            req[t].pc = "clear" /\ req'[t].pc = "entries"
               => DOMAIN dent'[req[t].dir].kids = req[t].seen
  BY ExactStep
<1>4. Spec => []FlatInv
  BY FilesAreFlat, AlwaysFlat
<1> QED
  BY <1>1, <1>2, <1>3, <1>4, AlwaysRooted, AlwaysOrderly, PTL DEF Spec, RefreshExact

=============================================================================
