-------------------------- MODULE DentryBucketProofs --------------------------
(***************************************************************************)
(* What the handlers of any number of threads do to the bucket.            *)
(***************************************************************************)
EXTENDS DentryPathsProofs, SequenceTheorems

-----------------------------------------------------------------------------
(* Hypotheses.                                                             *)

\* What a marker's key has behind the slash.
NoName == ""

\* The loop of main.cpp's option singlethread.
OneThread == \A t, u \in Threads : t = u

\* Nobody else writes to the bucket.
OneClient == ~OtherClients

\* Files and the markers of directories, all in the root.
Flat == \A k \in Keys : k[1] # NoName /\ (Len(k) = 1 \/ (Len(k) = 2 /\ k[2] = NoName))

\* Directories in the root at most, so that everything has an object directly in
\* its directory.
Shallow == \A k \in Keys : Len(k) = 1 \/ Len(k) = 2

\* No name is a file's and a directory's.
OneKind == \A n \in Names : ~(<<n>> \in Keys /\ <<n, NoName>> \in Keys)

-----------------------------------------------------------------------------
(* Requests, for all keys and threads.                                     *)

Reading == {"load", "list", "build", "clear", "entries"}
HasTarget == {"head_expired", "apply", "found", "delete", "remove_child"}
ChangesDir(t) == req[t].op \in {"create", "remove"}

\* Which step belongs to which operation.
InOrder(t) ==
    LET r == req[t]
    IN  /\ r.op = "none" <=> r.pc = "idle"
        /\ r.op = "readdir" <=> r.pc \in Reading
        /\ r.pc \in {"put", "add_new"} => r.op = "create"
        /\ r.pc \in {"delete", "remove_child"} => r.op = "remove"
        /\ r.op \in {"lookup", "create", "remove"} => r.name # NoName
        /\ ChangesDir(t) => r.lock = "exclusive"

\* What was found, or made, has the name that was asked for.
TargetNamed(t) ==
    req[t].pc \in HasTarget =>
        LET d == dent[req[t].target]
        IN  d.parent = req[t].dir /\ d.name = req[t].name /\ req[t].target # Root

\* The kernel never gets to know a marker.
KnownNamed == \A x \in known \ {Root} : dent[x].name # NoName

\* Changes of one directory exclude one another.
ChangesAlone ==
    \A t, u \in Threads :
        ChangesDir(t) /\ ChangesDir(u) /\ req[t].dir = req[u].dir => t = u

Orderly ==
    /\ \A t \in Threads : InOrder(t) /\ TargetNamed(t)
    /\ KnownNamed /\ ChangesAlone

\* Only keys that there can be are put.
KeysOnly ==
    /\ bucket \subseteq Keys
    /\ \A t \in Threads :
          req[t].op = "create" => req[t].type \in {"reg", "dir"} /\ NewKey(t) \in Keys

-----------------------------------------------------------------------------
(* All keys in the root.                                                   *)

RootKey(name, type) == IF type = "dir" THEN <<name, NoName>> ELSE <<name>>

\* Below the root there are markers and nothing else, and what is in the root
\* is of the kind that its name allows.
FlatTree ==
    \A x \in DOMAIN dent \ {Root} :
        LET d == dent[x]
        IN  IF d.parent = Root THEN d.name # NoName /\ RootKey(d.name, d.type) \in Keys
                               ELSE d.name = NoName /\ d.type # "dir"

FlatRequest(t) ==
    LET r == req[t]
    IN  /\ r.pc = "add" => r.dir = Root /\ RootKey(r.name, r.found) \in Keys
        /\ ChangesDir(t) => r.dir = Root
        /\ r.op = "create" => RootKey(r.name, r.type) \in Keys
        /\ r.pc = "build" =>
              \A n \in DOMAIN r.page :
                 IF r.dir = Root THEN n # NoName /\ RootKey(n, r.page[n]) \in Keys
                                 ELSE n = NoName /\ r.page[n] # "dir"

FlatInv == FlatTree /\ \A t \in Threads : FlatRequest(t)

\* What a handler knows of the keys that belong to its name.
Missed(t) ==
    /\ req[t].pc \in {"head_dir", "list_one", "absent", "put"}
          => FileKey(req[t].dir, req[t].name) \notin bucket
    /\ req[t].pc \in {"list_one", "absent", "put"}
          => DirKey(req[t].dir, req[t].name) \notin bucket

Deleted(t) ==
    req[t].pc = "remove_child" =>
        <<req[t].name>> \notin bucket /\ <<req[t].name, NoName>> \notin bucket

-----------------------------------------------------------------------------
(* Requests stay in order.                                                 *)

LEMMA OthersOrderly ==
    ASSUME IInv, Extends, NEW t \in Threads, OthersKept(t), NEW u \in Threads \ {t},
           InOrder(u), TargetNamed(u)
    PROVE  InOrder(u)' /\ TargetNamed(u)'
<1>1. req'[u] = req[u] /\ req[u].target \in DOMAIN dent
  BY DEF OthersKept, IInv, ReqInv, IsRequest
<1> QED
  BY <1>1 DEF InOrder, ChangesDir, TargetNamed, Extends

\* What a step of t has to show, beside what it does to the others.
LEMMA OrderlyKept ==
    ASSUME IInv, Orderly, Extends, NEW t \in Threads, OthersKept(t),
           InOrder(t)', TargetNamed(t)', KnownNamed',
           ChangesDir(t)' => ChangesDir(t) /\ req'[t].dir = req[t].dir
    PROVE  Orderly'
<1>1. \A u \in Threads : InOrder(u)' /\ TargetNamed(u)'
  BY OthersOrderly DEF Orderly
<1>2. ChangesAlone'
  BY DEF Orderly, ChangesAlone, ChangesDir, OthersKept
<1> QED
  BY <1>1, <1>2 DEF Orderly

LEMMA KnownKept ==
    ASSUME IInv, Orderly, Extends, known' \subseteq known
    PROVE  KnownNamed'
<1>1. known \subseteq DOMAIN dent
  BY DEF IInv
<1> QED
  BY <1>1 DEF Orderly, KnownNamed, Extends, Root

\* A handler that ends.
LEMMA EndedOrderly ==
    ASSUME IInv, Orderly, Extends, NEW t \in Threads, Ended(t), KnownNamed'
    PROVE  Orderly'
<1>1. /\ req'[t].op = "none" /\ req'[t].pc = "idle" /\ OthersKept(t)
  <2>1. NoRequest.op = "none" /\ NoRequest.pc = "idle"
    BY DEF NoRequest
  <2> QED
    BY <2>1 DEF Ended
<1>2. InOrder(t)' /\ TargetNamed(t)'
  BY <1>1 DEF InOrder, TargetNamed, ChangesDir, Reading, HasTarget
<1> QED
  BY <1>1, <1>2, OrderlyKept DEF ChangesDir

\* A handler that goes on.
LEMMA MovedOrderly ==
    ASSUME IInv, Orderly, Extends, NEW t \in Threads, SameCall(t), known' = known,
           InOrder(t)', TargetNamed(t)'
    PROVE  Orderly'
<1>1. KnownNamed'
  BY KnownKept
<1> QED
  BY <1>1, OrderlyKept DEF SameCall, ChangesDir

\* It goes on with the target it has, or without one.
LEMMA SearchOrderly ==
    ASSUME IInv, Orderly, Extends, NEW t \in Threads, known' = known,
           NEW pc, NEW found, Moved(t, pc, found, req[t].target),
           req[t].pc # "idle" /\ pc # "idle",
           req[t].pc \in Reading <=> pc \in Reading,
           pc \in {"put", "add_new"} => req[t].op = "create",
           pc \in {"delete", "remove_child"} => req[t].op = "remove",
           pc \in HasTarget => req[t].pc \in HasTarget
    PROVE  Orderly'
<1>1. SameCall(t) /\ req'[t].pc = pc /\ req'[t].target = req[t].target
  BY DEF Moved
<1>2. InOrder(t) /\ TargetNamed(t) /\ req[t].target \in DOMAIN dent
  BY DEF Orderly, IInv, ReqInv, IsRequest
<1>3. InOrder(t)'
  BY <1>1, <1>2 DEF InOrder, SameCall, ChangesDir
<1>4. TargetNamed(t)'
  BY <1>1, <1>2 DEF TargetNamed, SameCall, Extends
<1> QED
  BY <1>1, <1>3, <1>4, MovedOrderly

\* It goes on with a target that it has just come to.
LEMMA FoundOrderly ==
    ASSUME IInv, Orderly, Extends, NEW t \in Threads, known' = known,
           req[t].pc \in {"find", "add", "add_new"}, NEW pc \in {"found", "head_expired"},
           NEW x, Moved(t, pc, req[t].found, x),
           dent'[x].parent = req[t].dir, dent'[x].name = req[t].name, x # Root
    PROVE  Orderly'
<1>1. SameCall(t) /\ req'[t].pc = pc /\ req'[t].target = x
  BY DEF Moved
<1>2. InOrder(t)
  BY DEF Orderly
<1>3. InOrder(t)'
  BY <1>1, <1>2 DEF InOrder, SameCall, ChangesDir, Reading
<1>4. TargetNamed(t)'
  BY <1>1 DEF TargetNamed, SameCall, Root
<1> QED
  BY <1>1, <1>3, <1>4, MovedOrderly

\* A new dentry is in order.
LEMMA AddOrderly ==
    ASSUME IInv, Orderly, Extends, NEW t \in Threads, AddFound(t) \/ AddNew(t)
    PROVE  Orderly'
<1>1. Moved(t, "found", req[t].found, NextIno)
  BY SearchMoves
<1>2. PICK type : \E new \in NewDentry(t, type) : AddedTo(req[t].dir, req[t].name, new)
  BY AddStep
<1>3. PICK new \in NewDentry(t, type) : AddedTo(req[t].dir, req[t].name, new)
  BY <1>2
<1>4. new.name = req[t].name /\ new.parent = req[t].dir
  BY NewDentryFields
<1>5. PICK x : x = NextIno
  OBVIOUS
<1>6. dent'[x] = new /\ x # Root
  BY <1>3, <1>5 DEF AddedTo, IInv, DentInv, RootSound
<1>7. known' = known /\ req[t].pc \in {"find", "add", "add_new"}
  BY AddStep DEF AddFound, AddNew, Local, At
<1> QED
  BY <1>1, <1>4, <1>5, <1>6, <1>7, FoundOrderly

\* The handlers' steps.
LEMMA HandlerOrderly ==
    ASSUME IInv, Orderly, Extends, NEW t \in Threads, Handler(t)
    PROVE  Orderly'
<1>1. /\ ReqInv /\ DentInv /\ InOrder(t) /\ TargetNamed(t)
      /\ req[t].dir \in DOMAIN dent /\ req[t].target \in DOMAIN dent
  BY DEF IInv, Orderly, ReqInv, IsRequest
<1>2. CASE FindMissing(t) \/ HeadFile(t) \/ HeadDir(t) \/ ListOne(t)
  <2>1. known' = known /\ req[t].pc \in {"find", "head_file", "head_dir", "list_one"}
    BY <1>2 DEF FindMissing, HeadFile, HeadDir, ListOne, Local, At
  <2>2. PICK pc, found : /\ pc \in {"head_file", "head_dir", "list_one", "add", "absent"}
                         /\ Moved(t, pc, found, req[t].target)
    BY <1>2, SearchMoves DEF MovedTo
  <2> QED
    BY <2>1, <2>2, SearchOrderly DEF Reading, HasTarget
<1>3. CASE FindCached(t)
  <2>1. /\ known' = known /\ dent' = dent /\ req[t].pc = "find" /\ Hit(t)
    BY <1>3 DEF FindCached, Local, At
  <2>2. PICK pc \in {"found", "head_expired"} : Moved(t, pc, req[t].found, Child(t))
    BY <1>3, SearchMoves
  <2>3. PICK x : x = Child(t)
    OBVIOUS
  <2>4. dent'[x].parent = req[t].dir /\ dent'[x].name = req[t].name /\ x # Root
    BY <2>1, <2>3, <1>1, DentryFacts DEF Hit, Child
  <2> QED
    BY <2>1, <2>2, <2>3, <2>4, FoundOrderly
<1>4. CASE AddFound(t) \/ AddNew(t)
  BY <1>4, AddOrderly
<1>5. CASE HeadExpired(t) \/ ApplyHead(t) \/ DeleteObject(t)
  <2>1. known' = known /\ req[t].pc \in {"head_expired", "apply", "delete"}
    BY <1>5 DEF HeadExpired, ApplyHead, DeleteObject, Local, At
  <2>2. \/ req[t].pc = "head_expired" /\ MovedTo(t, "apply")
        \/ req[t].pc = "apply" /\ MovedTo(t, "found")
        \/ req[t].pc = "delete" /\ MovedTo(t, "remove_child")
    BY <1>5, SearchMoves, ChangeMoves DEF HeadExpired, ApplyHead, DeleteObject, Local, At
  <2>3. req[t].pc = "delete" => req[t].op = "remove"
    BY <1>1 DEF InOrder
  <2> QED
    BY <2>1, <2>2, <2>3, SearchOrderly DEF MovedTo, Reading, HasTarget
<1>6. CASE RemoveFound(t)
  <2>1. known' = known /\ req[t].pc = "found" /\ req[t].op = "remove"
    BY <1>6 DEF RemoveFound, Local, At
  <2>2. CASE Ended(t)
    BY <2>1, <2>2, KnownKept, EndedOrderly
  <2>3. CASE MovedTo(t, "delete")
    BY <2>1, <2>3, SearchOrderly DEF MovedTo, Reading, HasTarget
  <2> QED
    BY <2>2, <2>3, <1>6, ChangeMoves
<1>7. CASE Absent(t)
  <2>1. req[t].pc = "absent" /\ known' \subseteq known
    BY <1>7 DEF Absent, Local, At
  <2>2. CASE req[t].op = "create"
    <3>1. MovedTo(t, "put") /\ known' = known
      BY <2>2, <1>7, ChangeMoves DEF Absent
    <3> QED
      BY <2>1, <2>2, <3>1, SearchOrderly DEF MovedTo, Reading, HasTarget
  <2>3. CASE req[t].op # "create"
    BY <2>1, <2>3, <1>7, ChangeMoves, KnownKept, EndedOrderly
  <2> QED
    BY <2>2, <2>3
<1>8. CASE PutObject(t)
  <2>1. known' = known /\ req[t].pc = "put" /\ req[t].op = "create"
    BY <1>8, <1>1 DEF PutObject, At, InOrder
  <2> QED
    BY <2>1, <1>8, ChangeMoves, SearchOrderly DEF MovedTo, Reading, HasTarget
<1>9. CASE ReplyEntry(t)
  <2> DEFINE x == req[t].target
  <2>1. /\ req[t].pc = "found" /\ req[t].op \in {"lookup", "create"}
        /\ known' \subseteq known \cup {x} /\ dent' = dent
    BY <1>9 DEF ReplyEntry, Local, At
  <2>2. dent[x].name # NoName
    BY <2>1, <1>1 DEF TargetNamed, HasTarget, InOrder
  <2>3. KnownNamed'
    BY <2>1, <2>2 DEF Orderly, KnownNamed, Root
  <2> QED
    BY <2>3, <1>9, ChangeMoves, EndedOrderly
<1>10. CASE RemoveChild(t) \/ Fail(t)
  <2>1. known' \subseteq known
    BY <1>10 DEF RemoveChild, Fail
  <2> QED
    BY <2>1, <1>10, ChangeMoves, KnownKept, EndedOrderly
<1>11. CASE ReplyEntries(t)
  <2>1. PICK named : NoName \notin named /\ known' \subseteq known \cup KidsNamed(req[t].dir, named)
    BY <1>11 DEF ReplyEntries, NoName
  <2>2. \A n \in DOMAIN dent[req[t].dir].kids : dent[dent[req[t].dir].kids[n]].name = n
    BY <1>1, DentryFacts
  <2>5. \A y \in KidsNamed(req[t].dir, named) : dent[y].name # NoName
    BY <2>1, <2>2 DEF KidsNamed
  <2>3. dent' = dent
    BY <1>11 DEF ReplyEntries
  <2>4. KnownNamed'
    BY <2>1, <2>3, <2>5 DEF Orderly, KnownNamed, Root
  <2> QED
    BY <2>4, <1>11, ChangeMoves, EndedOrderly
<1>12. CASE LoadDir(t) \/ BuildPage(t)
  <2>1. known' = known /\ req[t].pc \in Reading
    BY <1>12 DEF LoadDir, BuildPage, Local, At, Reading
  <2>2. PICK pc \in {"list", "clear", "entries"} : MovedTo(t, pc)
    <3>1. PICK pc : pc = IF req[t].more THEN "list" ELSE "clear"
      OBVIOUS
    <3>2. BuildPage(t) => MovedTo(t, pc)
      BY <3>1, ChangeMoves
    <3> QED
      BY <3>1, <3>2, <1>12, ChangeMoves
  <2> QED
    BY <2>1, <2>2, SearchOrderly DEF MovedTo, Reading, HasTarget
<1>13. CASE ListPage(t)
  <2>1. SameCall(t) /\ req'[t].pc = "build" /\ known' = known /\ req[t].pc = "list"
    BY <1>13, ListMoves DEF ListPage, At
  <2>2. InOrder(t)' /\ TargetNamed(t)'
    BY <2>1, <1>1 DEF InOrder, SameCall, ChangesDir, TargetNamed, Reading, HasTarget
  <2> QED
    BY <2>1, <2>2, MovedOrderly
<1>14. CASE ClearUnsynced(t)
  <2>1. known' = known /\ req[t].pc = "clear"
    BY <1>14 DEF ClearUnsynced, Local, At
  <2>2. CASE MovedTo(t, "entries")
    BY <2>1, <2>2, SearchOrderly DEF MovedTo, Reading, HasTarget
  <2>3. CASE req' = req
    <3>1. SameCall(t) /\ OthersKept(t)
      BY <2>3, <1>1 DEF SameCall, OthersKept, ReqInv
    <3>2. InOrder(t)' /\ TargetNamed(t)'
      BY <2>3, <1>1 DEF InOrder, TargetNamed, Extends, ChangesDir
    <3> QED
      BY <2>1, <3>1, <3>2, MovedOrderly
  <2> QED
    BY <2>2, <2>3, <1>14, ChangeMoves
<1>15. CASE UseAfterFree(t)
  <2>1. UNCHANGED <<dent, known, req>>
    BY <1>15 DEF UseAfterFree
  <2> QED
    BY <2>1 DEF Orderly, InOrder, TargetNamed, KnownNamed, ChangesAlone, ChangesDir
<1> QED
  BY <1>2, <1>3, <1>4, <1>5, <1>6, <1>7, <1>8, <1>9, <1>10, <1>11, <1>12, <1>13, <1>14, <1>15
     DEF Handler

\* What begins, and with which arguments.
BeginsFor(t, op, x, name, type) ==
    /\ Begin(t, op, x, name, type) /\ x \in DOMAIN dent /\ IsDir(x)
    /\ op \in {"lookup", "create", "remove", "readdir"}
    /\ op = "create" => /\ type = "reg" => FileKey(x, name) \in Keys
                        /\ type = "dir" => DirKey(x, name) \in Keys
                        /\ type \in {"reg", "dir"}
    /\ op = "remove" => name \in DOMAIN dent[x].kids
    /\ op # "readdir" => name # NoName

LEMMA RequestBegins ==
    ASSUME IInv, Orderly, NEW t \in Threads, Request(t)
    PROVE  \E op, x, name, type : BeginsFor(t, op, x, name, type)
<1> USE DEF BeginsFor, NoName
<1>1. \A op, x, name, type : Begin(t, op, x, name, type) => IsDir(x)
  BY DEF Begin
<1>2. known \subseteq DOMAIN dent
  BY DEF IInv
<1>3. CASE Lookup(t)
  <2>1. PICK x \in known, n \in Names \ {""} : Begin(t, "lookup", x, n, "none")
    BY <1>3 DEF Lookup
  <2> QED
    BY <2>1, <1>1, <1>2
<1>4. CASE Create(t)
  <2>1. PICK x \in known, n \in Names \ {""} :
           \/ FileKey(x, n) \in Keys /\ Begin(t, "create", x, n, "reg")
           \/ DirKey(x, n) \in Keys /\ Begin(t, "create", x, n, "dir")
    BY <1>4 DEF Create
  <2> QED
    BY <2>1, <1>1, <1>2
<1>5. CASE Remove(t)
  <2>1. PICK x \in known : \E n \in DOMAIN dent[x].kids :
           dent[x].kids[n] \in known /\ Begin(t, "remove", x, n, "none")
    BY <1>5 DEF Remove
  <2>2. PICK n \in DOMAIN dent[x].kids :
           dent[x].kids[n] \in known /\ Begin(t, "remove", x, n, "none")
    BY <2>1
  <2>3. dent[dent[x].kids[n]].name = n /\ dent[x].kids[n] # Root
    BY <1>2, DentryFacts DEF IInv
  <2>4. n # NoName
    BY <2>2, <2>3 DEF Orderly, KnownNamed
  <2> QED
    BY <2>2, <2>4, <1>1, <1>2
<1>6. CASE ReadDir(t)
  <2>1. PICK x \in known : Begin(t, "readdir", x, "", "none")
    BY <1>6 DEF ReadDir
  <2> QED
    BY <2>1, <1>1, <1>2
<1> QED
  BY <1>3, <1>4, <1>5, <1>6 DEF Request

\* A request that begins, in a directory that nobody else changes.
LEMMA BeginOrderly ==
    ASSUME IInv, Orderly, Extends, NEW t \in Threads,
           NEW op \in {"lookup", "create", "remove", "readdir"}, NEW x, NEW name, NEW type,
           op # "readdir" => name # NoName, Begin(t, op, x, name, type)
    PROVE  Orderly'
<1>1. /\ OthersKept(t) /\ known' = known /\ req[t].pc = "idle" /\ MayLock(LockOf(op, x, name), x)
      /\ req'[t].op = op /\ req'[t].dir = x /\ req'[t].name = name
      /\ req'[t].lock = LockOf(op, x, name)
      /\ req'[t].pc = IF op = "readdir" THEN "load" ELSE "find"
  BY BeginEffect
<1>2. op \in {"create", "remove"} => LockOf(op, x, name) = "exclusive"
  BY DEF LockOf
<1>3. InOrder(t)' /\ TargetNamed(t)'
  BY <1>1, <1>2 DEF InOrder, TargetNamed, Reading, HasTarget, ChangesDir
<1>4. \A u \in Threads : InOrder(u)' /\ TargetNamed(u)'
  BY <1>1, <1>3, OthersOrderly DEF Orderly
<1>5. ASSUME NEW u \in Threads \ {t}, ChangesDir(u), op \in {"create", "remove"}
      PROVE  req[u].dir # x
  <2>1. req[u].lock = "exclusive" /\ req[u].op # "none"
    BY <1>5 DEF Orderly, InOrder, ChangesDir
  <2>2. req[u].dir = x => Locks(u, x) = "exclusive"
    BY <2>1 DEF Locks
  <2> QED
    BY <2>2, <1>1, <1>2, <1>5 DEF MayLock
<1>6. ChangesAlone'
  <2>1. ASSUME NEW u \in Threads, NEW v \in Threads, ChangesDir(u)', ChangesDir(v)',
               req'[u].dir = req'[v].dir
        PROVE  u = v
    <3>1. CASE u # t /\ v # t
      BY <2>1, <3>1, <1>1 DEF Orderly, ChangesAlone, ChangesDir, OthersKept
    <3>2. CASE u = t /\ v # t
      BY <2>1, <3>2, <1>1, <1>5 DEF ChangesDir, OthersKept
    <3>3. CASE u # t /\ v = t
      BY <2>1, <3>3, <1>1, <1>5 DEF ChangesDir, OthersKept
    <3> QED
      BY <3>1, <3>2, <3>3
  <2> QED
    BY <2>1 DEF ChangesAlone
<1>7. KnownNamed'
  BY <1>1, KnownKept
<1> QED
  BY <1>4, <1>6, <1>7 DEF Orderly

LEMMA RequestOrderly ==
    ASSUME IInv, Orderly, Extends, NEW t \in Threads, Request(t)
    PROVE  Orderly'
  BY RequestBegins, BeginOrderly DEF BeginsFor

LEMMA OrderlyStep ==
    ASSUME IInv, Orderly, [Next]_vars
    PROVE  Orderly'
<1>1. Extends
  BY StepExtends
<1>2. ASSUME NEW t \in Threads, Request(t) \/ Handler(t) PROVE Orderly'
  BY <1>1, <1>2, RequestOrderly, HandlerOrderly
<1>3. CASE (\E x \in Attached : Expire(x)) \/ UseFreed \/ OtherClient \/ Idle \/ UNCHANGED vars
  <2>1. UNCHANGED <<known, req>>
    BY <1>3 DEF Expire, UseFreed, OtherClient, Idle, vars
  <2>2. \A t \in Threads : InOrder(t)' /\ TargetNamed(t)'
    <3>1. \A t \in Threads : req[t].target \in DOMAIN dent
      BY DEF IInv, ReqInv, IsRequest
    <3> QED
      BY <2>1, <1>1, <3>1 DEF Orderly, InOrder, TargetNamed, ChangesDir, Extends, Root
  <2>3. KnownNamed'
    BY <2>1, <1>1, KnownKept
  <2> QED
    BY <2>1, <2>2, <2>3 DEF Orderly, ChangesAlone, ChangesDir
<1> QED
  BY <1>2, <1>3 DEF Next

LEMMA InitOrderly == ASSUME Init PROVE Orderly
  BY DEF Init, NoRequest, Orderly, InOrder, TargetNamed, KnownNamed, ChangesAlone, ChangesDir,
         Reading, HasTarget

LEMMA AlwaysOrderly == Spec => []Orderly
<1>1. Init => Orderly
  BY InitOrderly
<1>2. IInv /\ Orderly /\ [Next]_vars => Orderly'
  BY OrderlyStep
<1> QED
  BY <1>1, <1>2, Invariance, PTL DEF Spec

-----------------------------------------------------------------------------
(* What a step does to the bucket, and to what is asked for.               *)

SameRequest(t) ==
    req'[t].op = req[t].op /\ req'[t].dir = req[t].dir /\ req'[t].name = req[t].name
        /\ req'[t].type = req[t].type

\* A put or a delete, with or without its answer.
Puts(t) == /\ PutObject(t) \/ Fail(t)
           /\ req[t].pc = "put" /\ bucket' = bucket \cup {NewKey(t)}
Deletes(t) == /\ DeleteObject(t) \/ Fail(t)
              /\ req[t].pc = "delete" /\ bucket' = bucket \ {OldKey(t)}

LEMMA BucketStep ==
    ASSUME [Next]_vars
    PROVE  \/ bucket' = bucket
           \/ OtherClient
           \/ \E t \in Threads : Puts(t) \/ Deletes(t)
<1>1. ASSUME NEW t \in Threads, Request(t) PROVE bucket' = bucket
  BY <1>1 DEF Request, Lookup, Create, Remove, ReadDir, Begin
<1>2. ASSUME NEW t \in Threads, Handler(t)
      PROVE  \/ bucket' = bucket
             \/ Puts(t) \/ Deletes(t)
  <2>1. CASE FindMissing(t) \/ FindCached(t) \/ HeadFile(t) \/ HeadDir(t) \/ ListOne(t)
             \/ AddFound(t) \/ HeadExpired(t) \/ ApplyHead(t)
    BY <2>1 DEF FindMissing, FindCached, HeadFile, HeadDir, ListOne, AddFound, HeadExpired,
                ApplyHead
  <2>2. CASE ReplyEntry(t) \/ Absent(t) \/ PutObject(t) \/ AddNew(t)
             \/ RemoveFound(t) \/ DeleteObject(t) \/ RemoveChild(t)
    BY <2>2 DEF ReplyEntry, Absent, PutObject, AddNew, RemoveFound, DeleteObject, RemoveChild,
                At, Puts, Deletes
  <2>3. CASE LoadDir(t) \/ ListPage(t) \/ BuildPage(t) \/ ClearUnsynced(t) \/ ReplyEntries(t)
             \/ UseAfterFree(t)
    BY <2>3 DEF LoadDir, ListPage, BuildPage, ClearUnsynced, ReplyEntries, UseAfterFree
  <2>4. CASE Fail(t)
    BY <2>4 DEF Fail, Puts, Deletes
  <2> QED
    BY <1>2, <2>1, <2>2, <2>3, <2>4 DEF Handler
<1>3. CASE (\E x \in Attached : Expire(x)) \/ UseFreed \/ Idle \/ UNCHANGED vars
  BY <1>3 DEF Expire, UseFreed, Idle, vars
<1> QED
  BY <1>1, <1>2, <1>3 DEF Next

LEMMA HandlerMoves ==
    ASSUME IInv, NEW u \in Threads, Handler(u)
    PROVE  req' = req \/ SameCall(u) \/ Ended(u)
<1>1. CASE FindMissing(u) \/ FindCached(u) \/ HeadFile(u) \/ HeadDir(u) \/ ListOne(u)
           \/ AddFound(u) \/ AddNew(u) \/ HeadExpired(u) \/ ApplyHead(u)
  BY <1>1, SearchMoves DEF Moved, MovedTo
<1>2. CASE ReplyEntry(u) \/ Absent(u) \/ PutObject(u) \/ RemoveFound(u) \/ DeleteObject(u)
           \/ RemoveChild(u) \/ LoadDir(u) \/ ClearUnsynced(u) \/ ReplyEntries(u)
           \/ Fail(u)
  BY <1>2, ChangeMoves DEF Moved, MovedTo
<1>3. CASE BuildPage(u)
  <2>1. PICK pc : pc = IF req[u].more THEN "list" ELSE "clear"
    OBVIOUS
  <2>2. MovedTo(u, pc)
    BY <1>3, <2>1, ChangeMoves
  <2> QED
    BY <2>2 DEF Moved, MovedTo
<1>4. CASE ListPage(u)
  BY <1>4, ListMoves
<1>5. CASE UseAfterFree(u)
  BY <1>5 DEF UseAfterFree
<1> QED
  BY <1>1, <1>2, <1>3, <1>4, <1>5 DEF Handler

\* A step of the system is a step of one request.
LEMMA OthersServed ==
    ASSUME IInv, Orderly, [Next]_vars, NEW t \in Threads
    PROVE  Request(t) \/ Handler(t) \/ req'[t] = req[t]
<1>1. ASSUME NEW u \in Threads \ {t}, Request(u) PROVE req'[t] = req[t]
  <2>1. PICK op, x, name, type : BeginsFor(u, op, x, name, type)
    BY <1>1, RequestBegins
  <2>2. OthersKept(u)
    BY <2>1, BeginEffect DEF BeginsFor
  <2> QED
    BY <1>1, <2>2 DEF OthersKept
<1>2. ASSUME NEW u \in Threads \ {t}, Handler(u) PROVE req'[t] = req[t]
  BY <1>2, HandlerMoves DEF SameCall, Ended, OthersKept
<1>3. CASE (\E x \in Attached : Expire(x)) \/ UseFreed \/ OtherClient \/ Idle \/ UNCHANGED vars
  BY <1>3 DEF Expire, UseFreed, OtherClient, Idle, vars
<1> QED
  BY <1>1, <1>2, <1>3 DEF Next

LEMMA RequestOf ==
    ASSUME IInv, Orderly, [Next]_vars, NEW t \in Threads
    PROVE  Request(t) \/ SameRequest(t) \/ req'[t] = NoRequest
  BY OthersServed, HandlerMoves DEF SameCall, Ended, SameRequest

\* The keys that a request is about stay the same while it is served.
LEMMA SameKeys ==
    ASSUME Rooted, Rooted', Extends, NEW t \in Threads, SameRequest(t)
    PROVE  /\ FileKey(req[t].dir, req[t].name)' = FileKey(req[t].dir, req[t].name)
           /\ DirKey(req[t].dir, req[t].name)' = DirKey(req[t].dir, req[t].name)
           /\ NewKey(t)' = NewKey(t)
<1>1. req[t].dir \in DOMAIN dent
  BY DEF Rooted, IInv, ReqInv, IsRequest
<1>2. PICK x : x = req[t].dir
  OBVIOUS
<1>3. Path(x)' = Path(x) /\ Path(req[t].dir)' = Path(x)'
  BY <1>1, <1>2, PathStable DEF SameRequest
<1> QED
  BY <1>2, <1>3 DEF SameRequest, FileKey, DirKey, NewKey

LEMMA KeysStep ==
    ASSUME Rooted, Rooted', Orderly, KeysOnly, [Next]_vars
    PROVE  KeysOnly'
<1>1. Extends /\ IInv
  BY StepExtends DEF Rooted
<1>2. bucket' \subseteq Keys
  <2>1. \A t \in Threads : req[t].pc = "put" => NewKey(t) \in Keys
    BY DEF Orderly, InOrder, KeysOnly
  <2>2. OtherClient => bucket' \subseteq Keys
    BY DEF OtherClient, KeysOnly
  <2> QED
    BY <2>1, <2>2, BucketStep DEF KeysOnly, Puts, Deletes
<1>3. ASSUME NEW t \in Threads, req'[t].op = "create"
      PROVE  req'[t].type \in {"reg", "dir"} /\ NewKey(t)' \in Keys
  <2>1. CASE SameRequest(t)
    <3>1. NewKey(t)' = NewKey(t)
      BY <1>1, <2>1, SameKeys
    <3> QED
      BY <1>3, <2>1, <3>1 DEF KeysOnly, SameRequest
  <2>2. CASE Request(t)
    <3>1. PICK op, x, name, type : BeginsFor(t, op, x, name, type)
      BY <1>1, <2>2, RequestBegins
    <3>2. /\ req'[t].op = op /\ req'[t].dir = x /\ req'[t].name = name
          /\ req'[t].type = type /\ dent' = dent
      BY <1>1, <3>1, BeginEffect DEF BeginsFor
    <3>3. Path(x)' = Path(x) /\ Path(req[t].dir)' = Path(x)'
      BY <1>1, <3>1, <3>2, PathStable DEF BeginsFor
    <3>4. NewKey(t)' = IF type = "dir" THEN DirKey(x, name) ELSE FileKey(x, name)
      BY <3>2, <3>3 DEF NewKey, DirKey, FileKey
    <3> QED
      BY <1>3, <3>1, <3>2, <3>4 DEF BeginsFor
  <2>3. CASE req'[t] = NoRequest
    <3>1. NoRequest.op = "none"
      BY DEF NoRequest
    <3> QED
      BY <1>3, <2>3, <3>1
  <2> QED
    BY <1>1, <2>1, <2>2, <2>3, RequestOf
<1> QED
  BY <1>2, <1>3 DEF KeysOnly

\* The bucket has keys of the model only, and what a create is about is one.
LEMMA AlwaysKeysOnly == Spec => []KeysOnly
<1>1. Init => KeysOnly
  <2>1. NoRequest.op = "none"
    BY DEF NoRequest
  <2> QED
    BY <2>1 DEF Init, KeysOnly
<1>2. Rooted /\ Rooted' /\ Orderly /\ KeysOnly /\ [Next]_vars => KeysOnly'
  BY KeysStep
<1> QED
  BY <1>1, <1>2, AlwaysRooted, AlwaysOrderly, PTL DEF Spec

-----------------------------------------------------------------------------
(* All keys in the root.                                                   *)

LEMMA NoNameIsName == NoName \in Names
  BY EmptyName DEF NoName

LEMMA MarkerKey == \A x, name : DirKey(x, name) = Path(x) \o <<name, NoName>>
  BY DEF DirKey, NoName

LEMMA ConcatPair ==
    ASSUME NEW S, NEW s \in Seq(S), NEW a \in S, NEW b \in S
    PROVE  s \o <<a, b>> = Append(Append(s, a), b)
<1> DEFINE x == s \o <<a, b>>
           y == Append(Append(s, a), b)
<1>1. x \in Seq(S) /\ y \in Seq(S) /\ Len(x) = Len(y) /\ \A i \in 1..Len(x) : x[i] = y[i]
  OBVIOUS
<1> HIDE DEF x, y
<1> QED
  BY <1>1

\* A key is a path with a component, or with a component and a slash.
LEMMA KeyType ==
    ASSUME NEW path \in Seq(Names), NEW name \in Names, NEW n \in Names
    PROVE  /\ Append(path, name) \in Seq(Names) /\ path \o <<name, NoName>> \in Seq(Names)
           /\ path \o <<name, NoName>> = Append(Append(path, name), NoName)
           /\ Len(path) \in Nat /\ Len(Append(path, name)) = Len(path) + 1
           /\ Len(Append(Append(path, name), n)) = Len(path) + 2
           /\ Append(path, name)[Len(path) + 1] = name
           /\ Append(Append(path, name), n)[Len(path) + 1] = name
           /\ Append(Append(path, name), n)[Len(path) + 2] = n
<1>1. NoName \in Names
  BY NoNameIsName
<1>2. path \o <<name, NoName>> = Append(Append(path, name), NoName)
  BY <1>1, ConcatPair
<1>3. Append(path, name) \in Seq(Names) /\ Append(Append(path, name), NoName) \in Seq(Names)
  BY <1>1, AppendProperties
<1>4. Len(path) \in Nat /\ Len(Append(path, name)) = Len(path) + 1
      /\ Append(path, name)[Len(path) + 1] = name
  BY AppendProperties, LenProperties
<1>5. /\ Len(Append(Append(path, name), n)) = Len(path) + 2
      /\ Append(Append(path, name), n)[Len(path) + 2] = n
      /\ Append(Append(path, name), n)[Len(path) + 1] = name
  BY <1>3, <1>4, AppendProperties
<1> QED
  BY <1>2, <1>3, <1>4, <1>5

LEMMA FlatKeys ==
    ASSUME Flat, NEW path \in Seq(Names), NEW name \in Names, NEW n \in Names
    PROVE  /\ name # NoName /\ Append(path, name) \in Keys => path = <<>>
           /\ path \o <<name, NoName>> \in Keys => path = <<>>
           /\ Append(Append(path, name), n) \in Keys => path = <<>> /\ n = NoName
<1>1. Len(path) \in Nat /\ (Len(path) = 0 => path = <<>>)
  BY EmptySeq
<1>2. ASSUME NEW m \in Names, Append(Append(path, name), m) \in Keys PROVE path = <<>> /\ m = NoName
  <2>1. PICK k \in Keys : k = Append(Append(path, name), m)
    BY <1>2
  <2>2. Len(k) = Len(path) + 2 /\ k[Len(path) + 2] = m
    BY <2>1, KeyType
  <2>3. Len(k) = 1 \/ (Len(k) = 2 /\ k[2] = NoName)
    BY DEF Flat
  <2> QED
    BY <1>1, <2>2, <2>3
<1>3. ASSUME name # NoName, Append(path, name) \in Keys PROVE path = <<>>
  <2>1. PICK k \in Keys : k = Append(path, name)
    BY <1>3
  <2>2. Len(k) = Len(path) + 1 /\ k[Len(path) + 1] = name
    BY <2>1, KeyType
  <2>3. Len(k) = 1 \/ (Len(k) = 2 /\ k[2] = NoName)
    BY DEF Flat
  <2> QED
    BY <1>1, <1>3, <2>2, <2>3
<1> QED
  BY <1>2, <1>3, NoNameIsName, KeyType

\* The keys of a name in the root.
LEMMA RootKeys ==
    ASSUME Rooted, NEW name \in Names
    PROVE  FileKey(Root, name) = <<name>> /\ DirKey(Root, name) = <<name, NoName>>
<1>1. Path(Root) = <<>>
  BY PathFacts DEF PathLaws
<1>2. <<name, NoName>> \in Seq(Names) /\ Append(<<>>, name) = <<name>>
  BY NoNameIsName
<1> QED
  BY <1>1, <1>2, ConcatEmptySeq, MarkerKey DEF FileKey

LEMMA FlatIsShallow == Flat => Shallow
  BY DEF Flat, Shallow

\* What is listed below a name of a bucket that is not deep is an object.
LEMMA ShallowEntries ==
    ASSUME Shallow, bucket \subseteq Keys, NEW path \in Seq(Names), path # <<>>,
           NEW n \in Entries(path)
    PROVE  IsObject(path, n)
<1>1. n \in Names /\ \E k \in Below(path) : k[Len(path) + 1] = n
  BY DEF Entries
<1>2. PICK k \in Below(path) : k[Len(path) + 1] = n
  BY <1>1
<1>3. /\ k \in bucket /\ k \in Keys /\ k \in Seq(Names) /\ Len(k) > Len(path)
      /\ SubSeq(k, 1, Len(path)) = path
  BY CacheAssumption DEF Below
<1>4. Len(path) \in Nat /\ Len(path) # 0 /\ (Len(k) = 1 \/ Len(k) = 2)
  BY <1>3, EmptySeq, LenProperties DEF Shallow
<1>5. Len(path) = 1 /\ Len(k) = 2
  <2>1. PICK i, j : i = Len(k) /\ j = Len(path)
    OBVIOUS
  <2>2. i > j /\ j \in Nat /\ j # 0 /\ (i = 1 \/ i = 2)
    BY <1>3, <1>4, <2>1
  <2>3. j = 1 /\ i = 2
    BY <2>2
  <2> QED
    BY <2>1, <2>3
<1>6. k[1] = path[1] /\ k[2] = n
  <2>1. SubSeq(k, 1, 1)[1] = k[1]
    BY <1>3, <1>5
  <2> QED
    BY <1>2, <1>3, <1>5, <2>1
<1>7. k = Append(path, n)
  <2> DEFINE a == Append(path, n)
  <2>1. a \in Seq(Names) /\ Len(a) = 2 /\ a[1] = path[1] /\ a[2] = n
    <3>1. /\ a \in Seq(Names) /\ Len(a) = Len(path) + 1 /\ a[Len(path) + 1] = n
          /\ \A i \in 1..Len(path) : a[i] = path[i]
      BY <1>1, AppendProperties
    <3> HIDE DEF a
    <3> QED
      BY <1>5, <3>1
  <2> HIDE DEF a
  <2>2. \A i \in 1..2 : k[i] = a[i]
    BY <1>6, <2>1
  <2> QED
    BY <1>3, <1>5, <2>1, <2>2, SeqEqual DEF a
<1> QED
  BY <1>3, <1>7 DEF IsObject

\* What a listing has of a flat bucket.
LEMMA FlatEntries ==
    ASSUME Flat, bucket \subseteq Keys, NEW path \in Seq(Names), NEW n \in Entries(path)
    PROVE  IF path = <<>>
           THEN n # NoName /\ RootKey(n, IF IsObject(path, n) THEN "reg" ELSE "dir") \in bucket
           ELSE n = NoName /\ IsObject(path, n)
<1>1. n \in Names /\ \E k \in Below(path) : k[Len(path) + 1] = n
  BY DEF Entries
<1>2. PICK k \in Below(path) : k[Len(path) + 1] = n
  BY <1>1
<1>3. /\ k \in bucket /\ k \in Keys /\ k \in Seq(Names) /\ Len(k) > Len(path)
      /\ SubSeq(k, 1, Len(path)) = path
  BY CacheAssumption DEF Below
<1>4. k[1] # NoName /\ (Len(k) = 1 \/ (Len(k) = 2 /\ k[2] = NoName))
  BY <1>3 DEF Flat
<1>5. Len(path) \in Nat /\ (Len(path) = 0 => path = <<>>)
  BY EmptySeq
<1>6. CASE path = <<>>
  <2>1. k[1] = n
    BY <1>2, <1>6
  <2>2. Len(k) = 1 => k = <<n>>
    BY <1>1, <1>3, <2>1, SeqEqual
  <2>3. ASSUME Len(k) = 2 PROVE k = <<n, NoName>>
    <3>1. <<n, NoName>> \in Seq(Names) /\ Len(<<n, NoName>>) = 2
      BY <1>1, NoNameIsName
    <3>2. \A i \in 1..2 : k[i] = <<n, NoName>>[i]
      BY <1>4, <2>1, <2>3
    <3> QED
      BY <1>3, <2>3, <3>1, <3>2, SeqEqual
  <2>4. Append(path, n) = <<n>>
    BY <1>1, <1>6
  <2> QED
    BY <1>3, <1>4, <1>6, <2>1, <2>2, <2>3, <2>4 DEF IsObject, RootKey
<1>7. CASE path # <<>>
  <2>1. Shallow
    BY FlatIsShallow
  <2>2. IsObject(path, n) /\ Append(path, n) \in Keys
    BY <1>7, <2>1, ShallowEntries DEF IsObject
  <2>3. Len(path) = 1 /\ Len(k) = 2
    BY <1>3, <1>4, <1>5, <1>7
  <2>4. n = NoName
    BY <1>2, <1>4, <2>3
  <2> QED
    BY <1>7, <2>2, <2>4
<1> QED
  BY <1>6, <1>7

\* Where dentries come from.
LEMMA NewByHandler ==
    ASSUME IInv, [Next]_vars, NEW x \in DOMAIN dent' \ DOMAIN dent
    PROVE  \E t \in Threads : AddFound(t) \/ AddNew(t) \/ BuildPage(t)
<1>1. ASSUME NEW t \in Threads, Handler(t), ~(AddFound(t) \/ AddNew(t) \/ BuildPage(t))
      PROVE  FALSE
  <2>1. DentInv /\ req[t].dir \in DOMAIN dent
    BY DEF IInv, ReqInv, IsRequest
  <2>2. CASE ApplyHead(t)
    BY <2>2, FlagStep
  <2>3. CASE RemoveChild(t)
    BY <2>1, <2>3, RemoveKidEffect DEF RemoveChild
  <2>4. CASE ClearUnsynced(t)
    BY <2>4, ClearStep DEF ClearedIn
  <2> QED
    BY <1>1, <2>2, <2>3, <2>4, TreeUntouched
<1>2. CASE \E y \in Attached : Expire(y)
  BY <1>2, FlagStep
<1>3. CASE (\E t \in Threads : Request(t)) \/ UseFreed \/ OtherClient \/ Idle \/ UNCHANGED vars
  BY <1>3 DEF Request, Lookup, Create, Remove, ReadDir, Begin, UseFreed, OtherClient, Idle, vars
<1> QED
  BY <1>1, <1>2, <1>3 DEF Next

LEMMA FlatTreeStep ==
    ASSUME Rooted, Extends, Orderly, FlatInv, [Next]_vars
    PROVE  FlatTree'
<1>1. ASSUME NEW x \in DOMAIN dent' \ {Root}, x \in DOMAIN dent
      PROVE  LET d == dent'[x]
             IN  IF d.parent = Root THEN d.name # NoName /\ RootKey(d.name, d.type) \in Keys
                                    ELSE d.name = NoName /\ d.type # "dir"
  BY <1>1 DEF FlatInv, FlatTree, Extends, IsDir, RootKey
<1>2. ASSUME NEW x \in DOMAIN dent' \ {Root}, x \notin DOMAIN dent
      PROVE  LET d == dent'[x]
             IN  IF d.parent = Root THEN d.name # NoName /\ RootKey(d.name, d.type) \in Keys
                                    ELSE d.name = NoName /\ d.type # "dir"
  <2>1. PICK t \in Threads : AddFound(t) \/ AddNew(t) \/ BuildPage(t)
    BY <1>2, NewByHandler DEF Rooted
  <2>2. CASE AddFound(t) \/ AddNew(t)
    <3>1. PICK type \in {req[t].found, req[t].type} :
             /\ AddFound(t) => type = req[t].found
             /\ AddNew(t) => type = req[t].type
             /\ \E new \in NewDentry(t, type) : AddedTo(req[t].dir, req[t].name, new)
      BY <2>2, AddStep DEF Rooted
    <3>2. PICK new \in NewDentry(t, type) : AddedTo(req[t].dir, req[t].name, new)
      BY <3>1
    <3>3. dent'[x] = new
      BY <1>2, <3>2 DEF AddedTo
    <3>4. new.name = req[t].name /\ new.parent = req[t].dir /\ new.type = type
      BY NewDentryFields
    <3>5. req[t].dir = Root /\ req[t].name # NoName /\ RootKey(req[t].name, type) \in Keys
      <4>1. InOrder(t) /\ FlatRequest(t) /\ IsRequest(req[t])
        BY DEF Orderly, FlatInv, Rooted, IInv, ReqInv
      <4>2. CASE AddFound(t)
        BY <4>1, <4>2, <3>1 DEF AddFound, Local, At, FlatRequest, InOrder, Reading, IsRequest
      <4>3. CASE AddNew(t)
        BY <4>1, <4>3, <3>1 DEF AddNew, Local, At, FlatRequest, InOrder, ChangesDir
      <4> QED
        BY <2>2, <4>2, <4>3
    <3> QED
      BY <3>3, <3>4, <3>5
  <2>3. CASE BuildPage(t)
    <3>1. PICK ino : BuiltFrom(t, ino)
      BY <2>3, BuildStep DEF Rooted
    <3>2. PICK n \in Missing(t) : x = ino[n]
      BY <1>2, <3>1 DEF BuiltFrom
    <3>3. /\ dent'[x].name = n /\ dent'[x].parent = req[t].dir
          /\ dent'[x].type = req[t].page[n]
      BY <3>1, <3>2 DEF BuiltFrom
    <3>4. n \in DOMAIN req[t].page /\ req[t].pc = "build" /\ FlatRequest(t)
      BY <2>3, <3>2 DEF Missing, BuildPage, Local, At, FlatInv
    <3> QED
      BY <3>3, <3>4 DEF FlatRequest
  <2> QED
    BY <2>1, <2>2, <2>3
<1> QED
  BY <1>1, <1>2 DEF FlatTree, Root

\* What a search finds, if it finds something, is in the root.
LEMMA FlatFound ==
    ASSUME Flat, Rooted, Orderly, KeysOnly, NEW t \in Threads, NEW found,
           HeadFile(t) \/ HeadDir(t) \/ ListOne(t), Moved(t, "add", found, req[t].target)
    PROVE  req[t].dir = Root /\ RootKey(req[t].name, found) \in bucket
<1> DEFINE x == req[t].dir
           name == req[t].name
<1>1. /\ x \in DOMAIN dent /\ name \in Names /\ Path(x) \in Seq(Names) /\ bucket \subseteq Keys
      /\ req'[t].pc = "add" /\ req'[t].found = found
      /\ name # NoName
  <2>1. InOrder(t) /\ IsRequest(req[t]) /\ req[t].pc \in {"head_file", "head_dir", "list_one"}
    BY DEF Orderly, Rooted, IInv, ReqInv, HeadFile, HeadDir, ListOne, Local, At
  <2>2. x \in DOMAIN dent /\ name \in Names /\ name # NoName
    BY <2>1 DEF IsRequest, InOrder, Reading
  <2> QED
    BY <2>2, PathType DEF KeysOnly, Moved
<1>2. IInv /\ (Path(x) = <<>> => x = Root)
  BY <1>1, PathType DEF Rooted
<1>3. CASE HeadFile(t)
  <2>1. FileKey(x, name) \in bucket /\ found = "reg"
    BY <1>1, <1>2, <1>3, SearchMoves DEF Moved, MovedTo
  <2>2. Path(x) = <<>>
    BY <1>1, <2>1, FlatKeys DEF FileKey
  <2> QED
    BY <1>1, <1>2, <2>1, <2>2, RootKeys DEF RootKey
<1>4. CASE HeadDir(t)
  <2>1. DirKey(x, name) \in bucket /\ found = "dir"
    BY <1>1, <1>2, <1>4, SearchMoves DEF Moved, MovedTo
  <2>2. Path(x) = <<>>
    <3>1. Path(x) \o <<name, NoName>> \in Keys
      BY <1>1, <2>1, MarkerKey
    <3> QED
      BY <1>1, <3>1, FlatKeys
  <2>3. DirKey(Root, name) = <<name, NoName>>
    BY <1>1, RootKeys
  <2> QED
    BY <1>1, <1>2, <2>1, <2>2, <2>3 DEF RootKey
<1>5. CASE ListOne(t)
  <2> DEFINE path == FileKey(x, name)
  <2>1. found = "dir" /\ \E n \in Entries(path) : IsObject(path, n)
    BY <1>1, <1>2, <1>5, SearchMoves DEF Moved, MovedTo
  <2>2. PICK n \in Entries(path) : IsObject(path, n)
    BY <2>1
  <2>3. n \in Names /\ Append(Append(Path(x), name), n) \in bucket
    BY <2>2 DEF Entries, IsObject, FileKey
  <2>4. Path(x) = <<>> /\ n = NoName
    BY <1>1, <2>3, FlatKeys
  <2>5. Append(Append(Path(x), name), NoName) = Path(x) \o <<name, NoName>>
    BY <1>1, KeyType
  <2>6. DirKey(x, name) \in bucket
    BY <2>3, <2>4, <2>5, MarkerKey
  <2>7. DirKey(Root, name) = <<name, NoName>>
    BY <1>1, RootKeys
  <2> QED
    BY <1>2, <2>1, <2>4, <2>6, <2>7 DEF RootKey
<1> QED
  BY <1>3, <1>4, <1>5

\* A page of a listing has entries of the right kind.
LEMMA FlatPage ==
    ASSUME Flat, Rooted, KeysOnly, NEW t \in Threads, ListPage(t)
    PROVE  \A n \in DOMAIN req'[t].page :
              IF req[t].dir = Root THEN n # NoName /\ RootKey(n, req'[t].page[n]) \in bucket
                                   ELSE n = NoName /\ req'[t].page[n] # "dir"
<1> DEFINE path == Path(req[t].dir)
           names == Page(path, req[t].marker)
<1>1. path \in Seq(Names) /\ (path = <<>> <=> req[t].dir = Root) /\ bucket \subseteq Keys
  BY PathType DEF Rooted, IInv, ReqInv, IsRequest, KeysOnly
<1>2. req'[t].page = Listed(path, names)
  BY ListMoves DEF Rooted
<1>3. names \subseteq Entries(path)
  BY DEF Page, Behind
<1>4. /\ DOMAIN req'[t].page = names
      /\ \A n \in names : req'[t].page[n] = IF IsObject(path, n) THEN "reg" ELSE "dir"
  BY <1>2 DEF Listed
<1> HIDE DEF path, names
<1> QED
  BY <1>1, <1>3, <1>4, FlatEntries

\* Requests are for the root, when they begin.
LEMMA FlatBegin ==
    ASSUME Flat, Rooted, Rooted', Extends, FlatInv, NEW t \in Threads, Orderly, Request(t)
    PROVE  FlatRequest(t)'
<1>1. PICK op, x, name, type : BeginsFor(t, op, x, name, type)
  BY RequestBegins DEF Rooted
<1>2. /\ req'[t].op = op /\ req'[t].dir = x /\ req'[t].name = name /\ req'[t].type = type
      /\ req'[t].pc = IF op = "readdir" THEN "load" ELSE "find"
  BY <1>1, BeginEffect DEF BeginsFor, Rooted
<1>3. x \in DOMAIN dent /\ Path(x) \in Seq(Names) /\ (Path(x) = <<>> => x = Root)
  BY <1>1, PathType DEF BeginsFor
<1>4. op = "create" => x = Root /\ RootKey(name, type) \in Keys
  <2> SUFFICES ASSUME op = "create" PROVE x = Root /\ RootKey(name, type) \in Keys
    OBVIOUS
  <2>1. name \in Names /\ name # NoName
    <3>1. IsRequest(req[t])'
      BY DEF Rooted, IInv, ReqInv
    <3>2. req'[t].name \in Names
      BY <3>1 DEF IsRequest
    <3> QED
      BY <3>2, <1>1, <1>2 DEF BeginsFor, NoName
  <2>2. CASE type = "reg"
    <3>1. Append(Path(x), name) \in Keys
      BY <1>1, <2>2 DEF BeginsFor, FileKey
    <3>2. x = Root
      BY <1>3, <2>1, <3>1, FlatKeys
    <3> QED
      BY <3>1, <3>2, <2>1, <2>2, RootKeys DEF FileKey, RootKey
  <2>3. CASE type = "dir"
    <3>1. Path(x) \o <<name, NoName>> \in Keys
      BY <1>1, <2>3, MarkerKey DEF BeginsFor
    <3>2. x = Root
      BY <1>3, <2>1, <3>1, FlatKeys
    <3>3. DirKey(Root, name) = <<name, NoName>>
      BY <2>1, RootKeys
    <3> QED
      BY <3>1, <3>2, <3>3, <2>3, MarkerKey DEF RootKey
  <2> QED
    BY <1>1, <2>2, <2>3 DEF BeginsFor
<1>5. op = "remove" => x = Root
  <2> SUFFICES ASSUME op = "remove" PROVE x = Root
    OBVIOUS
  <2>1. name \in DOMAIN dent[x].kids /\ name # NoName
    BY <1>1 DEF BeginsFor
  <2>2. PICK y : y = dent[x].kids[name]
    OBVIOUS
  <2>3. y \in DOMAIN dent \ {Root} /\ dent[y].name = name /\ dent[y].parent = x
    BY <1>3, <2>1, <2>2, DentryFacts DEF Rooted, IInv
  <2> QED
    BY <2>1, <2>3 DEF FlatInv, FlatTree
<1> QED
  BY <1>2, <1>4, <1>5 DEF FlatRequest, ChangesDir, Root, RootKey

LEMMA FlatStep ==
    ASSUME Flat, Rooted, Rooted', Orderly, KeysOnly, FlatInv, [Next]_vars
    PROVE  FlatInv'
<1>1. Extends /\ IInv
  BY StepExtends DEF Rooted
<1>2. ASSUME NEW t \in Threads, Handler(t) PROVE FlatRequest(t)'
  <2>1. FlatRequest(t)
    BY DEF FlatInv
  <2>2. CASE HeadFile(t) \/ HeadDir(t) \/ ListOne(t)
    <3>1. PICK pc, found : /\ pc \in {"head_dir", "list_one", "add", "absent"}
                           /\ Moved(t, pc, found, req[t].target)
      BY <1>1, <2>2, SearchMoves DEF MovedTo
    <3>2. pc = "add" => req[t].dir = Root /\ RootKey(req[t].name, found) \in Keys
      BY <2>2, <3>1, FlatFound DEF KeysOnly
    <3> QED
      BY <2>1, <3>1, <3>2 DEF FlatRequest, Moved, SameCall, ChangesDir, RootKey
  <2>3. CASE ListPage(t)
    <3>1. SameCall(t) /\ req'[t].pc = "build"
      BY <1>1, <2>3, ListMoves
    <3>2. \A n \in DOMAIN req'[t].page :
              IF req[t].dir = Root THEN n # NoName /\ RootKey(n, req'[t].page[n]) \in Keys
                                   ELSE n = NoName /\ req'[t].page[n] # "dir"
      BY <2>3, FlatPage DEF KeysOnly
    <3> QED
      BY <2>1, <3>1, <3>2 DEF FlatRequest, SameCall, ChangesDir, RootKey, Root
  <2>4. ASSUME NEW pc, NEW target, Moved(t, pc, req[t].found, target), pc # "add", pc # "build"
        PROVE  FlatRequest(t)'
    BY <2>1, <2>4 DEF FlatRequest, Moved, SameCall, ChangesDir, RootKey
  <2>5. CASE FindMissing(t) \/ FindCached(t) \/ HeadExpired(t) \/ ApplyHead(t) \/ AddFound(t)
             \/ AddNew(t)
    <3>1. PICK pc, target : /\ pc \in {"head_file", "found", "head_expired", "apply"}
                            /\ Moved(t, pc, req[t].found, target)
      BY <1>1, <2>5, SearchMoves DEF MovedTo
    <3> QED
      BY <2>4, <3>1
  <2>6. CASE Ended(t)
    <3>1. NoRequest.op = "none" /\ NoRequest.pc = "idle"
      BY DEF NoRequest
    <3> QED
      BY <2>6, <3>1 DEF FlatRequest, Ended, ChangesDir
  <2>7. CASE UNCHANGED req
    BY <2>1, <2>7 DEF FlatRequest, ChangesDir, RootKey, Root
  <2>8. CASE BuildPage(t)
    <3>1. PICK pc : pc = IF req[t].more THEN "list" ELSE "clear"
      OBVIOUS
    <3>2. MovedTo(t, pc) /\ pc # "add" /\ pc # "build"
      BY <1>1, <2>8, <3>1, ChangeMoves
    <3> QED
      BY <2>4, <3>2 DEF MovedTo
  <2>9. CASE Absent(t) \/ PutObject(t) \/ RemoveFound(t) \/ DeleteObject(t) \/ LoadDir(t)
             \/ ClearUnsynced(t)
    <3>1. \/ Ended(t) \/ UNCHANGED req
          \/ \E pc \in {"put", "add_new", "delete", "remove_child", "list", "entries"} : MovedTo(t, pc)
      BY <1>1, <2>9, ChangeMoves
    <3> QED
      BY <2>4, <2>6, <2>7, <3>1 DEF MovedTo
  <2>10. CASE ReplyEntry(t) \/ RemoveChild(t) \/ ReplyEntries(t) \/ Fail(t)
    BY <1>1, <2>6, <2>10, ChangeMoves
  <2>11. CASE UseAfterFree(t)
    BY <2>7, <2>11 DEF UseAfterFree
  <2> QED
    BY <1>2, <2>2, <2>3, <2>5, <2>8, <2>9, <2>10, <2>11 DEF Handler
<1>3. ASSUME NEW u \in Threads PROVE FlatRequest(u)'
  <2>1. CASE req'[u] = req[u]
    BY <2>1 DEF FlatInv, FlatRequest, ChangesDir, RootKey, Root
  <2>2. CASE Request(u) \/ Handler(u)
    BY <1>1, <1>2, <2>2, FlatBegin
  <2> QED
    BY <1>1, <2>1, <2>2, OthersServed
<1> QED
  BY <1>1, <1>3, FlatTreeStep DEF FlatInv

LEMMA AlwaysFlat == ASSUME Flat PROVE Spec => []FlatInv
<1>1. Init => FlatInv
  <2>1. NoRequest.op = "none" /\ NoRequest.pc = "idle"
    BY DEF NoRequest
  <2> QED
    BY <2>1 DEF Init, FlatInv, FlatTree, FlatRequest, ChangesDir
<1>2. Rooted /\ Rooted' /\ Orderly /\ KeysOnly /\ FlatInv /\ [Next]_vars => FlatInv'
  BY FlatStep
<1> QED
  BY <1>1, <1>2, AlwaysRooted, AlwaysOrderly, AlwaysKeysOnly, PTL DEF Spec

-----------------------------------------------------------------------------
(* Who else could add a key of the name that a request is about.           *)

\* Nobody, with one thread, or while the root is locked for this request.
Alone(t) == OneThread \/ (Flat /\ ChangesDir(t))

LEMMA OnlyOwnPut ==
    ASSUME OneClient, IInv, Orderly, Flat => FlatInv, [Next]_vars, NEW t \in Threads, Alone(t),
           ~(bucket' \subseteq bucket)
    PROVE  Puts(t)
<1>1. ~OtherClient
  BY DEF OneClient, OtherClient
<1>2. PICK u \in Threads : Puts(u)
  BY <1>1, BucketStep DEF Deletes
<1>3. u = t
  <2>1. CASE OneThread
    BY <2>1 DEF OneThread
  <2>2. CASE Flat /\ ChangesDir(t)
    <3>1. ChangesDir(u)
      BY <1>2 DEF Puts, Orderly, InOrder, ChangesDir
    <3>2. req[u].dir = Root /\ req[t].dir = Root
      BY <2>2, <3>1 DEF FlatInv, FlatRequest
    <3> QED
      BY <2>2, <3>1, <3>2 DEF Orderly, ChangesAlone
  <2> QED
    BY <2>1, <2>2 DEF Alone
<1> QED
  BY <1>2, <1>3

\* Whoever puts goes on to the next step, or gives up.
LEMMA PutEnds ==
    ASSUME IInv, NEW t \in Threads, Puts(t)
    PROVE  req'[t].pc \in {"add_new", "idle"}
<1>1. NoRequest.pc = "idle"
  BY DEF NoRequest
<1> QED
  BY <1>1, ChangeMoves DEF Puts, MovedTo, Moved, Ended

\* Which steps come to one that relies on what was not found.
LEMMA AsksNext ==
    ASSUME IInv, NEW t \in Threads, Handler(t),
           req'[t].pc \in {"head_dir", "list_one", "absent", "put"}, req'[t] # req[t]
    PROVE  HeadFile(t) \/ HeadDir(t) \/ req[t].pc \in {"list_one", "absent"}
<1>1. NoRequest.pc = "idle"
  BY DEF NoRequest
<1>2. CASE \/ FindMissing(t) \/ FindCached(t) \/ AddFound(t) \/ AddNew(t) \/ HeadExpired(t)
           \/ ApplyHead(t)
  BY <1>2, SearchMoves DEF Moved, MovedTo
<1>3. CASE \/ PutObject(t) \/ RemoveFound(t) \/ DeleteObject(t) \/ LoadDir(t) \/ ClearUnsynced(t)
           \/ ReplyEntry(t) \/ RemoveChild(t) \/ ReplyEntries(t) \/ Fail(t)
  BY <1>1, <1>3, ChangeMoves DEF Moved, MovedTo, Ended
<1>4. CASE BuildPage(t)
  <2>1. PICK pc : pc = IF req[t].more THEN "list" ELSE "clear"
    OBVIOUS
  <2>2. req'[t].pc = pc
    BY <1>4, <2>1, ChangeMoves DEF Moved, MovedTo
  <2> QED
    BY <2>1, <2>2
<1>5. CASE ListPage(t)
  BY <1>5, ListMoves
<1>6. CASE ListOne(t) \/ Absent(t) \/ UseAfterFree(t)
  BY <1>6 DEF ListOne, Absent, UseAfterFree, Local, At
<1> QED
  BY <1>2, <1>3, <1>4, <1>5, <1>6 DEF Handler

MissedInv == \A t \in Threads : Alone(t) => Missed(t)

LEMMA MissedStep ==
    ASSUME OneClient, Rooted, Rooted', Orderly, Flat => FlatInv, MissedInv, [Next]_vars
    PROVE  MissedInv'
<1> DEFINE Asks == {"head_dir", "list_one", "absent", "put"}
<1>1. Extends /\ IInv
  BY StepExtends DEF Rooted
<1>2. ASSUME NEW t \in Threads, Alone(t)', req'[t].pc \in Asks
      PROVE  Missed(t)'
  <2>1. ~Request(t)
    <3>1. SUFFICES ASSUME Request(t) PROVE FALSE
      OBVIOUS
    <3>2. PICK op, x, name, type : BeginsFor(t, op, x, name, type)
      BY <1>1, <3>1, RequestBegins
    <3>3. req'[t].pc = IF op = "readdir" THEN "load" ELSE "find"
      BY <1>1, <3>2, BeginEffect DEF BeginsFor
    <3> QED
      BY <1>2, <3>3
  <2>2. SameRequest(t)
    <3>1. NoRequest.pc = "idle"
      BY DEF NoRequest
    <3> QED
      BY <1>1, <1>2, <2>1, <3>1, RequestOf
  <2>3. Alone(t)
    BY <1>2, <2>2 DEF Alone, SameRequest, ChangesDir, OneThread, Flat
  <2>4. bucket' \subseteq bucket
    BY <1>1, <1>2, <2>3, OnlyOwnPut, PutEnds
  <2>5. Missed(t)
    BY <2>3 DEF MissedInv
  <2>6. PICK f, d : /\ f = FileKey(req[t].dir, req[t].name) /\ d = DirKey(req[t].dir, req[t].name)
                    /\ f = FileKey(req[t].dir, req[t].name)' /\ d = DirKey(req[t].dir, req[t].name)'
    BY <1>1, <2>2, SameKeys
  <2>7. CASE req'[t] = req[t]
    BY <2>4, <2>5, <2>6, <2>7 DEF Missed
  <2>8. CASE HeadFile(t)
    <3>1. f \notin bucket /\ req'[t].pc = "head_dir"
      BY <1>1, <1>2, <2>6, <2>8, SearchMoves DEF Moved, MovedTo
    <3> QED
      BY <2>4, <2>6, <3>1 DEF Missed
  <2>9. CASE HeadDir(t)
    <3>1. d \notin bucket /\ req'[t].pc = "list_one" /\ req[t].pc = "head_dir"
      BY <1>1, <1>2, <2>6, <2>9, SearchMoves DEF Moved, MovedTo, HeadDir, At
    <3> QED
      BY <2>4, <2>5, <2>6, <3>1 DEF Missed
  <2>10. CASE req[t].pc \in {"list_one", "absent"}
    BY <2>4, <2>5, <2>6, <2>10 DEF Missed
  <2>11. req'[t] # req[t] => HeadFile(t) \/ HeadDir(t) \/ req[t].pc \in {"list_one", "absent"}
    <3>1. CASE Handler(t)
      BY <1>1, <1>2, <3>1, AsksNext
    <3> QED
      BY <1>1, <2>1, <3>1, OthersServed
  <2> QED
    BY <2>7, <2>8, <2>9, <2>10, <2>11
<1>3. ASSUME NEW t \in Threads, req'[t].pc \notin Asks PROVE Missed(t)'
  BY <1>3 DEF Missed
<1> QED
  BY <1>2, <1>3 DEF MissedInv

LEMMA FlatIfFlat == Spec => [](Flat => FlatInv)
<1>1. CASE Flat
  <2>1. Spec => []FlatInv
    BY <1>1, AlwaysFlat
  <2>2. FlatInv => (Flat => FlatInv)
    OBVIOUS
  <2> QED
    BY <2>1, <2>2, PTL
<1>2. CASE ~Flat
  <2>1. Flat => FlatInv
    BY <1>2
  <2> QED
    BY <2>1, PTL
<1> QED
  BY <1>1, <1>2

LEMMA AlwaysMissed == ASSUME OneClient PROVE Spec => []MissedInv
<1>1. Init => MissedInv
  <2>1. NoRequest.pc = "idle"
    BY DEF NoRequest
  <2> QED
    BY <2>1 DEF Init, MissedInv, Missed
<1>2. Rooted /\ Rooted' /\ Orderly /\ (Flat => FlatInv) /\ MissedInv /\ [Next]_vars => MissedInv'
  BY MissedStep
<1> QED
  BY <1>1, <1>2, FlatIfFlat, AlwaysRooted, AlwaysOrderly, PTL DEF Spec

\* create and mkdir never put their empty object over one that is there, while no
\* other client writes, with one thread, or with any number of them when all
\* keys are in the root: between the HEAD that finds nothing and the put, the
\* kernel's lock of the directory keeps the others out.
THEOREM CreateIsSafe ==
    ASSUME OneClient, OneThread \/ Flat
    PROVE  Spec => CreateDestroysNothing
<1>1. ASSUME Orderly, MissedInv, NEW t \in Threads, req[t].pc = "put"
      PROVE  NewKey(t) \notin bucket
  <2>1. req[t].op = "create"
    BY <1>1 DEF Orderly, InOrder
  <2>2. Missed(t)
    BY <1>1, <2>1 DEF MissedInv, Alone, ChangesDir
  <2> QED
    BY <1>1, <2>2 DEF Missed, NewKey
<1>2. Orderly /\ MissedInv =>
         \A t \in Threads : req[t].pc = "put" /\ req'[t].pc = "add_new" => NewKey(t) \notin bucket
  BY <1>1
<1> QED
  BY <1>2, AlwaysOrderly, AlwaysMissed, PTL DEF CreateDestroysNothing

-----------------------------------------------------------------------------
(* What is deleted.                                                        *)

\* Only the delete comes to remove_child.
LEMMA RemovesNext ==
    ASSUME IInv, NEW t \in Threads, Handler(t), req'[t].pc = "remove_child", req'[t] # req[t]
    PROVE  DeleteObject(t)
<1>1. NoRequest.pc = "idle"
  BY DEF NoRequest
<1>2. CASE \/ FindMissing(t) \/ FindCached(t) \/ AddFound(t) \/ AddNew(t) \/ HeadExpired(t)
           \/ ApplyHead(t) \/ HeadFile(t) \/ HeadDir(t) \/ ListOne(t)
  BY <1>2, SearchMoves DEF Moved, MovedTo
<1>3. CASE \/ PutObject(t) \/ RemoveFound(t) \/ Absent(t) \/ LoadDir(t) \/ ClearUnsynced(t)
           \/ ReplyEntry(t) \/ RemoveChild(t) \/ ReplyEntries(t) \/ Fail(t)
  BY <1>1, <1>3, ChangeMoves DEF Moved, MovedTo, Ended
<1>4. CASE BuildPage(t)
  <2>1. PICK pc : pc = IF req[t].more THEN "list" ELSE "clear"
    OBVIOUS
  <2>2. req'[t].pc = pc
    BY <1>4, <2>1, ChangeMoves DEF Moved, MovedTo
  <2> QED
    BY <2>1, <2>2
<1>5. CASE ListPage(t) \/ UseAfterFree(t)
  BY <1>5, ListMoves DEF UseAfterFree
<1> QED
  BY <1>2, <1>3, <1>4, <1>5 DEF Handler

DeletedInv == \A t \in Threads : Deleted(t)

LEMMA SingleAppend ==
    ASSUME NEW name \in Names
    PROVE  Append(<<name>>, NoName) = <<name, NoName>>
<1> DEFINE a == Append(<<name>>, NoName)
           b == <<name, NoName>>
<1>1. a \in Seq(Names) /\ b \in Seq(Names) /\ Len(a) = 2 /\ Len(b) = 2
  BY NoNameIsName
<1>2. a[1] = name /\ a[2] = NoName /\ b[1] = name /\ b[2] = NoName
  BY NoNameIsName
<1> HIDE DEF a, b
<1>3. \A i \in 1..2 : a[i] = b[i]
  BY <1>2
<1>4. a = b
  BY <1>1, <1>3, SeqEqual
<1> QED
  BY <1>4 DEF a, b

\* The key that remove_dentry deletes is the one that the cache's entry is for,
\* and the name has no other.
LEMMA DeletesAll ==
    ASSUME Flat, OneKind, Rooted, Orderly, KeysOnly, FlatInv, NEW t \in Threads,
           req[t].pc = "delete", bucket' = bucket \ {OldKey(t)}
    PROVE  <<req[t].name>> \notin bucket' /\ <<req[t].name, NoName>> \notin bucket'
<1> DEFINE x == req[t].target
           name == req[t].name
<1>1. req[t].dir = Root /\ name \in Names
  <2>1. ChangesDir(t)
    BY DEF Orderly, InOrder, ChangesDir
  <2> QED
    BY <2>1 DEF FlatInv, FlatRequest, Rooted, IInv, ReqInv, IsRequest
<1>2. x \in DOMAIN dent \ {Root} /\ dent[x].parent = Root /\ dent[x].name = name
  BY <1>1 DEF Orderly, TargetNamed, HasTarget, Rooted, IInv, ReqInv, IsRequest
<1>3. RootKey(name, dent[x].type) \in Keys
  BY <1>2 DEF FlatInv, FlatTree
<1>4. Path(x) = <<name>>
  <2>1. Path(x) = Append(Path(Root), name)
    BY <1>2, PathFacts DEF PathLaws
  <2> QED
    BY <1>1, <2>1, RootKeys DEF FileKey
<1>5. Append(<<name>>, NoName) = <<name, NoName>>
  BY <1>1, SingleAppend
<1>6. OldKey(t) = IF IsDir(x) THEN <<name, NoName>> ELSE <<name>>
  BY <1>4, <1>5 DEF OldKey, NoName
<1>7. OldKey(t) = RootKey(name, dent[x].type)
  BY <1>6 DEF RootKey, IsDir
<1>8. CASE IsDir(x)
  <2>1. <<name>> \notin bucket
    BY <1>1, <1>3, <1>8 DEF OneKind, RootKey, IsDir, KeysOnly
  <2> QED
    BY <1>6, <1>8, <2>1
<1>9. CASE ~IsDir(x)
  <2>1. <<name, NoName>> \notin bucket
    BY <1>1, <1>3, <1>9 DEF OneKind, RootKey, IsDir, KeysOnly
  <2> QED
    BY <1>6, <1>9, <2>1
<1> QED
  BY <1>8, <1>9

LEMMA DeletedStep ==
    ASSUME OneClient, Flat, OneKind, Rooted, Rooted', Orderly, KeysOnly, FlatInv, DeletedInv,
           [Next]_vars
    PROVE  DeletedInv'
<1>1. Extends /\ IInv
  BY StepExtends DEF Rooted
<1>2. ASSUME NEW t \in Threads, req'[t].pc = "remove_child" PROVE Deleted(t)'
  <2>1. CASE req'[t] = req[t]
    <3>1. req[t].pc = "remove_child" /\ ChangesDir(t)
      BY <1>2, <2>1 DEF Orderly, InOrder, ChangesDir
    <3>2. bucket' \subseteq bucket
      BY <1>1, <3>1, OnlyOwnPut DEF Alone, Puts
    <3> QED
      BY <2>1, <3>1, <3>2 DEF DeletedInv, Deleted
  <2>2. CASE DeleteObject(t)
    <3>1. req[t].pc = "delete" /\ bucket' = bucket \ {OldKey(t)} /\ req'[t].name = req[t].name
      BY <1>1, <2>2, ChangeMoves DEF DeleteObject, At, MovedTo, Moved, SameCall
    <3>2. <<req[t].name>> \notin bucket' /\ <<req[t].name, NoName>> \notin bucket'
      BY <3>1, DeletesAll
    <3> QED
      BY <3>1, <3>2 DEF Deleted, NoName
  <2>3. req'[t] = req[t] \/ DeleteObject(t)
    <3>1. NoRequest.pc = "idle"
      BY DEF NoRequest
    <3>2. CASE Request(t)
      <4>1. PICK op, x, name, type : BeginsFor(t, op, x, name, type)
        BY <1>1, <3>2, RequestBegins
      <4>2. req'[t].pc = IF op = "readdir" THEN "load" ELSE "find"
        BY <1>1, <4>1, BeginEffect DEF BeginsFor
      <4> QED
        BY <1>2, <4>2
    <3>3. CASE Handler(t)
      BY <1>1, <1>2, <3>3, RemovesNext
    <3> QED
      BY <1>1, <3>2, <3>3, OthersServed
  <2> QED
    BY <2>1, <2>2, <2>3
<1>3. ASSUME NEW t \in Threads, req'[t].pc # "remove_child" PROVE Deleted(t)'
  BY <1>3 DEF Deleted
<1> QED
  BY <1>2, <1>3 DEF DeletedInv

LEMMA AlwaysDeleted == ASSUME OneClient, Flat, OneKind PROVE Spec => []DeletedInv
<1>1. Init => DeletedInv
  <2>1. NoRequest.pc = "idle"
    BY DEF NoRequest
  <2> QED
    BY <2>1 DEF Init, DeletedInv, Deleted
<1>2. Rooted /\ Rooted' /\ Orderly /\ KeysOnly /\ FlatInv /\ DeletedInv /\ [Next]_vars
         => DeletedInv'
  BY DeletedStep
<1> QED
  BY <1>1, <1>2, AlwaysRooted, AlwaysOrderly, AlwaysKeysOnly, AlwaysFlat, PTL DEF Spec

\* Nothing but its marker is below a name in the root.
LEMMA FlatBelow ==
    ASSUME Flat, bucket \subseteq Keys, NEW name \in Names
    PROVE  Below(<<name>>) \subseteq {<<name, NoName>>}
<1> SUFFICES ASSUME NEW k \in Below(<<name>>) PROVE k = <<name, NoName>>
  OBVIOUS
<1>1. <<name>> \in Seq(Names) /\ Len(<<name>>) = 1
  OBVIOUS
<1>2. k \in Keys /\ k \in Seq(Names) /\ Len(k) > 1 /\ SubSeq(k, 1, 1) = <<name>>
  BY <1>1, CacheAssumption DEF Below
<1>3. Len(k) = 2 /\ k[2] = NoName
  BY <1>2 DEF Flat
<1>4. k[1] = name
  <2>1. SubSeq(k, 1, 1)[1] = k[1]
    BY <1>2, <1>3
  <2>2. <<name>>[1] = name
    OBVIOUS
  <2> QED
    BY <1>2, <2>1, <2>2
<1>5. <<name, NoName>> \in Seq(Names) /\ Len(<<name, NoName>>) = 2
  BY NoNameIsName
<1>6. \A i \in 1..2 : k[i] = <<name, NoName>>[i]
  BY <1>3, <1>4
<1> QED
  BY <1>2, <1>3, <1>5, <1>6, SeqEqual

\* When unlink or rmdir reports success, neither an object of the name nor one
\* below it is left, whatever other threads do at the same time, and although
\* deletes may fail, or succeed without an answer: while no other client writes,
\* all keys are in the root, and no name is a file's and a directory's.
THEOREM RemoveIsComplete ==
    ASSUME OneClient, Flat, OneKind
    PROVE  Spec => RemovedIsGone
<1>1. ASSUME Rooted, Orderly, KeysOnly, FlatInv, DeletedInv, NEW t \in Threads,
             req[t].pc = "remove_child"
      PROVE  LET path == FileKey(req[t].dir, req[t].name)
             IN  path \notin bucket /\ Below(path) = {}
  <2>1. req[t].dir = Root /\ req[t].name \in Names
    <3>1. ChangesDir(t)
      BY <1>1 DEF Orderly, InOrder, ChangesDir
    <3> QED
      BY <1>1, <3>1 DEF FlatInv, FlatRequest, Rooted, IInv, ReqInv, IsRequest
  <2>2. FileKey(req[t].dir, req[t].name) = <<req[t].name>>
    BY <1>1, <2>1, RootKeys
  <2>3. <<req[t].name>> \notin bucket /\ <<req[t].name, NoName>> \notin bucket
    BY <1>1 DEF DeletedInv, Deleted, NoName
  <2>4. Below(<<req[t].name>>) = {}
    <3>1. Below(<<req[t].name>>) \subseteq {<<req[t].name, NoName>>}
      BY <1>1, <2>1, FlatBelow DEF KeysOnly
    <3> QED
      BY <2>3, <3>1 DEF Below
  <2> QED
    BY <2>2, <2>3, <2>4
<1>2. Rooted /\ Orderly /\ KeysOnly /\ FlatInv /\ DeletedInv =>
         \A t \in Threads :
            LET path == FileKey(req[t].dir, req[t].name)
            IN  req[t].pc = "remove_child" /\ req'[t].pc = "idle"
                   => path \notin bucket /\ Below(path) = {}
  BY <1>1
<1> QED
  BY <1>2, AlwaysRooted, AlwaysOrderly, AlwaysKeysOnly, AlwaysFlat, AlwaysDeleted, PTL
     DEF RemovedIsGone

=============================================================================
