----------------------------- MODULE DirHandles -----------------------------
(***************************************************************************)
(* Open directories of catfs: opendir, readdir, readdirplus and releasedir *)
(* (fs/fs_dir.cpp, fs/fsa.cpp), over one directory of the metadata cache.  *)
(*                                                                         *)
(* The first readdir of a handle copies the children of the directory into *)
(* the handle; every readdir answers from that copy, from the offset that  *)
(* the kernel took from the last entry it consumed.  What the copy holds   *)
(* are pointers to inodes, which unlink frees.                             *)
(***************************************************************************)
EXTENDS Integers, FiniteSets, Sequences, Functions

CONSTANTS
    Names,          \* the names there can be in the directory
    MaxHandles,     \* bound: how many times it is opened
    BufBytes,       \* the size the kernel asks for
    EntryBytes,     \* what an entry takes of it
    SplitDots,      \* may an application be given "." without ".."?
    MaxSeeks,       \* bound: how many times an application goes back
    MaxFails        \* bound: how many listings fail

Dots == <<".", "..">>
Entries == Names \cup {".", ".."}
Handles == 1 .. MaxHandles

ASSUME DirAssumption ==
    /\ IsFiniteSet(Names) /\ "." \notin Names /\ ".." \notin Names
    /\ {MaxHandles, MaxSeeks, MaxFails} \subseteq Nat
    /\ EntryBytes \in Nat \ {0} /\ BufBytes \in Nat /\ 2 * EntryBytes <= BufBytes
    /\ SplitDots \in BOOLEAN

VARIABLES
    store,      \* names that the bucket has in the directory
    children,   \* names that the cache has there
    complete,   \* the cache has them all, and its ttl lies ahead
    dentries,   \* handle |-> its copy, of every directory that is open
    pc,         \* handle |-> where its readdir stands
    pos,        \* handle |-> the kernel's offset
    got,        \* handle |-> the names given since the start of the directory
    ended,      \* handle |-> the application was told that this is all
    stale,      \* handle |-> names in its copy whose inode was freed
    stable,     \* handle |-> names in the bucket ever since the opendir
    failed,     \* handle |-> its listing failed once
    seeks, fails,   \* so far
    ub          \* memory was used after it was freed: anything may happen

dir == <<store, children, complete>>
reader == <<pos, got, ended>>
vars == <<dir, dentries, pc, reader, stale, stable, failed, seeks, fails, ub>>

Opened == DOMAIN dentries
Idle(h) == ~ub /\ pc[h] = "idle"
At(h, place) == ~ub /\ h \in Opened /\ pc[h] = place

-----------------------------------------------------------------------------
(* Copies and replies.                                                     *)

\* children_list: the order of an unordered_map is any order.
Orders(S) == Bijection(1 .. Cardinality(S), S)

Least(a, b) == IF a < b THEN a ELSE b

\* Variant: the end of the slice does not count from its start.
Slice_FromStart(copy, off, size) == SubSeq(copy, off + 1, Least(size, Len(copy)))

\* read_dir: size, a number of bytes, counts entries.
Slice(copy, off, size) == SubSeq(copy, off + 1, Least(off + size, Len(copy)))

\* Variant: the offset counts one entry too many.
Plus_Skips(slice, off) == [i \in DOMAIN slice |-> [name |-> slice[i], off |-> off + i + 1]]

\* Variant: an entry carries its own offset and not the next one.
Plus_OwnOffset(slice, off) == [i \in DOMAIN slice |-> [name |-> slice[i], off |-> off + i - 1]]

\* readdirplus: each entry with the offset behind it.
Plus(slice, off) == [i \in DOMAIN slice |-> [name |-> slice[i], off |-> off + i]]

\* readdir leaves out the two dots, which come first in a copy, and does not
\* count them.
DotsIn(slice, off) == IF off < 2 THEN Least(2 - off, Len(slice)) ELSE 0
Plain(slice, off) == Plus(SubSeq(slice, DotsIn(slice, off) + 1, Len(slice)), off)

Room == BufBytes \div EntryBytes
Fitted(reply) == SubSeq(reply, 1, Least(Room, Len(reply)))

\* The inodes that the loop over a slice reads, up to the entry that does not fit.
Visited(reply) == {reply[i].name : i \in 1 .. Least(Room + 1, Len(reply))}

\* The kernel asks for plain entries only behind the start of a directory.
Replies(h) ==
    LET slice == Slice(dentries[h], pos[h], BufBytes)
    IN  {Plus(slice, pos[h])} \cup (IF pos[h] > 0 THEN {Plain(slice, pos[h])} ELSE {})

-----------------------------------------------------------------------------
Init ==
    /\ store \in SUBSET Names
    /\ children = {} /\ complete = FALSE
    /\ dentries = <<>> /\ pc = <<>>
    /\ pos = <<>> /\ got = <<>> /\ ended = <<>>
    /\ stale = <<>> /\ stable = <<>> /\ failed = <<>>
    /\ seeks = 0 /\ fails = 0
    /\ ub = FALSE

OpenDir ==
    /\ ~ub /\ Len(pc) < MaxHandles
    /\ dentries' = Append(dentries, <<>>) /\ pc' = Append(pc, "idle")
    /\ pos' = Append(pos, 0) /\ got' = Append(got, <<>>) /\ ended' = Append(ended, FALSE)
    /\ stale' = Append(stale, {}) /\ stable' = Append(stable, store)
    /\ failed' = Append(failed, FALSE)
    /\ UNCHANGED <<dir, seeks, fails, ub>>

-----------------------------------------------------------------------------
(* readdir and readdirplus.                                                *)

\* Variant: a copy is taken whenever the directory is read from its start.
Read_Again(h) ==
    /\ Idle(h) /\ ~ended[h]
    /\ IF pos[h] # 0 THEN pc' = [pc EXCEPT ![h] = "reply"] /\ UNCHANGED dentries
       ELSE IF complete
            THEN /\ \E s \in Orders(children) : dentries' = [dentries EXCEPT ![h] = Dots \o s]
                 /\ pc' = [pc EXCEPT ![h] = "reply"]
            ELSE /\ dentries' = [dentries EXCEPT ![h] = Dots]
                 /\ pc' = [pc EXCEPT ![h] = "list"]
    /\ UNCHANGED <<dir, reader, stale, stable, failed, seeks, fails, ub>>

\* load_sub_dentries puts the dots into the copy before anything can fail.
Read(h) ==
    /\ Idle(h) /\ ~ended[h]
    /\ IF dentries[h] # <<>> THEN pc' = [pc EXCEPT ![h] = "reply"] /\ UNCHANGED dentries
       ELSE IF complete
            THEN /\ \E s \in Orders(children) : dentries' = [dentries EXCEPT ![h] = Dots \o s]
                 /\ pc' = [pc EXCEPT ![h] = "reply"]
            ELSE /\ dentries' = [dentries EXCEPT ![h] = Dots]
                 /\ pc' = [pc EXCEPT ![h] = "list"]
    /\ UNCHANGED <<dir, reader, stale, stable, failed, seeks, fails, ub>>

\* refresh_sub_dentries, all its pages, and children_list.
List(h) ==
    /\ At(h, "list")
    /\ children' = store /\ complete' = TRUE
    /\ \E s \in Orders(store) : dentries' = [dentries EXCEPT ![h] = @ \o s]
    /\ pc' = [pc EXCEPT ![h] = "reply"]
    /\ UNCHANGED <<store, reader, stale, stable, failed, seeks, fails, ub>>

\* EIO.  The copy keeps the dots, so that the next readdir takes it for loaded.
ListFails(h) ==
    /\ At(h, "list") /\ fails < MaxFails
    /\ fails' = fails + 1
    /\ failed' = [failed EXCEPT ![h] = TRUE]
    /\ pc' = [pc EXCEPT ![h] = "idle"]
    /\ UNCHANGED <<dir, dentries, reader, stale, stable, seeks, ub>>

\* The application's buffer may be full before the reply is used up; the
\* kernel then goes on from the offset of the last entry that went in.
Consume(h, reply) ==
    IF reply = <<>>
    THEN ended' = [ended EXCEPT ![h] = TRUE] /\ UNCHANGED <<pos, got>>
    ELSE \E k \in DOMAIN reply :
            /\ SplitDots \/ reply[k].off # 1
            /\ pos' = [pos EXCEPT ![h] = reply[k].off]
            /\ got' = [got EXCEPT ![h] = @ \o [i \in 1 .. k |-> reply[i].name]]
            /\ UNCHANGED ended

\* Variant: an offset at the end of the copy is an error.
Reply_EndIsError(h) ==
    /\ At(h, "reply")
    /\ \E reply \in Replies(h) :
          IF reply = <<>> THEN UNCHANGED reader ELSE Consume(h, Fitted(reply))
    /\ pc' = [pc EXCEPT ![h] = "idle"]
    /\ UNCHANGED <<dir, dentries, stale, stable, failed, seeks, fails, ub>>

Reply(h) ==
    /\ At(h, "reply")
    /\ \E reply \in Replies(h) :
          IF Visited(reply) \cap stale[h] # {}
          THEN ub' = TRUE /\ UNCHANGED <<pc, reader>>
          ELSE Consume(h, Fitted(reply)) /\ pc' = [pc EXCEPT ![h] = "idle"] /\ UNCHANGED ub
    /\ UNCHANGED <<dir, dentries, stale, stable, failed, seeks, fails>>

\* rewinddir, or seekdir to an offset that came with an entry.
Seek(h) ==
    /\ Idle(h) /\ seeks < MaxSeeks
    /\ \E p \in {0, pos[h]} \cup 2 .. pos[h] :
          /\ pos' = [pos EXCEPT ![h] = p]
          /\ got' = [got EXCEPT ![h] = SubSeq(@, 1, p)]
    /\ ended' = [ended EXCEPT ![h] = FALSE]
    /\ seeks' = seeks + 1
    /\ UNCHANGED <<dir, dentries, pc, stale, stable, failed, fails, ub>>

\* release_dir; the kernel, which gets no answer, waits for none.
ReleaseDir(h) ==
    /\ Idle(h)
    /\ pc' = [pc EXCEPT ![h] = "closed"]
    /\ UNCHANGED <<dir, dentries, reader, stale, stable, failed, seeks, fails, ub>>

-----------------------------------------------------------------------------
(* The directory changes.  What changes it holds its lock exclusively, and *)
(* a readdir holds it shared until it is answered.                         *)

Unread == ~ub /\ \A h \in Opened : pc[h] \in {"idle", "closed"}

Create(n) ==
    /\ Unread /\ n \notin store
    /\ store' = store \cup {n} /\ children' = children \cup {n}
    /\ UNCHANGED <<complete, dentries, pc, reader, stale, stable, failed, seeks, fails, ub>>

\* remove_child frees the inode, to which the copies still point.
Remove(n) ==
    /\ Unread /\ n \in store
    /\ store' = store \ {n} /\ children' = children \ {n}
    /\ stale' = [h \in Opened |-> IF n \in Range(dentries[h]) THEN stale[h] \cup {n} ELSE stale[h]]
    /\ stable' = [h \in Opened |-> stable[h] \ {n}]
    /\ UNCHANGED <<complete, dentries, pc, reader, failed, seeks, fails, ub>>

Expire ==
    /\ ~ub /\ complete
    /\ complete' = FALSE
    /\ UNCHANGED <<store, children, dentries, pc, reader, stale, stable, failed, seeks, fails, ub>>

\* Nothing is being read, or nothing can be said any more.
Rest == (Unread \/ ub) /\ UNCHANGED vars

Handler(h) == List(h) \/ ListFails(h) \/ Reply(h)

Next ==
    \/ OpenDir \/ Expire \/ Rest
    \/ \E h \in Opened : Read(h) \/ Handler(h) \/ Seek(h) \/ ReleaseDir(h)
    \/ \E n \in Names : Create(n) \/ Remove(n)

Spec == Init /\ [][Next]_vars

\* The loop's threads go on, and an application that has opened a directory
\* reads it.
Fairness == \A h \in Handles : WF_vars(h \in Opened /\ (Read(h) \/ Handler(h)))
FairSpec == Spec /\ Fairness

-----------------------------------------------------------------------------
(* Properties.                                                             *)

TypeOK ==
    /\ store \subseteq Names /\ children \subseteq store
    /\ complete \in BOOLEAN /\ ub \in BOOLEAN
    /\ \E n \in 0 .. MaxHandles : Opened = 1 .. n
    /\ pc \in [Opened -> {"idle", "list", "reply", "closed"}]
    /\ dentries \in [Opened -> Seq(Entries)] /\ got \in [Opened -> Seq(Entries)]
    /\ pos \in [Opened -> Nat]
    /\ \A h \in Opened : pos[h] <= Len(dentries[h])
    /\ ended \in [Opened -> BOOLEAN] /\ failed \in [Opened -> BOOLEAN]
    /\ stale \in [Opened -> SUBSET Names] /\ stable \in [Opened -> SUBSET Names]
    /\ seeks \in 0 .. MaxSeeks /\ fails \in 0 .. MaxFails

\* No entry is given twice to an application that reads a directory from its
\* start, whatever its buffers hold, whichever of readdir and readdirplus the
\* kernel uses, and wherever it went back to in between.
EachNameOnce == \A h \in Opened : IsInjective(got[h])

\* An application that was told it has everything has every name that was in
\* the directory all the time, if its listing did not fail.
StableNamesGiven ==
    \A h \in Opened : ended[h] /\ ~failed[h] => stable[h] \cup {".", ".."} \subseteq Range(got[h])

\* Every open directory gives what DirListing promises: the copy is taken
\* once and given in its order, also when names come and go or the listing
\* fails.
Listing(h) == INSTANCE DirListing WITH
    listing <- IF h \notin Opened \/ pc[h] = "list" THEN <<>> ELSE dentries[h],
    got <- IF h \in Opened THEN got[h] ELSE <<>>,
    ended <- IF h \in Opened THEN ended[h] ELSE FALSE

ImplementsListing ==
    /\ \A h \in Handles : Listing(h)!Init
    /\ [][\A h \in Handles : [Listing(h)!Next]_(Listing(h)!lvars)]_vars

\* An application that reads on comes to the end of the directory.
ListingEnds ==
    \A h \in Handles : h \in Opened ~> ub \/ (h \in Opened /\ (ended[h] \/ pc[h] = "closed"))
=============================================================================
