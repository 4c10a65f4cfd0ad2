--------------------------- MODULE OpenFilesProofs ---------------------------
(***************************************************************************)
(* What the open files of one name guarantee for every length of a file,   *)
(* number of handles, inodes and failures, and length of the kernel's      *)
(* queue, whether or not files are removed before they are released.       *)
(***************************************************************************)
EXTENDS OpenFiles, FiniteSetTheorems, SequenceTheorems, TLAPS

-----------------------------------------------------------------------------
(* The inductive invariant.                                                *)

Objects == {Missing} \cup [by : {0} \cup Handles, len : Lengths]
InodeSet == [size : Lengths, freed : BOOLEAN]
HeadSet(m) == [busy : BOOLEAN, ino : 0 .. m, seen : Objects]
ReadSet == [st : {"none", "asked", "done", "refused"}, off : Lengths, n : Lengths]
Pending == {"open", "closed", "releasing"}
FileSet(m) == [ino : 1 .. m, size : Lengths, acked : Lengths,
               phase : Pending \cup {"released", "failed"},
               read : ReadSet, stored : BOOLEAN, disturbed : BOOLEAN]

TreeOK ==
    /\ object \in Objects
    /\ inodes \in Seq(InodeSet) /\ Len(inodes) <= MaxIno
    /\ current \in 0 .. Len(inodes) /\ fresh \in BOOLEAN
    /\ current # 0 => ~inodes[current].freed
    /\ head \in HeadSet(Len(inodes))
    /\ suspect \in BOOLEAN /\ removed \in BOOLEAN /\ ub \in BOOLEAN
    /\ fails \in 0 .. MaxFails

FilesOK == files \in Seq(FileSet(Len(inodes))) /\ Len(files) <= MaxHandles

\* A handle is in the kernel's queue once, and only when it is closed.
QueueOK ==
    /\ queue \in Seq({0} \cup DOMAIN files)
    /\ \A i \in DOMAIN queue : queue[i] # 0 => files[queue[i]].phase = "closed"
    /\ \A i, j \in DOMAIN queue : queue[i] = queue[j] /\ queue[i] # 0 => i = j
    /\ dirs \in 0 .. MaxDirs /\ unanswered \in 0 .. MaxBackground

\* The object is put by a handle whose release has ended.
Unstored(h) == files[h].phase \in Pending => files[h].stored = FALSE /\ object.by # h

\* A reader that nothing came between has the length of the object, and its
\* reads have been cut off there.
Undisturbed(h) ==
    LET f == files[h]
    IN  /\ f.phase # "open" => f.read = NoRead
        /\ f.phase = "open" => current # 0
        /\ f.phase = "open" /\ ~f.disturbed => Exists /\ f.size = object.len
        /\ f.phase = "open" /\ ~f.disturbed =>
              /\ f.read.st # "refused"
              /\ f.read.st = "asked" => f.read.off < f.size /\ f.read.off + f.read.n = f.size
              /\ f.read.st = "done" /\ f.read.off <= f.size => f.read.off + f.read.n = f.size

FileInv(h) == Unstored(h) /\ Undisturbed(h)

\* What the inode's size is, while the file is written and when it is not.
SizeInv ==
    ~suspect /\ current # 0 =>
        /\ Quiet /\ Exists => inodes[current].size = object.len
        /\ \A h \in Writers : files[h].ino = current => inodes[current].size = files[h].acked

\* The answer to a HEAD is for the inode that the name has, or for one that is
\* freed; a name that has none gets none meanwhile.
HeadOwner ==
    head.busy => IF head.ino = 0 THEN current = 0 /\ Len(inodes) < MaxIno
                 ELSE head.ino = current \/ inodes[head.ino].freed

IInv ==
    /\ TreeOK /\ FilesOK /\ QueueOK /\ HeadOwner
    /\ object.by \in {-1, 0} \cup DOMAIN files
    /\ \A h \in DOMAIN files : FileInv(h)
    /\ SizeInv

-----------------------------------------------------------------------------
(* Sequences and records.                                                  *)

LEMMA Changed ==
    ASSUME NEW T, NEW s \in Seq(T), NEW i \in DOMAIN s, NEW e \in T
    PROVE  /\ [s EXCEPT ![i] = e] \in Seq(T) /\ Len([s EXCEPT ![i] = e]) = Len(s)
           /\ DOMAIN [s EXCEPT ![i] = e] = DOMAIN s
           /\ [s EXCEPT ![i] = e][i] = e
           /\ \A j \in DOMAIN s : j # i => [s EXCEPT ![i] = e][j] = s[j]
<1>1. DOMAIN s = 1 .. Len(s) /\ Len(s) \in Nat /\ s \in [1 .. Len(s) -> T]
  OBVIOUS
<1> DEFINE t == [s EXCEPT ![i] = e]
<1>2. t \in [1 .. Len(s) -> T] /\ t[i] = e /\ \A j \in DOMAIN s : j # i => t[j] = s[j]
  BY <1>1
<1> HIDE DEF t
<1>3. t \in Seq(T) /\ Len(t) = Len(s)
  BY <1>1, <1>2
<1>4. QED
  BY <1>1, <1>2, <1>3 DEF t

LEMMA Added ==
    ASSUME NEW T, NEW s \in Seq(T), NEW e \in T
    PROVE  /\ Append(s, e) \in Seq(T) /\ Len(Append(s, e)) = Len(s) + 1
           /\ DOMAIN Append(s, e) = DOMAIN s \cup {Len(s) + 1}
           /\ Append(s, e)[Len(s) + 1] = e /\ Len(s) + 1 \notin DOMAIN s
           /\ \A j \in DOMAIN s : Append(s, e)[j] = s[j]
<1>1. DOMAIN s = 1 .. Len(s) /\ Len(s) \in Nat
  OBVIOUS
<1>2. Append(s, e) \in Seq(T) /\ Len(Append(s, e)) = Len(s) + 1 /\ Append(s, e)[Len(s) + 1] = e
  OBVIOUS
<1>3. DOMAIN Append(s, e) = 1 .. Len(s) + 1
  BY <1>2
<1>4. \A j \in 1 .. Len(s) : Append(s, e)[j] = s[j]
  OBVIOUS
<1>5. QED
  BY <1>1, <1>2, <1>3, <1>4

LEMMA MoreInodes ==
    ASSUME NEW m \in Nat, NEW n \in Nat, m <= n, NEW s \in Seq(FileSet(m))
    PROVE  s \in Seq(FileSet(n))
<1>1. FileSet(m) \subseteq FileSet(n)
  BY DEF FileSet
<1>2. QED
  BY <1>1

LEMMA InitInv == Init => IInv
<1> SUFFICES ASSUME Init PROVE IInv
  OBVIOUS
<1>1. files = <<>> /\ queue = <<>> /\ inodes = <<>> /\ current = 0
  BY DEF Init
<1>2. object \in Objects /\ object.by \in {-1, 0}
  BY FilesAssumption DEF Init, Objects, Missing
<1>3. head \in HeadSet(Len(inodes))
  BY <1>1 DEF Init, HeadSet, NoHead, Objects
<1>4. TreeOK
  <2>1. inodes \in Seq(InodeSet) /\ Len(inodes) <= MaxIno /\ current \in 0 .. Len(inodes)
    BY <1>1, FilesAssumption
  <2>2. fails \in 0 .. MaxFails
    BY FilesAssumption DEF Init
  <2>3. fresh \in BOOLEAN /\ suspect \in BOOLEAN /\ removed \in BOOLEAN /\ ub \in BOOLEAN
    BY DEF Init
  <2>4. QED
    BY <1>1, <1>2, <1>3, <2>1, <2>2, <2>3 DEF TreeOK
<1>5. FilesOK /\ QueueOK
  BY <1>1, FilesAssumption DEF Init, FilesOK, QueueOK
<1>6. SizeInv /\ \A h \in DOMAIN files : FileInv(h)
  BY <1>1 DEF SizeInv
<1>7. HeadOwner
  BY DEF Init, HeadOwner, NoHead
<1>8. QED
  BY <1>2, <1>4, <1>5, <1>6, <1>7 DEF IInv

\* The invariant has the types of TypeOK.
LEMMA TypesOf == IInv => TypeOK
<1> SUFFICES ASSUME IInv PROVE TypeOK
  OBVIOUS
<1>1. DOMAIN inodes = 1 .. Len(inodes)
  BY DEF IInv, TreeOK
<1>2. queue \in Seq({0} \cup {h \in DOMAIN files : files[h].phase = "closed"})
  <2> DEFINE C == {0} \cup {h \in DOMAIN files : files[h].phase = "closed"}
  <2>1. \A i \in 1 .. Len(queue) : queue[i] \in C
    BY DEF IInv, QueueOK
  <2>2. queue = [i \in 1 .. Len(queue) |-> queue[i]] /\ Len(queue) \in Nat
    BY DEF IInv, QueueOK
  <2> HIDE DEF C
  <2>3. queue \in Seq(C)
    BY <2>1, <2>2
  <2>4. QED
    BY <2>3 DEF C
<1>3. QED
  BY <1>1, <1>2 DEF IInv, TreeOK, FilesOK, QueueOK, TypeOK, Objects, InodeSet, HeadSet, FileSet, Pending, ReadSet

-----------------------------------------------------------------------------
(* What a step leaves alone.                                               *)

LEMMA SameFiles ==
    ASSUME IInv, UNCHANGED <<files, queue, dirs, unanswered>>,
           inodes' \in Seq(InodeSet), Len(inodes) <= Len(inodes')
    PROVE  FilesOK' /\ QueueOK'
<1>1. inodes \in Seq(InodeSet)
  BY DEF IInv, TreeOK
<1>2. Len(inodes) \in Nat /\ Len(inodes') \in Nat
  BY <1>1
<1>3. files \in Seq(FileSet(Len(inodes'))) /\ Len(files) <= MaxHandles
  BY <1>2, MoreInodes DEF IInv, FilesOK
<1>4. QED
  BY <1>3 DEF IInv, FilesOK, QueueOK

LEMMA SameFileInvs ==
    ASSUME IInv, UNCHANGED <<object, files>>, current # 0 => current' # 0
    PROVE  object'.by \in {-1, 0} \cup DOMAIN files' /\ \A h \in DOMAIN files' : FileInv(h)'
  BY DEF IInv, FileInv, Unstored, Undisturbed, Exists

LEMMA SameSizeInv ==
    ASSUME IInv, UNCHANGED <<object, files, current, suspect>>,
           current # 0 => inodes'[current].size = inodes[current].size
    PROVE  SizeInv'
  BY DEF IInv, SizeInv, Quiet, Writers, Exists

-----------------------------------------------------------------------------
(* The name.                                                               *)

LEMMA LookupInv ==
    ASSUME IInv, Lookup
    PROVE  IInv'
<1>1. UNCHANGED <<object, inodes, current, fresh, files, queue, dirs, unanswered, fails, suspect, removed, ub>>
  BY DEF Lookup, tree, kernel
<1>2. head' \in HeadSet(Len(inodes))
  BY DEF IInv, TreeOK, Lookup, HeadSet
<1>3. TreeOK'
  BY <1>1, <1>2 DEF IInv, TreeOK
<1>4. inodes' \in Seq(InodeSet) /\ Len(inodes) <= Len(inodes')
  BY <1>1 DEF IInv, TreeOK
<1>5. HeadOwner'
  BY <1>1 DEF Lookup, HeadOwner
<1>6. QED
  BY <1>1, <1>3, <1>4, <1>5, SameFiles, SameFileInvs, SameSizeInv DEF IInv

LEMMA NoHeadTyped == \A m \in Nat : NoHead \in HeadSet(m)
  BY DEF NoHead, HeadSet, Objects

LEMMA NotKnownYet ==
    ASSUME Expire \/ HeadFails \/ ApplyHeadFreed \/ Rest \/ UNCHANGED vars, IInv
    PROVE  IInv'
<1>1. UNCHANGED <<object, inodes, current, files, queue, dirs, unanswered, suspect, removed>>
  BY DEF Expire, HeadFails, ApplyHeadFreed, Rest, tree, kernel, vars
<1>2. inodes \in Seq(InodeSet) /\ Len(inodes) \in Nat
  BY DEF IInv, TreeOK
<1>3. head' = head \/ head' = NoHead
  BY DEF Expire, HeadFails, ApplyHeadFreed, Rest, vars
<1>4. head' \in HeadSet(Len(inodes))
  BY <1>2, <1>3, NoHeadTyped DEF IInv, TreeOK
<1>5. (fresh' = fresh \/ fresh' = FALSE) /\ (ub' = ub \/ ub' = TRUE)
  BY DEF Expire, HeadFails, ApplyHeadFreed, Rest, tree, vars
<1>6. fresh' \in BOOLEAN /\ ub' \in BOOLEAN
  BY <1>5 DEF IInv, TreeOK
<1>7. fails' \in 0 .. MaxFails
  BY FilesAssumption DEF IInv, TreeOK, Expire, HeadFails, ApplyHeadFreed, Rest, vars
<1>8. TreeOK'
  BY <1>1, <1>4, <1>6, <1>7 DEF IInv, TreeOK
<1>9. HeadOwner'
  BY <1>1, <1>3 DEF IInv, HeadOwner, NoHead
<1>10. QED
  BY <1>1, <1>2, <1>8, <1>9, SameFiles, SameFileInvs, SameSizeInv DEF IInv

LEMMA ApplyHeadInv ==
    ASSUME IInv, ApplyHead
    PROVE  IInv'
<1>1. /\ UNCHANGED <<object, current, files, queue, dirs, unanswered, fails, removed, ub>>
      /\ fresh' = TRUE /\ head' = NoHead
  BY DEF ApplyHead, Answered, kernel
<1>2. /\ inodes \in Seq(InodeSet) /\ Len(inodes) \in Nat /\ head.ino \in DOMAIN inodes
      /\ head.seen \in Objects /\ object \in Objects /\ current \in 0 .. Len(inodes)
      /\ current # 0 => ~inodes[current].freed
  BY DEF IInv, TreeOK, HeadSet, ApplyHead
<1>3. PICK size \in IF head.seen # Missing THEN {head.seen.len} ELSE Lengths :
        inodes' = [inodes EXCEPT ![head.ino].size = size]
  BY DEF ApplyHead, Answered
<1>4. size \in Lengths
  BY <1>2, <1>3 DEF Objects
<1> DEFINE e == [inodes[head.ino] EXCEPT !.size = size]
<1>5. e \in InodeSet /\ e.size = size /\ e.freed = inodes[head.ino].freed
  <2>1. inodes[head.ino] \in InodeSet
    BY <1>2
  <2>2. QED
    BY <1>4, <2>1 DEF InodeSet
<1>6. inodes' = [inodes EXCEPT ![head.ino] = e]
  BY <1>3
<1> HIDE DEF e
<1>7. /\ inodes' \in Seq(InodeSet) /\ Len(inodes') = Len(inodes) /\ inodes'[head.ino] = e
      /\ \A j \in DOMAIN inodes : j # head.ino => inodes'[j] = inodes[j]
  BY <1>2, <1>5, <1>6, Changed
<1>8. current # 0 => ~inodes'[current].freed
  BY <1>2, <1>5, <1>7
<1>9. suspect' = (object # head.seen \/ ~Quiet)
  BY DEF ApplyHead
<1>10. TreeOK'
  <2>1. head' \in HeadSet(Len(inodes))
    BY <1>1, <1>2, NoHeadTyped
  <2>2. suspect' \in BOOLEAN
    BY <1>9
  <2>3. QED
    BY <1>1, <1>2, <1>7, <1>8, <2>1, <2>2 DEF IInv, TreeOK
<1>11. SizeInv'
  <2> SUFFICES ASSUME ~suspect', current # 0
               PROVE  /\ Quiet /\ Exists => inodes'[current].size = object.len
                      /\ \A h \in Writers : files[h].ino = current => inodes'[current].size = files[h].acked
    BY <1>1 DEF SizeInv, Quiet, Writers, Exists
  <2>1. object = head.seen /\ Quiet
    BY <1>9
  <2>2. CASE Exists
    <3>1. size = object.len
      BY <1>3, <2>1, <2>2 DEF Exists
    <3>2. current = head.ino
      BY DEF IInv, HeadOwner, ApplyHead
    <3>3. QED
      BY <1>5, <1>7, <2>1, <3>1, <3>2 DEF Quiet
  <2>3. QED
    BY <2>1, <2>2 DEF Quiet
<1>12. HeadOwner'
  BY <1>1 DEF HeadOwner, NoHead
<1>13. QED
  BY <1>1, <1>7, <1>10, <1>11, <1>12, SameFiles, SameFileInvs DEF IInv

\* A new inode of the name.
LEMMA NewInode ==
    ASSUME IInv, NEW size \in Lengths, Len(inodes) < MaxIno
    PROVE  LET m == Append(inodes, Inode(size))
           IN  /\ m \in Seq(InodeSet) /\ Len(m) = Len(inodes) + 1 /\ Len(inodes) \in Nat
               /\ Len(inodes) + 1 \in 1 .. MaxIno
               /\ m[Len(inodes) + 1] = Inode(size)
               /\ \A j \in DOMAIN inodes : m[j] = inodes[j]
<1>1. inodes \in Seq(InodeSet) /\ Inode(size) \in InodeSet
  BY DEF IInv, TreeOK, Inode, InodeSet
<1>2. Len(inodes) \in Nat /\ MaxIno \in Nat
  BY <1>1, FilesAssumption
<1>3. QED
  BY <1>1, <1>2, Added

LEMMA AddFoundInv ==
    ASSUME IInv, AddFound
    PROVE  IInv'
<1>1. /\ UNCHANGED <<object, files, queue, dirs, unanswered, fails, removed, ub>>
      /\ head' = NoHead /\ head.busy /\ head.ino = 0
  BY DEF AddFound, kernel
<1>2. HeadOwner' /\ \A m \in Nat : head' \in HeadSet(m)
  BY <1>1, NoHeadTyped DEF HeadOwner, NoHead
<1>3. CASE head.seen = Missing
  <2>1. UNCHANGED <<inodes, current, fresh, suspect>>
    BY <1>3 DEF AddFound, tree
  <2>2. inodes \in Seq(InodeSet) /\ Len(inodes) \in Nat
    BY DEF IInv, TreeOK
  <2>3. TreeOK'
    BY <1>1, <1>2, <2>1, <2>2 DEF IInv, TreeOK
  <2>4. QED
    BY <1>1, <1>2, <2>1, <2>2, <2>3, SameFiles, SameFileInvs, SameSizeInv DEF IInv
<1>4. CASE head.seen # Missing
  <2>1. /\ inodes' = Append(inodes, Inode(head.seen.len)) /\ current' = Len(inodes) + 1
        /\ fresh' = TRUE /\ suspect' = (object # head.seen \/ ~Quiet)
    BY <1>4 DEF AddFound
  <2>2. head.seen.len \in Lengths
    BY <1>4 DEF IInv, TreeOK, HeadSet, Objects
  <2>3. Len(inodes) < MaxIno
    BY <1>1 DEF IInv, HeadOwner
  <2>4. /\ inodes' \in Seq(InodeSet) /\ Len(inodes') = Len(inodes) + 1 /\ Len(inodes) \in Nat
        /\ Len(inodes) + 1 \in 1 .. MaxIno /\ inodes'[current'] = Inode(head.seen.len)
    BY <2>1, <2>2, <2>3, NewInode
  <2>5. TreeOK'
    <3>1. suspect' \in BOOLEAN /\ ~inodes'[current'].freed
      BY <2>1, <2>4 DEF Inode
    <3>2. QED
      BY <1>1, <1>2, <2>1, <2>4, <3>1 DEF IInv, TreeOK
  <2>6. SizeInv'
    <3> SUFFICES ASSUME ~suspect'
                 PROVE  /\ Quiet /\ Exists => inodes'[current'].size = object.len
                        /\ \A h \in Writers : files[h].ino = current' => inodes'[current'].size = files[h].acked
      BY <1>1 DEF SizeInv, Quiet, Writers, Exists
    <3>1. object = head.seen /\ Quiet
      BY <2>1
    <3>2. QED
      BY <2>4, <3>1 DEF Quiet, Inode
  <2>7. current # 0 => current' # 0
    BY <2>1, <2>4
  <2>8. QED
    BY <1>1, <1>2, <2>4, <2>5, <2>6, <2>7, SameFiles, SameFileInvs DEF IInv
<1>5. QED
  BY <1>3, <1>4

LEMMA FileTyped ==
    ASSUME NEW m \in Nat, NEW ino \in 1 .. m, NEW size \in Lengths, NEW dist \in BOOLEAN
    PROVE  File(ino, size, dist) \in FileSet(m)
  BY FilesAssumption DEF File, FileSet, Pending, NoRead, ReadSet, Lengths

\* A file is opened.
LEMMA AddedFile ==
    ASSUME IInv, Len(files) < MaxHandles, UNCHANGED <<queue, dirs, unanswered>>,
           inodes' \in Seq(InodeSet), Len(inodes) <= Len(inodes'),
           NEW e \in FileSet(Len(inodes')), files' = Append(files, e)
    PROVE  /\ FilesOK' /\ QueueOK'
           /\ DOMAIN files' = DOMAIN files \cup {Len(files) + 1} /\ Len(files) + 1 \notin DOMAIN files
           /\ Len(files) + 1 \in Nat \ {0}
           /\ files'[Len(files) + 1] = e /\ \A h \in DOMAIN files : files'[h] = files[h]
<1>1. inodes \in Seq(InodeSet)
  BY DEF IInv, TreeOK
<1>2. Len(inodes) \in Nat /\ Len(inodes') \in Nat
  BY <1>1
<1>3. files \in Seq(FileSet(Len(inodes)))
  BY DEF IInv, FilesOK
<1>4. files \in Seq(FileSet(Len(inodes')))
  BY <1>2, <1>3, MoreInodes
<1>5. /\ files' \in Seq(FileSet(Len(inodes'))) /\ Len(files') = Len(files) + 1
      /\ DOMAIN files' = DOMAIN files \cup {Len(files) + 1} /\ Len(files) + 1 \notin DOMAIN files
      /\ files'[Len(files) + 1] = e /\ \A h \in DOMAIN files : files'[h] = files[h]
  BY <1>4, Added
<1>6. Len(files) \in Nat /\ MaxHandles \in Nat
  BY <1>3, FilesAssumption
<1>7. FilesOK'
  BY <1>5, <1>6 DEF FilesOK
<1>8. QueueOK'
  <2>1. queue \in Seq({0} \cup DOMAIN files')
    <3>1. queue \in Seq({0} \cup DOMAIN files) /\ {0} \cup DOMAIN files \subseteq {0} \cup DOMAIN files'
      BY <1>5 DEF IInv, QueueOK
    <3>2. QED
      BY <3>1
  <2>2. \A i \in DOMAIN queue : queue[i] # 0 => queue[i] \in DOMAIN files
    BY DEF IInv, QueueOK
  <2>3. QED
    BY <1>5, <2>1, <2>2 DEF IInv, QueueOK
<1>9. QED
  BY <1>5, <1>6, <1>7, <1>8

\* While no file is open, the object may be replaced by one that no handle has
\* put.
LEMMA NoneOpen ==
    ASSUME IInv, UNCHANGED files, \A h \in DOMAIN files : files[h].phase # "open",
           object' = object \/ object'.by \in {-1, 0}
    PROVE  object'.by \in {-1, 0} \cup DOMAIN files' /\ \A h \in DOMAIN files' : FileInv(h)'
<1>1. files \in Seq(FileSet(Len(inodes)))
  BY DEF IInv, FilesOK
<1>2. \A h \in DOMAIN files : h # 0 /\ h # -1
  BY <1>1
<1>3. object'.by \in {-1, 0} \cup DOMAIN files'
  BY DEF IInv
<1>4. ASSUME NEW h \in DOMAIN files PROVE FileInv(h)'
  <2>1. FileInv(h) /\ files'[h] = files[h] /\ files[h].phase # "open"
    BY DEF IInv
  <2>2. Unstored(h)'
    BY <1>2, <2>1 DEF FileInv, Unstored
  <2>3. Undisturbed(h)'
    BY <2>1 DEF FileInv, Undisturbed, NoRead
  <2>4. QED
    BY <2>2, <2>3 DEF FileInv
<1>5. QED
  BY <1>3, <1>4

LEMMA CreateInv ==
    ASSUME IInv, Create
    PROVE  IInv'
<1>1. /\ current = 0 /\ Len(inodes) < MaxIno /\ Len(files) < MaxHandles /\ (head.busy => head.ino # 0)
      /\ object' = [by |-> 0, len |-> 0]
      /\ inodes' = Append(inodes, Inode(0)) /\ current' = Len(inodes) + 1 /\ fresh' = FALSE
      /\ files' = Append(files, File(Len(inodes) + 1, 0, ~Quiet))
      /\ suspect' = FALSE /\ removed' = FALSE
      /\ UNCHANGED <<head, queue, dirs, unanswered, fails, ub>>
  BY DEF Create, DirUnlocked, kernel
<1>2. 0 \in Lengths
  BY FilesAssumption DEF Lengths
<1>3. /\ inodes' \in Seq(InodeSet) /\ Len(inodes') = Len(inodes) + 1 /\ Len(inodes) \in Nat
      /\ Len(inodes) + 1 \in 1 .. MaxIno /\ inodes'[Len(inodes) + 1] = Inode(0)
      /\ \A j \in DOMAIN inodes : inodes'[j] = inodes[j]
  BY <1>1, <1>2, NewInode
<1> DEFINE e == File(Len(inodes) + 1, 0, ~Quiet)
<1>4. e \in FileSet(Len(inodes'))
  <2>1. (~Quiet) \in BOOLEAN /\ Len(inodes') \in Nat /\ Len(inodes) + 1 \in 1 .. Len(inodes')
    BY <1>3
  <2>2. QED
    BY <1>2, <2>1, FileTyped
<1>5. /\ e.acked = 0 /\ e.phase = "open" /\ e.read = NoRead /\ e.stored = FALSE /\ e.size = 0
  BY DEF File
<1> HIDE DEF e
<1>n. PICK new : new = Len(files) + 1
  OBVIOUS
<1>6. /\ FilesOK' /\ QueueOK'
      /\ DOMAIN files' = DOMAIN files \cup {new} /\ new \notin DOMAIN files /\ new \in Nat \ {0}
      /\ files'[new] = e /\ \A h \in DOMAIN files : files'[h] = files[h]
  BY <1>1, <1>3, <1>4, <1>n, AddedFile DEF e
<1>7. inodes \in Seq(InodeSet) /\ head \in HeadSet(Len(inodes)) /\ fails \in 0 .. MaxFails /\ ub \in BOOLEAN
  BY DEF IInv, TreeOK
<1>8. head \in HeadSet(Len(inodes) + 1)
  BY <1>3, <1>7 DEF HeadSet
<1>9. TreeOK'
  <2>1. object' \in Objects
    BY <1>1, <1>2 DEF Objects
  <2>2. current' \in 0 .. Len(inodes') /\ ~inodes'[current'].freed
    BY <1>1, <1>3 DEF Inode
  <2>3. fresh' \in BOOLEAN /\ suspect' \in BOOLEAN /\ removed' \in BOOLEAN
    BY <1>1
  <2>4. QED
    BY <1>1, <1>3, <1>7, <1>8, <2>1, <2>2, <2>3 DEF TreeOK
<1>10. HeadOwner'
  <2> SUFFICES ASSUME head.busy PROVE inodes'[head.ino].freed
    BY <1>1 DEF HeadOwner
  <2>1. head.ino \in DOMAIN inodes /\ inodes[head.ino].freed
    BY <1>1, <1>7 DEF IInv, HeadOwner, HeadSet
  <2>2. QED
    BY <1>3, <2>1
<1>11. object'.by \in {-1, 0} \cup DOMAIN files'
  BY <1>1
<1>12. ASSUME NEW h \in DOMAIN files PROVE FileInv(h)'
  <2>1. FileInv(h) /\ files'[h] = files[h] /\ files[h].phase # "open" /\ h # 0
    BY <1>1, <1>6 DEF IInv, FileInv, Undisturbed, FilesOK
  <2>2. Unstored(h)'
    BY <1>1, <2>1 DEF FileInv, Unstored
  <2>3. Undisturbed(h)'
    BY <2>1 DEF FileInv, Undisturbed, NoRead
  <2>4. QED
    BY <2>2, <2>3 DEF FileInv
<1>13. FileInv(new)'
  <2>1. Exists' /\ current' # 0
    BY <1>1, <1>3 DEF Exists, Missing
  <2>2. object'.by # new /\ object'.len = 0
    BY <1>1, <1>6
  <2>3. Unstored(new)'
    BY <1>5, <1>6, <2>2 DEF Unstored
  <2>4. Undisturbed(new)'
    BY <1>5, <1>6, <2>1, <2>2 DEF Undisturbed, NoRead
  <2>5. QED
    BY <2>3, <2>4 DEF FileInv
<1>14. SizeInv'
  <2>1. \A h \in DOMAIN files : files[h].ino # Len(inodes) + 1
    <3> TAKE h \in DOMAIN files
    <3>1. files[h] \in FileSet(Len(inodes))
      BY DEF IInv, FilesOK
    <3>2. files[h].ino \in 1 .. Len(inodes)
      BY <3>1 DEF FileSet
    <3>3. QED
      BY <1>3, <3>2
  <2>2. \A h \in Writers' : files'[h].ino # current'
    BY <1>1, <1>5, <1>6, <2>1 DEF Writers
  <2>3. inodes'[current'].size = object'.len
    BY <1>1, <1>3 DEF Inode
  <2>4. QED
    BY <2>2, <2>3 DEF SizeInv
<1>15. \A h \in DOMAIN files' : FileInv(h)'
  BY <1>6, <1>12, <1>13
<1>16. QED
  BY <1>6, <1>9, <1>10, <1>11, <1>14, <1>15 DEF IInv

LEMMA CreateFailsInv ==
    ASSUME IInv, CreateFails
    PROVE  IInv'
<1>1. /\ current = 0 /\ object' \in {object, [by |-> 0, len |-> 0]}
      /\ fails < MaxFails /\ fails' = fails + 1
      /\ UNCHANGED <<inodes, current, fresh, head, files, queue, dirs, unanswered, suspect, removed, ub>>
  BY DEF CreateFails, tree, kernel
<1>2. \A h \in DOMAIN files : files[h].phase # "open"
  BY <1>1 DEF IInv, FileInv, Undisturbed
<1>3. inodes' \in Seq(InodeSet) /\ Len(inodes) <= Len(inodes')
  BY <1>1 DEF IInv, TreeOK
<1>4. object' \in Objects /\ fails' \in 0 .. MaxFails
  BY <1>1, FilesAssumption DEF IInv, TreeOK, Objects, Lengths
<1>5. TreeOK'
  BY <1>1, <1>4 DEF IInv, TreeOK
<1>6. HeadOwner'
  BY <1>1 DEF IInv, HeadOwner
<1>7. SizeInv'
  BY <1>1 DEF SizeInv
<1>8. object' = object \/ object'.by \in {-1, 0}
  BY <1>1
<1>9. QED
  BY <1>1, <1>2, <1>3, <1>5, <1>6, <1>7, <1>8, SameFiles, NoneOpen DEF IInv

LEMMA UnlinkInv ==
    ASSUME IInv, Unlink
    PROVE  IInv'
<1>1. /\ MayUnlink /\ current # 0 /\ (head.busy => head.ino # 0)
      /\ object' = Missing /\ inodes' = [inodes EXCEPT ![current].freed = TRUE]
      /\ current' = 0 /\ fresh' = FALSE /\ removed' = TRUE
      /\ UNCHANGED <<head, files, queue, dirs, unanswered, fails, suspect, ub>>
  BY DEF Unlink, MayUnlink, DirUnlocked, kernel
<1>2. \A h \in DOMAIN files : files[h].phase # "open"
  BY <1>1 DEF MayUnlink
<1>3. inodes \in Seq(InodeSet) /\ current \in DOMAIN inodes
  BY <1>1 DEF IInv, TreeOK
<1> DEFINE e == [inodes[current] EXCEPT !.freed = TRUE]
<1>4. e \in InodeSet /\ e.freed
  <2>1. inodes[current] \in InodeSet
    BY <1>3
  <2>2. QED
    BY <2>1 DEF InodeSet
<1>5. inodes' = [inodes EXCEPT ![current] = e]
  BY <1>1
<1> HIDE DEF e
<1>6. /\ inodes' \in Seq(InodeSet) /\ Len(inodes') = Len(inodes) /\ inodes'[current] = e
      /\ \A j \in DOMAIN inodes : j # current => inodes'[j] = inodes[j]
  BY <1>3, <1>4, <1>5, Changed
<1>7. Len(inodes) \in Nat
  BY <1>3
<1>8. TreeOK'
  <2>1. object' \in Objects
    BY <1>1 DEF Objects
  <2>3. fresh' \in BOOLEAN /\ removed' \in BOOLEAN
    BY <1>1
  <2>4. current' \in 0 .. Len(inodes')
    BY <1>1, <1>6, <1>7
  <2>2. head \in HeadSet(Len(inodes)) /\ suspect \in BOOLEAN /\ ub \in BOOLEAN /\ fails \in 0 .. MaxFails
        /\ Len(inodes) <= MaxIno
    BY DEF IInv, TreeOK
  <2>5. QED
    BY <1>1, <1>6, <2>1, <2>2, <2>3, <2>4 DEF TreeOK
<1>9. HeadOwner'
  <2> SUFFICES ASSUME head.busy PROVE inodes'[head.ino].freed
    BY <1>1 DEF HeadOwner
  <2>1. head.ino \in DOMAIN inodes
    BY <1>1 DEF IInv, TreeOK, HeadSet
  <2>2. QED
    BY <1>1, <1>4, <1>6, <2>1 DEF IInv, HeadOwner
<1>10. SizeInv'
  BY <1>1 DEF SizeInv
<1>11. object'.by \in {-1, 0}
  BY <1>1 DEF Missing
<1>12. QED
  BY <1>1, <1>2, <1>6, <1>7, <1>8, <1>9, <1>10, <1>11, SameFiles, NoneOpen DEF IInv

LEMMA UnlinkFailsInv ==
    ASSUME IInv, UnlinkFails
    PROVE  IInv'
<1>1. /\ object' \in {object, Missing} /\ MayUnlink
      /\ fails < MaxFails /\ fails' = fails + 1
      /\ UNCHANGED <<inodes, current, fresh, head, files, queue, dirs, unanswered, suspect, removed, ub>>
  BY DEF UnlinkFails, tree, kernel
<1>2. \A h \in DOMAIN files : files[h].phase # "open"
  BY <1>1 DEF MayUnlink
<1>3. inodes' \in Seq(InodeSet) /\ Len(inodes) <= Len(inodes')
  BY <1>1 DEF IInv, TreeOK
<1>4. object' \in Objects /\ fails' \in 0 .. MaxFails
  BY <1>1, FilesAssumption DEF IInv, TreeOK, Objects
<1>5. TreeOK' /\ HeadOwner'
  BY <1>1, <1>4 DEF IInv, TreeOK, HeadOwner
<1>6. SizeInv'
  <2>1. Exists' => object' = object
    BY <1>1 DEF Exists
  <2>2. QED
    BY <1>1, <2>1 DEF IInv, SizeInv, Quiet, Writers, Exists
<1>7. object' = object \/ object'.by \in {-1, 0}
  BY <1>1 DEF Missing
<1>8. QED
  BY <1>1, <1>2, <1>3, <1>5, <1>6, <1>7, SameFiles, NoneOpen DEF IInv

-----------------------------------------------------------------------------
(* Handles.                                                                *)

LEMMA FileFacts ==
    ASSUME IInv, NEW h \in DOMAIN files
    PROVE  /\ files[h] \in FileSet(Len(inodes)) /\ h \in Handles /\ h \in Nat
           /\ files[h].ino \in DOMAIN inodes /\ files[h].ino \in 1 .. Len(inodes)
           /\ files[h].size \in Lengths /\ files[h].acked \in Lengths
           /\ files[h].read \in ReadSet /\ files[h].disturbed \in BOOLEAN
           /\ FileInv(h)
<1>1. files \in Seq(FileSet(Len(inodes))) /\ Len(files) <= MaxHandles
  BY DEF IInv, FilesOK
<1>2. files[h] \in FileSet(Len(inodes)) /\ h \in 1 .. Len(files) /\ Len(files) \in Nat
  BY <1>1
<1>3. h \in Handles /\ h \in Nat
  BY <1>1, <1>2, FilesAssumption DEF Handles
<1>4. inodes \in Seq(InodeSet)
  BY DEF IInv, TreeOK
<1>5. DOMAIN inodes = 1 .. Len(inodes)
  BY <1>4
<1>6. /\ files[h].ino \in 1 .. Len(inodes) /\ files[h].size \in Lengths /\ files[h].acked \in Lengths
      /\ files[h].read \in ReadSet /\ files[h].disturbed \in BOOLEAN
  BY <1>2 DEF FileSet
<1>7. FileInv(h)
  BY DEF IInv
<1>8. QED
  BY <1>2, <1>3, <1>5, <1>6, <1>7

\* A step of one handle.
LEMMA OneFile ==
    ASSUME IInv, NEW h \in DOMAIN files, NEW e \in FileSet(Len(inodes)), files' = [files EXCEPT ![h] = e],
           Len(inodes') = Len(inodes)
    PROVE  /\ FilesOK' /\ DOMAIN files' = DOMAIN files /\ files'[h] = e
           /\ \A g \in DOMAIN files : g # h => files'[g] = files[g]
<1>1. files \in Seq(FileSet(Len(inodes))) /\ Len(files) <= MaxHandles
  BY DEF IInv, FilesOK
<1>2. /\ files' \in Seq(FileSet(Len(inodes))) /\ Len(files') = Len(files)
      /\ DOMAIN files' = DOMAIN files /\ files'[h] = e
      /\ \A g \in DOMAIN files : g # h => files'[g] = files[g]
  BY <1>1, Changed
<1>3. QED
  BY <1>1, <1>2 DEF FilesOK

LEMMA SameQueue ==
    ASSUME IInv, UNCHANGED <<queue, dirs, unanswered>>, DOMAIN files' = DOMAIN files,
           \A g \in DOMAIN files : files[g].phase = "closed" => files'[g].phase = "closed"
    PROVE  QueueOK'
<1>1. \A i \in DOMAIN queue : queue[i] # 0 => queue[i] \in DOMAIN files
  BY DEF IInv, QueueOK
<1>2. QED
  BY <1>1 DEF IInv, QueueOK

LEMMA OtherFileInv ==
    ASSUME IInv, UNCHANGED <<object, current>>, NEW g \in DOMAIN files, files'[g] = files[g]
    PROVE  FileInv(g)'
  BY DEF IInv, FileInv, Unstored, Undisturbed, Exists

\* A step of one handle that leaves the name alone.
LEMMA OnlyFiles ==
    ASSUME IInv, NEW h \in DOMAIN files, NEW e \in FileSet(Len(inodes)), files' = [files EXCEPT ![h] = e],
           UNCHANGED <<object, inodes, current, fresh, head, suspect, removed, ub>>, fails' \in 0 .. MaxFails,
           QueueOK', FileInv(h)',
           e.acked = files[h].acked, e.ino = files[h].ino,
           e.phase \in Pending, files[h].phase \in Pending
    PROVE  IInv'
<1>1. /\ FilesOK' /\ DOMAIN files' = DOMAIN files /\ files'[h] = e
      /\ \A g \in DOMAIN files : g # h => files'[g] = files[g]
  BY OneFile
<1>2. \A g \in DOMAIN files' : FileInv(g)'
  BY <1>1, OtherFileInv
<1>3. Writers' = Writers
  BY <1>1 DEF Writers, Pending
<1>4. \A g \in Writers : files'[g].ino = files[g].ino /\ files'[g].acked = files[g].acked
  BY <1>1 DEF Writers
<1>5. SizeInv'
  BY <1>3, <1>4 DEF IInv, SizeInv, Quiet, Exists
<1>6. TreeOK' /\ HeadOwner'
  BY DEF IInv, TreeOK, HeadOwner
<1>7. object'.by \in {-1, 0} \cup DOMAIN files'
  BY <1>1 DEF IInv
<1>8. QED
  BY <1>1, <1>2, <1>5, <1>6, <1>7 DEF IInv

\* A read that begins, ends or fails.
LEMMA ReadChanges ==
    ASSUME IInv, NEW h \in DOMAIN files, files[h].phase = "open", NEW r \in ReadSet,
           files' = [files EXCEPT ![h].read = r],
           UNCHANGED <<object, inodes, current, fresh, head, queue, dirs, unanswered, suspect, removed, ub>>,
           fails' \in 0 .. MaxFails,
           r.st = "asked" => r.off < files[h].size /\ r.off + r.n = files[h].size,
           ~files[h].disturbed =>
              r.st # "refused" /\ (r.st = "done" /\ r.off <= files[h].size => r.off + r.n = files[h].size)
    PROVE  IInv'
<1> DEFINE e == [files[h] EXCEPT !.read = r]
<1>1. files[h] \in FileSet(Len(inodes)) /\ FileInv(h)
  BY FileFacts
<1>2. e \in FileSet(Len(inodes))
  BY <1>1 DEF FileSet
<1>3. /\ e.acked = files[h].acked /\ e.ino = files[h].ino /\ e.phase = "open" /\ e.read = r
      /\ e.size = files[h].size /\ e.stored = files[h].stored /\ e.disturbed = files[h].disturbed
  BY <1>1 DEF FileSet
<1>4. files' = [files EXCEPT ![h] = e]
  OBVIOUS
<1> HIDE DEF e
<1>5. /\ DOMAIN files' = DOMAIN files /\ files'[h] = e
      /\ \A g \in DOMAIN files : g # h => files'[g] = files[g]
  BY <1>2, <1>4, OneFile
<1>6. QueueOK'
  BY <1>3, <1>5, SameQueue
<1>7. FileInv(h)'
  <2>1. Unstored(h)'
    BY <1>1, <1>3, <1>5 DEF FileInv, Unstored
  <2>2. Undisturbed(h)'
    BY <1>1, <1>3, <1>5 DEF FileInv, Undisturbed, Exists
  <2>3. QED
    BY <2>1, <2>2 DEF FileInv
<1>8. e.phase \in Pending /\ files[h].phase \in Pending
  BY <1>3 DEF Pending
<1>9. QED
  BY <1>2, <1>3, <1>4, <1>6, <1>7, <1>8, OnlyFiles

LEMMA ReadInv ==
    ASSUME IInv, NEW h \in DOMAIN files, Read(h)
    PROVE  IInv'
<1>1. files[h].phase = "open" /\ files[h].size \in 0 .. MaxLen /\ MaxLen \in Nat
  BY FileFacts, FilesAssumption DEF Read, Open, Lengths
<1>2. UNCHANGED <<object, inodes, current, fresh, head, queue, dirs, unanswered, fails, suspect, removed, ub>>
  BY DEF Read, tree, kernel
<1>3. PICK off \in 0 .. MaxLen - 1 :
        files' = [files EXCEPT ![h].read =
                     IF off >= files[h].size THEN [st |-> "done", off |-> off, n |-> 0]
                     ELSE [st |-> "asked", off |-> off, n |-> Least(MaxLen, files[h].size - off)]]
  BY DEF Read
<1>4. fails' \in 0 .. MaxFails
  BY <1>2 DEF IInv, TreeOK
<1>5. CASE off >= files[h].size
  <2> DEFINE r == [st |-> "done", off |-> off, n |-> 0]
  <2>1. r \in ReadSet
    BY <1>1 DEF ReadSet, Lengths
  <2>2. files' = [files EXCEPT ![h].read = r]
    BY <1>3, <1>5
  <2>3. r.st = "done" /\ (r.off <= files[h].size => r.off + r.n = files[h].size)
    BY <1>1, <1>5
  <2> HIDE DEF r
  <2>4. QED
    BY <1>1, <1>2, <1>4, <2>1, <2>2, <2>3, ReadChanges
<1>6. CASE off < files[h].size
  <2> DEFINE r == [st |-> "asked", off |-> off, n |-> files[h].size - off]
  <2>1. r \in ReadSet
    BY <1>1, <1>6 DEF ReadSet, Lengths
  <2>2. Least(MaxLen, files[h].size - off) = files[h].size - off
    BY <1>1, <1>6 DEF Least
  <2>3. files' = [files EXCEPT ![h].read = r]
    <3>1. ~(off >= files[h].size)
      BY <1>1, <1>6
    <3>2. QED
      BY <1>3, <2>2, <3>1
  <2>4. r.st = "asked" /\ r.off < files[h].size /\ r.off + r.n = files[h].size
    BY <1>1, <1>6
  <2> HIDE DEF r
  <2>5. QED
    BY <1>1, <1>2, <1>4, <2>1, <2>3, <2>4, ReadChanges
<1>7. QED
  BY <1>1, <1>5, <1>6

LEMMA ReadReturnsInv ==
    ASSUME IInv, NEW h \in DOMAIN files, ReadReturns(h)
    PROVE  IInv'
<1>1. files[h].phase = "open" /\ files[h].read.st = "asked"
  BY DEF ReadReturns, Get, GetFails, Open
<1>2. UNCHANGED <<object, inodes, current, fresh, head, queue, dirs, unanswered, suspect, removed, ub>>
  BY DEF ReadReturns, Get, GetFails, tree, kernel
<1>3. fails' \in 0 .. MaxFails
  BY FilesAssumption DEF IInv, TreeOK, ReadReturns, Get, GetFails
<1>4. files[h].read \in ReadSet /\ FileInv(h) /\ files[h].size \in 0 .. MaxLen
  BY FileFacts DEF Lengths
<1>5. files[h].read.off \in 0 .. MaxLen /\ files[h].read.n \in 0 .. MaxLen /\ MaxLen \in Nat
  BY <1>4, FilesAssumption DEF ReadSet, Lengths
<1>6. object.len \in 0 .. MaxLen
  BY <1>5 DEF IInv, TreeOK, Objects, Missing, Lengths
<1>7. ~files[h].disturbed => /\ files[h].read.off < files[h].size /\ files[h].size = object.len
                             /\ files[h].read.off + files[h].read.n = files[h].size
  BY <1>1, <1>4 DEF FileInv, Undisturbed
<1>8. CASE GetFails(h)
  <2>1. NoRead \in ReadSet /\ NoRead.st = "none"
    BY <1>5 DEF NoRead, ReadSet, Lengths
  <2>2. files' = [files EXCEPT ![h].read = NoRead]
    BY <1>8 DEF GetFails
  <2>3. QED
    BY <1>1, <1>2, <1>3, <2>1, <2>2, ReadChanges
<1>9. CASE Get(h) /\ files[h].read.off >= object.len
  <2> DEFINE r == [files[h].read EXCEPT !.st = "refused", !.n = 0]
  <2>1. r \in ReadSet /\ r.st = "refused"
    <3>1. 0 \in Lengths
      BY <1>5 DEF Lengths
    <3>2. QED
      BY <1>4, <3>1 DEF ReadSet
  <2>2. files' = [files EXCEPT ![h].read = r]
    BY <1>9 DEF Get
  <2>3. files[h].disturbed
    BY <1>5, <1>6, <1>7, <1>9
  <2> HIDE DEF r
  <2>4. QED
    BY <1>1, <1>2, <1>3, <2>1, <2>2, <2>3, ReadChanges
<1>10. CASE Get(h) /\ ~(files[h].read.off >= object.len)
  <2> DEFINE n == Least(files[h].read.n, object.len - files[h].read.off)
             r == [files[h].read EXCEPT !.st = "done", !.n = n]
  <2>1. n \in 0 .. MaxLen
    BY <1>5, <1>6, <1>10 DEF Least
  <2>2. ~files[h].disturbed => n = files[h].read.n
    BY <1>4, <1>5, <1>6, <1>7 DEF Least
  <2>3. files' = [files EXCEPT ![h].read = r]
    BY <1>10 DEF Get
  <2> HIDE DEF n
  <2>4. r \in ReadSet /\ r.st = "done" /\ r.off = files[h].read.off /\ r.n = n
    BY <1>4, <2>1 DEF ReadSet, Lengths
  <2> HIDE DEF r
  <2>5. QED
    BY <1>1, <1>2, <1>3, <1>7, <2>2, <2>3, <2>4, ReadChanges
<1>11. QED
  BY <1>8, <1>9, <1>10 DEF ReadReturns

LEMMA OpenFileInv ==
    ASSUME IInv, OpenFile
    PROVE  IInv'
<1>1. /\ current # 0 /\ Len(files) < MaxHandles
      /\ files' = Append(files, File(current, inodes[current].size, suspect \/ ~Quiet \/ ~Exists))
      /\ UNCHANGED <<object, inodes, current, fresh, head, queue, dirs, unanswered, fails, suspect, removed, ub>>
  BY DEF OpenFile, tree, kernel
<1>2. inodes \in Seq(InodeSet) /\ Len(inodes) \in Nat /\ current \in 1 .. Len(inodes)
  BY <1>1 DEF IInv, TreeOK
<1>3. inodes[current].size \in Lengths
  <2>1. inodes[current] \in InodeSet
    BY <1>2
  <2>2. QED
    BY <2>1 DEF InodeSet
<1> DEFINE dist == suspect \/ ~Quiet \/ ~Exists
           e == File(current, inodes[current].size, dist)
<1>4. e \in FileSet(Len(inodes'))
  <2>1. dist \in BOOLEAN
    OBVIOUS
  <2> HIDE DEF dist
  <2>2. QED
    BY <1>1, <1>2, <1>3, <2>1, FileTyped
<1>5. /\ e.acked = 0 /\ e.phase = "open" /\ e.read = NoRead /\ e.stored = FALSE
      /\ e.size = inodes[current].size /\ e.disturbed = dist
  BY DEF File
<1> HIDE DEF e
<1>n. PICK new : new = Len(files) + 1
  OBVIOUS
<1>6. /\ FilesOK' /\ QueueOK'
      /\ DOMAIN files' = DOMAIN files \cup {new} /\ new \notin DOMAIN files /\ new \in Nat \ {0}
      /\ files'[new] = e /\ \A h \in DOMAIN files : files'[h] = files[h]
  <2>1. inodes' \in Seq(InodeSet) /\ Len(inodes) <= Len(inodes')
    BY <1>1, <1>2
  <2>2. QED
    BY <1>1, <1>4, <1>n, <2>1, AddedFile DEF e
<1>7. TreeOK' /\ HeadOwner'
  BY <1>1 DEF IInv, TreeOK, HeadOwner
<1>8. object'.by \in {-1, 0} \cup DOMAIN files' /\ object'.by # new
  BY <1>1, <1>6 DEF IInv
<1>9. ASSUME NEW h \in DOMAIN files PROVE FileInv(h)'
  BY <1>1, <1>6, OtherFileInv
<1>10. FileInv(new)'
  <2>1. Unstored(new)'
    BY <1>5, <1>6, <1>8 DEF Unstored
  <2>2. ~dist => Exists /\ e.size = object.len
    BY <1>1, <1>5 DEF IInv, SizeInv
  <2>3. ~e.disturbed => Exists' /\ e.size = object'.len
    BY <1>1, <1>5, <2>2 DEF Exists
  <2>4. e.read.st = "none" /\ current' # 0
    BY <1>1, <1>5 DEF NoRead
  <2>5. Undisturbed(new)'
    BY <1>5, <1>6, <2>3, <2>4 DEF Undisturbed
  <2>6. QED
    BY <2>1, <2>5 DEF FileInv
<1>11. Writers' = Writers
  BY <1>5, <1>6 DEF Writers
<1>12. \A h \in Writers : files'[h] = files[h]
  BY <1>6 DEF Writers
<1>13. SizeInv'
  BY <1>1, <1>11, <1>12 DEF IInv, SizeInv, Quiet, Exists
<1>14. \A h \in DOMAIN files' : FileInv(h)'
  BY <1>6, <1>9, <1>10
<1>15. QED
  BY <1>6, <1>7, <1>8, <1>13, <1>14 DEF IInv

LEMMA WriteInv ==
    ASSUME IInv, NEW h \in DOMAIN files, Write(h)
    PROVE  IInv'
<1>1. /\ files[h].phase = "open" /\ suspect' = (Writers \ {h} # {})
      /\ UNCHANGED <<object, current, fresh, head, queue, dirs, unanswered, fails, removed, ub>>
  BY DEF Write, Open, kernel
<1>2. PICK n \in files[h].acked + 1 .. MaxLen :
        /\ files' = [files EXCEPT ![h].acked = n, ![h].size = n, ![h].disturbed = TRUE]
        /\ inodes' = [inodes EXCEPT ![files[h].ino].size = n]
  BY DEF Write
<1>3. /\ files[h] \in FileSet(Len(inodes)) /\ FileInv(h) /\ files[h].ino \in DOMAIN inodes
      /\ inodes \in Seq(InodeSet) /\ files[h].acked \in Lengths
  BY FileFacts DEF IInv, TreeOK
<1>4. n \in Lengths /\ n > 0
  BY <1>2, <1>3, FilesAssumption DEF Lengths
<1> DEFINE e == [files[h] EXCEPT !.acked = n, !.size = n, !.disturbed = TRUE]
           d == [inodes[files[h].ino] EXCEPT !.size = n]
<1>5. e \in FileSet(Len(inodes))
  BY <1>3, <1>4 DEF FileSet
<1>6. /\ e.acked = n /\ e.ino = files[h].ino /\ e.phase = "open" /\ e.read = files[h].read
      /\ e.stored = files[h].stored /\ e.disturbed
  BY <1>1, <1>3 DEF FileSet
<1>7. d \in InodeSet /\ d.size = n /\ d.freed = inodes[files[h].ino].freed
  <2>1. inodes[files[h].ino] \in InodeSet
    BY <1>3
  <2>2. QED
    BY <1>4, <2>1 DEF InodeSet
<1>8. files' = [files EXCEPT ![h] = e] /\ inodes' = [inodes EXCEPT ![files[h].ino] = d]
  BY <1>2
<1> HIDE DEF e, d
<1>9. /\ inodes' \in Seq(InodeSet) /\ Len(inodes') = Len(inodes) /\ inodes'[files[h].ino] = d
      /\ \A j \in DOMAIN inodes : j # files[h].ino => inodes'[j] = inodes[j]
  BY <1>3, <1>7, <1>8, Changed
<1>10. /\ FilesOK' /\ DOMAIN files' = DOMAIN files /\ files'[h] = e
       /\ \A g \in DOMAIN files : g # h => files'[g] = files[g]
  BY <1>5, <1>8, <1>9, OneFile
<1>11. \A j \in DOMAIN inodes : inodes'[j].freed = inodes[j].freed
  BY <1>7, <1>9
<1>12. current \in 0 .. Len(inodes) /\ head.ino \in 0 .. Len(inodes) /\ DOMAIN inodes = 1 .. Len(inodes)
  BY <1>3 DEF IInv, TreeOK, HeadSet
<1>13. TreeOK'
  <2>1. suspect' \in BOOLEAN
    BY <1>1
  <2>2. current # 0 => ~inodes'[current].freed
    BY <1>11, <1>12 DEF IInv, TreeOK
  <2>3. QED
    BY <1>1, <1>9, <2>1, <2>2 DEF IInv, TreeOK
<1>14. HeadOwner'
  BY <1>1, <1>9, <1>11, <1>12 DEF IInv, HeadOwner
<1>15. QueueOK'
  BY <1>1, <1>6, <1>10, SameQueue
<1>16. FileInv(h)'
  <2>1. Unstored(h)'
    BY <1>1, <1>3, <1>6, <1>10 DEF FileInv, Unstored
  <2>2. Undisturbed(h)'
    BY <1>1, <1>3, <1>6, <1>10 DEF FileInv, Undisturbed
  <2>3. QED
    BY <2>1, <2>2 DEF FileInv
<1>17. \A g \in DOMAIN files' : FileInv(g)'
  BY <1>1, <1>10, <1>16, OtherFileInv
<1>18. SizeInv'
  <2> SUFFICES ASSUME ~suspect', current # 0
               PROVE  /\ ~Quiet'
                      /\ \A g \in Writers' : files'[g].ino = current => inodes'[current].size = files'[g].acked
    BY <1>1 DEF SizeInv
  <2>1. h \in Writers'
    BY <1>4, <1>6, <1>10 DEF Writers
  <2>2. \A g \in Writers' : g = h
    BY <1>1, <1>10 DEF Writers
  <2>3. QED
    BY <1>6, <1>7, <1>9, <1>10, <2>1, <2>2 DEF Quiet
<1>19. object'.by \in {-1, 0} \cup DOMAIN files'
  BY <1>1, <1>10 DEF IInv
<1>20. QED
  BY <1>10, <1>13, <1>14, <1>15, <1>17, <1>18, <1>19 DEF IInv

\* Requests of the kernel's queue.
LEMMA CloseInv ==
    ASSUME IInv, NEW h \in DOMAIN files, Close(h)
    PROVE  IInv'
<1>1. /\ files[h].phase = "open"
      /\ files' = [files EXCEPT ![h].phase = "closed", ![h].read = NoRead]
      /\ queue' = Append(queue, h)
      /\ UNCHANGED <<object, inodes, current, fresh, head, dirs, unanswered, fails, suspect, removed, ub>>
  BY DEF Close, Open, tree
<1>2. files[h] \in FileSet(Len(inodes)) /\ FileInv(h) /\ h \in Nat /\ h \in Handles
  BY FileFacts
<1> DEFINE e == [files[h] EXCEPT !.phase = "closed", !.read = NoRead]
<1>3. e \in FileSet(Len(inodes))
  <2>1. NoRead \in ReadSet
    BY FilesAssumption DEF NoRead, ReadSet, Lengths
  <2>2. QED
    BY <1>2, <2>1 DEF FileSet, Pending
<1>4. /\ e.acked = files[h].acked /\ e.ino = files[h].ino /\ e.phase = "closed" /\ e.read = NoRead
      /\ e.stored = files[h].stored
  BY <1>2 DEF FileSet
<1>5. files' = [files EXCEPT ![h] = e]
  BY <1>1
<1> HIDE DEF e
<1>6. /\ DOMAIN files' = DOMAIN files /\ files'[h] = e
      /\ \A g \in DOMAIN files : g # h => files'[g] = files[g]
  BY <1>1, <1>3, <1>5, OneFile
<1>7. QueueOK'
  <2>1. queue \in Seq({0} \cup DOMAIN files)
    BY DEF IInv, QueueOK
  <2>2. /\ queue' \in Seq({0} \cup DOMAIN files)
        /\ DOMAIN queue' = DOMAIN queue \cup {Len(queue) + 1} /\ Len(queue) + 1 \notin DOMAIN queue
        /\ queue'[Len(queue) + 1] = h /\ \A i \in DOMAIN queue : queue'[i] = queue[i]
    BY <1>1, <2>1, Added
  <2>3. \A i \in DOMAIN queue : queue[i] # h /\ (queue[i] # 0 => queue[i] \in DOMAIN files)
    BY <1>1, <1>2, <2>1 DEF IInv, QueueOK, Handles
  <2>4. \A i \in DOMAIN queue' : queue'[i] # 0 => files'[queue'[i]].phase = "closed"
    BY <1>4, <1>6, <2>2, <2>3 DEF IInv, QueueOK
  <2>5. \A i, j \in DOMAIN queue' : queue'[i] = queue'[j] /\ queue'[i] # 0 => i = j
    BY <2>2, <2>3 DEF IInv, QueueOK
  <2>6. QED
    BY <1>1, <1>6, <2>2, <2>4, <2>5 DEF IInv, QueueOK
<1>8. FileInv(h)'
  <2>1. Unstored(h)'
    BY <1>1, <1>2, <1>4, <1>6 DEF FileInv, Unstored, Pending
  <2>2. Undisturbed(h)'
    BY <1>4, <1>6 DEF Undisturbed
  <2>3. QED
    BY <2>1, <2>2 DEF FileInv
<1>9. e.phase \in Pending /\ files[h].phase \in Pending /\ fails' \in 0 .. MaxFails
  BY <1>1, <1>4 DEF Pending, IInv, TreeOK
<1>10. QED
  BY <1>1, <1>3, <1>4, <1>5, <1>7, <1>8, <1>9, OnlyFiles

LEMMA CloseDirInv ==
    ASSUME IInv, CloseDir
    PROVE  IInv'
<1>1. /\ dirs < MaxDirs /\ dirs' = dirs + 1 /\ queue' = Append(queue, 0)
      /\ UNCHANGED <<object, inodes, current, fresh, head, files, unanswered, fails, suspect, removed, ub>>
  BY DEF CloseDir, tree
<1>2. queue \in Seq({0} \cup DOMAIN files)
  BY DEF IInv, QueueOK
<1>3. /\ queue' \in Seq({0} \cup DOMAIN files)
      /\ DOMAIN queue' = DOMAIN queue \cup {Len(queue) + 1}
      /\ queue'[Len(queue) + 1] = 0 /\ \A i \in DOMAIN queue : queue'[i] = queue[i]
  BY <1>1, <1>2, Added
<1>4. dirs' \in 0 .. MaxDirs
  BY <1>1, FilesAssumption DEF IInv, QueueOK
<1>5. QueueOK'
  BY <1>1, <1>3, <1>4 DEF IInv, QueueOK
<1>6. TreeOK' /\ FilesOK' /\ HeadOwner'
  BY <1>1 DEF IInv, TreeOK, FilesOK, HeadOwner
<1>7. QED
  BY <1>1, <1>5, <1>6, SameFileInvs, SameSizeInv DEF IInv

\* The request at the front of the queue is sent.
LEMMA Sent ==
    ASSUME NEW T, NEW s \in Seq(T), s # <<>>
    PROVE  /\ Tail(s) \in Seq(T) /\ Head(s) = s[1] /\ 1 \in DOMAIN s
           /\ \A i \in DOMAIN Tail(s) : i + 1 \in DOMAIN s /\ i + 1 # 1 /\ Tail(s)[i] = s[i + 1]
<1>1. Len(s) \in Nat /\ DOMAIN s = 1 .. Len(s) /\ Len(s) # 0
  OBVIOUS
<1>2. Tail(s) \in Seq(T) /\ Len(Tail(s)) = Len(s) - 1 /\ Head(s) = s[1]
  OBVIOUS
<1>3. DOMAIN Tail(s) = 1 .. Len(s) - 1
  BY <1>2
<1>4. \A i \in 1 .. Len(s) - 1 : Tail(s)[i] = s[i + 1]
  BY <1>1
<1>5. QED
  BY <1>1, <1>2, <1>3, <1>4

LEMMA SendInv ==
    ASSUME IInv, Send
    PROVE  IInv'
<1>1. /\ queue # <<>> /\ unanswered + Cardinality(Releasing) < MaxBackground /\ queue' = Tail(queue)
      /\ UNCHANGED <<object, inodes, current, fresh, head, dirs, fails, suspect, removed, ub>>
  BY DEF Send, tree
<1>2. queue \in Seq({0} \cup DOMAIN files)
  BY DEF IInv, QueueOK
<1>3. /\ queue' \in Seq({0} \cup DOMAIN files) /\ Head(queue) = queue[1] /\ 1 \in DOMAIN queue
      /\ \A i \in DOMAIN queue' : i + 1 \in DOMAIN queue /\ i + 1 # 1 /\ queue'[i] = queue[i + 1]
  BY <1>1, <1>2, Sent
<1>4. \A i, j \in DOMAIN queue' : i + 1 = j + 1 => i = j
  BY <1>3
<1>5. \A i, j \in DOMAIN queue' : queue'[i] = queue'[j] /\ queue'[i] # 0 => i = j
  BY <1>3, <1>4 DEF IInv, QueueOK
<1>6. CASE Head(queue) = 0
  <2>1. files' = files /\ unanswered' = unanswered + 1
    BY <1>6 DEF Send
  <2>2. unanswered' \in 0 .. MaxBackground
    <3>1. Releasing \subseteq Handles
      BY FileFacts DEF Releasing
    <3>2. Cardinality(Releasing) \in Nat
      <4>1. IsFiniteSet(Handles)
        BY FilesAssumption, FS_Interval DEF Handles
      <4>2. IsFiniteSet(Releasing)
        BY <3>1, <4>1, FS_Subset
      <4>3. QED
        BY <4>2, FS_CardinalityType
    <3>3. QED
      BY <1>1, <2>1, <3>2, FilesAssumption DEF IInv, QueueOK
  <2>3. QueueOK'
    BY <1>1, <1>3, <1>5, <2>1, <2>2 DEF IInv, QueueOK
  <2>4. TreeOK' /\ FilesOK' /\ HeadOwner'
    BY <1>1, <2>1 DEF IInv, TreeOK, FilesOK, HeadOwner
  <2>5. QED
    BY <1>1, <2>1, <2>3, <2>4, SameFileInvs, SameSizeInv DEF IInv
<1>7. CASE Head(queue) # 0
  <2>0. PICK h \in DOMAIN files : h = Head(queue) /\ h # 0
    BY <1>2, <1>3, <1>7
  <2>1. files' = [files EXCEPT ![h].phase = "releasing"] /\ unanswered' = unanswered
    BY <1>7, <2>0 DEF Send
  <2>2. files[h] \in FileSet(Len(inodes)) /\ FileInv(h) /\ files[h].phase = "closed"
    BY <1>3, <2>0, FileFacts DEF IInv, QueueOK
  <2> DEFINE e == [files[h] EXCEPT !.phase = "releasing"]
  <2>3. e \in FileSet(Len(inodes))
    BY <2>2 DEF FileSet, Pending
  <2>4. /\ e.acked = files[h].acked /\ e.ino = files[h].ino /\ e.phase = "releasing"
        /\ e.read = files[h].read /\ e.stored = files[h].stored
    BY <2>2 DEF FileSet
  <2>5. files' = [files EXCEPT ![h] = e]
    BY <2>1
  <2> HIDE DEF e
  <2>6. /\ DOMAIN files' = DOMAIN files /\ files'[h] = e
        /\ \A g \in DOMAIN files : g # h => files'[g] = files[g]
    BY <1>1, <2>3, <2>5, OneFile
  <2>7. QueueOK'
    <3>1. \A i \in DOMAIN queue' : queue'[i] # h
      BY <1>3, <2>0 DEF IInv, QueueOK
    <3>2. \A i \in DOMAIN queue' : queue'[i] # 0 =>
             queue'[i] \in DOMAIN files /\ files[queue'[i]].phase = "closed"
      BY <1>3 DEF IInv, QueueOK
    <3>3. \A i \in DOMAIN queue' : queue'[i] # 0 => files'[queue'[i]].phase = "closed"
      BY <2>6, <3>1, <3>2
    <3>4. QED
      BY <1>1, <1>3, <1>5, <2>1, <2>6, <3>3 DEF IInv, QueueOK
  <2>8. FileInv(h)'
    <3>1. Unstored(h)'
      BY <1>1, <2>2, <2>4, <2>6 DEF FileInv, Unstored, Pending
    <3>2. Undisturbed(h)'
      BY <2>2, <2>4, <2>6 DEF FileInv, Undisturbed
    <3>3. QED
      BY <3>1, <3>2 DEF FileInv
  <2>9. e.phase \in Pending /\ files[h].phase \in Pending /\ fails' \in 0 .. MaxFails
    BY <1>1, <2>2, <2>4 DEF Pending, IInv, TreeOK
  <2>10. QED
    BY <1>1, <2>3, <2>4, <2>5, <2>7, <2>8, <2>9, OnlyFiles
<1>8. QED
  BY <1>6, <1>7

\* A release that ends, whether the object was put or not.
LEMMA AfterEffect ==
    ASSUME IInv, NEW h \in Releasing, NEW phase \in {"released", "failed"}, After(h, phase),
           \/ UNCHANGED object
           \/ files[h].acked > 0 /\ object' = [by |-> h, len |-> files[h].acked],
           UNCHANGED <<inodes, current, queue, dirs, unanswered>>
    PROVE  /\ FilesOK' /\ QueueOK' /\ DOMAIN files' = DOMAIN files
           /\ files'[h].phase = phase /\ files'[h].stored = (object' # object)
           /\ files'[h].acked = files[h].acked /\ files'[h].ino = files[h].ino
           /\ \A g \in DOMAIN files : g # h =>
                 /\ files'[g].phase = files[g].phase /\ files'[g].stored = files[g].stored
                 /\ files'[g].acked = files[g].acked /\ files'[g].ino = files[g].ino
           /\ \A g \in DOMAIN files : FileInv(g)'
           /\ object' \in Objects /\ object'.by \in {-1, 0} \cup DOMAIN files
           /\ object' = object \/ object'.by = h
<1>1. /\ h \in DOMAIN files /\ files[h].phase = "releasing"
  BY DEF Releasing
<1>2. /\ \A g \in DOMAIN files : files[g] \in FileSet(Len(inodes)) /\ FileInv(g)
      /\ h \in Handles /\ files[h].acked \in Lengths
  BY <1>1, FileFacts
<1>3. files \in Seq(FileSet(Len(inodes))) /\ Len(files) <= MaxHandles
  BY DEF IInv, FilesOK
<1>4. PICK put \in BOOLEAN : put = (object' # object)
  OBVIOUS
<1> DEFINE e == [files[h] EXCEPT !.phase = phase, !.stored = put]
           fs == [files EXCEPT ![h] = e]
<1>5. e \in FileSet(Len(inodes))
  BY <1>1, <1>2 DEF FileSet
<1>6. /\ e.phase = phase /\ e.stored = put /\ e.acked = files[h].acked /\ e.ino = files[h].ino
      /\ e.read = files[h].read
  BY <1>1, <1>2 DEF FileSet
<1>7. fs = [files EXCEPT ![h].phase = phase, ![h].stored = (object' # object)]
  BY <1>4
<1>8. files' = IF object' = object THEN fs ELSE Disturbed(fs, h)
  BY <1>7 DEF After
<1> HIDE DEF e
<1>9. /\ fs \in Seq(FileSet(Len(inodes))) /\ Len(fs) = Len(files) /\ DOMAIN fs = DOMAIN files
      /\ fs[h] = e /\ \A g \in DOMAIN files : g # h => fs[g] = files[g]
  BY <1>1, <1>3, <1>5, Changed
<1> HIDE DEF fs
<1>10. /\ DOMAIN files' = DOMAIN files /\ files'[h] = e
       /\ \A g \in DOMAIN files : g # h =>
             files'[g] = IF object' = object THEN files[g] ELSE [files[g] EXCEPT !.disturbed = TRUE]
  BY <1>1, <1>8, <1>9 DEF Disturbed
<1>11. \A g \in DOMAIN files : g # h =>
          /\ files'[g] \in FileSet(Len(inodes))
          /\ files'[g].phase = files[g].phase /\ files'[g].stored = files[g].stored
          /\ files'[g].acked = files[g].acked /\ files'[g].ino = files[g].ino
          /\ files'[g].read = files[g].read /\ files'[g].size = files[g].size
          /\ files'[g].disturbed = (files[g].disturbed \/ object' # object)
  <2> SUFFICES ASSUME NEW g \in DOMAIN files, g # h
               PROVE  /\ files'[g] \in FileSet(Len(inodes))
                      /\ files'[g].phase = files[g].phase /\ files'[g].stored = files[g].stored
                      /\ files'[g].acked = files[g].acked /\ files'[g].ino = files[g].ino
                      /\ files'[g].read = files[g].read /\ files'[g].size = files[g].size
                      /\ files'[g].disturbed = (files[g].disturbed \/ object' # object)
    OBVIOUS
  <2>1. files[g] \in FileSet(Len(inodes))
    BY <1>2
  <2>2. CASE object' = object
    <3>1. files[g].disturbed \in BOOLEAN
      BY <2>1 DEF FileSet
    <3>2. QED
      BY <1>10, <2>1, <2>2, <3>1
  <2>3. CASE object' # object
    <3>1. files'[g] = [files[g] EXCEPT !.disturbed = TRUE]
      BY <1>10, <2>3
    <3>2. QED
      BY <2>1, <2>3, <3>1 DEF FileSet
  <2>4. QED
    BY <2>2, <2>3
<1>12. FilesOK'
  <2>1. \A g \in DOMAIN files' : files'[g] \in FileSet(Len(inodes))
    BY <1>5, <1>10, <1>11
  <2>2. files' = [g \in DOMAIN files |-> files'[g]]
    BY <1>8, <1>9 DEF Disturbed, fs
  <2>3. DOMAIN files = 1 .. Len(files) /\ Len(files) \in Nat
    BY <1>3
  <2>4. files' \in Seq(FileSet(Len(inodes))) /\ Len(files') = Len(files)
    BY <1>10, <2>1, <2>2, <2>3
  <2>5. QED
    BY <1>3, <2>4 DEF FilesOK
<1>13. QueueOK'
  BY <1>1, <1>10, <1>11, SameQueue
<1>14. object' \in Objects /\ object'.by \in {-1, 0} \cup DOMAIN files /\ (object' = object \/ object'.by = h)
  BY <1>1, <1>2 DEF IInv, TreeOK, Objects
<1>15. FileInv(h)'
  <2>1. Unstored(h)'
    BY <1>6, <1>10 DEF Unstored, Pending
  <2>2. Undisturbed(h)'
    BY <1>1, <1>2, <1>6, <1>10 DEF FileInv, Undisturbed
  <2>3. QED
    BY <2>1, <2>2 DEF FileInv
<1>16. ASSUME NEW g \in DOMAIN files, g # h PROVE FileInv(g)'
  <2>1. FileInv(g) /\ files[g].disturbed \in BOOLEAN
    BY <1>2 DEF FileSet
  <2>2. Unstored(g)'
    BY <1>11, <1>14, <1>16, <2>1 DEF FileInv, Unstored
  <2>3. ~files'[g].disturbed => object' = object /\ ~files[g].disturbed
    BY <1>11, <1>16, <2>1
  <2>4. Undisturbed(g)'
    BY <1>11, <1>16, <2>1, <2>3 DEF FileInv, Undisturbed, Exists
  <2>5. QED
    BY <2>2, <2>4 DEF FileInv
<1>17. \A g \in DOMAIN files : FileInv(g)'
  BY <1>15, <1>16
<1>18. QED
  BY <1>4, <1>6, <1>10, <1>11, <1>12, <1>13, <1>14, <1>17

LEMMA ReleaseReturnsInv ==
    ASSUME IInv, NEW h \in DOMAIN files, ReleaseReturns(h)
    PROVE  IInv'
<1>1. /\ h \in Releasing /\ files[h].phase = "releasing"
      /\ UNCHANGED <<inodes, current, fresh, head, queue, dirs, unanswered, removed, ub>>
  BY DEF ReleaseReturns, Release, ReleaseFails, Releasing, tree, kernel
<1>2. fails' \in 0 .. MaxFails
  BY FilesAssumption DEF IInv, TreeOK, ReleaseReturns, Release, ReleaseFails
<1>3. files[h].acked \in Lengths /\ MaxLen \in Nat
  BY FileFacts, FilesAssumption
<1>4. files[h].acked = 0 \/ files[h].acked > 0
  BY <1>3 DEF Lengths
<1>5. \/ UNCHANGED object
      \/ files[h].acked > 0 /\ object' = [by |-> h, len |-> files[h].acked]
  BY <1>4 DEF ReleaseReturns, Release, ReleaseFails, Put
<1>6. PICK phase \in {"released", "failed"} : After(h, phase)
  BY DEF ReleaseReturns, Release, ReleaseFails
<1>7. /\ FilesOK' /\ QueueOK' /\ DOMAIN files' = DOMAIN files
      /\ files'[h].phase = phase
      /\ \A g \in DOMAIN files : g # h =>
            /\ files'[g].phase = files[g].phase
            /\ files'[g].acked = files[g].acked /\ files'[g].ino = files[g].ino
      /\ \A g \in DOMAIN files : FileInv(g)'
      /\ object' \in Objects /\ object'.by \in {-1, 0} \cup DOMAIN files
  BY <1>1, <1>5, <1>6, AfterEffect
<1>8. suspect' = TRUE \/ (Release(h) /\ suspect' = (suspect \/ files[h].ino # current))
  BY DEF ReleaseReturns, Release, ReleaseFails
<1>9. TreeOK' /\ HeadOwner'
  <2>1. suspect' \in BOOLEAN
    BY <1>8 DEF IInv, TreeOK
  <2>2. QED
    BY <1>1, <1>2, <1>7, <2>1 DEF IInv, TreeOK, HeadOwner
<1>10. SizeInv'
  <2> SUFFICES ASSUME ~suspect', current # 0
               PROVE  /\ Quiet' /\ Exists' => inodes[current].size = object'.len
                      /\ \A g \in Writers' : files'[g].ino = current => inodes[current].size = files'[g].acked
    BY <1>1 DEF SizeInv
  <2>1. Release(h) /\ ~suspect /\ files[h].ino = current
    BY <1>8
  <2>2. \A g \in Writers' : g \in Writers /\ files'[g].acked = files[g].acked /\ files'[g].ino = files[g].ino
    BY <1>7 DEF Writers
  <2>3. \A g \in Writers' : files'[g].ino = current => inodes[current].size = files'[g].acked
    BY <2>1, <2>2 DEF IInv, SizeInv
  <2>4. CASE files[h].acked = 0
    <3>1. object' = object
      BY <2>1, <2>4 DEF Release, Put
    <3>2. \A g \in Writers : g \in Writers'
      BY <1>7, <2>4 DEF Writers
    <3>3. QED
      BY <2>1, <2>3, <3>1, <3>2 DEF IInv, SizeInv, Quiet, Exists
  <2>5. CASE files[h].acked > 0
    <3>1. object' = [by |-> h, len |-> files[h].acked]
      BY <1>3, <2>1, <2>5 DEF Release, Put, Lengths
    <3>2. inodes[current].size = files[h].acked
      BY <1>1, <2>1, <2>5 DEF IInv, SizeInv, Writers
    <3>3. QED
      BY <2>3, <3>1, <3>2
  <2>6. QED
    BY <1>4, <2>4, <2>5
<1>11. QED
  BY <1>7, <1>9, <1>10 DEF IInv

-----------------------------------------------------------------------------
(* Every step.                                                             *)

LEMMA Inductive == IInv /\ [Next]_vars => IInv'
<1> SUFFICES ASSUME IInv, [Next]_vars PROVE IInv'
  OBVIOUS
<1>1. CASE Lookup
  BY <1>1, LookupInv
<1>2. CASE LookupReturns
  BY <1>2, ApplyHeadInv, AddFoundInv, NotKnownYet DEF LookupReturns
<1>3. CASE Create \/ CreateFails
  BY <1>3, CreateInv, CreateFailsInv
<1>4. CASE Unlink \/ UnlinkFails
  BY <1>4, UnlinkInv, UnlinkFailsInv
<1>5. CASE Expire \/ Rest \/ UNCHANGED vars
  BY <1>5, NotKnownYet
<1>6. CASE OpenFile \/ CloseDir \/ Send
  BY <1>6, OpenFileInv, CloseDirInv, SendInv
<1>7. CASE \E h \in DOMAIN files :
              Write(h) \/ Read(h) \/ ReadReturns(h) \/ Close(h) \/ ReleaseReturns(h)
  BY <1>7, WriteInv, ReadInv, ReadReturnsInv, CloseInv, ReleaseReturnsInv
<1>8. QED
  BY <1>1, <1>2, <1>3, <1>4, <1>5, <1>6, <1>7 DEF Next

LEMMA Invariant == Spec => []IInv
  BY InitInv, Inductive, PTL DEF Spec

-----------------------------------------------------------------------------
(* The theorems.                                                           *)

\* Every variable keeps its type, a dentry never has a freed inode, and only
\* closed files wait in the kernel's queue for their RELEASE.
THEOREM TypeCorrect == Spec => []TypeOK
<1>1. QED
  BY Invariant, TypesOf, PTL

\* When nothing written waits to be put, the size that the cache has is that
\* of the object, unless something that suspect names came between: what
\* writefile, the release, openfile and the HEAD of a lookup do to the size.
THEOREM SizesAgree == Spec => []SizeAgrees
<1>1. IInv => SizeAgrees
  BY DEF IInv, SizeInv, SizeAgrees
<1>2. QED
  BY <1>1, Invariant, PTL

\* OpenFile::read cuts a read off where the object ends, so that a reader that
\* nothing disturbed gets all of it and is never refused.
THEOREM ReadersReadWhole == Spec => []ReadsWhole
<1>1. IInv => ReadsWhole
  <2> SUFFICES ASSUME IInv, NEW h \in DOMAIN files, ~files[h].disturbed
               PROVE  /\ files[h].read.st # "refused"
                      /\ files[h].read.st = "done" /\ files[h].read.off <= object.len =>
                            files[h].read.off + files[h].read.n = object.len
    BY DEF ReadsWhole
  <2>1. Undisturbed(h)
    BY DEF IInv, FileInv
  <2>2. QED
    BY <2>1 DEF Undisturbed, NoRead
<1>2. QED
  BY <1>1, Invariant, PTL

-----------------------------------------------------------------------------
(* Every handle keeps the promise of FileUpload.                           *)

AckedOf(h) == IF h \in DOMAIN files THEN files[h].acked ELSE 0
StoredOf(h) == h \in DOMAIN files /\ files[h].stored
Ended(h) == IF PhaseOf(h) \in {"released", "failed"} THEN PhaseOf(h) ELSE "open"

LEMMA SameUpload ==
    ASSUME NEW h, UNCHANGED <<AckedOf(h), StoredOf(h), Ended(h)>>
    PROVE  UNCHANGED Upload(h)!uvars
BY DEF AckedOf, StoredOf, Ended, Upload!uvars

LEMMA Accepts ==
    ASSUME NEW h, Ended(h) = "open", AckedOf(h)' \in Nat, AckedOf(h)' > AckedOf(h),
           UNCHANGED <<StoredOf(h), Ended(h)>>
    PROVE  Upload(h)!Accept
BY DEF AckedOf, StoredOf, Ended, Upload!Accept

LEMMA Closes ==
    ASSUME NEW h, Ended(h) = "open", Ended(h)' = "released", UNCHANGED AckedOf(h),
           ~StoredOf(h), StoredOf(h)' = (AckedOf(h) # 0)
    PROVE  Upload(h)!CloseOk
BY DEF AckedOf, StoredOf, Ended, Upload!CloseOk

LEMMA ClosesWithError ==
    ASSUME NEW h, Ended(h) = "open", Ended(h)' = "failed", UNCHANGED AckedOf(h), AckedOf(h) > 0,
           ~StoredOf(h)
    PROVE  Upload(h)!CloseFailed
BY DEF AckedOf, StoredOf, Ended, Upload!CloseFailed

\* What a step leaves of a handle when it neither writes nor releases it.
LEMMA LeavesUpload ==
    ASSUME NEW h, h \in DOMAIN files, h \in DOMAIN files',
           files'[h].acked = files[h].acked, files'[h].stored = files[h].stored,
           files'[h].phase = files[h].phase \/ {files[h].phase, files'[h].phase} \subseteq Pending
    PROVE  UNCHANGED Upload(h)!uvars
<1>1. UNCHANGED <<AckedOf(h), StoredOf(h), Ended(h)>>
  BY DEF AckedOf, StoredOf, Ended, PhaseOf, Pending
<1>2. QED
  BY <1>1, SameUpload

LEMMA UnusedUpload ==
    ASSUME NEW h, h \notin DOMAIN files, h \notin DOMAIN files'
    PROVE  UNCHANGED Upload(h)!uvars
<1>1. UNCHANGED <<AckedOf(h), StoredOf(h), Ended(h)>>
  BY DEF AckedOf, StoredOf, Ended, PhaseOf
<1>2. QED
  BY <1>1, SameUpload

LEMMA OpenedUpload ==
    ASSUME NEW h, IInv, NEW ino, NEW size, NEW dist, files' = Append(files, File(ino, size, dist))
    PROVE  UNCHANGED Upload(h)!uvars
<1> DEFINE e == File(ino, size, dist)
<1>1. e.acked = 0 /\ e.stored = FALSE /\ e.phase = "open"
  BY DEF File
<1> HIDE DEF e
<1>2. files \in Seq(FileSet(Len(inodes)))
  BY DEF IInv, FilesOK
<1>3. files \in Seq(FileSet(Len(inodes)) \cup {e})
  BY <1>2
<1>n. PICK new : new = Len(files) + 1
  OBVIOUS
<1>4. /\ DOMAIN files' = DOMAIN files \cup {new} /\ new \notin DOMAIN files /\ files'[new] = e
      /\ \A g \in DOMAIN files : files'[g] = files[g]
  BY <1>3, <1>n, Added DEF e
<1>5. CASE h = new
  <2>1. UNCHANGED <<AckedOf(h), StoredOf(h), Ended(h)>>
    BY <1>1, <1>4, <1>5 DEF AckedOf, StoredOf, Ended, PhaseOf
  <2>2. QED
    BY <2>1, SameUpload
<1>6. QED
  BY <1>4, <1>5, UnusedUpload, LeavesUpload

\* A step of one handle that neither writes nor releases it.
LEMMA EventUpload ==
    ASSUME NEW h, IInv, NEW g \in DOMAIN files, Read(g) \/ ReadReturns(g) \/ Close(g)
    PROVE  UNCHANGED Upload(h)!uvars
<1>1. /\ DOMAIN files' = DOMAIN files /\ files[g].phase = "open"
      /\ \A f \in DOMAIN files : f # g => files'[f] = files[f]
  BY DEF Read, ReadReturns, Get, GetFails, Close, Open
<1>2. files[g] \in FileSet(Len(inodes))
  BY FileFacts
<1>3. files'[g].acked = files[g].acked /\ files'[g].stored = files[g].stored
  BY <1>2 DEF Read, ReadReturns, Get, GetFails, Close, FileSet
<1>4. files'[g].phase \in {"open", "closed"}
  BY <1>1, <1>2 DEF Read, ReadReturns, Get, GetFails, Close, FileSet
<1>5. {files[g].phase, files'[g].phase} \subseteq Pending
  BY <1>1, <1>4 DEF Pending
<1>6. QED
  BY <1>1, <1>3, <1>5, UnusedUpload, LeavesUpload

LEMMA SendUpload ==
    ASSUME NEW h, IInv, Send
    PROVE  UNCHANGED Upload(h)!uvars
<1>1. CASE files' = files
  BY <1>1, UnusedUpload, LeavesUpload
<1>2. CASE files' # files
  <2>1. Head(queue) # 0 /\ files' = [files EXCEPT ![Head(queue)].phase = "releasing"]
    BY <1>2 DEF Send
  <2>2. queue \in Seq({0} \cup DOMAIN files) /\ queue # <<>>
    BY DEF IInv, QueueOK, Send
  <2>3. Head(queue) = queue[1] /\ 1 \in DOMAIN queue
    BY <2>2, Sent
  <2>4. PICK g \in DOMAIN files : g = Head(queue)
    BY <2>1, <2>2, <2>3
  <2>5. files[g].phase = "closed" /\ files[g] \in FileSet(Len(inodes))
    BY <2>1, <2>3, <2>4, FileFacts DEF IInv, QueueOK
  <2>6. /\ DOMAIN files' = DOMAIN files
        /\ files'[g].acked = files[g].acked /\ files'[g].stored = files[g].stored
        /\ files'[g].phase = "releasing"
        /\ \A f \in DOMAIN files : f # g => files'[f] = files[f]
    BY <2>1, <2>4, <2>5 DEF FileSet
  <2>7. {files[g].phase, files'[g].phase} \subseteq Pending
    BY <2>5, <2>6 DEF Pending
  <2>8. QED
    BY <2>6, <2>7, UnusedUpload, LeavesUpload
<1>3. QED
  BY <1>1, <1>2

LEMMA WriteUpload ==
    ASSUME NEW h, IInv, NEW g \in DOMAIN files, Write(g)
    PROVE  [Upload(h)!Next]_(Upload(h)!uvars)
<1>1. files[g] \in FileSet(Len(inodes)) /\ files[g].acked \in Nat /\ files[g].phase = "open" /\ MaxLen \in Nat
  BY FileFacts, FilesAssumption DEF Write, Open, Lengths
<1>2. PICK n \in files[g].acked + 1 .. MaxLen :
        files' = [files EXCEPT ![g].acked = n, ![g].size = n, ![g].disturbed = TRUE]
  BY DEF Write
<1>3. /\ DOMAIN files' = DOMAIN files
      /\ files'[g].acked = n /\ files'[g].stored = files[g].stored /\ files'[g].phase = "open"
      /\ \A f \in DOMAIN files : f # g => files'[f] = files[f]
  BY <1>1, <1>2 DEF FileSet
<1>4. CASE h = g
  <2>1. Ended(h) = "open" /\ UNCHANGED <<StoredOf(h), Ended(h)>>
    BY <1>1, <1>3, <1>4 DEF Ended, PhaseOf, StoredOf
  <2>2. AckedOf(h) = files[g].acked /\ AckedOf(h)' = n
    BY <1>3, <1>4 DEF AckedOf
  <2>3. n \in Nat /\ n > files[g].acked
    BY <1>1, <1>2
  <2>4. Upload(h)!Accept
    BY <2>1, <2>2, <2>3, Accepts
  <2>5. QED
    BY <2>4 DEF Upload!Next
<1>5. QED
  BY <1>3, <1>4, UnusedUpload, LeavesUpload

LEMMA ReleaseUpload ==
    ASSUME NEW h, IInv, NEW g \in DOMAIN files, ReleaseReturns(g)
    PROVE  [Upload(h)!Next]_(Upload(h)!uvars)
<1>1. /\ g \in Releasing /\ files[g].phase = "releasing"
      /\ UNCHANGED <<inodes, current, queue, dirs, unanswered>>
  BY DEF ReleaseReturns, Release, ReleaseFails, Releasing, tree, kernel
<1>2. files[g].acked \in Nat /\ FileInv(g) /\ MaxLen \in Nat
  BY FileFacts, FilesAssumption DEF Lengths
<1>3. object.by # g /\ files[g].stored = FALSE
  BY <1>1, <1>2 DEF FileInv, Unstored, Pending
<1>4. \/ UNCHANGED object
      \/ files[g].acked > 0 /\ object' = [by |-> g, len |-> files[g].acked]
  BY <1>2 DEF ReleaseReturns, Release, ReleaseFails, Put
<1>5. PICK phase \in {"released", "failed"} :
        /\ After(g, phase)
        /\ IF phase = "released" THEN Put(g) ELSE files[g].acked > 0
  BY DEF ReleaseReturns, Release, ReleaseFails
<1>6. /\ DOMAIN files' = DOMAIN files
      /\ files'[g].phase = phase /\ files'[g].stored = (object' # object)
      /\ files'[g].acked = files[g].acked
      /\ \A f \in DOMAIN files : f # g =>
            /\ files'[f].phase = files[f].phase /\ files'[f].stored = files[f].stored
            /\ files'[f].acked = files[f].acked
  BY <1>1, <1>4, <1>5, AfterEffect
<1>7. CASE h = g
  <2>1. Ended(h) = "open" /\ Ended(h)' = phase /\ UNCHANGED AckedOf(h) /\ ~StoredOf(h)
    BY <1>1, <1>3, <1>6, <1>7 DEF Ended, PhaseOf, AckedOf, StoredOf
  <2>2. AckedOf(h) = files[g].acked /\ StoredOf(h)' = (object' # object)
    BY <1>6, <1>7 DEF AckedOf, StoredOf
  <2>3. CASE phase = "released"
    <3>1. Put(g)
      BY <1>5, <2>3
    <3>2. (object' # object) = (files[g].acked # 0)
      BY <1>3, <3>1 DEF Put
    <3>3. Upload(h)!CloseOk
      BY <2>1, <2>2, <2>3, <3>2, Closes
    <3>4. QED
      BY <3>3 DEF Upload!Next
  <2>4. CASE phase = "failed"
    <3>1. Upload(h)!CloseFailed
      BY <1>5, <2>1, <2>2, <2>4, ClosesWithError
    <3>2. QED
      BY <3>1 DEF Upload!Next
  <2>5. QED
    BY <2>3, <2>4
<1>8. QED
  BY <1>6, <1>7, UnusedUpload, LeavesUpload

LEMMA StepsUpload ==
    ASSUME IInv, [Next]_vars, NEW h
    PROVE  [Upload(h)!Next]_(Upload(h)!uvars)
<1>1. CASE files' = files
  BY <1>1, UnusedUpload, LeavesUpload
<1>2. CASE Create \/ OpenFile
  BY <1>2, OpenedUpload DEF Create, OpenFile
<1>3. CASE Send
  BY <1>3, SendUpload
<1>4. CASE \E g \in DOMAIN files : Read(g) \/ ReadReturns(g) \/ Close(g)
  BY <1>4, EventUpload
<1>5. CASE \E g \in DOMAIN files : Write(g) \/ ReleaseReturns(g)
  BY <1>5, WriteUpload, ReleaseUpload
<1>6. CASE Lookup \/ LookupReturns \/ CreateFails \/ Unlink \/ UnlinkFails \/ Expire \/ CloseDir
           \/ Rest \/ UNCHANGED vars
  <2>1. files' = files
    BY <1>6 DEF Lookup, LookupReturns, ApplyHead, ApplyHeadFreed, AddFound, HeadFails, CreateFails,
                Unlink, UnlinkFails, Expire, CloseDir, Rest, vars
  <2>2. QED
    BY <1>1, <2>1
<1>7. QED
  BY <1>2, <1>3, <1>4, <1>5, <1>6 DEF Next

\* Of every handle the object is replaced once, by all the bytes written to
\* it, when releasefile closes its writer, or not at all; a release that fails
\* leaves one or the other.  Other handles, and files made and removed in
\* between, have no part in it.
THEOREM HandlesImplementUpload == Spec => HandlesUpload
<1>1. ASSUME Init PROVE \A h \in Handles : Upload(h)!Init
  <2>1. files = <<>>
    BY <1>1 DEF Init
  <2>2. \A h \in Handles : AckedOf(h) = 0 /\ ~StoredOf(h) /\ Ended(h) = "open"
    BY <2>1, FilesAssumption DEF AckedOf, StoredOf, Ended, PhaseOf, Handles
  <2>3. QED
    BY <2>2 DEF AckedOf, StoredOf, Ended, Upload!Init
<1>2. IInv /\ [Next]_vars => [\A h \in Handles : [Upload(h)!Next]_(Upload(h)!uvars)]_vars
  BY StepsUpload
<1>3. QED
  BY <1>1, <1>2, Invariant, PTL DEF Spec, HandlesUpload
=============================================================================
