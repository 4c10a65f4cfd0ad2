-------------------------- MODULE DentryCacheProofs --------------------------
(***************************************************************************)
(* What DentryCache guarantees for every number of threads, every set of   *)
(* keys and every page size, with other clients and failing calls: the     *)
(* state is well-formed, and the tree of dentries is sound.                *)
(***************************************************************************)
EXTENDS DentryCache, FiniteSetTheorems, SequenceTheorems, TLAPS

-----------------------------------------------------------------------------
(* The inductive invariant.                                                *)

TypedDentries ==
    /\ IsFiniteSet(DOMAIN dent) /\ DOMAIN dent = 1..Cardinality(DOMAIN dent)
    /\ \A x \in DOMAIN dent : IsDentry(dent[x])
    /\ freed \subseteq DOMAIN dent

\* The root is a directory, and nobody's child.
RootSound ==
    /\ Root \in DOMAIN dent /\ IsDir(Root)
    /\ \A x \in DOMAIN dent, n \in Names : n \in DOMAIN dent[x].kids => dent[x].kids[n] # Root

DentInv == TypedDentries /\ TreeSound /\ RootSound

\* Handlers work in directories.
ReqInv ==
    /\ DOMAIN req = Threads
    /\ \A t \in Threads : IsRequest(req[t]) /\ IsDir(req[t].dir)

IInv == DentInv /\ ReqInv /\ known \subseteq DOMAIN dent /\ ub \in BOOLEAN

\* What every step does: dentries are only ever made, and directories stay so.
Grows == DOMAIN dent \subseteq DOMAIN dent' /\ \A x \in DOMAIN dent : IsDir(x) => IsDir(x)'

OthersKept(t) == DOMAIN req' = Threads /\ \A u \in Threads \ {t} : req'[u] = req[u]

-----------------------------------------------------------------------------
(* Numbers and names.                                                      *)

\* The numbers up to n are n.
LEMMA UpTo ==
    ASSUME NEW n \in Nat
    PROVE  IsFiniteSet(1..n) /\ Cardinality(1..n) = n
  BY FS_Interval

\* Numbers given from m + 1 on leave no gap.
LEMMA NoGap ==
    ASSUME NEW m \in Nat, NEW n \in Nat
    PROVE  1..m \cup (m + 1)..(m + n) = 1..(m + n)
  OBVIOUS

\* The next inode number is a new one.
LEMMA NumberIsNew ==
    ASSUME DentInv
    PROVE  /\ NextIno \in Nat \ {0}
           /\ DOMAIN dent = 1..(NextIno - 1)
           /\ NextIno \notin DOMAIN dent
  BY FS_CardinalityType DEF DentInv, TypedDentries, NextIno

\* There are finitely many names.
LEMMA NamesFinite == IsFiniteSet(Names)
<1>1. NameOrder \in Seq(Names)
  BY CacheAssumption
<1>2. IsFiniteSet(DOMAIN NameOrder)
  BY <1>1, UpTo
<1>3. NameOrder \in Surjection(DOMAIN NameOrder, Names)
  BY <1>1 DEF Surjection, Names, Range
<1> QED
  BY <1>2, <1>3, FS_Surjection DEF ExistsSurjection

-----------------------------------------------------------------------------
(* Changes of the tree.                                                    *)

\* An entry of the directory x after a step is one from before it, which is
\* not freed, or a dentry made by the step.
OldKid(x, n) ==
    /\ x \in DOMAIN dent /\ n \in DOMAIN dent[x].kids
    /\ dent'[x].kids[n] = dent[x].kids[n]
    /\ dent[x].kids[n] \notin freed'

NewKid(x, n) ==
    LET y == dent'[x].kids[n]
    IN  /\ y \in DOMAIN dent' \ DOMAIN dent
        /\ IsDir(x)' /\ dent'[y].parent = x /\ dent'[y].name = n

\* Whatever changes the tree in these ways keeps it sound.
LEMMA TreeStep ==
    ASSUME DentInv,
           NEW last \in Nat, DOMAIN dent' = 1..last, DOMAIN dent \subseteq DOMAIN dent',
           \A x \in DOMAIN dent' : IsDentry(dent[x])',
           \A x \in DOMAIN dent : /\ dent'[x].name = dent[x].name
                                  /\ dent'[x].parent = dent[x].parent
                                  /\ IsDir(x) => IsDir(x)',
           \A x \in DOMAIN dent' : \A n \in DOMAIN dent'[x].kids : OldKid(x, n) \/ NewKid(x, n),
           freed' \subseteq DOMAIN dent, Root \notin freed'
    PROVE  DentInv' /\ Grows
<1>1. TypedDentries'
  BY UpTo DEF TypedDentries
<1>2. Grows
  BY DEF Grows
<1>3. ASSUME NEW x \in DOMAIN dent', NEW n \in DOMAIN dent'[x].kids
      PROVE  LET y == dent'[x].kids[n]
             IN  /\ IsDir(x)'
                 /\ y # Root /\ y \notin freed'
                 /\ dent'[y].parent = x /\ dent'[y].name = n
  <2>1. CASE OldKid(x, n)
    <3>1. PICK y \in DOMAIN dent : y = dent[x].kids[n]
      BY <2>1 DEF OldKid, DentInv, TypedDentries, IsDentry
    <3>2. n \in Names
      BY <2>1 DEF OldKid, DentInv, TypedDentries, IsDentry
    <3>3. IsDir(x) /\ dent[y].parent = x /\ dent[y].name = n /\ y # Root
      BY <2>1, <3>1, <3>2 DEF OldKid, DentInv, TreeSound, RootSound, HasKids
    <3> QED
      BY <2>1, <3>1, <3>3 DEF OldKid
  <2>2. CASE NewKid(x, n)
    BY <2>2 DEF NewKid, DentInv, RootSound
  <2> QED
    BY <1>3, <2>1, <2>2
<1>4. TreeSound'
  BY <1>3 DEF TreeSound, HasKids
<1>5. RootSound'
  BY <1>3 DEF DentInv, RootSound
<1> QED
  BY <1>1, <1>2, <1>4, <1>5 DEF DentInv

\* What is known of a dentry.
LEMMA DentryFacts ==
    ASSUME DentInv, NEW x \in DOMAIN dent
    PROVE  /\ IsDentry(dent[x])
           /\ dent[x].kids \in [DOMAIN dent[x].kids -> DOMAIN dent]
           /\ DOMAIN dent[x].kids \subseteq Names
           /\ \A n \in DOMAIN dent[x].kids :
                 /\ dent[x].kids[n] \in DOMAIN dent \ freed
                 /\ dent[x].kids[n] # Root
                 /\ dent[dent[x].kids[n]].parent = x /\ dent[dent[x].kids[n]].name = n
<1>1. IsDentry(dent[x])
  BY DEF DentInv, TypedDentries
<1> QED
  BY <1>1 DEF DentInv, TreeSound, RootSound, IsDentry

\* A step that changes only flags, or the type of what is no directory.
LEMMA FlagsOnly ==
    ASSUME DentInv, DOMAIN dent' = DOMAIN dent, freed' = freed,
           \A x \in DOMAIN dent :
              /\ IsDentry(dent[x])'
              /\ dent'[x].name = dent[x].name /\ dent'[x].parent = dent[x].parent
              /\ dent'[x].kids = dent[x].kids
              /\ IsDir(x) => IsDir(x)'
    PROVE  DentInv' /\ Grows
<1>1. NextIno - 1 \in Nat /\ DOMAIN dent' = 1..(NextIno - 1)
  BY NumberIsNew
<1>2. ASSUME NEW x \in DOMAIN dent', NEW n \in DOMAIN dent'[x].kids PROVE OldKid(x, n)
  BY DentryFacts DEF OldKid
<1>3. freed' \subseteq DOMAIN dent /\ Root \notin freed'
  BY DEF DentInv, TypedDentries, TreeSound
<1> QED
  BY <1>1, <1>2, <1>3, TreeStep

\* add_child keeps the tree sound, whether or not it replaces an entry.
LEMMA AddKidSound ==
    ASSUME DentInv, freed' = freed,
           NEW x \in DOMAIN dent, IsDir(x), NEW name \in Names,
           NEW type \in Types,
           NEW new \in {Dentry(name, x, type), [Dentry(name, x, type) EXCEPT !.fresh = TRUE]},
           dent' = AddKid(x, name, new)
    PROVE  DentInv' /\ Grows /\ NextIno \in DOMAIN dent'
<1> DEFINE y == NextIno
<1>1. y \in Nat \ {0} /\ DOMAIN dent = 1..(y - 1) /\ y \notin DOMAIN dent
  BY NumberIsNew
<1>2. /\ DOMAIN dent' = DOMAIN dent \cup {y}
      /\ dent'[y] = new
      /\ dent'[x] = [dent[x] EXCEPT !.kids = Bind(@, name, y)]
      /\ \A z \in DOMAIN dent \ {x} : dent'[z] = dent[z]
  BY <1>1 DEF AddKid
<1>3. DOMAIN dent' = 1..y
  <2>1. y - 1 \in Nat /\ y \in Nat
    BY <1>1
  <2>2. 1..(y - 1) \cup {y} = 1..y
    BY <2>1
  <2> QED
    BY <1>1, <1>2, <2>2
<1>4. /\ new \in [name : {name}, parent : {x}, type : {type}, fresh : BOOLEAN,
                  complete : BOOLEAN, synced : BOOLEAN, kids : {new.kids}]
      /\ new.kids \in [{} -> DOMAIN dent] /\ DOMAIN new.kids = {}
  <2> DEFINE d == Dentry(name, x, type)
  <2>1. /\ d \in [name : {name}, parent : {x}, type : {type}, fresh : BOOLEAN,
                  complete : BOOLEAN, synced : BOOLEAN, kids : {d.kids}]
        /\ d.kids \in [{} -> DOMAIN dent] /\ DOMAIN d.kids = {}
    BY DEF Dentry
  <2>2. CASE new = d
    BY <2>1, <2>2
  <2>3. CASE new = [d EXCEPT !.fresh = TRUE]
    <3> HIDE DEF d
    <3> QED
      BY <2>1, <2>3
  <2> QED
    BY <2>2, <2>3
<1>5. IsDentry(dent[x]) /\ dent[x].kids \in [DOMAIN dent[x].kids -> DOMAIN dent]
                        /\ DOMAIN dent[x].kids \subseteq Names
  BY DentryFacts
<1>6. dent'[x] \in [name : {dent[x].name}, parent : {dent[x].parent}, type : {dent[x].type},
                    fresh : BOOLEAN, complete : BOOLEAN, synced : BOOLEAN,
                    kids : {Bind(dent[x].kids, name, y)}]
  BY <1>2, <1>5 DEF IsDentry
<1>7. /\ dent'[x].kids \in [DOMAIN dent[x].kids \cup {name} -> DOMAIN dent']
      /\ \A n \in DOMAIN dent'[x].kids :
            dent'[x].kids[n] = IF n = name THEN y ELSE dent[x].kids[n]
  BY <1>2, <1>5, <1>6 DEF Bind
<1>8. ASSUME NEW z \in DOMAIN dent' PROVE IsDentry(dent[z])'
  <2>1. CASE z = y
    <3>1. dent'[z].kids \in [{} -> DOMAIN dent']
      BY <2>1, <1>2, <1>4
    <3> QED
      BY <2>1, <3>1, <1>2, <1>4 DEF IsDentry
  <2>2. CASE z = x
    BY <2>2, <1>2, <1>5, <1>6, <1>7 DEF IsDentry
  <2>3. CASE z \in DOMAIN dent \ {x}
    <3>1. IsDentry(dent[z])
      BY <2>3, DentryFacts
    <3> QED
      BY <2>3, <3>1, <1>2 DEF IsDentry
  <2> QED
    BY <2>1, <2>2, <2>3, <1>2
<1>9. ASSUME NEW z \in DOMAIN dent
      PROVE  /\ dent'[z].name = dent[z].name
             /\ dent'[z].parent = dent[z].parent
             /\ IsDir(z) => IsDir(z)'
  BY <1>2, <1>6 DEF IsDir
<1>10. ASSUME NEW z \in DOMAIN dent', NEW n \in DOMAIN dent'[z].kids
       PROVE  OldKid(z, n) \/ NewKid(z, n)
  <2>1. CASE z = y
    BY <2>1, <1>2, <1>4
  <2>2. CASE z = x /\ n = name
    BY <2>2, <1>1, <1>2, <1>4, <1>7, <1>9 DEF NewKid
  <2>3. CASE z = x /\ n # name
    BY <2>3, <1>7, DentryFacts DEF OldKid
  <2>4. CASE z \in DOMAIN dent \ {x}
    BY <2>4, <1>2, DentryFacts DEF OldKid
  <2> QED
    BY <2>1, <2>2, <2>3, <2>4, <1>2
<1>11. freed' \subseteq DOMAIN dent /\ Root \notin freed'
  BY DEF DentInv, TypedDentries, TreeSound
<1> QED
  BY <1>1, <1>2, <1>3, <1>8, <1>9, <1>10, <1>11, TreeStep

\* remove_child keeps the tree sound: nobody else has the dentry it frees.
LEMMA RemoveKidSound ==
    ASSUME DentInv, NEW x \in DOMAIN dent, NEW name,
           dent' = [dent EXCEPT ![x].kids = Without(@, {name})],
           freed' = freed \cup KidsNamed(x, {name})
    PROVE  DentInv' /\ Grows
<1>1. NextIno - 1 \in Nat /\ DOMAIN dent' = 1..(NextIno - 1)
  BY NumberIsNew
<1>2. /\ IsDentry(dent[x])
      /\ dent[x].kids \in [DOMAIN dent[x].kids -> DOMAIN dent]
      /\ DOMAIN dent[x].kids \subseteq Names
  BY DentryFacts
<1>3. dent'[x] \in [name : {dent[x].name}, parent : {dent[x].parent}, type : {dent[x].type},
                    fresh : BOOLEAN, complete : BOOLEAN, synced : BOOLEAN,
                    kids : {Without(dent[x].kids, {name})}]
  BY <1>2 DEF IsDentry
<1>4. /\ dent'[x].kids \in [DOMAIN dent[x].kids \ {name} -> DOMAIN dent]
      /\ \A n \in DOMAIN dent'[x].kids : dent'[x].kids[n] = dent[x].kids[n]
  BY <1>2, <1>3 DEF Without, Restrict
<1>5. \A z \in DOMAIN dent \ {x} : dent'[z] = dent[z]
  OBVIOUS
<1>6. ASSUME NEW z \in DOMAIN dent' PROVE IsDentry(dent[z])'
  <2>1. CASE z = x
    BY <2>1, <1>2, <1>3, <1>4 DEF IsDentry
  <2>2. CASE z # x
    <3>1. IsDentry(dent[z])
      BY DentryFacts
    <3> QED
      BY <2>2, <3>1, <1>5 DEF IsDentry
  <2> QED
    BY <2>1, <2>2
<1>7. ASSUME NEW z \in DOMAIN dent
      PROVE  /\ dent'[z].name = dent[z].name
             /\ dent'[z].parent = dent[z].parent
             /\ IsDir(z) => IsDir(z)'
  BY <1>3, <1>5 DEF IsDir
<1>8. ASSUME NEW z \in DOMAIN dent', NEW n \in DOMAIN dent'[z].kids PROVE OldKid(z, n)
  <2>1. n \in DOMAIN dent[z].kids /\ dent'[z].kids[n] = dent[z].kids[n]
                                  /\ (z = x => n # name)
    BY <1>4, <1>5
  <2>2. /\ dent[z].kids[n] \notin freed
        /\ dent[dent[z].kids[n]].parent = z /\ dent[dent[z].kids[n]].name = n
    BY <2>1, DentryFacts
  <2>3. \A y \in KidsNamed(x, {name}) : dent[y].parent = x /\ dent[y].name = name
    BY DentryFacts DEF KidsNamed
  <2>4. dent[z].kids[n] \notin KidsNamed(x, {name})
    BY <2>1, <2>2, <2>3
  <2> QED
    BY <2>1, <2>2, <2>4 DEF OldKid
<1>9. freed' \subseteq DOMAIN dent /\ Root \notin freed'
  BY DentryFacts DEF DentInv, TypedDentries, TreeSound, KidsNamed
<1> QED
  BY <1>1, <1>6, <1>7, <1>8, <1>9, TreeStep

\* So does clear_unsync_dentry, which does it all over the directories it walks.
LEMMA ClearedSound ==
    ASSUME DentInv, NEW walked \in SUBSET DOMAIN dent,
           dent' = Cleared(walked),
           freed' = freed \cup UNION {KidsNamed(y, Unsynced(y)) : y \in walked}
    PROVE  DentInv' /\ Grows
<1>1. NextIno - 1 \in Nat /\ DOMAIN dent' = 1..(NextIno - 1)
  <2>1. DOMAIN dent' = DOMAIN dent
    BY DEF Cleared
  <2> QED
    BY <2>1, NumberIsNew
<1>2. ASSUME NEW z \in DOMAIN dent
      PROVE  /\ dent'[z] \in [name : {dent[z].name}, parent : {dent[z].parent},
                              type : {dent[z].type}, fresh : BOOLEAN, complete : BOOLEAN,
                              synced : BOOLEAN, kids : {dent'[z].kids}]
             /\ dent'[z].kids = IF z \in walked THEN Without(dent[z].kids, Unsynced(z))
                                                ELSE dent[z].kids
  <2>1. IsDentry(dent[z])
    BY DentryFacts
  <2>2. HasKids(z) \in BOOLEAN
    BY DEF HasKids
  <2>3. CASE z \in walked
    <3>1. dent'[z] = [dent[z] EXCEPT !.synced = TRUE, !.fresh = TRUE,
                                     !.complete = @ \/ HasKids(z),
                                     !.kids = Without(@, Unsynced(z))]
      BY <2>3 DEF Cleared
    <3> QED
      BY <2>1, <2>2, <2>3, <3>1 DEF IsDentry
  <2>4. CASE z \notin walked
    <3>1. \/ dent'[z] = [dent[z] EXCEPT !.synced = FALSE, !.fresh = TRUE]
          \/ dent'[z] = dent[z]
      BY <2>4 DEF Cleared
    <3> QED
      BY <2>1, <2>4, <3>1 DEF IsDentry
  <2> QED
    BY <2>3, <2>4
<1>3. ASSUME NEW z \in DOMAIN dent
      PROVE  /\ dent'[z].kids \in [DOMAIN dent'[z].kids -> DOMAIN dent]
             /\ DOMAIN dent'[z].kids \subseteq DOMAIN dent[z].kids
             /\ \A n \in DOMAIN dent'[z].kids :
                   /\ dent'[z].kids[n] = dent[z].kids[n]
                   /\ ~(z \in walked /\ n \in Unsynced(z))
  <2>1. dent[z].kids \in [DOMAIN dent[z].kids -> DOMAIN dent]
    BY DentryFacts
  <2>2. CASE z \in walked
    <3>1. dent'[z].kids = Without(dent[z].kids, Unsynced(z))
      BY <2>2, <1>2
    <3> QED
      BY <2>1, <3>1 DEF Without, Restrict
  <2>3. CASE z \notin walked
    <3>1. dent'[z].kids = dent[z].kids
      BY <2>3, <1>2
    <3> QED
      BY <2>1, <2>3, <3>1
  <2> QED
    BY <2>2, <2>3
<1>4. ASSUME NEW z \in DOMAIN dent' PROVE IsDentry(dent[z])'
  <2>1. z \in DOMAIN dent /\ DOMAIN dent' = DOMAIN dent /\ IsDentry(dent[z])
    BY DentryFacts DEF Cleared
  <2> QED
    BY <2>1, <1>2, <1>3, DentryFacts DEF IsDentry
<1>5. ASSUME NEW z \in DOMAIN dent
      PROVE  /\ dent'[z].name = dent[z].name
             /\ dent'[z].parent = dent[z].parent
             /\ IsDir(z) => IsDir(z)'
  BY <1>2 DEF IsDir
<1>6. ASSUME NEW z \in DOMAIN dent', NEW n \in DOMAIN dent'[z].kids PROVE OldKid(z, n)
  <2>1. z \in DOMAIN dent
    BY DEF Cleared
  <2>2. n \in DOMAIN dent[z].kids /\ dent'[z].kids[n] = dent[z].kids[n]
                                  /\ ~(z \in walked /\ n \in Unsynced(z))
    BY <1>3, <2>1
  <2>3. /\ dent[z].kids[n] \notin freed
        /\ dent[dent[z].kids[n]].parent = z /\ dent[dent[z].kids[n]].name = n
    BY <2>1, <2>2, DentryFacts
  <2>4. ASSUME NEW x \in walked, dent[z].kids[n] \in KidsNamed(x, Unsynced(x)) PROVE FALSE
    <3>1. PICK m \in DOMAIN dent[x].kids \cap Unsynced(x) : dent[x].kids[m] = dent[z].kids[n]
      BY <2>4 DEF KidsNamed
    <3>2. x = z /\ m = n
      BY <2>3, <3>1, DentryFacts
    <3> QED
      BY <2>2, <3>1, <3>2
  <2> QED
    BY <2>1, <2>2, <2>3, <2>4 DEF OldKid
<1>7. freed' \subseteq DOMAIN dent /\ Root \notin freed'
  <2>1. ASSUME NEW x \in walked, NEW y \in KidsNamed(x, Unsynced(x))
        PROVE  y \in DOMAIN dent /\ y # Root
    BY DentryFacts DEF KidsNamed
  <2> QED
    BY <2>1 DEF DentInv, TypedDentries, TreeSound
<1>8. DOMAIN dent' = DOMAIN dent
  BY DEF Cleared
<1> QED
  BY <1>1, <1>4, <1>5, <1>6, <1>7, <1>8, TreeStep

\* So does build_dentries, whichever numbers the missing names get.
LEMMA BuiltSound ==
    ASSUME DentInv, ReqInv, NEW t \in Threads,
           NEW ino \in Bijection(Missing(t), Numbers(Cardinality(Missing(t)))),
           dent' = Built(t, ino), freed' = freed
    PROVE  DentInv' /\ Grows
<1> DEFINE x == req[t].dir
           kids == [n \in DOMAIN dent[x].kids \cup Missing(t) |->
                       IF n \in Missing(t) THEN ino[n] ELSE dent[x].kids[n]]
           last == (NextIno - 1) + Cardinality(Missing(t))
           New(n) == [Dentry(n, x, req[t].page[n]) EXCEPT !.synced = TRUE]
<1>1. x \in DOMAIN dent /\ IsDir(x) /\ DOMAIN req[t].page \subseteq Names
      /\ req[t].page \in [DOMAIN req[t].page -> Types]
  BY DEF ReqInv, IsRequest
<1>2. Cardinality(Missing(t)) \in Nat
  <2>1. Missing(t) \subseteq Names
    BY <1>1 DEF Missing
  <2> QED
    BY <2>1, NamesFinite, FS_Subset, FS_CardinalityType
<1>3. last \in Nat /\ DOMAIN dent \cup Numbers(Cardinality(Missing(t))) = 1..last
  <2> DEFINE m == NextIno - 1
             c == Cardinality(Missing(t))
  <2>1. m \in Nat /\ NextIno = m + 1 /\ DOMAIN dent = 1..m
    BY NumberIsNew
  <2>2. c \in Nat
    BY <1>2
  <2>3. Numbers(c) = (m + 1)..(m + c)
    BY <2>1, <2>2 DEF Numbers
  <2> HIDE DEF m, c
  <2>4. 1..m \cup (m + 1)..(m + c) = 1..(m + c) /\ m + c \in Nat
    BY <2>1, <2>2, NoGap
  <2> QED
    BY <2>1, <2>3, <2>4 DEF m, c
<1>4. /\ ino \in [Missing(t) -> Numbers(Cardinality(Missing(t)))]
      /\ \A y \in Numbers(Cardinality(Missing(t))) : \E n \in Missing(t) : ino[n] = y
      /\ \A n, m \in Missing(t) : ino[n] = ino[m] => n = m
      /\ Range(ino) = Numbers(Cardinality(Missing(t)))
  BY DEF Bijection, Injection, Surjection, IsInjective, Range
<1>5. \A n \in Missing(t) : ino[n] \notin DOMAIN dent
  <2>1. \A y \in Numbers(Cardinality(Missing(t))) : y \notin DOMAIN dent
    BY <1>2, NumberIsNew DEF Numbers
  <2> QED
    BY <2>1, <1>4
<1>6. DOMAIN dent' = 1..last /\ DOMAIN dent \subseteq DOMAIN dent'
  BY <1>3, <1>4 DEF Built
<1>7. /\ dent'[x].kids = kids
      /\ dent'[x] \in [name : {dent[x].name}, parent : {dent[x].parent}, type : {dent[x].type},
                       fresh : BOOLEAN, complete : BOOLEAN, synced : BOOLEAN, kids : {kids}]
  <2>1. dent'[x] = [dent[x] EXCEPT !.kids = kids, !.synced = TRUE]
    BY <1>1 DEF Built
  <2>2. IsDentry(dent[x])
    BY <1>1, DentryFacts
  <2> QED
    BY <2>1, <2>2 DEF IsDentry
<1>8. ASSUME NEW z \in DOMAIN dent \ {x}
      PROVE  dent'[z] \in [name : {dent[z].name}, parent : {dent[z].parent},
                           type : {dent[z].type}, fresh : BOOLEAN, complete : BOOLEAN,
                           synced : BOOLEAN, kids : {dent[z].kids}]
  <2>1. PICK b \in BOOLEAN : dent'[z] = [dent[z] EXCEPT !.synced = b]
    <3> DEFINE b == dent[z].synced \/ z \in {kids[n] : n \in DOMAIN req[t].page}
    <3>1. dent'[z] = [dent[z] EXCEPT !.synced = b]
      BY <1>1 DEF Built
    <3>2. b \in BOOLEAN
      OBVIOUS
    <3> QED
      BY <3>1, <3>2
  <2>2. IsDentry(dent[z])
    BY DentryFacts
  <2> QED
    BY <2>1, <2>2 DEF IsDentry
<1>9. ASSUME NEW n \in Missing(t)
      PROVE  /\ ino[n] \in DOMAIN dent'
             /\ dent'[ino[n]] \in [name : {n}, parent : {x}, type : Types, fresh : BOOLEAN,
                                   complete : BOOLEAN, synced : BOOLEAN,
                                   kids : {dent'[ino[n]].kids}]
             /\ dent'[ino[n]].kids \in [{} -> DOMAIN dent']
  <2> DEFINE m == CHOOSE k \in Missing(t) : ino[k] = ino[n]
  <2>1. m = n
    BY <1>4
  <2>2. ino[n] \in Range(ino) /\ ino[n] \notin DOMAIN dent /\ ino[n] # x
    BY <1>1, <1>4, <1>5 DEF Range
  <2>3. dent'[ino[n]] = New(m)
    BY <2>2 DEF Built
  <2>4. n \in Names /\ req[t].page[n] \in Types
    BY <1>1 DEF Missing
  <2>5. dent'[ino[n]] = New(n)
    BY <2>1, <2>3
  <2>6. ino[n] \in DOMAIN dent'
    BY <2>2 DEF Built
  <2> QED
    BY <2>4, <2>5, <2>6 DEF Dentry
<1>10. /\ dent'[x].kids \in [DOMAIN dent[x].kids \cup Missing(t) -> DOMAIN dent']
       /\ DOMAIN dent'[x].kids \subseteq Names
  <2>1. \A n \in Missing(t) : ino[n] \in DOMAIN dent' /\ n \in Names
    BY <1>1, <1>9 DEF Missing
  <2>2. \A n \in DOMAIN dent[x].kids : dent[x].kids[n] \in DOMAIN dent' /\ n \in Names
    BY <1>1, <1>6, DentryFacts
  <2> QED
    BY <2>1, <2>2, <1>7
<1>11. \A z \in DOMAIN dent' : z \in DOMAIN dent \/ \E n \in Missing(t) : z = ino[n]
  BY <1>4 DEF Built
<1>12. ASSUME NEW z \in DOMAIN dent' PROVE IsDentry(dent[z])'
  <2>1. CASE z = x
    <3>1. IsDentry(dent[x])
      BY <1>1, DentryFacts
    <3> QED
      BY <2>1, <3>1, <1>6, <1>7, <1>10 DEF IsDentry
  <2>2. CASE z \in DOMAIN dent \ {x}
    <3>1. IsDentry(dent[z])
      BY <2>2, DentryFacts
    <3> QED
      BY <2>2, <3>1, <1>6, <1>8 DEF IsDentry
  <2>3. ASSUME NEW n \in Missing(t), z = ino[n] PROVE IsDentry(dent[z])'
    <3>1. n \in Names /\ x \in DOMAIN dent'
      BY <1>1, <1>6 DEF Missing
    <3> QED
      BY <2>3, <3>1, <1>9 DEF IsDentry
  <2> QED
    BY <2>1, <2>2, <2>3, <1>11
<1>13. ASSUME NEW z \in DOMAIN dent
       PROVE  /\ dent'[z].name = dent[z].name
              /\ dent'[z].parent = dent[z].parent
              /\ IsDir(z) => IsDir(z)'
  BY <1>7, <1>8 DEF IsDir
<1>14. ASSUME NEW z \in DOMAIN dent', NEW n \in DOMAIN dent'[z].kids
       PROVE  OldKid(z, n) \/ NewKid(z, n)
  <2>1. CASE z = x /\ n \in Missing(t)
    <3>1. dent'[z].kids[n] = ino[n]
      BY <2>1, <1>7
    <3> QED
      BY <2>1, <3>1, <1>1, <1>5, <1>9, <1>13 DEF NewKid
  <2>2. CASE z = x /\ n \notin Missing(t)
    <3>1. n \in DOMAIN dent[x].kids /\ dent'[x].kids[n] = dent[x].kids[n]
      BY <2>2, <1>7
    <3> QED
      BY <2>2, <3>1, <1>1, DentryFacts DEF OldKid
  <2>3. CASE z \in DOMAIN dent \ {x}
    <3>1. dent'[z].kids = dent[z].kids
      BY <2>3, <1>8
    <3> QED
      BY <2>3, <3>1, DentryFacts DEF OldKid
  <2>4. ASSUME NEW m \in Missing(t), z = ino[m] PROVE FALSE
    BY <2>4, <1>9
  <2> QED
    BY <2>1, <2>2, <2>3, <2>4, <1>11
<1>15. freed' \subseteq DOMAIN dent /\ Root \notin freed'
  BY DEF DentInv, TypedDentries, TreeSound
<1> HIDE DEF last
<1> QED
  BY <1>3, <1>6, <1>12, <1>13, <1>14, <1>15, TreeStep

-----------------------------------------------------------------------------
(* Steps that leave the tree alone, and changes of a request.              *)

LEMMA SameTree ==
    ASSUME DentInv, dent' = dent, freed' = freed
    PROVE  DentInv' /\ Grows
<1>1. \A x \in DOMAIN dent : IsDentry(dent[x])'
  BY DentryFacts DEF IsDentry
<1> QED
  BY <1>1, FlagsOnly DEF IsDir

\* Of one thread's request, whichever it becomes.
LEMMA RequestStep ==
    ASSUME ReqInv, Grows, NEW t \in Threads, OthersKept(t),
           IsRequest(req[t])', IsDir(req[t].dir)'
    PROVE  ReqInv'
<1>1. DOMAIN req' = Threads
  BY DEF OthersKept
<1>2. ASSUME NEW u \in Threads \ {t} PROVE IsRequest(req[u])' /\ IsDir(req[u].dir)'
  <2>1. req'[u] = req[u] /\ IsRequest(req[u]) /\ IsDir(req[u].dir)
    BY DEF ReqInv, OthersKept
  <2>2. DOMAIN dent \subseteq DOMAIN dent'
    BY DEF Grows
  <2>3. IsRequest(req[u])'
    BY <2>1, <2>2 DEF IsRequest
  <2>4. req[u].dir \in DOMAIN dent
    BY <2>1 DEF IsRequest
  <2>5. dent'[req[u].dir].type = "dir"
    BY <2>1, <2>4 DEF Grows, IsDir
  <2> QED
    BY <2>1, <2>3, <2>5 DEF IsDir
<1> QED
  BY <1>1, <1>2 DEF ReqInv

\* It goes on, in the same directory, with what it has found.
Moves(t, pc, found, target) ==
    OthersKept(t) /\ req'[t] = [req[t] EXCEPT !.pc = pc, !.found = found, !.target = target]

LEMMA GoesOn ==
    ASSUME ReqInv, Grows, NEW t \in Threads,
           NEW pc \in Steps, NEW found \in Types, NEW target \in DOMAIN dent',
           Moves(t, pc, found, target)
    PROVE  ReqInv'
<1>1. IsRequest(req[t]) /\ req[t].dir \in DOMAIN dent /\ IsDir(req[t].dir)
  BY DEF ReqInv, IsRequest
<1>2. req'[t] = [req[t] EXCEPT !.pc = pc, !.found = found, !.target = target] /\ OthersKept(t)
  BY DEF Moves
<1>3. DOMAIN dent \subseteq DOMAIN dent'
  BY DEF Grows
<1>4. req'[t].dir = req[t].dir /\ req'[t].page = req[t].page
  BY <1>1, <1>2 DEF IsRequest
<1>5. req'[t] \in [op : {req[t].op}, dir : DOMAIN dent', name : Names, pc : Steps,
                   lock : {req[t].lock}, type : Types, found : Types, target : DOMAIN dent',
                   page : {req[t].page}, seen : SUBSET Names, marker : Names \cup {"start"},
                   more : BOOLEAN]
  <2>1. req[t] \in [op : {req[t].op}, dir : DOMAIN dent', name : Names, pc : Steps,
                    lock : {req[t].lock}, type : Types, found : Types, target : DOMAIN dent,
                    page : {req[t].page}, seen : SUBSET Names, marker : Names \cup {"start"},
                    more : BOOLEAN]
    BY <1>1, <1>3 DEF IsRequest
  <2>2. [req[t] EXCEPT !.pc = pc, !.found = found, !.target = target]
           \in [op : {req[t].op}, dir : DOMAIN dent', name : Names, pc : Steps,
               lock : {req[t].lock}, type : Types, found : Types, target : DOMAIN dent',
               page : {req[t].page}, seen : SUBSET Names, marker : Names \cup {"start"},
               more : BOOLEAN]
    BY <2>1, ZenonT(30)
  <2> QED
    BY <2>2, <1>2
<1>6. IsRequest(req[t])'
  BY <1>1, <1>4, <1>5 DEF IsRequest
<1>7. IsDir(req[t].dir)'
  BY <1>1, <1>4 DEF Grows, IsDir
<1> QED
  BY <1>2, <1>6, <1>7, RequestStep

LEMMA GotoStep ==
    ASSUME ReqInv, Grows, NEW t \in Threads, NEW pc \in Steps, Goto(t, pc)
    PROVE  ReqInv'
<1>1. IsRequest(req[t]) /\ req[t].target \in DOMAIN dent' /\ req[t].found \in Types
  BY DEF ReqInv, IsRequest, Grows
<1>2. [req[t] EXCEPT !.pc = pc]
         = [req[t] EXCEPT !.pc = pc, !.found = req[t].found, !.target = req[t].target]
  BY <1>1 DEF IsRequest
<1>3. OthersKept(t) /\ req'[t] = [req[t] EXCEPT !.pc = pc]
  BY DEF Goto, ReqInv, OthersKept
<1>4. Moves(t, pc, req[t].found, req[t].target)
  BY <1>2, <1>3 DEF Moves
<1> QED
  BY <1>1, <1>4, GoesOn

LEMMA EmptyName == "" \in Names
<1>1. NameOrder \in Seq(Names) /\ NameOrder # <<>> /\ NameOrder[1] = ""
  BY CacheAssumption
<1>2. 1 \in DOMAIN NameOrder
  <2>1. Len(NameOrder) \in Nat \ {0}
    BY <1>1, EmptySeq
  <2>2. DOMAIN NameOrder = 1..Len(NameOrder)
    BY <1>1, LenProperties
  <2> QED
    BY <2>1, <2>2
<1> QED
  BY <1>1, <1>2 DEF Names, Range

LEMMA NoRequestTyped ==
    ASSUME DentInv
    PROVE  IsRequest(NoRequest) /\ IsDir(Root)
<1>1. Root \in DOMAIN dent /\ IsDir(Root)
  BY DEF DentInv, RootSound
<1> QED
  BY <1>1, EmptyName DEF IsRequest, NoRequest, Types, Steps

LEMMA FinishStep ==
    ASSUME DentInv', ReqInv, Grows, NEW t \in Threads, Finish(t)
    PROVE  ReqInv'
<1>1. req'[t] = NoRequest /\ req'[t].dir = Root /\ DOMAIN req'[t].page = {}
  BY DEF Finish, ReqInv, NoRequest
<1>2. Root \in DOMAIN dent' /\ IsDir(Root)'
  BY DEF DentInv, RootSound
<1>3. IsRequest(req[t])'
  <2>1. NoRequest \in [op : {"none"}, dir : {Root}, name : Names, pc : Steps, lock : {"none"},
                       type : Types, found : Types, target : {Root}, page : {NoRequest.page},
                       seen : SUBSET Names, marker : {"start"}, more : BOOLEAN]
    BY EmptyName DEF NoRequest, Types, Steps
  <2>2. NoRequest.page \in [{} -> Types]
    BY DEF NoRequest
  <2> QED
    BY <2>1, <2>2, <1>1, <1>2 DEF IsRequest
<1>4. IsDir(req[t].dir)'
  BY <1>1, <1>2 DEF IsDir
<1>5. OthersKept(t)
  BY DEF Finish, ReqInv, OthersKept
<1> QED
  BY <1>3, <1>4, <1>5, RequestStep

LEMMA FoundStep ==
    ASSUME ReqInv, Grows, NEW t \in Threads, NEW pc \in Steps, NEW found \in Types,
           req' = [req EXCEPT ![t].pc = pc, ![t].found = found]
    PROVE  ReqInv'
<1>1. IsRequest(req[t]) /\ req[t].target \in DOMAIN dent'
  BY DEF ReqInv, IsRequest, Grows
<1>2. [req[t] EXCEPT !.pc = pc, !.found = found]
         = [req[t] EXCEPT !.pc = pc, !.found = found, !.target = req[t].target]
  BY <1>1 DEF IsRequest
<1>3. OthersKept(t) /\ req'[t] = [req[t] EXCEPT !.pc = pc, !.found = found]
  BY DEF ReqInv, OthersKept
<1>4. Moves(t, pc, found, req[t].target)
  BY <1>2, <1>3 DEF Moves
<1> QED
  BY <1>1, <1>4, GoesOn

LEMMA TargetStep ==
    ASSUME ReqInv, Grows, NEW t \in Threads, NEW pc \in Steps, NEW target \in DOMAIN dent',
           req' = [req EXCEPT ![t].target = target, ![t].pc = pc]
    PROVE  ReqInv'
<1>1. IsRequest(req[t]) /\ req[t].found \in Types
  BY DEF ReqInv, IsRequest
<1>2. [req[t] EXCEPT !.target = target, !.pc = pc]
         = [req[t] EXCEPT !.pc = pc, !.found = req[t].found, !.target = target]
  BY <1>1 DEF IsRequest
<1>3. OthersKept(t) /\ req'[t] = [req[t] EXCEPT !.target = target, !.pc = pc]
  BY DEF ReqInv, OthersKept
<1>4. Moves(t, pc, req[t].found, target)
  BY <1>2, <1>3 DEF Moves
<1> QED
  BY <1>1, <1>4, GoesOn

\* A request begins.
LEMMA BeginStep ==
    ASSUME IInv, NEW t \in Threads, NEW op \in {"lookup", "create", "remove", "readdir"},
           NEW x \in DOMAIN dent, NEW name \in Names, NEW type \in Types,
           Begin(t, op, x, name, type)
    PROVE  IInv'
<1> DEFINE pc == IF op = "readdir" THEN "load" ELSE "find"
           lock == LockOf(op, x, name)
           r == [NoRequest EXCEPT !.op = op, !.dir = x, !.name = name, !.type = type,
                                  !.lock = lock, !.pc = pc]
<1>1. IsDir(x) /\ req' = [req EXCEPT ![t] = r] /\ UNCHANGED <<dent, freed, known, ub>>
  BY DEF Begin
<1>2. DentInv' /\ Grows /\ ReqInv
  BY <1>1, SameTree DEF IInv
<1>3. lock \in {"none", "shared", "exclusive"} /\ pc \in Steps
  BY DEF LockOf, Steps
<1>4. NoRequest.page \in [{} -> Types] /\ DOMAIN NoRequest.page = {}
  BY DEF NoRequest
<1>5. Root \in DOMAIN dent
  BY DEF IInv, DentInv, RootSound
<1> HIDE DEF pc, lock
<1>6. /\ r \in [op : {op}, dir : {x}, name : {name}, pc : {pc}, lock : {lock}, type : {type},
                found : Types, target : {Root}, page : {NoRequest.page}, seen : SUBSET Names,
                marker : {"start"}, more : BOOLEAN]
      /\ r.dir = x
  <2>1. NoRequest \in [op : {"none"}, dir : {Root}, name : {""}, pc : {"idle"}, lock : {"none"},
                       type : {"none"}, found : Types, target : {Root},
                       page : {NoRequest.page}, seen : SUBSET Names, marker : {"start"},
                       more : BOOLEAN]
    BY DEF NoRequest, Types
  <2> QED
    BY <2>1, ZenonT(30)
<1> HIDE DEF r
<1>7. IsRequest(r) /\ r.dir = x
  BY <1>3, <1>4, <1>5, <1>6 DEF IsRequest
<1>8. OthersKept(t) /\ req'[t] = r /\ dent' = dent
  BY <1>1, <1>2 DEF ReqInv, OthersKept
<1>9. IsRequest(req[t])' /\ IsDir(req[t].dir)'
  BY <1>1, <1>7, <1>8 DEF IsRequest, IsDir
<1>10. ReqInv'
  BY <1>2, <1>8, <1>9, RequestStep
<1> QED
  BY <1>1, <1>2, <1>10 DEF IInv

\* A page of a listing arrives.
LEMMA ListStep ==
    ASSUME IInv, NEW t \in Threads, ListPage(t)
    PROVE  IInv'
<1> DEFINE path == Path(req[t].dir)
           names == Page(path, req[t].marker)
           more == names # Behind(path, req[t].marker)
<1>1. DentInv' /\ Grows /\ ReqInv /\ dent' = dent
  BY SameTree DEF IInv, ListPage
<1>2. IsRequest(req[t]) /\ IsDir(req[t].dir)
  BY DEF IInv, ReqInv
<1>3. names \subseteq Names /\ more \in BOOLEAN
  BY DEF Page, Behind, Entries
<1>4. Listed(path, names) \in [names -> Types] /\ DOMAIN Listed(path, names) = names
  BY DEF Listed, Types
<1>5. PICK marker \in IF more THEN Last(names) ELSE {req[t].marker} :
         req' = [req EXCEPT ![t].pc = "build", ![t].page = Listed(path, names),
                            ![t].seen = @ \cup names, ![t].more = more, ![t].marker = marker]
  BY DEF ListPage
<1>6. marker \in Names \cup {"start"}
  BY <1>2, <1>3, <1>5 DEF Last, IsRequest
<1> DEFINE page == Listed(path, names)
           seen == req[t].seen \cup names
<1>7. /\ OthersKept(t)
      /\ req'[t] = [req[t] EXCEPT !.pc = "build", !.page = page, !.seen = seen, !.more = more,
                                  !.marker = marker]
  BY <1>1, <1>5 DEF ReqInv, OthersKept
<1>8. seen \in SUBSET Names /\ "build" \in Steps
  BY <1>2, <1>3 DEF IsRequest, Steps
<1> HIDE DEF path, names, more, page, seen
<1>9. req'[t].dir = req[t].dir /\ req'[t].page = page
  BY <1>2, <1>7 DEF IsRequest
<1>10. req'[t] \in [op : {req[t].op}, dir : DOMAIN dent, name : Names, pc : Steps,
                    lock : {req[t].lock}, type : Types, found : Types, target : DOMAIN dent,
                    page : {page}, seen : SUBSET Names, marker : Names \cup {"start"},
                    more : BOOLEAN]
  <2>1. req[t] \in [op : {req[t].op}, dir : DOMAIN dent, name : Names, pc : Steps,
                    lock : {req[t].lock}, type : Types, found : Types, target : DOMAIN dent,
                    page : {req[t].page}, seen : SUBSET Names, marker : Names \cup {"start"},
                    more : BOOLEAN]
    BY <1>2 DEF IsRequest
  <2>2. [req[t] EXCEPT !.pc = "build", !.page = page, !.seen = seen, !.more = more,
                       !.marker = marker]
           \in [op : {req[t].op}, dir : DOMAIN dent, name : Names, pc : Steps,
                lock : {req[t].lock}, type : Types, found : Types, target : DOMAIN dent,
                page : {page}, seen : SUBSET Names, marker : Names \cup {"start"},
                more : BOOLEAN]
    BY <2>1, <1>3, <1>6, <1>8, ZenonT(30) DEF more
  <2> QED
    BY <2>2, <1>7
<1>11. IsRequest(req[t])'
  BY <1>1, <1>2, <1>3, <1>4, <1>9, <1>10 DEF IsRequest, page
<1>12. IsDir(req[t].dir)'
  BY <1>1, <1>2, <1>9 DEF IsDir
<1>13. ReqInv'
  BY <1>1, <1>7, <1>11, <1>12, RequestStep
<1> QED
  BY <1>1, <1>13 DEF IInv, ListPage

-----------------------------------------------------------------------------
(* The invariant is kept by every step.                                    *)

\* What a step has to show.
LEMMA Kept ==
    ASSUME IInv, DentInv', Grows, ReqInv', known' \subseteq known \cup DOMAIN dent',
           ub' \in BOOLEAN
    PROVE  IInv'
  BY DEF IInv, Grows

\* Requests begin.
LEMMA RequestKept ==
    ASSUME IInv, NEW t \in Threads, Request(t)
    PROVE  IInv'
<1>1. known \subseteq DOMAIN dent /\ \A x \in known : DOMAIN dent[x].kids \subseteq Names
  BY DentryFacts DEF IInv
<1>2. {"none", "reg", "dir"} \subseteq Types
  BY DEF Types
<1>3. CASE Lookup(t)
  BY <1>1, <1>2, <1>3, BeginStep DEF Lookup
<1>4. CASE Create(t)
  BY <1>1, <1>2, <1>4, BeginStep DEF Create
<1>5. CASE Remove(t)
  BY <1>1, <1>2, <1>5, BeginStep DEF Remove
<1>6. CASE ReadDir(t)
  BY <1>1, <1>2, <1>6, BeginStep, EmptyName DEF ReadDir
<1> QED
  BY <1>3, <1>4, <1>5, <1>6 DEF Request

\* The steps that leave the tree as it is.
LEMMA ReadStep ==
    ASSUME IInv, NEW t \in Threads,
           \/ FindMissing(t) \/ FindCached(t) \/ HeadFile(t) \/ HeadDir(t) \/ ListOne(t)
           \/ HeadExpired(t) \/ PutObject(t) \/ RemoveFound(t) \/ DeleteObject(t)
           \/ LoadDir(t) \/ UseAfterFree(t)
    PROVE  IInv'
<1>1. DentInv /\ ReqInv /\ UNCHANGED <<dent, freed, known>> /\ ub' \in BOOLEAN
  BY DEF IInv, FindMissing, FindCached, HeadFile, HeadDir, ListOne, HeadExpired, PutObject,
         RemoveFound, DeleteObject, LoadDir, UseAfterFree
<1>2. DentInv' /\ Grows
  BY <1>1, SameTree
<1>3. /\ {"idle", "head_file", "head_dir", "list_one", "add", "head_expired", "apply", "found",
          "absent", "add_new", "delete", "remove_child", "list", "entries"} \subseteq Steps
      /\ {"reg", "dir"} \subseteq Types
  BY DEF Steps, Types
<1>4. ReqInv'
  <2>1. CASE FindMissing(t)
    BY <2>1, <1>1, <1>2, <1>3, GotoStep DEF FindMissing
  <2>2. CASE FindCached(t)
    <3>1. Child(t) \in DOMAIN dent'
      BY <2>2, <1>1, DentryFacts DEF FindCached, Child, Hit, ReqInv, IsRequest
    <3>2. PICK pc \in {"found", "head_expired"} :
             req' = [req EXCEPT ![t].target = Child(t), ![t].pc = pc]
      BY <2>2 DEF FindCached
    <3> QED
      BY <3>1, <3>2, <1>1, <1>2, <1>3, TargetStep
  <2>3. CASE HeadFile(t)
    BY <2>3, <1>1, <1>2, <1>3, GotoStep, FoundStep DEF HeadFile
  <2>4. CASE HeadDir(t)
    BY <2>4, <1>1, <1>2, <1>3, GotoStep, FoundStep DEF HeadDir
  <2>5. CASE ListOne(t)
    BY <2>5, <1>1, <1>2, <1>3, GotoStep, FoundStep DEF ListOne
  <2>6. CASE HeadExpired(t)
    BY <2>6, <1>1, <1>2, <1>3, GotoStep DEF HeadExpired
  <2>7. CASE PutObject(t)
    BY <2>7, <1>1, <1>2, <1>3, GotoStep DEF PutObject
  <2>8. CASE RemoveFound(t)
    BY <2>8, <1>1, <1>2, <1>3, GotoStep, FinishStep DEF RemoveFound
  <2>9. CASE DeleteObject(t)
    BY <2>9, <1>1, <1>2, <1>3, GotoStep DEF DeleteObject
  <2>10. CASE LoadDir(t)
    <3>1. PICK pc \in {"entries", "list"} : Goto(t, pc)
      BY <2>10 DEF LoadDir
    <3> QED
      BY <3>1, <1>1, <1>2, <1>3, GotoStep
  <2>11. CASE UseAfterFree(t)
    BY <2>11, <1>1 DEF UseAfterFree, ReqInv, IsRequest, IsDir
  <2> QED
    BY <2>1, <2>2, <2>3, <2>4, <2>5, <2>6, <2>7, <2>8, <2>9, <2>10, <2>11
<1> QED
  BY <1>1, <1>2, <1>4, Kept

\* The steps that answer, or give up.
LEMMA AnswerStep ==
    ASSUME IInv, NEW t \in Threads,
           ReplyEntry(t) \/ Absent(t) \/ ReplyEntries(t) \/ Fail(t)
    PROVE  IInv'
<1>1. DentInv /\ ReqInv /\ UNCHANGED <<dent, freed, ub>> /\ ub' \in BOOLEAN
  BY DEF IInv, ReplyEntry, Absent, ReplyEntries, Fail
<1>2. DentInv' /\ Grows
  BY <1>1, SameTree
<1>3. ReqInv'
  <2>1. CASE Absent(t)
    <3>1. "put" \in Steps
      BY DEF Steps
    <3> QED
      BY <2>1, <3>1, <1>1, <1>2, GotoStep, FinishStep DEF Absent
  <2>2. CASE ~Absent(t)
    <3>1. Finish(t)
      BY <2>2 DEF ReplyEntry, ReplyEntries, Fail
    <3> QED
      BY <3>1, <1>1, <1>2, FinishStep
  <2> QED
    BY <2>1, <2>2
<1>4. known' \subseteq known \cup DOMAIN dent
  <2>1. CASE ReplyEntry(t)
    <3>1. req[t].target \in DOMAIN dent
      BY <1>1 DEF ReqInv, IsRequest
    <3> QED
      BY <2>1, <3>1 DEF ReplyEntry
  <2>2. CASE Absent(t)
    BY <2>2 DEF Absent
  <2>3. CASE ReplyEntries(t)
    <3>1. req[t].dir \in DOMAIN dent
      BY <1>1 DEF ReqInv, IsRequest
    <3>2. \A names : KidsNamed(req[t].dir, names) \subseteq DOMAIN dent
      BY <3>1, <1>1, DentryFacts DEF KidsNamed
    <3> QED
      BY <2>3, <3>2 DEF ReplyEntries
  <2>4. CASE Fail(t)
    BY <2>4 DEF Fail
  <2> QED
    BY <2>1, <2>2, <2>3, <2>4
<1> QED
  BY <1>1, <1>2, <1>3, <1>4, Kept

\* The steps that change the tree.
LEMMA ChangeStep ==
    ASSUME IInv, NEW t \in Threads,
           \/ AddFound(t) \/ ApplyHead(t) \/ AddNew(t) \/ RemoveChild(t)
           \/ BuildPage(t) \/ ClearUnsynced(t)
    PROVE  IInv'
<1>1. DentInv /\ ReqInv /\ IsRequest(req[t]) /\ IsDir(req[t].dir)
  BY DEF IInv, ReqInv
<1>2. /\ req[t].dir \in DOMAIN dent /\ req[t].target \in DOMAIN dent
      /\ req[t].name \in Names /\ req[t].found \in Types /\ req[t].type \in Types
  BY <1>1 DEF IsRequest
<1>3. {"found", "list", "clear", "entries"} \subseteq Steps
  BY DEF Steps
<1>4. known' \subseteq known \cup DOMAIN dent /\ ub' \in BOOLEAN
  BY DEF IInv, AddFound, ApplyHead, AddNew, RemoveChild, BuildPage, ClearUnsynced
<1>5. DentInv' /\ Grows /\ ReqInv'
  <2>1. CASE AddFound(t)
    <3>1. DentInv' /\ Grows /\ NextIno \in DOMAIN dent'
      BY <2>1, <1>1, <1>2, AddKidSound DEF AddFound
    <3> QED
      BY <2>1, <3>1, <1>1, <1>3, TargetStep DEF AddFound
  <2>2. CASE AddNew(t)
    <3>1. DentInv' /\ Grows /\ NextIno \in DOMAIN dent'
      BY <2>2, <1>1, <1>2, AddKidSound DEF AddNew
    <3> QED
      BY <2>2, <3>1, <1>1, <1>3, TargetStep DEF AddNew
  <2>3. CASE ApplyHead(t)
    <3> DEFINE x == req[t].target
               type == IF dent[x].type = "dir" THEN "dir" ELSE "none"
    <3>1. dent' = [dent EXCEPT ![x] = [@ EXCEPT !.fresh = TRUE, !.type = type]]
      BY <2>3, <1>2 DEF ApplyHead
    <3>2. IsDentry(dent[x]) /\ type \in Types
      BY <1>1, <1>2, DentryFacts DEF Types
    <3>3. dent'[x] \in [name : {dent[x].name}, parent : {dent[x].parent}, type : {type},
                        fresh : BOOLEAN, complete : BOOLEAN, synced : BOOLEAN,
                        kids : {dent[x].kids}]
      BY <3>1, <3>2, <1>2 DEF IsDentry
    <3>4. ASSUME NEW y \in DOMAIN dent
          PROVE  /\ IsDentry(dent[y])'
                 /\ dent'[y].name = dent[y].name /\ dent'[y].parent = dent[y].parent
                 /\ dent'[y].kids = dent[y].kids
                 /\ IsDir(y) => IsDir(y)'
      <4>1. DOMAIN dent' = DOMAIN dent
        BY <3>1
      <4>2. CASE y = x
        BY <4>1, <4>2, <3>2, <3>3 DEF IsDentry, IsDir
      <4>3. CASE y # x
        <5>1. dent'[y] = dent[y] /\ IsDentry(dent[y])
          BY <4>3, <3>1, <1>1, DentryFacts
        <5> QED
          BY <5>1, <4>1 DEF IsDentry, IsDir
      <4> QED
        BY <4>2, <4>3
    <3>5. DOMAIN dent' = DOMAIN dent /\ freed' = freed
      BY <2>3, <3>1 DEF ApplyHead
    <3> HIDE DEF x, type
    <3>6. DentInv' /\ Grows
      BY <3>4, <3>5, <1>1, FlagsOnly
    <3> QED
      BY <2>3, <3>6, <1>1, <1>3, GotoStep DEF ApplyHead
  <2>4. CASE RemoveChild(t)
    <3>1. DentInv' /\ Grows
      BY <2>4, <1>1, <1>2, RemoveKidSound DEF RemoveChild
    <3> QED
      BY <2>4, <3>1, <1>1, FinishStep DEF RemoveChild
  <2>5. CASE BuildPage(t)
    <3>1. PICK ino \in Bijection(Missing(t), Numbers(Cardinality(Missing(t)))) :
             dent' = Built(t, ino)
      BY <2>5 DEF BuildPage
    <3>2. DentInv' /\ Grows
      BY <2>5, <3>1, <1>1, BuiltSound DEF BuildPage
    <3>3. PICK pc \in {"list", "clear"} : Goto(t, pc)
      BY <2>5 DEF BuildPage
    <3> QED
      BY <3>2, <3>3, <1>1, <1>3, GotoStep
  <2>6. CASE ClearUnsynced(t)
    <3> DEFINE walked == Walked(req[t].dir)
    <3>1. CASE /\ dent' = Cleared(walked)
               /\ freed' = freed \cup UNION {KidsNamed(y, Unsynced(y)) : y \in walked}
               /\ Goto(t, "entries")
      <4>1. walked \in SUBSET DOMAIN dent
        BY DEF Walked
      <4> HIDE DEF walked
      <4>2. DentInv' /\ Grows
        BY <4>1, <3>1, <1>1, ClearedSound
      <4> QED
        BY <4>2, <3>1, <1>1, <1>3, GotoStep
    <3>2. CASE UNCHANGED <<dent, freed, req>>
      <4>1. DentInv' /\ Grows
        BY <3>2, <1>1, SameTree
      <4> QED
        BY <4>1, <3>2, <1>1 DEF ReqInv, IsRequest, IsDir
    <3> QED
      BY <2>6, <3>1, <3>2 DEF ClearUnsynced
  <2> QED
    BY <2>1, <2>2, <2>3, <2>4, <2>5, <2>6
<1> QED
  BY <1>4, <1>5 DEF IInv, Grows

\* What happens around the cache.
LEMMA OtherStep ==
    ASSUME IInv, UseFreed \/ OtherClient \/ Idle \/ UNCHANGED vars
    PROVE  IInv'
<1>1. DentInv /\ ReqInv /\ UNCHANGED <<dent, freed, known, req>> /\ ub' \in BOOLEAN
  BY DEF IInv, UseFreed, OtherClient, Idle, vars
<1>2. DentInv' /\ Grows
  BY <1>1, SameTree
<1>3. ReqInv'
  BY <1>1 DEF ReqInv, IsRequest, IsDir
<1> QED
  BY <1>1, <1>2, <1>3, Kept

LEMMA ExpireStep ==
    ASSUME IInv, NEW x \in Attached, Expire(x)
    PROVE  IInv'
<1>1. /\ DentInv /\ ReqInv /\ x \in DOMAIN dent
      /\ UNCHANGED <<freed, known, req>> /\ ub' \in BOOLEAN
      /\ dent' = [dent EXCEPT ![x].fresh = FALSE]
  BY DEF IInv, Expire, Attached
<1>2. ASSUME NEW y \in DOMAIN dent
      PROVE  /\ IsDentry(dent[y])'
             /\ dent'[y].name = dent[y].name /\ dent'[y].parent = dent[y].parent
             /\ dent'[y].kids = dent[y].kids
             /\ IsDir(y) => IsDir(y)'
  <2>1. IsDentry(dent[y])
    BY <1>1, DentryFacts
  <2>2. dent'[y] \in [name : {dent[y].name}, parent : {dent[y].parent}, type : {dent[y].type},
                      fresh : BOOLEAN, complete : BOOLEAN, synced : BOOLEAN,
                      kids : {dent[y].kids}]
    BY <2>1, <1>1 DEF IsDentry
  <2>3. DOMAIN dent' = DOMAIN dent
    BY <1>1
  <2> QED
    BY <2>1, <2>2, <2>3 DEF IsDentry, IsDir
<1>3. DOMAIN dent' = DOMAIN dent /\ freed' = freed
  BY <1>1
<1>4. DentInv' /\ Grows
  BY <1>1, <1>2, <1>3, FlagsOnly
<1>5. ReqInv'
  BY <1>1, <1>3, <1>4 DEF ReqInv, IsRequest, Grows
<1> QED
  BY <1>1, <1>4, <1>5, Kept

LEMMA InitSound == ASSUME Init PROVE IInv
<1>1. dent = [x \in {Root} |-> Dentry("", Root, "dir")] /\ freed = {} /\ known = {Root}
      /\ ub = FALSE /\ req = [t \in Threads |-> NoRequest]
  BY DEF Init
<1>2. DOMAIN dent = 1..1 /\ DOMAIN dent = {Root}
  <2>1. DOMAIN dent = {Root}
    BY <1>1
  <2>2. 1..1 = {1}
    OBVIOUS
  <2> QED
    BY <2>1, <2>2 DEF Root
<1>3. IsFiniteSet(DOMAIN dent) /\ DOMAIN dent = 1..Cardinality(DOMAIN dent)
  BY <1>2, UpTo
<1>4. IsDentry(dent[Root]) /\ IsDir(Root) /\ DOMAIN dent[Root].kids = {}
  <2>1. dent[Root] \in [name : Names, parent : {Root}, type : {"dir"}, fresh : BOOLEAN,
                        complete : BOOLEAN, synced : BOOLEAN, kids : {dent[Root].kids}]
    BY <1>1, EmptyName DEF Dentry
  <2>2. dent[Root].kids \in [{} -> {Root}]
    BY <1>1 DEF Dentry
  <2> QED
    BY <2>1, <2>2, <1>2 DEF IsDentry, IsDir, Types
<1>5. TypedDentries
  BY <1>1, <1>2, <1>3, <1>4 DEF TypedDentries
<1>6. TreeSound /\ RootSound
  BY <1>1, <1>2, <1>4 DEF TreeSound, RootSound, HasKids
<1>7. ReqInv
  <2>1. IsRequest(NoRequest) /\ NoRequest.dir = Root
    BY <1>5, <1>6, NoRequestTyped DEF DentInv, NoRequest
  <2> QED
    BY <2>1, <1>1, <1>4 DEF ReqInv
<1> QED
  BY <1>1, <1>2, <1>5, <1>6, <1>7 DEF IInv, DentInv

-----------------------------------------------------------------------------
(* The theorems.                                                           *)

\* IInv is an invariant, whatever the threads, the store and other clients do.
THEOREM Invariance == Spec => []IInv
<1>1. Init => IInv
  BY InitSound
<1>2. IInv /\ [Next]_vars => IInv'
  <2> SUFFICES ASSUME IInv, [Next]_vars PROVE IInv'
    OBVIOUS
  <2>1. ASSUME NEW t \in Threads, Request(t) PROVE IInv'
    BY <2>1, RequestKept
  <2>2. ASSUME NEW t \in Threads, Handler(t) PROVE IInv'
    BY <2>2, ReadStep, AnswerStep, ListStep, ChangeStep DEF Handler
  <2>3. ASSUME NEW x \in Attached, Expire(x) PROVE IInv'
    BY <2>3, ExpireStep
  <2>4. CASE UseFreed \/ OtherClient \/ Idle \/ UNCHANGED vars
    BY <2>4, OtherStep
  <2> QED
    BY <2>1, <2>2, <2>3, <2>4 DEF Next
<1> QED
  BY <1>1, <1>2, PTL DEF Spec

\* The state is well-formed: inode numbers are given without gaps, each is
\* given once, and every handler works in a dentry that exists.
THEOREM TypeCorrect == Spec => []TypeOK
<1>1. IInv => TypeOK
  BY DEF IInv, DentInv, TypedDentries, ReqInv, TypeOK
<1> QED
  BY <1>1, Invariance, PTL

\* get_child never comes to a dentry that remove_child has freed, nor to one
\* that belongs elsewhere, and only directories have children, however the
\* handlers of any number of threads interleave.
THEOREM TreeIsSound == Spec => []TreeSound
<1>1. IInv => TreeSound
  BY DEF IInv, DentInv
<1> QED
  BY <1>1, Invariance, PTL
=============================================================================
