-------------------------- MODULE DentryPathsProofs --------------------------
(***************************************************************************)
(* Paths in the tree of dentries.  Path, Ancestry, Walked and Attached are *)
(* recursive functions over the dentries there are; what holds of them     *)
(* follows from one invariant: a dentry is younger than its parent, and    *)
(* the equations that define the first two have solutions.  A step of the  *)
(* system extends a solution by the dentries it makes, so that no          *)
(* induction over the tree is needed, and a dentry keeps its path for good *)
(* because names and parents never change.                                 *)
(***************************************************************************)
EXTENDS DentryCacheProofs, WellFoundedInduction

-----------------------------------------------------------------------------
(* The invariant.                                                          *)

PathFcn(f) ==
    f = [y \in DOMAIN dent |->
            IF y = Root THEN <<>> ELSE Append(f[dent[y].parent], dent[y].name)]

AncestryFcn(f) ==
    f = [y \in DOMAIN dent |-> IF y = Root THEN {Root} ELSE {y} \cup f[dent[y].parent]]

Older == \A x \in DOMAIN dent \ {Root} : dent[x].parent < x

Rooted == IInv /\ Older /\ (\E f : PathFcn(f)) /\ (\E f : AncestryFcn(f))

\* What follows for every dentry: parents are older, the path of the root is
\* empty, and below it each name is appended in turn.
ParentLaws ==
    /\ DentInv /\ Root \in DOMAIN dent /\ DOMAIN dent \subseteq Nat \ {0}
    /\ \A x \in DOMAIN dent : dent[x].parent \in DOMAIN dent /\ dent[x].name \in Names
    /\ \A x \in DOMAIN dent \ {Root} : dent[x].parent < x

PathLaws ==
    /\ Path(Root) = <<>>
    /\ \A x \in DOMAIN dent \ {Root} : Path(x) = Append(Path(dent[x].parent), dent[x].name)

AncestryLaws ==
    /\ Ancestry(Root) = {Root}
    /\ \A x \in DOMAIN dent \ {Root} : Ancestry(x) = {x} \cup Ancestry(dent[x].parent)

\* What every step does to the dentries there are, and how it makes new ones.
Extends ==
    /\ DOMAIN dent \subseteq DOMAIN dent' /\ freed \subseteq freed'
    /\ \A x \in DOMAIN dent :
          /\ dent'[x].name = dent[x].name /\ dent'[x].parent = dent[x].parent
          /\ IsDir(x)' <=> IsDir(x)
    /\ \A x \in DOMAIN dent' \ DOMAIN dent : dent'[x].parent \in DOMAIN dent

-----------------------------------------------------------------------------
(* What the recursive definitions say.                                     *)

\* Every set of inode numbers has a smallest one.
LEMMA Smallest ==
    ASSUME NEW T \in SUBSET Nat, T # {}
    PROVE  \E x \in T : \A y \in T : ~(y < x)
<1>1. PICK x \in T : \A y \in T : ~(<<y, x>> \in OpToRel(<, Nat))
  BY NatLessThanWellFounded, WFMin
<1> QED
  BY <1>1 DEF OpToRel

LEMMA ParentFacts == Rooted => ParentLaws
<1> SUFFICES ASSUME Rooted PROVE ParentLaws
  OBVIOUS
<1>1. DentInv /\ Root \in DOMAIN dent
  BY DEF Rooted, IInv, DentInv, RootSound
<1>2. DOMAIN dent \subseteq Nat \ {0}
  BY <1>1, NumberIsNew
<1>3. ASSUME NEW x \in DOMAIN dent
      PROVE  dent[x].parent \in DOMAIN dent /\ dent[x].name \in Names
  <2>1. IsDentry(dent[x])
    BY <1>1, DentryFacts
  <2> QED
    BY <2>1 DEF IsDentry
<1> QED
  BY <1>1, <1>2, <1>3 DEF Rooted, Older, ParentLaws

LEMMA PathFacts == Rooted => PathLaws
<1> SUFFICES ASSUME Rooted PROVE PathLaws
  OBVIOUS
<1> DEFINE p == CHOOSE f : PathFcn(f)
<1>1. PathFcn(p)
  BY DEF Rooted
<1>2. ASSUME NEW x PROVE Path(x) = p[x]
  BY DEF Path, PathFcn
<1> HIDE DEF p
<1>3. p = [y \in DOMAIN dent |->
              IF y = Root THEN <<>> ELSE Append(p[dent[y].parent], dent[y].name)]
  BY <1>1 DEF PathFcn
<1> QED
  BY <1>2, <1>3, ParentFacts DEF PathLaws, ParentLaws

LEMMA AncestryFacts == Rooted => AncestryLaws
<1> SUFFICES ASSUME Rooted PROVE AncestryLaws
  OBVIOUS
<1> DEFINE p == CHOOSE f : AncestryFcn(f)
<1>1. AncestryFcn(p)
  BY DEF Rooted
<1>2. ASSUME NEW x PROVE Ancestry(x) = p[x]
  BY DEF Ancestry, AncestryFcn
<1> HIDE DEF p
<1>3. p = [y \in DOMAIN dent |-> IF y = Root THEN {Root} ELSE {y} \cup p[dent[y].parent]]
  BY <1>1 DEF AncestryFcn
<1> QED
  BY <1>2, <1>3, ParentFacts DEF AncestryLaws, ParentLaws

\* The same after a step.
LEMMA LaterFacts == Rooted' => ParentLaws' /\ PathLaws' /\ AncestryLaws'
  BY ParentFacts, PathFacts, AncestryFacts, PTL

\* A path is a sequence of names, and only that of the root is empty.
LEMMA PathType ==
    ASSUME Rooted
    PROVE  \A x \in DOMAIN dent : Path(x) \in Seq(Names) /\ (Path(x) = <<>> <=> x = Root)
<1> DEFINE T == {x \in DOMAIN dent : Path(x) \notin Seq(Names)}
<1>1. T = {}
  <2> SUFFICES ASSUME T # {} PROVE FALSE
    OBVIOUS
  <2>1. T \in SUBSET Nat
    BY ParentFacts DEF ParentLaws
  <2>2. PICK x \in T : \A y \in T : ~(y < x)
    BY <2>1, Smallest
  <2>3. x \in DOMAIN dent /\ x # Root
    <3>1. <<>> \in Seq(Names)
      OBVIOUS
    <3> QED
      BY <3>1, <2>2, PathFacts DEF PathLaws
  <2>4. dent[x].parent \in DOMAIN dent \ T /\ dent[x].name \in Names
    <3>1. dent[x].parent \in DOMAIN dent /\ dent[x].parent < x /\ dent[x].name \in Names
      BY <2>3, ParentFacts DEF ParentLaws
    <3> QED
      BY <2>2, <3>1
  <2>5. Path(x) = Append(Path(dent[x].parent), dent[x].name)
    BY <2>3, PathFacts DEF PathLaws
  <2> QED
    BY <2>4, <2>5
<1>2. ASSUME NEW x \in DOMAIN dent \ {Root} PROVE Path(x) # <<>>
  <2>1. Path(x) = Append(Path(dent[x].parent), dent[x].name) /\ dent[x].parent \in DOMAIN dent
    BY PathFacts, ParentFacts DEF ParentLaws, PathLaws
  <2>2. Path(dent[x].parent) \in Seq(Names) /\ dent[x].name \in Names
    BY <1>1, <2>1, ParentFacts DEF ParentLaws
  <2> QED
    BY <2>1, <2>2
<1> QED
  BY <1>1, <1>2, PathFacts DEF PathLaws

\* The dentries above one: the root and itself among them, none younger.
LEMMA AncestryType ==
    ASSUME Rooted
    PROVE  \A x \in DOMAIN dent :
              /\ Ancestry(x) \subseteq DOMAIN dent
              /\ x \in Ancestry(x) /\ Root \in Ancestry(x)
              /\ \A y \in Ancestry(x) : y <= x
<1> DEFINE Good(x) == /\ Ancestry(x) \subseteq DOMAIN dent
                      /\ x \in Ancestry(x) /\ Root \in Ancestry(x)
                      /\ \A y \in Ancestry(x) : y <= x
           T == {x \in DOMAIN dent : ~Good(x)}
<1> SUFFICES ASSUME T # {} PROVE FALSE
  OBVIOUS
<1>1. T \in SUBSET Nat
  BY ParentFacts DEF ParentLaws
<1>2. PICK x \in T : \A y \in T : ~(y < x)
  BY <1>1, Smallest
<1>3. x # Root
  BY <1>2, AncestryFacts, ParentFacts DEF Root, ParentLaws, AncestryLaws
<1>4. dent[x].parent \in DOMAIN dent \ T /\ dent[x].parent < x
  BY <1>2, <1>3, ParentFacts DEF ParentLaws
<1>5. Ancestry(x) = {x} \cup Ancestry(dent[x].parent)
  BY <1>2, <1>3, AncestryFacts DEF AncestryLaws
<1>6. Good(dent[x].parent)
  BY <1>4
<1>7. \A y \in Ancestry(x) : y <= x
  BY <1>4, <1>5, <1>6, ParentFacts DEF ParentLaws
<1> QED
  BY <1>2, <1>4, <1>5, <1>6, <1>7

\* The dentries of the tree are those that hang in their parents all the way up.
Hangs(y) == y \in Kids(dent[y].parent)

AttachedFcn(f) ==
    f = [y \in DOMAIN dent |-> \/ y = Root
                               \/ Hangs(y) /\ f[dent[y].parent]]

LEMMA AttachedSolution == Rooted => \E f : AttachedFcn(f)
<1> SUFFICES ASSUME Rooted PROVE \E f : AttachedFcn(f)
  OBVIOUS
<1> DEFINE f == [y \in DOMAIN dent |-> \A z \in Ancestry(y) \ {Root} : Hangs(z)]
<1>1. ASSUME NEW y \in DOMAIN dent
      PROVE  f[y] = (y = Root \/ (Hangs(y) /\ f[dent[y].parent]))
  <2>1. CASE y = Root
    <3>1. Ancestry(y) = {Root}
      BY <2>1, AncestryFacts DEF AncestryLaws
    <3> QED
      BY <2>1, <3>1
  <2>2. CASE y # Root
    <3>1. dent[y].parent \in DOMAIN dent /\ Ancestry(y) = {y} \cup Ancestry(dent[y].parent)
      BY <2>2, ParentFacts, AncestryFacts DEF ParentLaws, AncestryLaws
    <3>2. f[y] = (\A z \in Ancestry(y) \ {Root} : Hangs(z))
      OBVIOUS
    <3>3. f[dent[y].parent] = (\A z \in Ancestry(dent[y].parent) \ {Root} : Hangs(z))
      BY <3>1
    <3> QED
      BY <2>2, <3>1, <3>2, <3>3
  <2> QED
    BY <2>1, <2>2
<1>2. f = [y \in DOMAIN dent |-> f[y]]
  OBVIOUS
<1> HIDE DEF f
<1>3. AttachedFcn(f)
  BY <1>1, <1>2 DEF AttachedFcn
<1> QED
  BY <1>3

LEMMA AttachedFacts ==
    ASSUME Rooted
    PROVE  /\ Root \in Attached /\ Attached \subseteq DOMAIN dent
           /\ \A y \in DOMAIN dent \ {Root} :
                 y \in Attached <=> Hangs(y) /\ dent[y].parent \in Attached
<1> DEFINE p == CHOOSE f : AttachedFcn(f)
<1>1. AttachedFcn(p)
  BY AttachedSolution
<1>2. Attached = {y \in DOMAIN dent : p[y]}
  BY DEF Attached, AttachedFcn, Hangs
<1> HIDE DEF p
<1>3. \A y \in DOMAIN dent : p[y] = (y = Root \/ (Hangs(y) /\ p[dent[y].parent]))
  BY <1>1 DEF AttachedFcn
<1> QED
  BY <1>2, <1>3, ParentFacts DEF ParentLaws

\* The directories that clear_unsync_dentry comes to below x.
Leads(y) == y # Root /\ Hangs(y) /\ IsDir(y) /\ dent[y].synced

WalkedFcn(x, f) ==
    f = [y \in DOMAIN dent |->
            \/ y = x
            \/ /\ y # Root /\ y \in Kids(dent[y].parent)
               /\ IsDir(y) /\ dent[y].synced
               /\ f[dent[y].parent]]

LEMMA WalkedSolution ==
    ASSUME Rooted, NEW x \in DOMAIN dent
    PROVE  \E f : WalkedFcn(x, f)
<1> DEFINE f == [y \in DOMAIN dent |->
                    x \in Ancestry(y) /\ \A z \in Ancestry(y) \ Ancestry(x) : Leads(z)]
<1>1. ASSUME NEW y \in DOMAIN dent
      PROVE  f[y] = (y = x \/ (Leads(y) /\ f[dent[y].parent]))
  <2>1. f[y] = (x \in Ancestry(y) /\ \A z \in Ancestry(y) \ Ancestry(x) : Leads(z))
    OBVIOUS
  <2>2. CASE y = x
    BY <2>1, <2>2, AncestryType
  <2>3. CASE y # x /\ y = Root
    <3>1. x \notin Ancestry(y)
      BY <2>3, AncestryFacts DEF AncestryLaws
    <3> QED
      BY <2>1, <2>3, <3>1 DEF Leads
  <2>4. CASE y # x /\ y # Root
    <3>1. dent[y].parent \in DOMAIN dent /\ Ancestry(y) = {y} \cup Ancestry(dent[y].parent)
      BY <2>4, ParentFacts, AncestryFacts DEF ParentLaws, AncestryLaws
    <3>2. f[dent[y].parent]
             = (x \in Ancestry(dent[y].parent)
                  /\ \A z \in Ancestry(dent[y].parent) \ Ancestry(x) : Leads(z))
      BY <3>1
    <3>3. x \in Ancestry(y) => y \notin Ancestry(x)
      BY <2>4, AncestryType, ParentFacts DEF ParentLaws
    <3> QED
      BY <2>1, <2>4, <3>1, <3>2, <3>3
  <2> QED
    BY <2>2, <2>3, <2>4
<1>2. f = [y \in DOMAIN dent |-> f[y]]
  OBVIOUS
<1> HIDE DEF f
<1>3. WalkedFcn(x, f)
  BY <1>1, <1>2 DEF WalkedFcn, Leads, Hangs
<1> QED
  BY <1>3

LEMMA WalkedFacts ==
    ASSUME Rooted, NEW x \in DOMAIN dent
    PROVE  /\ x \in Walked(x) /\ Walked(x) \subseteq DOMAIN dent
           /\ \A y \in DOMAIN dent \ {x} :
                 y \in Walked(x) <=> Leads(y) /\ dent[y].parent \in Walked(x)
<1> DEFINE p == CHOOSE f : WalkedFcn(x, f)
<1>1. WalkedFcn(x, p)
  BY WalkedSolution
<1>2. Walked(x) = {y \in DOMAIN dent : p[y]}
  BY DEF Walked, WalkedFcn
<1> HIDE DEF p
<1>3. \A y \in DOMAIN dent : p[y] = (y = x \/ (Leads(y) /\ p[dent[y].parent]))
  BY <1>1 DEF WalkedFcn, Leads, Hangs
<1>4. \A y \in DOMAIN dent : Leads(y) => dent[y].parent \in DOMAIN dent
  BY ParentFacts DEF ParentLaws
<1> QED
  BY <1>2, <1>3, <1>4

-----------------------------------------------------------------------------
(* Steps.                                                                  *)

\* A dentry keeps its path, and what is above it, for good.
LEMMA PathStable ==
    ASSUME Rooted, Rooted', Extends
    PROVE  \A x \in DOMAIN dent : Path(x)' = Path(x)
<1> DEFINE T == {x \in DOMAIN dent : Path(x)' # Path(x)}
<1> SUFFICES ASSUME T # {} PROVE FALSE
  OBVIOUS
<1>1. T \in SUBSET Nat
  BY ParentFacts DEF ParentLaws
<1>2. PICK x \in T : \A y \in T : ~(y < x)
  BY <1>1, Smallest
<1>3. Path(Root) = <<>> /\ Path(Root)' = <<>>
  BY PathFacts, LaterFacts DEF Root, PathLaws
<1>4. x \in DOMAIN dent /\ x # Root
  BY <1>2, <1>3
<1>5. dent[x].parent \in DOMAIN dent \ T
  <2>1. dent[x].parent \in DOMAIN dent /\ dent[x].parent < x
    BY <1>4, ParentFacts DEF ParentLaws
  <2> QED
    BY <1>2, <2>1
<1>6. Path(x) = Append(Path(dent[x].parent), dent[x].name)
  BY <1>4, PathFacts DEF PathLaws
<1>7. x \in DOMAIN dent' /\ dent'[x].parent = dent[x].parent /\ dent'[x].name = dent[x].name
  BY <1>4 DEF Extends
<1>8. PICK y : y = dent[x].parent
  OBVIOUS
<1>9. Path(x)' = Append(Path(y)', dent'[x].name)
  <2>1. \A z \in DOMAIN dent' \ {Root} : Path(z)' = Append(Path(dent[z].parent)', dent'[z].name)
    BY LaterFacts DEF Root, PathLaws
  <2> QED
    BY <2>1, <1>4, <1>7, <1>8
<1>10. Path(y)' = Path(y)
  BY <1>5, <1>8
<1> QED
  BY <1>2, <1>6, <1>7, <1>8, <1>9, <1>10

LEMMA AncestryStable ==
    ASSUME Rooted, Rooted', Extends
    PROVE  \A x \in DOMAIN dent : Ancestry(x)' = Ancestry(x)
<1> DEFINE T == {x \in DOMAIN dent : Ancestry(x)' # Ancestry(x)}
<1> SUFFICES ASSUME T # {} PROVE FALSE
  OBVIOUS
<1>1. T \in SUBSET Nat
  BY ParentFacts DEF ParentLaws
<1>2. PICK x \in T : \A y \in T : ~(y < x)
  BY <1>1, Smallest
<1>3. Ancestry(Root) = {Root} /\ Ancestry(Root)' = {Root}
  BY AncestryFacts, LaterFacts DEF Root, AncestryLaws
<1>4. x \in DOMAIN dent /\ x # Root
  BY <1>2, <1>3
<1>5. dent[x].parent \in DOMAIN dent \ T
  <2>1. dent[x].parent \in DOMAIN dent /\ dent[x].parent < x
    BY <1>4, ParentFacts DEF ParentLaws
  <2> QED
    BY <1>2, <2>1
<1>6. Ancestry(x) = {x} \cup Ancestry(dent[x].parent)
  BY <1>4, AncestryFacts DEF AncestryLaws
<1>7. x \in DOMAIN dent' /\ dent'[x].parent = dent[x].parent
  BY <1>4 DEF Extends
<1>8. PICK y : y = dent[x].parent
  OBVIOUS
<1>9. Ancestry(x)' = {x} \cup Ancestry(y)'
  <2>1. \A z \in DOMAIN dent' \ {Root} : Ancestry(z)' = {z} \cup Ancestry(dent[z].parent)'
    BY LaterFacts DEF Root, AncestryLaws
  <2> QED
    BY <2>1, <1>4, <1>7, <1>8
<1>10. Ancestry(y)' = Ancestry(y)
  BY <1>5, <1>8
<1> QED
  BY <1>2, <1>6, <1>8, <1>9, <1>10

\* The solutions of the two equations go on to the dentries a step makes.
LEMMA RootedStep ==
    ASSUME Rooted, IInv', Extends
    PROVE  Rooted'
<1>1. DentInv /\ DentInv' /\ Root \in DOMAIN dent
  BY DEF Rooted, IInv, DentInv, RootSound
<1>2. ASSUME NEW x \in DOMAIN dent' \ DOMAIN dent
      PROVE  dent'[x].parent \in DOMAIN dent /\ dent'[x].parent < x /\ x # Root
  <2>1. DOMAIN dent = 1..(NextIno - 1) /\ NextIno \in Nat \ {0}
    BY <1>1, NumberIsNew
  <2>2. DOMAIN dent' \subseteq Nat \ {0}
    BY <1>1, FS_CardinalityType DEF DentInv, TypedDentries
  <2>3. dent'[x].parent \in DOMAIN dent
    BY DEF Extends
  <2> QED
    BY <1>1, <2>1, <2>2, <2>3
<1>3. Older'
  BY <1>2 DEF Older, Extends, Rooted, Root
<1>4. \A x \in DOMAIN dent : dent[x].parent \in DOMAIN dent
  BY ParentFacts DEF ParentLaws
<1>5. (\E f : PathFcn(f))'
  <2>1. PICK f : PathFcn(f)
    BY DEF Rooted
  <2> DEFINE g == [y \in DOMAIN dent' |->
                      IF y \in DOMAIN dent THEN f[y]
                      ELSE Append(f[dent'[y].parent], dent'[y].name)]
  <2>2. ASSUME NEW y \in DOMAIN dent'
        PROVE  g[y] = IF y = Root THEN <<>> ELSE Append(g[dent'[y].parent], dent'[y].name)
    <3>1. CASE y \in DOMAIN dent
      <4>1. /\ dent'[y].parent = dent[y].parent /\ dent'[y].name = dent[y].name
            /\ dent[y].parent \in DOMAIN dent /\ dent[y].parent \in DOMAIN dent'
        BY <3>1, <1>4 DEF Extends
      <4>2. f[y] = IF y = Root THEN <<>> ELSE Append(f[dent[y].parent], dent[y].name)
        BY <3>1, <2>1 DEF PathFcn
      <4> QED
        BY <3>1, <4>1, <4>2
    <3>2. CASE y \notin DOMAIN dent
      BY <3>2, <1>2 DEF Extends
    <3> QED
      BY <3>1, <3>2
  <2>3. g = [y \in DOMAIN dent' |->
                IF y = Root THEN <<>> ELSE Append(g[dent'[y].parent], dent'[y].name)]
    <3> HIDE DEF g
    <3>1. DOMAIN g = DOMAIN dent' /\ g = [y \in DOMAIN dent' |-> g[y]]
      BY DEF g
    <3> QED
      BY <3>1, <2>2
  <2> HIDE DEF g
  <2> QED
    BY <2>3 DEF PathFcn, Root
<1>6. (\E f : AncestryFcn(f))'
  <2>1. PICK f : AncestryFcn(f)
    BY DEF Rooted
  <2> DEFINE g == [y \in DOMAIN dent' |->
                      IF y \in DOMAIN dent THEN f[y] ELSE {y} \cup f[dent'[y].parent]]
  <2>2. ASSUME NEW y \in DOMAIN dent'
        PROVE  g[y] = IF y = Root THEN {Root} ELSE {y} \cup g[dent'[y].parent]
    <3>1. CASE y \in DOMAIN dent
      <4>1. /\ dent'[y].parent = dent[y].parent
            /\ dent[y].parent \in DOMAIN dent /\ dent[y].parent \in DOMAIN dent'
        BY <3>1, <1>4 DEF Extends
      <4>2. f[y] = IF y = Root THEN {Root} ELSE {y} \cup f[dent[y].parent]
        BY <3>1, <2>1 DEF AncestryFcn
      <4> QED
        BY <3>1, <4>1, <4>2
    <3>2. CASE y \notin DOMAIN dent
      BY <3>2, <1>2 DEF Extends
    <3> QED
      BY <3>1, <3>2
  <2>3. g = [y \in DOMAIN dent' |-> IF y = Root THEN {Root} ELSE {y} \cup g[dent'[y].parent]]
    <3> HIDE DEF g
    <3>1. DOMAIN g = DOMAIN dent' /\ g = [y \in DOMAIN dent' |-> g[y]]
      BY DEF g
    <3> QED
      BY <3>1, <2>2
  <2> HIDE DEF g
  <2> QED
    BY <2>3 DEF AncestryFcn, Root
<1> QED
  BY <1>3, <1>5, <1>6 DEF Rooted

-----------------------------------------------------------------------------
(* What the four changes of the tree do, field by field.                   *)

\* The fields of x that no change of the tree touches, and its flags.
SameDentry(x) ==
    /\ x \in DOMAIN dent'
    /\ dent'[x].name = dent[x].name /\ dent'[x].parent = dent[x].parent
    /\ dent'[x].type = dent[x].type

SameKids(x) ==
    /\ DOMAIN dent'[x].kids = DOMAIN dent[x].kids
    /\ \A n \in DOMAIN dent[x].kids : dent'[x].kids[n] = dent[x].kids[n]

SameFlags(x) ==
    dent'[x].fresh = dent[x].fresh /\ dent'[x].complete = dent[x].complete
        /\ dent'[x].synced = dent[x].synced

\* new hangs in x by the name, beside what x had.
AddedTo(x, name, new) ==
    /\ NextIno \notin DOMAIN dent /\ DOMAIN dent' = DOMAIN dent \cup {NextIno}
    /\ dent'[NextIno] = new
    /\ \A z \in DOMAIN dent : SameDentry(z) /\ SameFlags(z) /\ (z # x => SameKids(z))
    /\ DOMAIN dent'[x].kids = DOMAIN dent[x].kids \cup {name}
    /\ \A n \in DOMAIN dent'[x].kids :
          dent'[x].kids[n] = IF n = name THEN NextIno ELSE dent[x].kids[n]

LEMMA AddKidEffect ==
    ASSUME DentInv, NEW x \in DOMAIN dent, NEW name, NEW new, dent' = AddKid(x, name, new)
    PROVE  AddedTo(x, name, new)
<1> DEFINE y == NextIno
<1>1. y \notin DOMAIN dent
  BY NumberIsNew
<1>2. /\ DOMAIN dent' = DOMAIN dent \cup {y}
      /\ dent'[y] = new
      /\ dent'[x] = [dent[x] EXCEPT !.kids = Bind(@, name, y)]
      /\ \A z \in DOMAIN dent \ {x} : dent'[z] = dent[z]
  BY <1>1 DEF AddKid
<1>3. IsDentry(dent[x])
  BY DentryFacts
<1>4. dent'[x] \in [name : {dent[x].name}, parent : {dent[x].parent}, type : {dent[x].type},
                    fresh : {dent[x].fresh}, complete : {dent[x].complete},
                    synced : {dent[x].synced}, kids : {Bind(dent[x].kids, name, y)}]
  BY <1>2, <1>3 DEF IsDentry
<1>5. /\ DOMAIN dent'[x].kids = DOMAIN dent[x].kids \cup {name}
      /\ \A n \in DOMAIN dent'[x].kids :
            dent'[x].kids[n] = IF n = name THEN y ELSE dent[x].kids[n]
  BY <1>4 DEF Bind
<1>6. \A z \in DOMAIN dent : SameDentry(z) /\ SameFlags(z) /\ (z # x => SameKids(z))
  BY <1>2, <1>4 DEF SameDentry, SameFlags, SameKids
<1> QED
  BY <1>1, <1>2, <1>5, <1>6 DEF AddedTo

\* x loses the names, and nothing else happens.
LosesNames(x, names) ==
    /\ DOMAIN dent'[x].kids = DOMAIN dent[x].kids \ names
    /\ \A n \in DOMAIN dent'[x].kids : dent'[x].kids[n] = dent[x].kids[n]

LEMMA RemoveKidEffect ==
    ASSUME DentInv, NEW x \in DOMAIN dent, NEW name,
           dent' = [dent EXCEPT ![x].kids = Without(@, {name})]
    PROVE  /\ DOMAIN dent' = DOMAIN dent /\ LosesNames(x, {name})
           /\ \A z \in DOMAIN dent : SameDentry(z) /\ SameFlags(z) /\ (z # x => SameKids(z))
<1>1. IsDentry(dent[x])
  BY DentryFacts
<1>2. dent'[x] \in [name : {dent[x].name}, parent : {dent[x].parent}, type : {dent[x].type},
                    fresh : {dent[x].fresh}, complete : {dent[x].complete},
                    synced : {dent[x].synced}, kids : {Without(dent[x].kids, {name})}]
  BY <1>1 DEF IsDentry
<1>3. LosesNames(x, {name})
  BY <1>2 DEF LosesNames, Without, Restrict
<1>4. \A z \in DOMAIN dent \ {x} : dent'[z] = dent[z]
  OBVIOUS
<1> QED
  BY <1>2, <1>3, <1>4 DEF SameDentry, SameFlags, SameKids

\* Each page entry that x had no dentry of gets one; the page's entries are
\* marked.
BuiltFrom(t, ino) ==
    LET x == req[t].dir
        page == req[t].page
    IN  /\ \A n \in Missing(t) :
              /\ ino[n] \in DOMAIN dent' \ DOMAIN dent
              /\ dent'[ino[n]].name = n /\ dent'[ino[n]].parent = x
              /\ dent'[ino[n]].type = page[n] /\ DOMAIN dent'[ino[n]].kids = {}
              /\ dent'[ino[n]].synced /\ ~dent'[ino[n]].complete
        /\ \A y \in DOMAIN dent' \ DOMAIN dent : \E n \in Missing(t) : y = ino[n]
        /\ \A z \in DOMAIN dent :
              /\ SameDentry(z) /\ (dent'[z].complete = dent[z].complete)
              /\ z # x => SameKids(z)
              /\ z # x => (dent'[z].synced <=>
                             dent[z].synced \/ \E n \in DOMAIN page \ Missing(t) :
                                                  z = dent[x].kids[n])
        /\ DOMAIN dent'[x].kids = DOMAIN dent[x].kids \cup DOMAIN page
        /\ \A n \in DOMAIN dent'[x].kids :
              dent'[x].kids[n] = IF n \in Missing(t) THEN ino[n] ELSE dent[x].kids[n]

LEMMA BuiltEffect ==
    ASSUME DentInv, ReqInv, NEW t \in Threads,
           NEW ino \in Bijection(Missing(t), Numbers(Cardinality(Missing(t)))),
           dent' = Built(t, ino)
    PROVE  DOMAIN dent \subseteq DOMAIN dent' /\ BuiltFrom(t, ino)
<1> DEFINE x == req[t].dir
           page == req[t].page
           kids == [n \in DOMAIN dent[x].kids \cup Missing(t) |->
                       IF n \in Missing(t) THEN ino[n] ELSE dent[x].kids[n]]
           listed == {kids[n] : n \in DOMAIN req[t].page}
           New(n) == [Dentry(n, x, req[t].page[n]) EXCEPT !.synced = TRUE]
<1>1. x \in DOMAIN dent /\ IsDentry(dent[x]) /\ DOMAIN page \subseteq Names
  BY DentryFacts DEF ReqInv, IsRequest
<1>2. Missing(t) = DOMAIN page \ DOMAIN dent[x].kids
  BY DEF Missing
<1>3. Cardinality(Missing(t)) \in Nat
  <2>1. Missing(t) \subseteq Names
    BY <1>1, <1>2
  <2> QED
    BY <2>1, NamesFinite, FS_Subset, FS_CardinalityType
<1>4. /\ ino \in [Missing(t) -> Numbers(Cardinality(Missing(t)))]
      /\ \A n, m \in Missing(t) : ino[n] = ino[m] => n = m
      /\ \A y \in Range(ino) : \E n \in Missing(t) : y = ino[n]
  BY DEF Bijection, Injection, Surjection, IsInjective, Range
<1>5. \A n \in Missing(t) : ino[n] \notin DOMAIN dent /\ ino[n] \in Range(ino)
  <2>1. \A y \in Numbers(Cardinality(Missing(t))) : y \notin DOMAIN dent
    BY <1>3, NumberIsNew DEF Numbers
  <2> QED
    BY <2>1, <1>4 DEF Range
<1>6. DOMAIN dent' = DOMAIN dent \cup Range(ino)
  BY DEF Built
<1>7. dent'[x] \in [name : {dent[x].name}, parent : {dent[x].parent}, type : {dent[x].type},
                    fresh : {dent[x].fresh}, complete : {dent[x].complete}, synced : {TRUE},
                    kids : {kids}]
  <2>1. dent'[x] = [dent[x] EXCEPT !.kids = kids, !.synced = TRUE]
    BY <1>1, <1>6 DEF Built
  <2> QED
    BY <2>1, <1>1 DEF IsDentry
<1>8. ASSUME NEW z \in DOMAIN dent \ {x}
      PROVE  dent'[z] \in [name : {dent[z].name}, parent : {dent[z].parent},
                           type : {dent[z].type}, fresh : {dent[z].fresh},
                           complete : {dent[z].complete},
                           synced : {dent[z].synced \/ z \in listed}, kids : {dent[z].kids}]
  <2>1. PICK b : b = (dent[z].synced \/ z \in listed)
    OBVIOUS
  <2>2. dent'[z] = [dent[z] EXCEPT !.synced = b]
    BY <2>1, <1>1, <1>6 DEF Built
  <2>3. IsDentry(dent[z])
    BY DentryFacts
  <2>4. dent'[z] \in [name : {dent[z].name}, parent : {dent[z].parent},
                      type : {dent[z].type}, fresh : {dent[z].fresh},
                      complete : {dent[z].complete}, synced : {b}, kids : {dent[z].kids}]
    BY <2>2, <2>3 DEF IsDentry
  <2> QED
    BY <2>1, <2>4
<1>9. ASSUME NEW n \in Missing(t)
      PROVE  /\ ino[n] \in DOMAIN dent' \ DOMAIN dent
             /\ dent'[ino[n]] = New(n)
  <2>1. (CHOOSE k \in Missing(t) : ino[k] = ino[n]) = n
    BY <1>4
  <2>2. ino[n] \in DOMAIN dent' /\ ino[n] \notin DOMAIN dent /\ ino[n] # x
    BY <1>1, <1>5, <1>6
  <2>3. dent'[ino[n]] = New(CHOOSE k \in Missing(t) : ino[k] = ino[n])
    BY <2>2, <1>6 DEF Built
  <2> QED
    BY <2>1, <2>2, <2>3
<1>10. ASSUME NEW n \in Missing(t)
       PROVE  /\ dent'[ino[n]].name = n /\ dent'[ino[n]].parent = x
              /\ dent'[ino[n]].type = page[n] /\ DOMAIN dent'[ino[n]].kids = {}
              /\ dent'[ino[n]].synced /\ ~dent'[ino[n]].complete
  <2>1. New(n) \in [name : {n}, parent : {x}, type : {page[n]}, fresh : BOOLEAN,
                    complete : {FALSE}, synced : {TRUE}, kids : {[k \in {} |-> Root]}]
    BY DEF Dentry
  <2>2. dent'[ino[n]] = New(n)
    BY <1>9
  <2> HIDE DEF New
  <2> QED
    BY <2>1, <2>2
<1>11. \A y \in DOMAIN dent' \ DOMAIN dent : \E n \in Missing(t) : y = ino[n]
  BY <1>4, <1>6
<1>12. ASSUME NEW z \in DOMAIN dent
       PROVE  /\ SameDentry(z) /\ dent'[z].complete = dent[z].complete
              /\ z # x => SameKids(z)
  BY <1>6, <1>7, <1>8 DEF SameDentry, SameKids
<1>13. ASSUME NEW z \in DOMAIN dent, z # x
       PROVE  dent'[z].synced <=>
                 dent[z].synced \/ \E n \in DOMAIN page \ Missing(t) : z = dent[x].kids[n]
  <2>1. dent'[z].synced = (dent[z].synced \/ z \in listed)
    BY <1>8, <1>13
  <2>2. z \in listed <=> \E n \in DOMAIN page \ Missing(t) : z = dent[x].kids[n]
    <3>1. \A n \in DOMAIN page : kids[n] = IF n \in Missing(t) THEN ino[n] ELSE dent[x].kids[n]
      BY <1>2
    <3> QED
      BY <3>1, <1>5
  <2>3. dent[z].synced \in BOOLEAN
    <3>1. IsDentry(dent[z])
      BY DentryFacts
    <3> QED
      BY <3>1 DEF IsDentry
  <2> HIDE DEF listed
  <2> QED
    BY <2>1, <2>2, <2>3
<1>14. /\ DOMAIN dent'[x].kids = DOMAIN dent[x].kids \cup DOMAIN page
       /\ \A n \in DOMAIN dent'[x].kids :
             dent'[x].kids[n] = IF n \in Missing(t) THEN ino[n] ELSE dent[x].kids[n]
  BY <1>2, <1>7
<1> HIDE DEF kids, listed, New
<1> QED
  BY <1>6, <1>9, <1>10, <1>11, <1>12, <1>13, <1>14 DEF BuiltFrom

\* The walked directories lose what is not marked; the marks of the others go.
ClearedIn(walked) ==
    /\ DOMAIN dent' = DOMAIN dent
    /\ \A z \in DOMAIN dent : SameDentry(z)
    /\ \A z \in walked :
          /\ LosesNames(z, Unsynced(z)) /\ dent'[z].synced
          /\ dent'[z].complete <=> dent[z].complete \/ HasKids(z)
    /\ \A z \in DOMAIN dent \ walked :
          /\ SameKids(z) /\ (dent'[z].complete <=> dent[z].complete)
          /\ dent'[z].synced <=> dent[z].synced /\ ~\E x \in walked : z \in Kids(x)

LEMMA ClearedEffect ==
    ASSUME DentInv, NEW walked \in SUBSET DOMAIN dent, dent' = Cleared(walked)
    PROVE  ClearedIn(walked)
<1>1. DOMAIN dent' = DOMAIN dent
  BY DEF Cleared
<1>2. ASSUME NEW z \in walked
      PROVE  dent'[z] \in [name : {dent[z].name}, parent : {dent[z].parent},
                           type : {dent[z].type}, fresh : {TRUE},
                           complete : {dent[z].complete \/ HasKids(z)}, synced : {TRUE},
                           kids : {Without(dent[z].kids, Unsynced(z))}]
  <2>1. dent'[z] = [dent[z] EXCEPT !.synced = TRUE, !.fresh = TRUE,
                                   !.complete = @ \/ HasKids(z),
                                   !.kids = Without(@, Unsynced(z))]
    BY DEF Cleared
  <2>2. IsDentry(dent[z])
    BY DentryFacts
  <2>3. PICK c, k : c = (dent[z].complete \/ HasKids(z)) /\ k = Without(dent[z].kids, Unsynced(z))
    OBVIOUS
  <2>4. dent'[z] = [dent[z] EXCEPT !.synced = TRUE, !.fresh = TRUE, !.complete = c, !.kids = k]
    BY <2>1, <2>2, <2>3 DEF IsDentry
  <2>5. dent'[z] \in [name : {dent[z].name}, parent : {dent[z].parent}, type : {dent[z].type},
                      fresh : {TRUE}, complete : {c}, synced : {TRUE}, kids : {k}]
    BY <2>2, <2>4 DEF IsDentry
  <2> QED
    BY <2>3, <2>5
<1>3. ASSUME NEW z \in DOMAIN dent \ walked
      PROVE  /\ dent'[z] \in [name : {dent[z].name}, parent : {dent[z].parent},
                              type : {dent[z].type}, fresh : BOOLEAN,
                              complete : {dent[z].complete}, synced : BOOLEAN,
                              kids : {dent[z].kids}]
             /\ dent'[z].synced <=> dent[z].synced /\ ~\E x \in walked : z \in Kids(x)
  <2>1. IsDentry(dent[z])
    BY DentryFacts
  <2>2. CASE dent[z].synced /\ \E x \in walked : z \in Kids(x)
    <3>1. dent'[z] = [dent[z] EXCEPT !.synced = FALSE, !.fresh = TRUE]
      BY <2>2 DEF Cleared
    <3> QED
      BY <2>1, <2>2, <3>1 DEF IsDentry
  <2>3. CASE ~(dent[z].synced /\ \E x \in walked : z \in Kids(x))
    <3>1. dent'[z] = dent[z]
      BY <2>3 DEF Cleared
    <3> QED
      BY <2>1, <2>3, <3>1 DEF IsDentry
  <2> QED
    BY <2>2, <2>3
<1>4. \A z \in DOMAIN dent : SameDentry(z)
  BY <1>1, <1>2, <1>3 DEF SameDentry
<1>5. ASSUME NEW z \in walked
      PROVE  /\ LosesNames(z, Unsynced(z)) /\ dent'[z].synced
             /\ dent'[z].complete <=> dent[z].complete \/ HasKids(z)
  <2>1. LosesNames(z, Unsynced(z))
    BY <1>2 DEF LosesNames, Without, Restrict
  <2>2. dent'[z].synced /\ dent'[z].complete = (dent[z].complete \/ HasKids(z))
    BY <1>2
  <2> QED
    BY <2>1, <2>2
<1>6. \A z \in DOMAIN dent \ walked :
          /\ SameKids(z) /\ (dent'[z].complete <=> dent[z].complete)
          /\ dent'[z].synced <=> dent[z].synced /\ ~\E x \in walked : z \in Kids(x)
  BY <1>3 DEF SameKids
<1> QED
  BY <1>1, <1>4, <1>5, <1>6 DEF ClearedIn

-----------------------------------------------------------------------------
(* Every step extends the tree.                                            *)

\* Steps that do not touch names, parents or types, and make no dentry.
LEMMA SameDentriesExtend ==
    ASSUME DOMAIN dent' = DOMAIN dent, freed \subseteq freed',
           \A x \in DOMAIN dent : SameDentry(x)
    PROVE  Extends
  BY DEF Extends, SameDentry, IsDir

LEMMA AddedExtends ==
    ASSUME NEW x \in DOMAIN dent, NEW name, NEW new, new.parent = x, AddedTo(x, name, new),
           freed \subseteq freed'
    PROVE  Extends
  BY DEF Extends, AddedTo, SameDentry, IsDir

\* What add_child adds for a found and for a new object.
NewDentry(t, type) ==
    {Dentry(req[t].name, req[t].dir, type),
     [Dentry(req[t].name, req[t].dir, type) EXCEPT !.fresh = TRUE]}

LEMMA NewDentryFields ==
    ASSUME NEW t, NEW type, NEW new \in NewDentry(t, type)
    PROVE  /\ new.name = req[t].name /\ new.parent = req[t].dir /\ new.type = type
           /\ DOMAIN new.kids = {} /\ ~new.complete /\ ~new.synced
<1> DEFINE d == Dentry(req[t].name, req[t].dir, type)
<1>1. d \in [name : {req[t].name}, parent : {req[t].dir}, type : {type}, fresh : BOOLEAN,
             complete : {FALSE}, synced : {FALSE}, kids : {[n \in {} |-> Root]}]
  BY DEF Dentry
<1>2. new = d \/ new = [d EXCEPT !.fresh = TRUE]
  BY DEF NewDentry
<1> HIDE DEF d
<1>3. new \in [name : {req[t].name}, parent : {req[t].dir}, type : {type}, fresh : BOOLEAN,
               complete : {FALSE}, synced : {FALSE}, kids : {[n \in {} |-> Root]}]
  BY <1>1, <1>2
<1> QED
  BY <1>3

\* find_dentry adds what the store has, create_dentry what it has put.
LEMMA AddStep ==
    ASSUME IInv, NEW t \in Threads, AddFound(t) \/ AddNew(t)
    PROVE  /\ UNCHANGED <<bucket, freed, known, ub>>
           /\ \E type \in {req[t].found, req[t].type} :
                 /\ AddFound(t) => type = req[t].found
                 /\ AddNew(t) => type = req[t].type
                 /\ \E new \in NewDentry(t, type) : AddedTo(req[t].dir, req[t].name, new)
           /\ req' = [req EXCEPT ![t].target = NextIno, ![t].pc = "found"]
<1>1. DentInv /\ req[t].dir \in DOMAIN dent /\ IsRequest(req[t])
  BY DEF IInv, ReqInv, IsRequest
<1>2. req[t].pc = IF AddFound(t) THEN "add" ELSE "add_new"
  BY DEF AddFound, AddNew, Local, At
<1>3. CASE AddFound(t)
  <2>1. ~AddNew(t)
    BY <1>2, <1>3 DEF AddNew, Local, At
  <2> QED
    BY <2>1, <1>1, <1>3, AddKidEffect DEF AddFound, NewDentry
<1>4. CASE AddNew(t)
  <2>1. ~AddFound(t)
    BY <1>4 DEF AddNew, AddFound, Local, At
  <2> QED
    BY <2>1, <1>1, <1>4, AddKidEffect DEF AddNew, NewDentry
<1> QED
  BY <1>3, <1>4

\* Changes of the flags or of a file's type.
LEMMA FlagStep ==
    ASSUME IInv,
           \/ \E t \in Threads : ApplyHead(t)
           \/ \E x \in Attached : Expire(x)
    PROVE  /\ DOMAIN dent' = DOMAIN dent /\ UNCHANGED <<bucket, freed, known, ub>>
           /\ \A x \in DOMAIN dent :
                 /\ dent'[x].name = dent[x].name /\ dent'[x].parent = dent[x].parent
                 /\ SameKids(x) /\ (IsDir(x)' <=> IsDir(x))
                 /\ dent'[x].synced = dent[x].synced /\ dent'[x].complete = dent[x].complete
<1>1. ASSUME NEW x \in DOMAIN dent, NEW type,
             IF dent[x].type = "dir" THEN type = "dir" ELSE type # "dir",
             NEW fresh, dent' = [dent EXCEPT ![x] = [@ EXCEPT !.fresh = fresh, !.type = type]]
      PROVE  /\ DOMAIN dent' = DOMAIN dent
             /\ \A y \in DOMAIN dent :
                   /\ dent'[y].name = dent[y].name /\ dent'[y].parent = dent[y].parent
                   /\ SameKids(y) /\ (IsDir(y)' <=> IsDir(y))
                   /\ dent'[y].synced = dent[y].synced /\ dent'[y].complete = dent[y].complete
  <2>1. IsDentry(dent[x])
    BY DentryFacts DEF IInv
  <2>2. dent'[x] \in [name : {dent[x].name}, parent : {dent[x].parent}, type : {type},
                      fresh : {fresh}, complete : {dent[x].complete},
                      synced : {dent[x].synced}, kids : {dent[x].kids}]
    BY <2>1, <1>1 DEF IsDentry
  <2>3. \A y \in DOMAIN dent \ {x} : dent'[y] = dent[y]
    BY <1>1
  <2> QED
    BY <2>2, <2>3, <1>1 DEF SameKids, IsDir
<1>2. ASSUME NEW t \in Threads, ApplyHead(t)
      PROVE  \E x \in DOMAIN dent : \E type, fresh :
                /\ IF dent[x].type = "dir" THEN type = "dir" ELSE type # "dir"
                /\ dent' = [dent EXCEPT ![x] = [@ EXCEPT !.fresh = fresh, !.type = type]]
                /\ UNCHANGED <<bucket, freed, known, ub>>
  <2> DEFINE x == req[t].target
             type == IF dent[x].type = "dir" THEN "dir" ELSE "none"
  <2>1. x \in DOMAIN dent
    BY DEF IInv, ReqInv, IsRequest
  <2>2. IsDentry(dent[x])
    BY <2>1, DentryFacts DEF IInv
  <2>3. dent' = [dent EXCEPT ![x] = [@ EXCEPT !.fresh = TRUE, !.type = type]]
    BY <1>2, <2>1, <2>2 DEF ApplyHead, IsDentry
  <2>4. IF dent[x].type = "dir" THEN type = "dir" ELSE type # "dir"
    OBVIOUS
  <2>5. UNCHANGED <<bucket, freed, known, ub>>
    BY <1>2 DEF ApplyHead
  <2> HIDE DEF x, type
  <2> QED
    BY <2>1, <2>3, <2>4, <2>5
<1>3. ASSUME NEW x \in Attached, Expire(x)
      PROVE  \E y \in DOMAIN dent : \E type, fresh :
                /\ IF dent[y].type = "dir" THEN type = "dir" ELSE type # "dir"
                /\ dent' = [dent EXCEPT ![y] = [@ EXCEPT !.fresh = fresh, !.type = type]]
                /\ UNCHANGED <<bucket, freed, known, ub>>
  <2>1. x \in DOMAIN dent
    BY DEF Attached
  <2>2. IsDentry(dent[x])
    BY <2>1, DentryFacts DEF IInv
  <2>3. dent' = [dent EXCEPT ![x] = [@ EXCEPT !.fresh = FALSE, !.type = dent[x].type]]
    <3>1. [dent[x] EXCEPT !.fresh = FALSE]
             = [dent[x] EXCEPT !.fresh = FALSE, !.type = dent[x].type]
      BY <2>2 DEF IsDentry
    <3>2. dent' = [dent EXCEPT ![x] = [dent[x] EXCEPT !.fresh = FALSE]]
      BY <1>3, <2>1 DEF Expire
    <3> QED
      BY <3>1, <3>2
  <2>4. UNCHANGED <<bucket, freed, known, ub>>
    BY <1>3 DEF Expire
  <2> QED
    BY <2>1, <2>3, <2>4
<1> QED
  BY <1>1, <1>2, <1>3

\* A page is built into the directory.
LEMMA BuildStep ==
    ASSUME IInv, NEW t \in Threads, BuildPage(t)
    PROVE  /\ UNCHANGED <<bucket, freed, known, ub>>
           /\ DOMAIN dent \subseteq DOMAIN dent'
           /\ \E ino : BuiltFrom(t, ino)
           /\ Goto(t, IF req[t].more THEN "list" ELSE "clear")
<1>1. PICK ino \in Bijection(Missing(t), Numbers(Cardinality(Missing(t)))) :
         dent' = Built(t, ino)
  BY DEF BuildPage
<1>2. DOMAIN dent \subseteq DOMAIN dent' /\ BuiltFrom(t, ino)
  BY <1>1, BuiltEffect DEF IInv
<1> QED
  BY <1>2 DEF BuildPage

\* A refresh ends, in the tree or in memory that was freed.
LEMMA ClearStep ==
    ASSUME IInv, NEW t \in Threads, ClearUnsynced(t)
    PROVE  /\ UNCHANGED <<bucket, known>>
           /\ \/ /\ ClearedIn(Walked(req[t].dir))
                 /\ freed' = freed \cup UNION {KidsNamed(y, Unsynced(y)) : y \in Walked(req[t].dir)}
                 /\ Goto(t, "entries")
                 /\ UNCHANGED ub
              \/ UNCHANGED <<dent, freed, req>> /\ ub'
<1>1. Walked(req[t].dir) \in SUBSET DOMAIN dent
  BY DEF Walked
<1> QED
  BY <1>1, ClearedEffect DEF IInv, ClearUnsynced

\* The steps of a handler that leave the tree alone.
LEMMA TreeUntouched ==
    ASSUME NEW t \in Threads, Handler(t),
           ~(AddFound(t) \/ AddNew(t) \/ ApplyHead(t) \/ RemoveChild(t) \/ BuildPage(t)
                         \/ ClearUnsynced(t))
    PROVE  UNCHANGED <<dent, freed>>
  BY DEF Handler, FindMissing, FindCached, HeadFile, HeadDir, ListOne, HeadExpired, ReplyEntry,
         Absent, PutObject, RemoveFound, DeleteObject, LoadDir, ListPage, ReplyEntries,
         UseAfterFree, Fail

LEMMA HandlerExtends ==
    ASSUME IInv, NEW t \in Threads, Handler(t)
    PROVE  Extends
<1>1. DentInv /\ req[t].dir \in DOMAIN dent
  BY DEF IInv, ReqInv, IsRequest
<1>2. CASE AddFound(t) \/ AddNew(t)
  <2>1. PICK type : \E new \in NewDentry(t, type) : AddedTo(req[t].dir, req[t].name, new)
    BY <1>2, AddStep
  <2>2. freed' = freed
    BY <1>2, AddStep
  <2> QED
    BY <2>1, <2>2, <1>1, NewDentryFields, AddedExtends
<1>3. CASE ApplyHead(t)
  <2>1. /\ DOMAIN dent' = DOMAIN dent /\ freed' = freed
        /\ \A x \in DOMAIN dent :
                 /\ dent'[x].name = dent[x].name /\ dent'[x].parent = dent[x].parent
                 /\ (IsDir(x)' <=> IsDir(x))
    BY <1>3, FlagStep
  <2> QED
    BY <2>1 DEF Extends
<1>4. CASE RemoveChild(t)
  <2>1. DOMAIN dent' = DOMAIN dent /\ \A z \in DOMAIN dent : SameDentry(z)
    BY <1>1, <1>4, RemoveKidEffect DEF RemoveChild
  <2>2. freed \subseteq freed'
    BY <1>4 DEF RemoveChild
  <2> QED
    BY <2>1, <2>2, SameDentriesExtend
<1>5. CASE BuildPage(t)
  <2>1. PICK ino : BuiltFrom(t, ino)
    BY <1>5, BuildStep
  <2>2. DOMAIN dent \subseteq DOMAIN dent' /\ freed' = freed
    BY <1>5, BuildStep
  <2> QED
    BY <2>1, <2>2, <1>1 DEF Extends, BuiltFrom, SameDentry, IsDir
<1>6. CASE ClearUnsynced(t)
  <2>1. CASE ClearedIn(Walked(req[t].dir)) /\ freed \subseteq freed'
    BY <2>1, SameDentriesExtend DEF ClearedIn
  <2>2. CASE UNCHANGED <<dent, freed>>
    BY <2>2 DEF Extends, IsDir
  <2> QED
    BY <2>1, <2>2, <1>6, ClearStep
<1>7. CASE UNCHANGED <<dent, freed>>
  BY <1>7 DEF Extends, IsDir
<1> QED
  BY <1>2, <1>3, <1>4, <1>5, <1>6, <1>7, TreeUntouched

LEMMA StepExtends ==
    ASSUME IInv, [Next]_vars
    PROVE  Extends
<1>1. CASE \E t \in Threads : Handler(t)
  BY <1>1, HandlerExtends
<1>2. CASE \E x \in Attached : Expire(x)
  <2>1. /\ DOMAIN dent' = DOMAIN dent /\ freed' = freed
        /\ \A x \in DOMAIN dent :
                 /\ dent'[x].name = dent[x].name /\ dent'[x].parent = dent[x].parent
                 /\ (IsDir(x)' <=> IsDir(x))
    BY <1>2, FlagStep
  <2> QED
    BY <2>1 DEF Extends
<1>3. CASE \/ \E t \in Threads : Request(t)
           \/ UseFreed \/ OtherClient \/ Idle \/ UNCHANGED vars
  <2>1. UNCHANGED <<dent, freed>>
    BY <1>3 DEF Request, Lookup, Create, Remove, ReadDir, Begin, UseFreed, OtherClient, Idle, vars
  <2> QED
    BY <2>1 DEF Extends, IsDir
<1> QED
  BY <1>1, <1>2, <1>3 DEF Next

-----------------------------------------------------------------------------
(* What the steps of a handler do to its request.                          *)

\* The request is for the same thing, and other threads have theirs.
SameCall(t) ==
    /\ OthersKept(t)
    /\ req'[t].op = req[t].op /\ req'[t].dir = req[t].dir /\ req'[t].name = req[t].name
    /\ req'[t].type = req[t].type /\ req'[t].lock = req[t].lock

Moved(t, pc, found, target) ==
    /\ SameCall(t)
    /\ req'[t].pc = pc /\ req'[t].found = found /\ req'[t].target = target
    /\ req'[t].page = req[t].page /\ req'[t].seen = req[t].seen
    /\ req'[t].marker = req[t].marker /\ req'[t].more = req[t].more

MovedTo(t, pc) == Moved(t, pc, req[t].found, req[t].target)

Ended(t) == OthersKept(t) /\ req'[t] = NoRequest

LEMMA MovesFields ==
    ASSUME ReqInv, NEW t \in Threads, NEW pc, NEW found, NEW target,
           Moves(t, pc, found, target)
    PROVE  Moved(t, pc, found, target)
<1>1. IsRequest(req[t])
  BY DEF ReqInv
<1>2. /\ req'[t] = [req[t] EXCEPT !.pc = pc, !.found = found, !.target = target]
      /\ OthersKept(t)
  BY DEF Moves
<1>3. req'[t] \in [op : {req[t].op}, dir : {req[t].dir}, name : {req[t].name}, pc : {pc},
                   lock : {req[t].lock}, type : {req[t].type}, found : {found},
                   target : {target}, page : {req[t].page}, seen : {req[t].seen},
                   marker : {req[t].marker}, more : {req[t].more}]
  BY <1>1, <1>2 DEF IsRequest
<1> QED
  BY <1>2, <1>3 DEF Moved, SameCall

LEMMA GotoMoves ==
    ASSUME ReqInv, NEW t \in Threads, NEW pc, Goto(t, pc)
    PROVE  MovedTo(t, pc)
<1>1. IsRequest(req[t])
  BY DEF ReqInv
<1>2. [req[t] EXCEPT !.pc = pc]
         = [req[t] EXCEPT !.pc = pc, !.found = req[t].found, !.target = req[t].target]
  BY <1>1 DEF IsRequest
<1>3. OthersKept(t) /\ req'[t] = [req[t] EXCEPT !.pc = pc]
  BY DEF Goto, ReqInv, OthersKept
<1>4. Moves(t, pc, req[t].found, req[t].target)
  BY <1>2, <1>3 DEF Moves
<1> QED
  BY <1>4, MovesFields DEF MovedTo

LEMMA FoundMoves ==
    ASSUME ReqInv, NEW t \in Threads, NEW pc, NEW found,
           req' = [req EXCEPT ![t].pc = pc, ![t].found = found]
    PROVE  Moved(t, pc, found, req[t].target)
<1>1. IsRequest(req[t])
  BY DEF ReqInv
<1>2. [req[t] EXCEPT !.pc = pc, !.found = found]
         = [req[t] EXCEPT !.pc = pc, !.found = found, !.target = req[t].target]
  BY <1>1 DEF IsRequest
<1>3. OthersKept(t) /\ req'[t] = [req[t] EXCEPT !.pc = pc, !.found = found]
  BY DEF ReqInv, OthersKept
<1>4. Moves(t, pc, found, req[t].target)
  BY <1>2, <1>3 DEF Moves
<1> QED
  BY <1>4, MovesFields

LEMMA TargetMoves ==
    ASSUME ReqInv, NEW t \in Threads, NEW pc, NEW target,
           req' = [req EXCEPT ![t].target = target, ![t].pc = pc]
    PROVE  Moved(t, pc, req[t].found, target)
<1>1. IsRequest(req[t])
  BY DEF ReqInv
<1>2. [req[t] EXCEPT !.target = target, !.pc = pc]
         = [req[t] EXCEPT !.pc = pc, !.found = req[t].found, !.target = target]
  BY <1>1 DEF IsRequest
<1>3. OthersKept(t) /\ req'[t] = [req[t] EXCEPT !.target = target, !.pc = pc]
  BY DEF ReqInv, OthersKept
<1>4. Moves(t, pc, req[t].found, target)
  BY <1>2, <1>3 DEF Moves
<1> QED
  BY <1>4, MovesFields

LEMMA FinishEnds ==
    ASSUME ReqInv, NEW t \in Threads, Finish(t)
    PROVE  Ended(t)
  BY DEF Finish, ReqInv, Ended, OthersKept

\* find_dentry.
LEMMA SearchMoves ==
    ASSUME IInv, NEW t \in Threads
    PROVE  /\ FindMissing(t) => MovedTo(t, "head_file")
           /\ FindCached(t) => \E pc \in {"found", "head_expired"} :
                                  Moved(t, pc, req[t].found, Child(t))
           /\ HeadFile(t) => IF FileKey(req[t].dir, req[t].name) \in bucket
                             THEN Moved(t, "add", "reg", req[t].target)
                             ELSE MovedTo(t, "head_dir")
           /\ HeadDir(t) => IF DirKey(req[t].dir, req[t].name) \in bucket
                            THEN Moved(t, "add", "dir", req[t].target)
                            ELSE MovedTo(t, "list_one")
           /\ ListOne(t) =>
                 LET path == FileKey(req[t].dir, req[t].name)
                 IN  IF \E n \in Entries(path) :
                           IsObject(path, n) /\ \A m \in Entries(path) : ~Before(m, n)
                     THEN Moved(t, "add", "dir", req[t].target)
                     ELSE MovedTo(t, "absent")
           /\ AddFound(t) \/ AddNew(t) => Moved(t, "found", req[t].found, NextIno)
           /\ HeadExpired(t) => MovedTo(t, "apply")
           /\ ApplyHead(t) => MovedTo(t, "found")
<1>1. ReqInv
  BY DEF IInv
<1>2. FindMissing(t) => MovedTo(t, "head_file")
  BY <1>1, GotoMoves DEF FindMissing
<1>3. FindCached(t) => \E pc \in {"found", "head_expired"} :
                          Moved(t, pc, req[t].found, Child(t))
  <2> SUFFICES ASSUME FindCached(t)
               PROVE  \E pc \in {"found", "head_expired"} : Moved(t, pc, req[t].found, Child(t))
    OBVIOUS
  <2>1. PICK pc \in {"found", "head_expired"} :
           req' = [req EXCEPT ![t].target = Child(t), ![t].pc = pc]
    BY DEF FindCached
  <2> QED
    BY <2>1, <1>1, TargetMoves
<1>4. HeadFile(t) => IF FileKey(req[t].dir, req[t].name) \in bucket
                     THEN Moved(t, "add", "reg", req[t].target)
                     ELSE MovedTo(t, "head_dir")
  BY <1>1, GotoMoves, FoundMoves DEF HeadFile
<1>5. HeadDir(t) => IF DirKey(req[t].dir, req[t].name) \in bucket
                    THEN Moved(t, "add", "dir", req[t].target)
                    ELSE MovedTo(t, "list_one")
  BY <1>1, GotoMoves, FoundMoves DEF HeadDir
<1>6. ListOne(t) =>
         LET path == FileKey(req[t].dir, req[t].name)
         IN  IF \E n \in Entries(path) :
                   IsObject(path, n) /\ \A m \in Entries(path) : ~Before(m, n)
             THEN Moved(t, "add", "dir", req[t].target)
             ELSE MovedTo(t, "absent")
  BY <1>1, GotoMoves, FoundMoves DEF ListOne
<1>7. AddFound(t) \/ AddNew(t) => Moved(t, "found", req[t].found, NextIno)
  BY <1>1, TargetMoves DEF AddFound, AddNew
<1>8. (HeadExpired(t) => MovedTo(t, "apply")) /\ (ApplyHead(t) => MovedTo(t, "found"))
  BY <1>1, GotoMoves DEF HeadExpired, ApplyHead
<1> QED
  BY <1>2, <1>3, <1>4, <1>5, <1>6, <1>7, <1>8

\* The handlers around it.
LEMMA ChangeMoves ==
    ASSUME IInv, NEW t \in Threads
    PROVE  /\ Absent(t) => IF req[t].op = "create" THEN MovedTo(t, "put") ELSE Ended(t)
           /\ PutObject(t) => MovedTo(t, "add_new")
           /\ RemoveFound(t) => Ended(t) \/ MovedTo(t, "delete")
           /\ DeleteObject(t) => MovedTo(t, "remove_child")
           /\ LoadDir(t) => \E pc \in {"list", "entries"} : MovedTo(t, pc)
           /\ BuildPage(t) => MovedTo(t, IF req[t].more THEN "list" ELSE "clear")
           /\ ClearUnsynced(t) => MovedTo(t, "entries") \/ req' = req
           /\ ReplyEntry(t) \/ RemoveChild(t) \/ ReplyEntries(t) \/ Fail(t) => Ended(t)
<1>1. ReqInv
  BY DEF IInv
<1>2. Absent(t) => IF req[t].op = "create" THEN MovedTo(t, "put") ELSE Ended(t)
  BY <1>1, GotoMoves, FinishEnds DEF Absent
<1>3. PutObject(t) => MovedTo(t, "add_new")
  BY <1>1, GotoMoves DEF PutObject
<1>4. RemoveFound(t) => Ended(t) \/ MovedTo(t, "delete")
  BY <1>1, GotoMoves, FinishEnds DEF RemoveFound
<1>5. DeleteObject(t) => MovedTo(t, "remove_child")
  BY <1>1, GotoMoves DEF DeleteObject
<1>6. LoadDir(t) => \E pc \in {"list", "entries"} : MovedTo(t, pc)
  <2> SUFFICES ASSUME LoadDir(t) PROVE \E pc \in {"list", "entries"} : MovedTo(t, pc)
    OBVIOUS
  <2>1. PICK pc \in {"list", "entries"} : Goto(t, pc)
    BY DEF LoadDir
  <2> QED
    BY <2>1, <1>1, GotoMoves
<1>7. BuildPage(t) => MovedTo(t, IF req[t].more THEN "list" ELSE "clear")
  <2> SUFFICES ASSUME BuildPage(t) PROVE MovedTo(t, IF req[t].more THEN "list" ELSE "clear")
    OBVIOUS
  <2>1. PICK pc : pc = IF req[t].more THEN "list" ELSE "clear"
    OBVIOUS
  <2>2. Goto(t, pc)
    BY <2>1 DEF BuildPage
  <2> QED
    BY <2>1, <2>2, <1>1, GotoMoves
<1>8. ClearUnsynced(t) => MovedTo(t, "entries") \/ req' = req
  BY <1>1, GotoMoves DEF ClearUnsynced
<1>9. ReplyEntry(t) \/ RemoveChild(t) \/ ReplyEntries(t) \/ Fail(t) => Ended(t)
  BY <1>1, FinishEnds DEF ReplyEntry, RemoveChild, ReplyEntries, Fail
<1> QED
  BY <1>2, <1>3, <1>4, <1>5, <1>6, <1>7, <1>8, <1>9

\* A page of a listing.
LEMMA ListMoves ==
    ASSUME IInv, NEW t \in Threads, ListPage(t)
    PROVE  LET path == Path(req[t].dir)
               names == Page(path, req[t].marker)
               more == names # Behind(path, req[t].marker)
               r == req'[t]
           IN  /\ UNCHANGED <<bucket, dent, freed, known, ub>>
               /\ SameCall(t) /\ r.pc = "build"
               /\ r.found = req[t].found /\ r.target = req[t].target
               /\ r.page = Listed(path, names) /\ r.seen = req[t].seen \cup names
               /\ r.more = more
               /\ r.marker \in IF more THEN Last(names) ELSE {req[t].marker}
<1> DEFINE path == Path(req[t].dir)
           names == Page(path, req[t].marker)
           more == names # Behind(path, req[t].marker)
           page == Listed(path, names)
           seen == req[t].seen \cup names
<1>1. IsRequest(req[t]) /\ ReqInv
  BY DEF IInv, ReqInv
<1>2. PICK marker \in IF more THEN Last(names) ELSE {req[t].marker} :
         req' = [req EXCEPT ![t].pc = "build", ![t].page = page,
                            ![t].seen = @ \cup names, ![t].more = more, ![t].marker = marker]
  BY DEF ListPage
<1>3. /\ OthersKept(t)
      /\ req'[t] = [req[t] EXCEPT !.pc = "build", !.page = page, !.seen = seen, !.more = more,
                                  !.marker = marker]
  BY <1>1, <1>2 DEF ReqInv, OthersKept
<1>4. UNCHANGED <<bucket, dent, freed, known, ub>>
  BY DEF ListPage
<1> HIDE DEF path, names, more, page, seen
<1>5. req'[t] \in [op : {req[t].op}, dir : {req[t].dir}, name : {req[t].name}, pc : {"build"},
                   lock : {req[t].lock}, type : {req[t].type}, found : {req[t].found},
                   target : {req[t].target}, page : {page}, seen : {seen}, marker : {marker},
                   more : {more}]
  BY <1>1, <1>3, ZenonT(30) DEF IsRequest
<1>6. /\ SameCall(t) /\ req'[t].pc = "build"
      /\ req'[t].found = req[t].found /\ req'[t].target = req[t].target
      /\ req'[t].page = page /\ req'[t].seen = seen
      /\ req'[t].more = more /\ req'[t].marker = marker
  BY <1>3, <1>5 DEF SameCall
<1> QED
  BY <1>2, <1>4, <1>6 DEF path, names, more, page, seen

\* A request begins.
LEMMA BeginEffect ==
    ASSUME IInv, NEW t \in Threads, NEW op, NEW x, NEW name, NEW type,
           Begin(t, op, x, name, type)
    PROVE  /\ UNCHANGED <<bucket, dent, freed, known, ub>> /\ OthersKept(t)
           /\ req[t].pc = "idle" /\ MayLock(LockOf(op, x, name), x)
           /\ req'[t].op = op /\ req'[t].dir = x /\ req'[t].name = name
           /\ req'[t].type = type /\ req'[t].lock = LockOf(op, x, name)
           /\ req'[t].pc = IF op = "readdir" THEN "load" ELSE "find"
           /\ req'[t].seen = {} /\ req'[t].marker = "start"
<1> DEFINE pc == IF op = "readdir" THEN "load" ELSE "find"
           lock == LockOf(op, x, name)
           r == [NoRequest EXCEPT !.op = op, !.dir = x, !.name = name, !.type = type,
                                  !.lock = lock, !.pc = pc]
<1>1. req' = [req EXCEPT ![t] = r]
  BY DEF Begin
<1>2. req'[t] = r /\ OthersKept(t)
  BY <1>1 DEF IInv, ReqInv, OthersKept
<1>3. /\ UNCHANGED <<bucket, dent, freed, known, ub>>
      /\ req[t].pc = "idle" /\ MayLock(lock, x)
  BY DEF Begin, At
<1> HIDE DEF pc, lock
<1>4. r \in [op : {op}, dir : {x}, name : {name}, pc : {pc}, lock : {lock}, type : {type},
             found : {"none"}, target : {Root}, page : {NoRequest.page}, seen : {{}},
             marker : {"start"}, more : {FALSE}]
  <2>1. NoRequest \in [op : {"none"}, dir : {Root}, name : {""}, pc : {"idle"}, lock : {"none"},
                       type : {"none"}, found : {"none"}, target : {Root},
                       page : {NoRequest.page}, seen : {{}}, marker : {"start"},
                       more : {FALSE}]
    BY DEF NoRequest
  <2> QED
    BY <2>1, ZenonT(30)
<1> HIDE DEF r
<1>5. /\ r.op = op /\ r.dir = x /\ r.name = name /\ r.type = type /\ r.lock = lock
      /\ r.pc = pc /\ r.seen = {} /\ r.marker = "start"
  BY <1>4
<1> QED
  BY <1>2, <1>3, <1>5 DEF pc, lock

-----------------------------------------------------------------------------
(* The theorem.                                                            *)

LEMMA InitRooted == ASSUME Init PROVE Rooted
<1>1. IInv /\ DOMAIN dent = {Root}
  BY InitSound DEF Init
<1>2. \E f : PathFcn(f)
  <2> DEFINE f == [y \in DOMAIN dent |-> <<>>]
  <2>1. PathFcn(f)
    BY <1>1 DEF PathFcn
  <2> QED
    BY <2>1
<1>3. \E f : AncestryFcn(f)
  <2> DEFINE f == [y \in DOMAIN dent |-> {Root}]
  <2>1. AncestryFcn(f)
    BY <1>1 DEF AncestryFcn
  <2> QED
    BY <2>1
<1> QED
  BY <1>1, <1>2, <1>3 DEF Rooted, Older

\* Every dentry has a path to the root and keeps it, whatever the threads, the
\* store and other clients do: get_full_path always ends.
THEOREM AlwaysRooted == Spec => []Rooted
<1>1. Init => Rooted
  BY InitRooted
<1>2. Rooted /\ IInv' /\ [Next]_vars => Rooted'
  <2>1. ASSUME Rooted, IInv', [Next]_vars PROVE Rooted'
    BY <2>1, StepExtends, RootedStep DEF Rooted
  <2> QED
    BY <2>1
<1> QED
  BY <1>1, <1>2, Invariance, PTL DEF Spec
=============================================================================
