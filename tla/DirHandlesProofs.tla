-------------------------- MODULE DirHandlesProofs --------------------------
(***************************************************************************)
(* What reading a directory guarantees for every set of names, number of   *)
(* handles, size of replies and number of failures, to applications that   *)
(* take the two dots together.                                             *)
(***************************************************************************)
EXTENDS DirHandles, FiniteSetTheorems, SequenceTheorems, TLAPS

\* Without it a reader may resume between the dots, where readdir miscounts.
DotsTogether == ~SplitDots

-----------------------------------------------------------------------------
(* The inductive invariant.                                                *)

\* What has been given is the front of the copy, up to the kernel's offset,
\* which is never between the dots.
GivenFront(h) ==
    /\ IsInjective(dentries[h])
    /\ got[h] = SubSeq(dentries[h], 1, pos[h])
    /\ pos[h] # 1

\* A copy that is being made has the dots, one that is made has everything that
\* was always there.
CopyMade(h) ==
    /\ pc[h] = "list" => dentries[h] = Dots /\ pos[h] = 0
    /\ pc[h] = "reply" => dentries[h] # <<>>
    /\ dentries[h] # <<>> => {".", ".."} \subseteq Range(dentries[h])
    /\ dentries[h] # <<>> /\ pc[h] # "list" /\ ~failed[h] => stable[h] \subseteq Range(dentries[h])
    /\ stable[h] \subseteq store

EndReached(h) ==
    ended[h] => dentries[h] # <<>> /\ pos[h] = Len(dentries[h]) /\ pc[h] \in {"idle", "closed"}

HandleInv(h) == GivenFront(h) /\ CopyMade(h) /\ EndReached(h)

IInv ==
    /\ TypeOK
    /\ complete => children = store
    /\ \A h \in Opened : HandleInv(h)

-----------------------------------------------------------------------------
(* Copies.                                                                 *)

\* A function on 1 .. n is a sequence.
LEMMA FnIsSeq ==
    ASSUME NEW T, NEW n \in Nat, NEW f \in [1 .. n -> T]
    PROVE  f \in Seq(T) /\ Len(f) = n
  OBVIOUS

\* A function on 1 .. n, and one with a further value.
OnTo(f, n, T) == f \in [1 .. n -> T]
Longer(g, f, n, e) == g[n + 1] = e /\ \A i \in 1 .. n : g[i] = f[i]

LEMMA AppendFn ==
    ASSUME NEW T, NEW n \in Nat, NEW f, OnTo(f, n, T), NEW e \in T
    PROVE  OnTo(Append(f, e), n + 1, T) /\ Longer(Append(f, e), f, n, e)
<1>1. f \in Seq(T) /\ Len(f) = n
  BY FnIsSeq DEF OnTo
<1>2. Append(f, e) \in Seq(T) /\ Len(Append(f, e)) = n + 1
  BY <1>1, AppendProperties
<1>3. Append(f, e) \in [1 .. n + 1 -> T]
  BY <1>2, LenProperties
<1>4. QED
  BY <1>1, <1>3, AppendProperties DEF OnTo, Longer

LEMMA OrdersOf ==
    ASSUME NEW S \in SUBSET Names, NEW s \in Orders(S)
    PROVE  s \in Seq(S) /\ IsInjective(s) /\ Range(s) = S
<1>1. Cardinality(S) \in Nat
  BY DirAssumption, FS_Subset, FS_CardinalityType
<1>2. s \in [1 .. Cardinality(S) -> S] /\ IsInjective(s) /\ \A n \in S : \E i \in 1 .. Cardinality(S) : s[i] = n
  BY DEF Orders, Bijection, Injection, Surjection
<1>3. s \in Seq(S)
  BY <1>1, <1>2
<1>4. Range(s) = S
  BY <1>2 DEF Range
<1>5. QED
  BY <1>2, <1>3, <1>4

\* The copy that load_sub_dentries makes of the names in S.
LEMMA CopyOf ==
    ASSUME NEW S \in SUBSET Names, NEW s \in Orders(S)
    PROVE  /\ Dots \o s \in Seq(Entries) /\ Dots \o s # <<>>
           /\ IsInjective(Dots \o s)
           /\ S \cup {".", ".."} \subseteq Range(Dots \o s)
<1> DEFINE d == Dots \o s
<1>1. s \in Seq(S) /\ IsInjective(s) /\ Range(s) = S
  BY OrdersOf
<1>2. s \in Seq(Entries) /\ Dots \in Seq(Entries) /\ Len(Dots) = 2
  BY <1>1 DEF Dots, Entries
<1>3. /\ d \in Seq(Entries) /\ Len(d) = Len(s) + 2
      /\ d[1] = "." /\ d[2] = ".." /\ \A i \in 1 .. Len(s) : d[i + 2] = s[i]
  BY <1>2 DEF Dots
<1>4. DOMAIN d = 1 .. Len(s) + 2 /\ DOMAIN s = 1 .. Len(s) /\ Len(s) \in Nat
  BY <1>2, <1>3
<1>5. \A i \in 1 .. Len(s) : s[i] \in S /\ s[i] # "." /\ s[i] # ".."
  BY <1>1, DirAssumption
<1>6. IsInjective(d)
  <2> SUFFICES ASSUME NEW a \in 1 .. Len(s) + 2, NEW b \in 1 .. Len(s) + 2, d[a] = d[b]
               PROVE  a = b
    BY <1>4 DEF IsInjective
  <2>1. CASE a <= 2 \/ b <= 2
    <3>1. \A i \in 1 .. Len(s) + 2 : i > 2 => i - 2 \in 1 .. Len(s) /\ d[i] = s[i - 2]
      BY <1>3, <1>4
    <3>2. \A i \in 1 .. Len(s) + 2 : i > 2 => d[i] # "." /\ d[i] # ".."
      BY <3>1, <1>5
    <3>3. QED
      BY <2>1, <3>2, <1>3, <1>4
  <2>2. CASE a > 2 /\ b > 2
    <3>1. a - 2 \in 1 .. Len(s) /\ b - 2 \in 1 .. Len(s) /\ d[a] = s[a - 2] /\ d[b] = s[b - 2]
      BY <2>2, <1>3, <1>4
    <3>2. a - 2 = b - 2
      BY <3>1, <1>1, <1>4 DEF IsInjective
    <3>3. QED
      BY <3>2
  <2>3. QED
    BY <2>1, <2>2, <1>4
<1>7. S \cup {".", ".."} \subseteq Range(d)
  <2>1. {".", ".."} \subseteq Range(d)
    BY <1>3, <1>4 DEF Range
  <2>2. \A n \in S : \E i \in 1 .. Len(s) : s[i] = n
    BY <1>1, <1>4 DEF Range
  <2>3. \A n \in S : \E i \in 1 .. Len(s) : d[i + 2] = n /\ i + 2 \in DOMAIN d
    BY <2>2, <1>3, <1>4
  <2>4. QED
    BY <2>1, <2>3 DEF Range
<1>8. QED
  BY <1>3, <1>6, <1>7, <1>4

\* The dots alone are a copy, of a directory whose listing failed.
LEMMA DotsAlone ==
    Dots \in Seq(Entries) /\ Dots # <<>> /\ IsInjective(Dots) /\ {".", ".."} \subseteq Range(Dots)
<1>1. DOMAIN Dots = {1, 2} /\ Dots[1] = "." /\ Dots[2] = ".."
  BY DEF Dots
<1>2. QED
  BY <1>1 DEF Dots, Entries, IsInjective, Range

-----------------------------------------------------------------------------
(* Replies.                                                                *)

LEMMA RoomForOne == Room \in Nat /\ Room >= 1
  BY DirAssumption DEF Room

\* The part of a sequence behind p, up to q.
LEMMA Behind ==
    ASSUME NEW T, NEW d \in Seq(T), NEW p \in Nat, NEW q \in Nat, p <= q, q <= Len(d)
    PROVE  /\ SubSeq(d, p + 1, q) \in Seq(T)
           /\ Len(SubSeq(d, p + 1, q)) = q - p
           /\ \A i \in 1 .. q - p : SubSeq(d, p + 1, q)[i] = d[p + i]
<1>1. \A i \in p + 1 .. q : d[i] \in T
  OBVIOUS
<1>2. /\ SubSeq(d, p + 1, q) \in Seq(T)
      /\ Len(SubSeq(d, p + 1, q)) = IF p + 1 <= q THEN q - (p + 1) + 1 ELSE 0
      /\ \A i \in 1 .. q - (p + 1) + 1 : SubSeq(d, p + 1, q)[i] = d[p + 1 + i - 1]
  <2>1. p + 1 \in Int /\ q \in Int
    OBVIOUS
  <2>2. QED
    BY ONLY <1>1, <2>1, SubSeqProperties
<1>3. QED
  BY <1>2

\* Entry k of a reply is the one k places behind the offset, and carries its
\* number in the copy; a reply is empty only at the end.
LEMMA ReplyShape ==
    ASSUME NEW h \in Opened, NEW reply \in Replies(h),
           dentries[h] \in Seq(Entries), pos[h] \in Nat, pos[h] <= Len(dentries[h]), pos[h] # 1
    PROVE  /\ reply \in Seq([name : Entries, off : Nat])
           /\ pos[h] + Len(reply) <= Len(dentries[h])
           /\ \A k \in 1 .. Len(reply) : reply[k].name = dentries[h][pos[h] + k]
                                         /\ reply[k].off = pos[h] + k
           /\ Len(reply) = 0 => pos[h] = Len(dentries[h])
<1> DEFINE d == dentries[h]
           p == pos[h]
           last == Least(p + BufBytes, Len(d))
           slice == Slice(d, p, BufBytes)
<1>1. BufBytes \in Nat /\ BufBytes >= 1
  BY DirAssumption
<1>2. last \in Nat /\ last >= p /\ last <= Len(d) /\ (last = p => p = Len(d))
  BY <1>1 DEF Least
<1>3. slice = SubSeq(d, p + 1, last)
  BY DEF Slice
<1>4. /\ slice \in Seq(Entries) /\ Len(slice) = last - p
      /\ \A i \in 1 .. last - p : slice[i] = d[p + i]
  <2>1. d \in Seq(Entries) /\ p \in Nat
    OBVIOUS
  <2> HIDE DEF d, p, last, slice
  <2>2. /\ SubSeq(d, p + 1, last) \in Seq(Entries)
        /\ Len(SubSeq(d, p + 1, last)) = last - p
        /\ \A i \in 1 .. last - p : SubSeq(d, p + 1, last)[i] = d[p + i]
    BY <2>1, <1>2, Behind
  <2>3. QED
    BY <1>3, <2>2
<1>5. reply = Plus(slice, p)
  <2>1. CASE reply = Plus(slice, p)
    BY <2>1
  <2>2. CASE p > 0 /\ reply = Plain(slice, p)
    <3>1. DotsIn(slice, p) = 0
      BY <2>2 DEF DotsIn
    <3>2. SubSeq(slice, DotsIn(slice, p) + 1, Len(slice)) = slice
      BY <3>1, <1>4, SubSeqFull
    <3>3. QED
      BY <2>2, <3>2 DEF Plain
  <2>3. QED
    BY <2>1, <2>2 DEF Replies
<1>6. reply = [i \in 1 .. last - p |-> [name |-> slice[i], off |-> p + i]]
  BY <1>4, <1>5 DEF Plus
<1>7. /\ reply \in Seq([name : Entries, off : Nat]) /\ Len(reply) = last - p
      /\ \A k \in 1 .. last - p : reply[k] = [name |-> slice[k], off |-> p + k]
  <2> DEFINE T == [name : Entries, off : Nat]
  <2>1. \A i \in 1 .. last - p : [name |-> slice[i], off |-> p + i] \in T
    BY <1>4, <1>2
  <2>2. last - p \in Nat
    BY <1>2
  <2>3. reply \in [1 .. last - p -> T]
    BY <1>6, <2>1
  <2> HIDE DEF T, last, p
  <2>4. reply \in Seq(T) /\ Len(reply) = last - p
    BY <2>2, <2>3, FnIsSeq
  <2> USE DEF T, last, p
  <2>5. QED
    BY <1>6, <2>4
<1>8. \A k \in 1 .. Len(reply) : reply[k].name = d[p + k] /\ reply[k].off = p + k
  BY <1>4, <1>7
<1>9. p + Len(reply) <= Len(d) /\ (Len(reply) = 0 => p = Len(d))
  BY <1>2, <1>7
<1>10. QED
  BY <1>7, <1>8, <1>9

\* What is left of a reply in the room there is.
LEMMA FittedShape ==
    ASSUME NEW T, NEW reply \in Seq(T)
    PROVE  /\ Fitted(reply) \in Seq(T) /\ Len(Fitted(reply)) <= Len(reply)
           /\ \A k \in 1 .. Len(Fitted(reply)) : Fitted(reply)[k] = reply[k]
           /\ Fitted(reply) = <<>> => Len(reply) = 0
<1> DEFINE n == Least(Room, Len(reply))
<1>1. n \in Nat /\ n <= Len(reply) /\ (n = 0 => Len(reply) = 0)
  BY RoomForOne DEF Least
<1> HIDE DEF n
<1>2. /\ SubSeq(reply, 1, n) \in Seq(T) /\ Len(SubSeq(reply, 1, n)) = n
      /\ \A k \in 1 .. n : SubSeq(reply, 1, n)[k] = reply[k]
  BY <1>1
<1>3. Fitted(reply) = SubSeq(reply, 1, n)
  BY DEF Fitted, n
<1>4. QED
  BY <1>1, <1>2, <1>3

\* The names of a reply, put behind what was given, are the front of the copy.
LEMMA FrontGrows ==
    ASSUME NEW d \in Seq(Entries), NEW p \in Nat, NEW k \in Nat, p + k <= Len(d),
           NEW s \in Seq(Entries), Len(s) = k, \A i \in 1 .. k : s[i] = d[p + i]
    PROVE  SubSeq(d, 1, p) \o s = SubSeq(d, 1, p + k)
<1> DEFINE front == SubSeq(d, 1, p)
           whole == SubSeq(d, 1, p + k)
           cat == front \o s
<1>1. front \in Seq(Entries) /\ Len(front) = p /\ \A i \in 1 .. p : front[i] = d[i]
  OBVIOUS
<1>2. whole \in Seq(Entries) /\ Len(whole) = p + k /\ \A i \in 1 .. p + k : whole[i] = d[i]
  <2>1. p + k \in Nat
    OBVIOUS
  <2>2. QED
    BY <2>1
<1> HIDE DEF front, whole
<1>3. /\ cat \in Seq(Entries) /\ Len(cat) = p + k
      /\ \A i \in 1 .. p + k : cat[i] = IF i <= p THEN front[i] ELSE s[i - p]
  BY <1>1, ConcatProperties
<1> HIDE DEF cat
<1>4. \A i \in 1 .. p + k : cat[i] = whole[i]
  <2> TAKE i \in 1 .. p + k
  <2>1. CASE i <= p
    <3>1. i \in 1 .. p
      BY <2>1
    <3>2. cat[i] = front[i]
      BY <2>1, <1>3
    <3>3. front[i] = d[i] /\ whole[i] = d[i]
      BY <3>1, <1>1, <1>2
    <3>4. QED
      BY <3>2, <3>3
  <2>2. CASE i > p
    <3>1. i - p \in 1 .. k /\ p + (i - p) = i
      BY <2>2
    <3>2. s[i - p] = d[i]
      BY <3>1
    <3>3. QED
      BY <2>2, <3>2, <1>2, <1>3
  <2>3. QED
    BY <2>1, <2>2
<1>5. cat = whole
  BY <1>2, <1>3, <1>4, SeqEqual
<1>6. QED
  BY <1>5 DEF front, whole, cat

\* The front of a sequence without repetitions has none.
LEMMA FrontInjective ==
    ASSUME NEW d \in Seq(Entries), IsInjective(d), NEW p \in Nat, p <= Len(d)
    PROVE  IsInjective(SubSeq(d, 1, p))
<1>1. DOMAIN SubSeq(d, 1, p) = 1 .. p /\ \A i \in 1 .. p : SubSeq(d, 1, p)[i] = d[i]
  OBVIOUS
<1>2. QED
  BY <1>1 DEF IsInjective

\* A shorter front of a front.
LEMMA FrontOfFront ==
    ASSUME NEW d \in Seq(Entries), NEW p \in Nat, p <= Len(d), NEW q \in Nat, q <= p
    PROVE  SubSeq(SubSeq(d, 1, p), 1, q) = SubSeq(d, 1, q)
<1> DEFINE a == SubSeq(SubSeq(d, 1, p), 1, q)
           b == SubSeq(d, 1, q)
<1>1. a \in Seq(Entries) /\ Len(a) = q /\ \A i \in 1 .. q : a[i] = d[i]
  OBVIOUS
<1>2. b \in Seq(Entries) /\ Len(b) = q /\ \A i \in 1 .. q : b[i] = d[i]
  OBVIOUS
<1> HIDE DEF a, b
<1>3. a = b
  BY <1>1, <1>2, SeqEqual
<1>4. QED
  BY <1>3 DEF a, b

-----------------------------------------------------------------------------
(* One lemma per action.                                                   *)

\* A handle that a step leaves alone, but for names that are no longer stable.
LEMMA Untouched ==
    ASSUME NEW g, HandleInv(g),
           dentries'[g] = dentries[g], pc'[g] = pc[g], pos'[g] = pos[g], got'[g] = got[g],
           ended'[g] = ended[g], failed'[g] = failed[g],
           stable'[g] \subseteq stable[g], stable'[g] \subseteq store'
    PROVE  HandleInv(g)'
  BY DEF HandleInv, GivenFront, CopyMade, EndReached

LEMMA InitInv == Init => IInv
<1> SUFFICES ASSUME Init PROVE IInv
  OBVIOUS
<1>1. Opened = {} /\ \E n \in 0 .. MaxHandles : Opened = 1 .. n
  <2>1. 0 \in 0 .. MaxHandles /\ 1 .. 0 = {}
    BY DirAssumption
  <2>2. QED
    BY <2>1 DEF Init, Opened
<1>2. \A T, f : f = <<>> => f \in [{} -> T]
  OBVIOUS
<1>3. TypeOK
  <2>1. /\ pc \in [Opened -> {"idle", "list", "reply", "closed"}] /\ dentries \in [Opened -> Seq(Entries)]
        /\ got \in [Opened -> Seq(Entries)] /\ pos \in [Opened -> Nat]
        /\ ended \in [Opened -> BOOLEAN] /\ failed \in [Opened -> BOOLEAN]
        /\ stale \in [Opened -> SUBSET Names] /\ stable \in [Opened -> SUBSET Names]
    BY <1>1, <1>2, Zenon DEF Init
  <2>2. seeks \in 0 .. MaxSeeks /\ fails \in 0 .. MaxFails
    BY DirAssumption DEF Init
  <2>3. store \subseteq Names /\ children \subseteq store /\ complete \in BOOLEAN /\ ub \in BOOLEAN
    BY DEF Init
  <2>4. QED
    BY <1>1, <2>1, <2>2, <2>3, Zenon DEF TypeOK
<1>4. QED
  BY <1>1, <1>3 DEF Init, IInv

LEMMA OpenDirInv ==
    ASSUME IInv, OpenDir
    PROVE  IInv'
<1>1. PICK n \in 0 .. MaxHandles : Opened = 1 .. n
  BY DEF IInv, TypeOK
<1>2. n \in Nat /\ MaxHandles \in Nat
  BY <1>1, DirAssumption
<1>3. /\ pc \in [1 .. n -> {"idle", "list", "reply", "closed"}]
      /\ dentries \in [1 .. n -> Seq(Entries)] /\ got \in [1 .. n -> Seq(Entries)]
      /\ pos \in [1 .. n -> Nat] /\ ended \in [1 .. n -> BOOLEAN] /\ failed \in [1 .. n -> BOOLEAN]
      /\ stale \in [1 .. n -> SUBSET Names] /\ stable \in [1 .. n -> SUBSET Names]
  BY <1>1 DEF IInv, TypeOK
<1>4. n < MaxHandles
  <2>1. Len(pc) = n
    BY <1>2, <1>3, FnIsSeq
  <2>2. QED
    BY <2>1 DEF OpenDir
<1>5. pc' \in [1 .. n + 1 -> {"idle", "list", "reply", "closed"}] /\ Longer(pc', pc, n, "idle")
  <2>1. "idle" \in {"idle", "list", "reply", "closed"} /\ pc' = Append(pc, "idle")
    BY DEF OpenDir, IInv, TypeOK
  <2>2. OnTo(pc, n, {"idle", "list", "reply", "closed"})
    BY <1>3 DEF OnTo
  <2>3. QED
    BY <1>2, <2>1, <2>2, AppendFn DEF OnTo
<1>6. dentries' \in [1 .. n + 1 -> Seq(Entries)] /\ Longer(dentries', dentries, n, <<>>)
  <2>1. <<>> \in Seq(Entries) /\ dentries' = Append(dentries, <<>>)
    BY DEF OpenDir, IInv, TypeOK
  <2>2. OnTo(dentries, n, Seq(Entries))
    BY <1>3 DEF OnTo
  <2>3. QED
    BY <1>2, <2>1, <2>2, AppendFn DEF OnTo
<1>7. got' \in [1 .. n + 1 -> Seq(Entries)] /\ Longer(got', got, n, <<>>)
  <2>1. <<>> \in Seq(Entries) /\ got' = Append(got, <<>>)
    BY DEF OpenDir, IInv, TypeOK
  <2>2. OnTo(got, n, Seq(Entries))
    BY <1>3 DEF OnTo
  <2>3. QED
    BY <1>2, <2>1, <2>2, AppendFn DEF OnTo
<1>8. pos' \in [1 .. n + 1 -> Nat] /\ Longer(pos', pos, n, 0)
  <2>1. 0 \in Nat /\ pos' = Append(pos, 0)
    BY DEF OpenDir, IInv, TypeOK
  <2>2. OnTo(pos, n, Nat)
    BY <1>3 DEF OnTo
  <2>3. QED
    BY <1>2, <2>1, <2>2, AppendFn DEF OnTo
<1>9. ended' \in [1 .. n + 1 -> BOOLEAN] /\ Longer(ended', ended, n, FALSE)
  <2>1. FALSE \in BOOLEAN /\ ended' = Append(ended, FALSE)
    BY DEF OpenDir, IInv, TypeOK
  <2>2. OnTo(ended, n, BOOLEAN)
    BY <1>3 DEF OnTo
  <2>3. QED
    BY <1>2, <2>1, <2>2, AppendFn DEF OnTo
<1>10. failed' \in [1 .. n + 1 -> BOOLEAN] /\ Longer(failed', failed, n, FALSE)
  <2>1. FALSE \in BOOLEAN /\ failed' = Append(failed, FALSE)
    BY DEF OpenDir, IInv, TypeOK
  <2>2. OnTo(failed, n, BOOLEAN)
    BY <1>3 DEF OnTo
  <2>3. QED
    BY <1>2, <2>1, <2>2, AppendFn DEF OnTo
<1>11. stale' \in [1 .. n + 1 -> SUBSET Names] /\ Longer(stale', stale, n, {})
  <2>1. {} \in SUBSET Names /\ stale' = Append(stale, {})
    BY DEF OpenDir, IInv, TypeOK
  <2>2. OnTo(stale, n, SUBSET Names)
    BY <1>3 DEF OnTo
  <2>3. QED
    BY <1>2, <2>1, <2>2, AppendFn DEF OnTo
<1>12. stable' \in [1 .. n + 1 -> SUBSET Names] /\ Longer(stable', stable, n, store)
  <2>1. store \in SUBSET Names /\ stable' = Append(stable, store)
    BY DEF OpenDir, IInv, TypeOK
  <2>2. OnTo(stable, n, SUBSET Names)
    BY <1>3 DEF OnTo
  <2>3. QED
    BY <1>2, <2>1, <2>2, AppendFn DEF OnTo
<1> USE DEF Longer
<1>13. store' = store /\ children' = children /\ complete' = complete /\ seeks' = seeks /\ fails' = fails /\ ub' = ub
  BY DEF OpenDir, dir
<1>14. Opened' = 1 .. n + 1 /\ n + 1 \in 0 .. MaxHandles
  BY <1>2, <1>4, <1>6 DEF Opened
<1>15. \A h \in 1 .. n + 1 : h \in 1 .. n \/ h = n + 1
  BY <1>2
<1>16. \A h \in Opened' : pos'[h] <= Len(dentries'[h])
  <2>1. \A i \in 1 .. n : pos[i] <= Len(dentries[i])
    BY <1>1 DEF IInv, TypeOK
  <2>2. \A i \in 1 .. n : pos'[i] <= Len(dentries'[i])
    BY <2>1, <1>6, <1>8
  <2>3. pos'[n + 1] <= Len(dentries'[n + 1])
    BY <1>6, <1>8
  <2>4. QED
    BY <2>2, <2>3, <1>14, <1>15
<1>17. TypeOK'
  BY <1>5, <1>6, <1>7, <1>8, <1>9, <1>10, <1>11, <1>12, <1>13, <1>14, <1>16 DEF IInv, TypeOK
<1>18. \A h \in Opened' : HandleInv(h)'
  <2> TAKE h \in Opened'
  <2>1. CASE h \in 1 .. n
    <3>1. HandleInv(h) /\ stable[h] \subseteq store
      BY <2>1, <1>1 DEF IInv, HandleInv, CopyMade
    <3>2. QED
      BY <3>1, <2>1, <1>5, <1>6, <1>7, <1>8, <1>9, <1>10, <1>12, <1>13, Untouched
  <2>2. CASE h = n + 1
    <3>1. /\ dentries'[h] = <<>> /\ pc'[h] = "idle" /\ pos'[h] = 0 /\ got'[h] = <<>> /\ ended'[h] = FALSE
          /\ stable'[h] = store'
      BY <2>2, <1>5, <1>6, <1>7, <1>8, <1>9, <1>10, <1>12, <1>13
    <3>2. IsInjective(<<>>) /\ SubSeq(<<>>, 1, 0) = <<>>
      BY DEF IsInjective
    <3>3. QED
      BY <3>1, <3>2 DEF HandleInv, GivenFront, CopyMade, EndReached
  <2>3. QED
    BY <2>1, <2>2, <1>14, <1>15
<1>19. QED
  BY <1>13, <1>17, <1>18 DEF IInv

\* A step of one handle: the others keep what they have.
OthersKeep(h) ==
    \A g \in Opened \ {h} :
        /\ dentries'[g] = dentries[g] /\ pc'[g] = pc[g] /\ pos'[g] = pos[g]
        /\ got'[g] = got[g] /\ ended'[g] = ended[g] /\ failed'[g] = failed[g]

ReaderTypes ==
    /\ dentries \in [Opened -> Seq(Entries)] /\ got \in [Opened -> Seq(Entries)]
    /\ pc \in [Opened -> {"idle", "list", "reply", "closed"}]
    /\ pos \in [Opened -> Nat]
    /\ ended \in [Opened -> BOOLEAN] /\ failed \in [Opened -> BOOLEAN]

LEMMA OneHandle ==
    ASSUME IInv, NEW h \in Opened, ReaderTypes', Opened' = Opened, OthersKeep(h),
           HandleInv(h)', pos'[h] <= Len(dentries'[h]),
           store' = store, stale' = stale, stable' = stable,
           children' \subseteq store, complete' \in BOOLEAN, ub' \in BOOLEAN, complete' => children' = store,
           seeks' \in 0 .. MaxSeeks, fails' \in 0 .. MaxFails
    PROVE  IInv'
<1>1. \A g \in Opened : pos'[g] <= Len(dentries'[g])
  BY DEF IInv, TypeOK, OthersKeep
<1>2. TypeOK'
  BY <1>1 DEF IInv, TypeOK, ReaderTypes
<1>3. \A g \in Opened : HandleInv(g)'
  <2> TAKE g \in Opened
  <2>1. CASE g = h
    BY <2>1
  <2>2. CASE g # h
    <3>1. HandleInv(g) /\ stable[g] \subseteq store
      BY DEF IInv, HandleInv, CopyMade
    <3>2. QED
      BY <2>2, <3>1, Untouched DEF OthersKeep
  <2>3. QED
    BY <2>1, <2>2
<1>4. QED
  BY <1>2, <1>3 DEF IInv

LEMMA ReadInv ==
    ASSUME IInv, NEW h \in Opened, Read(h)
    PROVE  IInv'
<1>1. ReaderTypes /\ HandleInv(h) /\ pos[h] <= Len(dentries[h]) /\ children \in SUBSET Names
  BY DEF IInv, TypeOK, ReaderTypes
<1>2. /\ pc[h] = "idle" /\ ~ended[h] /\ UNCHANGED <<store, children, complete, pos, got, ended, stale, stable, failed, seeks, fails, ub>>
  BY DEF Read, Idle, dir, reader
<1>3. CASE dentries[h] # <<>>
  <2>1. pc' = [pc EXCEPT ![h] = "reply"] /\ dentries' = dentries
    BY <1>3 DEF Read
  <2>2. ReaderTypes' /\ OthersKeep(h) /\ Opened' = Opened /\ HandleInv(h)' /\ pos'[h] <= Len(dentries'[h])
    BY <1>1, <1>2, <1>3, <2>1 DEF ReaderTypes, OthersKeep, Opened, HandleInv, GivenFront, CopyMade, EndReached
  <2>3. QED
    BY <1>2, <2>2, OneHandle DEF IInv, TypeOK
<1>4. CASE dentries[h] = <<>>
  <2>1. pos[h] = 0 /\ got[h] = <<>>
    BY <1>1, <1>4 DEF ReaderTypes, HandleInv, GivenFront
  <2>2. PICK copy \in Seq(Entries), place \in {"reply", "list"} :
          /\ dentries' = [dentries EXCEPT ![h] = copy] /\ pc' = [pc EXCEPT ![h] = place]
          /\ copy # <<>> /\ IsInjective(copy) /\ {".", ".."} \subseteq Range(copy)
          /\ place = "list" => copy = Dots
          /\ place = "reply" => stable[h] \subseteq Range(copy)
    <3>1. CASE complete
      <4>1. PICK s \in Orders(children) : dentries' = [dentries EXCEPT ![h] = Dots \o s]
        BY <1>4, <3>1 DEF Read
      <4>2. stable[h] \subseteq children
        BY <1>1, <3>1 DEF IInv, HandleInv, CopyMade
      <4>3. pc' = [pc EXCEPT ![h] = "reply"]
        BY <1>4, <3>1 DEF Read
      <4>4. /\ Dots \o s \in Seq(Entries) /\ Dots \o s # <<>> /\ IsInjective(Dots \o s)
            /\ children \cup {".", ".."} \subseteq Range(Dots \o s)
        BY <1>1, <4>1, CopyOf
      <4>5. QED
        BY <4>1, <4>2, <4>3, <4>4
    <3>2. CASE ~complete
      BY <1>4, <3>2, DotsAlone DEF Read
    <3>3. QED
      BY <3>1, <3>2
  <2>3. ReaderTypes' /\ OthersKeep(h) /\ Opened' = Opened
    BY <1>1, <1>2, <2>2 DEF ReaderTypes, OthersKeep, Opened
  <2>4. dentries'[h] = copy /\ pc'[h] = place /\ pos'[h] = 0 /\ got'[h] = <<>>
    BY <1>1, <1>2, <2>1, <2>2 DEF ReaderTypes
  <2>5. SubSeq(copy, 1, 0) = <<>> /\ Len(copy) >= 0
    OBVIOUS
  <2>6. HandleInv(h)'
    BY <1>1, <1>2, <2>2, <2>4, <2>5 DEF HandleInv, GivenFront, CopyMade, EndReached
  <2>7. QED
    BY <1>2, <2>3, <2>4, <2>5, <2>6, OneHandle DEF IInv, TypeOK
<1>5. QED
  BY <1>3, <1>4

LEMMA ListInv ==
    ASSUME IInv, NEW h \in Opened, List(h)
    PROVE  IInv'
<1>1. ReaderTypes /\ HandleInv(h) /\ store \in SUBSET Names
  BY DEF IInv, TypeOK, ReaderTypes
<1>2. /\ pc[h] = "list" /\ children' = store /\ complete' = TRUE
      /\ UNCHANGED <<store, pos, got, ended, stale, stable, failed, seeks, fails, ub>>
  BY DEF List, At, reader
<1>3. dentries[h] = Dots /\ pos[h] = 0
  BY <1>1, <1>2 DEF HandleInv, CopyMade
<1>4. got[h] = <<>>
  BY <1>1, <1>3 DEF HandleInv, GivenFront, Dots
<1>5. PICK s \in Orders(store) : dentries' = [dentries EXCEPT ![h] = Dots \o s]
  BY <1>3 DEF List
<1>6. pc' = [pc EXCEPT ![h] = "reply"]
  BY DEF List
<1>7. /\ Dots \o s \in Seq(Entries) /\ Dots \o s # <<>> /\ IsInjective(Dots \o s)
      /\ store \cup {".", ".."} \subseteq Range(Dots \o s)
  BY <1>1, <1>5, CopyOf
<1> DEFINE copy == Dots \o s
<1> HIDE DEF copy
<1>8. ReaderTypes' /\ OthersKeep(h) /\ Opened' = Opened /\ dentries'[h] = copy
  BY <1>1, <1>2, <1>5, <1>6, <1>7 DEF ReaderTypes, OthersKeep, Opened, copy
<1>9. pc'[h] = "reply" /\ pos'[h] = 0 /\ got'[h] = <<>>
  BY <1>1, <1>2, <1>3, <1>4, <1>6 DEF ReaderTypes
<1>10. SubSeq(copy, 1, 0) = <<>> /\ Len(copy) >= 0
  BY <1>7 DEF copy
<1>11. stable[h] \subseteq Range(copy) /\ ~ended[h]
  BY <1>1, <1>2, <1>7 DEF HandleInv, CopyMade, EndReached, copy
<1>12. HandleInv(h)'
  BY <1>1, <1>2, <1>7, <1>8, <1>9, <1>10, <1>11 DEF HandleInv, GivenFront, CopyMade, EndReached, copy
<1>13. QED
  BY <1>2, <1>8, <1>9, <1>10, <1>12, OneHandle DEF IInv, TypeOK

LEMMA ListFailsInv ==
    ASSUME IInv, NEW h \in Opened, ListFails(h)
    PROVE  IInv'
<1>1. ReaderTypes /\ HandleInv(h) /\ pos[h] <= Len(dentries[h]) /\ fails + 1 \in 0 .. MaxFails
  BY DirAssumption DEF IInv, TypeOK, ReaderTypes, ListFails
<1>2. /\ pc[h] = "list" /\ pc' = [pc EXCEPT ![h] = "idle"] /\ failed' = [failed EXCEPT ![h] = TRUE] /\ fails' = fails + 1
      /\ UNCHANGED <<store, children, complete, dentries, pos, got, ended, stale, stable, seeks, ub>>
  BY DEF ListFails, At, reader, dir
<1>3. ReaderTypes' /\ OthersKeep(h) /\ Opened' = Opened
  BY <1>1, <1>2 DEF ReaderTypes, OthersKeep, Opened
<1>4. pc'[h] = "idle" /\ failed'[h]
  BY <1>1, <1>2 DEF ReaderTypes
<1>5. HandleInv(h)'
  BY <1>1, <1>2, <1>4 DEF HandleInv, GivenFront, CopyMade, EndReached
<1>6. QED
  BY <1>1, <1>2, <1>3, <1>5, OneHandle DEF IInv, TypeOK

LEMMA ReplyInv ==
    ASSUME IInv, DotsTogether, NEW h \in Opened, Reply(h)
    PROVE  IInv'
<1>1. ReaderTypes /\ HandleInv(h) /\ pos[h] <= Len(dentries[h])
  BY DEF IInv, TypeOK, ReaderTypes
<1>2. /\ pc[h] = "reply"
      /\ UNCHANGED <<store, children, complete, dentries, stale, stable, failed, seeks, fails>>
  BY DEF Reply, At, dir
<1>3. dentries[h] # <<>> /\ ~ended[h] /\ pos[h] # 1 /\ got[h] = SubSeq(dentries[h], 1, pos[h])
  BY <1>1, <1>2 DEF HandleInv, GivenFront, CopyMade, EndReached
<1>4. PICK reply \in Replies(h) :
        \/ ub' = TRUE /\ UNCHANGED <<pc, reader>>
        \/ Consume(h, Fitted(reply)) /\ pc' = [pc EXCEPT ![h] = "idle"] /\ UNCHANGED ub
  BY DEF Reply
<1>5. dentries[h] \in Seq(Entries) /\ pos[h] \in Nat
  BY <1>1 DEF ReaderTypes
<1>6. /\ reply \in Seq([name : Entries, off : Nat])
      /\ pos[h] + Len(reply) <= Len(dentries[h])
      /\ \A k \in 1 .. Len(reply) : reply[k].name = dentries[h][pos[h] + k] /\ reply[k].off = pos[h] + k
      /\ Len(reply) = 0 => pos[h] = Len(dentries[h])
  BY <1>1, <1>3, <1>5, ReplyShape
<1> DEFINE given == Fitted(reply)
<1>7. /\ given \in Seq([name : Entries, off : Nat]) /\ Len(given) <= Len(reply)
      /\ \A k \in 1 .. Len(given) : given[k] = reply[k]
      /\ given = <<>> => Len(reply) = 0
  BY <1>6, FittedShape
<1> HIDE DEF given
<1>8. CASE UNCHANGED <<pc, reader>> /\ ub' = TRUE
  <2>1. ReaderTypes' /\ OthersKeep(h) /\ Opened' = Opened /\ HandleInv(h)' /\ pos'[h] <= Len(dentries'[h])
    BY <1>1, <1>2, <1>8 DEF ReaderTypes, OthersKeep, Opened, HandleInv, GivenFront, CopyMade, EndReached, reader
  <2>2. QED
    BY <1>2, <1>8, <2>1, OneHandle DEF IInv, TypeOK
<1>9. CASE Consume(h, given) /\ pc' = [pc EXCEPT ![h] = "idle"] /\ UNCHANGED ub
  <2>1. pc'[h] = "idle" /\ pc' \in [Opened -> {"idle", "list", "reply", "closed"}]
    BY <1>1, <1>9 DEF ReaderTypes
  <2>2. CASE given = <<>>
    <3>1. ended' = [ended EXCEPT ![h] = TRUE] /\ UNCHANGED <<pos, got>>
      BY <1>9, <2>2 DEF Consume
    <3>2. ReaderTypes' /\ OthersKeep(h) /\ Opened' = Opened
      BY <1>1, <1>2, <1>9, <2>1, <3>1 DEF ReaderTypes, OthersKeep, Opened
    <3>3. pos[h] = Len(dentries[h])
      BY <1>6, <1>7, <2>2
    <3>4. HandleInv(h)' /\ pos'[h] <= Len(dentries'[h])
      BY <1>1, <1>2, <1>3, <2>1, <3>1, <3>3 DEF HandleInv, GivenFront, CopyMade, EndReached
    <3>5. QED
      BY <1>2, <1>9, <3>2, <3>4, OneHandle DEF IInv, TypeOK
  <2>3. CASE given # <<>>
    <3> DEFINE names(k) == [i \in 1 .. k |-> given[i].name]
    <3>1. PICK k \in DOMAIN given :
            /\ given[k].off # 1
            /\ pos' = [pos EXCEPT ![h] = given[k].off]
            /\ got' = [got EXCEPT ![h] = @ \o names(k)]
            /\ UNCHANGED ended
      BY <1>9, <2>3 DEF Consume, DotsTogether
    <3>2. k \in 1 .. Len(given) /\ k \in Nat /\ given[k].off = pos[h] + k /\ pos[h] + k <= Len(dentries[h])
      <4>1. k \in 1 .. Len(given) /\ Len(given) \in Nat /\ Len(reply) \in Nat
        BY <1>6, <1>7, <3>1
      <4>2. k \in 1 .. Len(reply) /\ given[k] = reply[k]
        BY <1>7, <4>1
      <4>3. reply[k].off = pos[h] + k
        BY <1>6, <4>2
      <4>4. Len(dentries[h]) \in Nat /\ k <= Len(reply)
        BY <1>5, <4>2
      <4>5. pos[h] + k <= Len(dentries[h])
        BY <1>5, <1>6, <4>1, <4>4
      <4>6. QED
        BY <4>1, <4>2, <4>3, <4>5
    <3>3. \A i \in 1 .. k : given[i].name \in Entries /\ given[i].name = dentries[h][pos[h] + i]
      <4> TAKE i \in 1 .. k
      <4>1. Len(given) \in Nat /\ Len(reply) \in Nat
        BY <1>6, <1>7
      <4>2. i \in 1 .. Len(given) /\ i \in 1 .. Len(reply)
        BY <1>7, <3>2, <4>1
      <4>3. given[i] = reply[i]
        BY <1>7, <4>2
      <4>4. reply[i].name = dentries[h][pos[h] + i]
        BY <1>6, <4>2
      <4>5. dentries[h][pos[h] + i] \in Entries
        <5>1. pos[h] + i \in 1 .. Len(dentries[h])
          BY <1>5, <3>2
        <5>2. QED
          BY <1>5, <5>1
      <4>6. QED
        BY <4>3, <4>4, <4>5
    <3>4. names(k) \in Seq(Entries) /\ Len(names(k)) = k /\ \A i \in 1 .. k : names(k)[i] = dentries[h][pos[h] + i]
      <4>1. names(k) \in [1 .. k -> Entries]
        BY <3>3
      <4> HIDE DEF names
      <4>2. names(k) \in Seq(Entries) /\ Len(names(k)) = k
        BY <3>2, <4>1, FnIsSeq
      <4>3. QED
        BY <4>2, <3>3 DEF names
    <3> HIDE DEF names
    <3>5. SubSeq(dentries[h], 1, pos[h]) \o names(k) = SubSeq(dentries[h], 1, pos[h] + k)
      BY <1>5, <3>2, <3>4, FrontGrows
    <3>6. pos[h] + k \in Nat /\ pos[h] + k # 1
      BY <1>5, <3>1, <3>2
    <3>7. pos'[h] = pos[h] + k /\ got'[h] = SubSeq(dentries[h], 1, pos[h] + k)
      BY <1>1, <1>3, <3>1, <3>2, <3>5 DEF ReaderTypes
    <3>8. SubSeq(dentries[h], 1, pos[h] + k) \in Seq(Entries)
      BY <1>5, <3>2, <3>6
    <3>9. ReaderTypes' /\ OthersKeep(h) /\ Opened' = Opened
      <4>1. pos' = [pos EXCEPT ![h] = pos[h] + k] /\ got' = [got EXCEPT ![h] = SubSeq(dentries[h], 1, pos[h] + k)]
        BY <1>1, <1>3, <3>1, <3>2, <3>5 DEF ReaderTypes
      <4> DEFINE front == SubSeq(dentries[h], 1, pos[h] + k)
                 next == pos[h] + k
      <4> HIDE DEF front, next
      <4>2. pos' \in [Opened -> Nat] /\ got' \in [Opened -> Seq(Entries)]
        BY <1>1, <3>6, <3>8, <4>1 DEF ReaderTypes, front, next
      <4>3. \A g \in Opened \ {h} : pos'[g] = pos[g] /\ got'[g] = got[g] /\ pc'[g] = pc[g]
        <5>1. pos' = [pos EXCEPT ![h] = next] /\ got' = [got EXCEPT ![h] = front]
          BY <4>1 DEF front, next
        <5>2. QED
          BY <1>1, <1>9, <5>1 DEF ReaderTypes
      <4>4. QED
        BY <1>1, <1>2, <2>1, <3>1, <4>2, <4>3 DEF ReaderTypes, OthersKeep, Opened
    <3>10. HandleInv(h)' /\ pos'[h] <= Len(dentries'[h])
      BY <1>1, <1>2, <1>3, <2>1, <3>1, <3>2, <3>6, <3>7 DEF HandleInv, GivenFront, CopyMade, EndReached
    <3>11. QED
      BY <1>2, <1>9, <3>1, <3>9, <3>10, OneHandle DEF IInv, TypeOK
  <2>4. QED
    BY <2>2, <2>3
<1>10. QED
  BY <1>4, <1>8, <1>9 DEF given

LEMMA SeekInv ==
    ASSUME IInv, NEW h \in Opened, Seek(h)
    PROVE  IInv'
<1>1. ReaderTypes /\ HandleInv(h) /\ pos[h] <= Len(dentries[h]) /\ seeks + 1 \in 0 .. MaxSeeks
  BY DirAssumption DEF IInv, TypeOK, ReaderTypes, Seek
<1>2. /\ pc[h] = "idle" /\ ended' = [ended EXCEPT ![h] = FALSE] /\ seeks' = seeks + 1
      /\ UNCHANGED <<store, children, complete, dentries, pc, stale, stable, failed, fails, ub>>
  BY DEF Seek, Idle, dir
<1>3. dentries[h] \in Seq(Entries) /\ pos[h] \in Nat /\ pos[h] # 1 /\ got[h] = SubSeq(dentries[h], 1, pos[h])
  BY <1>1 DEF ReaderTypes, HandleInv, GivenFront
<1>4. PICK p \in {0, pos[h]} \cup 2 .. pos[h] :
        pos' = [pos EXCEPT ![h] = p] /\ got' = [got EXCEPT ![h] = SubSeq(@, 1, p)]
  BY DEF Seek
<1>5. p \in Nat /\ p <= pos[h] /\ p # 1 /\ p <= Len(dentries[h])
  BY <1>1, <1>3
<1>6. SubSeq(got[h], 1, p) = SubSeq(dentries[h], 1, p)
  BY <1>1, <1>3, <1>5, FrontOfFront
<1>7. SubSeq(dentries[h], 1, p) \in Seq(Entries)
  BY <1>3, <1>5
<1>8. got' = [got EXCEPT ![h] = SubSeq(dentries[h], 1, p)]
  BY <1>1, <1>4, <1>6 DEF ReaderTypes
<1>9. ReaderTypes' /\ OthersKeep(h) /\ Opened' = Opened
  BY <1>1, <1>2, <1>4, <1>5, <1>7, <1>8 DEF ReaderTypes, OthersKeep, Opened
<1>10. pos'[h] = p /\ got'[h] = SubSeq(dentries[h], 1, p) /\ ~ended'[h]
  BY <1>1, <1>2, <1>4, <1>8 DEF ReaderTypes
<1>11. HandleInv(h)' /\ pos'[h] <= Len(dentries'[h])
  BY <1>1, <1>2, <1>5, <1>10 DEF HandleInv, GivenFront, CopyMade, EndReached
<1>12. QED
  BY <1>1, <1>2, <1>9, <1>11, OneHandle DEF IInv, TypeOK

LEMMA ReleaseDirInv ==
    ASSUME IInv, NEW h \in Opened, ReleaseDir(h)
    PROVE  IInv'
<1>1. ReaderTypes /\ HandleInv(h) /\ pos[h] <= Len(dentries[h])
  BY DEF IInv, TypeOK, ReaderTypes
<1>2. /\ pc[h] = "idle" /\ pc' = [pc EXCEPT ![h] = "closed"]
      /\ UNCHANGED <<store, children, complete, dentries, pos, got, ended, stale, stable, failed, seeks, fails, ub>>
  BY DEF ReleaseDir, Idle, dir, reader
<1>3. ReaderTypes' /\ OthersKeep(h) /\ Opened' = Opened /\ pc'[h] = "closed"
  BY <1>1, <1>2 DEF ReaderTypes, OthersKeep, Opened
<1>4. HandleInv(h)'
  BY <1>1, <1>2, <1>3 DEF HandleInv, GivenFront, CopyMade, EndReached
<1>5. QED
  BY <1>1, <1>2, <1>3, <1>4, OneHandle DEF IInv, TypeOK

\* A step that concerns no handle, apart from names that are removed.
LEMMA NoHandle ==
    ASSUME IInv, UNCHANGED <<dentries, pc, pos, got, ended, failed, seeks, fails, ub>>,
           store' \subseteq Names, children' \subseteq store', complete' \in BOOLEAN, complete' => children' = store',
           stale' \in [Opened -> SUBSET Names], stable' \in [Opened -> SUBSET Names],
           \A g \in Opened : stable'[g] \subseteq stable[g] /\ stable'[g] \subseteq store'
    PROVE  IInv'
<1>1. Opened' = Opened
  BY DEF Opened
<1>2. TypeOK'
  BY <1>1 DEF IInv, TypeOK
<1>3. \A g \in Opened : HandleInv(g)'
  BY Untouched DEF IInv
<1>4. QED
  BY <1>1, <1>2, <1>3 DEF IInv

LEMMA ChangesInv ==
    ASSUME IInv, Expire \/ Rest \/ UNCHANGED vars \/ \E n \in Names : Create(n) \/ Remove(n)
    PROVE  IInv'
<1>1. /\ store \subseteq Names /\ children \subseteq store /\ complete \in BOOLEAN /\ (complete => children = store)
      /\ stale \in [Opened -> SUBSET Names] /\ stable \in [Opened -> SUBSET Names]
      /\ \A g \in Opened : stable[g] \subseteq store
  BY DEF IInv, TypeOK, HandleInv, CopyMade
<1>2. CASE Expire \/ Rest \/ UNCHANGED vars
  <2>1. UNCHANGED <<dentries, pc, pos, got, ended, failed, seeks, fails, ub, stale, stable, store, children>>
    BY <1>2 DEF Expire, Rest, vars, dir, reader
  <2>2. complete' = FALSE \/ complete' = complete
    BY <1>2 DEF Expire, Rest, vars, dir
  <2>3. complete' \in BOOLEAN /\ (complete' => children' = store')
    <3>1. CASE complete' = FALSE
      BY <3>1
    <3>2. CASE complete' = complete
      BY <1>1, <2>1, <3>2
    <3>3. QED
      BY <2>2, <3>1, <3>2
  <2>4. store' \subseteq Names /\ children' \subseteq store'
    BY <1>1, <2>1
  <2>5. \A g \in Opened : stable'[g] \subseteq stable[g] /\ stable'[g] \subseteq store'
    BY <1>1, <2>1
  <2>6. QED
    BY <1>1, <2>1, <2>3, <2>4, <2>5, NoHandle
<1>3. ASSUME NEW n \in Names, Create(n) PROVE IInv'
  <2>1. /\ UNCHANGED <<dentries, pc, pos, got, ended, failed, seeks, fails, ub, stale, stable, complete>>
        /\ store' = store \cup {n} /\ children' = children \cup {n}
    BY <1>3 DEF Create, reader
  <2>2. /\ store' \subseteq Names /\ children' \subseteq store' /\ complete' \in BOOLEAN
        /\ complete' => children' = store'
    BY <1>1, <2>1
  <2>3. \A g \in Opened : stable'[g] \subseteq stable[g] /\ stable'[g] \subseteq store'
    BY <1>1, <2>1
  <2>4. QED
    BY <1>1, <2>1, <2>2, <2>3, NoHandle
<1>4. ASSUME NEW n \in Names, Remove(n) PROVE IInv'
  <2>1. /\ UNCHANGED <<dentries, pc, pos, got, ended, failed, seeks, fails, ub, complete>>
        /\ store' = store \ {n} /\ children' = children \ {n}
        /\ stale' = [h \in Opened |-> IF n \in Range(dentries[h]) THEN stale[h] \cup {n} ELSE stale[h]]
        /\ stable' = [h \in Opened |-> stable[h] \ {n}]
    BY <1>4 DEF Remove, reader
  <2>2. \A g \in Opened : stable'[g] \subseteq stable[g] /\ stable'[g] \subseteq store'
    BY <1>1, <2>1
  <2>3. stale' \in [Opened -> SUBSET Names] /\ stable' \in [Opened -> SUBSET Names]
    BY <1>1, <2>1
  <2>4. QED
    BY <1>1, <2>1, <2>2, <2>3, NoHandle
<1>5. QED
  BY <1>2, <1>3, <1>4

LEMMA Inductive ==
    ASSUME DotsTogether, IInv, [Next]_vars
    PROVE  IInv'
<1>1. ASSUME NEW h \in Opened, Handler(h) PROVE IInv'
  BY <1>1, ListInv, ListFailsInv, ReplyInv DEF Handler
<1>2. QED
  BY <1>1, OpenDirInv, ReadInv, SeekInv, ReleaseDirInv, ChangesInv DEF Next

LEMMA Invariant == DotsTogether => (Spec => []IInv)
<1> SUFFICES ASSUME DotsTogether PROVE Spec => []IInv
  OBVIOUS
<1>1. QED
  BY InitInv, Inductive, PTL DEF Spec

-----------------------------------------------------------------------------
(* The theorems.                                                           *)

\* Every open directory has a copy of entries, and the kernel's offset never
\* lies behind its end, whatever opendir, readdir and the directory do.
THEOREM TypeCorrect == DotsTogether => (Spec => []TypeOK)
<1> SUFFICES ASSUME DotsTogether PROVE Spec => []TypeOK
  OBVIOUS
<1>1. IInv => TypeOK
  BY DEF IInv
<1>2. QED
  BY <1>1, Invariant, PTL

\* No readdir gives an application an entry twice, wherever the replies are cut
\* and wherever it goes back to.
THEOREM NoNameTwice == DotsTogether => (Spec => []EachNameOnce)
<1> SUFFICES ASSUME DotsTogether PROVE Spec => []EachNameOnce
  OBVIOUS
<1>1. IInv => EachNameOnce
  <2> SUFFICES ASSUME IInv, NEW h \in Opened PROVE IsInjective(got[h])
    BY DEF EachNameOnce
  <2>1. /\ dentries[h] \in Seq(Entries) /\ pos[h] \in Nat /\ pos[h] <= Len(dentries[h])
        /\ IsInjective(dentries[h]) /\ got[h] = SubSeq(dentries[h], 1, pos[h])
    BY DEF IInv, TypeOK, HandleInv, GivenFront
  <2>2. QED
    BY <2>1, FrontInjective
<1>2. QED
  BY <1>1, Invariant, PTL

\* Who has read a directory to its end has every name that was in it since the
\* opendir, if the listing did not fail.
THEOREM StableNamesAllGiven == DotsTogether => (Spec => []StableNamesGiven)
<1> SUFFICES ASSUME DotsTogether PROVE Spec => []StableNamesGiven
  OBVIOUS
<1>1. IInv => StableNamesGiven
  <2> SUFFICES ASSUME IInv, NEW h \in Opened, ended[h], ~failed[h]
               PROVE  stable[h] \cup {".", ".."} \subseteq Range(got[h])
    BY DEF StableNamesGiven
  <2>1. dentries[h] \in Seq(Entries) /\ HandleInv(h)
    BY DEF IInv, TypeOK
  <2>2. dentries[h] # <<>> /\ pos[h] = Len(dentries[h]) /\ pc[h] # "list"
    BY <2>1 DEF HandleInv, EndReached
  <2>3. got[h] = dentries[h]
    BY <2>1, <2>2 DEF HandleInv, GivenFront
  <2>4. QED
    BY <2>1, <2>2, <2>3 DEF HandleInv, CopyMade
<1>2. QED
  BY <1>1, Invariant, PTL

-----------------------------------------------------------------------------
(* Every open directory implements DirListing.                             *)

\* What DirListing sees of a handle.
Fixed(h) == IF h \notin Opened \/ pc[h] = "list" THEN <<>> ELSE dentries[h]
Given(h) == IF h \in Opened THEN got[h] ELSE <<>>
Told(h) == IF h \in Opened THEN ended[h] ELSE FALSE
MapsTo(h) == [Listing(h)!Next]_(Listing(h)!lvars)

LEMMA MapsStutter ==
    ASSUME NEW h, Fixed(h)' = Fixed(h), Given(h)' = Given(h), Told(h)' = Told(h)
    PROVE  MapsTo(h)
  BY DEF MapsTo, Fixed, Given, Told, Listing!lvars

LEMMA MapsFix ==
    ASSUME NEW h, Fixed(h) = <<>>, Fixed(h)' # <<>>, IsInjective(Fixed(h)'),
           Given(h)' = Given(h), Told(h)' = Told(h)
    PROVE  MapsTo(h)
  BY DEF MapsTo, Fixed, Given, Told, Listing!Next, Listing!Fix, Listing!IsInjective, IsInjective

LEMMA MapsGive ==
    ASSUME NEW h, ~Told(h), Fixed(h)' = Fixed(h), Told(h)' = Told(h),
           NEW k \in Len(Given(h)) + 1 .. Len(Fixed(h)), Given(h)' = SubSeq(Fixed(h), 1, k)
    PROVE  MapsTo(h)
  BY DEF MapsTo, Fixed, Given, Told, Listing!Next, Listing!Give, Listing!Prefix

LEMMA MapsEnd ==
    ASSUME NEW h, Fixed(h) # <<>>, Given(h) = Fixed(h), Told(h) = FALSE,
           Fixed(h)' = Fixed(h), Given(h)' = Given(h), Told(h)' = TRUE
    PROVE  MapsTo(h)
  BY DEF MapsTo, Fixed, Given, Told, Listing!Next, Listing!End

LEMMA MapsGoBack ==
    ASSUME NEW h, NEW k \in 0 .. Len(Given(h)), Given(h)' = SubSeq(Fixed(h), 1, k),
           Fixed(h)' = Fixed(h), Told(h)' = FALSE
    PROVE  MapsTo(h)
  BY DEF MapsTo, Fixed, Given, Told, Listing!Next, Listing!GoBack, Listing!Prefix

\* What the invariant says in these words.
LEMMA SeenOf ==
    ASSUME IInv, NEW h \in Opened
    PROVE  /\ dentries[h] \in Seq(Entries) /\ pos[h] \in Nat /\ pos[h] <= Len(dentries[h])
           /\ Given(h) = SubSeq(dentries[h], 1, pos[h]) /\ Len(Given(h)) = pos[h]
           /\ Told(h) = ended[h] /\ ended[h] \in BOOLEAN
           /\ Fixed(h) = IF pc[h] = "list" THEN <<>> ELSE dentries[h]
           /\ IsInjective(dentries[h]) /\ HandleInv(h)
<1>1. /\ dentries[h] \in Seq(Entries) /\ pos[h] \in Nat /\ pos[h] <= Len(dentries[h]) /\ HandleInv(h)
      /\ ended[h] \in BOOLEAN
  BY DEF IInv, TypeOK
<1>2. Given(h) = SubSeq(dentries[h], 1, pos[h]) /\ IsInjective(dentries[h])
  BY <1>1 DEF HandleInv, GivenFront, Given
<1>3. Len(SubSeq(dentries[h], 1, pos[h])) = pos[h]
  BY <1>1
<1>4. QED
  BY <1>1, <1>2, <1>3 DEF Told, Fixed

LEMMA OpenDirMaps ==
    ASSUME IInv, OpenDir, NEW g
    PROVE  MapsTo(g)
<1>1. PICK n \in 0 .. MaxHandles : Opened = 1 .. n
  BY DEF IInv, TypeOK
<1>2. n \in Nat
  BY <1>1
<1>3. /\ pc \in [1 .. n -> {"idle", "list", "reply", "closed"}]
      /\ dentries \in [1 .. n -> Seq(Entries)] /\ got \in [1 .. n -> Seq(Entries)]
      /\ ended \in [1 .. n -> BOOLEAN]
  BY <1>1 DEF IInv, TypeOK
<1>4. /\ pc' = Append(pc, "idle") /\ dentries' = Append(dentries, <<>>)
      /\ got' = Append(got, <<>>) /\ ended' = Append(ended, FALSE)
  BY DEF OpenDir
<1>5. OnTo(dentries', n + 1, Seq(Entries)) /\ Longer(dentries', dentries, n, <<>>)
  BY <1>2, <1>3, <1>4, AppendFn, <<>> \in Seq(Entries) DEF OnTo
<1>6. Longer(got', got, n, <<>>)
  BY <1>2, <1>3, <1>4, AppendFn, <<>> \in Seq(Entries) DEF OnTo
<1>7. Longer(pc', pc, n, "idle")
  BY <1>2, <1>3, <1>4, AppendFn, "idle" \in {"idle", "list", "reply", "closed"} DEF OnTo
<1>8. Longer(ended', ended, n, FALSE)
  BY <1>2, <1>3, <1>4, AppendFn DEF OnTo
<1>9. Opened' = 1 .. n + 1
  BY <1>5 DEF Opened, OnTo
<1>10. Fixed(g)' = Fixed(g) /\ Given(g)' = Given(g) /\ Told(g)' = Told(g)
  <2>1. CASE g \in 1 .. n
    <3>1. g \in 1 .. n + 1
      BY <2>1, <1>2
    <3>2. QED
      BY <2>1, <3>1, <1>1, <1>5, <1>6, <1>7, <1>8, <1>9 DEF Longer, Fixed, Given, Told
  <2>2. CASE g = n + 1
    <3>1. g \notin 1 .. n /\ g \in 1 .. n + 1
      BY <2>2, <1>2
    <3>2. QED
      BY <2>2, <3>1, <1>1, <1>5, <1>6, <1>7, <1>8, <1>9 DEF Longer, Fixed, Given, Told
  <2>3. CASE g \notin 1 .. n /\ g # n + 1
    <3>1. g \notin 1 .. n + 1
      BY <2>3, <1>2
    <3>2. QED
      BY <2>3, <3>1, <1>1, <1>9 DEF Fixed, Given, Told
  <2>4. QED
    BY <2>1, <2>2, <2>3
<1>11. QED
  BY <1>10, MapsStutter

\* A step of one handle is none of any other.
LEMMA OthersMap ==
    ASSUME NEW h, OthersKeep(h), Opened' = Opened, NEW g, g # h
    PROVE  MapsTo(g)
<1>1. Fixed(g)' = Fixed(g) /\ Given(g)' = Given(g) /\ Told(g)' = Told(g)
  BY DEF OthersKeep, Fixed, Given, Told
<1>2. QED
  BY <1>1, MapsStutter

LEMMA OthersOfStep ==
    ASSUME IInv, NEW h \in Opened, Read(h) \/ Handler(h) \/ Seek(h) \/ ReleaseDir(h)
    PROVE  OthersKeep(h) /\ Opened' = Opened
<1>1. ReaderTypes
  BY DEF IInv, TypeOK, ReaderTypes
<1>2. CASE Read(h)
  BY <1>1, <1>2 DEF Read, reader, ReaderTypes, OthersKeep, Opened
<1>3. CASE List(h)
  BY <1>1, <1>3 DEF List, reader, ReaderTypes, OthersKeep, Opened
<1>4. CASE ListFails(h)
  BY <1>1, <1>4 DEF ListFails, reader, ReaderTypes, OthersKeep, Opened
<1>5. CASE Reply(h)
  <2>1. PICK reply :
          \/ UNCHANGED <<pc, reader>>
          \/ Consume(h, Fitted(reply)) /\ pc' = [pc EXCEPT ![h] = "idle"]
    BY <1>5 DEF Reply
  <2>2. UNCHANGED <<dentries, failed>>
    BY <1>5 DEF Reply
  <2>3. QED
    BY <1>1, <2>1, <2>2 DEF Consume, reader, ReaderTypes, OthersKeep, Opened
<1>6. CASE Seek(h)
  BY <1>1, <1>6 DEF Seek, ReaderTypes, OthersKeep, Opened
<1>7. CASE ReleaseDir(h)
  BY <1>1, <1>7 DEF ReleaseDir, reader, ReaderTypes, OthersKeep, Opened
<1>8. QED
  BY <1>2, <1>3, <1>4, <1>5, <1>6, <1>7 DEF Handler

LEMMA ReadMaps ==
    ASSUME IInv, IInv', NEW h \in Opened, Opened' = Opened, Read(h)
    PROVE  MapsTo(h)
<1>1. ReaderTypes
  BY DEF IInv, TypeOK, ReaderTypes
<1>2. UNCHANGED <<got, ended>> /\ pc[h] = "idle"
  BY DEF Read, Idle, reader
<1>3. Given(h)' = Given(h) /\ Told(h)' = Told(h)
  BY <1>2 DEF Given, Told
<1>4. CASE dentries[h] # <<>>
  <2>1. Fixed(h)' = Fixed(h)
    BY <1>1, <1>2, <1>4 DEF Read, Fixed, ReaderTypes
  <2>2. QED
    BY <1>3, <2>1, MapsStutter
<1>5. CASE dentries[h] = <<>>
  <2>1. Fixed(h) = <<>>
    BY <1>5 DEF Fixed
  <2>2. CASE complete
    <3>1. pc'[h] = "reply"
      BY <1>1, <1>5, <2>2 DEF Read, ReaderTypes
    <3>2. Fixed(h)' = dentries'[h] /\ dentries'[h] # <<>>
      BY <3>1 DEF Fixed, IInv, HandleInv, CopyMade
    <3>3. IsInjective(Fixed(h)')
      BY <3>2 DEF IInv, HandleInv, GivenFront
    <3>4. QED
      BY <1>3, <2>1, <3>2, <3>3, MapsFix
  <2>3. CASE ~complete
    <3>1. pc'[h] = "list"
      BY <1>1, <1>5, <2>3 DEF Read, ReaderTypes
    <3>2. Fixed(h)' = <<>>
      BY <3>1 DEF Fixed
    <3>3. QED
      BY <1>3, <2>1, <3>2, MapsStutter
  <2>4. QED
    BY <2>2, <2>3
<1>6. QED
  BY <1>4, <1>5

LEMMA ListMaps ==
    ASSUME IInv, IInv', NEW h \in Opened, Opened' = Opened, List(h) \/ ListFails(h)
    PROVE  MapsTo(h)
<1>1. ReaderTypes
  BY DEF IInv, TypeOK, ReaderTypes
<1>2. UNCHANGED <<got, ended>> /\ pc[h] = "list" /\ pc'[h] # "list"
  BY <1>1 DEF List, ListFails, At, reader, ReaderTypes
<1>3. Given(h)' = Given(h) /\ Told(h)' = Told(h) /\ Fixed(h) = <<>> /\ Fixed(h)' = dentries'[h]
  BY <1>2 DEF Given, Told, Fixed
<1>4. dentries'[h] # <<>>
  <2>1. CASE List(h)
    <3>1. pc'[h] = "reply"
      BY <1>1, <2>1 DEF List, ReaderTypes
    <3>2. QED
      BY <3>1 DEF IInv, HandleInv, CopyMade
  <2>2. CASE ListFails(h)
    <3>1. dentries[h] = Dots
      BY <1>2 DEF IInv, HandleInv, CopyMade
    <3>2. QED
      BY <2>2, <3>1 DEF ListFails, Dots
  <2>3. QED
    BY <2>1, <2>2
<1>5. IsInjective(Fixed(h)')
  BY <1>3 DEF IInv, HandleInv, GivenFront
<1>6. QED
  BY <1>3, <1>4, <1>5, MapsFix

LEMMA ReplyMaps ==
    ASSUME IInv, IInv', NEW h \in Opened, Opened' = Opened, Reply(h)
    PROVE  MapsTo(h)
<1>1. ReaderTypes
  BY DEF IInv, TypeOK, ReaderTypes
<1>2. pc[h] = "reply" /\ dentries' = dentries
  BY DEF Reply, At
<1>3. /\ dentries[h] # <<>> /\ ~ended[h] /\ pos[h] # 1
      /\ dentries[h] \in Seq(Entries) /\ pos[h] \in Nat /\ pos[h] <= Len(dentries[h])
      /\ Given(h) = SubSeq(dentries[h], 1, pos[h]) /\ Len(Given(h)) = pos[h]
      /\ Fixed(h) = dentries[h] /\ Told(h) = FALSE
  BY <1>2, SeenOf DEF HandleInv, GivenFront, CopyMade, EndReached
<1>4. PICK reply \in Replies(h) :
        \/ UNCHANGED <<pc, reader>>
        \/ Consume(h, Fitted(reply)) /\ pc' = [pc EXCEPT ![h] = "idle"]
  BY DEF Reply
<1>5. pc'[h] # "list" /\ Fixed(h)' = Fixed(h)
  <2>1. pc'[h] # "list"
    BY <1>1, <1>2, <1>4 DEF ReaderTypes
  <2>2. QED
    BY <1>2, <2>1 DEF Fixed
<1>6. /\ reply \in Seq([name : Entries, off : Nat])
      /\ \A k \in 1 .. Len(reply) : reply[k].off = pos[h] + k
      /\ Len(reply) = 0 => pos[h] = Len(dentries[h])
  BY <1>3, ReplyShape
<1> DEFINE given == Fitted(reply)
<1>7. /\ given \in Seq([name : Entries, off : Nat]) /\ Len(given) <= Len(reply)
      /\ \A k \in 1 .. Len(given) : given[k] = reply[k]
      /\ given = <<>> => Len(reply) = 0
  BY <1>6, FittedShape
<1> HIDE DEF given
<1>8. CASE UNCHANGED <<pc, reader>>
  BY <1>5, <1>8, MapsStutter DEF reader, Given, Told
<1>9. CASE Consume(h, given) /\ given = <<>>
  <2>1. ended' = [ended EXCEPT ![h] = TRUE] /\ got' = got
    BY <1>9 DEF Consume
  <2>2. Told(h)' = TRUE /\ Given(h)' = Given(h)
    BY <1>1, <2>1 DEF Told, Given, ReaderTypes
  <2>3. Given(h) = Fixed(h)
    BY <1>3, <1>6, <1>7, <1>9, SubSeqFull
  <2>4. QED
    BY <1>3, <1>5, <2>2, <2>3, MapsEnd
<1>10. CASE Consume(h, given) /\ given # <<>>
  <2>1. PICK k \in DOMAIN given : pos' = [pos EXCEPT ![h] = given[k].off] /\ UNCHANGED ended
    BY <1>10 DEF Consume
  <2>2. k \in 1 .. Len(given) /\ Len(given) \in Nat /\ Len(reply) \in Nat
    BY <1>6, <1>7, <2>1
  <2>3. k \in 1 .. Len(reply) /\ given[k] = reply[k]
    BY <1>7, <2>2
  <2>4. pos'[h] = pos[h] + k
    BY <1>1, <1>6, <2>1, <2>3 DEF ReaderTypes
  <2>5. Given(h)' = SubSeq(Fixed(h), 1, pos'[h]) /\ pos'[h] \in Nat /\ pos'[h] <= Len(Fixed(h))
    <3>1. got'[h] = SubSeq(dentries'[h], 1, pos'[h]) /\ pos'[h] \in Nat /\ pos'[h] <= Len(dentries'[h])
      BY DEF IInv, TypeOK, HandleInv, GivenFront
    <3>2. QED
      BY <1>2, <1>3, <3>1 DEF Given
  <2>6. pos'[h] \in Len(Given(h)) + 1 .. Len(Fixed(h))
    BY <1>3, <2>2, <2>4, <2>5
  <2>7. ~Told(h) /\ Told(h)' = Told(h)
    BY <1>3, <2>1 DEF Told
  <2>8. QED
    BY <1>5, <2>5, <2>6, <2>7, MapsGive
<1>11. QED
  BY <1>4, <1>8, <1>9, <1>10 DEF given

LEMMA SeekMaps ==
    ASSUME IInv, IInv', NEW h \in Opened, Opened' = Opened, Seek(h)
    PROVE  MapsTo(h)
<1>1. ReaderTypes
  BY DEF IInv, TypeOK, ReaderTypes
<1>2. pc[h] = "idle" /\ UNCHANGED <<dentries, pc>> /\ ended' = [ended EXCEPT ![h] = FALSE]
  BY DEF Seek, Idle
<1>3. Fixed(h) = dentries[h] /\ Fixed(h)' = Fixed(h) /\ Told(h)' = FALSE
  BY <1>1, <1>2 DEF Fixed, Told, ReaderTypes
<1>4. Len(Given(h)) = pos[h] /\ pos[h] \in Nat
  BY SeenOf
<1>5. PICK p \in {0, pos[h]} \cup 2 .. pos[h] : pos' = [pos EXCEPT ![h] = p]
  BY DEF Seek
<1>6. pos'[h] \in 0 .. Len(Given(h))
  BY <1>1, <1>4, <1>5 DEF ReaderTypes
<1>7. Given(h)' = SubSeq(Fixed(h), 1, pos'[h])
  <2>1. got'[h] = SubSeq(dentries'[h], 1, pos'[h])
    BY DEF IInv, TypeOK, HandleInv, GivenFront
  <2>2. QED
    BY <1>2, <1>3, <2>1 DEF Given
<1>8. QED
  BY <1>3, <1>6, <1>7, MapsGoBack

LEMMA ReleaseDirMaps ==
    ASSUME IInv, NEW h \in Opened, Opened' = Opened, ReleaseDir(h)
    PROVE  MapsTo(h)
<1>1. ReaderTypes
  BY DEF IInv, TypeOK, ReaderTypes
<1>2. Fixed(h)' = Fixed(h) /\ Given(h)' = Given(h) /\ Told(h)' = Told(h)
  BY <1>1 DEF ReleaseDir, Idle, reader, Fixed, Given, Told, ReaderTypes
<1>3. QED
  BY <1>2, MapsStutter

LEMMA ChangesMap ==
    ASSUME Expire \/ Rest \/ UNCHANGED vars \/ \E n \in Names : Create(n) \/ Remove(n), NEW g
    PROVE  MapsTo(g)
<1>1. UNCHANGED <<dentries, pc, got, ended>>
  BY DEF Expire, Rest, vars, Create, Remove, reader
<1>2. Fixed(g)' = Fixed(g) /\ Given(g)' = Given(g) /\ Told(g)' = Told(g)
  BY <1>1 DEF Fixed, Given, Told, Opened
<1>3. QED
  BY <1>2, MapsStutter

LEMMA StepMaps ==
    ASSUME DotsTogether, IInv, [Next]_vars, NEW g
    PROVE  MapsTo(g)
<1>1. IInv'
  BY Inductive
<1>2. ASSUME NEW h \in Opened, Read(h) \/ Handler(h) \/ Seek(h) \/ ReleaseDir(h)
      PROVE  MapsTo(g)
  <2>1. OthersKeep(h) /\ Opened' = Opened
    BY <1>2, OthersOfStep
  <2>2. CASE g = h
    BY <1>1, <1>2, <2>1, <2>2, ReadMaps, ListMaps, ReplyMaps, SeekMaps, ReleaseDirMaps DEF Handler
  <2>3. CASE g # h
    BY <2>1, <2>3, OthersMap
  <2>4. QED
    BY <2>2, <2>3
<1>3. QED
  BY <1>2, OpenDirMaps, ChangesMap DEF Next

\* Every open directory gives what DirListing promises: one listing, fixed when
\* it is first read, from front to back, whatever sizes are asked for and
\* whatever happens to the directory.
THEOREM DirImplementsListing == DotsTogether => (Spec => ImplementsListing)
<1> SUFFICES ASSUME DotsTogether PROVE Spec => ImplementsListing
  OBVIOUS
<1>1. Init => \A h \in Handles : Listing(h)!Init
  <2> SUFFICES ASSUME Init, NEW h \in Handles PROVE Listing(h)!Init
    OBVIOUS
  <2>1. h \notin Opened
    BY DEF Init, Opened
  <2>2. QED
    BY <2>1 DEF Listing!Init
<1>2. IInv /\ [Next]_vars => [\A h \in Handles : [Listing(h)!Next]_(Listing(h)!lvars)]_vars
  BY StepMaps DEF MapsTo
<1>3. QED
  BY <1>1, <1>2, Invariant, PTL DEF Spec, ImplementsListing
=============================================================================
