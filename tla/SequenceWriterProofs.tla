------------------------ MODULE SequenceWriterProofs ------------------------
(***************************************************************************)
(* What SequenceWriter guarantees for every part size, every set of write  *)
(* sizes and every number of failures, provided that uploads of parts do   *)
(* not fail and that no write crosses the end of a part.                   *)
(***************************************************************************)
EXTENDS SequenceWriter, SequenceTheorems, TLAPS

\* The conditions under which the writer keeps its promise.  Each is needed:
\* without the first a byte can be lost, without the second a buffer overflows.
Aligned == ~MayStraddle /\ PartSize <= MPartSize
PartsAlwaysTaken == "mput" \notin FaultyOps

-----------------------------------------------------------------------------
(* The inductive invariant.                                                *)

\* Bytes 0 .. n - 1 are in the buffers and the session, once and in place.
Held(n) ==
    IF uptype = "PUT"
    THEN put_part = Data(0, n)
    ELSE \E m \in 0..n : /\ part_num <= m
                         /\ PartsHold(session, part_num, m)
                         /\ mput_part = Data(m, n - m)

\* The put part is all there is as long as no upload has begun.
PutAlone ==
    /\ pc \in {"minit", "put_file"} => uptype = "PUT"
    /\ pc \in {"mput", "mput_put_part", "mput_last", "mfinish"} => uptype = "MPUT"
    /\ uptype = "PUT" => session = NoParts /\ mput_part = <<>> /\ Len(put_part) <= PartSize

\* Where the handler is between two bytes it has accounted for.
LoopHead == call.wbytes = 0 /\ call.pos = next_write_offset /\ call.size = call.total
            /\ call.total > 0

Progress ==
    /\ pc \in {"idle", "put_file", "mput_last", "mfinish"} => Held(next_write_offset)
    /\ pc = "write" =>
          IF call.wbytes = call.total THEN Held(next_write_offset + call.total)
          ELSE LoopHead /\ Held(next_write_offset) /\ call.total <= Room
    /\ pc = "minit" => LoopHead /\ Held(next_write_offset) /\ call.total <= Room
                       /\ Len(put_part) = PartSize
    /\ pc = "mput_put_part" =>
          /\ LoopHead /\ call.total <= MPartSize
          /\ put_part = Data(0, next_write_offset)
          /\ Len(put_part) = MPartSize
          /\ part_num = 0 /\ session = NoParts /\ mput_part = <<>>
    /\ pc = "mput" => call.wbytes = call.total /\ Held(next_write_offset + call.total)
                      /\ call.size = call.total

\* The multipart buffer is full only while it waits to be uploaded, and every
\* part but the last is as long as the buffer.
PartLengths ==
    /\ pc = "mput" => Len(mput_part) = MPartSize
    /\ pc = "mput_last" => Len(mput_part) > 0
    /\ pc = "mfinish" => mput_part = <<>> /\ next_write_offset > 0
    /\ pc = "put_file" => next_write_offset > 0
    /\ pc # "mput" => Len(mput_part) < MPartSize
    /\ pc # "mfinish" => \A p \in DOMAIN session : Len(session[p]) = MPartSize

ObjectInv ==
    /\ pc # "idle" => handle = "open"
    /\ handle \in {"open", "dead"} => object = OldObject
    /\ ObjectOldOrWhole
    /\ ReleasedObjectExact

IInv ==
    /\ OnlyLastPartShort
    /\ handle = "open" => PutAlone /\ Progress /\ PartLengths
    /\ ObjectInv

-----------------------------------------------------------------------------
(* Lemmas about the bytes of a file.                                       *)

\* Data(a, n) is a sequence of n naturals.
LEMMA DataType ==
    ASSUME NEW a \in Nat, NEW n \in Nat
    PROVE  /\ Data(a, n) \in Seq(Nat)
           /\ Len(Data(a, n)) = n
           /\ \A i \in 1..n : Data(a, n)[i] = a + i - 1
<1>1. \A i \in 1..n : a + i - 1 \in Nat
  OBVIOUS
<1>2. Data(a, n) \in [1..n -> Nat]
  BY <1>1 DEF Data
<1> QED
  BY <1>2 DEF Data

\* Bytes appended behind bytes continue the run (Part::write in write_data).
LEMMA DataConcat ==
    ASSUME NEW a \in Nat, NEW m \in Nat, NEW n \in Nat
    PROVE  Data(a, m) \o Data(a + m, n) = Data(a, m + n)
<1> DEFINE s == Data(a, m)  t == Data(a + m, n)  u == Data(a, m + n)
<1>1. /\ s \in Seq(Nat) /\ Len(s) = m
      /\ \A i \in 1..m : s[i] = a + i - 1
  BY DataType
<1>2. /\ t \in Seq(Nat) /\ Len(t) = n
      /\ \A i \in 1..n : t[i] = a + m + i - 1
  BY DataType, a + m \in Nat
<1>3. /\ u \in Seq(Nat) /\ Len(u) = m + n
      /\ \A i \in 1..(m + n) : u[i] = a + i - 1
  BY DataType, m + n \in Nat
<1> HIDE DEF s, t, u
<1>4. s \o t \in Seq(Nat) /\ Len(s \o t) = m + n
  BY <1>1, <1>2, ConcatProperties
<1>5. \A i \in 1..(m + n) : (s \o t)[i] = u[i]
  <2> TAKE i \in 1..(m + n)
  <2>1. CASE i <= m
    BY <2>1, <1>1, <1>2, <1>3, ConcatProperties
  <2>2. CASE i > m
    <3>1. i - m \in 1..n
      BY <2>2
    <3>2. (s \o t)[i] = t[i - m]
      BY <2>2, <1>1, <1>2, ConcatProperties
    <3> QED
      BY <3>1, <3>2, <1>2, <1>3
  <2>3. i <= m \/ i > m
    OBVIOUS
  <2> QED
    BY <2>1, <2>2, <2>3
<1>6. s \o t = u
  BY <1>3, <1>4, <1>5, SeqEqual
<1> QED
  BY <1>6 DEF s, t, u

\* A stretch of the file that is not empty is a run that starts at its offset.
LEMMA DataIsRun ==
    ASSUME NEW a \in Nat, NEW n \in Nat, n > 0
    PROVE  IsRun(Data(a, n)) /\ Data(a, n)[1] = a
<1> DEFINE s == Data(a, n)
<1>1. s \in Seq(Nat) /\ Len(s) = n /\ \A i \in 1..n : s[i] = a + i - 1
  BY DataType
<1> HIDE DEF s
<1>2. s[1] = a
  BY <1>1, 1 \in 1..n
<1>3. s # <<>>
  BY <1>1, EmptySeq
<1>4. s = Data(s[1], Len(s))
  BY <1>1, <1>2 DEF s
<1>5. IsRun(s)
  BY <1>3, <1>4 DEF IsRun
<1> QED
  BY <1>2, <1>5 DEF s

\* No bytes, and only no bytes, are the empty part.
LEMMA NoData ==
    ASSUME NEW a \in Nat, NEW n \in Nat
    PROVE  Data(a, n) = <<>> <=> n = 0
BY DataType, EmptySeq

\* No parts hold no bytes, and only no parts do.
LEMMA NoPartsHoldNothing ==
    ASSUME NEW n \in Nat
    PROVE  PartsHold(NoParts, 0, n) <=> n = 0
BY DEF PartsHold, NoParts

\* The next bytes, stored under the next number, extend what the parts hold
\* (upload_part).
LEMMA StorePart ==
    ASSUME NEW parts, NEW k \in Nat, NEW m \in Nat, NEW n \in Nat, n > 0,
           PartsHold(parts, k, m)
    PROVE  PartsHold(Store(parts, k, Data(m, n)), k + 1, m + n)
<1> DEFINE new == Store(parts, k, Data(m, n))
<1>1. DOMAIN new = 0..k /\ DOMAIN parts = 0..(k - 1)
  BY DEF PartsHold, Store
<1>2. new[k] = Data(m, n) /\ \A p \in 0..(k - 1) : new[p] = parts[p]
  BY <1>1 DEF Store, PartsHold
<1>3. IsRun(new[k]) /\ new[k][1] = m /\ Len(new[k]) = n
  <2>1. IsRun(Data(m, n)) /\ Data(m, n)[1] = m /\ Len(Data(m, n)) = n
    BY DataIsRun, DataType
  <2> HIDE DEF new
  <2> QED
    BY <1>2, <2>1
<1>4. m = IF k = 0 THEN 0 ELSE new[k - 1][1] + Len(new[k - 1])
  BY <1>2 DEF PartsHold
<1>5. \A p \in 0..(k - 1) :
         /\ IsRun(new[p])
         /\ new[p][1] = IF p = 0 THEN 0 ELSE new[p - 1][1] + Len(new[p - 1])
  <2> TAKE p \in 0..(k - 1)
  <2>1. p # 0 => p - 1 \in 0..(k - 1)
    OBVIOUS
  <2> QED
    BY <1>2, <2>1 DEF PartsHold
<1> HIDE DEF new
<1>6. \A p \in 0..k :
         /\ IsRun(new[p])
         /\ new[p][1] = IF p = 0 THEN 0 ELSE new[p - 1][1] + Len(new[p - 1])
  BY <1>3, <1>4, <1>5
<1>7. PartsHold(new, k + 1, m + n)
  BY <1>1, <1>3, <1>6 DEF PartsHold
<1> QED
  BY <1>7 DEF new

-----------------------------------------------------------------------------
(* Type correctness, whatever may fail and however writes are cut.  It     *)
(* needs the bookkeeping of the loop: a part takes all of a write or       *)
(* nothing, so size - wbytes never falls below zero.                       *)

CallInv ==
    pc \in {"write", "minit", "mput_put_part", "mput"} =>
        /\ call.wbytes \in {0, call.total}
        /\ call.wbytes = 0 \/ pc # "write" => call.size = call.total

TInv == TypeOK /\ CallInv

LEMMA AppendedType ==
    ASSUME NEW part \in Seq(Nat), NEW size \in Nat, NEW data \in Seq(Nat)
    PROVE  /\ Appended(part, size, data) \in Seq(Nat)
           /\ Written(part, size, data) \in {0, Len(data)}
BY ConcatProperties DEF Appended, Written

LEMMA StoreType ==
    ASSUME NEW parts, NEW k \in Nat, NEW data \in Seq(Nat),
           DOMAIN parts \subseteq Nat, \A p \in DOMAIN parts : parts[p] \in Seq(Nat)
    PROVE  /\ DOMAIN Store(parts, k, data) \subseteq Nat
           /\ \A p \in DOMAIN Store(parts, k, data) : Store(parts, k, data)[p] \in Seq(Nat)
BY DEF Store

LEMMA CallDataType ==
    ASSUME call \in Calls
    PROVE  CallData \in Seq(Nat) /\ Len(CallData) = call.size
<1>1. call.pos \in Nat /\ call.size \in Nat
  BY DEF Calls
<1> QED
  BY <1>1, DataType DEF CallData

\* Moving on past bytes that were all, or none of them, written.
LEMMA AdvanceType ==
    ASSUME NEW c \in Calls, c.wbytes \in {0, c.total}, c.size = c.total
    PROVE  /\ Advance(c) \in Calls
           /\ Advance(c).wbytes = c.wbytes
           /\ Advance(c).total = c.total
           /\ Advance(c).pos = c.pos + c.wbytes
           /\ c.wbytes = 0 => Advance(c).size = c.size
<1>1. c.pos \in Nat /\ c.size \in Nat /\ c.wbytes \in Nat /\ c.total \in Nat
  BY DEF Calls
<1>2. c.size - c.wbytes \in Nat /\ c.pos + c.wbytes \in Nat
  BY <1>1
<1>3. c.wbytes = 0 => c.size - c.wbytes = c.size
  BY <1>1
<1> QED
  BY <1>2, <1>3 DEF Advance, Calls

\* Counting the bytes of a write that a part took, all of them or none.
LEMMA WroteType ==
    ASSUME NEW c \in Calls, NEW n \in {0, c.size}, c.wbytes = 0, c.size = c.total
    PROVE  /\ Wrote(c, n) \in Calls
           /\ Wrote(c, n).wbytes = n
           /\ Wrote(c, n).total = c.total
           /\ Wrote(c, n).size = c.size
           /\ Wrote(c, n).pos = c.pos
BY DEF Wrote, Calls

LEMMA TypeInit == Init => TInv
BY SizesAssumption, EmptySeq DEF Init, TInv, TypeOK, CallInv, Calls, NoCall, NoParts

LEMMA TypeStep == TInv /\ [Next]_vars => TInv'
<1> SUFFICES ASSUME TInv, [Next]_vars
             PROVE  TInv'
  OBVIOUS
<1> USE SizesAssumption, FaultsAssumption DEF TInv, TypeOK
<1>1. CASE UNCHANGED vars
  BY <1>1 DEF vars, CallInv
<1>2. ASSUME NEW size \in WriteSizes, Write(size)
      PROVE  TInv'
  BY <1>2 DEF Write, bufVars, storeVars, CallInv, Calls
<1>3. ASSUME NEW off \in 0..MaxFileSize, WriteElsewhere(off)
      PROVE  TInv'
  BY <1>3 DEF WriteElsewhere, bufVars, storeVars, CallInv
<1>4. CASE Release
  BY <1>4 DEF Release, Close, bufVars, storeVars, CallInv
<1>5. CASE WriteToPutPart
  <2>1. put_part' \in Seq(Nat) /\ Written(put_part, PartSize, CallData) \in {0, call.size}
    BY <1>5, AppendedType, CallDataType DEF WriteToPutPart
  <2>2. call.wbytes = 0 /\ call.size = call.total
    BY <1>5 DEF WriteToPutPart, InLoop, CallInv
  <2>3. call' \in Calls /\ CallInv'
    BY <1>5, <2>1, <2>2, WroteType DEF WriteToPutPart, CallInv
  <2> QED
    BY <1>5, <2>1, <2>3 DEF WriteToPutPart, storeVars
<1>6. CASE Minit
  <2>1. call.wbytes \in {0, call.total} /\ call.size = call.total
    BY <1>6 DEF Minit, CallInv
  <2>2. mput_part' \in Seq(Nat) /\ put_part' \in Seq(Nat)
    <3>1. <<>> \in Seq(Nat) /\ MPartSize \in Nat
      BY EmptySeq
    <3>2. Appended(<<>>, MPartSize, put_part) \in Seq(Nat)
      BY <3>1, AppendedType
    <3> QED
      BY <1>6, <3>1, <3>2 DEF Minit
  <2>3. call' \in Calls /\ CallInv'
    <3>1. CASE call' = call /\ pc' = "mput_put_part"
      BY <3>1, <2>1 DEF CallInv
    <3>2. CASE call' = Advance(call) /\ pc' = "write"
      BY <3>2, <2>1, AdvanceType DEF CallInv
    <3> QED
      BY <1>6, <3>1, <3>2 DEF Minit
  <2> QED
    BY <1>6, <2>2, <2>3 DEF Minit, NoParts
<1>7. CASE MinitFails
  BY <1>7 DEF MinitFails, Fails, bufVars, storeVars, CallInv, Calls, NoCall
<1>8. CASE UploadPutPart
  <2>1. call' \in Calls /\ CallInv'
    BY <1>8, AdvanceType DEF UploadPutPart, CallInv
  <2>2. DOMAIN session' \subseteq Nat /\ \A p \in DOMAIN session' : session'[p] \in Seq(Nat)
    BY <1>8, StoreType DEF UploadPutPart, UploadPart
  <2> QED
    BY <1>8, <2>1, <2>2, EmptySeq DEF UploadPutPart, UploadPart
<1>9. CASE UploadPutPartFails
  <2>1. DOMAIN session' \subseteq Nat /\ \A p \in DOMAIN session' : session'[p] \in Seq(Nat)
    BY <1>9, StoreType DEF UploadPutPartFails, UploadPart
  <2> QED
    BY <1>9, <2>1 DEF UploadPutPartFails, UploadPart, Fails, CallInv, Calls, NoCall
<1>10. CASE WriteToMputPart
  <2>1. /\ mput_part' \in Seq(Nat)
        /\ Written(mput_part, MPartSize, CallData) \in {0, call.size}
    BY <1>10, AppendedType, CallDataType DEF WriteToMputPart
  <2>2. call.wbytes = 0 /\ call.size = call.total
    BY <1>10 DEF WriteToMputPart, InLoop, CallInv
  <2> DEFINE c == Wrote(call, Written(mput_part, MPartSize, CallData))
  <2>3. c \in Calls /\ c.wbytes \in {0, c.total} /\ c.size = c.total
    BY <2>1, <2>2, WroteType
  <2>4. \/ call' = c /\ pc' = "mput"
        \/ call' = Advance(c) /\ pc' = "write"
    BY <1>10 DEF WriteToMputPart
  <2> HIDE DEF c
  <2>5. call' \in Calls /\ CallInv'
    BY <2>3, <2>4, AdvanceType DEF CallInv
  <2> QED
    BY <1>10, <2>1, <2>5 DEF WriteToMputPart, storeVars
<1>11. CASE UploadFullPart
  <2>1. call' \in Calls /\ CallInv'
    BY <1>11, AdvanceType DEF UploadFullPart, CallInv
  <2>2. DOMAIN session' \subseteq Nat /\ \A p \in DOMAIN session' : session'[p] \in Seq(Nat)
    BY <1>11, StoreType DEF UploadFullPart, UploadPart
  <2> QED
    BY <1>11, <2>1, <2>2, EmptySeq DEF UploadFullPart, UploadPart
<1>12. CASE UploadFullPartFails
  <2>1. DOMAIN session' \subseteq Nat /\ \A p \in DOMAIN session' : session'[p] \in Seq(Nat)
    BY <1>12, StoreType DEF UploadFullPartFails, UploadPart
  <2> QED
    BY <1>12, <2>1 DEF UploadFullPartFails, UploadPart, Fails, CallInv, Calls, NoCall
<1>13. CASE WriteReturn
  BY <1>13 DEF WriteReturn, bufVars, storeVars, CallInv, Calls, NoCall
<1>14. CASE UploadFile
  BY <1>14 DEF UploadFile, Close, bufVars, CallInv
<1>15. CASE UploadFileFails
  BY <1>15 DEF UploadFileFails, Fails, bufVars, CallInv
<1>16. CASE UploadLastPart
  <2>1. DOMAIN session' \subseteq Nat /\ \A p \in DOMAIN session' : session'[p] \in Seq(Nat)
    BY <1>16, StoreType DEF UploadLastPart, UploadPart
  <2> QED
    BY <1>16, <2>1, EmptySeq DEF UploadLastPart, UploadPart, CallInv
<1>17. CASE UploadLastPartFails
  <2>1. DOMAIN session' \subseteq Nat /\ \A p \in DOMAIN session' : session'[p] \in Seq(Nat)
    BY <1>17, StoreType DEF UploadLastPartFails, UploadPart
  <2> QED
    BY <1>17, <2>1 DEF UploadLastPartFails, UploadPart, Fails, CallInv
<1>18. CASE FinishMput
  BY <1>18 DEF FinishMput, Close, bufVars, CallInv
<1>19. CASE FinishMputFails
  BY <1>19 DEF FinishMputFails, Fails, bufVars, CallInv
<1>20. CASE Kill
  BY <1>20 DEF Kill, bufVars, storeVars, CallInv
<1> QED
  BY <1>1, <1>2, <1>3, <1>4, <1>5, <1>6, <1>7, <1>8, <1>9, <1>10, <1>11, <1>12, <1>13,
     <1>14, <1>15, <1>16, <1>17, <1>18, <1>19, <1>20
     DEF Next, Request, WriteStep, ReleaseStep

\* Type correctness: in particular the unsigned loop variables of write_data
\* never wrap, for every part size, cut of the writes and failure.
THEOREM TypeCorrect == Spec => []TypeOK
<1>1. TInv => TypeOK
  BY DEF TInv
<1> QED
  BY <1>1, TypeInit, TypeStep, PTL DEF Spec

-----------------------------------------------------------------------------
(* Uploaded parts are never overwritten, whatever fails.                   *)

NumbersInv ==
    /\ \A p \in DOMAIN session : p < part_num
    /\ uptype = "PUT" => session = NoParts
    /\ pc \in {"minit", "put_file"} => uptype = "PUT"
    /\ pc \in {"mput_put_part", "mput", "mput_last", "mfinish"} => uptype = "MPUT"

PartsKept == \A p \in DOMAIN session : p \in DOMAIN session' /\ session'[p] = session[p]

LEMMA FreshNumber ==
    ASSUME NEW parts, NEW k \in Nat, NEW data,
           DOMAIN parts \subseteq Nat, \A p \in DOMAIN parts : p < k
    PROVE  /\ \A p \in DOMAIN parts : p \in DOMAIN Store(parts, k, data)
                                      /\ Store(parts, k, data)[p] = parts[p]
           /\ \A p \in DOMAIN Store(parts, k, data) : p < k + 1
BY DEF Store

LEMMA UploadIsFresh ==
    ASSUME TypeOK, NumbersInv, NEW data, NEW taken \in BOOLEAN, UploadPart(data, taken)
    PROVE  PartsKept /\ \A p \in DOMAIN session' : p < part_num'
<1>1. CASE taken
  <2>1. part_num \in Nat /\ DOMAIN session \subseteq Nat /\ \A p \in DOMAIN session : p < part_num
    BY DEF TypeOK, NumbersInv
  <2>2. session' = Store(session, part_num, data) /\ part_num' = part_num + 1
    BY <1>1 DEF UploadPart
  <2> QED
    BY <2>1, <2>2, FreshNumber DEF PartsKept
<1>2. CASE ~taken
  BY <1>2 DEF TypeOK, NumbersInv, UploadPart, PartsKept
<1> QED
  BY <1>1, <1>2

LEMMA NumbersStep ==
    ASSUME TypeOK, NumbersInv, [Next]_vars
    PROVE  NumbersInv' /\ PartsKept
<1>1. CASE UNCHANGED vars
  BY <1>1 DEF vars, NumbersInv, PartsKept
<1>2. ASSUME NEW size \in WriteSizes, Write(size)
      PROVE  NumbersInv' /\ PartsKept
  BY <1>2 DEF Write, bufVars, storeVars, NumbersInv, PartsKept
<1>3. ASSUME NEW off \in 0..MaxFileSize, WriteElsewhere(off)
      PROVE  NumbersInv' /\ PartsKept
  BY <1>3 DEF WriteElsewhere, bufVars, storeVars, NumbersInv, PartsKept
<1>4. CASE Release
  BY <1>4 DEF Release, Close, bufVars, storeVars, NumbersInv, PartsKept, TypeOK
<1>5. CASE WriteToPutPart
  BY <1>5 DEF WriteToPutPart, InLoop, storeVars, NumbersInv, PartsKept
<1>6. CASE Minit
  BY <1>6 DEF Minit, NoParts, NumbersInv, PartsKept
<1>7. CASE WriteToMputPart
  BY <1>7 DEF WriteToMputPart, InLoop, storeVars, NumbersInv, PartsKept
<1>8. CASE UploadPutPart
  BY <1>8, UploadIsFresh DEF UploadPutPart, NumbersInv
<1>9. CASE UploadPutPartFails
  BY <1>9, UploadIsFresh DEF UploadPutPartFails, Fails, NumbersInv
<1>10. CASE UploadFullPart
  BY <1>10, UploadIsFresh DEF UploadFullPart, NumbersInv
<1>11. CASE UploadFullPartFails
  BY <1>11, UploadIsFresh DEF UploadFullPartFails, Fails, NumbersInv
<1>12. CASE UploadLastPart
  BY <1>12, UploadIsFresh DEF UploadLastPart, NumbersInv
<1>13. CASE UploadLastPartFails
  BY <1>13, UploadIsFresh DEF UploadLastPartFails, Fails, NumbersInv
<1>14. CASE \/ MinitFails \/ WriteReturn \/ Kill
            \/ UploadFile \/ UploadFileFails \/ FinishMput \/ FinishMputFails
  BY <1>14 DEF MinitFails, WriteReturn, Kill, UploadFile, UploadFileFails, FinishMput,
     FinishMputFails, Fails, Close, bufVars, storeVars, NumbersInv, PartsKept
<1> QED
  BY <1>1, <1>2, <1>3, <1>4, <1>5, <1>6, <1>7, <1>8, <1>9, <1>10, <1>11, <1>12, <1>13, <1>14
     DEF Next, Request, WriteStep, ReleaseStep

\* A part the store holds is never replaced, whichever remote calls fail, with
\* or without effect: upload_part uses a number up before it makes the call.
THEOREM PartsNeverOverwritten == Spec => UploadedPartsKept
<1>1. Init => NumbersInv
  BY DEF Init, NumbersInv, NoParts
<1>2. TInv => TypeOK
  BY DEF TInv
<1>3. TypeOK /\ NumbersInv /\ [Next]_vars => NumbersInv' /\ PartsKept
  BY NumbersStep
<1>4. PartsKept <=> (\A p \in DOMAIN session : p \in DOMAIN session' /\ session'[p] = session[p])
  BY DEF PartsKept
<1> QED
  BY <1>1, <1>2, <1>3, <1>4, TypeInit, TypeStep, PTL DEF Spec, UploadedPartsKept

-----------------------------------------------------------------------------
(* The writer keeps its promise.                                           *)

\* What one upload of the buffer does to the bytes held.
LEMMA UploadHolds ==
    ASSUME NEW parts, NEW k \in Nat, NEW m \in Nat, NEW n \in Nat,
           k <= m, m < n, PartsHold(parts, k, m)
    PROVE  k + 1 <= n /\ PartsHold(Store(parts, k, Data(m, n - m)), k + 1, n)
<1>1. n - m \in Nat /\ n - m > 0 /\ m + (n - m) = n
  OBVIOUS
<1>2. PartsHold(Store(parts, k, Data(m, n - m)), k + 1, m + (n - m))
  BY <1>1, StorePart
<1> QED
  BY <1>1, <1>2

\* A file of one part.
LEMMA OnePartHolds ==
    ASSUME NEW n \in Nat, n > 0
    PROVE  HoldsFile(Store(NoParts, 0, Data(0, n)), n)
<1>1. PartsHold(NoParts, 0, 0)
  BY NoPartsHoldNothing
<1>2. PartsHold(Store(NoParts, 0, Data(0, n)), 0 + 1, 0 + n)
  BY <1>1, 0 \in Nat, StorePart
<1>3. 0 + n = n /\ 0 + 1 = 1 /\ 1 \in 1..n
  OBVIOUS
<1>4. PartsHold(Store(NoParts, 0, Data(0, n)), 1, n)
  BY <1>2, <1>3
<1> QED
  BY <1>3, <1>4 DEF HoldsFile

\* Parts that hold something are at least one.
LEMMA PartsNeeded ==
    ASSUME NEW parts, NEW k \in Nat, NEW n \in Nat, n > 0, k <= n, PartsHold(parts, k, n)
    PROVE  HoldsFile(parts, n)
<1>1. k # 0
  BY DEF PartsHold
<1> QED
  BY <1>1 DEF HoldsFile

\* The object is not touched by a step of an open handle.
LEMMA ObjectKept ==
    ASSUME ObjectInv, handle = "open", object' = object, handle' \in {"open", "dead"},
           pc' # "idle" => handle' = "open"
    PROVE  ObjectInv'
BY DEF ObjectInv, ObjectOldOrWhole, ReleasedObjectExact

\* A write that fits is appended to the put part ...
LEMMA PutAppends ==
    ASSUME TypeOK, NEW n \in Nat, put_part = Data(0, n), call.pos = n, Len(put_part) < PartSize
    PROVE  /\ Appended(put_part, PartSize, CallData) = Data(0, n + call.size)
           /\ Written(put_part, PartSize, CallData) = call.size
<1>1. call.size \in Nat
  BY DEF TypeOK, Calls
<1>2. CallData = Data(0 + n, call.size) /\ Len(CallData) = call.size
  <2>1. 0 + n = n
    OBVIOUS
  <2> QED
    BY <1>1, <2>1, DataType DEF CallData
<1>3. ~Full(put_part, PartSize)
  BY SizesAssumption DEF Full
<1>4. Data(0, n) \o Data(0 + n, call.size) = Data(0, n + call.size)
  BY <1>1, DataConcat, 0 \in Nat
<1> QED
  BY <1>2, <1>3, <1>4 DEF Appended, Written

\* ... or to the multipart buffer.
LEMMA MputAppends ==
    ASSUME TypeOK, NEW n \in Nat, NEW m \in 0..n, mput_part = Data(m, n - m), call.pos = n,
           Len(mput_part) < MPartSize
    PROVE  /\ Appended(mput_part, MPartSize, CallData) = Data(m, n + call.size - m)
           /\ Written(mput_part, MPartSize, CallData) = call.size
<1>1. call.size \in Nat /\ n - m \in Nat /\ m \in Nat
  BY DEF TypeOK, Calls
<1>2. CallData = Data(m + (n - m), call.size) /\ Len(CallData) = call.size
  <2>1. m + (n - m) = n
    BY <1>1
  <2> QED
    BY <1>1, <2>1, DataType DEF CallData
<1>3. ~Full(mput_part, MPartSize)
  BY SizesAssumption DEF Full
<1>4. Data(m, n - m) \o Data(m + (n - m), call.size) = Data(m, (n - m) + call.size)
  BY <1>1, DataConcat
<1>5. (n - m) + call.size = n + call.size - m
  BY <1>1
<1> QED
  BY <1>2, <1>3, <1>4, <1>5 DEF Appended, Written

\* The uploaded buffer: from Held(n) with the buffer not empty to Held(n) with
\* the buffer uploaded and cleared.
LEMMA BufferUploaded ==
    ASSUME TypeOK, NEW n \in Nat, uptype = "MPUT", Held(n), Len(mput_part) > 0
    PROVE  /\ part_num + 1 <= n
           /\ PartsHold(Store(session, part_num, mput_part), part_num + 1, n)
           /\ DOMAIN session = 0..(part_num - 1)
<1>1. PICK m \in 0..n : /\ part_num <= m
                        /\ PartsHold(session, part_num, m)
                        /\ mput_part = Data(m, n - m)
  BY DEF Held
<1>2. m \in Nat /\ n - m \in Nat /\ part_num \in Nat
  BY DEF TypeOK
<1>3. m < n
  BY <1>1, <1>2, DataType
<1>4. part_num + 1 <= n /\ PartsHold(Store(session, part_num, mput_part), part_num + 1, n)
  BY <1>1, <1>2, <1>3, UploadHolds
<1>5. DOMAIN session = 0..(part_num - 1)
  BY <1>1 DEF PartsHold
<1> QED
  BY <1>4, <1>5

\* All bytes uploaded: the buffer is empty.
LEMMA AllUploaded ==
    ASSUME NEW parts, NEW k \in Nat, NEW n \in Nat, k <= n, PartsHold(parts, k, n)
    PROVE  \E m \in 0..n : k <= m /\ PartsHold(parts, k, m) /\ <<>> = Data(m, n - m)
<1>1. n \in 0..n /\ n - n = 0 /\ 0 \in Nat
  OBVIOUS
<1>2. <<>> = Data(n, n - n)
  BY <1>1, NoData
<1> QED
  BY <1>1, <1>2

LEMMA IInvInit == Init => IInv
<1>1. Len(<<>>) = 0 /\ DOMAIN NoParts = {}
  BY EmptySeq DEF NoParts
<1>2. Data(0, 0) = <<>>
  BY NoData, 0 \in Nat
<1> QED
  BY <1>1, <1>2, SizesAssumption
     DEF Init, IInv, OnlyLastPartShort, PutAlone, Progress, PartLengths, ObjectInv, Held,
         ObjectOldOrWhole, ReleasedObjectExact

LEMMA IInvStep ==
    ASSUME Aligned, PartsAlwaysTaken, TInv, TInv', IInv, [Next]_vars
    PROVE  IInv'
<1> USE SizesAssumption, FaultsAssumption
<1>t. TypeOK /\ call \in Calls /\ next_write_offset \in Nat /\ part_num \in Nat
      /\ Len(put_part) \in Nat /\ Len(mput_part) \in Nat /\ call.total \in Nat
  BY LenProperties DEF TInv, TypeOK, Calls
<1>e. Len(<<>>) = 0 /\ DOMAIN NoParts = {}
  BY EmptySeq DEF NoParts
<1>h. pc # "idle" => handle = "open"
  BY DEF IInv, ObjectInv
<1>o. handle = "open" => PutAlone /\ Progress /\ PartLengths
  BY DEF IInv
<1>s. ASSUME UNCHANGED <<session, part_num>>
      PROVE  OnlyLastPartShort'
  BY <1>s DEF IInv, OnlyLastPartShort
<1>1. CASE UNCHANGED vars
  BY <1>1 DEF vars, IInv, OnlyLastPartShort, PutAlone, Progress, PartLengths, ObjectInv, Held,
     LoopHead, Room, ObjectOldOrWhole, ReleasedObjectExact
<1>2. ASSUME NEW size \in WriteSizes, Write(size)
      PROVE  IInv'
  <2>1. ObjectInv' /\ OnlyLastPartShort'
    BY <1>2, <1>s, ObjectKept DEF IInv, Write, storeVars, bufVars
  <2>2. PutAlone' /\ PartLengths'
    BY <1>2, <1>o DEF Write, bufVars, storeVars, PutAlone, PartLengths
  <2>3. Held(next_write_offset)' /\ call'.total <= Room' /\ LoopHead'
    BY <1>2, <1>o DEF Write, bufVars, storeVars, Progress, Held, Room, Aligned, LoopHead
  <2>4. Progress'
    BY <1>2, <2>3 DEF Write, Progress, LoopHead
  <2> QED
    BY <2>1, <2>2, <2>4 DEF IInv
<1>3. ASSUME NEW off \in 0..MaxFileSize, WriteElsewhere(off)
      PROVE  IInv'
  BY <1>3, <1>s, ObjectKept DEF IInv, WriteElsewhere, bufVars, storeVars
<1>4. CASE Kill
  BY <1>4, <1>s, ObjectKept DEF IInv, Kill, bufVars, storeVars
<1>5. CASE Release
  <2>1. OnlyLastPartShort'
    BY <1>5, <1>s DEF Release, bufVars, storeVars
  <2>2. CASE next_write_offset = 0
    <3>1. ObjectInv'
      BY <1>5, <2>2 DEF Release, Close, storeVars, IInv, ObjectInv, ObjectOldOrWhole,
         ReleasedObjectExact
    <3> QED
      BY <1>5, <2>1, <2>2, <3>1 DEF Release, Close, IInv
  <2>3. CASE next_write_offset # 0
    <3>1. ObjectInv'
      BY <1>5, <2>3, ObjectKept DEF Release, storeVars, IInv
    <3>2. Held(next_write_offset)'
      BY <1>5, <1>o DEF Release, bufVars, storeVars, Progress, Held
    <3>3. pc' \in {"put_file", "mput_last", "mfinish"}
      BY <1>5, <2>3 DEF Release
    <3>4. PutAlone' /\ Progress'
      BY <1>5, <1>o, <2>3, <3>2, <3>3 DEF Release, bufVars, storeVars, Progress, PutAlone, TInv,
         TypeOK
    <3>5. Len(mput_part) = 0 => mput_part = <<>>
      BY EmptySeq DEF TInv, TypeOK
    <3>6. PartLengths'
      BY <1>5, <1>o, <1>t, <2>3, <3>5 DEF Release, bufVars, storeVars, PartLengths
    <3> QED
      BY <2>1, <3>1, <3>4, <3>6 DEF IInv
  <2> QED
    BY <2>2, <2>3
<1>6. CASE WriteToPutPart
  <2>1. pc = "write" /\ handle = "open" /\ uptype = "PUT" /\ call.wbytes # call.total
    BY <1>6, <1>h DEF WriteToPutPart, InLoop
  <2>2. /\ LoopHead /\ call.total <= Room /\ put_part = Data(0, next_write_offset)
        /\ PutAlone /\ PartLengths
    BY <1>o, <2>1 DEF Progress, Held
  <2>3. ObjectInv' /\ OnlyLastPartShort'
    BY <1>6, <1>s, <2>1, ObjectKept DEF WriteToPutPart, IInv, storeVars
  <2>4. Len(put_part) = next_write_offset /\ next_write_offset <= PartSize
    BY <1>t, <2>1, <2>2, DataType DEF PutAlone
  <2>5. CASE next_write_offset = PartSize
    <3>1. put_part' = put_part /\ call' = Wrote(call, 0)
      BY <1>6, <2>4, <2>5 DEF WriteToPutPart, Appended, Written, Full
    <3>2. LoopHead' /\ call'.total = call.total /\ call'.size = call.size
      BY <1>6, <1>t, <2>2, <3>1, WroteType DEF WriteToPutPart, LoopHead
    <3>3. pc' = "minit"
      BY <1>6, <2>2, <2>4, <2>5, <3>1, <3>2 DEF WriteToPutPart, Full, LoopHead
    <3>4. Held(next_write_offset)' /\ call'.total <= Room'
      BY <1>6, <2>1, <2>2, <3>1, <3>2 DEF WriteToPutPart, Held, Room, Full
    <3>5. PutAlone' /\ PartLengths' /\ Progress'
      BY <1>6, <2>1, <2>2, <2>4, <2>5, <3>1, <3>2, <3>3, <3>4
         DEF WriteToPutPart, storeVars, PutAlone, PartLengths, Progress
    <3> QED
      BY <2>3, <3>5 DEF IInv
  <2>6. CASE next_write_offset # PartSize
    <3>1. call.size = call.total /\ call.pos = next_write_offset /\ call.wbytes = 0
      BY <2>2 DEF LoopHead
    <3>2. Len(put_part) < PartSize /\ call.total <= PartSize - Len(put_part)
      BY <1>t, <2>1, <2>2, <2>4, <2>6 DEF Room, Full
    <3>3. /\ put_part' = Data(0, next_write_offset + call.total)
          /\ call' = Wrote(call, call.total)
      BY <1>6, <1>t, <2>2, <3>1, <3>2, PutAppends DEF WriteToPutPart
    <3>4. /\ call'.wbytes = call.total /\ call'.total = call.total /\ call'.size = call.size
      BY <1>t, <3>1, <3>3, WroteType
    <3>5. pc' = "write"
      BY <1>6, <1>t, <3>1, <3>4 DEF WriteToPutPart
    <3>6. Len(put_part') <= PartSize
      <4>1. next_write_offset + call.total \in Nat /\ next_write_offset + call.total <= PartSize
        BY <1>t, <2>4, <3>2
      <4> QED
        BY <3>3, <4>1, DataType, 0 \in Nat
    <3>7. Held(next_write_offset + call.total)'
      BY <1>6, <2>1, <3>3, <3>4 DEF WriteToPutPart, Held
    <3>8. Progress'
      BY <1>6, <3>4, <3>5, <3>7 DEF WriteToPutPart, Progress
    <3>9. PutAlone' /\ PartLengths'
      BY <1>6, <2>1, <2>2, <3>5, <3>6 DEF WriteToPutPart, storeVars, PutAlone, PartLengths
    <3> QED
      BY <2>3, <3>8, <3>9 DEF IInv
  <2> QED
    BY <2>5, <2>6
<1>7. CASE Minit
  <2>1. /\ pc = "minit" /\ handle = "open" /\ uptype = "PUT"
        /\ LoopHead /\ call.total <= Room /\ put_part = Data(0, next_write_offset)
        /\ Len(put_part) = PartSize
    BY <1>7, <1>h, <1>o DEF Minit, Progress, PutAlone, Held
  <2>2. ObjectInv'
    BY <1>7, <2>1, ObjectKept DEF Minit, IInv
  <2>3. OnlyLastPartShort'
    BY <1>7, <1>e DEF Minit, OnlyLastPartShort
  <2>4. CASE MPartSize = PartSize
    <3>1. /\ put_part' = put_part /\ call' = call /\ mput_part' = <<>>
          /\ pc' = "mput_put_part"
      BY <1>7, <2>1, <2>4 DEF Minit
    <3>2. call.total <= MPartSize
      BY <2>1, <2>4 DEF Room, Full
    <3>3. Progress'
      BY <1>7, <2>1, <2>4, <3>1, <3>2 DEF Minit, Progress, LoopHead
    <3>4. PutAlone' /\ PartLengths'
      BY <1>7, <1>e, <3>1 DEF Minit, PutAlone, PartLengths
    <3> QED
      BY <2>2, <2>3, <3>3, <3>4 DEF IInv
  <2>5. CASE MPartSize # PartSize
    <3>1. PartSize < MPartSize
      BY <2>5 DEF Aligned
    <3>2. mput_part' = put_part
      <4>1. Appended(<<>>, MPartSize, put_part) = <<>> \o put_part
        BY <1>e DEF Appended, Full
      <4>2. <<>> \o put_part = put_part
        BY <1>t, ConcatEmptySeq DEF TypeOK
      <4> QED
        BY <1>7, <2>1, <2>5, <4>1, <4>2 DEF Minit
    <3>3. pc' = "write" /\ call' = Advance(call)
      BY <1>7, <2>1, <2>5 DEF Minit
    <3>4. LoopHead' /\ call'.total = call.total /\ call'.wbytes = 0
      BY <1>7, <1>t, <2>1, <3>3, AdvanceType DEF Minit, LoopHead, TypeOK, Calls
    <3>5. Held(next_write_offset)'
      <4>1. PartsHold(NoParts, 0, 0)
        BY NoPartsHoldNothing
      <4>2. mput_part' = Data(0, next_write_offset - 0) /\ 0 \in 0..next_write_offset
        BY <1>t, <2>1, <3>2
      <4> QED
        BY <1>7, <4>1, <4>2 DEF Minit, Held
    <3>6. call'.total <= Room'
      BY <1>7, <2>1, <2>5, <3>1, <3>2, <3>4 DEF Minit, Room, Full
    <3>7. Progress'
      BY <3>3, <3>4, <3>5, <3>6 DEF Progress, LoopHead
    <3>8. PutAlone' /\ PartLengths'
      BY <1>7, <1>e, <2>1, <3>1, <3>2, <3>3 DEF Minit, PutAlone, PartLengths
    <3> QED
      BY <2>2, <2>3, <3>7, <3>8 DEF IInv
  <2> QED
    BY <2>4, <2>5
<1>8. CASE MinitFails
  <2>1. handle = "open" /\ pc = "minit"
    BY <1>8, <1>h DEF MinitFails
  <2>2. ObjectInv' /\ OnlyLastPartShort'
    BY <1>8, <1>s, <2>1, ObjectKept DEF MinitFails, Fails, IInv, bufVars, storeVars
  <2>3. PutAlone' /\ Progress' /\ PartLengths'
    BY <1>8, <1>o, <2>1 DEF MinitFails, Fails, bufVars, storeVars, PutAlone, Progress,
       PartLengths, Held
  <2> QED
    BY <2>2, <2>3 DEF IInv
<1>9. CASE UploadPutPart
  <2>1. /\ pc = "mput_put_part" /\ handle = "open" /\ uptype = "MPUT"
        /\ LoopHead /\ call.total <= MPartSize
        /\ put_part = Data(0, next_write_offset) /\ Len(put_part) = MPartSize
        /\ part_num = 0 /\ session = NoParts /\ mput_part = <<>>
    BY <1>9, <1>h, <1>o DEF UploadPutPart, Progress, PutAlone
  <2>2. next_write_offset = MPartSize
    BY <1>t, <2>1, DataType
  <2>3. session' = Store(NoParts, 0, put_part) /\ part_num' = 1
    BY <1>9, <2>1 DEF UploadPutPart, UploadPart
  <2>4. ObjectInv'
    BY <1>9, <2>1, ObjectKept DEF UploadPutPart, IInv
  <2>5. DOMAIN session' = {0} /\ session'[0] = put_part
    BY <1>e, <2>3 DEF Store
  <2>6. PartsHold(session', 1, next_write_offset)
    <3>1. PartsHold(NoParts, 0, 0)
      BY NoPartsHoldNothing
    <3>2. PartsHold(Store(NoParts, 0, Data(0, next_write_offset)), 0 + 1, 0 + next_write_offset)
      BY <1>t, <2>2, <3>1, StorePart, 0 \in Nat
    <3>3. 0 + 1 = 1 /\ 0 + next_write_offset = next_write_offset
      BY <1>t
    <3> QED
      BY <2>1, <2>3, <3>2, <3>3
  <2>7. Held(next_write_offset)'
    <3>1. \E m \in 0..next_write_offset :
             1 <= m /\ PartsHold(session', 1, m) /\ <<>> = Data(m, next_write_offset - m)
      BY <1>t, <2>2, <2>6, AllUploaded
    <3> QED
      BY <1>9, <2>1, <2>3, <3>1 DEF UploadPutPart, Held
  <2>8. LoopHead' /\ call'.total = call.total /\ call'.wbytes = 0
    BY <1>9, <1>t, <2>1, AdvanceType DEF UploadPutPart, LoopHead, TypeOK, Calls
  <2>9. call'.total <= Room'
    BY <1>9, <1>e, <2>1, <2>8 DEF UploadPutPart, Room, Full
  <2>10. Progress'
    BY <1>9, <2>7, <2>8, <2>9 DEF UploadPutPart, Progress, LoopHead
  <2>11. PutAlone' /\ PartLengths' /\ OnlyLastPartShort'
    BY <1>9, <1>e, <2>1, <2>5 DEF UploadPutPart, PutAlone, PartLengths, OnlyLastPartShort
  <2> QED
    BY <2>4, <2>10, <2>11 DEF IInv
<1>10. CASE WriteToMputPart
  <2>1. pc = "write" /\ handle = "open" /\ uptype = "MPUT" /\ call.wbytes # call.total
    BY <1>10, <1>h DEF WriteToMputPart, InLoop
  <2>2. /\ LoopHead /\ call.total <= Room /\ Held(next_write_offset)
        /\ Len(mput_part) < MPartSize /\ PutAlone /\ PartLengths
    BY <1>o, <2>1 DEF Progress, PartLengths
  <2>3. ObjectInv' /\ OnlyLastPartShort'
    BY <1>10, <1>s, <2>1, ObjectKept DEF WriteToMputPart, IInv, storeVars
  <2>4. PICK m \in 0..next_write_offset :
               /\ part_num <= m
               /\ PartsHold(session, part_num, m)
               /\ mput_part = Data(m, next_write_offset - m)
    BY <2>1, <2>2 DEF Held
  <2>5. call.size = call.total /\ call.pos = next_write_offset /\ call.wbytes = 0
    BY <2>2 DEF LoopHead
  <2> DEFINE n == next_write_offset + call.total
             c == Wrote(call, call.total)
  <2>6. /\ mput_part' = Data(m, n - m)
        /\ IF Full(mput_part', MPartSize) THEN call' = c /\ pc' = "mput"
                                          ELSE call' = Advance(c) /\ pc' = "write"
    BY <1>10, <1>t, <2>2, <2>4, <2>5, MputAppends DEF WriteToMputPart
  <2>7. /\ c \in Calls /\ c.wbytes = call.total /\ c.total = call.total /\ c.size = call.total
    BY <1>t, <2>5, WroteType
  <2>8. call'.wbytes = call'.total /\ call'.total = call.total
        /\ (pc' = "mput" => call'.size = call'.total)
    BY <2>6, <2>7, AdvanceType
  <2>9. m \in 0..n /\ m \in Nat /\ n - m \in Nat /\ n \in Nat
    BY <1>t
  <2>10. Len(mput_part') <= MPartSize /\ Len(mput_part') \in Nat
    <3>1. Len(mput_part) = next_write_offset - m
      <4>1. m \in Nat /\ next_write_offset - m \in Nat
        BY <1>t
      <4> QED
        BY <2>4, <4>1, DataType
    <3>2. call.total <= MPartSize - Len(mput_part)
      BY <1>t, <2>1, <2>2 DEF Room, Full
    <3>3. n - m <= MPartSize
      BY <1>t, <3>1, <3>2
    <3>4. Len(mput_part') = n - m
      BY <2>6, <2>9, DataType
    <3> QED
      BY <2>9, <3>3, <3>4
  <2>11. Held(n)'
    BY <1>10, <2>1, <2>4, <2>6, <2>8, <2>9 DEF WriteToMputPart, storeVars, Held
  <2>12. Progress'
    BY <1>10, <2>6, <2>8, <2>11 DEF WriteToMputPart, Progress
  <2>13. PutAlone' /\ PartLengths'
    BY <1>10, <2>1, <2>2, <2>6, <2>10 DEF WriteToMputPart, storeVars, PutAlone, PartLengths, Full
  <2> QED
    BY <2>3, <2>12, <2>13 DEF IInv
<1>11. CASE UploadFullPart
  <2> DEFINE n == next_write_offset + call.total
  <2>1. /\ pc = "mput" /\ handle = "open" /\ uptype = "MPUT"
        /\ call.wbytes = call.total /\ call.size = call.total /\ Held(n)
        /\ Len(mput_part) = MPartSize /\ PutAlone /\ PartLengths
    BY <1>11, <1>h, <1>o DEF UploadFullPart, PutAlone, Progress, PartLengths
  <2>2. /\ part_num + 1 <= n
        /\ PartsHold(Store(session, part_num, mput_part), part_num + 1, n)
        /\ DOMAIN session = 0..(part_num - 1)
    BY <1>t, <2>1, BufferUploaded
  <2>3. session' = Store(session, part_num, mput_part) /\ part_num' = part_num + 1
    BY <1>11 DEF UploadFullPart, UploadPart
  <2>4. ObjectInv'
    BY <1>11, <2>1, ObjectKept DEF UploadFullPart, IInv
  <2>5. \A p \in DOMAIN session' : Len(session'[p]) = MPartSize
    BY <2>1, <2>3 DEF PartLengths, Store
  <2>6. call'.wbytes = call.total /\ call'.total = call.total
    BY <1>11, <1>t, <2>1, AdvanceType DEF UploadFullPart
  <2>7. Held(n)'
    <3>1. n \in Nat /\ part_num + 1 \in Nat
      BY <1>t
    <3>2. \E m \in 0..n : part_num + 1 <= m /\ PartsHold(session', part_num + 1, m)
                          /\ <<>> = Data(m, n - m)
      BY <2>2, <2>3, <3>1, AllUploaded
    <3> QED
      BY <1>11, <2>1, <2>3, <2>6, <3>2 DEF UploadFullPart, Held
  <2>8. Progress'
    BY <1>11, <2>6, <2>7 DEF UploadFullPart, Progress
  <2>9. PutAlone' /\ PartLengths' /\ OnlyLastPartShort'
    BY <1>11, <1>e, <2>1, <2>5 DEF UploadFullPart, PutAlone, PartLengths, OnlyLastPartShort
  <2> QED
    BY <2>4, <2>8, <2>9 DEF IInv
<1>12. CASE WriteReturn
  <2>1. pc = "write" /\ handle = "open" /\ Held(next_write_offset + call.total)
    BY <1>12, <1>h, <1>o DEF WriteReturn, Progress
  <2>2. ObjectInv' /\ OnlyLastPartShort'
    BY <1>12, <1>s, <2>1, ObjectKept DEF WriteReturn, IInv, bufVars, storeVars
  <2>3. Held(next_write_offset)'
    BY <1>12, <2>1 DEF WriteReturn, bufVars, storeVars, Held
  <2>4. PutAlone' /\ Progress' /\ PartLengths'
    BY <1>12, <1>o, <2>1, <2>3 DEF WriteReturn, bufVars, storeVars, PutAlone, Progress, PartLengths
  <2> QED
    BY <2>2, <2>4 DEF IInv
<1>13. CASE UploadFile \/ UploadFileFails
  <2>1. pc = "put_file" /\ handle = "open" /\ object = OldObject
    BY <1>13, <1>h DEF UploadFile, UploadFileFails, IInv, ObjectInv
  <2>2. put_part = Data(0, next_write_offset) /\ next_write_offset > 0
    BY <1>o, <2>1 DEF PutAlone, Progress, PartLengths, Held
  <2>3. HoldsFile(Store(NoParts, 0, put_part), next_write_offset)
    BY <1>t, <2>2, OnePartHolds
  <2>4. /\ handle' = "closed" /\ pc' = "idle" /\ next_write_offset' = next_write_offset
        /\ \/ object' = Store(NoParts, 0, put_part)
           \/ object' = object /\ reply' = "EIO"
        /\ UNCHANGED <<session, part_num>>
    BY <1>13 DEF UploadFile, UploadFileFails, Close, Fails, bufVars
  <2>5. ObjectInv'
    BY <2>1, <2>2, <2>3, <2>4 DEF ObjectInv, ObjectOldOrWhole, ReleasedObjectExact
  <2> QED
    BY <1>s, <2>4, <2>5 DEF IInv
<1>14. CASE UploadLastPart
  <2>1. /\ pc = "mput_last" /\ handle = "open" /\ uptype = "MPUT"
        /\ Held(next_write_offset) /\ Len(mput_part) > 0 /\ PutAlone /\ PartLengths
    BY <1>14, <1>h, <1>o DEF UploadLastPart, PutAlone, Progress, PartLengths
  <2>2. /\ part_num + 1 <= next_write_offset
        /\ PartsHold(Store(session, part_num, mput_part), part_num + 1, next_write_offset)
        /\ DOMAIN session = 0..(part_num - 1)
    BY <1>t, <2>1, BufferUploaded
  <2>3. session' = Store(session, part_num, mput_part) /\ part_num' = part_num + 1
    BY <1>14 DEF UploadLastPart, UploadPart
  <2>4. ObjectInv'
    BY <1>14, <2>1, ObjectKept DEF UploadLastPart, IInv
  <2>5. Held(next_write_offset)'
    <3>1. \E m \in 0..next_write_offset :
             part_num + 1 <= m /\ PartsHold(session', part_num', m)
             /\ <<>> = Data(m, next_write_offset - m)
      BY <1>t, <2>2, <2>3, AllUploaded
    <3> QED
      BY <1>14, <2>1, <2>3, <3>1 DEF UploadLastPart, Held
  <2>6. OnlyLastPartShort'
    <3> SUFFICES ASSUME NEW p \in DOMAIN session', p + 1 < part_num'
                 PROVE  Len(session'[p]) = MPartSize
      BY DEF OnlyLastPartShort
    <3>1. DOMAIN session' = DOMAIN session \cup {part_num}
      BY <2>3 DEF Store
    <3>2. p \in DOMAIN session /\ p # part_num
      BY <1>t, <2>2, <2>3, <3>1
    <3>3. session'[p] = session[p]
      BY <2>3, <3>2 DEF Store
    <3> QED
      BY <2>1, <3>2, <3>3 DEF PartLengths
  <2>7. PutAlone' /\ Progress' /\ PartLengths'
    BY <1>14, <1>t, <1>e, <2>1, <2>2, <2>5 DEF UploadLastPart, PutAlone, Progress, PartLengths
  <2> QED
    BY <2>4, <2>6, <2>7 DEF IInv
<1>15. CASE FinishMput \/ FinishMputFails
  <2>1. pc = "mfinish" /\ handle = "open" /\ object = OldObject
    BY <1>15, <1>h DEF FinishMput, FinishMputFails, IInv, ObjectInv
  <2>2. mput_part = <<>> /\ next_write_offset > 0 /\ Held(next_write_offset) /\ uptype = "MPUT"
    BY <1>o, <2>1 DEF PutAlone, Progress, PartLengths
  <2>3. part_num <= next_write_offset /\ PartsHold(session, part_num, next_write_offset)
    <3>1. PICK m \in 0..next_write_offset :
                 /\ part_num <= m
                 /\ PartsHold(session, part_num, m)
                 /\ mput_part = Data(m, next_write_offset - m)
      BY <2>2 DEF Held
    <3>2. m \in Nat /\ next_write_offset - m \in Nat
      BY <1>t
    <3>3. next_write_offset - m = 0
      BY <2>2, <3>1, <3>2, NoData
    <3>4. m = next_write_offset
      BY <1>t, <3>2, <3>3
    <3> QED
      BY <3>1, <3>4
  <2>4. HoldsFile(session, next_write_offset)
    BY <1>t, <2>2, <2>3, PartsNeeded
  <2>5. /\ handle' = "closed" /\ pc' = "idle" /\ next_write_offset' = next_write_offset
        /\ \/ object' = session
           \/ object' = object /\ reply' = "EIO"
        /\ UNCHANGED <<session, part_num>>
    BY <1>15 DEF FinishMput, FinishMputFails, Close, Fails, bufVars
  <2>6. ObjectInv'
    BY <2>1, <2>2, <2>4, <2>5 DEF ObjectInv, ObjectOldOrWhole, ReleasedObjectExact
  <2> QED
    BY <1>s, <2>5, <2>6 DEF IInv
<1>16. ~(UploadPutPartFails \/ UploadFullPartFails \/ UploadLastPartFails)
  BY DEF PartsAlwaysTaken, UploadPutPartFails, UploadFullPartFails, UploadLastPartFails, Fails
<1> QED
  BY <1>1, <1>2, <1>3, <1>4, <1>5, <1>6, <1>7, <1>8, <1>9, <1>10, <1>11, <1>12, <1>13,
     <1>14, <1>15, <1>16 DEF Next, Request, WriteStep, ReleaseStep

LEMMA Invariance ==
    ASSUME Aligned, PartsAlwaysTaken
    PROVE  Spec => [](TInv /\ IInv)
<1>1. Init => TInv /\ IInv
  BY TypeInit, IInvInit
<1>2. TInv /\ IInv /\ [Next]_vars => TInv' /\ IInv'
  BY TypeStep, IInvStep
<1> QED
  BY <1>1, <1>2, PTL DEF Spec

\* Every byte a write was answered for is held once and in its place, whatever
\* minit, put_file and mfinish do and however large parts and writes are.
THEOREM BytesHeld ==
    ASSUME Aligned, PartsAlwaysTaken
    PROVE  Spec => []AckedBytesHeld
<1>1. TInv /\ IInv => AckedBytesHeld
  BY DEF TInv, TypeOK, IInv, Progress, Held, AckedBytesHeld
<1> QED
  BY <1>1, Invariance, PTL

\* A release that reports success has stored exactly those bytes.
THEOREM ReleaseStoresAll ==
    ASSUME Aligned, PartsAlwaysTaken
    PROVE  Spec => []ReleasedObjectExact
<1>1. IInv => ReleasedObjectExact
  BY DEF IInv, ObjectInv
<1> QED
  BY <1>1, Invariance, PTL

\* The key never holds part of a file, and nothing new before the release.
THEOREM ObjectIsWhole ==
    ASSUME Aligned, PartsAlwaysTaken
    PROVE  Spec => []ObjectOldOrWhole
<1>1. IInv => ObjectOldOrWhole
  BY DEF IInv, ObjectInv
<1> QED
  BY <1>1, Invariance, PTL

\* No part but the last of an upload is shorter than the buffer, as S3 requires
\* of the parts that it puts together.
THEOREM PartsAreLong ==
    ASSUME Aligned, PartsAlwaysTaken
    PROVE  Spec => []OnlyLastPartShort
<1>1. IInv => OnlyLastPartShort
  BY DEF IInv
<1> QED
  BY <1>1, Invariance, PTL

LEMMA BuffersStep ==
    ASSUME TInv, TInv', IInv, IInv', PartsWithinBuffer, [Next]_vars
    PROVE  PartsWithinBuffer'
<1> USE SizesAssumption DEF PartsWithinBuffer
<1>e. Len(<<>>) = 0
  BY EmptySeq
<1>1. Len(mput_part') <= MPartSize
  <2>1. CASE handle' = "open"
    BY <2>1 DEF IInv, PartLengths, TInv, TypeOK
  <2>2. CASE handle' # "open"
    <3>1. UNCHANGED mput_part
      BY <2>2 DEF IInv, ObjectInv, Next, Request, WriteStep, ReleaseStep, Write, WriteElsewhere, Release,
         WriteToPutPart, InLoop, Minit, MinitFails, UploadPutPart, UploadPutPartFails,
         WriteToMputPart, UploadFullPart, UploadFullPartFails, WriteReturn, UploadFile,
         UploadFileFails, UploadLastPart, UploadLastPartFails, FinishMput, FinishMputFails,
         Kill, bufVars, vars
    <3> QED
      BY <3>1
  <2> QED
    BY <2>1, <2>2
<1>2. Len(put_part') <= PartSize
  <2>1. CASE WriteToPutPart
    <3>1. handle' = "open" /\ uptype' = "PUT"
      BY <2>1 DEF WriteToPutPart, InLoop, IInv, ObjectInv
    <3> QED
      BY <3>1 DEF IInv, PutAlone
  <2>2. CASE ~WriteToPutPart
    <3>1. put_part' \in {put_part, <<>>}
      BY <2>2 DEF Next, Request, WriteStep, ReleaseStep, Write, WriteElsewhere, Release,
         Minit, MinitFails, UploadPutPart, UploadPutPartFails,
         WriteToMputPart, UploadFullPart, UploadFullPartFails, WriteReturn, UploadFile,
         UploadFileFails, UploadLastPart, UploadLastPartFails, FinishMput, FinishMputFails,
         Kill, bufVars, vars
    <3> QED
      BY <1>e, <3>1
  <2> QED
    BY <2>1, <2>2
<1> QED
  BY <1>1, <1>2

\* No buffer is written past its end (Part::write does not look).
THEOREM BuffersNotOverrun ==
    ASSUME Aligned, PartsAlwaysTaken
    PROVE  Spec => []PartsWithinBuffer
<1>1. Init => PartsWithinBuffer
  BY EmptySeq, SizesAssumption DEF Init, PartsWithinBuffer
<1>2. /\ TInv /\ IInv /\ TInv' /\ IInv' /\ PartsWithinBuffer /\ [Next]_vars
      => PartsWithinBuffer'
  BY BuffersStep
<1> QED
  BY <1>1, <1>2, Invariance, PTL DEF Spec

-----------------------------------------------------------------------------
(* The writer implements FileUpload.                                       *)

LEMMA HoldingIsNew ==
    ASSUME NEW obj, NEW n \in Nat, HoldsFile(obj, n)
    PROVE  obj # OldObject
<1>1. PICK k \in 1..n : DOMAIN obj = 0..(k - 1)
  BY DEF HoldsFile, PartsHold
<1>2. 0 \in DOMAIN obj
  BY <1>1
<1> QED
  BY <1>2 DEF OldObject, NoParts

LEMMA UploadInit == Init => Upload!Init
BY DEF Init, Upload!Init, Phase, Content

LEMMA UploadStep ==
    ASSUME PartsAlwaysTaken, TInv, TInv', IInv, IInv', [Next]_vars
    PROVE  [Upload!Next]_Upload!uvars
<1>t. next_write_offset \in Nat /\ next_write_offset' \in Nat /\ call.total \in Nat
      /\ next_write_offset + call.total \in Nat
  BY DEF TInv, TypeOK, Calls
<1>h. /\ pc # "idle" => handle = "open"
      /\ handle = "open" => object = OldObject /\ PartLengths
  BY DEF IInv, ObjectInv
<1>n. handle = "open" => Phase = "open" /\ Content = "old"
  BY <1>h DEF Phase, Content
<1>1. CASE UNCHANGED <<next_write_offset, object, handle>> /\ (handle = "open" \/ UNCHANGED reply)
  BY <1>1 DEF Upload!uvars, Phase, Content
<1>2. CASE WriteReturn
  <2>1. handle = "open" /\ handle' = "open" /\ object' = OldObject
    BY <1>2, <1>h DEF WriteReturn, storeVars
  <2>2. Phase' = "open" /\ Content' = "old"
    BY <2>1 DEF Phase, Content
  <2>3. CASE call.total = 0
    BY <1>2, <1>t, <1>n, <2>1, <2>2, <2>3 DEF WriteReturn, Upload!uvars
  <2>4. CASE call.total # 0
    BY <1>2, <1>t, <1>n, <2>1, <2>2, <2>4 DEF WriteReturn, Upload!Next, Upload!Accept
  <2> QED
    BY <2>3, <2>4
<1>3. CASE handle = "open" /\ handle' = "dead" /\ UNCHANGED <<next_write_offset, object>>
  <2>1. Phase' = "dead" /\ Content' = "old"
    BY <1>3, <1>h DEF Phase, Content
  <2> QED
    BY <1>3, <1>n, <2>1 DEF Upload!Next, Upload!Die
<1>4. CASE /\ handle = "open" /\ handle' = "closed" /\ reply' = "ok"
           /\ UNCHANGED next_write_offset
  <2>1. Phase' = "closed"
    BY <1>4 DEF Phase
  <2>2. Content' = IF next_write_offset = 0 THEN "old" ELSE "new"
    <3>1. IF next_write_offset = 0 THEN object' = OldObject
          ELSE HoldsFile(object', next_write_offset')
      BY <1>4 DEF IInv, ObjectInv, ReleasedObjectExact
    <3> QED
      BY <1>4, <1>t, <3>1, HoldingIsNew DEF Content
  <2> QED
    BY <1>4, <1>n, <2>1, <2>2 DEF Upload!Next, Upload!CloseOk
<1>5. CASE /\ handle = "open" /\ handle' = "closed" /\ reply' = "EIO"
           /\ UNCHANGED next_write_offset /\ next_write_offset > 0
  <2>1. Phase' = "failed"
    BY <1>5 DEF Phase
  <2>2. Content' \in {"old", "new"}
    <3>1. object' = OldObject \/ HoldsFile(object', next_write_offset')
      BY DEF IInv, ObjectInv, ObjectOldOrWhole
    <3> QED
      BY <3>1 DEF Content
  <2> QED
    BY <1>5, <1>n, <2>1, <2>2 DEF Upload!Next, Upload!CloseFailed
<1>6. ASSUME NEW size \in WriteSizes, Write(size)
      PROVE  UNCHANGED <<next_write_offset, object, handle>> /\ handle = "open"
  BY <1>6 DEF Write, storeVars
<1>7. CASE Release
  BY <1>7, <1>1, <1>4 DEF Release, Close, storeVars
<1>8. CASE \/ WriteToPutPart \/ Minit \/ MinitFails \/ UploadPutPart \/ WriteToMputPart
           \/ UploadFullPart \/ UploadLastPart
  <2>1. UNCHANGED <<next_write_offset, object, handle>> /\ handle = "open"
    BY <1>8, <1>h DEF WriteToPutPart, Minit, MinitFails, UploadPutPart, WriteToMputPart,
       UploadFullPart, UploadLastPart, InLoop, storeVars
  <2> QED
    BY <1>1, <2>1
<1>9. CASE UploadFile \/ FinishMput
  BY <1>9, <1>4, <1>h DEF UploadFile, FinishMput, Close
<1>10. CASE UploadFileFails \/ FinishMputFails
  BY <1>10, <1>5, <1>h, <1>t DEF UploadFileFails, FinishMputFails, Fails, PartLengths
<1>11. CASE Kill
  BY <1>11, <1>3 DEF Kill, storeVars
<1>12. ASSUME NEW off \in 0..MaxFileSize, WriteElsewhere(off)
       PROVE  handle = "open" /\ handle' = "dead" /\ UNCHANGED <<next_write_offset, object>>
  BY <1>12 DEF WriteElsewhere, storeVars
<1>13. CASE UNCHANGED vars
  BY <1>13, <1>1 DEF vars
<1>14. ~(UploadPutPartFails \/ UploadFullPartFails \/ UploadLastPartFails)
  BY DEF PartsAlwaysTaken, UploadPutPartFails, UploadFullPartFails, UploadLastPartFails, Fails
<1> QED
  BY <1>1, <1>2, <1>3, <1>6, <1>7, <1>8, <1>9, <1>10, <1>11, <1>12, <1>13, <1>14
     DEF Next, Request, WriteStep, ReleaseStep

\* The writer implements FileUpload: acknowledged bytes, and an object that is
\* replaced once, as a whole, by the release.
THEOREM WriterImplementsUpload ==
    ASSUME Aligned, PartsAlwaysTaken
    PROVE  Spec => ImplementsUpload
<1>1. /\ TInv /\ IInv /\ TInv' /\ IInv' /\ [Next]_vars
      => [Upload!Next]_Upload!uvars
  BY UploadStep
<1> QED
  BY <1>1, UploadInit, Invariance, PTL DEF Spec, ImplementsUpload, Upload!Spec
=============================================================================
