--------------------------- MODULE SequenceWriter ---------------------------
(***************************************************************************)
(* The writer behind one open file handle of catfs                         *)
(* (fs/fwriter/fwriter_seq.cpp, fwriter_seq_part.h).                       *)
(*                                                                         *)
(* write(2) calls arrive in order and fill a memory buffer, the put part.  *)
(* A file that fits it is stored by one put_file when the handle is        *)
(* released.  The first write that finds the put part full turns the file  *)
(* into a multipart upload: the put part becomes part 0 and every part     *)
(* filled after it is uploaded under the next number; release uploads the  *)
(* rest and completes the upload, and only then is the object replaced.    *)
(*                                                                         *)
(* A handler holds flock from its first to its last line, so what can come *)
(* between its steps is only the object store: every remote call is a step *)
(* of its own that may fail, its effect at the store done or not.  Bytes   *)
(* of a file are represented by their offsets, so a part is a sequence of  *)
(* offsets and a lost, repeated or misplaced byte shows.                   *)
(***************************************************************************)
EXTENDS Integers, Sequences

CONSTANTS
    PartSize,       \* bytes of the put part: MB_8
    MPartSize,      \* bytes of a multipart part, as minit answers it
    WriteSizes,     \* sizes a write(2) reaches the writer with
    MaxFileSize,    \* bound: no write goes past this offset
    FaultyOps,      \* remote calls that may fail
    MaxFaults,      \* bound: failed remote calls of a behaviour
    MayStraddle     \* may a write be larger than what its part has room for?

RemoteOps == {"minit", "mput", "put_file", "mfinish"}

ASSUME SizesAssumption ==
    /\ PartSize \in Nat \ {0}
    /\ MPartSize \in Nat \ {0}
    /\ WriteSizes \subseteq Nat \ {0}
    /\ MaxFileSize \in Nat

ASSUME FaultsAssumption ==
    /\ FaultyOps \subseteq RemoteOps
    /\ MaxFaults \in Nat
    /\ MayStraddle \in BOOLEAN

VARIABLES
    uptype,             \* "PUT" or "MPUT"
    put_part,           \* the put part's bytes; <<>> while it is NULL
    mput_part,          \* the multipart buffer's bytes; <<>> while it is NULL
    part_num,           \* mput_ctx.part_num
    next_write_offset,
    call,               \* the write in progress: its locals data, size, wbytes, total
    session,            \* the store: part number |-> bytes, of mput_ctx.upload_id
    object,             \* the store: the parts of the object under the key;
                        \* OldObject while it is what it was before the handle
    handle,             \* "open", "closed" by release, "dead" with the process
    pc,                 \* "idle", or what the handler holding flock does next
    reply,              \* answer to the last finished request
    faults              \* failed remote calls so far

bufVars == <<uptype, put_part, mput_part, part_num>>
storeVars == <<session, object>>
vars == <<uptype, put_part, mput_part, part_num, next_write_offset, call,
          session, object, handle, pc, reply, faults>>

-----------------------------------------------------------------------------
(* Bytes and parts.                                                        *)

\* n bytes of the file from offset a on.
Data(a, n) == [i \in 1..n |-> a + i - 1]

NoParts == [p \in {} |-> <<>>]
OldObject == NoParts
Store(parts, p, data) ==
    [q \in DOMAIN parts \cup {p} |-> IF q = p THEN data ELSE parts[q]]

\* Variant: full one byte early.
Full_OneEarly(part, size) == Len(part) + 1 >= size

\* Part::full is an equality: a part written past its end is not full.
Full(part, size) == Len(part) = size

\* Variant: a full part is written to as well.
Appended_NoTest(part, size, data) == part \o data

\* Part::write takes everything or nothing, whatever room is left.
Appended(part, size, data) == IF Full(part, size) THEN part ELSE part \o data
Written(part, size, data) == IF Full(part, size) THEN 0 ELSE Len(data)

NoCall == [pos |-> 0, size |-> 0, wbytes |-> 0, total |-> 0]
CallData == Data(call.pos, call.size)

\* Variant: the size is reduced a second time.
Advance_Twice(c) == [c EXCEPT !.pos = c.pos + c.wbytes, !.size = c.size - 2 * c.wbytes]

\* wbytes += n, what Part::write has returned.
Wrote(c, n) == [c EXCEPT !.wbytes = c.wbytes + n]

\* data += wbytes; size -= wbytes.
Advance(c) == [c EXCEPT !.pos = c.pos + c.wbytes, !.size = c.size - c.wbytes]

\* Bytes the next write can carry without crossing the end of the part it
\* lands in.  The caller of the writer never asks; see MayStraddle.
Room ==
    IF uptype = "MPUT"
    THEN IF Full(mput_part, MPartSize) THEN MPartSize ELSE MPartSize - Len(mput_part)
    ELSE IF ~Full(put_part, PartSize) THEN PartSize - Len(put_part)
    ELSE IF MPartSize = PartSize THEN MPartSize ELSE MPartSize - PartSize

-----------------------------------------------------------------------------
Init ==
    /\ uptype = "PUT"
    /\ put_part = <<>> /\ mput_part = <<>>
    /\ part_num = 0
    /\ next_write_offset = 0
    /\ call = NoCall
    /\ session = NoParts
    /\ object = OldObject
    /\ handle = "open"
    /\ pc = "idle"
    /\ reply = "none"
    /\ faults = 0

\* A remote call answers with an error: the exception leaves the handler and
\* its catch block replies EIO.
Fails(op) ==
    /\ op \in FaultyOps
    /\ faults < MaxFaults
    /\ faults' = faults + 1
    /\ reply' = "EIO"
    /\ pc' = "idle"

\* upload_part: the number is used up before the call is made.
UploadPart(data, taken) ==
    /\ part_num' = part_num + 1
    /\ session' = IF taken THEN Store(session, part_num, data) ELSE session

\* write(off, size) at the expected offset.
Write(size) ==
    /\ handle = "open" /\ pc = "idle"
    /\ next_write_offset + size <= MaxFileSize
    /\ MayStraddle \/ size <= Room
    /\ call' = [pos |-> next_write_offset, size |-> size, wbytes |-> 0, total |-> size]
    /\ pc' = "write"
    /\ UNCHANGED <<bufVars, storeVars, next_write_offset, handle, reply, faults>>

\* write(off, size) at any other offset throws a std::string, which no catch
\* block on the way up takes: std::terminate ends the process.
WriteElsewhere(off) ==
    /\ handle = "open" /\ pc = "idle"
    /\ off # next_write_offset
    /\ handle' = "dead"
    /\ UNCHANGED <<bufVars, storeVars, next_write_offset, call, pc, reply, faults>>

InLoop == pc = "write" /\ call.wbytes # call.total

\* Variant: a full put part does not lead to switch_mput_mode.
WriteToPutPart_NoSwitch ==
    /\ InLoop /\ uptype = "PUT"
    /\ put_part' = Appended(put_part, PartSize, CallData)
    /\ call' = Wrote(call, Written(put_part, PartSize, CallData))
    /\ UNCHANGED <<uptype, mput_part, part_num, next_write_offset, storeVars,
                   handle, pc, reply, faults>>

\* write_data, case PUT: the write goes to the put part, unless that was full
\* already and bytes are left, which calls for switch_mput_mode.
WriteToPutPart ==
    /\ InLoop /\ uptype = "PUT"
    /\ put_part' = Appended(put_part, PartSize, CallData)
    /\ call' = Wrote(call, Written(put_part, PartSize, CallData))
    /\ pc' = IF Full(put_part', PartSize) /\ call.size > call'.wbytes
             THEN "minit" ELSE "write"
    /\ UNCHANGED <<uptype, mput_part, part_num, next_write_offset, storeVars,
                   handle, reply, faults>>

\* switch_mput_mode up to its upload.  A part size other than the put part's
\* has the bytes copied instead, and nothing is uploaded yet.
Minit ==
    /\ pc = "minit"
    /\ uptype' = "MPUT"
    /\ part_num' = 0
    /\ session' = NoParts
    /\ IF MPartSize = Len(put_part)
       THEN /\ mput_part' = <<>>
            /\ pc' = "mput_put_part"
            /\ UNCHANGED <<put_part, call>>
       ELSE /\ mput_part' = Appended(<<>>, MPartSize, put_part)
            /\ put_part' = <<>>
            /\ call' = Advance(call)
            /\ pc' = "write"
    /\ UNCHANGED <<next_write_offset, object, handle, reply, faults>>

\* Variant: what was buffered is stored at once when no upload can be begun.
MinitFails_Stores ==
    /\ pc = "minit"
    /\ Fails("minit")
    /\ call' = NoCall
    /\ object' = Store(NoParts, 0, put_part)
    /\ UNCHANGED <<bufVars, session, next_write_offset, handle>>

\* minit throws before anything is assigned; an upload the store did begin
\* is never heard of again.
MinitFails ==
    /\ pc = "minit"
    /\ Fails("minit")
    /\ call' = NoCall
    /\ UNCHANGED <<bufVars, storeVars, next_write_offset, handle>>

UploadPutPart ==
    /\ pc = "mput_put_part"
    /\ UploadPart(put_part, TRUE)
    /\ put_part' = <<>>
    /\ call' = Advance(call)
    /\ pc' = "write"
    /\ UNCHANGED <<uptype, mput_part, next_write_offset, object, handle, reply, faults>>

\* Variant: an upload that fails does not use its number up.
UploadPutPartFails_SameNumber ==
    /\ pc = "mput_put_part"
    /\ Fails("mput")
    /\ \E taken \in BOOLEAN :
          session' = IF taken THEN Store(session, part_num, put_part) ELSE session
    /\ call' = NoCall
    /\ UNCHANGED <<bufVars, next_write_offset, object, handle>>

\* The put part stays behind: uptype is MPUT already and nothing reads it again.
UploadPutPartFails ==
    /\ pc = "mput_put_part"
    /\ Fails("mput")
    /\ \E taken \in BOOLEAN : UploadPart(put_part, taken)
    /\ call' = NoCall
    /\ UNCHANGED <<uptype, put_part, mput_part, next_write_offset, object, handle>>

\* write_data, case MPUT.
WriteToMputPart ==
    /\ InLoop /\ uptype = "MPUT"
    /\ mput_part' = Appended(mput_part, MPartSize, CallData)
    /\ LET c == Wrote(call, Written(mput_part, MPartSize, CallData))
       IN  IF Full(mput_part', MPartSize)
           THEN call' = c /\ pc' = "mput"
           ELSE call' = Advance(c) /\ pc' = "write"
    /\ UNCHANGED <<uptype, put_part, part_num, next_write_offset, storeVars,
                   handle, reply, faults>>

\* Variant: the uploaded part is not cleared.
UploadFullPart_NoClear ==
    /\ pc = "mput"
    /\ UploadPart(mput_part, TRUE)
    /\ call' = Advance(call)
    /\ pc' = "write"
    /\ UNCHANGED <<uptype, put_part, mput_part, next_write_offset, object, handle, reply, faults>>

UploadFullPart ==
    /\ pc = "mput"
    /\ UploadPart(mput_part, TRUE)
    /\ mput_part' = <<>>
    /\ call' = Advance(call)
    /\ pc' = "write"
    /\ UNCHANGED <<uptype, put_part, next_write_offset, object, handle, reply, faults>>

\* The part stays full, the bytes of the refused write in it.
UploadFullPartFails ==
    /\ pc = "mput"
    /\ Fails("mput")
    /\ \E taken \in BOOLEAN : UploadPart(mput_part, taken)
    /\ call' = NoCall
    /\ UNCHANGED <<uptype, put_part, mput_part, next_write_offset, object, handle>>

\* The loop is done: write returns and the request is answered with its size.
WriteReturn ==
    /\ pc = "write" /\ call.wbytes = call.total
    /\ next_write_offset' = next_write_offset + call.total
    /\ reply' = "ok"
    /\ call' = NoCall
    /\ pc' = "idle"
    /\ UNCHANGED <<bufVars, storeVars, handle, faults>>

-----------------------------------------------------------------------------
(* release: the kernel sends it once, and takes no notice of the answer.   *)

Close(answer) == handle' = "closed" /\ pc' = "idle" /\ reply' = answer

\* Variant: the upload is completed without the bytes still buffered.
Release_NoRest ==
    /\ handle = "open" /\ pc = "idle"
    /\ IF next_write_offset = 0
       THEN Close("ok")
       ELSE pc' = (IF uptype = "PUT" THEN "put_file" ELSE "mfinish") /\ UNCHANGED <<handle, reply>>
    /\ UNCHANGED <<bufVars, storeVars, next_write_offset, call, faults>>

\* finish_write chooses by what has been written.
Release ==
    /\ handle = "open" /\ pc = "idle"
    /\ \/ /\ next_write_offset = 0
          /\ Close("ok")
       \/ /\ next_write_offset # 0
          /\ pc' = IF uptype = "PUT" THEN "put_file"
                   ELSE IF Len(mput_part) > 0 THEN "mput_last" ELSE "mfinish"
          /\ UNCHANGED <<handle, reply>>
    /\ UNCHANGED <<bufVars, storeVars, next_write_offset, call, faults>>

UploadFile ==
    /\ pc = "put_file"
    /\ object' = Store(NoParts, 0, put_part)
    /\ Close("ok")
    /\ UNCHANGED <<bufVars, session, next_write_offset, call, faults>>

\* Variant: the exception is swallowed and the request answered with success.
UploadFileFails_Swallowed ==
    /\ pc = "put_file" /\ "put_file" \in FaultyOps /\ faults < MaxFaults
    /\ Close("ok")
    /\ faults' = faults + 1
    /\ UNCHANGED <<bufVars, storeVars, next_write_offset, call>>

UploadFileFails ==
    /\ pc = "put_file"
    /\ Fails("put_file")
    /\ \E taken \in BOOLEAN :
          object' = IF taken THEN Store(NoParts, 0, put_part) ELSE object
    /\ handle' = "closed"
    /\ UNCHANGED <<bufVars, session, next_write_offset, call>>

UploadLastPart ==
    /\ pc = "mput_last"
    /\ UploadPart(mput_part, TRUE)
    /\ mput_part' = <<>>
    /\ pc' = "mfinish"
    /\ UNCHANGED <<uptype, put_part, next_write_offset, call, object, handle, reply, faults>>

UploadLastPartFails ==
    /\ pc = "mput_last"
    /\ Fails("mput")
    /\ \E taken \in BOOLEAN : UploadPart(mput_part, taken)
    /\ handle' = "closed"
    /\ UNCHANGED <<uptype, put_part, mput_part, next_write_offset, call, object>>

\* The store joins the parts it has, in the order of their numbers.
FinishMput ==
    /\ pc = "mfinish"
    /\ object' = session
    /\ Close("ok")
    /\ UNCHANGED <<bufVars, session, next_write_offset, call, faults>>

FinishMputFails ==
    /\ pc = "mfinish"
    /\ Fails("mfinish")
    /\ \E taken \in BOOLEAN : object' = IF taken THEN session ELSE object
    /\ handle' = "closed"
    /\ UNCHANGED <<bufVars, session, next_write_offset, call>>

\* The process is killed, or ends itself in a handler of another file.
Kill ==
    /\ handle = "open"
    /\ handle' = "dead"
    /\ pc' = "idle"
    /\ UNCHANGED <<bufVars, storeVars, next_write_offset, call, reply, faults>>

-----------------------------------------------------------------------------
WriteStep ==
    \/ WriteToPutPart \/ Minit \/ MinitFails \/ UploadPutPart \/ UploadPutPartFails
    \/ WriteToMputPart \/ UploadFullPart \/ UploadFullPartFails \/ WriteReturn

ReleaseStep ==
    \/ UploadFile \/ UploadFileFails \/ UploadLastPart \/ UploadLastPartFails
    \/ FinishMput \/ FinishMputFails

Request ==
    \/ \E size \in WriteSizes : Write(size)
    \/ \E off \in 0..MaxFileSize : WriteElsewhere(off)
    \/ Release

Next == Request \/ WriteStep \/ ReleaseStep \/ Kill

Spec == Init /\ [][Next]_vars

\* A handler that runs goes on to its end: its thread is never suspended for
\* good, and every call to the store is answered or fails in the end.
FairSpec == Spec /\ WF_vars(WriteStep \/ ReleaseStep)

-----------------------------------------------------------------------------
(* Properties.                                                             *)

Calls == [pos : Nat, size : Nat, wbytes : Nat, total : Nat]

\* Type invariant.
TypeOK ==
    /\ uptype \in {"PUT", "MPUT"}
    /\ put_part \in Seq(Nat)
    /\ mput_part \in Seq(Nat)
    /\ part_num \in Nat
    /\ next_write_offset \in Nat
    /\ call \in Calls
    /\ DOMAIN session \subseteq Nat /\ \A p \in DOMAIN session : session[p] \in Seq(Nat)
    /\ handle \in {"open", "closed", "dead"}
    /\ pc \in {"idle", "write", "minit", "mput_put_part", "mput", "put_file",
               "mput_last", "mfinish"}
    /\ reply \in {"none", "ok", "EIO"}
    /\ faults \in Nat

IsRun(s) == s # <<>> /\ s = Data(s[1], Len(s))

\* The parts 0, 1, ..., k - 1, laid end to end, are the bytes 0 .. n - 1.
PartsHold(parts, k, n) ==
    /\ DOMAIN parts = 0..(k - 1)
    /\ \A p \in 0..(k - 1) :
          /\ IsRun(parts[p])
          /\ parts[p][1] = IF p = 0 THEN 0 ELSE parts[p - 1][1] + Len(parts[p - 1])
    /\ n = IF k = 0 THEN 0 ELSE parts[k - 1][1] + Len(parts[k - 1])

\* An object holds exactly the first n bytes; it has one part at least.
HoldsFile(obj, n) == \E k \in 1..n : PartsHold(obj, k, n)

\* Between two requests every acknowledged byte is held once and in its place:
\* in the put part, or in the uploaded parts 0 .. part_num - 1 followed by the
\* multipart buffer.  (write_data, switch_mput_mode: a byte moves from buffer
\* to buffer to store and a refused write must leave no trace.)
AckedBytesHeld ==
    handle = "open" /\ pc = "idle" =>
        IF uptype = "PUT"
        THEN put_part = Data(0, next_write_offset)
        ELSE \E n \in 0..next_write_offset :
                /\ PartsHold(session, part_num, n)
                /\ mput_part = Data(n, next_write_offset - n)

\* A release that is answered without error has stored exactly the bytes the
\* writes were acknowledged for.  (finish_write, upload_file, finish_mput.)
ReleasedObjectExact ==
    handle = "closed" /\ reply = "ok" =>
        IF next_write_offset = 0 THEN object = OldObject
        ELSE HoldsFile(object, next_write_offset)

\* Whatever fails, and whenever the process dies, the key holds what it held
\* before or the whole new file, and never the new file while the handle is
\* still being written.  (Nothing but put_file and mfinish replaces it.)
ObjectOldOrWhole ==
    \/ object = OldObject
    \/ handle # "open" /\ HoldsFile(object, next_write_offset)

\* The store refuses a multipart upload in which a part other than the last is
\* short: every part uploaded before the last one is filled to the size minit
\* gave.  (upload_part's callers in write_data and switch_mput_mode.)
OnlyLastPartShort ==
    \A p \in DOMAIN session :
        p + 1 < part_num => Len(session[p]) = MPartSize

\* A part the store has taken is never overwritten, not even by the upload
\* that follows one that failed: part numbers are not reused within an upload.
\* (upload_part.)
UploadedPartsKept ==
    [][ \A p \in DOMAIN session : p \in DOMAIN session' /\ session'[p] = session[p] ]_vars

\* No part is written past the end of its buffer.  (Part::write copies size
\* bytes whatever room is left; write_data counts on a part to be full before
\* bytes are left over.)
PartsWithinBuffer == Len(put_part) <= PartSize /\ Len(mput_part) <= MPartSize

\* Every write and release comes to its end, unless the process dies first.
HandlerReturns == pc # "idle" ~> pc = "idle"

-----------------------------------------------------------------------------
(* What the writer promises, without parts and sessions.                   *)

Phase ==
    IF handle = "closed" THEN IF reply = "EIO" THEN "failed" ELSE "closed" ELSE handle

Content ==
    IF object = OldObject THEN "old"
    ELSE IF HoldsFile(object, next_write_offset) THEN "new" ELSE "torn"

Upload == INSTANCE FileUpload WITH acked <- next_write_offset, phase <- Phase, content <- Content

\* The writer implements FileUpload.
ImplementsUpload == Upload!Spec
=============================================================================
