----------------------------- MODULE FileUpload -----------------------------
(***************************************************************************)
(* What the writer of one open file promises, whatever buffers and uploads *)
(* it uses: bytes are acknowledged while the handle is open, the object    *)
(* in the bucket is replaced by all of them in one step, at the release,   *)
(* and a release that fails or a process that dies leaves either the old   *)
(* object or the complete new one.                                         *)
(***************************************************************************)
EXTENDS Naturals

VARIABLES
    acked,      \* bytes acknowledged to the application
    content,    \* what the key holds: "old", or "new" for those acked bytes
    phase       \* "open", "closed", "failed" (release answered EIO), "dead"

uvars == <<acked, content, phase>>

Init == acked = 0 /\ content = "old" /\ phase = "open"

Accept ==
    /\ phase = "open"
    /\ acked' \in Nat /\ acked' > acked
    /\ UNCHANGED <<content, phase>>

\* A handle nothing was written to leaves the object alone.
CloseOk ==
    /\ phase = "open"
    /\ phase' = "closed"
    /\ content' = IF acked = 0 THEN content ELSE "new"
    /\ UNCHANGED acked

\* The call that failed may have been carried out all the same.
CloseFailed ==
    /\ phase = "open" /\ acked > 0
    /\ phase' = "failed"
    /\ content' \in {content, "new"}
    /\ UNCHANGED acked

Die ==
    /\ phase = "open"
    /\ phase' = "dead"
    /\ UNCHANGED <<acked, content>>

Next == Accept \/ CloseOk \/ CloseFailed \/ Die

Spec == Init /\ [][Next]_uvars
=============================================================================
