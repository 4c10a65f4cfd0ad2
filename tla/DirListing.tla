----------------------------- MODULE DirListing -----------------------------
(***************************************************************************)
(* What reading an open directory promises to an application, whatever     *)
(* sizes it asks for and whatever happens to the directory meanwhile: the  *)
(* listing is fixed once, when it is first needed, and given from front to *)
(* back, no entry twice; the end is announced when nothing is left; an     *)
(* application that goes back is given the same entries again.             *)
(***************************************************************************)
EXTENDS Naturals, Sequences, Functions

VARIABLES
    listing,    \* the entries of the directory, once fixed
    got,        \* what the application has of them since the start
    ended       \* the application was told that it has everything

lvars == <<listing, got, ended>>

Prefix(s, k) == SubSeq(s, 1, k)

Init == listing = <<>> /\ got = <<>> /\ ended = FALSE

Fix ==
    /\ listing = <<>>
    /\ listing' # <<>> /\ IsInjective(listing')
    /\ UNCHANGED <<got, ended>>

Give ==
    /\ ~ended
    /\ \E k \in Len(got) + 1 .. Len(listing) : got' = Prefix(listing, k)
    /\ UNCHANGED <<listing, ended>>

End ==
    /\ listing # <<>> /\ got = listing /\ ~ended
    /\ ended' = TRUE
    /\ UNCHANGED <<listing, got>>

GoBack ==
    /\ \E k \in 0 .. Len(got) : got' = Prefix(listing, k)
    /\ ended' = FALSE
    /\ UNCHANGED listing

Next == Fix \/ Give \/ End \/ GoBack

Spec == Init /\ [][Next]_lvars
=============================================================================
