---------------------------- MODULE MCDentryCache ----------------------------
(***************************************************************************)
(* Instances of DentryCache for TLC.                                       *)
(***************************************************************************)
EXTENDS DentryCache, TLC

\* Files in the root, one directory there, and nothing in it but its marker.
FlatNames == <<"", "a", "d">>
FlatKeys == {<<"a">>, <<"d", "">>}

\* Files in the root only.
FileNames == <<"", "a", "b">>
FileKeys == {<<"a">>, <<"b">>}

\* A directory with a marker and a file in it, beside a file.
TreeNames == <<"", "a", "d">>
TreeKeys == {<<"a">>, <<"d", "">>, <<"d", "a">>}

\* Threads do the same things.
ThreadSymmetry == Permutations(Threads)
=============================================================================
