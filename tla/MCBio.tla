------------------------------- MODULE MCBio --------------------------------
(***************************************************************************)
(* Bio for TLC.                                                            *)
(***************************************************************************)
EXTENDS Bio

\* Every byte of a file is different, except for the newlines.
MCFiles == {[p \in 0 .. n - 1 |-> IF p \in nl THEN Newline ELSE p] :
               n \in {0, 5}, nl \in {{}, {0, 3}}}
=============================================================================
