------------------------------ MODULE BioFile -------------------------------
(***************************************************************************)
(* What libbio promises to a program that reads: a file with a position.   *)
(***************************************************************************)
EXTENDS Integers, Sequences

VARIABLES
    contents, length,   \* the file, which does not change
    pos,                \* the position
    out,                \* the bytes the call in progress, or the last one, returned
    ret                 \* "moved" when the last call was Bseek or Bflush

vars == <<contents, length, pos, out, ret>>

Bytes(n) == [j \in 1 .. n |-> contents[pos + j - 1]]

\* A call returns the next n bytes, or the first n of them; it may be a new call.
Deliver ==
    \E n \in {0} \cup 1 .. length - pos : \E before \in {<<>>, out} :
        out' = before \o Bytes(n) /\ pos' = pos + n

\* The last byte is given back.
Unget == pos > 0 /\ pos' = pos - 1 /\ out' = <<>>

Move == pos' \in Nat /\ out' = <<>> /\ ret' = "moved"

Init == pos = 0 /\ out = <<>>

Next == (Deliver \/ Unget \/ Move) /\ UNCHANGED <<contents, length>>

Spec == Init /\ [][Next]_vars
=============================================================================
