----------------------------- MODULE AtomicFile -----------------------------
(***************************************************************************)
(* What a file installed by rename promises whoever reads it: at every     *)
(* moment it is absent or one of the complete contents, never a part of    *)
(* one.  `file` is the set of the content readers find: {} when absent.    *)
(***************************************************************************)
CONSTANT Complete

VARIABLE file

Init == file = {} \/ \E body \in Complete : file = {body}

Install == \E body \in Complete : file' = {body}

Remove == file' = {}

Next == Install \/ Remove

Spec == Init /\ [][Next]_file
=============================================================================
