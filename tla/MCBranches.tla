------------------------------ MODULE MCBranches ------------------------------
(***************************************************************************)
(* A branch that extends the second event of the recorded log, and keeps   *)
(* the first as its prefix, and a branch of it that replaces the second.   *)
(***************************************************************************)
EXTENDS Branches

Replaces == [at |-> 1, kind |-> "Replace"]
Extends == [at |-> 1, kind |-> "Extend"]
Chain == {<<Extends>>, <<Extends, Replaces>>}
=============================================================================
