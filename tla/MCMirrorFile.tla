---------------------------- MODULE MCMirrorFile ----------------------------
(* Lengths of the versions for TLC: a second version longer than the first. *)
EXTENDS MirrorFile

MCSize == [v \in Versions |-> v + 1]

=============================================================================
