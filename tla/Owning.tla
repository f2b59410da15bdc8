------------------------------ MODULE Owning ------------------------------
(* Who has a thing, when it passes between owners of several kinds: for     *)
(* each kind (a queue, a pool, a variable of a task) the set of the owners  *)
(* of that kind, and all of them together, each with its kind.              *)

Tagged(by) == UNION {{k} \X by[k] : k \in DOMAIN by}

\* A set of exactly one element; no set has to be finite to say so.
Sole(S) == \E p \in S : S = {p}
=============================================================================
