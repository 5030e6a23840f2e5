---- MODULE MCOpenOwner ----
(* Instances of OpenOwner for TLC: see the owner_*.cfg files. *)
EXTENDS OpenOwner
====
