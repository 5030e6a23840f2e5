------------------------------ MODULE MCConnGroup ------------------------------
(* Instances of ConnGroup for TLC; the constants are given in group.cfg.          *)
EXTENDS ConnGroup
=============================================================================
