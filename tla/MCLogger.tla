------------------------------ MODULE MCLogger ------------------------------
(* An instance of Logger. *)
EXTENDS Logger
=============================================================================
