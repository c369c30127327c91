---------------------------- MODULE MCRegister -----------------------------
(* Instances of Register. *)
EXTENDS Register

AllDeployments == ((1 .. 4) \X {"http"}) \cup {<<4, "loop">>}

(* A write and a read of one client, as in the test of the repository, and *)
(* of two clients.                                                         *)
SmallAgendas == { << <<0, "write">>, <<0, "read">> >>,
                  << <<1, "write">>, <<0, "read">> >> }
=============================================================================
