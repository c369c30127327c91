---------------------------- MODULE MCEventLoop ----------------------------
(* An instance of EventLoop. *)
EXTENDS EventLoop

MCSessions == {<<"AdminResetLog", "AdminDumpLog">>, <<"unknown", "AdminResetReactors">>,
               <<"AdminDumpLog", "AdminDumpLog", "AdminQuit">>}
=============================================================================
