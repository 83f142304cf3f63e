----------------------------- MODULE MCShutdown -----------------------------
(* Instances of Shutdown for TLC.                                          *)
EXTENDS Shutdown

\* What a pupptyeer daemon sends an attached client when a session ends: the exit
\* with its code, and perhaps that the session was closed.
ExitFirst == {<<"exit", "closed">>, <<"exit">>}
=============================================================================
