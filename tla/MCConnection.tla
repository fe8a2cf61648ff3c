---------------------------- MODULE MCConnection ----------------------------
(* Instantiates Connection for TLC.  Two messages of two units against a   *)
(* one-unit kernel send buffer make every SendBase a partial write, so the *)
(* output buffer, write interest and HandleWrite are all exercised.        *)
EXTENDS Connection

\* The application calls only from callbacks on the loop thread.
LoopOnly == {"loop"}
\* ... or also from a thread of its own.
LoopAndForeign == {"loop", "foreign"}
=============================================================================
