---------------------------- MODULE MCQuicStream ----------------------------
(***************************************************************************)
(* QuicStream for TLC: messages of two lengths.                             *)
(***************************************************************************)
EXTENDS QuicStream

MCBodyLen(m) == IF m = 2 THEN 3 ELSE 5
=============================================================================
