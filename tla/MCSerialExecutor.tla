-------------------------- MODULE MCSerialExecutor --------------------------
(***************************************************************************)
(* SerialExecutor for TLC: values are residues, so that a gate applied to   *)
(* the wrong arguments, or to the right ones in the wrong order, shows.     *)
(***************************************************************************)
EXTENDS SerialExecutor

MCVal == 0 .. 10
MCSource(r) == (7 * r + 3) % 11
MCApply(r, args) ==
    (5 * r + 1 + (IF Len(args) >= 1 THEN 2 * args[1] ELSE 0)
               + (IF Len(args) >= 2 THEN 3 * args[2] ELSE 0)) % 11
=============================================================================
