------------------------------- MODULE MCWatch -------------------------------
(***************************************************************************)
(* A directory with a log and a directory in it with another.               *)
(***************************************************************************)
EXTENDS Watch

CONSTANTS snort, sub, f, g

MCSubs == {sub}
MCFiles == {f, g}
MCDirOf == [x \in MCFiles |-> IF x = f THEN snort ELSE sub]
=============================================================================
