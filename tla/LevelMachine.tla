---------------------------- MODULE LevelMachine ----------------------------
(***************************************************************************)
(* What the alert levels promise to the robot: the level only rises, except *)
(* that a soft level may fall to the one right below it; a level is entered *)
(* only after the exit program of the previous one has run; the monitor is  *)
(* told of a level when it is entered, never of any other.                  *)
(*                                                                          *)
(* Levels.tla, the translation of extern.Trigger and of the interpreter     *)
(* around it, implements this specification.                                *)
(***************************************************************************)
EXTENDS Integers

CONSTANTS NLevels,   \* how many levels the rules declare
          Soft       \* the levels declared with the attribute soft

Level == 0..(NLevels - 1)

Untold == -1         \* the monitor has not been told any level yet

VARIABLES level,     \* the current alert level
          leaving,   \* TRUE once the exit program of level has run
          told       \* the last level the monitor was told

vars == <<level, leaving, told>>

\* The edges of the state machine of levels.
LegalMove(from, to) == to > from \/ (from \in Soft /\ to = from - 1)

Init == level = 0 /\ leaving = FALSE /\ told = Untold

\* The first level is entered without leaving any other.
EnterFirst == /\ told = Untold /\ level = 0 /\ ~leaving
              /\ told' = 0
              /\ UNCHANGED <<level, leaving>>

Leave == leaving' = TRUE /\ UNCHANGED <<level, told>>

\* The notice is lost when the monitor is gone.
Enter(l) == /\ leaving
            /\ LegalMove(level, l)
            /\ level' = l
            /\ leaving' = FALSE
            /\ told' \in {l, told}

Next == EnterFirst \/ Leave \/ \E l \in Level : Enter(l)

Spec == Init /\ [][Next]_vars
=============================================================================
