----------------------------- MODULE EventLoop -----------------------------
(***************************************************************************)
(* What the engine promises to the monitor it listens to: the rules run in  *)
(* iterations, one at a time, with a message or without; every message gets *)
(* one iteration, in the order of arrival; an iteration with a message is   *)
(* cut short by nothing but its own rules; and a normal end means that the  *)
(* monitor stopped sending and that everything it sent was dealt with.      *)
(*                                                                          *)
(* Engine.tla, the translation of main and of the goroutines of extern,     *)
(* implements this specification.                                           *)
(***************************************************************************)
EXTENDS Integers

VARIABLES sent,      \* how many messages the monitor has sent
          ended,     \* the monitor will send no more
          handled,   \* how many messages got their iteration
          running,   \* the iteration: "no", "external" or "message"
          exit       \* the status the engine exited with, or Running

Running == -1

vars == <<sent, ended, handled, running, exit>>

Init == /\ sent = 0 /\ ended = FALSE /\ handled = 0
        /\ running = "no" /\ exit = Running

Send == /\ ~ended
        /\ sent' = sent + 1
        /\ UNCHANGED <<ended, handled, running, exit>>

End == ended' = TRUE /\ UNCHANGED <<sent, handled, running, exit>>

StartMessage == /\ running = "no" /\ handled < sent
                /\ running' = "message"
                /\ UNCHANGED <<sent, ended, handled, exit>>

FinishMessage == /\ running = "message"
                 /\ running' = "no" /\ handled' = handled + 1
                 /\ UNCHANGED <<sent, ended, exit>>

StartExternal == /\ running = "no"
                 /\ running' = "external"
                 /\ UNCHANGED <<sent, ended, handled, exit>>

FinishExternal == /\ running = "external"
                  /\ running' = "no"
                  /\ UNCHANGED <<sent, ended, handled, exit>>

\* 0 is the normal end, 1 an error or a signal, 2 is what the rules ask for.
Exit == /\ \/ exit' = 0 /\ ended /\ handled = sent /\ running # "message"
           \/ exit' = 1 /\ running # "message"
           \/ exit' = 2 /\ running # "no"
        /\ UNCHANGED <<sent, ended, handled, running>>

Next == /\ exit = Running
        /\ \/ Send \/ End
           \/ StartMessage \/ FinishMessage
           \/ StartExternal \/ FinishExternal
           \/ Exit

Spec == Init /\ [][Next]_vars
=============================================================================
