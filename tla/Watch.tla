-------------------------------- MODULE Watch --------------------------------
(***************************************************************************)
(* From a line in a log of the IDS to a rule that asks for it: the watcher   *)
(* of directories and the search of idsalert (extern/ids.go), with the       *)
(* polls that reset the paths (extern/conc.go).  Engine has the rest of the  *)
(* event loop, and there a file is only written or not.                      *)
(*                                                                          *)
(* One text is searched.  A file has it in a complete line ("alert"), only   *)
(* in a last line that does not end yet ("part"), or not ("clean"), and may  *)
(* be renamed away by a rotation ("none").  The logs are in a directory and  *)
(* in those in it, Subs; all names are ones to pay attention to.             *)
(***************************************************************************)
EXTENDS Integers, Sequences

CONSTANTS Root, Subs,  \* directories
          Files,       \* names of files
          DirOf,       \* where each is
          PathCap,     \* capacity of pathsc
          QueueCap     \* bound: events that the kernel keeps

None == "none"

ASSUME WatchAssumption ==
    /\ DirOf \in [Files -> {Root} \cup Subs]
    /\ Root \notin Subs /\ Files \cap ({Root} \cup Subs) = {}
    /\ None \notin Files
    /\ PathCap \in Nat \ {0} /\ QueueCap \in Nat \ {0}

Dirs == {Root} \cup Subs

VARIABLES dirs, log,   \* what there is
          watched,     \* directories under watch
          events,      \* that the kernel keeps: <<operation, name>>
          pc, hand,    \* of Watcher: "failed" if it has no goroutine; what it is sending
          pathsc, paths,
          poll,        \* "no", "search"; "true" or "false" is the answer of idsalert
          left,        \* paths that FgrepAll has still to search
          due          \* ghost: files with an alert that no rule was told of

vars == <<dirs, log, watched, events, pc, hand, pathsc, paths, poll, left, due>>

Init ==
    /\ dirs \in {{Root} \cup s : s \in SUBSET Subs}
    /\ log = [f \in Files |-> "none"]
    /\ watched = {} /\ events = <<>>
    /\ pc = "add" /\ hand = None
    /\ pathsc = <<>> /\ paths = {}
    /\ poll = "no" /\ left = {} /\ due = {}
-----------------------------------------------------------------------------
(* External: the directories and files, and inotify, which drops an event    *)
(* equal to the last one, and any when there is no room.                     *)

Event(op, name) == <<op, name>>
Merged(e) == events # <<>> /\ events[Len(events)] = e
Kept(e, dir) == dir \in watched /\ (Merged(e) \/ Len(events) < QueueCap)
Notify(e, dir) ==
    events' = IF Kept(e, dir) /\ ~Merged(e) THEN Append(events, e) ELSE events

MakeDir(d) ==
    /\ d \notin dirs
    /\ dirs' = dirs \cup {d}
    /\ Notify(Event("create", d), Root)
    /\ UNCHANGED <<log, watched, pc, hand, pathsc, paths, poll, left, due>>

Create(f) ==
    /\ log[f] = "none" /\ DirOf[f] \in dirs
    /\ log' = [log EXCEPT ![f] = "clean"]
    /\ Notify(Event("create", f), DirOf[f])
    /\ UNCHANGED <<dirs, watched, pc, hand, pathsc, paths, poll, left, due>>

\* An alert is due once it is complete, if the kernel tells of it.
Write(f, text) ==
    /\ <<log[f], text>> \in {"clean", "part"} \X {"clean", "part", "alert"} \cup {<<"alert", "alert">>}
    /\ log' = [log EXCEPT ![f] = text]
    /\ Notify(Event("write", f), DirOf[f])
    /\ due' = IF text = "alert" /\ log[f] # "alert" /\ Kept(Event("write", f), DirOf[f])
              THEN due \cup {f} ELSE due
    /\ UNCHANGED <<dirs, watched, pc, hand, pathsc, paths, poll, left>>

Rotate(f) ==
    /\ log[f] # "none"
    /\ log' = [log EXCEPT ![f] = "none"]
    /\ due' = due \ {f}
    /\ UNCHANGED <<dirs, watched, events, pc, hand, pathsc, paths, poll, left>>

World == \/ \E d \in Subs : MakeDir(d)
         \/ \E f \in Files : Create(f) \/ Rotate(f)
         \/ \E f \in Files, text \in {"clean", "part", "alert"} : Write(f, text)
-----------------------------------------------------------------------------
(* Watcher.                                                                 *)

AddRoot ==
    /\ pc = "add"
    /\ watched' = watched \cup {Root} /\ pc' = "walk"
    /\ UNCHANGED <<dirs, log, events, hand, pathsc, paths, poll, left, due>>

\* Without a watcher the process ends.
NewWatcherFails ==
    /\ pc = "add"
    /\ pc' = "fatal"
    /\ UNCHANGED <<dirs, log, watched, events, hand, pathsc, paths, poll, left, due>>

\* Watcher returns an error that main ignores (rips.go:174): the engine goes on,
\* and nobody reads the events.
AddRootFails ==
    /\ pc = "add"
    /\ pc' = "failed"
    /\ UNCHANGED <<dirs, log, watched, events, hand, pathsc, paths, poll, left, due>>

WalkFails ==
    /\ pc = "walk"
    /\ \E some \in SUBSET dirs : watched' = watched \cup some
    /\ pc' = "failed"
    /\ UNCHANGED <<dirs, log, events, hand, pathsc, paths, poll, left, due>>

SetUpFails == NewWatcherFails \/ AddRootFails \/ WalkFails

\* The directories that are there when the walk gets to the first are added.
Walk ==
    /\ pc = "walk"
    /\ watched' = watched \cup dirs /\ pc' = "select"
    /\ UNCHANGED <<dirs, log, events, hand, pathsc, paths, poll, left, due>>

isDir(name) == name \in dirs
isFile(name) == name \in Files /\ log[name] # "none"

\* A new directory is added, if it can be: the error is ignored.
Added(op, name) ==
    {watched} \cup (IF op = "create" /\ isDir(name) THEN {watched \cup {name}} ELSE {})

TakeEventReturns ==   \* mutant: the watcher ends with a directory it has added
    /\ pc = "select" /\ events # <<>>
    /\ events' = Tail(events)
    /\ LET op == Head(events)[1]
           name == Head(events)[2]
       IN  /\ watched' \in Added(op, name)
           /\ IF op = "write" /\ isFile(name) THEN pc' = "send" /\ hand' = name
              ELSE /\ pc' = IF isDir(name) THEN "return" ELSE "select"
                   /\ UNCHANGED hand
    /\ UNCHANGED <<dirs, log, pathsc, paths, poll, left, due>>

\* What the name is now counts, not what it was when the event happened.
TakeEvent ==
    /\ pc = "select" /\ events # <<>>
    /\ events' = Tail(events)
    /\ LET op == Head(events)[1]
           name == Head(events)[2]
       IN  /\ watched' \in Added(op, name)
           /\ IF op = "write" /\ isFile(name) THEN pc' = "send" /\ hand' = name
              ELSE UNCHANGED <<pc, hand>>
    /\ UNCHANGED <<dirs, log, pathsc, paths, poll, left, due>>

SendPath ==
    /\ pc = "send" /\ Len(pathsc) < PathCap
    /\ pathsc' = Append(pathsc, hand) /\ hand' = None /\ pc' = "select"
    /\ UNCHANGED <<dirs, log, watched, events, paths, poll, left, due>>

Watcher == AddRoot \/ Walk \/ TakeEvent \/ SendPath
-----------------------------------------------------------------------------
(* The dispatcher and, in a poll, idsalert.                                 *)

RecvPath ==
    /\ poll = "no" /\ pathsc # <<>>
    /\ paths' = paths \cup {Head(pathsc)} /\ pathsc' = Tail(pathsc)
    /\ UNCHANGED <<dirs, log, watched, events, pc, hand, poll, left, due>>

\* main starts the dispatcher when Watcher has returned.
RecvPoll ==
    /\ poll = "no" /\ pc \in {"select", "send", "failed"}
    /\ poll' = "search" /\ left' = paths
    /\ UNCHANGED <<dirs, log, watched, events, pc, hand, pathsc, paths, due>>

\* Complete lines only; a file that cannot be opened has none.
Fgrep(f) == log[f] = "alert"

FgrepFirst ==   \* mutant: the first file decides
    /\ poll = "search"
    /\ \E f \in left :
           IF Fgrep(f) THEN poll' = "true" /\ left' = {} /\ due' = {}
           ELSE poll' = "false" /\ left' = {} /\ UNCHANGED due
    /\ UNCHANGED <<dirs, log, watched, events, pc, hand, pathsc, paths>>

\* The paths are a map, in any order.
FgrepAll ==
    /\ poll = "search"
    /\ \/ \E f \in left :
             IF Fgrep(f) THEN poll' = "true" /\ left' = {} /\ due' = {}
             ELSE left' = left \ {f} /\ UNCHANGED <<poll, due>>
       \/ left = {} /\ poll' = "false" /\ UNCHANGED <<left, due>>
    /\ UNCHANGED <<dirs, log, watched, events, pc, hand, pathsc, paths>>

EndPoll ==
    /\ poll \in {"true", "false"}
    /\ poll' = "no" /\ paths' = {}
    /\ UNCHANGED <<dirs, log, watched, events, pc, hand, pathsc, left, due>>

Dispatcher == RecvPath \/ RecvPoll \/ FgrepAll \/ EndPoll
-----------------------------------------------------------------------------
Next == World \/ Watcher \/ SetUpFails \/ Dispatcher

\* Goroutines run; the select takes each of its cases that is ready again and
\* again.  Nothing is assumed of the IDS, nor that something fails.
Spec == /\ Init /\ [][Next]_vars
        /\ WF_vars(Watcher)
        /\ SF_vars(RecvPath) /\ SF_vars(RecvPoll)
        /\ WF_vars(FgrepAll \/ EndPoll)
-----------------------------------------------------------------------------
(* Properties.                                                              *)

\* An alert that the kernel told of, in a file that is still there, is on its
\* way to a search that will read it: with an event, a path, or the paths of
\* the next poll or those left in this one.  Not so for what is written in a new
\* directory before it is added (ids.go:111), nor with no room in the kernel.
OnTheWay ==
    {e[2] : e \in {events[i] : i \in DOMAIN events} \cap ({"write"} \X Files)}
    \cup {hand} \cup {pathsc[i] : i \in DOMAIN pathsc}
    \cup (CASE poll = "no" -> paths [] poll = "search" -> left [] OTHER -> {})
AlertsOnTheWay == due \subseteq OnTheWay

\* A rule is told of such an alert, however much is written meanwhile, unless
\* the file is renamed away before, or the watcher was never started.
AlertsTold == \A f \in Files : f \in due ~> f \notin due \/ pc = "failed"
=============================================================================
