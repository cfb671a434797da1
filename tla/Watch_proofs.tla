---------------------------- MODULE Watch_proofs ----------------------------
(***************************************************************************)
(* No alert that the kernel told of is forgotten on its way to a poll, for   *)
(* any directories, logs and capacities.                                    *)
(***************************************************************************)
EXTENDS Watch, TLAPS

TypeOK ==
    /\ dirs \subseteq Dirs /\ watched \subseteq Dirs
    /\ log \in [Files -> {"none", "clean", "part", "alert"}]
    /\ events \in Seq({"create", "write"} \X (Files \cup Dirs)) /\ Len(events) <= QueueCap
    /\ pc \in {"add", "walk", "select", "send", "failed", "fatal"} /\ hand \in Files \cup {None}
    /\ pathsc \in Seq(Files) /\ Len(pathsc) <= PathCap
    /\ poll \in {"no", "search", "true", "false"}
    /\ paths \subseteq Files /\ left \subseteq Files /\ due \subseteq Files

\* The watcher holds a path exactly when it is sending it: taking an event never
\* overwrites one.
HandIsSent == pc = "send" <=> hand # None

\* What is due is still there, so that a search that gets to it finds it.
DueIsThere == \A f \in due : log[f] = "alert"

Queued(s) == {s[i] : i \in DOMAIN s}

\* Where an alert may be, one place at a time.
OnItsWay(f) ==
    \/ <<"write", f>> \in Queued(events)
    \/ hand = f
    \/ f \in Queued(pathsc)
    \/ poll = "no" /\ f \in paths
    \/ poll = "search" /\ f \in left

NotForgotten == \A f \in due : OnItsWay(f)

Inv == TypeOK /\ HandIsSent /\ DueIsThere /\ NotForgotten
-----------------------------------------------------------------------------
(* Queues.                                                                  *)

LEMMA AppendQueued ==
    ASSUME NEW S, NEW s \in Seq(S), NEW x \in S
    PROVE  Queued(Append(s, x)) = Queued(s) \cup {x}
<1>1. DOMAIN s = 1..Len(s) /\ DOMAIN Append(s, x) = 1..(Len(s) + 1) /\ Len(s) \in Nat
  OBVIOUS
<1>2. \A i \in 1..Len(s) : Append(s, x)[i] = s[i]
  OBVIOUS
<1>3. Append(s, x)[Len(s) + 1] = x
  OBVIOUS
<1>4. \A i \in 1..(Len(s) + 1) : i \in 1..Len(s) \/ i = Len(s) + 1
  BY <1>1
<1>5. 1..Len(s) \subseteq 1..(Len(s) + 1) /\ Len(s) + 1 \in 1..(Len(s) + 1)
  BY <1>1
<1> QED
  BY <1>1, <1>2, <1>3, <1>4, <1>5, Zenon DEF Queued

LEMMA TailQueued ==
    ASSUME NEW S, NEW s \in Seq(S), s # <<>>
    PROVE  Queued(s) \subseteq {Head(s)} \cup Queued(Tail(s))
<1> SUFFICES ASSUME NEW i \in DOMAIN s, s[i] # Head(s)
             PROVE  \E j \in DOMAIN Tail(s) : s[i] = Tail(s)[j]
  BY DEF Queued
<1>1. i \in 2..Len(s) /\ Len(s) \in Nat
  OBVIOUS
<1>2. i - 1 \in DOMAIN Tail(s) /\ Tail(s)[i - 1] = s[i]
  BY <1>1
<1> QED
  BY <1>2

\* The places are those that the property lists.
LEMMA Places == Inv => AlertsOnTheWay
<1> SUFFICES ASSUME Inv PROVE AlertsOnTheWay
  OBVIOUS
<1>1. ASSUME NEW f \in Files
      PROVE  f \in {e[2] : e \in Queued(events) \cap ({"write"} \X Files)}
             <=> <<"write", f>> \in Queued(events)
  OBVIOUS
<1>2. ASSUME NEW f
      PROVE  f \in (CASE poll = "no" -> paths [] poll = "search" -> left [] OTHER -> {})
             <=> (poll = "no" /\ f \in paths) \/ (poll = "search" /\ f \in left)
  OBVIOUS
<1>3. ASSUME NEW f \in Files PROVE f \in OnTheWay <=> OnItsWay(f)
  BY <1>1, <1>2, Zenon DEF OnTheWay, OnItsWay, Queued
<1> QED
  BY <1>3 DEF AlertsOnTheWay, Inv, TypeOK, NotForgotten
-----------------------------------------------------------------------------
LEMMA InvInit == Init => Inv
<1> SUFFICES ASSUME Init PROVE Inv
  OBVIOUS
<1>1. TypeOK
  BY WatchAssumption DEF Init, TypeOK, Dirs
<1>2. HandIsSent /\ DueIsThere /\ NotForgotten
  BY DEF Init, HandIsSent, DueIsThere, NotForgotten
<1> QED
  BY <1>1, <1>2 DEF Inv

\* An event goes to the end of the kernel's queue, or is dropped; one that is
\* kept is there.
LEMMA NotifyQueued ==
    ASSUME NEW e \in {"create", "write"} \X (Files \cup Dirs), NEW dir, TypeOK, Notify(e, dir)
    PROVE  /\ events' \in Seq({"create", "write"} \X (Files \cup Dirs))
           /\ Len(events') <= QueueCap
           /\ Queued(events) \subseteq Queued(events')
           /\ Kept(e, dir) => e \in Queued(events')
<1> USE WatchAssumption
<1>1. CASE Kept(e, dir) /\ ~Merged(e)
  <2>1. events' = Append(events, e) /\ Len(events) < QueueCap
    BY <1>1 DEF Notify, Kept
  <2>2. Queued(events') = Queued(events) \cup {e}
    BY <2>1, AppendQueued DEF TypeOK
  <2> QED
    BY <2>1, <2>2 DEF TypeOK
<1>2. CASE ~(Kept(e, dir) /\ ~Merged(e))
  <2>1. events' = events
    BY <1>2 DEF Notify
  <2>2. Merged(e) => e \in Queued(events)
    BY DEF Merged, Queued, TypeOK
  <2> QED
    BY <1>2, <2>1, <2>2 DEF TypeOK
<1> QED
  BY <1>1, <1>2

\* The directories and files: what was on its way still is, and an alert that
\* becomes due has an event.
LEMMA WorldStep == ASSUME Inv, World PROVE Inv'
<1> USE WatchAssumption DEF Inv, HandIsSent, DueIsThere, NotForgotten
<1>1. ASSUME NEW d \in Subs, MakeDir(d) PROVE Inv'
  <2>1. Notify(Event("create", d), Root)
        /\ UNCHANGED <<log, watched, pc, hand, pathsc, paths, poll, left, due>>
        /\ dirs' = dirs \cup {d}
    BY <1>1 DEF MakeDir
  <2>2. Event("create", d) \in {"create", "write"} \X (Files \cup Dirs)
    BY DEF Event, Dirs
  <2>3. TypeOK' /\ Queued(events) \subseteq Queued(events')
    BY <2>1, <2>2, NotifyQueued DEF TypeOK, Dirs
  <2>4. \A f \in due' : OnItsWay(f)'
    BY <2>1, <2>3 DEF OnItsWay
  <2> QED
    BY <2>1, <2>3, <2>4
<1>2. ASSUME NEW f \in Files, Create(f) PROVE Inv'
  <2>1. Notify(Event("create", f), DirOf[f])
        /\ UNCHANGED <<dirs, watched, pc, hand, pathsc, paths, poll, left, due>>
        /\ log[f] = "none" /\ log' = [log EXCEPT ![f] = "clean"]
    BY <1>2 DEF Create
  <2>2. Event("create", f) \in {"create", "write"} \X (Files \cup Dirs)
    BY DEF Event
  <2>3. TypeOK' /\ Queued(events) \subseteq Queued(events')
    BY <2>1, <2>2, NotifyQueued DEF TypeOK
  <2>4. \A g \in due' : OnItsWay(g)'
    BY <2>1, <2>3 DEF OnItsWay
  <2>6. DueIsThere'
    BY <2>1 DEF TypeOK
  <2> QED
    BY <2>1, <2>3, <2>4, <2>6
<1>3. ASSUME NEW f \in Files, Rotate(f) PROVE Inv'
  <2>1. TypeOK' /\ HandIsSent' /\ DueIsThere'
    BY <1>3 DEF Rotate, TypeOK
  <2>2. \A g \in due' : OnItsWay(g)'
    BY <1>3 DEF Rotate, OnItsWay
  <2> QED
    BY <2>1, <2>2
<1>4. ASSUME NEW f \in Files, NEW text \in {"clean", "part", "alert"}, Write(f, text)
      PROVE  Inv'
  <2> DEFINE e == Event("write", f)
  <2>1. /\ Notify(e, DirOf[f]) /\ log' = [log EXCEPT ![f] = text]
        /\ UNCHANGED <<dirs, watched, pc, hand, pathsc, paths, poll, left>>
        /\ log[f] = "alert" => text = "alert"
        /\ due' = IF text = "alert" /\ log[f] # "alert" /\ Kept(e, DirOf[f])
                  THEN due \cup {f} ELSE due
    BY <1>4 DEF Write
  <2>2. e \in {"create", "write"} \X (Files \cup Dirs) /\ e = <<"write", f>>
    BY DEF Event
  <2>3. /\ events' \in Seq({"create", "write"} \X (Files \cup Dirs))
        /\ Len(events') <= QueueCap /\ Queued(events) \subseteq Queued(events')
        /\ Kept(e, DirOf[f]) => e \in Queued(events')
    BY <2>1, <2>2, NotifyQueued
  <2>4. TypeOK' /\ HandIsSent' /\ DueIsThere'
    BY <2>1, <2>3 DEF TypeOK
  <2>5. \A g \in due' : OnItsWay(g)'
    BY <2>1, <2>2, <2>3 DEF OnItsWay
  <2> QED
    BY <2>4, <2>5
<1> QED
  BY <1>1, <1>2, <1>3, <1>4 DEF World

\* The watcher: an event becomes the path in its hand if the file is there, which
\* it is when something is due in it; and that path goes to the channel.
LEMMA WatcherStep == ASSUME Inv, Watcher \/ SetUpFails PROVE Inv'
<1> USE WatchAssumption DEF Inv, HandIsSent, DueIsThere, NotForgotten
<1>1. CASE AddRoot \/ Walk \/ SetUpFails
  <2>1. TypeOK' /\ UNCHANGED <<log, events, hand, pathsc, paths, poll, left, due>>
        /\ pc # "send" /\ pc' # "send"
    BY <1>1 DEF AddRoot, Walk, SetUpFails, NewWatcherFails, AddRootFails, WalkFails, TypeOK,
       Dirs
  <2>2. \A f \in due' : OnItsWay(f)'
    BY <2>1 DEF OnItsWay
  <2> QED
    BY <2>1, <2>2
<1>2. CASE TakeEvent
  <2> DEFINE op == Head(events)[1]
             name == Head(events)[2]
  <2>1. /\ pc = "select" /\ events # <<>> /\ events' = Tail(events)
        /\ watched' \in Added(op, name)
        /\ IF op = "write" /\ isFile(name) THEN pc' = "send" /\ hand' = name
           ELSE UNCHANGED <<pc, hand>>
        /\ UNCHANGED <<dirs, log, pathsc, paths, poll, left, due>>
    BY <1>2 DEF TakeEvent
  <2>2. TypeOK'
    <3>1. Added(op, name) \subseteq SUBSET Dirs
      BY DEF Added, isDir, TypeOK
    <3> QED
      BY <2>1, <3>1 DEF TypeOK, isFile
  <2>3. HandIsSent'
    BY <2>1 DEF TypeOK, isFile
  <2>4. Queued(events) \subseteq {Head(events)} \cup Queued(events')
    BY <2>1, TailQueued DEF TypeOK
  <2>5. ASSUME NEW f \in due PROVE OnItsWay(f)'
    <3>1. f \in Files /\ isFile(f) /\ hand = None /\ f # None
      BY <2>1 DEF TypeOK, isFile
    <3>2. CASE Head(events) = <<"write", f>>
      BY <2>1, <3>1, <3>2 DEF OnItsWay
    <3>3. CASE Head(events) # <<"write", f>>
      BY <2>1, <2>4, <3>1, <3>3 DEF OnItsWay
    <3> QED
      BY <3>2, <3>3
  <2> QED
    BY <2>1, <2>2, <2>3, <2>5
<1>3. CASE SendPath
  <2>1. /\ pc = "send" /\ hand \in Files /\ pathsc' = Append(pathsc, hand)
        /\ hand' = None /\ pc' = "select" /\ Len(pathsc) < PathCap
        /\ UNCHANGED <<dirs, log, watched, events, paths, poll, left, due>>
    BY <1>3 DEF SendPath, TypeOK
  <2>2. TypeOK'
    BY <2>1 DEF TypeOK
  <2>3. Queued(pathsc') = Queued(pathsc) \cup {hand}
    BY <2>1, AppendQueued DEF TypeOK
  <2>4. \A f \in due' : OnItsWay(f)'
    BY <2>1, <2>3 DEF OnItsWay
  <2> QED
    BY <2>1, <2>2, <2>4
<1> QED
  BY <1>1, <1>2, <1>3 DEF Watcher

\* The dispatcher: a poll takes all paths, drops one only if it is not due, and
\* resets them when nothing due depends on them.
LEMMA DispatcherStep == ASSUME Inv, Dispatcher PROVE Inv'
<1> USE WatchAssumption DEF Inv, HandIsSent, DueIsThere, NotForgotten
<1>2. CASE RecvPath
  <2>1. poll = "no" /\ pathsc # <<>> /\ paths' = paths \cup {Head(pathsc)}
        /\ pathsc' = Tail(pathsc)
        /\ UNCHANGED <<dirs, log, watched, events, pc, hand, poll, left, due>>
    BY <1>2 DEF RecvPath
  <2>2. Queued(pathsc) \subseteq {Head(pathsc)} \cup Queued(pathsc')
    BY <2>1, TailQueued DEF TypeOK
  <2>3. TypeOK'
    BY <2>1 DEF TypeOK
  <2>4. \A f \in due' : OnItsWay(f)'
    BY <2>1, <2>2 DEF OnItsWay
  <2> QED
    BY <2>1, <2>3, <2>4
<1>3. CASE RecvPoll
  <2>1. TypeOK' /\ UNCHANGED <<pc, hand>> /\ DueIsThere'
    BY <1>3 DEF RecvPoll, TypeOK
  <2>2. \A f \in due' : OnItsWay(f)'
    BY <1>3 DEF RecvPoll, OnItsWay
  <2> QED
    BY <2>1, <2>2
<1>4. CASE FgrepAll
  <2>1. TypeOK' /\ UNCHANGED <<pc, hand>> /\ DueIsThere'
    BY <1>4 DEF FgrepAll, TypeOK
  <2>2. \A f \in due' : OnItsWay(f)'
    BY <1>4 DEF FgrepAll, Fgrep, OnItsWay
  <2> QED
    BY <2>1, <2>2
<1>5. CASE EndPoll
  <2>1. TypeOK' /\ UNCHANGED <<pc, hand>> /\ DueIsThere'
    BY <1>5 DEF EndPoll, TypeOK
  <2>2. \A f \in due' : OnItsWay(f)'
    BY <1>5 DEF EndPoll, OnItsWay
  <2> QED
    BY <2>1, <2>2
<1> QED
  BY <1>2, <1>3, <1>4, <1>5 DEF Dispatcher

LEMMA InvNext == Inv /\ [Next]_vars => Inv'
<1> SUFFICES ASSUME Inv, [Next]_vars PROVE Inv'
  OBVIOUS
<1>1. CASE UNCHANGED vars
  BY <1>1 DEF vars, Inv, TypeOK, HandIsSent, DueIsThere, NotForgotten, OnItsWay
<1> QED
  BY <1>1, WorldStep, WatcherStep, DispatcherStep DEF Next

\* Wherever the directories and the logs are, and however small the channel and
\* the queue of the kernel, no alert that the kernel told of is forgotten before a
\* search that reads it, and neither queue grows past its capacity.
THEOREM WatchSafe == Spec => [](TypeOK /\ AlertsOnTheWay)
<1>1. Inv => TypeOK /\ AlertsOnTheWay
  BY Places DEF Inv
<1> QED
  BY <1>1, InvInit, InvNext, PTL DEF Spec
=============================================================================
