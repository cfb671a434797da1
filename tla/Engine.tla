------------------------------- MODULE Engine -------------------------------
(***************************************************************************)
(* The event loop of the engine (rips.go, extern/conc.go, extern/ids.go):   *)
(* main, which decodes the messages of the monitor; the dispatcher, which   *)
(* runs the rules; the poller, which makes it run them every 200 ms; and    *)
(* the watcher of the logs of the IDS.  They are goroutines that meet at    *)
(* channels.  The program generated by rips -c has the same ones, with a    *)
(* shorter channel of paths.                                                *)
(*                                                                          *)
(* What the rules do in an iteration is left open, but for what matters to  *)
(* the loop: they read symbols of the program, consume signals, and may end *)
(* the process.  The watcher is one that could be set up: Watch has what     *)
(* happens when it cannot, which main ignores.                              *)
(***************************************************************************)
EXTENDS Integers, Sequences

CONSTANTS Files,       \* the log files of the IDS
          Counted,     \* the signals that are counted: SIGUSR1, SIGUSR2
          Ending,      \* the signals that end the process: SIGINT, SIGTERM
          PathCap,     \* capacity of pathsc: 500, or 1 in a generated program
          MaxMsgs,     \* bound: messages the monitor sends
          MaxSignals,  \* bound: times each signal is raised
          None         \* an empty channel, an empty hand

ASSUME EngineAssumption ==
    /\ MaxMsgs \in Nat /\ MaxSignals \in Nat
    /\ PathCap \in Nat \ {0}
    /\ Counted \cap Ending = {}
    /\ None \notin Files \cup Counted \cup Ending \cup Nat

Signals == Counted \cup Ending
Msg == 1..MaxMsgs      \* the n-th message sent is n
Nil == 0               \* the nil *Msg
Running == -1

VARIABLES stream,    \* the connection: not made yet, open, at its end, garbled
          sent,      \* how many messages the monitor has sent
          mainPc, decoded,
          mc, mcr,   \* channels of capacity 1: None when empty
          dispPc, curMsg, iserr,   \* curMsg is context.CurrentMsg
          poller,    \* "recv" when at the channel ct, "sleep" in between
          paths,     \* context.Paths
          pathsc, inotify, hand,   \* hand is what the watcher is sending
          sigc, nusr,              \* nusr is context.Nusr1 and Nusr2
          syms,      \* the symbols of the program are on the execution stack
          exit,      \* the status the process exited with, or Running
          handled,   \* ghost: messages whose iteration ended
          dirty,     \* ghost: files written since a poll last looked at them
          raised,    \* ghost: how many times each signal was raised
          used       \* ghost: how many times signal answered true

channels == <<mc, mcr, pathsc, sigc>>
external == <<stream, sent, inotify, raised>>
watch == <<pathsc, inotify, hand, dirty>>
signals == <<sigc, nusr, raised, used>>
dispatch == <<dispPc, curMsg, iserr, paths, handled>>
main == <<mainPc, decoded>>
vars == <<stream, sent, main, mc, mcr, dispatch, poller, watch, signals, syms, exit>>

Init ==
    /\ stream = "none" /\ sent = 0
    /\ mainPc = "accept" /\ decoded = 0
    /\ mc = None /\ mcr = None
    /\ dispPc = "kickoff" /\ curMsg = Nil /\ iserr = 0
    /\ poller = "recv"
    /\ paths = {} /\ pathsc = <<>> /\ inotify = {} /\ hand = None
    /\ sigc = None /\ nusr = [s \in Counted |-> 0]
    /\ syms = TRUE
    /\ exit = Running
    /\ handled = 0 /\ dirty = {}
    /\ raised = [s \in Signals |-> 0] /\ used = [s \in Counted |-> 0]

-----------------------------------------------------------------------------
(* main and MsgDecoder.                                                     *)

Accept ==
    /\ mainPc = "accept" /\ stream # "none"
    /\ mainPc' = "boot"
    /\ UNCHANGED <<stream, sent, decoded, mc, mcr, dispatch, poller, watch,
                   signals, syms, exit>>

\* Accept returns an error, or the connection cannot be spliced: log.Fatal.
SetUpFails ==
    /\ mainPc \in {"accept", "boot"}
    /\ exit' = 1
    /\ UNCHANGED <<stream, sent, main, mc, mcr, dispatch, poller, watch,
                   signals, syms>>

\* SetPredefVars and the first Trigger (see Levels): main uses the context.
Boot ==
    /\ mainPc = "boot"
    /\ mainPc' = "kickoff"
    /\ UNCHANGED <<stream, sent, decoded, mc, mcr, dispatch, poller, watch,
                   signals, syms, exit>>

KickOff ==
    /\ mainPc = "kickoff" /\ mc = None
    /\ mc' = Nil
    /\ mainPc' = "decode"
    /\ UNCHANGED <<stream, sent, decoded, mcr, dispatch, poller, watch,
                   signals, syms, exit>>

Decode ==
    /\ mainPc = "decode" /\ decoded < sent
    /\ decoded' = decoded + 1
    /\ mainPc' = "send"
    /\ UNCHANGED <<stream, sent, mc, mcr, dispatch, poller, watch,
                   signals, syms, exit>>

DecodeAgain ==   \* mutant: a decoding error is retried
    /\ mainPc = "decode" /\ decoded = sent /\ stream \in {"eof", "bad"}
    /\ mainPc' = "decode"
    /\ UNCHANGED <<stream, sent, decoded, mc, mcr, dispatch, poller, watch,
                   signals, syms, exit>>

\* The end of the connection, or something that is not a message.
DecodeFails ==
    /\ mainPc = "decode" /\ decoded = sent /\ stream \in {"eof", "bad"}
    /\ mainPc' = "final"
    /\ UNCHANGED <<stream, sent, decoded, mc, mcr, dispatch, poller, watch,
                   signals, syms, exit>>

SendMsgOnly ==   \* mutant: the next message is decoded without waiting
    /\ mainPc = "send" /\ mc = None
    /\ mc' = decoded
    /\ mainPc' = "decode"
    /\ UNCHANGED <<stream, sent, decoded, mcr, dispatch, poller, watch,
                   signals, syms, exit>>

SendMsg ==
    /\ mainPc = "send" /\ mc = None
    /\ mc' = decoded
    /\ mainPc' = "ack"
    /\ UNCHANGED <<stream, sent, decoded, mcr, dispatch, poller, watch,
                   signals, syms, exit>>

RecvAck ==
    /\ mainPc = "ack" /\ mcr # None
    /\ mcr' = None
    /\ mainPc' = "decode"
    /\ UNCHANGED <<stream, sent, decoded, mc, dispatch, poller, watch,
                   signals, syms, exit>>

\* mc is closed too: nobody receives from it after this nil.
SendFinal ==
    /\ mainPc = "final" /\ mc = None
    /\ mc' = Nil
    /\ mainPc' = "return"
    /\ UNCHANGED <<stream, sent, decoded, mcr, dispatch, poller, watch,
                   signals, syms, exit>>

\* log.Fatal on an error; at the end of the stream, Program.Done pops the
\* symbols, whatever the dispatcher is doing.
ReturnError ==
    /\ mainPc = "return" /\ stream = "bad"
    /\ exit' = 1
    /\ UNCHANGED <<stream, sent, main, mc, mcr, dispatch, poller, watch,
                   signals, syms>>

ReturnEOF ==
    /\ mainPc = "return" /\ stream = "eof"
    /\ syms' = FALSE
    /\ mainPc' = "done"
    /\ UNCHANGED <<stream, sent, decoded, mc, mcr, dispatch, poller, watch,
                   signals, exit>>

MainExits ==
    /\ mainPc = "done"
    /\ exit' = 0
    /\ UNCHANGED <<stream, sent, main, mc, mcr, dispatch, poller, watch,
                   signals, syms>>

Main == \/ Accept \/ Boot \/ KickOff
        \/ Decode \/ DecodeFails \/ SendMsg \/ RecvAck \/ SendFinal
        \/ ReturnError \/ ReturnEOF \/ MainExits
-----------------------------------------------------------------------------
(* The dispatcher: a select among the four channels, then the case taken.   *)

RecvNothing ==   \* mutant: the dispatcher does not wait for the kick-off
    /\ dispPc = "kickoff"
    /\ dispPc' = "select"
    /\ UNCHANGED <<stream, sent, main, mc, mcr, curMsg, iserr, paths, handled,
                   poller, watch, signals, syms, exit>>

RecvKickOff ==
    /\ dispPc = "kickoff" /\ mc # None
    /\ mc' = None
    /\ dispPc' = "select"
    /\ UNCHANGED <<stream, sent, main, mcr, curMsg, iserr, paths, handled,
                   poller, watch, signals, syms, exit>>

RecvPath ==
    /\ dispPc = "select" /\ pathsc # <<>>
    /\ paths' = paths \cup {Head(pathsc)}
    /\ pathsc' = Tail(pathsc)
    /\ UNCHANGED <<stream, sent, main, mc, mcr, dispPc, curMsg, iserr, handled,
                   poller, inotify, hand, dirty, signals, syms, exit>>

\* The poller takes the 0 from ct: an iteration without a message.
RecvPoll ==
    /\ dispPc = "select" /\ poller = "recv"
    /\ poller' = "sleep"
    /\ curMsg' = Nil
    /\ dispPc' = "run"
    /\ dirty' = dirty \ paths
    /\ UNCHANGED <<stream, sent, main, mc, mcr, iserr, paths, handled,
                   pathsc, inotify, hand, signals, syms, exit>>

RecvMsg ==
    /\ dispPc = "select" /\ mc # None
    /\ mc' = None
    /\ curMsg' = mc
    /\ dispPc' = IF mc = Nil THEN "leave" ELSE "run"
    /\ UNCHANGED <<stream, sent, main, mcr, iserr, paths, handled,
                   poller, watch, signals, syms, exit>>

RecvSignalStays ==   \* mutant: the break leaves the select, not the loop
    /\ dispPc = "select" /\ sigc # None
    /\ sigc' = None
    /\ IF sigc \in Counted
       THEN nusr' = [nusr EXCEPT ![sigc] = @ + 1] /\ UNCHANGED iserr
       ELSE iserr' = 1 /\ UNCHANGED nusr
    /\ UNCHANGED <<stream, sent, main, mc, mcr, dispPc, curMsg, paths, handled,
                   poller, watch, raised, used, syms, exit>>

RecvSignal ==
    /\ dispPc = "select" /\ sigc # None
    /\ sigc' = None
    /\ IF sigc \in Counted
       THEN nusr' = [nusr EXCEPT ![sigc] = @ + 1] /\ UNCHANGED <<dispPc, iserr>>
       ELSE dispPc' = "leave" /\ iserr' = 1 /\ UNCHANGED nusr
    /\ UNCHANGED <<stream, sent, main, mc, mcr, curMsg, paths, handled,
                   poller, watch, raised, used, syms, exit>>

EndPollReplies ==   \* mutant: polls are answered like messages
    /\ dispPc = "run" /\ curMsg = Nil
    /\ paths' = {}
    /\ dispPc' = "reply"
    /\ UNCHANGED <<stream, sent, main, mc, mcr, curMsg, iserr, handled,
                   poller, watch, signals, syms, exit>>

EndPoll ==
    /\ dispPc = "run" /\ curMsg = Nil
    /\ paths' = {}
    /\ dispPc' = "select"
    /\ UNCHANGED <<stream, sent, main, mc, mcr, curMsg, iserr, handled,
                   poller, watch, signals, syms, exit>>

EndMsgDropsPaths ==   \* mutant: the paths are reset after every iteration
    /\ dispPc = "run" /\ curMsg # Nil
    /\ handled' = handled + 1
    /\ paths' = {}
    /\ dispPc' = "reply"
    /\ UNCHANGED <<stream, sent, main, mc, mcr, curMsg, iserr,
                   poller, watch, signals, syms, exit>>

EndMsgSilent ==   \* mutant: main is not told
    /\ dispPc = "run" /\ curMsg # Nil
    /\ handled' = handled + 1
    /\ dispPc' = "select"
    /\ UNCHANGED <<stream, sent, main, mc, mcr, curMsg, iserr, paths,
                   poller, watch, signals, syms, exit>>

EndMsg ==
    /\ dispPc = "run" /\ curMsg # Nil
    /\ handled' = handled + 1
    /\ dispPc' = "reply"
    /\ UNCHANGED <<stream, sent, main, mc, mcr, curMsg, iserr, paths,
                   poller, watch, signals, syms, exit>>

Reply ==
    /\ dispPc = "reply" /\ mcr = None
    /\ mcr' = Nil
    /\ dispPc' = "select"
    /\ UNCHANGED <<stream, sent, main, mc, curMsg, iserr, paths, handled,
                   poller, watch, signals, syms, exit>>

Leave ==
    /\ dispPc = "leave"
    /\ exit' = iserr
    /\ UNCHANGED <<stream, sent, main, mc, mcr, dispatch, poller, watch,
                   signals, syms>>

\* The expression signal of a rule: true once for each signal counted.
RuleSignalKeeps(s) ==   \* mutant: the counter is not decremented
    /\ dispPc = "run" /\ nusr[s] > 0
    /\ used[s] < MaxSignals + 1
    /\ used' = [used EXCEPT ![s] = @ + 1]
    /\ UNCHANGED <<stream, sent, main, mc, mcr, dispatch, poller, watch,
                   sigc, nusr, raised, syms, exit>>
RuleSignalBlind(s) ==   \* mutant: the counter is decremented before the test
    /\ dispPc = "run"
    /\ nusr' = [nusr EXCEPT ![s] = @ - 1]
    /\ used' = [used EXCEPT ![s] = IF nusr[s] > 0 THEN @ + 1 ELSE @]
    /\ UNCHANGED <<stream, sent, main, mc, mcr, dispatch, poller, watch,
                   sigc, raised, syms, exit>>
RuleSignal(s) ==
    /\ dispPc = "run" /\ nusr[s] > 0
    /\ nusr' = [nusr EXCEPT ![s] = @ - 1]
    /\ used' = [used EXCEPT ![s] = @ + 1]
    /\ UNCHANGED <<stream, sent, main, mc, mcr, dispatch, poller, watch,
                   sigc, raised, syms, exit>>

\* A rule ends the process: the action crash, an error in its expression, or
\* the panic of a variable that is not there.
RuleExits ==
    /\ dispPc = "run"
    /\ exit' = 2
    /\ UNCHANGED <<stream, sent, main, mc, mcr, dispatch, poller, watch,
                   signals, syms>>

Iteration == EndPoll \/ EndMsg
Dispatcher == \/ RecvKickOff \/ RecvPath \/ RecvPoll \/ RecvMsg \/ RecvSignal
              \/ Iteration \/ Reply \/ Leave
              \/ RuleExits \/ \E s \in Counted : RuleSignal(s)
-----------------------------------------------------------------------------
(* The poller and the watcher.                                              *)

PollerWakes ==
    /\ poller = "sleep"
    /\ poller' = "recv"
    /\ UNCHANGED <<stream, sent, main, mc, mcr, dispatch, watch, signals, syms, exit>>

WatcherTakes(f) ==
    /\ hand = None /\ f \in inotify
    /\ hand' = f
    /\ inotify' = inotify \ {f}
    /\ UNCHANGED <<stream, sent, main, mc, mcr, dispatch, poller, pathsc, dirty,
                   signals, syms, exit>>

WatcherTriesOnce ==   \* mutant: a path that does not fit is thrown away
    /\ hand # None
    /\ pathsc' = IF Len(pathsc) < PathCap THEN Append(pathsc, hand) ELSE pathsc
    /\ hand' = None
    /\ UNCHANGED <<stream, sent, main, mc, mcr, dispatch, poller, inotify, dirty,
                   signals, syms, exit>>

WatcherSends ==
    /\ hand # None /\ Len(pathsc) < PathCap
    /\ pathsc' = Append(pathsc, hand)
    /\ hand' = None
    /\ UNCHANGED <<stream, sent, main, mc, mcr, dispatch, poller, inotify, dirty,
                   signals, syms, exit>>
-----------------------------------------------------------------------------
(* External: the monitor, the IDS and whoever sends signals.  inotify keeps *)
(* one event for the writes to a file that nobody has read yet.             *)

MonitorConnects ==
    /\ stream = "none"
    /\ stream' = "open"
    /\ UNCHANGED <<sent, main, mc, mcr, dispatch, poller, watch, signals, syms, exit>>

MonitorSends ==
    /\ stream = "open" /\ sent < MaxMsgs
    /\ sent' = sent + 1
    /\ UNCHANGED <<stream, main, mc, mcr, dispatch, poller, watch, signals, syms, exit>>

MonitorEnds ==
    /\ stream = "open"
    /\ stream' \in {"eof", "bad"}
    /\ UNCHANGED <<sent, main, mc, mcr, dispatch, poller, watch, signals, syms, exit>>

LogWrite(f) ==
    /\ inotify' = inotify \cup {f}
    /\ dirty' = dirty \cup {f}
    /\ UNCHANGED <<stream, sent, main, mc, mcr, dispatch, poller, pathsc, hand,
                   signals, syms, exit>>

\* signal.Notify does not block: with sigc full the signal is gone.
Raise(s) ==
    /\ raised[s] < MaxSignals
    /\ raised' = [raised EXCEPT ![s] = @ + 1]
    /\ sigc' = IF sigc = None THEN s ELSE sigc
    /\ UNCHANGED <<stream, sent, main, mc, mcr, dispatch, poller, watch,
                   nusr, used, syms, exit>>

World == \/ MonitorConnects \/ MonitorSends \/ MonitorEnds
         \/ \E f \in Files : LogWrite(f)
         \/ \E s \in Signals : Raise(s)
-----------------------------------------------------------------------------
Exited == exit # Running /\ UNCHANGED vars

Next == \/ /\ exit = Running
           /\ \/ Main \/ Dispatcher
              \/ PollerWakes
              \/ WatcherSends \/ \E f \in Files : WatcherTakes(f)
              \/ World \/ SetUpFails
        \/ Exited

Spec == Init /\ [][Next]_vars

(***************************************************************************)
(* Fairness.  A goroutine that can run does; a select takes, among the      *)
(* cases that are ready, one at random, so that a case ready again and      *)
(* again is taken (strong fairness); iterations end, as they do if the      *)
(* external programs do; the kernel queues events in order.  Nothing is     *)
(* assumed of the monitor, the IDS or the signals, nor that main fails.     *)
(***************************************************************************)
Fairness ==
    /\ WF_vars(exit = Running /\ Main)
    /\ WF_vars(exit = Running /\ (RecvKickOff \/ Iteration \/ Reply \/ Leave))
    /\ SF_vars(exit = Running /\ RecvPath)
    /\ SF_vars(exit = Running /\ RecvPoll)
    /\ SF_vars(exit = Running /\ RecvMsg)
    /\ SF_vars(exit = Running /\ RecvSignal)
    /\ WF_vars(exit = Running /\ PollerWakes)
    /\ WF_vars(exit = Running /\ WatcherSends)
    /\ \A f \in Files : SF_vars(exit = Running /\ WatcherTakes(f))

LiveSpec == Spec /\ Fairness
-----------------------------------------------------------------------------
(* Properties.                                                              *)

TypeOK ==
    /\ stream \in {"none", "open", "eof", "bad"}
    /\ sent \in Nat /\ decoded \in Nat /\ handled \in Nat
    /\ mainPc \in {"accept", "boot", "kickoff", "decode", "send", "ack",
                   "final", "return", "done"}
    /\ mc \in {None} \cup Nat /\ mcr \in {None, Nil}
    /\ dispPc \in {"kickoff", "select", "run", "reply", "leave"}
    /\ curMsg \in Nat /\ iserr \in {0, 1}
    /\ poller \in {"recv", "sleep"}
    /\ paths \subseteq Files /\ inotify \subseteq Files /\ dirty \subseteq Files
    /\ pathsc \in Seq(Files) /\ Len(pathsc) <= PathCap
    /\ hand \in Files \cup {None}
    /\ sigc \in Signals \cup {None}
    /\ nusr \in [Counted -> Nat] /\ used \in [Counted -> Nat]
    /\ raised \in [Signals -> Nat]
    /\ syms \in BOOLEAN
    /\ exit \in {Running, 0, 1, 2}

\* The kick-off keeps the dispatcher, which shares the context and the symbols
\* with main without a lock, out of them until main has set them up.
ContextOwned == mainPc \in {"accept", "boot"} => dispPc = "kickoff"

\* Every write to a log of the IDS is on its way to a poll that will search the
\* file after it: with the watcher, in a channel, or in the paths of the next
\* poll.  The one that is running may have searched the file already.
Queued(chan) == {chan[i] : i \in DOMAIN chan}
OnTheWay == inotify \cup {hand} \cup Queued(pathsc)
NoWriteMissed ==
    dirty \subseteq OnTheWay \cup (IF dispPc = "run" /\ curMsg = Nil THEN {} ELSE paths)

\* No signal makes the expression signal true twice, wherever it is meanwhile.
\* It is an upper bound only: the documentation says that signals are not lost
\* (doc/tech/tech.tex:1199-1202), but one that arrives when sigc is full is.
Pending(s) == nusr[s] + (IF sigc = s THEN 1 ELSE 0)
SignalOnce == \A s \in Counted : used[s] + Pending(s) <= raised[s]

\* The engine implements the event loop: order, once each, nothing cut short,
\* and a normal exit only with everything done.
EL == INSTANCE EventLoop WITH
        ended   <- stream \in {"eof", "bad"},
        running <- IF dispPc # "run" THEN "no"
                   ELSE IF curMsg = Nil THEN "external" ELSE "message"
ImplementsEventLoop == EL!Spec

\* When the stream ends main pops the symbols of the program without asking the
\* dispatcher (rips.go:221), so that a rule may find no variable and panic; but
\* that can be a poll only, and no message is left without its iteration.
OnlyFinalPolls ==
    dispPc = "run" /\ ~syms => stream = "eof" /\ handled = sent /\ curMsg = Nil

\* Liveness.  Each of them ends well too when the process exits.
Ends == exit # Running

\* A message is handled, whatever else goes on.
MsgsHandled == \A n \in Msg : sent >= n /\ mainPc # "accept" ~> handled >= n \/ Ends

\* Once the monitor has connected, a poll looks at every file written.
WritesSeen ==
    \A f \in Files : f \in dirty /\ mainPc # "accept" ~> f \notin dirty \/ Ends

\* The process does not outlive its monitor, ...
Terminates == stream \in {"eof", "bad"} ~> Ends

\* ... and a signal that got into the channel ends it.
SignalObeyed == \A s \in Ending : sigc = s /\ mainPc # "accept" ~> Ends

\* The rules for external events run for ever, whatever the load.
PollsForever ==
    []<>(Ends \/ mainPc = "accept" \/ (dispPc = "run" /\ curMsg = Nil))
=============================================================================
