--------------------------- MODULE Engine_proofs ---------------------------
(***************************************************************************)
(* Theorems about Engine, for any files, signals, capacity of the channel   *)
(* of paths and number of messages.                                         *)
(***************************************************************************)
EXTENDS Engine, TLAPS

\* The dispatcher has a message in hand that main waits for.
Busy == dispPc = "reply" \/ (dispPc = "run" /\ curMsg # Nil)

\* While main waits for the answer to a message, the message is in mc, or in an
\* iteration, or its answer is about to be sent or in mcr.
Answer ==
    \/ mc = decoded /\ decoded = handled + 1 /\ mcr = None /\ ~Busy
    \/ mc = None /\ decoded = handled + 1 /\ mcr = None
       /\ dispPc = "run" /\ curMsg = decoded
    \/ mc = None /\ decoded = handled /\ mcr = None /\ dispPc = "reply"
    \/ mc = None /\ decoded = handled /\ mcr = Nil /\ ~Busy

\* The agreement of main and the dispatcher over mc and mcr.
Protocol ==
    /\ decoded <= sent
    /\ iserr = 1 => dispPc = "leave"
    /\ dispPc = "leave" => iserr = 1 \/ mainPc \in {"return", "done"}
    /\ mainPc \in {"accept", "boot", "kickoff"} =>
         dispPc = "kickoff" /\ mc = None /\ decoded = 0
    /\ dispPc = "kickoff" =>
         /\ handled = 0
         /\ mainPc \notin {"ack", "return", "done"}
         /\ mainPc \in {"decode", "send", "final"} => mc = Nil
    /\ mainPc = "ack" => Answer
    /\ mainPc # "ack" => mcr = None /\ ~Busy
    /\ mainPc = "send" => decoded = handled + 1
    /\ mainPc \notin {"send", "ack"} => decoded = handled
    /\ mainPc \in {"decode", "send", "final"} /\ dispPc # "kickoff" => mc = None
    /\ mainPc \in {"return", "done"} => mc = Nil \/ (mc = None /\ dispPc = "leave")
    /\ mainPc \in {"final", "return", "done"} =>
         stream \in {"eof", "bad"} /\ decoded = sent
    /\ ~syms => mainPc = "done" /\ stream = "eof"

\* The inductive invariant.
IInv == TypeOK /\ Protocol /\ NoWriteMissed /\ SignalOnce

Step == exit = Running /\ Next
-----------------------------------------------------------------------------
\* What is in a sequence after Append, and what Head and Tail part.
LEMMA AppendRange ==
    ASSUME NEW S, NEW s \in Seq(S), NEW x \in S
    PROVE  Queued(Append(s, x)) = Queued(s) \cup {x}
<1>1. DOMAIN s = 1..Len(s) /\ DOMAIN Append(s, x) = 1..(Len(s) + 1) /\ Len(s) \in Nat
  OBVIOUS
<1>2. \A i \in 1..Len(s) : Append(s, x)[i] = s[i]
  OBVIOUS
<1>3. Append(s, x)[Len(s) + 1] = x
  OBVIOUS
<1>4. \A i \in 1..(Len(s) + 1) : i \in 1..Len(s) \/ i = Len(s) + 1
  BY <1>1
<1>5. 1..Len(s) \subseteq 1..(Len(s) + 1) /\ Len(s) + 1 \in 1..(Len(s) + 1)
  BY <1>1
<1> QED
  BY <1>1, <1>2, <1>3, <1>4, <1>5, Zenon DEF Queued

LEMMA TailRange ==
    ASSUME NEW S, NEW s \in Seq(S), s # <<>>
    PROVE  Queued(s) \subseteq {Head(s)} \cup Queued(Tail(s))
<1> SUFFICES ASSUME NEW i \in DOMAIN s, s[i] # Head(s)
             PROVE  \E j \in DOMAIN Tail(s) : s[i] = Tail(s)[j]
  BY DEF Queued
<1>1. i \in 2..Len(s) /\ Len(s) \in Nat
  OBVIOUS
<1>2. i - 1 \in DOMAIN Tail(s) /\ Tail(s)[i - 1] = s[i]
  BY <1>1
<1> QED
  BY <1>2

-----------------------------------------------------------------------------
\* Types, one step for each action.
LEMMA TypeStep == ASSUME TypeOK, Step PROVE TypeOK'
<1> USE EngineAssumption DEF TypeOK, main, dispatch, watch, signals, Signals, Msg,
        Nil, Running, Step
<1>1. CASE Accept
  BY <1>1 DEF Accept
<1>2. CASE Boot
  BY <1>2 DEF Boot
<1>3. CASE KickOff
  BY <1>3 DEF KickOff
<1>4. CASE Decode
  BY <1>4 DEF Decode
<1>5. CASE DecodeFails
  BY <1>5 DEF DecodeFails
<1>6. CASE SendMsg
  BY <1>6 DEF SendMsg
<1>7. CASE RecvAck
  BY <1>7 DEF RecvAck
<1>8. CASE SendFinal
  BY <1>8 DEF SendFinal
<1>9. CASE ReturnError
  BY <1>9 DEF ReturnError
<1>10. CASE ReturnEOF
  BY <1>10 DEF ReturnEOF
<1>11. CASE MainExits
  BY <1>11 DEF MainExits
<1>12. CASE RecvPath
  BY <1>12 DEF RecvPath
<1>13. CASE RecvKickOff
  BY <1>13 DEF RecvKickOff
<1>14. CASE RecvPoll
  BY <1>14 DEF RecvPoll
<1>15. CASE RecvMsg
  BY <1>15 DEF RecvMsg
<1>16. CASE RecvSignal
  BY <1>16 DEF RecvSignal
<1>17. CASE EndPoll
  BY <1>17 DEF EndPoll
<1>18. CASE EndMsg
  BY <1>18 DEF EndMsg
<1>19. CASE Reply
  BY <1>19 DEF Reply
<1>20. CASE Leave
  BY <1>20 DEF Leave
<1>21. CASE RuleExits
  BY <1>21 DEF RuleExits
<1>22. ASSUME NEW s \in Counted, RuleSignal(s) PROVE TypeOK'
  BY <1>22 DEF RuleSignal
<1>23. CASE PollerWakes
  BY <1>23 DEF PollerWakes
<1>24. ASSUME NEW f \in Files, WatcherTakes(f) PROVE TypeOK'
  BY <1>24 DEF WatcherTakes
<1>25. CASE WatcherSends
  BY <1>25 DEF WatcherSends
<1>26. CASE MonitorConnects
  BY <1>26 DEF MonitorConnects
<1>27. CASE MonitorSends
  BY <1>27 DEF MonitorSends
<1>28. CASE MonitorEnds
  BY <1>28 DEF MonitorEnds
<1>29. ASSUME NEW f \in Files, LogWrite(f) PROVE TypeOK'
  BY <1>29 DEF LogWrite
<1>30. ASSUME NEW s \in Signals, Raise(s) PROVE TypeOK'
  BY <1>30 DEF Raise
<1>31. CASE SetUpFails
  BY <1>31 DEF SetUpFails
<1> QED
  BY <1>1, <1>2, <1>3, <1>4, <1>5, <1>6, <1>7, <1>8, <1>9, <1>10, <1>11, <1>12,
     <1>13, <1>14, <1>15, <1>16, <1>17, <1>18, <1>19, <1>20, <1>21, <1>22, <1>23,
     <1>24, <1>25, <1>26, <1>27, <1>28, <1>29, <1>30, <1>31
     DEF Next, Main, Dispatcher, Iteration, World, Exited

\* main and the dispatcher keep to the protocol, one step for each operation on
\* a channel; the others do not touch it.
LEMMA ProtocolStep == ASSUME TypeOK, Protocol, Step PROVE Protocol'
<1> USE EngineAssumption DEF TypeOK, Protocol, Busy, Answer, main, dispatch, watch,
        signals, Nil, Step
<1>1. CASE Accept \/ Boot \/ KickOff \/ SetUpFails
  BY <1>1 DEF Accept, Boot, KickOff, SetUpFails
<1>2. CASE Decode \/ DecodeFails
  BY <1>2 DEF Decode, DecodeFails
<1>3. CASE SendMsg
  BY <1>3 DEF SendMsg
<1>4. CASE RecvAck
  BY <1>4 DEF RecvAck
<1>5. CASE SendFinal \/ ReturnError \/ ReturnEOF \/ MainExits
  BY <1>5 DEF SendFinal, ReturnError, ReturnEOF, MainExits
<1>6. CASE RecvKickOff \/ RecvPath
  BY <1>6 DEF RecvKickOff, RecvPath
<1>7. CASE RecvPoll
  BY <1>7 DEF RecvPoll
<1>8. CASE RecvMsg
  BY <1>8 DEF RecvMsg
<1>9. CASE RecvSignal
  BY <1>9 DEF RecvSignal
<1>10. CASE EndPoll
  BY <1>10 DEF EndPoll
<1>11. CASE EndMsg
  BY <1>11 DEF EndMsg
<1>12. CASE Reply
  BY <1>12 DEF Reply
<1>13. CASE Leave \/ RuleExits \/ \E s \in Counted : RuleSignal(s)
  BY <1>13 DEF Leave, RuleExits, RuleSignal
<1>14. CASE PollerWakes \/ WatcherSends \/ \E f \in Files : WatcherTakes(f)
  BY <1>14 DEF PollerWakes, WatcherSends, WatcherTakes
<1>15. CASE World
  BY <1>15 DEF World, MonitorConnects, MonitorSends, MonitorEnds, LogWrite, Raise
<1> QED
  BY <1>1, <1>2, <1>3, <1>4, <1>5, <1>6, <1>7, <1>8, <1>9, <1>10, <1>11, <1>12,
     <1>13, <1>14, <1>15 DEF Next, Main, Dispatcher, Iteration, Exited

\* A file written stays on its way to a poll, one step for each hand it is in.
LEMMA WritesStep == ASSUME TypeOK, NoWriteMissed, Step PROVE NoWriteMissed'
<1> USE EngineAssumption DEF TypeOK, NoWriteMissed, OnTheWay, main, dispatch, watch,
        signals, Step
<1>1. CASE UNCHANGED <<watch, dispPc, curMsg, paths>>
  BY <1>1
<1>2. CASE RecvPath
  <2>0. pathsc \in Seq(Files) /\ pathsc # <<>> /\ pathsc' = Tail(pathsc)
    BY <1>2 DEF RecvPath
  <2>1. Queued(pathsc) \subseteq {Head(pathsc)} \cup Queued(pathsc')
    BY <2>0, TailRange
  <2> QED
    BY <1>2, <2>1 DEF RecvPath
<1>3. CASE RecvKickOff \/ RecvPoll \/ RecvMsg
  BY <1>3 DEF RecvKickOff, RecvPoll, RecvMsg
<1>4. CASE RecvSignal
  BY <1>4 DEF RecvSignal
<1>5. CASE EndPoll \/ EndMsg \/ Reply
  BY <1>5 DEF EndPoll, EndMsg, Reply
<1>6. CASE WatcherSends
  <2>0. pathsc \in Seq(Files) /\ hand \in Files /\ pathsc' = Append(pathsc, hand)
    BY <1>6 DEF WatcherSends
  <2>1. Queued(pathsc') = Queued(pathsc) \cup {hand}
    BY <2>0, AppendRange
  <2> QED
    BY <1>6, <2>1 DEF WatcherSends
<1>7. ASSUME NEW f \in Files, WatcherTakes(f) PROVE NoWriteMissed'
  BY <1>7 DEF WatcherTakes
<1>8. ASSUME NEW f \in Files, LogWrite(f) PROVE NoWriteMissed'
  BY <1>8 DEF LogWrite
<1>9. CASE Main
  BY <1>1, <1>9 DEF Main, Accept, Boot, KickOff, Decode, DecodeFails, SendMsg, RecvAck,
     SendFinal, ReturnError, ReturnEOF, MainExits
<1>10. CASE Leave \/ RuleExits \/ (\E s \in Counted : RuleSignal(s)) \/ PollerWakes
  BY <1>1, <1>10 DEF Leave, RuleExits, RuleSignal, PollerWakes
<1>11. CASE MonitorConnects \/ MonitorSends \/ MonitorEnds \/ SetUpFails
            \/ \E s \in Signals : Raise(s)
  BY <1>1, <1>11 DEF MonitorConnects, MonitorSends, MonitorEnds, SetUpFails, Raise
<1> QED
  BY <1>2, <1>3, <1>4, <1>5, <1>6, <1>7, <1>8, <1>9, <1>10, <1>11
     DEF Next, Dispatcher, Iteration, World, Exited

\* A signal raised moves from the channel to a counter to the rules.
LEMMA SignalTypes ==
    ASSUME TypeOK, NEW t \in Counted
    PROVE  t # None /\ nusr[t] \in Nat /\ used[t] \in Nat /\ raised[t] \in Nat
BY EngineAssumption DEF TypeOK, Signals

LEMMA SignalCounted == ASSUME TypeOK, SignalOnce, RecvSignal PROVE SignalOnce'
<1>1. nusr \in [Counted -> Nat]
  BY DEF TypeOK
<1>2. \A t \in Counted : nusr'[t] = IF sigc = t THEN nusr[t] + 1 ELSE nusr[t]
  BY <1>1 DEF RecvSignal
<1>3. sigc' = None /\ used' = used /\ raised' = raised
  BY DEF RecvSignal
<1>4. ASSUME NEW t \in Counted PROVE Pending(t)' = Pending(t)
  <2>1. t # None /\ nusr[t] \in Nat
    BY SignalTypes
  <2> QED
    BY <1>2, <1>3, <2>1 DEF Pending
<1> QED
  BY <1>3, <1>4 DEF SignalOnce

LEMMA SignalConsumed ==
    ASSUME TypeOK, SignalOnce, NEW s \in Counted, RuleSignal(s) PROVE SignalOnce'
<1>1. nusr \in [Counted -> Nat] /\ used \in [Counted -> Nat]
  BY DEF TypeOK
<1>2. \A t \in Counted : /\ nusr'[t] = IF s = t THEN nusr[t] - 1 ELSE nusr[t]
                         /\ used'[t] = IF s = t THEN used[t] + 1 ELSE used[t]
  BY <1>1 DEF RuleSignal
<1>3. sigc' = sigc /\ raised' = raised
  BY DEF RuleSignal
<1>4. ASSUME NEW t \in Counted PROVE used'[t] + Pending(t)' = used[t] + Pending(t)
  <2>1. nusr[t] \in Nat /\ used[t] \in Nat
    BY SignalTypes
  <2> QED
    BY <1>2, <1>3, <2>1 DEF Pending
<1> QED
  BY <1>3, <1>4 DEF SignalOnce

LEMMA SignalsStep == ASSUME TypeOK, SignalOnce, Step PROVE SignalOnce'
<1> USE EngineAssumption DEF TypeOK, SignalOnce, Pending, main, dispatch, watch,
        signals, Signals, Step
<1>1. CASE UNCHANGED signals
  BY <1>1
<1>2. CASE RecvSignal
  BY <1>2, SignalCounted
<1>3. ASSUME NEW s \in Counted, RuleSignal(s) PROVE SignalOnce'
  BY <1>3, SignalConsumed
<1>4. ASSUME NEW s \in Signals, Raise(s) PROVE SignalOnce'
  BY <1>4 DEF Raise
<1>5. CASE Main
  BY <1>1, <1>5 DEF Main, Accept, Boot, KickOff, Decode, DecodeFails, SendMsg, RecvAck,
     SendFinal, ReturnError, ReturnEOF, MainExits
<1>6. CASE RecvKickOff \/ RecvPath \/ RecvPoll \/ RecvMsg \/ Iteration \/ Reply
           \/ Leave \/ RuleExits
  BY <1>1, <1>6 DEF RecvKickOff, RecvPath, RecvPoll, RecvMsg, Iteration, EndPoll,
     EndMsg, Reply, Leave, RuleExits
<1>7. CASE PollerWakes \/ WatcherSends \/ \E f \in Files : WatcherTakes(f)
  BY <1>1, <1>7 DEF PollerWakes, WatcherSends, WatcherTakes
<1>8. CASE MonitorConnects \/ MonitorSends \/ MonitorEnds \/ SetUpFails
           \/ \E f \in Files : LogWrite(f)
  BY <1>1, <1>8 DEF MonitorConnects, MonitorSends, MonitorEnds, SetUpFails, LogWrite
<1> QED
  BY <1>2, <1>3, <1>4, <1>5, <1>6, <1>7, <1>8 DEF Next, Dispatcher, World, Exited

LEMMA InitOK == Init => IInv
<1> SUFFICES ASSUME Init PROVE IInv
  OBVIOUS
<1> USE EngineAssumption DEF Init, Nil, Running
<1>1. TypeOK
  BY DEF TypeOK, Signals
<1>2. Protocol
  BY DEF Protocol, Busy
<1>3. NoWriteMissed /\ SignalOnce
  BY DEF NoWriteMissed, SignalOnce, Pending, Signals
<1> QED
  BY <1>1, <1>2, <1>3 DEF IInv

LEMMA StepOK == IInv /\ [Next]_vars => IInv'
<1> SUFFICES ASSUME IInv, [Next]_vars PROVE IInv'
  OBVIOUS
<1>1. CASE Step
  BY <1>1, TypeStep, ProtocolStep, WritesStep, SignalsStep DEF IInv
<1>2. CASE UNCHANGED vars
  BY <1>2 DEF vars, main, dispatch, watch, signals, IInv, TypeOK, Protocol, Busy,
     Answer, NoWriteMissed, OnTheWay, SignalOnce, Pending
<1> QED
  BY <1>1, <1>2 DEF Next, Step, Exited

\* The kick-off keeps main and the dispatcher apart, no write to a log of the IDS
\* is missed, and no signal is seen twice, in any interleaving.
THEOREM EngineSafe ==
    Spec => [](TypeOK /\ ContextOwned /\ NoWriteMissed /\ SignalOnce /\ OnlyFinalPolls)
<1>1. IInv => TypeOK /\ ContextOwned /\ NoWriteMissed /\ SignalOnce
  BY DEF IInv, Protocol, ContextOwned
<1>2. IInv => OnlyFinalPolls
  BY DEF IInv, TypeOK, Protocol, Busy, OnlyFinalPolls
<1> QED
  BY InitOK, StepOK, <1>1, <1>2, PTL DEF Spec
-----------------------------------------------------------------------------
\* Every step of the engine is a step of the event loop, or none.
LEMMA EventLoopStep == IInv /\ [Next]_vars => [EL!Next]_(EL!vars)
<1> SUFFICES ASSUME TypeOK, Protocol, [Next]_vars PROVE [EL!Next]_(EL!vars)
  BY DEF IInv
<1> DEFINE running == IF dispPc # "run" THEN "no"
                      ELSE IF curMsg = Nil THEN "external" ELSE "message"
           ended == stream \in {"eof", "bad"}
<1> USE DEF EL!Next, EL!vars, EL!Running, Running, main, dispatch, watch, signals
<1>1. CASE UNCHANGED <<stream, sent, handled, dispPc, curMsg, exit>>
  BY <1>1
<1>2. ASSUME exit = Running, MonitorSends PROVE EL!Send
  BY <1>2 DEF MonitorSends, EL!Send
<1>3. ASSUME exit = Running, MonitorEnds PROVE EL!End
  BY <1>3 DEF MonitorEnds, EL!End
<1>4. CASE MonitorConnects
  BY <1>4 DEF MonitorConnects
<1>5. ASSUME RecvPoll PROVE EL!StartExternal
  BY <1>5 DEF RecvPoll, EL!StartExternal
<1>6. ASSUME EndPoll PROVE EL!FinishExternal
  BY <1>6 DEF EndPoll, EL!FinishExternal
<1>7. ASSUME RecvMsg, mc # Nil PROVE EL!StartMessage
  <2>1. mc = decoded /\ decoded = handled + 1 /\ decoded <= sent
    BY <1>7, EngineAssumption DEF RecvMsg, TypeOK, Protocol, Answer, Busy
  <2> QED
    BY <1>7, <2>1 DEF RecvMsg, TypeOK, EL!StartMessage
<1>8. CASE RecvMsg /\ mc = Nil
  BY <1>8 DEF RecvMsg
<1>9. ASSUME EndMsg PROVE EL!FinishMessage
  BY <1>9 DEF EndMsg, EL!FinishMessage
<1>10. CASE RecvKickOff \/ RecvPath \/ RecvSignal \/ Reply
  BY <1>10 DEF RecvKickOff, RecvPath, RecvSignal, Reply
<1>11. ASSUME SetUpFails \/ ReturnError \/ MainExits \/ Leave \/ RuleExits PROVE EL!Exit
  BY <1>11 DEF SetUpFails, ReturnError, MainExits, Leave, RuleExits, TypeOK, Protocol, Busy,
     EL!Exit
<1>12. CASE Accept \/ Boot \/ KickOff \/ Decode \/ DecodeFails \/ SendMsg \/ RecvAck
            \/ SendFinal \/ ReturnEOF
  BY <1>1, <1>12 DEF Accept, Boot, KickOff, Decode, DecodeFails, SendMsg, RecvAck,
     SendFinal, ReturnEOF
<1>13. CASE PollerWakes \/ WatcherSends \/ (\E f \in Files : WatcherTakes(f))
            \/ (\E s \in Counted : RuleSignal(s))
  BY <1>1, <1>13 DEF PollerWakes, WatcherSends, WatcherTakes, RuleSignal
<1>14. CASE (\E f \in Files : LogWrite(f)) \/ (\E s \in Signals : Raise(s))
  BY <1>1, <1>14 DEF LogWrite, Raise
<1> QED
  BY <1>1, <1>2, <1>3, <1>4, <1>5, <1>6, <1>7, <1>8, <1>9, <1>10, <1>11, <1>12, <1>13,
     <1>14 DEF Next, Main, Dispatcher, Iteration, World, Exited, vars

\* The engine implements the event loop: each message gets one iteration, in
\* order, that nothing but its rules cuts short, and a normal exit leaves none.
THEOREM EngineRefines == Spec => ImplementsEventLoop
<1>1. Init => EL!Init
  BY DEF Init, EL!Init, Running, EL!Running
<1> QED
  BY InitOK, StepOK, <1>1, EventLoopStep, PTL DEF Spec, EL!Spec, ImplementsEventLoop
=============================================================================
