------------------------- MODULE DebugSessionProofs -------------------------
(***************************************************************************)
(* Which debug sessions can be left open, for any number of calls.         *)
(***************************************************************************)
EXTENDS DebugSession, Functions, TLAPS

(* What a queue holds, and that it holds nothing twice, after its head is  *)
(* taken ...                                                               *)
LEMMA TailHolds ==
  ASSUME NEW T, NEW s \in Seq(T), s # <<>>
  PROVE  /\ Head(s) \in T /\ Tail(s) \in Seq(T)
         /\ Range(s) = {Head(s)} \cup Range(Tail(s))
         /\ IsInjective(s) => Head(s) \notin Range(Tail(s)) /\ IsInjective(Tail(s))
<1>1. /\ Tail(s) \in Seq(T) /\ Len(s) \in Nat \ {0} /\ DOMAIN s = 1 .. Len(s)
      /\ DOMAIN Tail(s) = 1 .. Len(s) - 1 /\ Head(s) = s[1]
      /\ \A i \in 1 .. Len(s) - 1 : Tail(s)[i] = s[i + 1]
  OBVIOUS
<1>2. \A i \in 1 .. Len(s) : i = 1 \/ (i - 1 \in 1 .. Len(s) - 1 /\ Tail(s)[i - 1] = s[i])
  BY <1>1
<1>3. \A i \in 1 .. Len(s) - 1 : i + 1 \in 1 .. Len(s) /\ i + 1 # 1 /\ i + 1 - 1 = i
  BY <1>1
<1>4. Range(s) = {Head(s)} \cup Range(Tail(s))
  <2>1. ASSUME NEW x \in Range(s) PROVE x \in {Head(s)} \cup Range(Tail(s))
    <3>1. PICK i \in 1 .. Len(s) : x = s[i]
      BY <1>1 DEF Range
    <3> QED
      BY <1>1, <1>2, <3>1 DEF Range
  <2>2. Head(s) \in Range(s) /\ \A x \in Range(Tail(s)) : x \in Range(s)
    BY <1>1, <1>3 DEF Range
  <2> QED
    BY <2>1, <2>2
<1>5. IsInjective(s) => Head(s) \notin Range(Tail(s)) /\ IsInjective(Tail(s))
  BY <1>1, <1>3 DEF Range, IsInjective
<1> QED
  BY <1>1, <1>4, <1>5

(* ... and after an element is added.                                      *)
LEMMA AppendHolds ==
  ASSUME NEW T, NEW s \in Seq(T), NEW e \in T
  PROVE  /\ Append(s, e) \in Seq(T) /\ Range(Append(s, e)) = Range(s) \cup {e}
         /\ IsInjective(s) /\ e \notin Range(s) => IsInjective(Append(s, e))
<1>1. /\ Append(s, e) \in Seq(T) /\ Len(s) \in Nat /\ DOMAIN s = 1 .. Len(s)
      /\ DOMAIN Append(s, e) = 1 .. Len(s) + 1 /\ Append(s, e)[Len(s) + 1] = e
      /\ \A i \in 1 .. Len(s) : Append(s, e)[i] = s[i]
  OBVIOUS
<1>2. \A i \in 1 .. Len(s) + 1 : i \in 1 .. Len(s) \/ i = Len(s) + 1
  BY <1>1
<1>3. Range(Append(s, e)) = Range(s) \cup {e}
  BY <1>1, <1>2 DEF Range
<1>4. IsInjective(s) /\ e \notin Range(s) => IsInjective(Append(s, e))
  BY <1>1, <1>2 DEF Range, IsInjective
<1> QED
  BY <1>1, <1>3, <1>4

(* An empty one holds nothing.                                             *)
LEMMA EmptyHolds == Range(<<>>) = {} /\ IsInjective(<<>>)
  BY DEF Range, IsInjective

(* What the argument needs of the types.                                   *)
KeptType ==
  /\ current \in Calls \cup {None}
  /\ lockq \in Seq(Calls)
  /\ op \in [Calls -> Ops \cup {None}]
  /\ pc \in [Calls -> Waits]
  /\ on \in [Calls -> Calls \cup {None}]
  /\ result \in [Calls -> Answers \cup {None}]
  /\ target \in [Calls -> {"none", "open", "closing"}]
  /\ wired \in [Calls -> BOOLEAN]
  /\ displaced \in SUBSET Calls
  /\ unread \in SUBSET Calls

(* Awaits before a call has a session, those of a call that sets one up,   *)
(* and those only a trace comes to.                                        *)
Early == {"new", "lock", "closeOld", "build"}
Setup == {"build", "buildWire", "init", "attach", "userBp", "entryBp", "onlyBp"}
TraceWaits == {"preflight", "step", "values", "collect", "collecting", "collected",
               "closing"}

(* The lock belongs to one start: the first of those under way.            *)
LockInv ==
  /\ IsInjective(lockq)
  /\ Range(lockq) = {c \in Calls : op[c] = "start" /\ pc[c] # "done"}
  /\ \A c \in Calls :
       op[c] = "start" /\ pc[c] \notin {"lock", "done"} => Head(lockq) = c

(* Where a call is tells what it is.                                       *)
CallInv ==
  \A c \in Calls :
    /\ pc[c] = "new" <=> op[c] = None
    /\ pc[c] \in {"lock", "closeOld"} => op[c] = "start"
    /\ pc[c] \in Setup => op[c] \in {"start", "trace"}
    /\ pc[c] \in TraceWaits => op[c] = "trace"
    /\ pc[c] = "ask" => op[c] = "ask"
    /\ pc[c] \notin {"new", "done"} => op[c] # "stop"
    /\ result[c] # None => pc[c] = "done"

(* A session exists once its creator is past connecting, and others work   *)
(* on it only then.                                                        *)
OwnInv ==
  /\ current # None => wired[current] /\ target[current] = "open"
  /\ \A c \in Calls :
       /\ pc[c] \in Early => target[c] = "none" /\ on[c] = None
       /\ pc[c] = "buildWire" => target[c] = "open"
       /\ pc[c] \in Early \cup {"buildWire"} => ~wired[c]
       /\ pc[c] \notin Early \cup {"done"} => on[c] # None
       /\ on[c] # None => on[c] = c \/ wired[on[c]]
       /\ op[c] \in {"start", "trace"} => on[c] \in {c, None}
       /\ wired[c] => on[c] = c

(* While a start connects, the current session can only be a trace's.      *)
ConnectingInv ==
  \A c \in Calls :
    op[c] = "start" /\ pc[c] \in {"closeOld", "build", "buildWire"} =>
      current = None \/ op[current] = "trace"

(* A trace stops its session before it returns.                            *)
TraceInv ==
  \A c \in Calls :
    op[c] = "trace" /\ wired[c] /\ pc[c] \in {"closing", "done"} =>
      target[c] = "closing"

(* An open session that is not current was displaced by a trace, or is     *)
(* that of a trace, which will stop it.                                    *)
OpenInv ==
  \A s \in Calls :
    target[s] = "open" /\ wired[s] /\ s # current =>
      s \in displaced \/ (op[s] = "trace" /\ pc[s] # "done")

ReleaseInv ==
  /\ KeptType /\ LockInv /\ CallInv /\ OwnInv /\ ConnectingInv /\ TraceInv
  /\ OpenInv /\ EndedIsReleased
-----------------------------------------------------------------------------
(* The first of the starts under way may give the lock on.                 *)
LEMMA LockPasses ==
  ASSUME ReleaseInv, NEW c \in Calls, op[c] = "start", pc[c] \notin {"lock", "done"}
  PROVE  /\ Tail(lockq) \in Seq(Calls) /\ IsInjective(Tail(lockq))
         /\ Range(Tail(lockq)) = Range(lockq) \ {c}
<1>1. lockq # <<>> /\ Head(lockq) = c
  BY EmptyHolds DEF ReleaseInv, KeptType, LockInv
<1>2. QED BY <1>1, TailHolds DEF ReleaseInv, KeptType, LockInv

(* A call that is answered, and is not waiting for the lock, keeps the lock *)
(* in order.                                                               *)
LEMMA Answered ==
  ASSUME ReleaseInv, NEW c \in Calls, NEW a \in Answers,
         pc[c] \notin {"lock", "done"}, Answer(c, a), op' = op
  PROVE  /\ lockq' \in Seq(Calls) /\ LockInv'
         /\ pc' = [pc EXCEPT ![c] = "done"] /\ pc' \in [Calls -> Waits]
         /\ result' = [result EXCEPT ![c] = a]
         /\ result' \in [Calls -> Answers \cup {None}]
<1>1. /\ pc' = [pc EXCEPT ![c] = "done"] /\ pc' \in [Calls -> Waits]
      /\ result' = [result EXCEPT ![c] = a]
      /\ result' \in [Calls -> Answers \cup {None}]
  BY DEF Answer, Goto, ReleaseInv, KeptType, Waits
<1>2. CASE op[c] = "start"
  <2>1. lockq' = Tail(lockq)
    BY <1>2 DEF Answer
  <2>2. /\ lockq' \in Seq(Calls) /\ IsInjective(lockq')
        /\ Range(lockq') = Range(lockq) \ {c}
    BY <1>2, <2>1, LockPasses
  <2>3. \A d \in Calls : op[d] = "start" /\ pc[d] \notin {"lock", "done"} => d = c
    BY <1>2 DEF ReleaseInv, LockInv
  <2>4. QED BY <1>1, <1>2, <2>2, <2>3 DEF ReleaseInv, KeptType, LockInv
<1>3. CASE op[c] # "start"
  <2>1. lockq' = lockq
    BY <1>3 DEF Answer
  <2>2. QED BY <1>1, <1>3, <2>1 DEF ReleaseInv, KeptType, LockInv
<1>4. QED BY <1>1, <1>2, <1>3

(* A call that stops its session and is answered leaves it released.       *)
LEMMA StoppedAndAnswered ==
  ASSUME ReleaseInv, NEW c \in Calls, NEW a \in Answers, NEW w,
         pc[c] \notin Early \cup {"buildWire", "done"},
         Stop(on[c], w), Answer(c, a), UNCHANGED <<op, on, wired, unread, displaced>>
  PROVE  ReleaseInv'
<1>1. /\ lockq' \in Seq(Calls) /\ LockInv'
      /\ pc' = [pc EXCEPT ![c] = "done"] /\ pc' \in [Calls -> Waits]
      /\ result' = [result EXCEPT ![c] = a]
      /\ result' \in [Calls -> Answers \cup {None}]
  BY Answered DEF Early
<1>2. on[c] \in Calls
  BY DEF ReleaseInv, KeptType, OwnInv
<1>3. /\ current' = IF current = on[c] THEN None ELSE current
      /\ target' = [target EXCEPT ![on[c]] = "closing"]
  BY DEF Stop
<1> USE DebugAssumption DEF ReleaseInv, KeptType, Early, Setup, TraceWaits,
       Answers
<1>4. KeptType'
  BY <1>1, <1>2, <1>3
<1>5. CallInv'
  BY <1>1, <1>2, <1>3 DEF CallInv
<1>6. OwnInv' /\ ConnectingInv'
  BY <1>1, <1>2, <1>3 DEF OwnInv, ConnectingInv
<1>7. TraceInv' /\ OpenInv' /\ EndedIsReleased'
  BY <1>1, <1>2, <1>3 DEF CallInv, OwnInv, TraceInv, OpenInv, EndedIsReleased
<1>8. QED BY <1>1, <1>4, <1>5, <1>6, <1>7

(* So does a step of the setup that fails.                                 *)
LEMMA SetupFailed ==
  ASSUME ReleaseInv, NEW c \in Calls, NEW w,
         pc[c] \in Setup \ {"build", "buildWire"}, SetupFails(c, w),
         UNCHANGED <<op, on, wired, unread, displaced>>
  PROVE  ReleaseInv'
<1>1. CASE op[c] = "start"
  BY <1>1, StoppedAndAnswered DEF SetupFails, Early, Setup, Answers
<1>2. CASE op[c] # "start"
  <2>1. op[c] = "trace" /\ on[c] = c
    BY <1>2 DEF ReleaseInv, CallInv, OwnInv, Setup, Early
  <2>2. /\ current' = IF current = c THEN None ELSE current
        /\ target' = [target EXCEPT ![c] = "closing"]
        /\ pc' = [pc EXCEPT ![c] = "closing"] /\ UNCHANGED <<lockq, result>>
    BY <1>2, <2>1 DEF SetupFails, Stop, Goto
  <2>3. QED
    BY <2>1, <2>2, DebugAssumption
       DEF ReleaseInv, KeptType, LockInv, CallInv, OwnInv, ConnectingInv,
          TraceInv,
           OpenInv, EndedIsReleased, Early, Setup, TraceWaits, Waits
<1>3. QED BY <1>1, <1>2

-----------------------------------------------------------------------------
(* Every step of a call keeps the invariant.                               *)
LEMMA ReleaseStep == ReleaseInv /\ [Next]_vars => ReleaseInv'
<1> SUFFICES ASSUME ReleaseInv, [Next]_vars PROVE ReleaseInv'
  OBVIOUS
<1>lock. lockq # <<>> =>
           /\ Head(lockq) \in Calls /\ Tail(lockq) \in Seq(Calls)
           /\ Range(lockq) = {Head(lockq)} \cup Range(Tail(lockq))
           /\ Head(lockq) \notin Range(Tail(lockq)) /\ IsInjective(Tail(lockq))
  BY TailHolds DEF ReleaseInv, KeptType, LockInv
<1>first. \A c \in Calls : op[c] = "start" /\ pc[c] \notin {"lock", "done"} =>
           lockq # <<>> /\ Head(lockq) = c
  BY EmptyHolds DEF ReleaseInv, KeptType, LockInv
<1>app. \A c \in Calls : c \notin Range(lockq) =>
          /\ Append(lockq, c) \in Seq(Calls)
          /\ Range(Append(lockq, c)) = Range(lockq) \cup {c}
          /\ IsInjective(Append(lockq, c))
          /\ lockq # <<>> => Head(Append(lockq, c)) = Head(lockq)
  BY AppendHolds DEF ReleaseInv, KeptType, LockInv
<1> USE DebugAssumption DEF ReleaseInv, KeptType, LockInv, CallInv, OwnInv,
       ConnectingInv,
      TraceInv, OpenInv, EndedIsReleased, Early, Setup, TraceWaits, Waits, Ops, Answers, Events,
      Questions, call_, conn_, history_
<1>1. ASSUME NEW c \in Calls, StartAsked(c) PROVE ReleaseInv'
  BY <1>1, <1>lock, <1>first, <1>app DEF StartAsked, Asks, Goto
<1>2. ASSUME NEW c \in Calls, TraceAsked(c) PROVE ReleaseInv'
  BY <1>2, <1>lock, <1>first, <1>app DEF TraceAsked, Asks, Goto
<1>3. ASSUME NEW c \in Calls, StepAsked(c) PROVE ReleaseInv'
  BY <1>3, <1>lock, <1>first, <1>app DEF StepAsked, Asks, Goto, Answer
<1>4. ASSUME NEW c \in Calls, StopAsked(c) PROVE ReleaseInv'
  BY <1>4, <1>lock, <1>first, <1>app DEF StopAsked, Asks, Goto, Answer, Stop
<1>5. ASSUME NEW c \in Calls, AskAsked(c) PROVE ReleaseInv'
  BY <1>5, <1>lock, <1>first, <1>app DEF AskAsked, Asks, Goto, Answer
<1>6. ASSUME NEW c \in Calls, Paused(c) PROVE ReleaseInv'
  <2>1. CASE op[c] = "trace"
    BY <1>6, <2>1 DEF Paused, Turn, Goto
  <2>2. CASE op[c] # "trace"
    <3>1. /\ lockq' \in Seq(Calls) /\ LockInv'
          /\ pc' = [pc EXCEPT ![c] = "done"] /\ pc' \in [Calls -> Waits]
          /\ result' = [result EXCEPT ![c] = "paused"]
          /\ result' \in [Calls -> Answers \cup {None}]
      BY <1>6, <2>2, Answered DEF Paused, Turn
    <3>2. QED BY <1>6, <2>2, <3>1 DEF Paused, Turn
  <2>3. QED BY <2>1, <2>2
<1>7. ASSUME NEW c \in Calls, PassedOver(c) PROVE ReleaseInv'
  BY <1>7, <1>lock, <1>first, <1>app DEF PassedOver
<1>8. ASSUME NEW c \in Calls, TargetSettles(c) PROVE ReleaseInv'
  BY <1>8, <1>lock, <1>first, <1>app DEF TargetSettles
<1>9. ASSUME NEW c \in Calls, EventIsLast(c) PROVE ReleaseInv'
  BY <1>9, <1>lock, <1>first, <1>app DEF EventIsLast, Fails, Events, ToEnding,
     ToExtract, Goto
<1>10. ASSUME NEW c \in Calls, StartStopsPrevious(c) PROVE ReleaseInv'
  BY <1>10, <1>lock, <1>first, <1>app DEF StartStopsPrevious, HoldsLock, Stop,
     Goto
<1>11. ASSUME NEW c \in Calls, StartIsFirst(c) PROVE ReleaseInv'
  BY <1>11, <1>lock, <1>first, <1>app DEF StartIsFirst, HoldsLock, Goto
<1>12. ASSUME NEW c \in Calls, PreviousClosed(c) PROVE ReleaseInv'
  BY <1>12, <1>lock, <1>first, <1>app DEF PreviousClosed, Goto
<1>13. ASSUME NEW c \in Calls, BuildFails(c) PROVE ReleaseInv'
  BY <1>13, <1>lock, <1>first, <1>app DEF BuildFails, Answer, Goto
<1>14. ASSUME NEW c \in Calls, TargetBuilt(c) PROVE ReleaseInv'
  BY <1>14, <1>lock, <1>first, <1>app DEF TargetBuilt, Goto
<1>15. ASSUME NEW c \in Calls, WireBuildFails(c) PROVE ReleaseInv'
  BY <1>15, <1>lock, <1>first, <1>app DEF WireBuildFails, Answer, Goto
<1>16. ASSUME NEW c \in Calls, WireBuilt(c) PROVE ReleaseInv'
  BY <1>16, <1>lock, <1>first, <1>app DEF WireBuilt, Goto
<1>17. ASSUME NEW c \in Calls, NEW ok \in BOOLEAN, Preflight(c, ok) PROVE ReleaseInv'
  BY <1>17, <1>lock, <1>first, <1>app DEF Preflight, Goto, Stop
<1>18. ASSUME NEW c \in Calls, NEW ok \in BOOLEAN, Initialized(c, ok) PROVE ReleaseInv'
  <2>1. CASE ok
    BY <1>18, <2>1 DEF Initialized, Goto
  <2>2. CASE ~ok
    BY <1>18, <2>2, SetupFailed DEF Initialized
  <2>3. QED BY <2>1, <2>2
<1>19. ASSUME NEW c \in Calls, NEW ok \in BOOLEAN, UserBreakpoint(c, ok) PROVE ReleaseInv'
  BY <1>19, <1>lock, <1>first, <1>app DEF UserBreakpoint, Turn, Fails, Goto
<1>20. ASSUME NEW c \in Calls, Attached(c) PROVE ReleaseInv'
  BY <1>20, <1>lock, <1>first, <1>app DEF Attached, Turn, Goto
<1>21. ASSUME NEW c \in Calls, AttachFails(c) PROVE ReleaseInv'
  BY <1>21, SetupFailed DEF AttachFails, Fails
<1>22. ASSUME NEW c \in Calls, EntryBreakpointSet(c) PROVE ReleaseInv'
  BY <1>22, <1>lock, <1>first, <1>app DEF EntryBreakpointSet, Turn, Launch, Goto
<1>23. ASSUME NEW c \in Calls, EntryBreakpointFails(c) PROVE ReleaseInv'
  <2>1. CASE pc[c] = "entryBp"
    BY <1>23, <2>1 DEF EntryBreakpointFails, Fails, Launch, Goto
  <2>2. CASE pc[c] # "entryBp"
    BY <1>23, <2>2, SetupFailed DEF EntryBreakpointFails, Fails
  <2>3. QED BY <2>1, <2>2
<1>24. ASSUME NEW c \in Calls, SyncTimesOut(c) PROVE ReleaseInv'
  BY <1>24, <1>lock, <1>first, <1>app DEF SyncTimesOut, ToEnding, ToExtract,
     Goto
<1>25. ASSUME NEW c \in Calls, StepTimesOut(c) PROVE ReleaseInv'
  BY <1>25, <1>lock, <1>first, <1>app DEF StepTimesOut, Stop, ToEnding,
     ToExtract, Goto
<1>26. ASSUME NEW c \in Calls, TraceStops(c) PROVE ReleaseInv'
  BY <1>26, <1>lock, <1>first, <1>app DEF TraceStops, ToExtract, Goto
<1>27. ASSUME NEW c \in Calls, TraceLooks(c) PROVE ReleaseInv'
  BY <1>27, <1>lock, <1>first, <1>app DEF TraceLooks, Goto
<1>28. ASSUME NEW c \in Calls, TraceContinues(c) PROVE ReleaseInv'
  BY <1>28, <1>lock, <1>first, <1>app DEF TraceContinues, Fails, Goto
<1>29. ASSUME NEW c \in Calls, Extracts(c) PROVE ReleaseInv'
  BY <1>29, <1>lock, <1>first, <1>app DEF Extracts, Goto
<1>30. ASSUME NEW c \in Calls, ExtractionEnds(c) PROVE ReleaseInv'
  BY <1>30, <1>lock, <1>first, <1>app DEF ExtractionEnds, Goto
<1>31. ASSUME NEW c \in Calls, ReadFails(c) PROVE ReleaseInv'
  <2>1. CASE op[c] = "trace"
    <3>1. /\ Stop(on[c], wireq) /\ Goto(c, "closing") /\ UNCHANGED <<lockq, result>>
          /\ UNCHANGED <<op, on, wired, displaced>>
          /\ unread' = unread \cup {c} /\ pc[c] = "reading"
      BY <1>31, <2>1 DEF ReadFails
    <3>2. on[c] = c
      BY <2>1, <3>1
    <3>3. QED BY <2>1, <3>1, <3>2 DEF Stop, Goto
  <2>2. CASE op[c] # "trace"
    <3>0. PICK a \in {"error", "completed"} : Answer(c, a)
      BY <1>31, <2>2 DEF ReadFails
    <3>1. /\ lockq' \in Seq(Calls) /\ LockInv'
          /\ pc' = [pc EXCEPT ![c] = "done"] /\ pc' \in [Calls -> Waits]
          /\ result' = [result EXCEPT ![c] = a]
          /\ result' \in [Calls -> Answers \cup {None}]
      BY <1>31, <2>2, <3>0, Answered DEF ReadFails
    <3>2. /\ UNCHANGED <<current, target, op, on, wired, displaced>>
          /\ unread' = unread \cup {c}
      BY <1>31, <2>2 DEF ReadFails
    <3>3. QED BY <1>31, <2>2, <3>1, <3>2 DEF ReadFails
  <2>3. QED BY <2>1, <2>2
<1>32. ASSUME NEW c \in Calls, Ends(c) PROVE ReleaseInv'
  <2>1. CASE op[c] = "trace"
    BY <1>32, <2>1 DEF Ends, Stop, ToExtract, Goto
  <2>2. CASE op[c] # "trace"
    <3>1. PICK a \in {"error", "completed"} : Answer(c, a)
      BY <1>32, <2>2 DEF Ends
    <3>2. /\ Stop(on[c], wireq) /\ pc[c] \notin Early \cup {"buildWire", "done"}
          /\ UNCHANGED <<op, on, wired, unread, displaced>>
      BY <1>32 DEF Ends
    <3> HIDE DEF ReleaseInv
    <3>3. QED BY <3>1, <3>2, StoppedAndAnswered
  <2>3. QED BY <2>1, <2>2
<1>33. ASSUME NEW c \in Calls, Collected(c) PROVE ReleaseInv'
  BY <1>33, <1>lock, <1>first, <1>app DEF Collected, Stop, Goto
<1>34. ASSUME NEW c \in Calls, TraceEnds(c) PROVE ReleaseInv'
  BY <1>34, <1>lock, <1>first, <1>app DEF TraceEnds, Answer, Goto
<1>35. ASSUME NEW c \in Calls, AskAnswered(c) PROVE ReleaseInv'
  BY <1>35, <1>lock, <1>first, <1>app DEF AskAnswered, Fails, Answer, Goto
<1>36. CASE UNCHANGED vars
  BY <1>36 DEF vars
<1> HIDE DEF ReleaseInv
<1>37. QED
  BY <1>1, <1>2, <1>3, <1>4, <1>5, <1>6, <1>7, <1>8, <1>9, <1>10, <1>11, <1>12,
     <1>13, <1>14, <1>15, <1>16, <1>17, <1>18, <1>19, <1>20, <1>21, <1>22,
     <1>23, <1>24, <1>25, <1>26, <1>27, <1>28, <1>29, <1>30, <1>31, <1>32,
     <1>33, <1>34, <1>35, <1>36
     DEF Next, Arrives, Event, Work, Done

(* Before the first call there is nothing to release.                      *)
LEMMA ReleaseInit == Init => ReleaseInv
<1> SUFFICES ASSUME Init PROVE ReleaseInv
  OBVIOUS
<1> USE DebugAssumption DEF Init
<1>1. lockq \in Seq(Calls) /\ Range(lockq) = {} /\ IsInjective(lockq)
  BY EmptyHolds
<1>2. KeptType
  BY <1>1 DEF KeptType, Waits
<1>3. LockInv
  BY <1>1 DEF LockInv, Ops
<1>4. CallInv
  BY DEF CallInv, Setup, TraceWaits, Ops
<1>5. OwnInv /\ ConnectingInv
  BY DEF OwnInv, ConnectingInv, Early, Ops
<1>6. TraceInv /\ OpenInv /\ EndedIsReleased
  BY DEF TraceInv, OpenInv, EndedIsReleased, Ops
<1>7. QED BY <1>2, <1>3, <1>4, <1>5, <1>6 DEF ReleaseInv

LEMMA ReleaseHolds == Spec => []ReleaseInv
<1>1. QED BY ReleaseInit, ReleaseStep, PTL DEF Spec

(* Whoever is told that the program ended or could not be started leaves   *)
(* no connection behind: debug.ts's stop() on every path to such an answer. *)
THEOREM EndedSessionsAreReleased == Spec => []EndedIsReleased
<1>1. ReleaseInv => EndedIsReleased
  BY DEF ReleaseInv
<1>2. QED BY <1>1, ReleaseHolds, PTL

(* A complete session that is open and out of everybody's reach was        *)
(* displaced by a trace: _debugStartLock keeps starts from orphaning each  *)
(* other's connections, however many there are.                            *)
THEOREM OnlyTracesOrphan == Spec => []OrphansOnlyFromTraces
<1>1. ReleaseInv => OrphansOnlyFromTraces
  <2> SUFFICES ASSUME ReleaseInv, NEW s \in Calls,
                      target[s] = "open", s # current, wired[s],
                      \A c \in Calls : on[c] = s => pc[c] = "done"
               PROVE  s \in displaced
    BY DEF OrphansOnlyFromTraces
  <2>1. on[s] = s /\ pc[s] = "done"
    BY DEF ReleaseInv, OwnInv
  <2>2. QED BY <2>1 DEF ReleaseInv, OpenInv
<1>2. QED BY <1>1, ReleaseHolds, PTL
=============================================================================
