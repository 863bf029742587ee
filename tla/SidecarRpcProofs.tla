-------------------------- MODULE SidecarRpcProofs --------------------------
(***************************************************************************)
(* Proofs about SidecarRpc, for any set of calls and any queue bounds.     *)
(***************************************************************************)
EXTENDS SidecarRpc, Functions, TLAPS

(* What a queue holds, and that it holds nothing twice, after its head is  *)
(* taken ...                                                               *)
LEMMA TailHolds ==
  ASSUME NEW T, NEW s \in Seq(T), s # <<>>
  PROVE  /\ Head(s) \in T /\ Tail(s) \in Seq(T)
         /\ Range(s) = {Head(s)} \cup Range(Tail(s))
         /\ IsInjective(s) => Head(s) \notin Range(Tail(s)) /\ IsInjective(Tail(s))
<1>1. /\ Tail(s) \in Seq(T) /\ Len(s) \in Nat \ {0} /\ DOMAIN s = 1 .. Len(s)
      /\ DOMAIN Tail(s) = 1 .. Len(s) - 1 /\ Head(s) = s[1]
      /\ \A i \in 1 .. Len(s) - 1 : Tail(s)[i] = s[i + 1]
  OBVIOUS
<1>2. \A i \in 1 .. Len(s) : i = 1 \/ (i - 1 \in 1 .. Len(s) - 1 /\ Tail(s)[i - 1] = s[i])
  BY <1>1
<1>3. \A i \in 1 .. Len(s) - 1 : i + 1 \in 1 .. Len(s) /\ i + 1 # 1 /\ i + 1 - 1 = i
  BY <1>1
<1>4. Range(s) = {Head(s)} \cup Range(Tail(s))
  <2>1. ASSUME NEW x \in Range(s) PROVE x \in {Head(s)} \cup Range(Tail(s))
    <3>1. PICK i \in 1 .. Len(s) : x = s[i]
      BY <1>1 DEF Range
    <3> QED
      BY <1>1, <1>2, <3>1 DEF Range
  <2>2. Head(s) \in Range(s) /\ \A x \in Range(Tail(s)) : x \in Range(s)
    BY <1>1, <1>3 DEF Range
  <2> QED
    BY <2>1, <2>2
<1>5. IsInjective(s) => Head(s) \notin Range(Tail(s)) /\ IsInjective(Tail(s))
  BY <1>1, <1>3 DEF Range, IsInjective
<1> QED
  BY <1>1, <1>4, <1>5

(* ... and after an element is added.                                      *)
LEMMA AppendHolds ==
  ASSUME NEW T, NEW s \in Seq(T), NEW e \in T
  PROVE  /\ Append(s, e) \in Seq(T) /\ Range(Append(s, e)) = Range(s) \cup {e}
         /\ IsInjective(s) /\ e \notin Range(s) => IsInjective(Append(s, e))
<1>1. /\ Append(s, e) \in Seq(T) /\ Len(s) \in Nat /\ DOMAIN s = 1 .. Len(s)
      /\ DOMAIN Append(s, e) = 1 .. Len(s) + 1 /\ Append(s, e)[Len(s) + 1] = e
      /\ \A i \in 1 .. Len(s) : Append(s, e)[i] = s[i]
  OBVIOUS
<1>2. \A i \in 1 .. Len(s) + 1 : i \in 1 .. Len(s) \/ i = Len(s) + 1
  BY <1>1
<1>3. Range(Append(s, e)) = Range(s) \cup {e}
  BY <1>1, <1>2 DEF Range
<1>4. IsInjective(s) /\ e \notin Range(s) => IsInjective(Append(s, e))
  BY <1>1, <1>2 DEF Range, IsInjective
<1> QED
  BY <1>1, <1>3, <1>4

(* An empty one holds nothing.                                             *)
LEMMA EmptyHolds == Range(<<>>) = {} /\ IsInjective(<<>>)
  BY DEF Range, IsInjective

LEMMA MessageTyping ==
  \A c \in Calls : Reply(c) \in Message /\ Note(c) \in Message
  BY DEF Reply, Note, Message

(* Every variable stays within its type, for every number of calls and     *)
(* every capacity of the queue and of the pipe.                            *)
THEOREM TypeCorrect == Spec => []TypeOK
<1>1. Init => TypeOK
  BY DEF Init, TypeOK, CallerStates
<1>2. TypeOK /\ [Next]_vars => TypeOK'
  <2> SUFFICES ASSUME TypeOK, [Next]_vars PROVE TypeOK'
    OBVIOUS
  <2> USE DEF TypeOK, CallerStates, Goto
  <2>1. ASSUME NEW c \in Calls, Acquire(c) PROVE TypeOK'
    BY <2>1 DEF Acquire
  <2>2. ASSUME NEW c \in Calls, AcquireFails(c) PROVE TypeOK'
    BY <2>2 DEF AcquireFails
  <2>3. ASSUME NEW c \in Calls, Register(c) PROVE TypeOK'
    BY <2>3 DEF Register
  <2>4. ASSUME NEW c \in Calls, Send(c) PROVE TypeOK'
    BY <2>4, AppendHolds DEF Send
  <2>5. ASSUME NEW c \in Calls, SendFails(c) PROVE TypeOK'
    BY <2>5 DEF SendFails
  <2>6. ASSUME NEW c \in Calls, Return(c) PROVE TypeOK'
    BY <2>6 DEF Return
  <2>7. CASE WriterWrite
    BY <2>7, TailHolds, AppendHolds DEF WriterWrite
  <2>8. CASE WriterFails
    BY <2>8 DEF WriterFails
  <2>9. CASE ReaderReads
    <3>1. Head(stdout) \in Message /\ Tail(stdout) \in Seq(Message)
      BY <2>9, TailHolds DEF ReaderReads
    <3>2. Head(stdout).id \in Calls
      BY <3>1 DEF Message
    <3>3. QED BY <2>9, <3>1, <3>2 DEF ReaderReads
  <2>10. CASE ReaderTerminated
    BY <2>10 DEF ReaderTerminated
  <2>11. CASE Dispatch
    <3>1. Head(stdin) \in Calls /\ Tail(stdin) \in Seq(Calls)
      BY <2>11, TailHolds DEF Dispatch
    <3>2. QED BY <2>11, <3>1 DEF Dispatch, hostVars
  <2>12. ASSUME NEW c \in Calls, HandlerNotifies(c) PROVE TypeOK'
    BY <2>12, MessageTyping, AppendHolds DEF HandlerNotifies, hostVars
  <2>13. ASSUME NEW c \in Calls, HandlerReplies(c) PROVE TypeOK'
    BY <2>13, MessageTyping, AppendHolds DEF HandlerReplies, hostVars
  <2>14. CASE Die
    BY <2>14 DEF Die, hostVars
  <2>15. CASE UNCHANGED vars
    BY <2>15 DEF vars
  <2>16. QED
    BY <2>1, <2>2, <2>3, <2>4, <2>5, <2>6, <2>7, <2>8, <2>9, <2>10, <2>11,
       <2>12, <2>13, <2>14, <2>15
       DEF Next, CallerNext, HostNext, ProcNext
<1>3. QED BY <1>1, <1>2, PTL DEF Spec
-----------------------------------------------------------------------------
(* The inductive invariant holds in every reachable state.  The proof has  *)
(* one step per action and, under it, one per part of the invariant.       *)
THEOREM Invariance == Spec => []IInv
<1>1. Init => IInv
  BY EmptyHolds DEF Init, IInv, ProcessInv, ChannelInv, RunsInv, RouteInv,
                    NotMislaid
<1>2. TypeOK /\ IInv /\ [Next]_vars => IInv'
  <2> SUFFICES ASSUME TypeOK, IInv, [Next]_vars PROVE IInv'
    OBVIOUS
  <2> USE DEF TypeOK, CallerStates, Goto, IInv
  <2>1. ASSUME NEW c \in Calls, Acquire(c) PROVE IInv'
    <3>1. ProcessInv'
      BY <2>1 DEF Acquire, ProcessInv
    <3>2. ChannelInv'
      BY <2>1 DEF Acquire, ChannelInv, ProcessInv
    <3>3. RunsInv'
      BY <2>1 DEF Acquire, RunsInv, ChannelInv, ProcessInv, RouteInv
    <3>4. RouteInv'
      BY <2>1 DEF Acquire, RouteInv, RunsInv, ChannelInv, ProcessInv
    <3>5. NotMislaid'
      BY <2>1 DEF Acquire, NotMislaid, ChannelInv, RunsInv, RouteInv, ProcessInv
    <3>6. QED BY <3>1, <3>2, <3>3, <3>4, <3>5
  <2>2. ASSUME NEW c \in Calls, AcquireFails(c) PROVE IInv'
    <3>1. ProcessInv'
      BY <2>2 DEF AcquireFails, ProcessInv
    <3>2. ChannelInv'
      BY <2>2 DEF AcquireFails, ChannelInv, ProcessInv
    <3>3. RunsInv'
      BY <2>2 DEF AcquireFails, RunsInv, ChannelInv, ProcessInv, RouteInv
    <3>4. RouteInv'
      BY <2>2 DEF AcquireFails, RouteInv, RunsInv, ChannelInv, ProcessInv
    <3>5. NotMislaid'
      BY <2>2 DEF AcquireFails, NotMislaid, ChannelInv, RunsInv, RouteInv,
         ProcessInv
    <3>6. QED BY <3>1, <3>2, <3>3, <3>4, <3>5
  <2>3. ASSUME NEW c \in Calls, Register(c) PROVE IInv'
    <3>1. ProcessInv'
      BY <2>3 DEF Register, ProcessInv
    <3>2. ChannelInv'
      BY <2>3 DEF Register, ChannelInv, ProcessInv
    <3>3. RunsInv'
      BY <2>3 DEF Register, RunsInv, ChannelInv, ProcessInv, RouteInv
    <3>4. RouteInv'
      BY <2>3 DEF Register, RouteInv, RunsInv, ChannelInv, ProcessInv
    <3>5. NotMislaid'
      BY <2>3 DEF Register, NotMislaid, ChannelInv, RunsInv, RouteInv,
         ProcessInv
    <3>6. QED BY <3>1, <3>2, <3>3, <3>4, <3>5
  <2>4. ASSUME NEW c \in Calls, Send(c) PROVE IInv'
    <3>1. /\ Range(queue') = Range(queue) \cup {c}
          /\ IsInjective(queue) /\ c \notin Range(queue) => IsInjective(queue')
      BY <2>4, AppendHolds DEF Send
    <3>2. ProcessInv'
      BY <2>4, <3>1 DEF Send, ProcessInv
    <3>3. ChannelInv'
      BY <2>4, <3>1 DEF Send, ChannelInv, ProcessInv
    <3>4. RunsInv'
      BY <2>4, <3>1 DEF Send, RunsInv, ChannelInv, ProcessInv, RouteInv
    <3>5. RouteInv'
      BY <2>4, <3>1 DEF Send, RouteInv, RunsInv, ChannelInv, ProcessInv
    <3>6. NotMislaid'
      BY <2>4, <3>1 DEF Send, NotMislaid, ChannelInv, RunsInv, RouteInv,
         ProcessInv
    <3>7. QED BY <3>2, <3>3, <3>4, <3>5, <3>6
  <2>5. ASSUME NEW c \in Calls, SendFails(c) PROVE IInv'
    <3>1. ProcessInv'
      BY <2>5 DEF SendFails, ProcessInv
    <3>2. ChannelInv'
      BY <2>5 DEF SendFails, ChannelInv, ProcessInv
    <3>3. RunsInv'
      BY <2>5 DEF SendFails, RunsInv, ChannelInv, ProcessInv, RouteInv
    <3>4. RouteInv'
      BY <2>5 DEF SendFails, RouteInv, RunsInv, ChannelInv, ProcessInv
    <3>5. NotMislaid'
      BY <2>5 DEF SendFails, NotMislaid, ChannelInv, RunsInv, RouteInv,
         ProcessInv
    <3>6. QED BY <3>1, <3>2, <3>3, <3>4, <3>5
  <2>6. ASSUME NEW c \in Calls, Return(c) PROVE IInv'
    <3>1. ProcessInv'
      BY <2>6 DEF Return, ProcessInv
    <3>2. ChannelInv'
      BY <2>6 DEF Return, ChannelInv, ProcessInv
    <3>3. RunsInv'
      BY <2>6 DEF Return, RunsInv, ChannelInv, ProcessInv, RouteInv
    <3>4. RouteInv'
      <4>1. UNCHANGED <<queue, stdin, runs>>
        BY <2>6 DEF Return
      <4>2. \A d \in Calls : runs[d] = 0 => caller'[d] \in {caller[d], "dropped"}
        BY <2>6 DEF Return, ChannelInv
      <4>3. Range(queue) \cup Range(stdin) \subseteq Calls
        BY DEF Range
      <4>4. QED BY <4>1, <4>2, <4>3 DEF RouteInv
    <3>5. NotMislaid'
      BY <2>6 DEF Return, NotMislaid, ChannelInv, RunsInv, RouteInv, ProcessInv
    <3>6. QED BY <3>1, <3>2, <3>3, <3>4, <3>5
  <2>7. CASE WriterWrite
    <3>1. Head(queue) \in Calls /\ Range(queue) = {Head(queue)} \cup Range(queue')
      BY <2>7, TailHolds DEF WriterWrite
    <3>2. /\ Head(queue) \notin Range(queue')
          /\ IsInjective(queue')
      BY <2>7, TailHolds DEF WriterWrite, RouteInv
    <3>3. Range(stdin') = Range(stdin) \cup {Head(queue)}
      BY <2>7, <3>1, AppendHolds DEF WriterWrite
    <3>4. IsInjective(stdin')
      BY <2>7, <3>1, AppendHolds DEF WriterWrite, RouteInv
    <3>5. ProcessInv'
      BY <2>7, <3>1, <3>2, <3>3, <3>4 DEF WriterWrite, ProcessInv
    <3>6. ChannelInv'
      BY <2>7, <3>1, <3>2, <3>3, <3>4 DEF WriterWrite, ChannelInv, ProcessInv
    <3>7. RunsInv'
      BY <2>7, <3>1, <3>2, <3>3, <3>4 DEF WriterWrite, RunsInv, ChannelInv,
         ProcessInv, RouteInv
    <3>8. RouteInv'
      BY <2>7, <3>1, <3>2, <3>3, <3>4 DEF WriterWrite, RouteInv, RunsInv,
         ChannelInv, ProcessInv
    <3>9. NotMislaid'
      BY <2>7, <3>1, <3>2, <3>3, <3>4 DEF WriterWrite, NotMislaid, ChannelInv,
         RunsInv, RouteInv, ProcessInv
    <3>10. QED BY <3>5, <3>6, <3>7, <3>8, <3>9
  <2>8. CASE WriterFails
    <3>1. ProcessInv'
      BY <2>8, EmptyHolds DEF WriterFails, ProcessInv
    <3>2. ChannelInv'
      BY <2>8, EmptyHolds DEF WriterFails, ChannelInv, ProcessInv
    <3>3. RunsInv'
      BY <2>8, EmptyHolds DEF WriterFails, RunsInv, ChannelInv, ProcessInv,
         RouteInv
    <3>4. RouteInv'
      BY <2>8, EmptyHolds DEF WriterFails, RouteInv, RunsInv, ChannelInv,
         ProcessInv
    <3>5. NotMislaid'
      BY <2>8, EmptyHolds DEF WriterFails, NotMislaid, ChannelInv, RunsInv,
         RouteInv, ProcessInv
    <3>6. QED BY <3>1, <3>2, <3>3, <3>4, <3>5
  <2>9. CASE ReaderReads
    <3>1. Head(stdout) \in Message /\ Range(stdout) = {Head(stdout)} \cup Range(stdout')
      BY <2>9, TailHolds DEF ReaderReads
    <3>2. Head(stdout).id \in Calls /\ Head(stdout).kind \in {"reply", "note"}
      BY <3>1 DEF Message
    <3>3. ProcessInv'
      BY <2>9, <3>1, <3>2 DEF ReaderReads, ProcessInv, Message, Reply
    <3>4. ChannelInv'
      BY <2>9, <3>1, <3>2 DEF ReaderReads, ChannelInv, RunsInv, ProcessInv,
         Message, Reply
    <3>5. RunsInv'
      BY <2>9, <3>1, <3>2 DEF ReaderReads, RunsInv, ChannelInv, ProcessInv,
         RouteInv, Message, Reply
    <3>6. RouteInv'
      BY <2>9, <3>1, <3>2 DEF ReaderReads, RouteInv, RunsInv, ChannelInv,
         ProcessInv, Message, Reply
    <3>7. NotMislaid'
      BY <2>9, <3>1, <3>2 DEF ReaderReads, NotMislaid, ChannelInv, RunsInv,
         RouteInv, ProcessInv, Message, Reply
    <3>8. QED BY <3>3, <3>4, <3>5, <3>6, <3>7
  <2>10. CASE ReaderTerminated
    <3>1. ProcessInv'
      BY <2>10 DEF ReaderTerminated, ProcessInv
    <3>2. ChannelInv'
      BY <2>10 DEF ReaderTerminated, ChannelInv, ProcessInv
    <3>3. RunsInv'
      BY <2>10 DEF ReaderTerminated, RunsInv, ChannelInv, ProcessInv, RouteInv
    <3>4. RouteInv'
      BY <2>10 DEF ReaderTerminated, RouteInv, RunsInv, ChannelInv, ProcessInv
    <3>5. NotMislaid'
      BY <2>10 DEF ReaderTerminated, NotMislaid, ChannelInv, RunsInv, RouteInv,
         ProcessInv
    <3>6. QED BY <3>1, <3>2, <3>3, <3>4, <3>5
  <2>11. CASE Dispatch
    <3>1. Head(stdin) \in Calls /\ Range(stdin) = {Head(stdin)} \cup Range(stdin')
      BY <2>11, TailHolds DEF Dispatch
    <3>2. Head(stdin) \notin Range(stdin') /\ IsInjective(stdin')
      BY <2>11, TailHolds DEF Dispatch, RouteInv
    <3>3. ProcessInv'
      BY <2>11, <3>1, <3>2 DEF Dispatch, ProcessInv, hostVars
    <3>4. ChannelInv'
      BY <2>11, <3>1, <3>2 DEF Dispatch, ChannelInv, ProcessInv, RouteInv,
         hostVars
    <3>5. RunsInv'
      BY <2>11, <3>1, <3>2 DEF Dispatch, RunsInv, ChannelInv, ProcessInv,
         RouteInv, hostVars
    <3>6. RouteInv'
      BY <2>11, <3>1, <3>2 DEF Dispatch, RouteInv, RunsInv, ChannelInv,
         ProcessInv, hostVars
    <3>7. NotMislaid'
      BY <2>11, <3>1, <3>2 DEF Dispatch, NotMislaid, ChannelInv, RunsInv,
         RouteInv, ProcessInv, hostVars
    <3>8. QED BY <3>3, <3>4, <3>5, <3>6, <3>7
  <2>12. ASSUME NEW c \in Calls, HandlerNotifies(c) PROVE IInv'
    <3>1. Range(stdout') = Range(stdout) \cup {Note(c)}
      BY <2>12, MessageTyping, AppendHolds DEF HandlerNotifies
    <3>2. ProcessInv'
      BY <2>12, <3>1, MessageTyping DEF HandlerNotifies, ProcessInv, hostVars,
         Reply, Note
    <3>3. ChannelInv'
      BY <2>12, <3>1, MessageTyping DEF HandlerNotifies, ChannelInv,
         ProcessInv, hostVars, Reply, Note
    <3>4. RunsInv'
      BY <2>12, <3>1, MessageTyping DEF HandlerNotifies, RunsInv, ChannelInv,
         ProcessInv, RouteInv, hostVars, Reply, Note
    <3>5. RouteInv'
      BY <2>12, <3>1, MessageTyping DEF HandlerNotifies, RouteInv, RunsInv,
         ChannelInv, ProcessInv, hostVars, Reply, Note
    <3>6. NotMislaid'
      BY <2>12, <3>1, MessageTyping DEF HandlerNotifies, NotMislaid,
         ChannelInv, RunsInv, RouteInv, ProcessInv, hostVars, Reply, Note
    <3>7. QED BY <3>2, <3>3, <3>4, <3>5, <3>6
  <2>13. ASSUME NEW c \in Calls, HandlerReplies(c) PROVE IInv'
    <3>1. Range(stdout') = Range(stdout) \cup {Reply(c)}
      BY <2>13, MessageTyping, AppendHolds DEF HandlerReplies
    <3>2. ProcessInv'
      BY <2>13, <3>1, MessageTyping DEF HandlerReplies, ProcessInv, hostVars,
         Reply, Note
    <3>3. ChannelInv'
      BY <2>13, <3>1, MessageTyping DEF HandlerReplies, ChannelInv, ProcessInv,
         hostVars, Reply, Note
    <3>4. RunsInv'
      BY <2>13, <3>1, MessageTyping DEF HandlerReplies, RunsInv, ChannelInv,
         ProcessInv, RouteInv, hostVars, Reply, Note
    <3>5. RouteInv'
      BY <2>13, <3>1, MessageTyping DEF HandlerReplies, RouteInv, RunsInv,
         ChannelInv, ProcessInv, hostVars, Reply, Note
    <3>6. NotMislaid'
      BY <2>13, <3>1, MessageTyping DEF HandlerReplies, NotMislaid, ChannelInv,
         RunsInv, RouteInv, ProcessInv, hostVars, Reply, Note
    <3>7. QED BY <3>2, <3>3, <3>4, <3>5, <3>6
  <2>14. CASE Die
    <3>1. ProcessInv'
      BY <2>14, EmptyHolds DEF Die, ProcessInv, hostVars
    <3>2. ChannelInv'
      BY <2>14, EmptyHolds DEF Die, ChannelInv, ProcessInv, hostVars
    <3>3. RunsInv'
      BY <2>14, EmptyHolds DEF Die, RunsInv, ChannelInv, ProcessInv, RouteInv,
         hostVars
    <3>4. RouteInv'
      BY <2>14, EmptyHolds DEF Die, RouteInv, RunsInv, ChannelInv, ProcessInv,
         hostVars
    <3>5. NotMislaid'
      BY <2>14, EmptyHolds DEF Die, NotMislaid, ChannelInv, RunsInv, RouteInv,
         ProcessInv, hostVars
    <3>6. QED BY <3>1, <3>2, <3>3, <3>4, <3>5
  <2>15. CASE UNCHANGED vars
    <3>1. ProcessInv'
      BY <2>15 DEF vars, ProcessInv
    <3>2. ChannelInv'
      BY <2>15 DEF vars, ChannelInv, ProcessInv
    <3>3. RunsInv'
      BY <2>15 DEF vars, RunsInv, ChannelInv, ProcessInv, RouteInv
    <3>4. RouteInv'
      BY <2>15 DEF vars, RouteInv, RunsInv, ChannelInv, ProcessInv
    <3>5. NotMislaid'
      BY <2>15 DEF vars, NotMislaid, ChannelInv, RunsInv, RouteInv, ProcessInv
    <3>6. QED BY <3>1, <3>2, <3>3, <3>4, <3>5
  <2>16. QED
    BY <2>1, <2>2, <2>3, <2>4, <2>5, <2>6, <2>7, <2>8, <2>9, <2>10, <2>11,
       <2>12, <2>13, <2>14, <2>15
       DEF Next, CallerNext, HostNext, ProcNext
<1>3. QED BY TypeCorrect, <1>1, <1>2, PTL DEF Spec
-----------------------------------------------------------------------------
(* A refused request (-32001, -32003) never runs, so it is safe to retry.  *)
THEOREM RefusedIsSafeToRetry == Spec => []RefusedNeverRuns
<1>1. IInv => RefusedNeverRuns
  <2> SUFFICES ASSUME IInv, NEW c \in Calls, caller[c] \in {"closed", "unavailable"}
               PROVE  runs[c] = 0 /\ c \notin Range(queue) \cup Range(stdin)
    BY DEF RefusedNeverRuns
  <2>1. runs[c] = 0
    BY DEF IInv, RunsInv
  <2>2. c \notin Range(queue) \cup Range(stdin)
    BY DEF IInv, RouteInv
  <2>3. QED BY <2>1, <2>2
<1>2. QED BY <1>1, Invariance, PTL

(* No waiting request is mislaid while somebody could still answer it.     *)
THEOREM NoRequestMislaid == Spec => []WaitingIsWakeable
<1>1. TypeOK /\ IInv => WaitingIsWakeable
  BY DEF IInv, WaitingIsWakeable, ChannelInv, NotMislaid, TypeOK
<1>2. QED BY <1>1, TypeCorrect, Invariance, PTL

-----------------------------------------------------------------------------
(* What a handler pushed is forwarded or still in the pipe, ahead of its   *)
(* reply; once the reply has been read, it has been forwarded.             *)
PushedInv ==
  /\ \A c \in progress : c \in emitted \/ Note(c) \in Range(stdout)
  /\ \A c \in Calls : oneshot[c] = "answered" /\ c \in progress => c \in emitted
AheadInv ==
  \A i, j \in DOMAIN stdout : \A c \in Calls :
    i < j /\ stdout[i] = Reply(c) => stdout[j] # Note(c)
UnsettledInv ==
  \A c \in handling : Reply(c) \notin Range(stdout) /\ oneshot[c] # "answered"

OrderInv == PushedInv /\ AheadInv /\ UnsettledInv

(* Progress overtakes no result, whatever order the handlers settle in.    *)
THEOREM ProgressComesFirst == Spec => []ProgressBeforeResult
<1>1. Init => OrderInv
  BY EmptyHolds DEF Init, OrderInv, PushedInv, AheadInv, UnsettledInv
<1>2. TypeOK /\ TypeOK' /\ IInv /\ OrderInv /\ [Next]_vars => OrderInv'
  <2> SUFFICES ASSUME TypeOK, TypeOK', IInv, OrderInv, [Next]_vars PROVE OrderInv'
    OBVIOUS
  <2> USE DEF TypeOK, Goto, OrderInv
  <2>1. ASSUME NEW c \in Calls, Acquire(c) PROVE OrderInv'
    BY <2>1 DEF Acquire, PushedInv, AheadInv, UnsettledInv
  <2>2. ASSUME NEW c \in Calls, AcquireFails(c) PROVE OrderInv'
    BY <2>2 DEF AcquireFails, PushedInv, AheadInv, UnsettledInv
  <2>3. ASSUME NEW c \in Calls, Register(c) PROVE OrderInv'
    BY <2>3 DEF Register, PushedInv, AheadInv, UnsettledInv
  <2>4. ASSUME NEW c \in Calls, Send(c) PROVE OrderInv'
    BY <2>4 DEF Send, PushedInv, AheadInv, UnsettledInv
  <2>5. ASSUME NEW c \in Calls, SendFails(c) PROVE OrderInv'
    BY <2>5 DEF SendFails, PushedInv, AheadInv, UnsettledInv
  <2>6. ASSUME NEW c \in Calls, Return(c) PROVE OrderInv'
    BY <2>6 DEF Return, PushedInv, AheadInv, UnsettledInv
  <2>7. CASE WriterWrite \/ WriterFails
    BY <2>7 DEF WriterWrite, WriterFails, PushedInv, AheadInv, UnsettledInv
  <2>8. CASE ReaderReads
    <3>1. /\ Head(stdout) \in Message /\ Range(stdout) = {Head(stdout)} \cup Range(stdout')
          /\ Len(stdout) \in Nat \ {0} /\ DOMAIN stdout = 1..Len(stdout)
          /\ DOMAIN stdout' = 1..(Len(stdout) - 1) /\ Head(stdout) = stdout[1]
          /\ \A i \in 1..(Len(stdout) - 1) : stdout'[i] = stdout[i + 1]
      BY <2>8, TailHolds DEF ReaderReads
    <3>2. AheadInv'
      <4> SUFFICES ASSUME NEW i \in DOMAIN stdout', NEW j \in DOMAIN stdout', NEW c \in Calls,
                          i < j, stdout'[i] = Reply(c)
                   PROVE  stdout'[j] # Note(c)
        BY DEF AheadInv, Reply, Note
      <4>1. /\ i + 1 \in DOMAIN stdout /\ j + 1 \in DOMAIN stdout /\ i + 1 < j + 1
            /\ stdout[i + 1] = stdout'[i] /\ stdout[j + 1] = stdout'[j]
        BY <3>1
      <4>2. QED BY <4>1 DEF AheadInv
    <3>3. CASE Head(stdout).kind = "note"
      <4>1. Head(stdout) = Note(Head(stdout).id) /\ Head(stdout).id \in Calls
        BY <3>1, <3>3 DEF Message, Note
      <4>2. emitted' = emitted \cup {Head(stdout).id} /\ UNCHANGED <<oneshot, progress, handling>>
        BY <2>8, <3>3 DEF ReaderReads
      <4>3. \A c \in Calls : Note(c) = Head(stdout) => c \in emitted'
        BY <4>2 DEF Note
      <4>4. PushedInv'
        BY <3>1, <4>2, <4>3 DEF PushedInv
      <4>5. UnsettledInv'
        BY <3>1, <4>2 DEF UnsettledInv
      <4>6. QED BY <3>2, <4>4, <4>5
    <3>4. CASE Head(stdout).kind # "note"
      <4> DEFINE c == Head(stdout).id
      <4>1. c \in Calls /\ Head(stdout) = Reply(c)
        BY <3>1, <3>4 DEF Message, Reply
      <4>2. /\ UNCHANGED <<emitted, progress, handling>>
            /\ \A d \in Calls : d # c => oneshot'[d] = oneshot[d]
        BY <2>8, <3>4, <4>1 DEF ReaderReads
      <4>3. c \notin handling
        BY <3>1, <4>1 DEF UnsettledInv
      <4>4. \A d \in Calls : Note(d) # Head(stdout)
        BY <4>1 DEF Note, Reply
      <4>5. Note(c) \notin Range(stdout)
        <5>1. ASSUME NEW j \in 1..Len(stdout)
              PROVE  stdout[j] # Note(c)
          <6>1. CASE j = 1
            BY <3>1, <4>1, <4>4, <6>1
          <6>2. CASE j # 1
            <7>1. 1 \in DOMAIN stdout /\ j \in DOMAIN stdout /\ 1 < j /\ stdout[1] = Reply(c)
              BY <3>1, <4>1, <6>2
            <7>2. QED BY <4>1, <7>1 DEF AheadInv
          <6>3. QED BY <6>1, <6>2
        <5>2. QED BY <3>1, <5>1 DEF Range
      <4>6. PushedInv'
        <5>1. \A d \in progress : d \in emitted \/ Note(d) \in Range(stdout')
          BY <3>1, <4>4 DEF PushedInv
        <5>2. c \in progress => c \in emitted
          BY <4>5 DEF PushedInv
        <5>3. QED BY <4>2, <5>1, <5>2 DEF PushedInv
      <4>7. UnsettledInv'
        BY <3>1, <4>2, <4>3 DEF UnsettledInv
      <4>8. QED BY <3>2, <4>6, <4>7
    <3>5. QED BY <3>3, <3>4
  <2>9. CASE ReaderTerminated
    BY <2>9 DEF ReaderTerminated, PushedInv, AheadInv, UnsettledInv
  <2>10. CASE Dispatch
    <3>1. Head(stdin) \in Calls /\ Head(stdin) \in Range(stdin)
      BY <2>10, TailHolds DEF Dispatch
    <3>2. runs[Head(stdin)] = 0
      BY <3>1 DEF IInv, RouteInv
    <3>3. Reply(Head(stdin)) \notin Range(stdout) /\ oneshot[Head(stdin)] # "answered"
      <4>1. Reply(Head(stdin)).kind = "reply" /\ Reply(Head(stdin)).id = Head(stdin)
        BY DEF Reply
      <4>2. Reply(Head(stdin)) \notin Range(stdout)
        BY <3>2, <4>1 DEF IInv, RunsInv
      <4>3. QED BY <3>1, <3>2, <4>2 DEF IInv, ChannelInv
    <3>4. UnsettledInv'
      BY <2>10, <3>3 DEF Dispatch, hostVars, UnsettledInv
    <3>5. QED BY <2>10, <3>4 DEF Dispatch, hostVars, PushedInv, AheadInv
  <2>11. ASSUME NEW c \in Calls, HandlerNotifies(c) \/ HandlerReplies(c)
         PROVE  OrderInv'
    <3>1. PICK m \in Message : stdout' = Append(stdout, m) /\ m \in {Note(c), Reply(c)}
      BY <2>11, MessageTyping DEF HandlerNotifies, HandlerReplies
    <3>2. /\ Range(stdout') = Range(stdout) \cup {m} /\ Len(stdout) \in Nat
          /\ DOMAIN stdout = 1..Len(stdout) /\ DOMAIN stdout' = 1..(Len(stdout) + 1)
          /\ stdout'[Len(stdout) + 1] = m
          /\ \A i \in 1..Len(stdout) : stdout'[i] = stdout[i]
      BY <3>1, AppendHolds
    <3>3. c \in handling /\ Reply(c) \notin Range(stdout) /\ oneshot[c] # "answered"
      BY <2>11 DEF HandlerNotifies, HandlerReplies, UnsettledInv
    <3>4. UNCHANGED <<oneshot, emitted>>
      BY <2>11 DEF HandlerNotifies, HandlerReplies, hostVars
    <3>5. PushedInv'
      BY <2>11, <3>2, <3>1, <3>3, <3>4 DEF HandlerNotifies, HandlerReplies, PushedInv, Note
    <3>6. AheadInv'
      <4> SUFFICES ASSUME NEW i \in DOMAIN stdout', NEW j \in DOMAIN stdout', NEW d \in Calls,
                          i < j, stdout'[i] = Reply(d)
                   PROVE  stdout'[j] # Note(d)
        BY DEF AheadInv, Reply, Note
      <4>1. i \in 1..Len(stdout) /\ stdout[i] = Reply(d)
        BY <3>2
      <4>2. CASE j \in 1..Len(stdout)
        BY <3>2, <4>1, <4>2 DEF AheadInv
      <4>3. CASE j \notin 1..Len(stdout)
        <5>1. stdout'[j] = m
          BY <3>2, <4>3
        <5>2. Reply(d) \in Range(stdout)
          BY <3>2, <4>1 DEF Range
        <5>3. d # c
          BY <3>3, <5>2
        <5>4. QED BY <3>1, <5>1, <5>3 DEF Note, Reply
      <4>4. QED BY <4>2, <4>3
    <3>7. UnsettledInv'
      <4>1. \A d \in handling' : d \in handling /\ (m = Note(c) \/ d # c)
        BY <2>11, <3>1, <3>2 DEF HandlerNotifies, HandlerReplies, Note, Reply
      <4>2. \A d \in handling' : m # Reply(d)
        BY <3>1, <4>1 DEF Note, Reply
      <4>3. QED BY <3>2, <3>4, <4>1, <4>2 DEF UnsettledInv
    <3>8. QED BY <3>5, <3>6, <3>7
  <2>12. CASE Die
    BY <2>12 DEF Die, hostVars, PushedInv, AheadInv, UnsettledInv
  <2>13. CASE UNCHANGED vars
    BY <2>13 DEF vars, PushedInv, AheadInv, UnsettledInv
  <2>14. QED
    BY <2>1, <2>2, <2>3, <2>4, <2>5, <2>6, <2>7, <2>8, <2>9, <2>10, <2>11,
       <2>12, <2>13
       DEF Next, CallerNext, HostNext, ProcNext
<1>3. IInv /\ OrderInv => ProgressBeforeResult
  <2> SUFFICES ASSUME IInv, OrderInv, NEW c \in Calls, caller[c] = "ok", c \in progress
               PROVE  c \in emitted
    BY DEF ProgressBeforeResult
  <2>1. oneshot[c] = "answered"
    BY DEF IInv, ChannelInv
  <2>2. QED BY <2>1 DEF OrderInv, PushedInv
<1>4. QED BY <1>1, <1>2, <1>3, TypeCorrect, Invariance, PTL DEF Spec

-----------------------------------------------------------------------------
(* The bridge implements the at-most-once call service: every step of it   *)
(* is a step of RpcService, or changes nothing that service can see.       *)
THEOREM Refinement == Spec => ImplementsService
<1>1. Init => Service!SInit
  BY DEF Init, Service!SInit, Status
<1>2. TypeOK /\ IInv /\ [Next]_vars => [Service!SNext]_Service!svars
  <2> SUFFICES ASSUME TypeOK, IInv, [Next]_vars
               PROVE  [Service!SNext]_Service!svars
    OBVIOUS
  <2> USE DEF TypeOK, CallerStates, Goto
  <2>1. ASSUME UNCHANGED <<caller, runs>>
        PROVE  UNCHANGED Service!svars
    BY <2>1 DEF Service!svars, Status
  <2>2. ASSUME NEW c \in Calls, Acquire(c) PROVE Service!Issue(c)
    BY <2>2 DEF Acquire, Service!Issue, Service!Answer, Status
  <2>3. ASSUME NEW c \in Calls, AcquireFails(c) PROVE Service!Refuse(c)
    <3>1. runs[c] = 0
      BY <2>3 DEF AcquireFails, IInv, RunsInv
    <3>2. QED
      BY <2>3, <3>1 DEF AcquireFails, Service!Refuse, Service!Answer, Status
  <2>4. ASSUME NEW c \in Calls, Register(c) PROVE UNCHANGED Service!svars
    BY <2>4 DEF Register, Service!svars, Status
  <2>5. ASSUME NEW c \in Calls, Send(c) PROVE UNCHANGED Service!svars
    BY <2>5 DEF Send, Service!svars, Status
  <2>6. ASSUME NEW c \in Calls, SendFails(c) PROVE Service!Refuse(c)
    <3>1. runs[c] = 0
      BY <2>6 DEF SendFails, IInv, RunsInv
    <3>2. QED
      BY <2>6, <3>1 DEF SendFails, Service!Refuse, Service!Answer, Status
  <2>7. ASSUME NEW c \in Calls, Return(c)
        PROVE  Service!Complete(c) \/ Service!Lose(c)
    <3>1. CASE oneshot[c] = "answered"
      <4>1. runs[c] = 1
        BY <3>1 DEF IInv, ChannelInv
      <4>2. caller' = [caller EXCEPT ![c] = "ok"] /\ caller[c] = "waiting"
        BY <2>7, <3>1 DEF Return
      <4>3. Service!Complete(c)
        BY <2>7, <4>1, <4>2
           DEF Return, Service!Complete, Service!Answer, Status
      <4>4. QED BY <4>3
    <3>2. CASE oneshot[c] = "dropped"
      <4>1. caller' = [caller EXCEPT ![c] = "dropped"] /\ caller[c] = "waiting"
        BY <2>7, <3>2 DEF Return
      <4>2. Service!Lose(c)
        BY <2>7, <4>1 DEF Return, Service!Lose, Service!Answer, Status
      <4>3. QED BY <4>2
    <3>3. QED BY <2>7, <3>1, <3>2 DEF Return
  <2>8. ASSUME Dispatch PROVE \E c \in Calls : Service!Execute(c)
    <3>1. Head(stdin) \in Calls /\ Head(stdin) \in Range(stdin)
      BY <2>8, TailHolds DEF Dispatch
    <3>2. runs[Head(stdin)] = 0 /\ caller[Head(stdin)] \in {"waiting", "dropped"}
      BY <3>1 DEF IInv, RouteInv
    <3>3. caller[Head(stdin)] = "waiting"
      BY <2>8, <3>1, <3>2 DEF Dispatch, IInv, ChannelInv, ProcessInv
    <3>4. runs' = [runs EXCEPT ![Head(stdin)] = 1] /\ UNCHANGED caller
      BY <2>8, <3>2 DEF Dispatch, hostVars
    <3>5. Service!Execute(Head(stdin))
      BY <3>1, <3>2, <3>3, <3>4 DEF Service!Execute, Status
    <3>6. QED BY <3>1, <3>5
  <2>9. ASSUME HostNext PROVE UNCHANGED <<caller, runs>>
    BY <2>9 DEF HostNext, WriterWrite, WriterFails, ReaderReads,
                ReaderTerminated
  <2>10. ASSUME NEW c \in Calls, HandlerNotifies(c) \/ HandlerReplies(c)
         PROVE  UNCHANGED <<caller, runs>>
    BY <2>10 DEF HandlerNotifies, HandlerReplies, hostVars
  <2>11. ASSUME Die PROVE UNCHANGED <<caller, runs>>
    BY <2>11 DEF Die, hostVars
  <2>12. ASSUME UNCHANGED vars PROVE UNCHANGED <<caller, runs>>
    BY <2>12 DEF vars
  <2>13. QED
    BY <2>1, <2>2, <2>3, <2>4, <2>5, <2>6, <2>7, <2>8, <2>9, <2>10, <2>11, <2>12
       DEF Next, CallerNext, ProcNext, Service!SNext
<1>3. QED
  BY <1>1, <1>2, TypeCorrect, Invariance, PTL
     DEF Spec, ImplementsService, Service!SSpec
=============================================================================
