------------------------- MODULE OracleSessionProofs -------------------------
(***************************************************************************)
(* Proofs about OracleSession, for any set of requests, any menu of what   *)
(* they may ask and any bounds.  Each layer rests on those before it:      *)
(*   - the query slot, which needs no other layer;                         *)
(*   - the types, with what each await of a request says about it, and who *)
(*     holds the session lock (TypeInv);                                   *)
(*   - which connections requests are on (SessionInv): most steps do not   *)
(*     replace the session and are dealt with together (LocalStep);        *)
(*   - which open work is counted (TxInv, CountStep);                      *)
(*   - what the safety gate let through (GateInv, KeptStep).               *)
(***************************************************************************)
EXTENDS OracleSession, Functions, TLAPS

(* What a queue holds, and that it holds nothing twice, after its head is  *)
(* taken ...                                                               *)
LEMMA TailHolds ==
  ASSUME NEW T, NEW s \in Seq(T), s # <<>>
  PROVE  /\ Head(s) \in T /\ Tail(s) \in Seq(T)
         /\ Range(s) = {Head(s)} \cup Range(Tail(s))
         /\ IsInjective(s) => Head(s) \notin Range(Tail(s)) /\ IsInjective(Tail(s))
<1>1. /\ Tail(s) \in Seq(T) /\ Len(s) \in Nat \ {0} /\ DOMAIN s = 1 .. Len(s)
      /\ DOMAIN Tail(s) = 1 .. Len(s) - 1 /\ Head(s) = s[1]
      /\ \A i \in 1 .. Len(s) - 1 : Tail(s)[i] = s[i + 1]
  OBVIOUS
<1>2. \A i \in 1 .. Len(s) : i = 1 \/ (i - 1 \in 1 .. Len(s) - 1 /\ Tail(s)[i - 1] = s[i])
  BY <1>1
<1>3. \A i \in 1 .. Len(s) - 1 : i + 1 \in 1 .. Len(s) /\ i + 1 # 1 /\ i + 1 - 1 = i
  BY <1>1
<1>4. Range(s) = {Head(s)} \cup Range(Tail(s))
  <2>1. ASSUME NEW x \in Range(s) PROVE x \in {Head(s)} \cup Range(Tail(s))
    <3>1. PICK i \in 1 .. Len(s) : x = s[i]
      BY <1>1 DEF Range
    <3> QED
      BY <1>1, <1>2, <3>1 DEF Range
  <2>2. Head(s) \in Range(s) /\ \A x \in Range(Tail(s)) : x \in Range(s)
    BY <1>1, <1>3 DEF Range
  <2> QED
    BY <2>1, <2>2
<1>5. IsInjective(s) => Head(s) \notin Range(Tail(s)) /\ IsInjective(Tail(s))
  BY <1>1, <1>3 DEF Range, IsInjective
<1> QED
  BY <1>1, <1>4, <1>5

(* ... and after an element is added.                                      *)
LEMMA AppendHolds ==
  ASSUME NEW T, NEW s \in Seq(T), NEW e \in T
  PROVE  /\ Append(s, e) \in Seq(T) /\ Range(Append(s, e)) = Range(s) \cup {e}
         /\ IsInjective(s) /\ e \notin Range(s) => IsInjective(Append(s, e))
<1>1. /\ Append(s, e) \in Seq(T) /\ Len(s) \in Nat /\ DOMAIN s = 1 .. Len(s)
      /\ DOMAIN Append(s, e) = 1 .. Len(s) + 1 /\ Append(s, e)[Len(s) + 1] = e
      /\ \A i \in 1 .. Len(s) : Append(s, e)[i] = s[i]
  OBVIOUS
<1>2. \A i \in 1 .. Len(s) + 1 : i \in 1 .. Len(s) \/ i = Len(s) + 1
  BY <1>1
<1>3. Range(Append(s, e)) = Range(s) \cup {e}
  BY <1>1, <1>2 DEF Range
<1>4. IsInjective(s) /\ e \notin Range(s) => IsInjective(Append(s, e))
  BY <1>1, <1>2 DEF Range, IsInjective
<1> QED
  BY <1>1, <1>3, <1>4

(* A queue with elements has a positive length.                            *)
LEMMA NonEmptyHolds ==
  ASSUME NEW T, NEW s \in Seq(T), s # <<>>
  PROVE  DOMAIN s = 1 .. Len(s) /\ Len(s) \in Nat \ {0}
  OBVIOUS

(* An empty one holds nothing.                                             *)
LEMMA EmptyHolds == Range(<<>>) = {} /\ IsInjective(<<>>)
  BY DEF Range, IsInjective

(* The part of the type that the query slot rests on.                      *)
SlotType ==
  /\ pc \in [Requests -> Waits]
  /\ running \in Requests \cup {None}

SlotInv == SlotType /\ SlotMatchesQuery

(* Whatever the database answers, whatever is cancelled, lost or replaced, *)
(* the query slot is taken exactly while its query is in progress: no path *)
(* leaves a session that refuses every query, none lets two of them run.   *)
THEOREM QuerySlotIsExact == Spec => []SlotMatchesQuery
<1>1. Init => SlotInv
  BY SessionAssumption DEF Init, SlotInv, SlotType, SlotMatchesQuery, Waits
<1>2. SlotInv /\ [Next]_vars => SlotInv'
  <2> SUFFICES ASSUME SlotInv, [Next]_vars PROVE SlotInv'
    OBVIOUS
  <2> USE SessionAssumption
      DEF SlotInv, SlotType, SlotMatchesQuery, Waits, Arrives, Finish, session_,
          query_, proc_, driver_
  <2>1. ASSUME NEW r \in Requests, NEW m \in Menu, AskLock(r, m) PROVE SlotInv'
    BY <2>1 DEF AskLock
  <2>2. ASSUME NEW r \in Requests, NEW m \in Menu, QueryRefused(r, m) PROVE SlotInv'
    BY <2>2 DEF QueryRefused
  <2>3. ASSUME NEW r \in Requests, NEW m \in Menu, QueryBegins(r, m) PROVE SlotInv'
    BY <2>3 DEF QueryBegins
  <2>4. ASSUME NEW r \in Requests, NEW m \in Menu, Cancel(r, m) PROVE SlotInv'
    BY <2>4 DEF Cancel
  <2>5. ASSUME NEW r \in Requests, NEW m \in Menu, Unlock(r, m) PROVE SlotInv'
    BY <2>5 DEF Unlock
  <2>6. ASSUME NEW r \in Requests, NEW m \in Menu, NoSuchMethod(r, m) PROVE SlotInv'
    BY <2>6 DEF NoSuchMethod
  <2>7. ASSUME NEW r \in Requests, NEW m \in Menu, EndTx(r, m) PROVE SlotInv'
    BY <2>7 DEF EndTx, TakeSession
  <2>8. ASSUME NEW r \in Requests, NEW m \in Menu, TxState(r, m) PROVE SlotInv'
    BY <2>8 DEF TxState, TakeSession
  <2>9. ASSUME NEW r \in Requests, NEW m \in Menu, Embed(r, m) PROVE SlotInv'
    BY <2>9 DEF Embed, TakeSession
  <2>10. ASSUME NEW r \in Requests, CloseFirst(r) PROVE SlotInv'
    BY <2>10 DEF CloseFirst, HoldsLock
  <2>11. ASSUME NEW r \in Requests, NothingToClose(r) PROVE SlotInv'
    BY <2>11 DEF NothingToClose, HoldsLock
  <2>12. ASSUME NEW r \in Requests, Closed(r) PROVE SlotInv'
    BY <2>12 DEF Closed
  <2>13. ASSUME NEW r \in Requests, Built(r) PROVE SlotInv'
    BY <2>13 DEF Built
  <2>14. ASSUME NEW r \in Requests, BuildFails(r) PROVE SlotInv'
    BY <2>14 DEF BuildFails
  <2>15. ASSUME NEW r \in Requests, BootClosed(r) PROVE SlotInv'
    BY <2>15 DEF BootClosed
  <2>16. ASSUME NEW r \in Requests, StmtRan(r) PROVE SlotInv'
    BY <2>16 DEF StmtRan, NextStmt, QueryEnds
  <2>17. ASSUME NEW r \in Requests, EmbeddingReady(r) PROVE SlotInv'
    BY <2>17 DEF EmbeddingReady
  <2>18. ASSUME NEW r \in Requests, EmbeddingFails(r) PROVE SlotInv'
    BY <2>18 DEF EmbeddingFails, NextRow
  <2>19. ASSUME NEW r \in Requests, NEW out, Booted(r, out) PROVE SlotInv'
    BY <2>19 DEF Booted
  <2>20. ASSUME NEW r \in Requests, NEW out, Enabled(r, out) PROVE SlotInv'
    BY <2>20 DEF Enabled
  <2>21. ASSUME NEW r \in Requests, NEW out, StmtFailed(r, out) PROVE SlotInv'
    BY <2>21 DEF StmtFailed, QueryEnds
  <2>22. ASSUME NEW r \in Requests, NEW out, Synced(r, out) PROVE SlotInv'
    BY <2>22 DEF Synced, NextStmt, QueryEnds
  <2>23. ASSUME NEW r \in Requests, NEW out, TxEnded(r, out) PROVE SlotInv'
    BY <2>23 DEF TxEnded
  <2>24. ASSUME NEW r \in Requests, NEW out, Consulted(r, out) PROVE SlotInv'
    BY <2>24 DEF Consulted
  <2>25. ASSUME NEW r \in Requests, NEW out, EmbedRead(r, out) PROVE SlotInv'
    BY <2>25 DEF EmbedRead
  <2>26. ASSUME NEW r \in Requests, NEW out, EmbedUpdated(r, out) PROVE SlotInv'
    BY <2>26 DEF EmbedUpdated, NextRow
  <2>27. ASSUME NEW r \in Requests, NEW out, EmbedCommitted(r, out) PROVE SlotInv'
    BY <2>27 DEF EmbedCommitted
  <2>28. CASE WindowExpires BY <2>28 DEF WindowExpires
  <2>29. ASSUME NEW c \in Conns, LinkDrops(c) PROVE SlotInv'
    BY <2>29 DEF LinkDrops
  <2>30. CASE UNCHANGED vars BY <2>30 DEF vars
  <2>32. ASSUME NEW r \in Requests, NEW m \in Menu, Call(r, m) PROVE SlotInv'
    BY <2>32 DEF Call, TakeSession
  <2>33. ASSUME NEW r \in Requests, NEW out, Called(r, out) PROVE SlotInv'
    BY <2>33 DEF Called
  <2>31. QED
    BY <2>1, <2>2, <2>3, <2>4, <2>5, <2>6, <2>7, <2>8, <2>9, <2>10,
       <2>11, <2>12, <2>13, <2>14, <2>15, <2>16, <2>17, <2>18, <2>19, <2>20,
       <2>21, <2>22, <2>23, <2>24, <2>25, <2>26, <2>27, <2>28, <2>29, <2>30,
       <2>32, <2>33
       DEF Next, Ask, Proceed
<1>3. SlotInv => SlotMatchesQuery
  BY DEF SlotInv
<1>4. QED BY <1>1, <1>2, <1>3, PTL DEF Spec

-----------------------------------------------------------------------------
(***************************************************************************)
(* The calls on the connections.                                           *)
(***************************************************************************)

Queues == [Conns -> Seq(Requests)]

(* A call joins the queue of its connection, ...                           *)
LEMMA PushedHolds ==
  ASSUME NEW q \in Queues
  PROVE  \A c \in Conns, r \in Requests :
           /\ Pushed(q, c, r) \in Queues
           /\ r \in Range(Pushed(q, c, r)[c])
           /\ \A d \in Conns : \A x \in Range(q[d]) : x \in Range(Pushed(q, c, r)[d])
<1> SUFFICES ASSUME NEW c \in Conns, NEW r \in Requests
             PROVE  /\ Pushed(q, c, r) \in Queues
                    /\ r \in Range(Pushed(q, c, r)[c])
                    /\ \A d \in Conns : \A x \in Range(q[d]) :
                         x \in Range(Pushed(q, c, r)[d])
  OBVIOUS
<1>1. /\ Append(q[c], r) \in Seq(Requests)
      /\ Range(Append(q[c], r)) = Range(q[c]) \cup {r}
  BY AppendHolds DEF Queues
<1>2. QED BY <1>1 DEF Pushed, Queues

(* ... the one at its head leaves it, and the others keep their places.    *)
LEMMA PoppedHolds ==
  ASSUME opq \in Queues, conn \in [Requests -> Conns \cup {None}]
  PROVE  \A r \in Requests : AtHead(r) =>
           /\ conn[r] \in Conns
           /\ Popped(conn[r]) \in Queues
           /\ \A d \in Conns : \A x \in Range(opq[d]) \ {r} :
                x \in Range(Popped(conn[r])[d])
<1> SUFFICES ASSUME NEW r \in Requests, AtHead(r)
             PROVE  /\ conn[r] \in Conns
                    /\ Popped(conn[r]) \in Queues
                    /\ \A d \in Conns : \A x \in Range(opq[d]) \ {r} :
                         x \in Range(Popped(conn[r])[d])
  OBVIOUS
<1>1. conn[r] \in Conns /\ opq[conn[r]] # <<>> /\ Head(opq[conn[r]]) = r
  BY DEF AtHead
<1>2. /\ Tail(opq[conn[r]]) \in Seq(Requests)
      /\ Range(opq[conn[r]]) = {r} \cup Range(Tail(opq[conn[r]]))
  BY <1>1, TailHolds DEF Queues
<1>3. QED BY <1>1, <1>2 DEF Popped, Queues

-----------------------------------------------------------------------------
(***************************************************************************)
(* Types.                                                                  *)
(***************************************************************************)

(* What each kind of request carries.                                      *)
LEMMA MenuFacts ==
  ASSUME NEW m \in Menu
  PROVE  /\ m.op = "open" => m.profile \in Profile
         /\ m.op = "unlock" => m.table \in Tables
         /\ m.op = "query" => m.stmts \in Seq(Stmt) /\ Len(m.stmts) \in Nat \ {0}
<1>1. m \in Request
  BY SessionAssumption
<1>2. m.op = "open" => m.profile \in Profile
  BY <1>1 DEF Request
<1>3. m.op = "unlock" => m.table \in Tables
  BY <1>1 DEF Request
<1>4. m.op = "query" => m.stmts \in Seq(Stmt) /\ m.stmts # <<>>
  BY <1>1 DEF Request
<1>5. m.op = "query" => Len(m.stmts) \in Nat \ {0}
  BY <1>4, NonEmptyHolds
<1>6. QED BY <1>2, <1>3, <1>4, <1>5

(* The session lock is passed on from the head of its queue.               *)
LEMMA LockQueue ==
  ASSUME lockq \in Seq(Requests)
  PROVE  /\ lockq # <<>> =>
              /\ Tail(lockq) \in Seq(Requests)
              /\ \A x \in Range(lockq) : x # Head(lockq) => x \in Range(Tail(lockq))
         /\ \A x : x \in Range(lockq) => lockq # <<>>
         /\ \A r \in Requests :
              /\ Append(lockq, r) \in Seq(Requests) /\ Append(lockq, r) # <<>>
              /\ r \in Range(Append(lockq, r))
              /\ \A x \in Range(lockq) : x \in Range(Append(lockq, r))
              /\ lockq # <<>> => Head(Append(lockq, r)) = Head(lockq)
<1>1. lockq # <<>> =>
        /\ Tail(lockq) \in Seq(Requests)
        /\ \A x \in Range(lockq) : x # Head(lockq) => x \in Range(Tail(lockq))
  BY TailHolds
<1>2. \A x : x \in Range(lockq) => lockq # <<>>
  BY EmptyHolds
<1>3. ASSUME NEW r \in Requests
      PROVE  /\ Append(lockq, r) \in Seq(Requests)
             /\ r \in Range(Append(lockq, r))
             /\ \A x \in Range(lockq) : x \in Range(Append(lockq, r))
  BY AppendHolds
<1>4. ASSUME NEW r \in Requests
      PROVE  /\ Append(lockq, r) # <<>>
             /\ lockq # <<>> => Head(Append(lockq, r)) = Head(lockq)
  <2>1. Append(lockq, r) \in Seq(Requests) /\ Append(lockq, r) # <<>>
    BY <1>3, EmptyHolds
  <2>2. ASSUME lockq # <<>>
        PROVE  Append(lockq, r)[1] = lockq[1]
    BY <2>2, NonEmptyHolds
  <2>3. QED BY <2>1, <2>2
<1>5. QED BY <1>1, <1>2, <1>3, <1>4

(* What a request asked fits what it is doing; a batch is at one of its    *)
(* statements.                                                             *)
AskedInv ==
  \A r \in Requests : pc[r] # "new" =>
    /\ req[r] \in Menu
    /\ pc[r] = "lock" => req[r].op \in {"open", "close"}
    /\ pc[r] \in {"closeOld", "build", "boot", "bootClose", "enable"} =>
         req[r].op = "open"
    /\ pc[r] \in {"exec", "sync"} =>
         req[r].op = "query" /\ idx[r] \in 1..Len(req[r].stmts)
    /\ pc[r] = "embedding" => conn[r] \in Conns

Replacing == {"closeOld", "closeIt", "build", "boot", "bootClose"}

SessionType ==
  /\ session \in Conns \cup {None}
  /\ lockq \in Seq(Requests)
  /\ pending \in Nat
  /\ window \in Window \cup {None}
  /\ running \in Requests \cup {None}
  /\ cancelled \in BOOLEAN
  /\ drops \in 0..MaxDrops
  /\ unlocks \in Nat
  /\ lateLoss \in BOOLEAN
  /\ gate \in [Requests -> [conn : Conns \cup {None},
                            grants : Seq(Window \cup {None})]]

(* The session lock is held by whoever replaces the session.               *)
LockInv ==
  \A r \in Requests :
    /\ pc[r] = "lock" => r \in Range(lockq)
    /\ pc[r] \in Replacing => lockq # <<>> /\ Head(lockq) = r

ProcType ==
  /\ pc \in [Requests -> Waits]
  /\ req \in [Requests -> Menu \cup {None}]
  /\ conn \in [Requests -> Conns \cup {None}]
  /\ idx \in [Requests -> Nat]
  /\ embedded \in [Requests -> Nat]
  /\ result \in [Requests -> Answers]

DriverType ==
  /\ profile \in [Conns -> Profile \cup {None}]
  /\ link \in [Conns -> {"unused", "up", "down", "closed"}]
  /\ tx \in [Conns -> BOOLEAN]
  /\ opq \in Queues
  /\ brk \in [Conns -> BOOLEAN]
  /\ unseen \in [Conns -> SUBSET Gaps]

TypeInv == SessionType /\ ProcType /\ DriverType /\ AskedInv /\ LockInv

(* The checks of a batch give a window or nothing for every statement.     *)
LEMMA CheckedType ==
  ASSUME NEW m \in Menu, m.op = "query", window \in Window \cup {None}
  PROVE  /\ Checked(m).win \in {window, None}
         /\ Checked(m).grants \in Seq(Window \cup {None})
<1>1. DOMAIN m.stmts = 1..Len(m.stmts) /\ Len(m.stmts) \in Nat
  BY MenuFacts
<1>2. Granted(m) \in [1..Len(m.stmts) -> Window \cup {None}]
  BY <1>1 DEF Granted
<1>3. ASSUME NEW n \in Nat, NEW f \in [1..n -> Window \cup {None}]
      PROVE  f \in Seq(Window \cup {None})
  OBVIOUS
<1>4. QED BY <1>1, <1>2, <1>3 DEF Checked

(* What the parts that several actions share leave of the types.           *)
LEMMA AfterType ==
  ASSUME DriverType
  PROVE  \A c \in Conns : \A out : After(c, out) =>
           /\ link' \in [Conns -> {"unused", "up", "down", "closed"}]
           /\ brk' \in [Conns -> BOOLEAN]
<1>1. ASSUME NEW c \in Conns, NEW out, After(c, out)
      PROVE  link' \in [Conns -> {"unused", "up", "down", "closed"}]
  BY <1>1 DEF After, DriverType
<1>2. ASSUME NEW c \in Conns, NEW out, After(c, out)
      PROVE  brk' \in [Conns -> BOOLEAN]
  BY <1>2 DEF After, DriverType
<1>3. QED BY <1>1, <1>2

LEMMA SetTxType ==
  ASSUME DriverType
  PROVE  \A c \in Conns, open \in BOOLEAN, why \in SUBSET Gaps :
           SetTx(c, open, why) =>
             /\ tx' \in [Conns -> BOOLEAN]
             /\ unseen' \in [Conns -> SUBSET Gaps]
<1>1. ASSUME NEW c \in Conns, NEW open \in BOOLEAN,
             NEW why \in SUBSET Gaps, SetTx(c, open, why)
      PROVE  tx' \in [Conns -> BOOLEAN]
  BY <1>1 DEF SetTx, DriverType
<1>2. ASSUME NEW c \in Conns, NEW open \in BOOLEAN,
             NEW why \in SUBSET Gaps, SetTx(c, open, why)
      PROVE  unseen' \in [Conns -> SUBSET Gaps]
  BY <1>2 DEF SetTx, DriverType
<1>3. QED BY <1>1, <1>2

LEMMA ClearType ==
  ASSUME SessionType
  PROVE  \A r \in Requests : \A out : ClearOnLoss(r, out) =>
           /\ session' \in {session, None}
           /\ pending' \in {pending, 0}
           /\ lateLoss' \in BOOLEAN
<1>1. ASSUME NEW r \in Requests, NEW out, ClearOnLoss(r, out)
      PROVE  session' \in {session, None} /\ pending' \in {pending, 0}
  BY <1>1 DEF ClearOnLoss
<1>2. ASSUME NEW r \in Requests, NEW out, ClearOnLoss(r, out)
      PROVE  lateLoss' \in BOOLEAN
  <2>1. CASE out = "lost"
    BY <1>2, <2>1 DEF ClearOnLoss
  <2>2. CASE out # "lost"
    BY <1>2, <2>2 DEF ClearOnLoss, SessionType
  <2>3. QED BY <2>1, <2>2
<1>3. QED BY <1>1, <1>2

(* The next statement of a batch, or the end of it.                        *)
LEMMA NextStmtType ==
  ASSUME TypeInv, NEW r \in Requests, pc[r] \in {"exec", "sync"}, AtHead(r),
         NextStmt(r), UNCHANGED <<req, embedded>>
  PROVE  ProcType' /\ opq' \in Queues /\ AskedInv'
<1> USE DEF NextStmt, QueryEnds, Finish, TypeInv
<1>1. conn[r] \in Conns /\ Popped(conn[r]) \in Queues
  BY PoppedHolds DEF ProcType, DriverType
<1>2. session # None => Pushed(Popped(conn[r]), session, r) \in Queues
  BY <1>1, PushedHolds DEF SessionType
<1>3. opq' \in Queues
  BY <1>1, <1>2
<1>4. /\ req[r] \in Menu /\ req[r].op = "query"
      /\ Len(req[r].stmts) \in Nat /\ idx[r] \in 1..Len(req[r].stmts)
  BY MenuFacts DEF AskedInv
<1>5. pc' \in [Requests -> Waits] /\ result' \in [Requests -> Answers]
  BY DEF ProcType, Waits, Answers
<1>6. conn' \in [Requests -> Conns \cup {None}]
  BY DEF ProcType, SessionType
<1>7. idx' \in [Requests -> Nat]
  BY <1>4 DEF ProcType
<1>8. ProcType'
  BY <1>5, <1>6, <1>7 DEF ProcType
<1>9. AskedInv'
  BY <1>4 DEF AskedInv, ProcType
<1>10. QED BY <1>3, <1>8, <1>9

(* The next row of an embedding batch, or the end of it.                   *)
LEMMA NextRowType ==
  ASSUME TypeInv, NEW r \in Requests, conn[r] \in Conns, NEW q \in Queues, NextRow(r, q),
         embedded' \in [Requests -> Nat], UNCHANGED <<req, conn>>, pc[r] # "new"
  PROVE  ProcType' /\ opq' \in Queues /\ AskedInv'
<1> USE DEF NextRow, Finish, TypeInv
<1>1. Pushed(q, conn[r], r) \in Queues
  BY PushedHolds
<1>2. opq' \in Queues
  BY <1>1
<1>3. ProcType'
  BY DEF ProcType, Waits, Answers
<1>4. AskedInv'
  BY DEF AskedInv, ProcType
<1>5. QED BY <1>2, <1>3, <1>4

(* What a request waits for is always something it can be waiting for,     *)
(* given what it asked.                                                    *)
LEMMA TypesHold == Spec => []TypeInv
<1>1. Init => TypeInv
  <2> SUFFICES ASSUME Init PROVE TypeInv
    OBVIOUS
  <2>1. 0 \in 0..MaxDrops
    BY SessionAssumption
  <2>2. cancelled \in BOOLEAN /\ lateLoss \in BOOLEAN
    BY DEF Init
  <2>3. SessionType
    BY <2>1, <2>2 DEF Init, SessionType
  <2>4. ProcType
    BY DEF Init, ProcType, Waits, Answers
  <2>5. DriverType
    BY DEF Init, DriverType, Queues
  <2>6. AskedInv /\ LockInv
    BY DEF Init, AskedInv, LockInv, Replacing
  <2>7. QED BY <2>3, <2>4, <2>5, <2>6 DEF TypeInv
<1>2. TypeInv /\ [Next]_vars => TypeInv'
  <2> SUFFICES ASSUME TypeInv, [Next]_vars PROVE TypeInv'
    OBVIOUS
  <2> USE DEF TypeInv, Arrives, Finish, session_, query_, proc_, driver_
  <2>1. ASSUME NEW r \in Requests, NEW m \in Menu, AskLock(r, m)
       PROVE  TypeInv'
    <3>1. SessionType'
      BY <2>1, LockQueue DEF AskLock, SessionType
    <3>2. ProcType'
      BY <2>1 DEF AskLock, SessionType, ProcType, Waits, Answers
    <3>3. DriverType'
      BY <2>1 DEF AskLock, SessionType, ProcType, DriverType
    <3>4. AskedInv'
      BY <2>1 DEF AskLock, ProcType, AskedInv
    <3>5. LockInv'
      BY <2>1, LockQueue DEF AskLock, SessionType, ProcType, LockInv,
         Replacing
    <3>6. QED BY <3>1, <3>2, <3>3, <3>4, <3>5
  <2>2. ASSUME NEW r \in Requests, NEW m \in Menu, QueryRefused(r, m)
       PROVE  TypeInv'
    <3>1. SessionType'
      BY <2>2, CheckedType DEF QueryRefused, SessionType
    <3>2. ProcType'
      BY <2>2 DEF QueryRefused, SessionType, ProcType, Waits, Answers
    <3>3. DriverType'
      BY <2>2 DEF QueryRefused, SessionType, ProcType, DriverType
    <3>4. AskedInv'
      BY <2>2 DEF QueryRefused, ProcType, AskedInv
    <3>5. LockInv'
      BY <2>2 DEF QueryRefused, SessionType, ProcType, LockInv,
         Replacing
    <3>6. QED BY <3>1, <3>2, <3>3, <3>4, <3>5
  <2>3. ASSUME NEW r \in Requests, NEW m \in Menu, QueryBegins(r, m)
       PROVE  TypeInv'
    <3>1. SessionType'
      BY <2>3, CheckedType DEF QueryBegins, SessionType
    <3>2. ProcType'
      BY <2>3 DEF QueryBegins, SessionType, ProcType, Waits, Answers
    <3>3. DriverType'
      BY <2>3, PushedHolds DEF QueryBegins, SessionType, ProcType,
         DriverType
    <3>4. AskedInv'
      BY <2>3, MenuFacts DEF QueryBegins, ProcType, AskedInv
    <3>5. LockInv'
      BY <2>3 DEF QueryBegins, SessionType, ProcType, LockInv, Replacing
    <3>6. QED BY <3>1, <3>2, <3>3, <3>4, <3>5
  <2>4. ASSUME NEW r \in Requests, NEW m \in Menu, Cancel(r, m)
       PROVE  TypeInv'
    <3>1. SessionType'
      BY <2>4 DEF Cancel, SessionType
    <3>2. ProcType'
      BY <2>4 DEF Cancel, SessionType, ProcType, Waits, Answers
    <3>3. DriverType'
      BY <2>4 DEF Cancel, SessionType, ProcType, DriverType
    <3>4. AskedInv'
      BY <2>4 DEF Cancel, ProcType, AskedInv
    <3>5. LockInv'
      BY <2>4 DEF Cancel, SessionType, ProcType, LockInv, Replacing
    <3>6. QED BY <3>1, <3>2, <3>3, <3>4, <3>5
  <2>5. ASSUME NEW r \in Requests, NEW m \in Menu, Unlock(r, m)
       PROVE  TypeInv'
    <3>1. SessionType'
      BY <2>5, MenuFacts DEF Unlock, Window, Safety, SessionType
    <3>2. ProcType'
      BY <2>5 DEF Unlock, SessionType, ProcType, Waits, Answers
    <3>3. DriverType'
      BY <2>5 DEF Unlock, SessionType, ProcType, DriverType
    <3>4. AskedInv'
      BY <2>5 DEF Unlock, ProcType, AskedInv
    <3>5. LockInv'
      BY <2>5 DEF Unlock, SessionType, ProcType, LockInv, Replacing
    <3>6. QED BY <3>1, <3>2, <3>3, <3>4, <3>5
  <2>6. ASSUME NEW r \in Requests, NEW m \in Menu, NoSuchMethod(r, m)
       PROVE  TypeInv'
    <3>1. SessionType'
      BY <2>6 DEF NoSuchMethod, SessionType
    <3>2. ProcType'
      BY <2>6 DEF NoSuchMethod, SessionType, ProcType, Waits, Answers
    <3>3. DriverType'
      BY <2>6 DEF NoSuchMethod, SessionType, ProcType, DriverType
    <3>4. AskedInv'
      BY <2>6 DEF NoSuchMethod, ProcType, AskedInv
    <3>5. LockInv'
      BY <2>6 DEF NoSuchMethod, SessionType, ProcType, LockInv,
         Replacing
    <3>6. QED BY <3>1, <3>2, <3>3, <3>4, <3>5
  <2>7. ASSUME NEW r \in Requests, NEW m \in Menu, EndTx(r, m)
       PROVE  TypeInv'
    <3>1. SessionType'
      BY <2>7 DEF EndTx, TakeSession, SessionType
    <3>2. ProcType'
      BY <2>7 DEF EndTx, TakeSession, SessionType, ProcType, Waits,
         Answers
    <3>3. DriverType'
      BY <2>7, PushedHolds DEF EndTx, TakeSession, SessionType,
         ProcType, DriverType
    <3>4. AskedInv'
      BY <2>7 DEF EndTx, TakeSession, ProcType, AskedInv
    <3>5. LockInv'
      BY <2>7 DEF EndTx, TakeSession, SessionType, ProcType, LockInv,
         Replacing
    <3>6. QED BY <3>1, <3>2, <3>3, <3>4, <3>5
  <2>8. ASSUME NEW r \in Requests, NEW m \in Menu, TxState(r, m)
       PROVE  TypeInv'
    <3>1. SessionType'
      BY <2>8 DEF TxState, TakeSession, SessionType
    <3>2. ProcType'
      BY <2>8 DEF TxState, TakeSession, SessionType, ProcType, Waits,
         Answers
    <3>3. DriverType'
      BY <2>8, PushedHolds DEF TxState, TakeSession, SessionType,
         ProcType, DriverType
    <3>4. AskedInv'
      BY <2>8 DEF TxState, TakeSession, ProcType, AskedInv
    <3>5. LockInv'
      BY <2>8 DEF TxState, TakeSession, SessionType, ProcType, LockInv,
         Replacing
    <3>6. QED BY <3>1, <3>2, <3>3, <3>4, <3>5
  <2>9. ASSUME NEW r \in Requests, NEW m \in Menu, Embed(r, m)
       PROVE  TypeInv'
    <3>1. SessionType'
      BY <2>9 DEF Embed, TakeSession, SessionType
    <3>2. ProcType'
      BY <2>9 DEF Embed, TakeSession, SessionType, ProcType, Waits,
         Answers
    <3>3. DriverType'
      BY <2>9, PushedHolds DEF Embed, TakeSession, SessionType,
         ProcType, DriverType
    <3>4. AskedInv'
      BY <2>9 DEF Embed, TakeSession, ProcType, AskedInv
    <3>5. LockInv'
      BY <2>9 DEF Embed, TakeSession, SessionType, ProcType, LockInv,
         Replacing
    <3>6. QED BY <3>1, <3>2, <3>3, <3>4, <3>5
  <2>10. ASSUME NEW r \in Requests, CloseFirst(r)
       PROVE  TypeInv'
    <3>1. SessionType'
      BY <2>10 DEF CloseFirst, HoldsLock, SessionType
    <3>2. ProcType'
      BY <2>10 DEF CloseFirst, HoldsLock, SessionType, ProcType, Waits,
         Answers
    <3>3. DriverType'
      BY <2>10, PushedHolds DEF CloseFirst, HoldsLock, SessionType,
         ProcType, DriverType
    <3>4. AskedInv'
      BY <2>10 DEF CloseFirst, HoldsLock, ProcType, AskedInv
    <3>5. LockInv'
      BY <2>10, LockQueue DEF CloseFirst, HoldsLock, SessionType,
         ProcType, LockInv, Replacing
    <3>6. QED BY <3>1, <3>2, <3>3, <3>4, <3>5
  <2>11. ASSUME NEW r \in Requests, NothingToClose(r)
       PROVE  TypeInv'
    <3>1. SessionType'
      BY <2>11, LockQueue DEF NothingToClose, HoldsLock, LockInv,
         Replacing, SessionType
    <3>2. ProcType'
      BY <2>11 DEF NothingToClose, HoldsLock, SessionType, ProcType,
         Waits, Answers
    <3>3. DriverType'
      BY <2>11 DEF NothingToClose, HoldsLock, SessionType, ProcType,
         DriverType
    <3>4. AskedInv'
      BY <2>11 DEF NothingToClose, HoldsLock, ProcType, AskedInv
    <3>5. LockInv'
      BY <2>11, LockQueue DEF NothingToClose, HoldsLock, SessionType,
         ProcType, LockInv, Replacing
    <3>6. QED BY <3>1, <3>2, <3>3, <3>4, <3>5
  <2>12. ASSUME NEW r \in Requests, Closed(r)
       PROVE  TypeInv'
    <3>1. SessionType'
      BY <2>12, LockQueue DEF Closed, LockInv, Replacing, SessionType
    <3>2. ProcType'
      BY <2>12 DEF Closed, SessionType, ProcType, Waits, Answers
    <3>3. DriverType'
      BY <2>12, PoppedHolds, SetTxType DEF Gaps, Closed, SessionType,
         ProcType, DriverType
    <3>4. AskedInv'
      BY <2>12 DEF Closed, ProcType, AskedInv
    <3>5. LockInv'
      BY <2>12, LockQueue DEF Closed, SessionType, ProcType, LockInv,
         Replacing
    <3>6. QED BY <3>1, <3>2, <3>3, <3>4, <3>5
  <2>13. ASSUME NEW r \in Requests, Built(r)
       PROVE  TypeInv'
    <3>1. SessionType'
      BY <2>13 DEF Built, SessionType
    <3>2. ProcType'
      BY <2>13 DEF Built, SessionType, ProcType, Waits, Answers
    <3>3. DriverType'
      <4>1. PICK c \in Conns : /\ link' = [link EXCEPT ![c] = "up"]
                               /\ profile' = [profile EXCEPT ![c] = req[r].profile]
                               /\ opq' = Pushed(opq, c, r)
        BY <2>13 DEF Built
      <4>2. req[r] \in Menu /\ req[r].op = "open"
        BY <2>13 DEF Built, AskedInv
      <4>3. req[r].profile \in Profile
        BY <4>2, MenuFacts
      <4>4. QED BY <2>13, <4>1, <4>3, PushedHolds DEF Built, DriverType
    <3>4. AskedInv'
      BY <2>13 DEF Built, ProcType, AskedInv
    <3>5. LockInv'
      BY <2>13 DEF Built, SessionType, ProcType, LockInv, Replacing
    <3>6. QED BY <3>1, <3>2, <3>3, <3>4, <3>5
  <2>14. ASSUME NEW r \in Requests, BuildFails(r)
       PROVE  TypeInv'
    <3>1. SessionType'
      BY <2>14, LockQueue DEF BuildFails, LockInv, Replacing,
         SessionType
    <3>2. ProcType'
      BY <2>14 DEF BuildFails, SessionType, ProcType, Waits, Answers
    <3>3. DriverType'
      BY <2>14 DEF BuildFails, SessionType, ProcType, DriverType
    <3>4. AskedInv'
      BY <2>14 DEF BuildFails, ProcType, AskedInv
    <3>5. LockInv'
      BY <2>14, LockQueue DEF BuildFails, SessionType, ProcType,
         LockInv, Replacing
    <3>6. QED BY <3>1, <3>2, <3>3, <3>4, <3>5
  <2>15. ASSUME NEW r \in Requests, BootClosed(r)
       PROVE  TypeInv'
    <3>1. SessionType'
      BY <2>15, LockQueue DEF BootClosed, LockInv, Replacing,
         SessionType
    <3>2. ProcType'
      BY <2>15 DEF BootClosed, SessionType, ProcType, Waits, Answers
    <3>3. DriverType'
      BY <2>15, PoppedHolds DEF BootClosed, SessionType, ProcType,
         DriverType
    <3>4. AskedInv'
      BY <2>15 DEF BootClosed, ProcType, AskedInv
    <3>5. LockInv'
      BY <2>15, LockQueue DEF BootClosed, SessionType, ProcType,
         LockInv, Replacing
    <3>6. QED BY <3>1, <3>2, <3>3, <3>4, <3>5
  <2>16. ASSUME NEW r \in Requests, StmtRan(r)
       PROVE  TypeInv'
    <3>1. conn[r] \in Conns /\ Popped(conn[r]) \in Queues
      BY <2>16, PoppedHolds DEF StmtRan, ProcType, DriverType
    <3>2. ProcType' /\ opq' \in Queues /\ AskedInv'
      <4>1. CASE Consults(StmtOf(r).kind)
        <5>1. opq' \in Queues
          BY <2>16, <3>1, <4>1, PushedHolds DEF StmtRan
        <5>2. ProcType'
          BY <2>16, <4>1 DEF StmtRan, ProcType, Waits
        <5>3. AskedInv'
          BY <2>16, <4>1 DEF StmtRan, ProcType, AskedInv
        <5>4. QED BY <5>1, <5>2, <5>3
      <4>2. CASE ~Consults(StmtOf(r).kind)
        BY <2>16, <4>2, NextStmtType DEF StmtRan
      <4>3. QED BY <4>1, <4>2
    <3>3. \A k : TxAfter(k, tx[conn[r]]) \subseteq BOOLEAN
      BY <3>1 DEF TxAfter, DriverType
    <3>4. DriverType'
      BY <2>16, <3>1, <3>2, <3>3, AfterType, SetTxType DEF StmtRan, Opening, Gaps, DriverType
    <3>5. SessionType'
      BY <2>16 DEF StmtRan, NextStmt, QueryEnds, SessionType
    <3>6. LockInv'
      BY <2>16 DEF StmtRan, NextStmt, QueryEnds, ProcType, LockInv, Replacing
    <3>7. QED BY <3>2, <3>4, <3>5, <3>6
  <2>17. ASSUME NEW r \in Requests, EmbeddingReady(r)
       PROVE  TypeInv'
    <3>1. SessionType'
      BY <2>17 DEF EmbeddingReady, SessionType
    <3>2. ProcType'
      BY <2>17 DEF EmbeddingReady, SessionType, ProcType, Waits, Answers
    <3>3. DriverType'
      BY <2>17, PushedHolds DEF EmbeddingReady, AskedInv, SessionType,
         ProcType, DriverType
    <3>4. AskedInv'
      BY <2>17 DEF EmbeddingReady, ProcType, AskedInv
    <3>5. LockInv'
      BY <2>17 DEF EmbeddingReady, SessionType, ProcType, LockInv,
         Replacing
    <3>6. QED BY <3>1, <3>2, <3>3, <3>4, <3>5
  <2>18. ASSUME NEW r \in Requests, EmbeddingFails(r)
       PROVE  TypeInv'
    <3>1. conn[r] \in Conns /\ opq \in Queues /\ embedded' \in [Requests -> Nat]
      BY <2>18 DEF EmbeddingFails, AskedInv, DriverType, ProcType
    <3>2. ProcType' /\ opq' \in Queues /\ AskedInv'
      BY <2>18, <3>1, NextRowType DEF EmbeddingFails
    <3>3. DriverType'
      BY <2>18, <3>2 DEF EmbeddingFails, DriverType
    <3>4. SessionType'
      BY <2>18 DEF EmbeddingFails, SessionType
    <3>5. LockInv'
      BY <2>18 DEF EmbeddingFails, NextRow, ProcType, LockInv, Replacing
    <3>6. QED BY <3>2, <3>3, <3>4, <3>5
  <2>19. ASSUME NEW r \in Requests, NEW out, Booted(r, out)
       PROVE  TypeInv'
    <3>1. SessionType'
      <4>1. conn[r] \in Conns
        BY <2>19, PoppedHolds DEF Booted, ProcType, DriverType
      <4>2. Tail(lockq) \in Seq(Requests)
        BY <2>19, LockQueue DEF Booted, LockInv, Replacing, SessionType
      <4>3. session' \in {session, conn[r]} /\ lockq' \in {lockq, Tail(lockq)}
        BY <2>19 DEF Booted
      <4>4. QED BY <2>19, <4>1, <4>2, <4>3 DEF Booted, SessionType
    <3>2. ProcType'
      BY <2>19 DEF Booted, SessionType, ProcType, Waits, Answers
    <3>3. DriverType'
      BY <2>19, PoppedHolds, PushedHolds, AfterType DEF Booted,
         SessionType, ProcType, DriverType
    <3>4. AskedInv'
      BY <2>19 DEF Booted, ProcType, AskedInv
    <3>5. LockInv'
      <4>1. CASE out = "ok"
        <5>1. /\ lockq # <<>> /\ Head(lockq) = r /\ lockq' = Tail(lockq)
              /\ pc' = [pc EXCEPT ![r] = "enable"]
          BY <2>19, <4>1 DEF Booted, LockInv, Replacing
        <5>2. QED
          BY <5>1, LockQueue DEF SessionType, ProcType, LockInv, Replacing
      <4>2. CASE out # "ok"
        BY <2>19, <4>2 DEF Booted, ProcType, LockInv, Replacing
      <4>3. QED BY <4>1, <4>2
    <3>6. QED BY <3>1, <3>2, <3>3, <3>4, <3>5
  <2>20. ASSUME NEW r \in Requests, NEW out, Enabled(r, out)
       PROVE  TypeInv'
    <3>1. SessionType'
      <4>1. ClearOnLoss(r, out)
        BY <2>20 DEF Enabled
      <4>2. /\ session' \in {session, None} /\ pending' \in {pending, 0}
            /\ lateLoss' \in BOOLEAN
        BY <4>1, ClearType
      <4>3. session' \in Conns \cup {None} /\ pending' \in Nat
        BY <4>2 DEF SessionType
      <4>4. QED BY <2>20, <4>2, <4>3 DEF Enabled, SessionType
    <3>2. ProcType'
      BY <2>20 DEF Enabled, SessionType, ProcType, Waits, Answers
    <3>3. DriverType'
      BY <2>20, PoppedHolds, AfterType DEF Enabled, SessionType,
         ProcType, DriverType
    <3>4. AskedInv'
      BY <2>20 DEF Enabled, ProcType, AskedInv
    <3>5. LockInv'
      BY <2>20 DEF Enabled, SessionType, ProcType, LockInv, Replacing
    <3>6. QED BY <3>1, <3>2, <3>3, <3>4, <3>5
  <2>21. ASSUME NEW r \in Requests, NEW out, StmtFailed(r, out)
       PROVE  TypeInv'
    <3>1. SessionType'
      <4>1. ClearOnLoss(r, out)
        BY <2>21 DEF StmtFailed
      <4>2. /\ session' \in {session, None} /\ pending' \in {pending, 0}
            /\ lateLoss' \in BOOLEAN
        BY <4>1, ClearType
      <4>3. session' \in Conns \cup {None} /\ pending' \in Nat
        BY <4>2 DEF SessionType
      <4>4. QED BY <2>21, <4>2, <4>3 DEF StmtFailed, QueryEnds, SessionType
    <3>2. ProcType'
      BY <2>21 DEF StmtFailed, QueryEnds, SessionType, ProcType, Waits,
         Answers
    <3>3. DriverType'
      <4>1. conn[r] \in Conns /\ Popped(conn[r]) \in Queues
        BY <2>21, PoppedHolds DEF StmtFailed, ProcType, DriverType
      <4>2. tx[conn[r]] \in BOOLEAN
        BY <4>1 DEF DriverType
      <4>3. PICK open \in BOOLEAN : SetTx(conn[r], open, {})
        BY <2>21, <4>2 DEF StmtFailed
      <4>4. QED
        BY <2>21, <4>1, <4>2, <4>3, AfterType, SetTxType
           DEF StmtFailed, QueryEnds, DriverType
    <3>4. AskedInv'
      BY <2>21 DEF StmtFailed, QueryEnds, ProcType, AskedInv
    <3>5. LockInv'
      BY <2>21 DEF StmtFailed, QueryEnds, SessionType, ProcType,
         LockInv, Replacing
    <3>6. QED BY <3>1, <3>2, <3>3, <3>4, <3>5
  <2>22. ASSUME NEW r \in Requests, NEW out, Synced(r, out)
       PROVE  TypeInv'
    <3>1. conn[r] \in Conns
      BY <2>22, PoppedHolds DEF Synced, ProcType, DriverType
    <3>2. ProcType' /\ opq' \in Queues /\ AskedInv'
      BY <2>22, NextStmtType DEF Synced
    <3>3. tx[conn[r]] \in BOOLEAN
      BY <3>1 DEF DriverType
    <3>4. DriverType'
      BY <2>22, <3>1, <3>2, <3>3, AfterType, SetTxType DEF Synced, Gaps, DriverType
    <3>5. SessionType'
      BY <2>22 DEF Synced, NextStmt, QueryEnds, SessionType
    <3>6. LockInv'
      BY <2>22 DEF Synced, NextStmt, QueryEnds, ProcType, LockInv, Replacing
    <3>7. QED BY <3>2, <3>4, <3>5, <3>6
  <2>23. ASSUME NEW r \in Requests, NEW out, TxEnded(r, out)
       PROVE  TypeInv'
    <3>1. SessionType'
      <4>1. CASE out = "ok"
        BY <2>23, <4>1 DEF TxEnded, SessionType
      <4>2. CASE out # "ok"
        <5>1. ClearOnLoss(r, out)
          BY <2>23, <4>2 DEF TxEnded
        <5>2. /\ session' \in {session, None} /\ pending' \in {pending, 0}
              /\ lateLoss' \in BOOLEAN
          BY <5>1, ClearType
        <5>3. session' \in Conns \cup {None} /\ pending' \in Nat
          BY <5>2 DEF SessionType
        <5>4. QED BY <2>23, <5>2, <5>3 DEF TxEnded, SessionType
      <4>3. QED BY <4>1, <4>2
    <3>2. ProcType'
      BY <2>23 DEF TxEnded, SessionType, ProcType, Waits, Answers
    <3>3. DriverType'
      BY <2>23, PoppedHolds, AfterType, SetTxType DEF Gaps, TxEnded,
         SessionType, ProcType, DriverType
    <3>4. AskedInv'
      BY <2>23 DEF TxEnded, ProcType, AskedInv
    <3>5. LockInv'
      BY <2>23 DEF TxEnded, SessionType, ProcType, LockInv, Replacing
    <3>6. QED BY <3>1, <3>2, <3>3, <3>4, <3>5
  <2>24. ASSUME NEW r \in Requests, NEW out, Consulted(r, out)
       PROVE  TypeInv'
    <3>1. SessionType'
      BY <2>24 DEF Consulted, SessionType
    <3>2. ProcType'
      BY <2>24 DEF Consulted, SessionType, ProcType, Waits, Answers
    <3>3. DriverType'
      BY <2>24, PoppedHolds, AfterType, SetTxType DEF Gaps, Consulted,
         SessionType, ProcType, DriverType
    <3>4. AskedInv'
      BY <2>24 DEF Consulted, ProcType, AskedInv
    <3>5. LockInv'
      BY <2>24 DEF Consulted, SessionType, ProcType, LockInv, Replacing
    <3>6. QED BY <3>1, <3>2, <3>3, <3>4, <3>5
  <2>25. ASSUME NEW r \in Requests, NEW out, EmbedRead(r, out)
       PROVE  TypeInv'
    <3>1. SessionType'
      <4>1. ClearOnLoss(r, out)
        BY <2>25 DEF EmbedRead
      <4>2. /\ session' \in {session, None} /\ pending' \in {pending, 0}
            /\ lateLoss' \in BOOLEAN
        BY <4>1, ClearType
      <4>3. session' \in Conns \cup {None} /\ pending' \in Nat
        BY <4>2 DEF SessionType
      <4>4. QED BY <2>25, <4>2, <4>3 DEF EmbedRead, SessionType
    <3>2. ProcType'
      <4>1. CASE out = "ok"
        BY <2>25, <4>1 DEF EmbedRead, ProcType, Waits
      <4>2. CASE out # "ok"
        BY <2>25, <4>2 DEF EmbedRead, ProcType, Waits, Answers
      <4>3. QED BY <4>1, <4>2
    <3>3. DriverType'
      BY <2>25, PoppedHolds, AfterType DEF EmbedRead, SessionType,
         ProcType, DriverType
    <3>4. AskedInv'
      BY <2>25, PoppedHolds DEF EmbedRead, DriverType, ProcType,
         AskedInv
    <3>5. LockInv'
      BY <2>25 DEF EmbedRead, SessionType, ProcType, LockInv, Replacing
    <3>6. QED BY <3>1, <3>2, <3>3, <3>4, <3>5
  <2>26. ASSUME NEW r \in Requests, NEW out, EmbedUpdated(r, out)
       PROVE  TypeInv'
    <3>1. conn[r] \in Conns /\ Popped(conn[r]) \in Queues
      BY <2>26, PoppedHolds DEF EmbedUpdated, ProcType, DriverType
    <3>2. embedded' \in [Requests -> Nat]
      <4>1. CASE out = "ok"
        BY <2>26, <4>1 DEF EmbedUpdated, ProcType
      <4>2. CASE out # "ok"
        BY <2>26, <4>2 DEF EmbedUpdated, ProcType
      <4>3. QED BY <4>1, <4>2
    <3>3. ProcType' /\ opq' \in Queues /\ AskedInv'
      BY <2>26, <3>1, <3>2, NextRowType DEF EmbedUpdated
    <3>4. DriverType'
      BY <2>26, <3>1, <3>3, AfterType, SetTxType DEF EmbedUpdated, Opening, Gaps, DriverType
    <3>5. SessionType'
      BY <2>26 DEF EmbedUpdated, SessionType
    <3>6. LockInv'
      BY <2>26 DEF EmbedUpdated, NextRow, ProcType, LockInv, Replacing
    <3>7. QED BY <3>3, <3>4, <3>5, <3>6
  <2>27. ASSUME NEW r \in Requests, NEW out, EmbedCommitted(r, out)
       PROVE  TypeInv'
    <3>1. SessionType'
      <4>1. ClearOnLoss(r, out)
        BY <2>27 DEF EmbedCommitted
      <4>2. /\ session' \in {session, None} /\ pending' \in {pending, 0}
            /\ lateLoss' \in BOOLEAN
        BY <4>1, ClearType
      <4>3. session' \in Conns \cup {None} /\ pending' \in Nat
        BY <4>2 DEF SessionType
      <4>4. QED BY <2>27, <4>2, <4>3 DEF EmbedCommitted, SessionType
    <3>2. ProcType'
      BY <2>27 DEF EmbedCommitted, SessionType, ProcType, Waits, Answers
    <3>3. DriverType'
      BY <2>27, PoppedHolds, AfterType, SetTxType DEF Gaps, EmbedCommitted,
         SessionType, ProcType, DriverType
    <3>4. AskedInv'
      BY <2>27 DEF EmbedCommitted, ProcType, AskedInv
    <3>5. LockInv'
      BY <2>27 DEF EmbedCommitted, SessionType, ProcType, LockInv,
         Replacing
    <3>6. QED BY <3>1, <3>2, <3>3, <3>4, <3>5
  <2>28. ASSUME WindowExpires
       PROVE  TypeInv'
    <3>1. SessionType'
      BY <2>28 DEF WindowExpires, SessionType
    <3>2. ProcType'
      BY <2>28 DEF WindowExpires, SessionType, ProcType, Waits, Answers
    <3>3. DriverType'
      BY <2>28 DEF WindowExpires, SessionType, ProcType, DriverType
    <3>4. AskedInv'
      BY <2>28 DEF WindowExpires, ProcType, AskedInv
    <3>5. LockInv'
      BY <2>28 DEF WindowExpires, SessionType, ProcType, LockInv,
         Replacing
    <3>6. QED BY <3>1, <3>2, <3>3, <3>4, <3>5
  <2>29. ASSUME NEW c \in Conns, LinkDrops(c)
       PROVE  TypeInv'
    <3>1. MaxDrops \in Nat
      BY SessionAssumption
    <3>2. SessionType'
      BY <2>29, <3>1 DEF LinkDrops, SessionType
    <3>3. DriverType'
      BY <2>29, SetTxType DEF LinkDrops, DriverType
    <3>4. ProcType' /\ AskedInv' /\ LockInv'
      BY <2>29 DEF LinkDrops, ProcType, AskedInv, LockInv
    <3>5. QED BY <3>2, <3>3, <3>4
  <2>30. ASSUME UNCHANGED vars
       PROVE  TypeInv'
    <3>1. SessionType'
      BY <2>30 DEF vars, SessionType
    <3>2. ProcType'
      BY <2>30 DEF vars, SessionType, ProcType, Waits, Answers
    <3>3. DriverType'
      BY <2>30 DEF vars, SessionType, ProcType, DriverType
    <3>4. AskedInv'
      BY <2>30 DEF vars, ProcType, AskedInv
    <3>5. LockInv'
      BY <2>30 DEF vars, SessionType, ProcType, LockInv, Replacing
    <3>6. QED BY <3>1, <3>2, <3>3, <3>4, <3>5
  <2>32. ASSUME NEW r \in Requests, NEW m \in Menu, Call(r, m)
       PROVE  TypeInv'
    <3>1. SessionType'
      BY <2>32 DEF Call, TakeSession, SessionType
    <3>2. ProcType'
      BY <2>32 DEF Call, TakeSession, SessionType, ProcType, Waits,
         Answers
    <3>3. DriverType'
      BY <2>32, PushedHolds DEF Call, TakeSession, SessionType,
         ProcType, DriverType
    <3>4. AskedInv'
      BY <2>32 DEF Call, TakeSession, ProcType, AskedInv
    <3>5. LockInv'
      BY <2>32 DEF Call, TakeSession, SessionType, ProcType, LockInv,
         Replacing
    <3>6. QED BY <3>1, <3>2, <3>3, <3>4, <3>5
  <2>33. ASSUME NEW r \in Requests, NEW out, Called(r, out)
       PROVE  TypeInv'
    <3>1. SessionType'
      <4>1. ClearOnLoss(r, out)
        BY <2>33 DEF Called
      <4>2. /\ session' \in {session, None} /\ pending' \in {pending, 0}
            /\ lateLoss' \in BOOLEAN
        BY <4>1, ClearType
      <4>3. session' \in Conns \cup {None} /\ pending' \in Nat
        BY <4>2 DEF SessionType
      <4>4. QED BY <2>33, <4>2, <4>3 DEF Called, SessionType
    <3>2. ProcType'
      BY <2>33 DEF Called, SessionType, ProcType, Waits, Answers
    <3>3. DriverType'
      <4>1. conn[r] \in Conns
        BY <2>33 DEF Called, AtHead, ProcType
      <4>2. PICK open \in BOOLEAN : SetTx(conn[r], open, Opening(conn[r], "call"))
        BY <2>33, <4>1 DEF Called, DriverType
      <4>3. Opening(conn[r], "call") \in SUBSET Gaps
        BY DEF Opening, Gaps
      <4>4. tx' \in [Conns -> BOOLEAN] /\ unseen' \in [Conns -> SUBSET Gaps]
        BY <4>1, <4>2, <4>3, SetTxType
      <4>5. QED BY <2>33, <4>1, <4>4, PoppedHolds, AfterType DEF Called, SessionType, ProcType, DriverType
    <3>4. AskedInv'
      BY <2>33 DEF Called, ProcType, AskedInv
    <3>5. LockInv'
      BY <2>33 DEF Called, SessionType, ProcType, LockInv,
         Replacing
    <3>6. QED BY <3>1, <3>2, <3>3, <3>4, <3>5
  <2>31. QED
    BY <2>1, <2>2, <2>3, <2>4, <2>5, <2>6, <2>7, <2>8, <2>9, <2>10,
       <2>11, <2>12, <2>13, <2>14, <2>15, <2>16, <2>17, <2>18, <2>19, <2>20,
       <2>21, <2>22, <2>23, <2>24, <2>25, <2>26, <2>27, <2>28, <2>29, <2>30,
       <2>32, <2>33
       DEF Next, Ask, Proceed
<1>3. QED BY <1>1, <1>2, PTL DEF Spec

(* Every variable keeps its type.                                          *)
THEOREM TypeCorrect == Spec => []TypeOK
<1>1. TypeInv => TypeOK
  BY DEF TypeInv, SessionType, ProcType, DriverType, Queues, TypeOK
<1>2. QED BY <1>1, TypesHold, PTL

-----------------------------------------------------------------------------
(***************************************************************************)
(* Sessions and the calls on them.                                         *)
(***************************************************************************)

(* Awaits on a connection that was the session when the call began, and    *)
(* those of embed.batch, which keeps its connection between its calls.     *)
OnSession ==
  {"enable", "exec", "sync", "commit", "rollback", "consult", "embedRead", "call"}
Embedding == {"embedding", "embedUpdate", "embedCommit"}
Calling == {"closeOld", "closeIt", "boot", "bootClose", "embedUpdate", "embedCommit"}
             \cup OnSession

(* A request that waits for a call has it in the queue of its connection.  *)
CallInv ==
  /\ session # None => link[session] # "unused"
  /\ \A r \in Requests :
       /\ pc[r] \in Calling \cup {"embedding"} =>
            conn[r] \in Conns /\ link[conn[r]] # "unused"
       /\ pc[r] \in Calling => r \in Range(opq[conn[r]])

(* Connections never built carry nothing, the others have their params.    *)
BuiltInv ==
  \A c \in Conns : IF link[c] = "unused" THEN ~tx[c] ELSE profile[c] \in Profile

(* The holder of the lock closes the session it found, or one that was     *)
(* lost meanwhile; while it builds another there is none.                  *)
HolderInv ==
  \A r \in Requests :
    /\ pc[r] \in {"closeOld", "closeIt"} => session \in {conn[r], None}
    /\ pc[r] \in {"build", "boot", "bootClose"} => session = None

(* Whoever is in a call on the session is on the one there is, or on one   *)
(* that is closed; an embedding may be on a closed one while another is    *)
(* open.  A batch is on the connection it was checked for.                 *)
StaleInv ==
  ~lateLoss => \A r \in Requests :
    /\ pc[r] \in OnSession \cup Embedding =>
         conn[r] = session \/ link[conn[r]] = "closed"
    /\ pc[r] \in OnSession => session \in {conn[r], None}
    /\ pc[r] \in {"exec", "sync"} => conn[r] = gate[r].conn

SessionInv ==
  CallInv /\ BuiltInv /\ HolderInv /\ StaleInv /\ OrphanOnlyByLateLoss /\ RunsWhereChecked

(* Most steps of a request r do not replace the session.  Such a step      *)
(* leaves the other requests where they are, and r on the session of the   *)
(* moment or on the connection it had; ...                                 *)
LocalProc(r) ==
  /\ \A x \in Requests \ {r} : pc'[x] = pc[x] /\ conn'[x] = conn[x] /\ gate'[x] = gate[x]
  /\ pc[r] \notin Replacing /\ pc'[r] \notin Replacing
  /\ pc'[r] \in OnSession =>
       \/ conn'[r] = session /\ session \in Conns
       \/ conn'[r] = conn[r] /\ pc[r] \in OnSession
  /\ pc'[r] \in Embedding => conn'[r] = conn[r] /\ pc[r] \in {"embedRead"} \cup Embedding
  /\ pc'[r] \in {"exec", "sync"} =>
       \/ conn'[r] = gate'[r].conn /\ conn'[r] = session
       \/ gate'[r] = gate[r] /\ pc[r] \in {"exec", "sync"}
  /\ \A x \in ran' : x \in ran
                       \/ (pc[r] = "exec" /\ x.conn = conn[r] /\ x.checkedOn = gate[r].conn)

(* ... it builds no connection; ...                                        *)
LocalLinks ==
  /\ \A c \in Conns :
       /\ link'[c] = link[c] \/ (link[c] # "unused" /\ link'[c] = "closed")
       /\ tx'[c] = tx[c] \/ link[c] # "unused"
  /\ profile' = profile

(* ... it leaves the calls of the others in their queues; ...              *)
Kept(r) == \A d \in Conns : \A x \in Range(opq[d]) \ {r} : x \in Range(opq'[d])
LocalCalls(r) == Kept(r) /\ (pc'[r] \in Calling => r \in Range(opq'[conn'[r]]))

(* ... and a session that it clears it has found closed.                   *)
LocalSession(r) ==
  /\ lateLoss => lateLoss'
  /\ \/ session' = session
     \/ /\ session' = None /\ pc'[r] = "done"
        /\ conn[r] \in Conns /\ link'[conn[r]] = "closed"
        /\ ~lateLoss' => session \in {None, conn[r]}

LEMMA LocalStep ==
  ASSUME TypeInv, TypeInv', SessionInv, NEW r \in Requests,
         LocalProc(r), LocalLinks, LocalCalls(r), LocalSession(r)
  PROVE  SessionInv'
<1> USE DEF SessionInv, TypeInv, ProcType, DriverType, Replacing
<1>1. CallInv'
  <2>1. session' # None => link'[session'] # "unused"
    BY DEF LocalLinks, LocalSession, CallInv, SessionType
  <2>2. ASSUME NEW x \in Requests, x # r
        PROVE  /\ pc'[x] \in Calling \cup {"embedding"} =>
                    conn'[x] \in Conns /\ link'[conn'[x]] # "unused"
               /\ pc'[x] \in Calling => x \in Range(opq'[conn'[x]])
    <3>1. pc'[x] = pc[x] /\ conn'[x] = conn[x]
      BY <2>2 DEF LocalProc
    <3>2. pc[x] \in Calling \cup {"embedding"} =>
            conn[x] \in Conns /\ link[conn[x]] # "unused"
      BY DEF CallInv
    <3>3. pc[x] \in Calling => conn[x] \in Conns /\ x \in Range(opq[conn[x]])
      BY <3>2 DEF CallInv
    <3>4. pc[x] \in Calling => x \in Range(opq'[conn[x]])
      BY <2>2, <3>3 DEF LocalCalls, Kept
    <3>5. QED BY <3>1, <3>2, <3>4 DEF LocalLinks
  <2>3. pc'[r] \in Calling \cup {"embedding"} =>
          conn'[r] \in Conns /\ link'[conn'[r]] # "unused"
    <3>1. pc'[r] \in Calling \cup {"embedding"} =>
            pc'[r] \in OnSession \cup Embedding
      BY DEF LocalProc, Calling, Embedding
    <3>2. CASE conn'[r] = session /\ session \in Conns
      BY <3>2, SessionAssumption DEF LocalLinks, CallInv
    <3>3. CASE conn'[r] = conn[r] /\ pc[r] \in OnSession \cup Embedding
      <4>1. pc[r] \in Calling \cup {"embedding"}
        BY <3>3 DEF Calling, Embedding
      <4>2. conn[r] \in Conns /\ link[conn[r]] # "unused"
        BY <4>1 DEF CallInv
      <4>3. QED BY <3>3, <4>2 DEF LocalLinks
    <3>4. QED BY <3>1, <3>2, <3>3 DEF LocalProc, OnSession, Embedding
  <2>4. pc'[r] \in Calling => r \in Range(opq'[conn'[r]])
    BY DEF LocalCalls
  <2>5. QED BY <2>1, <2>2, <2>3, <2>4 DEF CallInv
<1>2. BuiltInv'
  BY DEF LocalLinks, BuiltInv
<1>3. HolderInv'
  BY DEF LocalProc, LocalSession, HolderInv
<1>4. StaleInv'
  <2> SUFFICES ASSUME ~lateLoss', NEW x \in Requests
               PROVE  /\ pc'[x] \in OnSession \cup Embedding =>
                           conn'[x] = session' \/ link'[conn'[x]] = "closed"
                      /\ pc'[x] \in OnSession => session' \in {conn'[x], None}
                      /\ pc'[x] \in {"exec", "sync"} => conn'[x] = gate'[x].conn
    BY DEF StaleInv
  <2>1. ~lateLoss
    BY DEF LocalSession
  <2>2. CASE x # r
    <3>1. pc'[x] = pc[x] /\ conn'[x] = conn[x] /\ gate'[x] = gate[x]
      BY <2>2 DEF LocalProc
    <3>2. pc[x] \in OnSession \cup Embedding =>
            conn[x] \in Conns /\ (conn[x] = session \/ link[conn[x]] = "closed")
      BY <2>1 DEF StaleInv, CallInv, Calling, Embedding
    <3>3. CASE session' = session
      BY <2>1, <3>1, <3>2, <3>3 DEF StaleInv, LocalLinks
    <3>4. CASE session' = None /\ link'[conn[r]] = "closed" /\ session \in {None, conn[r]}
      <4>1. None \notin Conns
        BY SessionAssumption
      <4>2. QED BY <2>1, <3>1, <3>2, <3>4, <4>1 DEF StaleInv, LocalLinks
    <3>5. QED BY <3>3, <3>4 DEF LocalSession
  <2>3. CASE x = r
    <3>1. CASE pc'[r] \in OnSession \cup Embedding
      <4>1. session' = session
        BY <3>1 DEF LocalSession, OnSession, Embedding
      <4>2. /\ pc[r] \in OnSession \cup Embedding =>
                 conn[r] \in Conns /\ (conn[r] = session \/ link[conn[r]] = "closed")
            /\ pc[r] \in OnSession => session \in {conn[r], None}
            /\ pc[r] \in {"exec", "sync"} => conn[r] = gate[r].conn
        BY <2>1 DEF StaleInv, CallInv, Calling, Embedding
      <4>3. /\ conn'[r] = session' \/ link'[conn'[r]] = "closed"
            /\ pc'[r] \in OnSession => session' \in {conn'[r], None}
        BY <3>1, <4>1, <4>2 DEF LocalProc, LocalLinks, OnSession, Embedding
      <4>4. pc'[r] \in {"exec", "sync"} => conn'[r] = gate'[r].conn
        BY <4>1, <4>2, SessionAssumption DEF LocalProc, OnSession
      <4>5. QED BY <2>3, <4>3, <4>4
    <3>2. CASE pc'[r] \notin OnSession \cup Embedding
      BY <2>3, <3>2 DEF OnSession
    <3>3. QED BY <3>1, <3>2
  <2>4. QED BY <2>2, <2>3
<1>5. OrphanOnlyByLateLoss'
  <2> SUFFICES ASSUME ~lateLoss', NEW c \in Conns, link'[c] = "up", c # session'
               PROVE  \E x \in Requests :
                        /\ conn'[x] = c
                        /\ pc'[x] \in {"boot", "bootClose", "closeOld", "closeIt"}
    BY DEF OrphanOnlyByLateLoss, Orphans
  <2>1. ~lateLoss /\ link[c] = "up"
    BY DEF LocalSession, LocalLinks
  <2>2. c # session
    BY DEF LocalSession
  <2>3. PICK x \in Requests : /\ conn[x] = c
                              /\ pc[x] \in {"boot", "bootClose", "closeOld", "closeIt"}
    BY <2>1, <2>2 DEF OrphanOnlyByLateLoss, Orphans
  <2>4. QED BY <2>3 DEF LocalProc
<1>6. RunsWhereChecked'
  <2> SUFFICES ASSUME ~lateLoss', NEW x \in ran'
               PROVE  x.conn = x.checkedOn
    BY DEF RunsWhereChecked
  <2>1. ~lateLoss
    BY DEF LocalSession
  <2>2. CASE x \in ran
    BY <2>1, <2>2 DEF RunsWhereChecked
  <2>3. CASE x \notin ran
    BY <2>1, <2>3 DEF LocalProc, StaleInv
  <2>4. QED BY <2>2, <2>3
<1>7. QED BY <1>1, <1>2, <1>3, <1>4, <1>5, <1>6

(* The steps by which a connection changes.                                *)
LEMMA AfterLink ==
  ASSUME DriverType
  PROVE  \A c \in Conns : \A out : After(c, out) =>
           /\ \A d \in Conns : link'[d] = link[d] \/ (d = c /\ link'[d] = "closed")
           /\ out = "lost" => link'[c] = "closed"
           /\ out # "lost" => link' = link
BY DEF After, DriverType

LEMMA SetTxOnly ==
  ASSUME DriverType
  PROVE  \A c \in Conns : \A open, why : SetTx(c, open, why) =>
           \A d \in Conns : tx'[d] = tx[d] \/ d = c
BY DEF SetTx, DriverType

(* What a step of r does to the queues.                                    *)
LEMMA CallsKept ==
  ASSUME DriverType, ProcType, NEW r \in Requests
  PROVE  /\ opq' = opq => Kept(r)
         /\ \A c \in Conns : opq' = Pushed(opq, c, r) =>
              Kept(r) /\ r \in Range(opq'[c])
         /\ AtHead(r) =>
              /\ opq' = Popped(conn[r]) => Kept(r)
              /\ \A c \in Conns : opq' = Pushed(Popped(conn[r]), c, r) =>
                   Kept(r) /\ r \in Range(opq'[c])
<1>1. opq' = opq => Kept(r)
  BY DEF Kept
<1>2. ASSUME NEW c \in Conns, opq' = Pushed(opq, c, r)
      PROVE  Kept(r) /\ r \in Range(opq'[c])
  BY <1>2, PushedHolds DEF Kept, DriverType
<1>3. ASSUME AtHead(r), opq' = Popped(conn[r])
      PROVE  Kept(r)
  BY <1>3, PoppedHolds DEF Kept, DriverType, ProcType
<1>4. ASSUME AtHead(r), NEW c \in Conns, opq' = Pushed(Popped(conn[r]), c, r)
      PROVE  Kept(r) /\ r \in Range(opq'[c])
  <2>1. /\ Popped(conn[r]) \in Queues
        /\ \A d \in Conns : \A x \in Range(opq[d]) \ {r} : x \in Range(Popped(conn[r])[d])
    BY <1>4, PoppedHolds DEF DriverType, ProcType
  <2>2. QED BY <1>4, <2>1, PushedHolds DEF Kept
<1>5. QED BY <1>1, <1>2, <1>3, <1>4

LEMMA SessionsHold == Spec => []SessionInv
<1>1. Init => SessionInv
  <2> SUFFICES ASSUME Init PROVE SessionInv
    OBVIOUS
  <2>1. CallInv /\ HolderInv /\ StaleInv
    BY DEF Init, CallInv, HolderInv, StaleInv, Calling, OnSession, Embedding
  <2>2. BuiltInv
    BY DEF Init, BuiltInv
  <2>3. OrphanOnlyByLateLoss /\ RunsWhereChecked
    BY DEF Init, OrphanOnlyByLateLoss, Orphans, RunsWhereChecked
  <2>4. QED BY <2>1, <2>2, <2>3 DEF SessionInv
<1>2. TypeInv /\ TypeInv' /\ SessionInv /\ [Next]_vars => SessionInv'
  <2> SUFFICES ASSUME TypeInv, TypeInv', SessionInv, [Next]_vars PROVE SessionInv'
    OBVIOUS
  <2> USE DEF SessionInv, TypeInv, ProcType, DriverType, Arrives, Finish, session_,
              query_, proc_, driver_, Replacing, OnSession, Embedding, Calling
  <2>1. ASSUME NEW r \in Requests, NEW m \in Menu, AskLock(r, m)
       PROVE  SessionInv'
    <3>1. LocalProc(r)
      BY <2>1 DEF AskLock, LocalProc
    <3>2. LocalLinks
      BY <2>1 DEF AskLock, LocalLinks
    <3>3. LocalCalls(r)
      BY <2>1, CallsKept DEF AskLock, LocalCalls
    <3>4. LocalSession(r)
      BY <2>1 DEF AskLock, LocalSession
    <3>5. QED BY <3>1, <3>2, <3>3, <3>4, LocalStep
  <2>2. ASSUME NEW r \in Requests, NEW m \in Menu, QueryRefused(r, m)
       PROVE  SessionInv'
    <3>1. LocalProc(r)
      BY <2>2 DEF QueryRefused, LocalProc
    <3>2. LocalLinks
      BY <2>2 DEF QueryRefused, LocalLinks
    <3>3. LocalCalls(r)
      BY <2>2, CallsKept DEF QueryRefused, LocalCalls
    <3>4. LocalSession(r)
      BY <2>2 DEF QueryRefused, LocalSession
    <3>5. QED BY <3>1, <3>2, <3>3, <3>4, LocalStep
  <2>3. ASSUME NEW r \in Requests, NEW m \in Menu, QueryBegins(r, m)
       PROVE  SessionInv'
    <3>1. LocalProc(r)
      BY <2>3 DEF QueryBegins, LocalProc, SessionType
    <3>2. LocalLinks
      BY <2>3 DEF QueryBegins, LocalLinks
    <3>3. LocalCalls(r)
      BY <2>3, CallsKept DEF QueryBegins, LocalCalls, SessionType
    <3>4. LocalSession(r)
      BY <2>3 DEF QueryBegins, LocalSession
    <3>5. QED BY <3>1, <3>2, <3>3, <3>4, LocalStep
  <2>4. ASSUME NEW r \in Requests, NEW m \in Menu, Cancel(r, m)
       PROVE  SessionInv'
    <3>1. LocalProc(r)
      BY <2>4 DEF Cancel, LocalProc
    <3>2. LocalLinks
      BY <2>4 DEF Cancel, LocalLinks
    <3>3. LocalCalls(r)
      BY <2>4, CallsKept DEF Cancel, LocalCalls
    <3>4. LocalSession(r)
      BY <2>4 DEF Cancel, LocalSession
    <3>5. QED BY <3>1, <3>2, <3>3, <3>4, LocalStep
  <2>5. ASSUME NEW r \in Requests, NEW m \in Menu, Unlock(r, m)
       PROVE  SessionInv'
    <3>1. LocalProc(r)
      BY <2>5 DEF Unlock, LocalProc
    <3>2. LocalLinks
      BY <2>5 DEF Unlock, LocalLinks
    <3>3. LocalCalls(r)
      BY <2>5, CallsKept DEF Unlock, LocalCalls
    <3>4. LocalSession(r)
      BY <2>5 DEF Unlock, LocalSession
    <3>5. QED BY <3>1, <3>2, <3>3, <3>4, LocalStep
  <2>6. ASSUME NEW r \in Requests, NEW m \in Menu, NoSuchMethod(r, m)
       PROVE  SessionInv'
    <3>1. LocalProc(r)
      BY <2>6 DEF NoSuchMethod, LocalProc
    <3>2. LocalLinks
      BY <2>6 DEF NoSuchMethod, LocalLinks
    <3>3. LocalCalls(r)
      BY <2>6, CallsKept DEF NoSuchMethod, LocalCalls
    <3>4. LocalSession(r)
      BY <2>6 DEF NoSuchMethod, LocalSession
    <3>5. QED BY <3>1, <3>2, <3>3, <3>4, LocalStep
  <2>7. ASSUME NEW r \in Requests, NEW m \in Menu, EndTx(r, m)
       PROVE  SessionInv'
    <3>1. LocalProc(r)
      BY <2>7 DEF EndTx, TakeSession, LocalProc, SessionType
    <3>2. LocalLinks
      BY <2>7 DEF EndTx, LocalLinks
    <3>3. LocalCalls(r)
      BY <2>7, CallsKept DEF EndTx, TakeSession, LocalCalls, SessionType
    <3>4. LocalSession(r)
      BY <2>7 DEF EndTx, LocalSession
    <3>5. QED BY <3>1, <3>2, <3>3, <3>4, LocalStep
  <2>8. ASSUME NEW r \in Requests, NEW m \in Menu, TxState(r, m)
       PROVE  SessionInv'
    <3>1. LocalProc(r)
      BY <2>8 DEF TxState, TakeSession, LocalProc, SessionType
    <3>2. LocalLinks
      BY <2>8 DEF TxState, LocalLinks
    <3>3. LocalCalls(r)
      BY <2>8, CallsKept DEF TxState, TakeSession, LocalCalls, SessionType
    <3>4. LocalSession(r)
      BY <2>8 DEF TxState, LocalSession
    <3>5. QED BY <3>1, <3>2, <3>3, <3>4, LocalStep
  <2>9. ASSUME NEW r \in Requests, NEW m \in Menu, Embed(r, m)
       PROVE  SessionInv'
    <3>1. LocalProc(r)
      BY <2>9 DEF Embed, TakeSession, LocalProc, SessionType
    <3>2. LocalLinks
      BY <2>9 DEF Embed, LocalLinks
    <3>3. LocalCalls(r)
      BY <2>9, CallsKept DEF Embed, TakeSession, LocalCalls, SessionType
    <3>4. LocalSession(r)
      BY <2>9 DEF Embed, LocalSession
    <3>5. QED BY <3>1, <3>2, <3>3, <3>4, LocalStep
  <2>10. ASSUME NEW r \in Requests, CloseFirst(r)
       PROVE  SessionInv'
    <3>1. CallInv'
      <4>1. session \in Conns /\ link[session] # "unused"
        BY <2>10 DEF CloseFirst, SessionType, CallInv
      <4>2. Kept(r) /\ r \in Range(opq'[session])
        BY <2>10, <4>1, CallsKept DEF CloseFirst
      <4>3. ASSUME NEW x \in Requests, x # r, pc[x] \in Calling
            PROVE  x \in Range(opq'[conn[x]])
        BY <4>2, <4>3 DEF CallInv, Kept
      <4>4. conn'[r] = session /\ \A x \in Requests \ {r} : pc'[x] = pc[x] /\ conn'[x] = conn[x]
        BY <2>10 DEF CloseFirst
      <4>5. link' = link /\ session' = session
        BY <2>10 DEF CloseFirst
      <4>6. QED BY <4>1, <4>2, <4>3, <4>4, <4>5 DEF CallInv
    <3>2. BuiltInv'
      BY <2>10 DEF CloseFirst, HoldsLock, BuiltInv
    <3>3. HolderInv'
      BY <2>10 DEF CloseFirst, HoldsLock, HolderInv, LockInv
    <3>4. StaleInv'
      BY <2>10 DEF CloseFirst, HoldsLock, StaleInv, HolderInv
    <3>5. OrphanOnlyByLateLoss'
      BY <2>10 DEF CloseFirst, HoldsLock, OrphanOnlyByLateLoss, Orphans
    <3>6. RunsWhereChecked'
      BY <2>10 DEF CloseFirst, HoldsLock, RunsWhereChecked
    <3>7. QED BY <3>1, <3>2, <3>3, <3>4, <3>5, <3>6
  <2>11. ASSUME NEW r \in Requests, NothingToClose(r)
       PROVE  SessionInv'
    <3>1. CallInv'
      BY <2>11 DEF NothingToClose, HoldsLock, SessionType, CallInv
    <3>2. BuiltInv'
      BY <2>11 DEF NothingToClose, HoldsLock, BuiltInv
    <3>3. HolderInv'
      BY <2>11 DEF NothingToClose, HoldsLock, HolderInv, LockInv
    <3>4. StaleInv'
      BY <2>11 DEF NothingToClose, HoldsLock, StaleInv, HolderInv
    <3>5. OrphanOnlyByLateLoss'
      <4> SUFFICES ASSUME ~lateLoss', NEW c \in Conns, link'[c] = "up", c # session'
                   PROVE  \E x \in Requests :
                            /\ conn'[x] = c
                            /\ pc'[x] \in {"boot", "bootClose", "closeOld", "closeIt"}
        BY DEF OrphanOnlyByLateLoss, Orphans
      <4>1. PICK x \in Requests :
              /\ conn[x] = c
              /\ pc[x] \in {"boot", "bootClose", "closeOld", "closeIt"}
        BY <2>11 DEF NothingToClose, OrphanOnlyByLateLoss, Orphans
      <4>2. x # r
        BY <2>11, <4>1 DEF NothingToClose, HoldsLock
      <4>3. QED BY <2>11, <4>1, <4>2 DEF NothingToClose
    <3>6. RunsWhereChecked'
      BY <2>11 DEF NothingToClose, HoldsLock, RunsWhereChecked
    <3>7. QED BY <3>1, <3>2, <3>3, <3>4, <3>5, <3>6
  <2>12. ASSUME NEW r \in Requests, Closed(r)
       PROVE  SessionInv'
    <3>1. CallInv'
      <4>1. Kept(r)
        BY <2>12, CallsKept DEF Closed
      <4>2. ASSUME NEW x \in Requests, x # r, pc[x] \in Calling
            PROVE  x \in Range(opq'[conn[x]])
        BY <4>1, <4>2 DEF CallInv, Kept
      <4>3. \A d \in Conns : link[d] # "unused" => link'[d] # "unused"
        BY <2>12 DEF Closed
      <4>4. pc'[r] \notin Calling \cup {"embedding"}
        BY <2>12 DEF Closed
      <4>5. session' = None /\ \A x \in Requests \ {r} : pc'[x] = pc[x] /\ conn'[x] = conn[x]
        BY <2>12 DEF Closed
      <4>6. QED BY <4>2, <4>3, <4>4, <4>5 DEF CallInv
    <3>2. BuiltInv'
      BY <2>12, PoppedHolds DEF Closed, SetTx, CallInv, BuiltInv
    <3>3. HolderInv'
      BY <2>12 DEF Closed, HolderInv, LockInv
    <3>4. StaleInv'
      BY <2>12, PoppedHolds DEF Closed, StaleInv, HolderInv
    <3>5. OrphanOnlyByLateLoss'
      <4> SUFFICES ASSUME ~lateLoss', NEW c \in Conns, link'[c] = "up", c # session'
                   PROVE  \E x \in Requests :
                            /\ conn'[x] = c
                            /\ pc'[x] \in {"boot", "bootClose", "closeOld", "closeIt"}
        BY DEF OrphanOnlyByLateLoss, Orphans
      <4>1. link[c] = "up" /\ c # conn[r] /\ session \in {conn[r], None} /\ ~lateLoss
        BY <2>12, PoppedHolds DEF Closed, HolderInv
      <4>2. PICK x \in Requests :
              /\ conn[x] = c
              /\ pc[x] \in {"boot", "bootClose", "closeOld", "closeIt"}
        BY <4>1, SessionAssumption DEF OrphanOnlyByLateLoss, Orphans
      <4>3. QED BY <2>12, <4>1, <4>2 DEF Closed
    <3>6. RunsWhereChecked'
      BY <2>12 DEF Closed, RunsWhereChecked
    <3>7. QED BY <3>1, <3>2, <3>3, <3>4, <3>5, <3>6
  <2>13. ASSUME NEW r \in Requests, Built(r)
       PROVE  SessionInv'
    <3>1. CallInv'
      <4>1. PICK c \in Conns : /\ link[c] = "unused" /\ link' = [link EXCEPT ![c] = "up"]
                               /\ conn' = [conn EXCEPT ![r] = c]
                               /\ opq' = Pushed(opq, c, r)
        BY <2>13 DEF Built
      <4>2. Kept(r) /\ r \in Range(opq'[c])
        BY <4>1, CallsKept
      <4>3. ASSUME NEW x \in Requests, x # r, pc[x] \in Calling
            PROVE  x \in Range(opq'[conn[x]])
        BY <4>2, <4>3 DEF CallInv, Kept
      <4>4. \A x \in Requests \ {r} : pc'[x] = pc[x] /\ conn'[x] = conn[x]
        BY <2>13, <4>1 DEF Built
      <4>5. conn'[r] = c /\ link'[c] # "unused" /\ session' = None
        BY <2>13, <4>1 DEF Built, HolderInv
      <4>6. QED BY <4>1, <4>2, <4>3, <4>4, <4>5 DEF CallInv
    <3>2. BuiltInv'
      BY <2>13, MenuFacts DEF Built, AskedInv, BuiltInv
    <3>3. HolderInv'
      BY <2>13 DEF Built, HolderInv, LockInv
    <3>4. StaleInv'
      BY <2>13 DEF Built, StaleInv, HolderInv
    <3>5. OrphanOnlyByLateLoss'
      BY <2>13 DEF Built, OrphanOnlyByLateLoss, Orphans
    <3>6. RunsWhereChecked'
      BY <2>13 DEF Built, RunsWhereChecked
    <3>7. QED BY <3>1, <3>2, <3>3, <3>4, <3>5, <3>6
  <2>14. ASSUME NEW r \in Requests, BuildFails(r)
       PROVE  SessionInv'
    <3>1. CallInv'
      BY <2>14 DEF BuildFails, SessionType, CallInv
    <3>2. BuiltInv'
      BY <2>14 DEF BuildFails, BuiltInv
    <3>3. HolderInv'
      BY <2>14 DEF BuildFails, HolderInv, LockInv
    <3>4. StaleInv'
      BY <2>14 DEF BuildFails, StaleInv, HolderInv
    <3>5. OrphanOnlyByLateLoss'
      <4> SUFFICES ASSUME ~lateLoss', NEW c \in Conns, link'[c] = "up", c # session'
                   PROVE  \E x \in Requests :
                            /\ conn'[x] = c
                            /\ pc'[x] \in {"boot", "bootClose", "closeOld", "closeIt"}
        BY DEF OrphanOnlyByLateLoss, Orphans
      <4>1. PICK x \in Requests :
              /\ conn[x] = c
              /\ pc[x] \in {"boot", "bootClose", "closeOld", "closeIt"}
        BY <2>14 DEF BuildFails, OrphanOnlyByLateLoss, Orphans
      <4>2. x # r
        BY <2>14, <4>1 DEF BuildFails
      <4>3. QED BY <2>14, <4>1, <4>2 DEF BuildFails
    <3>6. RunsWhereChecked'
      BY <2>14 DEF BuildFails, RunsWhereChecked
    <3>7. QED BY <3>1, <3>2, <3>3, <3>4, <3>5, <3>6
  <2>15. ASSUME NEW r \in Requests, BootClosed(r)
       PROVE  SessionInv'
    <3>1. CallInv'
      <4>1. conn[r] \in Conns /\ Kept(r)
        BY <2>15, PoppedHolds, CallsKept DEF BootClosed
      <4>2. ASSUME NEW x \in Requests, x # r, pc[x] \in Calling
            PROVE  x \in Range(opq'[conn[x]])
        BY <4>1, <4>2 DEF CallInv, Kept
      <4>3. \A d \in Conns : link[d] # "unused" => link'[d] # "unused"
        BY <2>15, <4>1 DEF BootClosed
      <4>4. pc'[r] = "done" /\ \A x \in Requests \ {r} : pc'[x] = pc[x]
        BY <2>15 DEF BootClosed
      <4>5. conn' = conn /\ session' = session
        BY <2>15 DEF BootClosed
      <4>6. QED BY <4>2, <4>3, <4>4, <4>5 DEF CallInv, SessionType
    <3>2. BuiltInv'
      BY <2>15, PoppedHolds DEF BootClosed, CallInv, BuiltInv
    <3>3. HolderInv'
      BY <2>15 DEF BootClosed, HolderInv, LockInv
    <3>4. StaleInv'
      BY <2>15, PoppedHolds DEF BootClosed, StaleInv, HolderInv
    <3>5. OrphanOnlyByLateLoss'
      BY <2>15, PoppedHolds DEF BootClosed, OrphanOnlyByLateLoss,
         Orphans
    <3>6. RunsWhereChecked'
      BY <2>15 DEF BootClosed, RunsWhereChecked
    <3>7. QED BY <3>1, <3>2, <3>3, <3>4, <3>5, <3>6
  <2>16. ASSUME NEW r \in Requests, StmtRan(r)
       PROVE  SessionInv'
    <3>1. conn[r] \in Conns /\ link[conn[r]] # "unused"
      BY <2>16, PoppedHolds DEF StmtRan, CallInv
    <3>2. LocalProc(r)
      BY <2>16, <3>1 DEF StmtRan, NextStmt, QueryEnds, LocalProc,
         SessionType
    <3>3. LocalLinks
      BY <2>16, <3>1, AfterLink, SetTxOnly DEF StmtRan, LocalLinks
    <3>4. LocalCalls(r)
      BY <2>16, <3>1, CallsKept DEF StmtRan, NextStmt, QueryEnds,
         LocalCalls, SessionType
    <3>5. LocalSession(r)
      BY <2>16, <3>1 DEF StmtRan, QueryEnds, LocalSession
    <3>6. QED BY <3>2, <3>3, <3>4, <3>5, LocalStep
  <2>17. ASSUME NEW r \in Requests, EmbeddingReady(r)
       PROVE  SessionInv'
    <3>1. conn[r] \in Conns /\ link[conn[r]] # "unused"
      BY <2>17 DEF EmbeddingReady, CallInv
    <3>2. LocalProc(r)
      BY <2>17, <3>1 DEF EmbeddingReady, LocalProc
    <3>3. LocalLinks
      BY <2>17, <3>1 DEF EmbeddingReady, LocalLinks
    <3>4. LocalCalls(r)
      BY <2>17, <3>1, CallsKept DEF EmbeddingReady, LocalCalls
    <3>5. LocalSession(r)
      BY <2>17, <3>1 DEF EmbeddingReady, LocalSession
    <3>6. QED BY <3>2, <3>3, <3>4, <3>5, LocalStep
  <2>18. ASSUME NEW r \in Requests, EmbeddingFails(r)
       PROVE  SessionInv'
    <3>1. conn[r] \in Conns /\ link[conn[r]] # "unused"
      BY <2>18 DEF EmbeddingFails, CallInv
    <3>2. LocalProc(r)
      BY <2>18, <3>1 DEF EmbeddingFails, NextRow, LocalProc
    <3>3. LocalLinks
      BY <2>18, <3>1 DEF EmbeddingFails, LocalLinks
    <3>4. LocalCalls(r)
      BY <2>18, <3>1, CallsKept DEF EmbeddingFails, NextRow, LocalCalls
    <3>5. LocalSession(r)
      BY <2>18, <3>1 DEF EmbeddingFails, LocalSession
    <3>6. QED BY <3>2, <3>3, <3>4, <3>5, LocalStep
  <2>19. ASSUME NEW r \in Requests, NEW out, Booted(r, out)
       PROVE  SessionInv'
    <3>1. CallInv'
      <4>1. conn[r] \in Conns /\ link[conn[r]] # "unused"
        BY <2>19 DEF Booted, CallInv
      <4>2. Kept(r) /\ r \in Range(opq'[conn[r]]) /\ conn' = conn
        BY <2>19, <4>1, CallsKept DEF Booted
      <4>3. ASSUME NEW x \in Requests, x # r, pc[x] \in Calling
            PROVE  x \in Range(opq'[conn[x]])
        BY <4>2, <4>3 DEF CallInv, Kept
      <4>4. \A d \in Conns : link[d] # "unused" => link'[d] # "unused"
        BY <2>19, <4>1, AfterLink DEF Booted
      <4>5. \A x \in Requests \ {r} : pc'[x] = pc[x]
        BY <2>19 DEF Booted
      <4>6. session' # None => link'[session'] # "unused"
        BY <2>19, <4>1, <4>4 DEF Booted, CallInv, SessionType
      <4>7. \A x \in Requests : x = r \/ pc'[x] = pc[x]
        BY <4>5
      <4>8. QED BY <4>1, <4>2, <4>3, <4>4, <4>6, <4>7 DEF CallInv
    <3>2. BuiltInv'
      BY <2>19, PoppedHolds, AfterLink DEF Booted, CallInv, BuiltInv
    <3>3. HolderInv'
      <4>1. /\ session = None /\ Head(lockq) = r
            /\ \A x \in Requests \ {r} : pc[x] \notin Replacing
        BY <2>19 DEF Booted, HolderInv, LockInv
      <4>2. \A x \in Requests \ {r} : pc'[x] = pc[x]
        BY <2>19 DEF Booted
      <4>3. pc'[r] = "enable" \/ (pc'[r] = "bootClose" /\ session' = session)
        BY <2>19 DEF Booted
      <4>4. QED BY <4>1, <4>2, <4>3 DEF HolderInv
    <3>4. StaleInv'
      <4>1. session = None /\ conn[r] \in Conns
        BY <2>19 DEF Booted, HolderInv, CallInv
      <4>2. /\ \A x \in Requests \ {r} : pc'[x] = pc[x]
            /\ pc'[r] \in {"enable", "bootClose"}
            /\ conn' = conn /\ gate' = gate /\ lateLoss' = lateLoss
        BY <2>19 DEF Booted
      <4>3. CASE out = "ok"
        <5>1. Prompt /\ session' = conn[r]
          BY <2>19, <4>3 DEF Booted, AtHead, Outcomes
        <5>2. ASSUME NEW x \in Requests, x # r, ~lateLoss
              PROVE  pc[x] \notin OnSession
          <6>1. ASSUME pc[x] \in OnSession
                PROVE  FALSE
            <7>1. conn[x] \in Conns /\ x \in Range(opq[conn[x]])
              BY <6>1 DEF CallInv
            <7>2. link[conn[x]] = "closed"
              BY <4>1, <5>2, <6>1, <7>1, SessionAssumption DEF StaleInv
            <7>3. opq[conn[x]] = <<>>
              BY <5>1, <7>1, <7>2 DEF Prompt
            <7>4. QED BY <7>1, <7>3, EmptyHolds
          <6>2. QED BY <6>1
        <5>3. ASSUME NEW x \in Requests, x # r, ~lateLoss, pc[x] \in Embedding
              PROVE  link'[conn[x]] = "closed"
          <6>1. conn[x] \in Conns /\ link[conn[x]] = "closed"
            BY <4>1, <5>3, SessionAssumption DEF StaleInv, CallInv
          <6>2. QED BY <2>19, <4>1, <6>1, AfterLink DEF Booted
        <5>4. QED BY <4>1, <4>2, <5>1, <5>2, <5>3 DEF StaleInv
      <4>4. CASE out # "ok"
        <5>1. session' = session /\ pc'[r] = "bootClose"
          BY <2>19, <4>4 DEF Booted
        <5>2. \A d \in Conns : link[d] = "closed" => link'[d] = "closed"
          BY <2>19, <4>1, AfterLink DEF Booted
        <5>3. ASSUME NEW x \in Requests, x # r, ~lateLoss, pc[x] \in OnSession \cup Embedding
              PROVE  conn[x] \in Conns /\ link[conn[x]] = "closed"
          BY <4>1, <5>3, SessionAssumption DEF StaleInv, CallInv
        <5>4. QED BY <4>1, <4>2, <5>1, <5>2, <5>3 DEF StaleInv
      <4>5. QED BY <4>3, <4>4
    <3>5. OrphanOnlyByLateLoss'
      <4> SUFFICES ASSUME ~lateLoss', NEW c \in Conns, link'[c] = "up", c # session'
                   PROVE  \E x \in Requests :
                            /\ conn'[x] = c
                            /\ pc'[x] \in {"boot", "bootClose", "closeOld", "closeIt"}
        BY DEF OrphanOnlyByLateLoss, Orphans
      <4>1. conn[r] \in Conns
        BY <2>19 DEF Booted, CallInv
      <4>2. link[c] = "up" /\ session = None /\ ~lateLoss
        BY <2>19, <4>1, AfterLink DEF Booted, HolderInv
      <4>3. PICK x \in Requests :
              /\ conn[x] = c
              /\ pc[x] \in {"boot", "bootClose", "closeOld", "closeIt"}
        BY <4>2, SessionAssumption DEF OrphanOnlyByLateLoss, Orphans
      <4>4. CASE x = r
        BY <2>19, <4>3, <4>4 DEF Booted
      <4>5. CASE x # r
        BY <2>19, <4>3, <4>5 DEF Booted
      <4>6. QED BY <4>4, <4>5
    <3>6. RunsWhereChecked'
      BY <2>19 DEF Booted, RunsWhereChecked
    <3>7. QED BY <3>1, <3>2, <3>3, <3>4, <3>5, <3>6
  <2>20. ASSUME NEW r \in Requests, NEW out, Enabled(r, out)
       PROVE  SessionInv'
    <3>1. conn[r] \in Conns /\ link[conn[r]] # "unused"
      BY <2>20, PoppedHolds DEF Enabled, CallInv
    <3>2. LocalProc(r)
      BY <2>20, <3>1 DEF Enabled, LocalProc
    <3>3. LocalLinks
      BY <2>20, <3>1, AfterLink DEF Enabled, LocalLinks
    <3>4. LocalCalls(r)
      BY <2>20, <3>1, CallsKept DEF Enabled, LocalCalls
    <3>5. LocalSession(r)
      BY <2>20, <3>1, AfterLink DEF Enabled, ClearOnLoss, LocalSession
    <3>6. QED BY <3>2, <3>3, <3>4, <3>5, LocalStep
  <2>21. ASSUME NEW r \in Requests, NEW out, StmtFailed(r, out)
       PROVE  SessionInv'
    <3>1. conn[r] \in Conns /\ link[conn[r]] # "unused"
      BY <2>21, PoppedHolds DEF StmtFailed, CallInv
    <3>2. LocalProc(r)
      BY <2>21, <3>1 DEF StmtFailed, QueryEnds, LocalProc
    <3>3. LocalLinks
      BY <2>21, <3>1, AfterLink, SetTxOnly DEF StmtFailed, LocalLinks
    <3>4. LocalCalls(r)
      BY <2>21, <3>1, CallsKept DEF StmtFailed, QueryEnds, LocalCalls
    <3>5. LocalSession(r)
      BY <2>21, <3>1, AfterLink DEF StmtFailed, QueryEnds, ClearOnLoss,
         LocalSession
    <3>6. QED BY <3>2, <3>3, <3>4, <3>5, LocalStep
  <2>22. ASSUME NEW r \in Requests, NEW out, Synced(r, out)
       PROVE  SessionInv'
    <3>1. conn[r] \in Conns /\ link[conn[r]] # "unused"
      BY <2>22, PoppedHolds DEF Synced, CallInv
    <3>2. LocalProc(r)
      BY <2>22, <3>1 DEF Synced, NextStmt, QueryEnds, LocalProc, SessionType
    <3>3. LocalLinks
      BY <2>22, <3>1, AfterLink, SetTxOnly DEF Synced, LocalLinks
    <3>4. LocalCalls(r)
      <4>1. CASE pc'[r] = "exec"
        <5>1. AtHead(r) /\ session \in Conns /\ conn'[r] = session
          BY <2>22, <4>1 DEF Synced, NextStmt, QueryEnds, SessionType
        <5>2. opq' = Pushed(Popped(conn[r]), session, r)
          BY <2>22, <4>1 DEF Synced, NextStmt, QueryEnds
        <5>3. QED BY <5>1, <5>2, CallsKept DEF LocalCalls
      <4>2. CASE pc'[r] # "exec"
        <5>1. AtHead(r) /\ pc'[r] = "done" /\ opq' = Popped(conn[r])
          BY <2>22, <4>2 DEF Synced, NextStmt, QueryEnds
        <5>2. QED BY <5>1, CallsKept DEF LocalCalls
      <4>3. QED BY <4>1, <4>2
    <3>5. LocalSession(r)
      BY <2>22, <3>1 DEF Synced, QueryEnds, LocalSession
    <3>6. QED BY <3>2, <3>3, <3>4, <3>5, LocalStep
  <2>23. ASSUME NEW r \in Requests, NEW out, TxEnded(r, out)
       PROVE  SessionInv'
    <3>1. conn[r] \in Conns /\ link[conn[r]] # "unused"
      BY <2>23, PoppedHolds DEF TxEnded, CallInv
    <3>2. LocalProc(r)
      BY <2>23, <3>1 DEF TxEnded, LocalProc
    <3>3. LocalLinks
      <4>1. \A c \in Conns : link'[c] = link[c] \/ (c = conn[r] /\ link'[c] = "closed")
        BY <2>23, <3>1, AfterLink DEF TxEnded
      <4>2. \A c \in Conns : tx'[c] = tx[c] \/ c = conn[r]
        BY <2>23, <3>1, SetTxOnly DEF TxEnded
      <4>3. QED BY <2>23, <3>1, <4>1, <4>2 DEF TxEnded, LocalLinks
    <3>4. LocalCalls(r)
      BY <2>23, <3>1, CallsKept DEF TxEnded, LocalCalls
    <3>5. LocalSession(r)
      BY <2>23, <3>1, AfterLink DEF TxEnded, ClearOnLoss, LocalSession
    <3>6. QED BY <3>2, <3>3, <3>4, <3>5, LocalStep
  <2>24. ASSUME NEW r \in Requests, NEW out, Consulted(r, out)
       PROVE  SessionInv'
    <3>1. conn[r] \in Conns /\ link[conn[r]] # "unused"
      BY <2>24, PoppedHolds DEF Consulted, CallInv
    <3>2. LocalProc(r)
      BY <2>24, <3>1 DEF Consulted, LocalProc
    <3>3. LocalLinks
      BY <2>24, <3>1, AfterLink, SetTxOnly DEF Consulted, LocalLinks
    <3>4. LocalCalls(r)
      BY <2>24, <3>1, CallsKept DEF Consulted, LocalCalls
    <3>5. LocalSession(r)
      BY <2>24, <3>1 DEF Consulted, LocalSession
    <3>6. QED BY <3>2, <3>3, <3>4, <3>5, LocalStep
  <2>25. ASSUME NEW r \in Requests, NEW out, EmbedRead(r, out)
       PROVE  SessionInv'
    <3>1. conn[r] \in Conns /\ link[conn[r]] # "unused"
      BY <2>25, PoppedHolds DEF EmbedRead, CallInv
    <3>2. LocalProc(r)
      BY <2>25, <3>1 DEF EmbedRead, LocalProc
    <3>3. LocalLinks
      BY <2>25, <3>1, AfterLink DEF EmbedRead, LocalLinks
    <3>4. LocalCalls(r)
      BY <2>25, <3>1, CallsKept DEF EmbedRead, LocalCalls
    <3>5. LocalSession(r)
      BY <2>25, <3>1, AfterLink DEF EmbedRead, ClearOnLoss, LocalSession
    <3>6. QED BY <3>2, <3>3, <3>4, <3>5, LocalStep
  <2>26. ASSUME NEW r \in Requests, NEW out, EmbedUpdated(r, out)
       PROVE  SessionInv'
    <3>1. conn[r] \in Conns /\ link[conn[r]] # "unused"
      BY <2>26, PoppedHolds DEF EmbedUpdated, CallInv
    <3>2. LocalProc(r)
      BY <2>26, <3>1 DEF EmbedUpdated, NextRow, LocalProc
    <3>3. LocalLinks
      <4>1. \A c \in Conns : link'[c] = link[c] \/ (c = conn[r] /\ link'[c] = "closed")
        BY <2>26, <3>1, AfterLink DEF EmbedUpdated
      <4>2. \A c \in Conns : tx'[c] = tx[c] \/ c = conn[r]
        BY <2>26, <3>1, SetTxOnly DEF EmbedUpdated
      <4>3. QED BY <2>26, <3>1, <4>1, <4>2 DEF EmbedUpdated, LocalLinks
    <3>4. LocalCalls(r)
      BY <2>26, <3>1, CallsKept DEF EmbedUpdated, NextRow, LocalCalls
    <3>5. LocalSession(r)
      BY <2>26, <3>1 DEF EmbedUpdated, LocalSession
    <3>6. QED BY <3>2, <3>3, <3>4, <3>5, LocalStep
  <2>27. ASSUME NEW r \in Requests, NEW out, EmbedCommitted(r, out)
       PROVE  SessionInv'
    <3>1. conn[r] \in Conns /\ link[conn[r]] # "unused"
      BY <2>27, PoppedHolds DEF EmbedCommitted, CallInv
    <3>2. LocalProc(r)
      BY <2>27, <3>1 DEF EmbedCommitted, LocalProc
    <3>3. LocalLinks
      <4>1. \A c \in Conns : link'[c] = link[c] \/ (c = conn[r] /\ link'[c] = "closed")
        BY <2>27, <3>1, AfterLink DEF EmbedCommitted
      <4>2. \A c \in Conns : tx'[c] = tx[c] \/ c = conn[r]
        BY <2>27, <3>1, SetTxOnly DEF EmbedCommitted
      <4>3. QED BY <2>27, <3>1, <4>1, <4>2 DEF EmbedCommitted, LocalLinks
    <3>4. LocalCalls(r)
      BY <2>27, <3>1, CallsKept DEF EmbedCommitted, LocalCalls
    <3>5. LocalSession(r)
      BY <2>27, <3>1, AfterLink DEF EmbedCommitted, ClearOnLoss,
         LocalSession
    <3>6. QED BY <3>2, <3>3, <3>4, <3>5, LocalStep
  <2>28. ASSUME WindowExpires
       PROVE  SessionInv'
    <3>1. CallInv'
      BY <2>28 DEF WindowExpires, SessionType, CallInv
    <3>2. BuiltInv'
      BY <2>28 DEF WindowExpires, BuiltInv
    <3>3. HolderInv'
      BY <2>28 DEF WindowExpires, HolderInv, LockInv
    <3>4. StaleInv'
      BY <2>28 DEF WindowExpires, StaleInv, HolderInv
    <3>5. OrphanOnlyByLateLoss'
      BY <2>28 DEF WindowExpires, OrphanOnlyByLateLoss, Orphans
    <3>6. RunsWhereChecked'
      BY <2>28 DEF WindowExpires, RunsWhereChecked
    <3>7. QED BY <3>1, <3>2, <3>3, <3>4, <3>5, <3>6
  <2>29. ASSUME NEW c \in Conns, LinkDrops(c)
       PROVE  SessionInv'
    <3>1. CallInv'
      BY <2>29 DEF LinkDrops, SessionType, CallInv
    <3>2. BuiltInv'
      BY <2>29 DEF LinkDrops, SetTx, BuiltInv
    <3>3. HolderInv'
      BY <2>29 DEF LinkDrops, HolderInv, LockInv
    <3>4. StaleInv'
      BY <2>29 DEF LinkDrops, StaleInv, HolderInv
    <3>5. OrphanOnlyByLateLoss'
      BY <2>29 DEF LinkDrops, OrphanOnlyByLateLoss, Orphans
    <3>6. RunsWhereChecked'
      BY <2>29 DEF LinkDrops, RunsWhereChecked
    <3>7. QED BY <3>1, <3>2, <3>3, <3>4, <3>5, <3>6
  <2>30. ASSUME UNCHANGED vars
       PROVE  SessionInv'
    <3>1. CallInv'
      BY <2>30 DEF vars, SessionType, CallInv
    <3>2. BuiltInv'
      BY <2>30 DEF vars, BuiltInv
    <3>3. HolderInv'
      BY <2>30 DEF vars, HolderInv, LockInv
    <3>4. StaleInv'
      BY <2>30 DEF vars, StaleInv, HolderInv
    <3>5. OrphanOnlyByLateLoss'
      BY <2>30 DEF vars, OrphanOnlyByLateLoss, Orphans
    <3>6. RunsWhereChecked'
      BY <2>30 DEF vars, RunsWhereChecked
    <3>7. QED BY <3>1, <3>2, <3>3, <3>4, <3>5, <3>6
  <2>32. ASSUME NEW r \in Requests, NEW m \in Menu, Call(r, m)
       PROVE  SessionInv'
    <3>1. LocalProc(r)
      BY <2>32 DEF Call, TakeSession, LocalProc, SessionType
    <3>2. LocalLinks
      BY <2>32 DEF Call, LocalLinks
    <3>3. LocalCalls(r)
      BY <2>32, CallsKept DEF Call, TakeSession, LocalCalls, SessionType
    <3>4. LocalSession(r)
      BY <2>32 DEF Call, LocalSession
    <3>5. QED BY <3>1, <3>2, <3>3, <3>4, LocalStep
  <2>33. ASSUME NEW r \in Requests, NEW out, Called(r, out)
       PROVE  SessionInv'
    <3>1. conn[r] \in Conns /\ link[conn[r]] # "unused"
      BY <2>33, PoppedHolds DEF Called, CallInv
    <3>2. LocalProc(r)
      BY <2>33, <3>1 DEF Called, LocalProc
    <3>3. LocalLinks
      <4>1. \A c \in Conns : link'[c] = link[c] \/ (c = conn[r] /\ link'[c] = "closed")
        BY <2>33, <3>1, AfterLink DEF Called
      <4>2. \A c \in Conns : tx'[c] = tx[c] \/ c = conn[r]
        BY <2>33, <3>1, SetTxOnly DEF Called
      <4>3. QED BY <2>33, <3>1, <4>1, <4>2 DEF Called, LocalLinks
    <3>4. LocalCalls(r)
      BY <2>33, <3>1, CallsKept DEF Called, LocalCalls
    <3>5. LocalSession(r)
      BY <2>33, <3>1, AfterLink DEF Called, ClearOnLoss,
         LocalSession
    <3>6. QED BY <3>2, <3>3, <3>4, <3>5, LocalStep
  <2>31. QED
    BY <2>1, <2>2, <2>3, <2>4, <2>5, <2>6, <2>7, <2>8, <2>9, <2>10,
       <2>11, <2>12, <2>13, <2>14, <2>15, <2>16, <2>17, <2>18, <2>19, <2>20,
       <2>21, <2>22, <2>23, <2>24, <2>25, <2>26, <2>27, <2>28, <2>29, <2>30,
       <2>32, <2>33
       DEF Next, Ask, Proceed
<1>3. QED BY <1>1, <1>2, TypesHold, PTL DEF Spec

(* openSession and closeSession orphan no connection, whatever races with  *)
(* them and fails, unless a request has outlived its session.              *)
THEOREM NoOrphanButByLateLoss == Spec => []OrphanOnlyByLateLoss
  BY SessionsHold, PTL DEF SessionInv

(* With the same exception, a batch runs every statement on the connection *)
(* it was checked for.                                                     *)
THEOREM BatchesKeepTheirSession == Spec => []RunsWhereChecked
  BY SessionsHold, PTL DEF SessionInv

-----------------------------------------------------------------------------
(***************************************************************************)
(* Counting open transactions.                                             *)
(***************************************************************************)

(* A connection being built has done no work.                              *)
BootInv ==
  ~lateLoss => \A r \in Requests : pc[r] = "boot" =>
                 ~tx[conn[r]] /\ link[conn[r]] \in {"up", "down"}

(* Open work of the session is counted, or will be by the consult of the   *)
(* statement that did it, unless a gap explains why not.                   *)
CountInv ==
  /\ ~lateLoss
  /\ session # None
  /\ tx[session] /\ unseen[session] = {}
  => \/ pending > 0
     \/ \E r \in Requests : pc[r] = "sync" /\ conn[r] = session /\ StmtOf(r).kind \notin {"end", "mark"}

TxInv == BootInv /\ CountInv

(* Nobody else has a call on a connection that is being built.             *)
LEMMA BootAlone ==
  ASSUME TypeInv, SessionInv, TxInv, ~lateLoss, NEW x \in Requests, pc[x] = "boot"
  PROVE  \A r \in Requests : pc[r] \in OnSession \cup Embedding => conn[r] # conn[x]
<1> SUFFICES ASSUME NEW r \in Requests, pc[r] \in OnSession \cup Embedding
             PROVE  conn[r] # conn[x]
  OBVIOUS
<1>1. session = None
  BY DEF SessionInv, HolderInv
<1>2. conn[r] \in Conns
  BY DEF SessionInv, CallInv, Calling, Embedding
<1>3. link[conn[r]] = "closed"
  BY <1>1, <1>2, SessionAssumption DEF SessionInv, StaleInv
<1>4. link[conn[x]] # "closed"
  BY DEF TxInv, BootInv
<1>5. QED BY <1>3, <1>4

(* A call on a connection that is up is a call on the session.             *)
LEMMA UpIsSession ==
  ASSUME TypeInv, SessionInv, ~lateLoss
  PROVE  \A r \in Requests : pc[r] \in OnSession \cup Embedding =>
           /\ conn[r] \in Conns
           /\ link[conn[r]] = "up" => session = conn[r]
           /\ pc[r] \in OnSession => session \in {conn[r], None}
BY DEF SessionInv, StaleInv, CallInv, Calling, Embedding

LEMMA SetTxDoes ==
  ASSUME DriverType
  PROVE  \A c \in Conns : \A open, why : SetTx(c, open, why) =>
           /\ tx'[c] = open
           /\ unseen'[c] = IF open THEN unseen[c] \cup why ELSE {}
           /\ \A d \in Conns : d # c => tx'[d] = tx[d] /\ unseen'[d] = unseen[d]
BY DEF SetTx, DriverType

(* A step of r leaves what the others are doing.                           *)
Others(r) ==
  \A x \in Requests \ {r} :
    pc'[x] = pc[x] /\ conn'[x] = conn[x] /\ idx'[x] = idx[x] /\ req'[x] = req[x]

(* A step of r touches no connection but the one it is on.                 *)
Touches(r) ==
  /\ Others(r)
  /\ pc[r] \in OnSession \cup Embedding /\ pc'[r] # "boot"
  /\ \A c \in Conns : c # conn[r] => link'[c] = link[c] /\ tx'[c] = tx[c]
  /\ lateLoss => lateLoss'

LEMMA TouchStep ==
  ASSUME TypeInv, SessionInv, TxInv, NEW r \in Requests, Touches(r)
  PROVE  BootInv'
<1> SUFFICES ASSUME ~lateLoss', NEW x \in Requests, pc'[x] = "boot"
             PROVE  ~tx'[conn'[x]] /\ link'[conn'[x]] \in {"up", "down"}
  BY DEF BootInv
<1>1. ~lateLoss /\ x # r /\ pc[x] = "boot" /\ conn'[x] = conn[x]
  BY DEF Touches, Others
<1>2. conn[x] \in Conns /\ conn[r] # conn[x]
  BY <1>1, BootAlone DEF Touches, SessionInv, CallInv, Calling
<1>3. QED BY <1>1, <1>2 DEF Touches, TxInv, BootInv

(* A step of r leaves open work of the session counted, or about to be; or *)
(* it leaves the work and its count alone.                                 *)
Accounts(r) ==
  ~lateLoss' /\ session' # None =>
    /\ ~lateLoss /\ session' = session
    /\ tx'[session] /\ unseen'[session] = {} =>
         \/ pending' > 0
         \/ pc'[r] = "sync" /\ conn'[r] = session /\ StmtOf(r)'.kind \notin {"end", "mark"}
         \/ /\ tx[session] /\ unseen[session] = {} /\ pending' = pending
            /\ pc[r] = "sync" => StmtOf(r).kind \in {"end", "mark"}

LEMMA CountStep ==
  ASSUME TxInv, NEW r \in Requests, Others(r), Accounts(r)
  PROVE  CountInv'
<1> SUFFICES ASSUME ~lateLoss', session' # None, tx'[session'], unseen'[session'] = {}
             PROVE  \/ pending' > 0
                    \/ \E x \in Requests : /\ pc'[x] = "sync" /\ conn'[x] = session'
                                           /\ req'[x].stmts[idx'[x]].kind \notin {"end", "mark"}
  BY DEF CountInv, StmtOf
<1>1. ~lateLoss /\ session' = session
  BY DEF Accounts
<1>2. CASE pending' > 0
  BY <1>2
<1>3. CASE pc'[r] = "sync" /\ conn'[r] = session /\ StmtOf(r)'.kind \notin {"end", "mark"}
  BY <1>1, <1>3 DEF StmtOf
<1>4. CASE /\ tx[session] /\ unseen[session] = {} /\ pending' = pending
           /\ pc[r] = "sync" => StmtOf(r).kind \in {"end", "mark"}
  <2>1. CASE pending > 0
    BY <1>4, <2>1
  <2>2. CASE ~(pending > 0)
    <3>1. PICK x \in Requests :
            pc[x] = "sync" /\ conn[x] = session /\ StmtOf(x).kind \notin {"end", "mark"}
      BY <1>1, <1>4, <2>2 DEF TxInv, CountInv
    <3>2. x # r
      BY <1>4, <3>1
    <3>3. QED BY <1>1, <3>1, <3>2 DEF Others, StmtOf
  <2>3. QED BY <2>1, <2>2
<1>5. QED BY <1>1, <1>2, <1>3, <1>4 DEF Accounts

LEMMA TransactionsHold == Spec => []TxInv
<1>1. Init => TxInv
  BY DEF Init, TxInv, BootInv, CountInv
<1>2. TypeInv /\ TypeInv' /\ SessionInv /\ SessionInv' /\ TxInv /\ [Next]_vars => TxInv'
  <2> SUFFICES ASSUME TypeInv, TypeInv', SessionInv, SessionInv', TxInv, [Next]_vars
               PROVE TxInv'
    OBVIOUS
  <2> USE DEF TxInv, Arrives, Finish, session_, query_, proc_, driver_
  <2>1. ASSUME NEW r \in Requests, NEW m \in Menu, AskLock(r, m)
       PROVE  TxInv'
    <3>1. BootInv'
      BY <2>1 DEF AskLock, BootInv, TypeInv, ProcType, DriverType
    <3>2. Others(r) /\ Accounts(r)
      BY <2>1 DEF AskLock, Others, Accounts, TypeInv, ProcType
    <3>3. QED BY <3>1, <3>2, CountStep
  <2>2. ASSUME NEW r \in Requests, NEW m \in Menu, QueryRefused(r, m)
       PROVE  TxInv'
    <3>1. BootInv'
      BY <2>2 DEF QueryRefused, BootInv, TypeInv, ProcType, DriverType
    <3>2. Others(r) /\ Accounts(r)
      BY <2>2 DEF QueryRefused, Others, Accounts, TypeInv, ProcType
    <3>3. QED BY <3>1, <3>2, CountStep
  <2>3. ASSUME NEW r \in Requests, NEW m \in Menu, QueryBegins(r, m)
       PROVE  TxInv'
    <3>1. BootInv'
      BY <2>3 DEF QueryBegins, BootInv, TypeInv, ProcType, DriverType
    <3>2. Others(r) /\ Accounts(r)
      BY <2>3 DEF QueryBegins, Others, Accounts, TypeInv, ProcType
    <3>3. QED BY <3>1, <3>2, CountStep
  <2>4. ASSUME NEW r \in Requests, NEW m \in Menu, Cancel(r, m)
       PROVE  TxInv'
    <3>1. BootInv'
      BY <2>4 DEF Cancel, BootInv, TypeInv, ProcType, DriverType
    <3>2. Others(r) /\ Accounts(r)
      BY <2>4 DEF Cancel, Others, Accounts, TypeInv, ProcType
    <3>3. QED BY <3>1, <3>2, CountStep
  <2>5. ASSUME NEW r \in Requests, NEW m \in Menu, Unlock(r, m)
       PROVE  TxInv'
    <3>1. BootInv'
      BY <2>5 DEF Unlock, BootInv, TypeInv, ProcType, DriverType
    <3>2. Others(r) /\ Accounts(r)
      BY <2>5 DEF Unlock, Others, Accounts, TypeInv, ProcType
    <3>3. QED BY <3>1, <3>2, CountStep
  <2>6. ASSUME NEW r \in Requests, NEW m \in Menu, NoSuchMethod(r, m)
       PROVE  TxInv'
    <3>1. BootInv'
      BY <2>6 DEF NoSuchMethod, BootInv, TypeInv, ProcType, DriverType
    <3>2. Others(r) /\ Accounts(r)
      BY <2>6 DEF NoSuchMethod, Others, Accounts, TypeInv, ProcType
    <3>3. QED BY <3>1, <3>2, CountStep
  <2>7. ASSUME NEW r \in Requests, NEW m \in Menu, EndTx(r, m)
       PROVE  TxInv'
    <3>1. BootInv'
      BY <2>7 DEF EndTx, TakeSession, BootInv, TypeInv, ProcType,
         DriverType
    <3>2. Others(r) /\ Accounts(r)
      BY <2>7 DEF EndTx, TakeSession, Others, Accounts, TypeInv, ProcType
    <3>3. QED BY <3>1, <3>2, CountStep
  <2>8. ASSUME NEW r \in Requests, NEW m \in Menu, TxState(r, m)
       PROVE  TxInv'
    <3>1. BootInv'
      BY <2>8 DEF TxState, TakeSession, BootInv, TypeInv, ProcType,
         DriverType
    <3>2. Others(r) /\ Accounts(r)
      BY <2>8 DEF TxState, TakeSession, Others, Accounts, TypeInv, ProcType
    <3>3. QED BY <3>1, <3>2, CountStep
  <2>9. ASSUME NEW r \in Requests, NEW m \in Menu, Embed(r, m)
       PROVE  TxInv'
    <3>1. BootInv'
      BY <2>9 DEF Embed, TakeSession, BootInv, TypeInv, ProcType,
         DriverType
    <3>2. Others(r) /\ Accounts(r)
      BY <2>9 DEF Embed, TakeSession, Others, Accounts, TypeInv, ProcType
    <3>3. QED BY <3>1, <3>2, CountStep
  <2>10. ASSUME NEW r \in Requests, CloseFirst(r)
       PROVE  TxInv'
    <3>1. BootInv'
      BY <2>10 DEF CloseFirst, HoldsLock, BootInv, TypeInv, ProcType,
         DriverType
    <3>2. Others(r) /\ Accounts(r)
      BY <2>10 DEF CloseFirst, HoldsLock, Others, Accounts, TypeInv,
         ProcType
    <3>3. QED BY <3>1, <3>2, CountStep
  <2>11. ASSUME NEW r \in Requests, NothingToClose(r)
       PROVE  TxInv'
    <3>1. BootInv'
      BY <2>11 DEF NothingToClose, HoldsLock, BootInv, TypeInv, ProcType,
         DriverType
    <3>2. Others(r) /\ Accounts(r)
      BY <2>11 DEF NothingToClose, HoldsLock, Others, Accounts, TypeInv,
         ProcType
    <3>3. QED BY <3>1, <3>2, CountStep
  <2>12. ASSUME NEW r \in Requests, Closed(r)
       PROVE  TxInv'
    <3>1. \A x \in Requests : x # r => pc[x] # "boot"
      BY <2>12 DEF Closed, HoldsLock, TypeInv, LockInv, Replacing
    <3>2. BootInv'
      <4>1. \A x \in Requests : pc'[x] # "boot"
        BY <2>12, <3>1 DEF Closed, TypeInv, ProcType
      <4>2. QED BY <4>1 DEF BootInv
    <3>3. CountInv'
      BY <2>12 DEF Closed, CountInv
    <3>4. QED BY <3>2, <3>3
  <2>13. ASSUME NEW r \in Requests, Built(r)
       PROVE  TxInv'
    <3>1. \A x \in Requests : x # r => pc[x] # "boot"
      BY <2>13 DEF Built, HoldsLock, TypeInv, LockInv, Replacing
    <3>2. BootInv'
      <4>1. PICK c \in Conns : /\ link[c] = "unused" /\ link' = [link EXCEPT ![c] = "up"]
                               /\ conn' = [conn EXCEPT ![r] = c]
        BY <2>13 DEF Built
      <4>2. \A x \in Requests : x # r => pc'[x] # "boot"
        BY <2>13, <3>1 DEF Built, TypeInv, ProcType
      <4>3. conn'[r] = c /\ link'[c] = "up"
        BY <4>1 DEF TypeInv, ProcType, DriverType
      <4>4. ~tx[c] /\ tx' = tx
        BY <2>13, <4>1 DEF Built, SessionInv, BuiltInv
      <4>5. QED BY <4>2, <4>3, <4>4 DEF BootInv
    <3>3. CountInv'
      BY <2>13 DEF Built, CountInv, SessionInv, HolderInv
    <3>4. QED BY <3>2, <3>3
  <2>14. ASSUME NEW r \in Requests, BuildFails(r)
       PROVE  TxInv'
    <3>1. BootInv'
      BY <2>14 DEF BuildFails, BootInv, TypeInv, ProcType, DriverType
    <3>2. Others(r) /\ Accounts(r)
      BY <2>14 DEF BuildFails, Others, Accounts, TypeInv, ProcType
    <3>3. QED BY <3>1, <3>2, CountStep
  <2>15. ASSUME NEW r \in Requests, BootClosed(r)
       PROVE  TxInv'
    <3>1. \A x \in Requests : x # r => pc[x] # "boot"
      BY <2>15 DEF BootClosed, HoldsLock, TypeInv, LockInv, Replacing
    <3>2. BootInv'
      <4>1. \A x \in Requests : pc'[x] # "boot"
        BY <2>15, <3>1 DEF BootClosed, TypeInv, ProcType
      <4>2. QED BY <4>1 DEF BootInv
    <3>3. CountInv'
      BY <2>15 DEF BootClosed, CountInv, SessionInv, HolderInv
    <3>4. QED BY <3>2, <3>3
  <2>16. ASSUME NEW r \in Requests, StmtRan(r)
       PROVE  TxInv'
    <3>1. conn[r] \in Conns
      BY <2>16 DEF StmtRan, SessionInv, CallInv, Calling, OnSession
    <3>2. Others(r)
      BY <2>16 DEF StmtRan, NextStmt, QueryEnds, Others, TypeInv, ProcType
    <3>3. PICK open : /\ open \in TxAfter(StmtOf(r).kind, tx[conn[r]])
                      /\ SetTx(conn[r], open,
                               IF StmtOf(r).kind \in Silent
                                 THEN Opening(conn[r], "silent") ELSE {})
      BY <2>16 DEF StmtRan
    <3>4. \A c \in Conns : c # conn[r] => tx'[c] = tx[c] /\ unseen'[c] = unseen[c]
      BY <3>1, <3>3, SetTxDoes DEF TypeInv
    <3>5. Touches(r)
      <4>1. After(conn[r], "ok")
        BY <2>16 DEF StmtRan
      <4>2. \A c \in Conns : c # conn[r] => link'[c] = link[c]
        BY <3>1, <4>1, AfterLink DEF TypeInv
      <4>3. pc[r] \in OnSession \cup Embedding /\ pc'[r] # "boot"
        BY <2>16 DEF StmtRan, NextStmt, QueryEnds, OnSession, Embedding, TypeInv, ProcType
      <4>4. lateLoss => lateLoss'
        BY <2>16 DEF StmtRan
      <4>5. QED BY <3>2, <3>4, <4>2, <4>3, <4>4 DEF Touches
    <3>6. Accounts(r)
      <4> SUFFICES ASSUME ~lateLoss', session' # None
                   PROVE  /\ ~lateLoss /\ session' = session
                          /\ tx'[session] /\ unseen'[session] = {} =>
                               \/ pending' > 0
                               \/ pc'[r] = "sync" /\ conn'[r] = session /\ StmtOf(r)'.kind \notin {"end", "mark"}
                               \/ /\ tx[session] /\ unseen[session] = {} /\ pending' = pending
                                  /\ pc[r] = "sync" => StmtOf(r).kind \in {"end", "mark"}
        BY DEF Accounts
      <4>1. ~lateLoss /\ session' = session /\ session = conn[r] /\ pending' = pending
        BY <2>16, UpIsSession DEF StmtRan, OnSession
      <4> DEFINE why == IF StmtOf(r).kind \in Silent THEN Opening(conn[r], "silent") ELSE {}
      <4>2. /\ tx'[session] = open
            /\ unseen'[session] = IF open THEN unseen[session] \cup why ELSE {}
        <5>1. tx'[conn[r]] = open
          BY <3>1, <3>3, SetTxDoes DEF TypeInv
        <5>2. SetTx(conn[r], open, why)
          BY <3>3
        <5> HIDE DEF why
        <5>3. unseen'[conn[r]] = IF open THEN unseen[conn[r]] \cup why ELSE {}
          BY <3>1, <5>2 DEF SetTx, TypeInv, DriverType
        <5>4. QED BY <4>1, <5>1, <5>3
      <4>3. CASE StmtOf(r).kind \in Silent
        <5>1. pc[r] = "exec"
          BY <2>16 DEF StmtRan
        <5>2. ~tx[session] => why # {}
          BY <4>1, <4>3 DEF Opening
        <5>3. tx[session] => why = {}
          BY <4>1, <4>3 DEF Opening
        <5>4. QED BY <4>1, <4>2, <5>1, <5>2, <5>3
      <4>4. CASE StmtOf(r).kind = "end"
        <5>1. ~open
          BY <3>3, <4>4 DEF TxAfter
        <5>2. QED BY <4>1, <4>2, <5>1
      <4>5. CASE StmtOf(r).kind = "query"
        <5>1. pc[r] = "exec" /\ StmtOf(r).kind \notin Silent
          BY <2>16, <4>5 DEF StmtRan, Silent
        <5>2. open = tx[session]
          BY <3>3, <4>1, <4>5 DEF TxAfter
        <5>3. QED BY <4>1, <4>2, <5>1, <5>2
      <4>6. CASE StmtOf(r).kind \notin Silent \cup {"end", "query"}
        <5>1. Consults(StmtOf(r).kind) /\ StmtOf(r).kind \notin {"end", "mark"}
          BY <4>6 DEF Consults, Silent
        <5>2. pc'[r] = "sync" /\ conn' = conn /\ req' = req /\ idx' = idx
          BY <2>16, <5>1 DEF StmtRan, TypeInv, ProcType
        <5>3. QED BY <4>1, <5>1, <5>2 DEF StmtOf
      <4>7. QED BY <4>3, <4>4, <4>5, <4>6
    <3>7. QED BY <3>2, <3>5, <3>6, TouchStep, CountStep
  <2>17. ASSUME NEW r \in Requests, EmbeddingReady(r)
       PROVE  TxInv'
    <3>1. BootInv'
      BY <2>17 DEF EmbeddingReady, BootInv, TypeInv, ProcType, DriverType
    <3>2. Others(r) /\ Accounts(r)
      BY <2>17 DEF EmbeddingReady, Others, Accounts, TypeInv, ProcType
    <3>3. QED BY <3>1, <3>2, CountStep
  <2>18. ASSUME NEW r \in Requests, EmbeddingFails(r)
       PROVE  TxInv'
    <3>1. BootInv'
      BY <2>18 DEF EmbeddingFails, NextRow, BootInv, TypeInv, ProcType,
         DriverType
    <3>2. Others(r) /\ Accounts(r)
      BY <2>18 DEF EmbeddingFails, NextRow, Others, Accounts, TypeInv,
         ProcType
    <3>3. QED BY <3>1, <3>2, CountStep
  <2>19. ASSUME NEW r \in Requests, NEW out, Booted(r, out)
       PROVE  TxInv'
    <3>1. \A x \in Requests : x # r => pc[x] # "boot"
      BY <2>19 DEF Booted, HoldsLock, TypeInv, LockInv, Replacing
    <3>2. BootInv'
      <4>1. \A x \in Requests : pc'[x] # "boot"
        BY <2>19, <3>1 DEF Booted, TypeInv, ProcType
      <4>2. QED BY <4>1 DEF BootInv
    <3>3. CountInv'
      <4>1. session' # None => session' = conn[r]
        BY <2>19 DEF Booted, SessionInv, HolderInv
      <4>2. tx' = tx /\ lateLoss' = lateLoss /\ pc[r] = "boot"
        BY <2>19 DEF Booted
      <4>3. ~lateLoss => ~tx[conn[r]]
        BY <4>2 DEF TxInv, BootInv
      <4>4. QED BY <4>1, <4>2, <4>3 DEF CountInv
    <3>4. QED BY <3>2, <3>3
  <2>20. ASSUME NEW r \in Requests, NEW out, Enabled(r, out)
       PROVE  TxInv'
    <3>1. conn[r] \in Conns
      BY <2>20 DEF Enabled, SessionInv, CallInv, Calling, OnSession
    <3>2. Others(r)
      BY <2>20 DEF Enabled, ClearOnLoss, Others, TypeInv, ProcType
    <3>3. Touches(r)
      BY <2>20, <3>1, <3>2, AfterLink DEF Enabled, ClearOnLoss, Touches,
         OnSession, Embedding, TypeInv, ProcType
    <3>4. Accounts(r)
      BY <2>20, <3>1, UpIsSession DEF Enabled, ClearOnLoss, Accounts,
         OnSession, Embedding, TypeInv, ProcType, StmtOf, Outcomes
    <3>5. QED BY <3>2, <3>3, <3>4, TouchStep, CountStep
  <2>21. ASSUME NEW r \in Requests, NEW out, StmtFailed(r, out)
       PROVE  TxInv'
    <3>1. conn[r] \in Conns
      BY <2>21 DEF StmtFailed, SessionInv, CallInv, Calling, OnSession
    <3>2. Others(r)
      BY <2>21 DEF StmtFailed, QueryEnds, ClearOnLoss, Others, TypeInv, ProcType
    <3>3. PICK open : /\ open \in {tx[conn[r]], FALSE}
                      /\ SetTx(conn[r], open, {})
      BY <2>21 DEF StmtFailed
    <3>4. \A c \in Conns : c # conn[r] => tx'[c] = tx[c] /\ unseen'[c] = unseen[c]
      BY <3>1, <3>3, SetTxDoes DEF TypeInv
    <3>5. Touches(r)
      <4>1. After(conn[r], out)
        BY <2>21 DEF StmtFailed
      <4>2. \A c \in Conns : c # conn[r] => link'[c] = link[c]
        BY <3>1, <4>1, AfterLink DEF TypeInv
      <4>3. pc[r] \in OnSession \cup Embedding /\ pc'[r] # "boot"
        BY <2>21 DEF StmtFailed, QueryEnds, ClearOnLoss, OnSession, Embedding, TypeInv, ProcType
      <4>4. lateLoss => lateLoss'
        BY <2>21 DEF StmtFailed, ClearOnLoss
      <4>5. QED BY <3>2, <3>4, <4>2, <4>3, <4>4 DEF Touches
    <3>6. Accounts(r)
      <4> SUFFICES ASSUME ~lateLoss', session' # None
                   PROVE  /\ ~lateLoss /\ session' = session
                          /\ tx'[session] /\ unseen'[session] = {} =>
                               \/ pending' > 0
                               \/ pc'[r] = "sync" /\ conn'[r] = session /\ StmtOf(r)'.kind \notin {"end", "mark"}
                               \/ /\ tx[session] /\ unseen[session] = {} /\ pending' = pending
                                  /\ pc[r] = "sync" => StmtOf(r).kind \in {"end", "mark"}
        BY DEF Accounts
      <4>1. ~lateLoss /\ session' = session /\ pending' = pending
        BY <2>21 DEF StmtFailed, ClearOnLoss
      <4>2. session \in Conns /\ pc[r] = "exec"
        BY <2>21, <4>1 DEF StmtFailed, TypeInv, SessionType
      <4>3. CASE session = conn[r]
        <5>1. tx'[session] = open /\ unseen'[session] = IF open THEN unseen[session] \cup {} ELSE {}
          <6>1. tx'[conn[r]] = open
            BY <3>1, <3>3, SetTxDoes DEF TypeInv
          <6>2. unseen'[conn[r]] = IF open THEN unseen[conn[r]] \cup {} ELSE {}
            BY <3>1, <3>3 DEF SetTx, TypeInv, DriverType
          <6>3. QED BY <4>3, <6>1, <6>2
        <5>2. QED BY <3>3, <4>1, <4>2, <4>3, <5>1
      <4>4. CASE session # conn[r]
        BY <3>4, <4>1, <4>2, <4>4
      <4>5. QED BY <4>3, <4>4
    <3>7. QED BY <3>2, <3>5, <3>6, TouchStep, CountStep
  <2>22. ASSUME NEW r \in Requests, NEW out, Synced(r, out)
       PROVE  TxInv'
    <3>1. conn[r] \in Conns
      BY <2>22 DEF Synced, SessionInv, CallInv, Calling, OnSession
    <3>2. Others(r)
      BY <2>22 DEF Synced, NextStmt, QueryEnds, Others, TypeInv, ProcType
    <3>3. SetTx(conn[r], tx[conn[r]], IF out # "ok" THEN {"consult"} ELSE {})
      BY <2>22 DEF Synced
    <3>4. \A c \in Conns : c # conn[r] => tx'[c] = tx[c] /\ unseen'[c] = unseen[c]
      BY <3>1, <3>3, SetTxDoes DEF TypeInv
    <3>5. Touches(r)
      <4>1. After(conn[r], out)
        BY <2>22 DEF Synced
      <4>2. \A c \in Conns : c # conn[r] => link'[c] = link[c]
        BY <3>1, <4>1, AfterLink DEF TypeInv
      <4>3. pc[r] \in OnSession \cup Embedding /\ pc'[r] # "boot"
        BY <2>22 DEF Synced, NextStmt, QueryEnds, OnSession, Embedding, TypeInv, ProcType
      <4>4. lateLoss => lateLoss'
        BY <2>22 DEF Synced
      <4>5. QED BY <3>2, <3>4, <4>2, <4>3, <4>4 DEF Touches
    <3>6. Accounts(r)
      <4> SUFFICES ASSUME ~lateLoss', session' # None
                   PROVE  /\ ~lateLoss /\ session' = session
                          /\ tx'[session] /\ unseen'[session] = {} =>
                               \/ pending' > 0
                               \/ pc'[r] = "sync" /\ conn'[r] = session /\ StmtOf(r)'.kind \notin {"end", "mark"}
                               \/ /\ tx[session] /\ unseen[session] = {} /\ pending' = pending
                                  /\ pc[r] = "sync" => StmtOf(r).kind \in {"end", "mark"}
        BY DEF Accounts
      <4>1. ~lateLoss /\ session' = session /\ session = conn[r]
        BY <2>22, UpIsSession DEF Synced, OnSession
      <4>2. /\ tx'[session] = tx[session]
            /\ unseen'[session] = IF tx[session]
                 THEN unseen[session] \cup (IF out # "ok" THEN {"consult"} ELSE {}) ELSE {}
        BY <3>1, <3>3, <4>1, SetTxDoes DEF TypeInv
      <4>3. CASE out # "ok"
        BY <4>1, <4>2, <4>3
      <4>4. CASE out = "ok"
        <5>1. pending' = IF ~tx[session] THEN 0
                         ELSE IF StmtOf(r).kind \notin {"end", "mark"} THEN pending + 1 ELSE pending
          BY <2>22, <4>1, <4>4 DEF Synced
        <5>2. pending \in Nat
          BY DEF TypeInv, SessionType
        <5>3. ~tx[session] \/ pending' > 0
              \/ (pending' = pending /\ StmtOf(r).kind \in {"end", "mark"})
          BY <5>1, <5>2
        <5>4. QED BY <4>1, <4>2, <4>4, <5>3
      <4>5. QED BY <4>3, <4>4
    <3>7. QED BY <3>2, <3>5, <3>6, TouchStep, CountStep
  <2>23. ASSUME NEW r \in Requests, NEW out, TxEnded(r, out)
       PROVE  TxInv'
    <3>1. conn[r] \in Conns
      BY <2>23 DEF TxEnded, SessionInv, CallInv, Calling, OnSession
    <3>2. Others(r)
      BY <2>23 DEF TxEnded, ClearOnLoss, Others, TypeInv, ProcType
    <3>3. IF out = "ok" THEN SetTx(conn[r], FALSE, {}) ELSE UNCHANGED <<tx, unseen>>
      BY <2>23 DEF TxEnded
    <3>4. \A c \in Conns : c # conn[r] => tx'[c] = tx[c] /\ unseen'[c] = unseen[c]
      BY <3>1, <3>3, SetTxDoes DEF TypeInv
    <3>5. Touches(r)
      <4>1. After(conn[r], out)
        BY <2>23 DEF TxEnded
      <4>2. \A c \in Conns : c # conn[r] => link'[c] = link[c]
        BY <3>1, <4>1, AfterLink DEF TypeInv
      <4>3. pc[r] \in OnSession \cup Embedding /\ pc'[r] # "boot"
        BY <2>23 DEF TxEnded, ClearOnLoss, OnSession, Embedding, TypeInv, ProcType
      <4>4. lateLoss => lateLoss'
        BY <2>23 DEF TxEnded, ClearOnLoss
      <4>5. QED BY <3>2, <3>4, <4>2, <4>3, <4>4 DEF Touches
    <3>6. Accounts(r)
      <4> SUFFICES ASSUME ~lateLoss', session' # None
                   PROVE  /\ ~lateLoss /\ session' = session
                          /\ tx'[session] /\ unseen'[session] = {} =>
                               \/ pending' > 0
                               \/ pc'[r] = "sync" /\ conn'[r] = session /\ StmtOf(r)'.kind \notin {"end", "mark"}
                               \/ /\ tx[session] /\ unseen[session] = {} /\ pending' = pending
                                  /\ pc[r] = "sync" => StmtOf(r).kind \in {"end", "mark"}
        BY DEF Accounts
      <4>1. ~lateLoss /\ session' = session /\ pc[r] \in {"commit", "rollback"}
        BY <2>23 DEF TxEnded, ClearOnLoss
      <4>2. CASE out = "ok"
        <5>1. link[conn[r]] = "up"
          BY <2>23, <4>2 DEF TxEnded, Outcomes
        <5>2. session = conn[r]
          BY <4>1, <5>1, UpIsSession DEF OnSession
        <5>3. ~tx'[session]
          BY <3>1, <3>3, <4>2, <5>2, SetTxDoes DEF TypeInv
        <5>4. QED BY <4>1, <5>3
      <4>3. CASE out # "ok"
        <5>1. pending' = pending
          BY <2>23, <4>3 DEF TxEnded, ClearOnLoss
        <5>2. QED BY <3>3, <4>1, <4>3, <5>1
      <4>4. QED BY <4>2, <4>3
    <3>7. QED BY <3>2, <3>5, <3>6, TouchStep, CountStep
  <2>24. ASSUME NEW r \in Requests, NEW out, Consulted(r, out)
       PROVE  TxInv'
    <3>1. conn[r] \in Conns
      BY <2>24 DEF Consulted, SessionInv, CallInv, Calling, OnSession
    <3>2. Others(r)
      BY <2>24 DEF Consulted, Others, TypeInv, ProcType
    <3>3. SetTx(conn[r], tx[conn[r]], IF out # "ok" THEN {"consult"} ELSE {})
      BY <2>24 DEF Consulted
    <3>4. \A c \in Conns : c # conn[r] => tx'[c] = tx[c] /\ unseen'[c] = unseen[c]
      BY <3>1, <3>3, SetTxDoes DEF TypeInv
    <3>5. Touches(r)
      <4>1. After(conn[r], out)
        BY <2>24 DEF Consulted
      <4>2. \A c \in Conns : c # conn[r] => link'[c] = link[c]
        BY <3>1, <4>1, AfterLink DEF TypeInv
      <4>3. pc[r] \in OnSession \cup Embedding /\ pc'[r] # "boot"
        BY <2>24 DEF Consulted, OnSession, Embedding, TypeInv, ProcType
      <4>4. lateLoss => lateLoss'
        BY <2>24 DEF Consulted
      <4>5. QED BY <3>2, <3>4, <4>2, <4>3, <4>4 DEF Touches
    <3>6. Accounts(r)
      <4> SUFFICES ASSUME ~lateLoss', session' # None
                   PROVE  /\ ~lateLoss /\ session' = session
                          /\ tx'[session] /\ unseen'[session] = {} =>
                               \/ pending' > 0
                               \/ pc'[r] = "sync" /\ conn'[r] = session /\ StmtOf(r)'.kind \notin {"end", "mark"}
                               \/ /\ tx[session] /\ unseen[session] = {} /\ pending' = pending
                                  /\ pc[r] = "sync" => StmtOf(r).kind \in {"end", "mark"}
        BY DEF Accounts
      <4>1. ~lateLoss /\ session' = session /\ session = conn[r] /\ pc[r] = "consult"
        BY <2>24, UpIsSession DEF Consulted, OnSession
      <4>2. /\ tx'[session] = tx[session]
            /\ unseen'[session] = IF tx[session]
                 THEN unseen[session] \cup (IF out # "ok" THEN {"consult"} ELSE {}) ELSE {}
        BY <3>1, <3>3, <4>1, SetTxDoes DEF TypeInv
      <4>3. CASE out # "ok"
        BY <4>1, <4>2, <4>3
      <4>4. CASE out = "ok"
        <5>1. pending' = IF ~tx[session] THEN 0 ELSE pending
          BY <2>24, <4>1, <4>4 DEF Consulted
        <5>2. QED BY <4>1, <4>2, <4>4, <5>1
      <4>5. QED BY <4>3, <4>4
    <3>7. QED BY <3>2, <3>5, <3>6, TouchStep, CountStep
  <2>25. ASSUME NEW r \in Requests, NEW out, EmbedRead(r, out)
       PROVE  TxInv'
    <3>1. conn[r] \in Conns
      BY <2>25 DEF EmbedRead, SessionInv, CallInv, Calling, OnSession
    <3>2. Others(r)
      BY <2>25 DEF EmbedRead, ClearOnLoss, Others, TypeInv, ProcType
    <3>3. Touches(r)
      BY <2>25, <3>1, <3>2, AfterLink DEF EmbedRead, ClearOnLoss, Touches,
         OnSession, Embedding, TypeInv, ProcType
    <3>4. Accounts(r)
      BY <2>25, <3>1, UpIsSession DEF EmbedRead, ClearOnLoss, Accounts,
         OnSession, Embedding, TypeInv, ProcType, StmtOf, Outcomes
    <3>5. QED BY <3>2, <3>3, <3>4, TouchStep, CountStep
  <2>26. ASSUME NEW r \in Requests, NEW out, EmbedUpdated(r, out)
       PROVE  TxInv'
    <3>1. conn[r] \in Conns
      BY <2>26 DEF EmbedUpdated, SessionInv, CallInv, Calling, OnSession
    <3>2. Others(r)
      BY <2>26 DEF EmbedUpdated, NextRow, Others, TypeInv, ProcType
    <3>3. IF out = "ok" THEN SetTx(conn[r], TRUE, Opening(conn[r], "embed"))
          ELSE UNCHANGED <<tx, unseen>>
      BY <2>26 DEF EmbedUpdated
    <3>4. \A c \in Conns : c # conn[r] => tx'[c] = tx[c] /\ unseen'[c] = unseen[c]
      BY <3>1, <3>3, SetTxDoes DEF TypeInv
    <3>5. Touches(r)
      <4>1. After(conn[r], out)
        BY <2>26 DEF EmbedUpdated
      <4>2. \A c \in Conns : c # conn[r] => link'[c] = link[c]
        BY <3>1, <4>1, AfterLink DEF TypeInv
      <4>3. pc[r] \in OnSession \cup Embedding /\ pc'[r] # "boot"
        BY <2>26 DEF EmbedUpdated, NextRow, OnSession, Embedding, TypeInv, ProcType
      <4>4. lateLoss => lateLoss'
        BY <2>26 DEF EmbedUpdated
      <4>5. QED BY <3>2, <3>4, <4>2, <4>3, <4>4 DEF Touches
    <3>6. Accounts(r)
      <4> SUFFICES ASSUME ~lateLoss', session' # None
                   PROVE  /\ ~lateLoss /\ session' = session
                          /\ tx'[session] /\ unseen'[session] = {} =>
                               \/ pending' > 0
                               \/ pc'[r] = "sync" /\ conn'[r] = session /\ StmtOf(r)'.kind \notin {"end", "mark"}
                               \/ /\ tx[session] /\ unseen[session] = {} /\ pending' = pending
                                  /\ pc[r] = "sync" => StmtOf(r).kind \in {"end", "mark"}
        BY DEF Accounts
      <4>1. ~lateLoss /\ session' = session /\ pending' = pending /\ pc[r] = "embedUpdate"
        BY <2>26 DEF EmbedUpdated
      <4>2. CASE out = "ok"
        <5>1. link[conn[r]] = "up"
          BY <2>26, <4>2 DEF EmbedUpdated, Outcomes
        <5>2. session = conn[r]
          BY <4>1, <5>1, UpIsSession DEF Embedding
        <5>3. unseen'[session] = unseen[session] \cup Opening(session, "embed")
          BY <3>1, <3>3, <4>2, <5>2, SetTxDoes DEF TypeInv
        <5>4. QED BY <4>1, <5>3 DEF Opening
      <4>3. CASE out # "ok"
        BY <3>3, <4>1, <4>3
      <4>4. QED BY <4>2, <4>3
    <3>7. QED BY <3>2, <3>5, <3>6, TouchStep, CountStep
  <2>27. ASSUME NEW r \in Requests, NEW out, EmbedCommitted(r, out)
       PROVE  TxInv'
    <3>1. conn[r] \in Conns
      BY <2>27 DEF EmbedCommitted, SessionInv, CallInv, Calling, OnSession
    <3>2. Others(r)
      BY <2>27 DEF EmbedCommitted, ClearOnLoss, Others, TypeInv, ProcType
    <3>3. IF out = "ok" THEN SetTx(conn[r], FALSE, {}) ELSE UNCHANGED <<tx, unseen>>
      BY <2>27 DEF EmbedCommitted
    <3>4. \A c \in Conns : c # conn[r] => tx'[c] = tx[c] /\ unseen'[c] = unseen[c]
      BY <3>1, <3>3, SetTxDoes DEF TypeInv
    <3>5. Touches(r)
      <4>1. After(conn[r], out)
        BY <2>27 DEF EmbedCommitted
      <4>2. \A c \in Conns : c # conn[r] => link'[c] = link[c]
        BY <3>1, <4>1, AfterLink DEF TypeInv
      <4>3. pc[r] \in OnSession \cup Embedding /\ pc'[r] # "boot"
        BY <2>27 DEF EmbedCommitted, ClearOnLoss, OnSession, Embedding, TypeInv, ProcType
      <4>4. lateLoss => lateLoss'
        BY <2>27 DEF EmbedCommitted, ClearOnLoss
      <4>5. QED BY <3>2, <3>4, <4>2, <4>3, <4>4 DEF Touches
    <3>6. Accounts(r)
      <4> SUFFICES ASSUME ~lateLoss', session' # None
                   PROVE  /\ ~lateLoss /\ session' = session
                          /\ tx'[session] /\ unseen'[session] = {} =>
                               \/ pending' > 0
                               \/ pc'[r] = "sync" /\ conn'[r] = session /\ StmtOf(r)'.kind \notin {"end", "mark"}
                               \/ /\ tx[session] /\ unseen[session] = {} /\ pending' = pending
                                  /\ pc[r] = "sync" => StmtOf(r).kind \in {"end", "mark"}
        BY DEF Accounts
      <4>1. ~lateLoss /\ session' = session /\ pc[r] = "embedCommit"
        BY <2>27 DEF EmbedCommitted, ClearOnLoss
      <4>2. CASE out = "ok"
        <5>1. link[conn[r]] = "up"
          BY <2>27, <4>2 DEF EmbedCommitted, Outcomes
        <5>2. session = conn[r]
          BY <4>1, <5>1, UpIsSession DEF Embedding
        <5>3. ~tx'[session]
          BY <3>1, <3>3, <4>2, <5>2, SetTxDoes DEF TypeInv
        <5>4. QED BY <4>1, <5>3
      <4>3. CASE out # "ok"
        <5>1. pending' = pending
          BY <2>27, <4>3 DEF EmbedCommitted, ClearOnLoss
        <5>2. QED BY <3>3, <4>1, <4>3, <5>1
      <4>4. QED BY <4>2, <4>3
    <3>7. QED BY <3>2, <3>5, <3>6, TouchStep, CountStep
  <2>28. ASSUME WindowExpires
       PROVE  TxInv'
    <3>1. BootInv'
      BY <2>28 DEF WindowExpires, BootInv
    <3>2. CountInv'
      BY <2>28 DEF WindowExpires, CountInv, StmtOf
    <3>3. QED BY <3>1, <3>2
  <2>29. ASSUME NEW c \in Conns, LinkDrops(c)
       PROVE  TxInv'
    <3>1. /\ ~tx'[c]
          /\ \A d \in Conns : d # c => tx'[d] = tx[d] /\ unseen'[d] = unseen[d]
      BY <2>29, SetTxDoes DEF LinkDrops, TypeInv
    <3>2. BootInv'
      <4>1. /\ pc' = pc /\ conn' = conn /\ lateLoss' = lateLoss
            /\ link' = [link EXCEPT ![c] = "down"]
        BY <2>29 DEF LinkDrops
      <4>2. \A x \in Requests : pc[x] = "boot" => conn[x] \in Conns
        BY DEF SessionInv, CallInv, Calling
      <4>3. \A d \in Conns : link'[d] = IF d = c THEN "down" ELSE link[d]
        BY <4>1 DEF TypeInv, DriverType
      <4>4. QED BY <3>1, <4>1, <4>2, <4>3 DEF TxInv, BootInv
    <3>3. CountInv'
      <4>1. /\ session' = session /\ pending' = pending /\ lateLoss' = lateLoss
            /\ pc' = pc /\ conn' = conn /\ idx' = idx /\ req' = req
        BY <2>29 DEF LinkDrops
      <4>2. session # None => session \in Conns
        BY DEF TypeInv, SessionType
      <4>3. session # None /\ tx'[session] => tx[session] /\ unseen'[session] = unseen[session]
        BY <3>1, <4>2
      <4>4. QED BY <4>1, <4>3 DEF TxInv, CountInv, StmtOf
    <3>4. QED BY <3>2, <3>3
  <2>30. ASSUME UNCHANGED vars
       PROVE  TxInv'
    <3>1. BootInv'
      BY <2>30 DEF vars, BootInv
    <3>2. CountInv'
      BY <2>30 DEF vars, vars, CountInv, StmtOf
    <3>3. QED BY <3>1, <3>2
  <2>32. ASSUME NEW r \in Requests, NEW m \in Menu, Call(r, m)
       PROVE  TxInv'
    <3>1. BootInv'
      BY <2>32 DEF Call, TakeSession, BootInv, TypeInv, ProcType,
         DriverType
    <3>2. Others(r) /\ Accounts(r)
      BY <2>32 DEF Call, TakeSession, Others, Accounts, TypeInv, ProcType
    <3>3. QED BY <3>1, <3>2, CountStep
  <2>33. ASSUME NEW r \in Requests, NEW out, Called(r, out)
       PROVE  TxInv'
    <3>1. conn[r] \in Conns
      BY <2>33 DEF Called, SessionInv, CallInv, Calling, OnSession
    <3>2. Others(r)
      BY <2>33 DEF Called, ClearOnLoss, Others, TypeInv, ProcType
    <3>3. PICK open : SetTx(conn[r], open, Opening(conn[r], "call"))
      BY <2>33 DEF Called
    <3>4. \A c \in Conns : c # conn[r] => tx'[c] = tx[c] /\ unseen'[c] = unseen[c]
      BY <3>1, <3>3, SetTxDoes DEF TypeInv
    <3>5. Touches(r)
      <4>1. After(conn[r], out)
        BY <2>33 DEF Called
      <4>2. \A c \in Conns : c # conn[r] => link'[c] = link[c]
        BY <3>1, <4>1, AfterLink DEF TypeInv
      <4>3. pc[r] \in OnSession \cup Embedding /\ pc'[r] # "boot"
        BY <2>33 DEF Called, ClearOnLoss, OnSession, Embedding, TypeInv, ProcType
      <4>4. lateLoss => lateLoss'
        BY <2>33 DEF Called, ClearOnLoss
      <4>5. QED BY <3>2, <3>4, <4>2, <4>3, <4>4 DEF Touches
    <3>6. Accounts(r)
      <4> SUFFICES ASSUME ~lateLoss', session' # None
                   PROVE  /\ ~lateLoss /\ session' = session
                          /\ tx'[session] /\ unseen'[session] = {} =>
                               \/ pending' > 0
                               \/ pc'[r] = "sync" /\ conn'[r] = session /\ StmtOf(r)'.kind \notin {"end", "mark"}
                               \/ /\ tx[session] /\ unseen[session] = {} /\ pending' = pending
                                  /\ pc[r] = "sync" => StmtOf(r).kind \in {"end", "mark"}
        BY DEF Accounts
      <4>1. /\ ~lateLoss /\ session' = session /\ pending' = pending
            /\ pc[r] = "call" /\ session = conn[r]
        BY <2>33, UpIsSession DEF Called, ClearOnLoss, OnSession
      <4>2. /\ tx'[session] = open
            /\ unseen'[session] = IF open THEN unseen[session] \cup Opening(session, "call")
                                 ELSE {}
        BY <3>1, <3>3, <4>1 DEF SetTx, TypeInv, DriverType
      <4>3. QED BY <4>1, <4>2 DEF Opening
    <3>7. QED BY <3>2, <3>5, <3>6, TouchStep, CountStep
  <2>31. QED
    BY <2>1, <2>2, <2>3, <2>4, <2>5, <2>6, <2>7, <2>8, <2>9, <2>10,
       <2>11, <2>12, <2>13, <2>14, <2>15, <2>16, <2>17, <2>18, <2>19, <2>20,
       <2>21, <2>22, <2>23, <2>24, <2>25, <2>26, <2>27, <2>28, <2>29, <2>30,
       <2>32, <2>33
       DEF Next, Ask, Proceed
<1>3. QED BY <1>1, <1>2, TypesHold, SessionsHold, PTL DEF Spec

(* When no call is in progress on the session, open work that no gap of    *)
(* the consults explains is counted, so that closing a window asks.        *)
THEOREM OpenWorkIsCounted == Spec => []OpenTxIsCounted
<1>1. TypeInv /\ SessionInv /\ TxInv => OpenTxIsCounted
  <2> SUFFICES ASSUME TypeInv, SessionInv, TxInv, ~lateLoss, session # None,
                      opq[session] = <<>>, tx[session], unseen[session] = {}
               PROVE  pending > 0
    BY DEF OpenTxIsCounted
  <2>1. ASSUME NEW r \in Requests, pc[r] = "sync", conn[r] = session
        PROVE  FALSE
    <3>1. r \in Range(opq[session])
      BY <2>1 DEF SessionInv, CallInv, Calling, OnSession
    <3>2. QED BY <3>1, EmptyHolds
  <2>2. QED BY <2>1 DEF TxInv, CountInv
<1>2. QED BY <1>1, TypesHold, SessionsHold, TransactionsHold, PTL

-----------------------------------------------------------------------------
(***************************************************************************)
(* The safety gate.                                                        *)
(***************************************************************************)

(* A window is one of the session there is, and none is open while another *)
(* session is being built.                                                 *)
WindowInv ==
  /\ window # None => /\ window.no <= unlocks
                      /\ session # None => window.conn = session
  /\ \A r \in Requests : pc[r] \in {"build", "boot", "bootClose"} => window = None

(* The batch of r went through the gate.                                   *)
Begun(r) == gate[r].conn # None

BatchInv ==
  \A r \in Requests :
    /\ pc[r] \in {"exec", "sync"} => Begun(r)
    /\ Begun(r) => /\ pc[r] \in {"exec", "sync", "done"}
                   /\ link[gate[r].conn] # "unused"
                   /\ DOMAIN gate[r].grants = DOMAIN req[r].stmts

(* Statement s is let through on connection c of params p by grant g.      *)
LetThrough(s, g, p, c) ==
  /\ ~Forbidden(s, p)
  /\ s.kind = "sweep" /\ p.env = "prod" => g # None /\ g.table = s.table /\ g.conn = c

Spent(g) == g # None => g.no <= unlocks /\ (window # None => window.no # g.no)

GrantInv ==
  \A r \in Requests : Begun(r) => \A i \in DOMAIN req[r].stmts :
    /\ LetThrough(req[r].stmts[i], gate[r].grants[i], profile[gate[r].conn], gate[r].conn)
    /\ Spent(gate[r].grants[i])

(* No window is granted twice.                                             *)
OnceInv ==
  \A r, q \in Requests : Begun(r) /\ Begun(q) =>
    \A i \in DOMAIN gate[r].grants, j \in DOMAIN gate[q].grants :
      gate[r].grants[i] # None /\ gate[r].grants[i] = gate[q].grants[j] => r = q /\ i = j

(* What ran is what its batch asked, each statement once.                  *)
AsAsked(x) ==
  /\ x.req \in Requests /\ Begun(x.req) /\ x.idx \in DOMAIN req[x.req].stmts
  /\ x.stmt = req[x.req].stmts[x.idx] /\ x.grant = gate[x.req].grants[x.idx]
  /\ x.checkedOn = gate[x.req].conn
  /\ x.idx <= idx[x.req] /\ (pc[x.req] = "exec" => x.idx # idx[x.req])

RanInv ==
  \A x \in ran : /\ AsAsked(x)
                 /\ \A y \in ran : x.req = y.req /\ x.idx = y.idx => x = y

GateInv == WindowInv /\ BatchInv /\ GrantInv /\ OnceInv /\ RanInv

LEMMA GateSuffices == TypeInv /\ GateInv => GateHolds
<1> SUFFICES ASSUME TypeInv, GateInv PROVE GateHolds
  OBVIOUS
<1>1. ASSUME NEW x \in ran
      PROVE  /\ x.req \in Requests /\ Begun(x.req) /\ x.idx \in DOMAIN req[x.req].stmts
             /\ x.idx \in DOMAIN gate[x.req].grants
             /\ LetThrough(x.stmt, x.grant, profile[x.checkedOn], x.checkedOn)
  BY DEF GateInv, RanInv, AsAsked, BatchInv, GrantInv
<1>2. ASSUME NEW x \in ran, NEW y \in ran, x.grant # None, x.grant = y.grant
      PROVE  x = y
  <2>1. x.req = y.req /\ x.idx = y.idx
    BY <1>1, <1>2 DEF GateInv, RanInv, AsAsked, OnceInv
  <2>2. QED BY <2>1 DEF GateInv, RanInv
<1>3. WindowIsOneShot
  BY <1>1, <1>2 DEF WindowIsOneShot, LetThrough
<1>4. ForbiddenBatchRanNothing
  BY <1>1 DEF ForbiddenBatchRanNothing, GateInv, GrantInv, LetThrough, RanInv,
              AsAsked
<1>5. QED BY <1>3, <1>4 DEF GateHolds

(* Most steps let no batch through: ...                                    *)
GateKept ==
  /\ gate' = gate /\ unlocks \in Nat /\ unlocks' \in Nat /\ unlocks <= unlocks'
  /\ window' # None => window' = window \/ window'.no = unlocks + 1
BatchKept ==
  \A x \in Requests :
    /\ Begun(x) => req'[x] = req[x] /\ pc'[x] \in {"exec", "sync", "done"}
    /\ pc'[x] \in {"exec", "sync"} => pc[x] \in {"exec", "sync"}
LinkKept ==
  \A c \in Conns : link[c] # "unused" => link'[c] # "unused" /\ profile'[c] = profile[c]

(* ... and no batch falls back.                                            *)
IdxKept ==
  \A x \in Requests : pc[x] \in {"exec", "sync", "done"} =>
    /\ idx[x] <= idx'[x]
    /\ pc'[x] = "exec" => idx'[x] > idx[x] \/ (pc[x] = "exec" /\ idx'[x] = idx[x])

LEMMA KeptStep ==
  ASSUME TypeInv, TypeInv', GateInv, GateKept, BatchKept, LinkKept
  PROVE  /\ BatchInv' /\ GrantInv' /\ OnceInv'
         /\ IdxKept => \A x \in ran : AsAsked(x)'
<1>1. \A r \in Requests : Begun(r)' <=> Begun(r)
  BY DEF Begun, GateKept
<1>2. \A r \in Requests : Begun(r) =>
        /\ gate[r].conn \in Conns /\ link[gate[r].conn] # "unused"
        /\ link'[gate[r].conn] # "unused" /\ profile'[gate[r].conn] = profile[gate[r].conn]
  BY DEF GateInv, BatchInv, LinkKept, Begun, TypeInv, SessionType
<1>3. BatchInv'
  BY <1>1, <1>2 DEF GateInv, BatchInv, BatchKept, GateKept
<1>4. ASSUME NEW g \in Window \cup {None}, Spent(g)
      PROVE  Spent(g)'
  BY <1>4 DEF Spent, GateKept, Window
<1>5. GrantInv'
  <2> SUFFICES ASSUME NEW r \in Requests, Begun(r)', NEW i \in DOMAIN req'[r].stmts
               PROVE  /\ LetThrough(req'[r].stmts[i], gate'[r].grants[i],
                                    profile'[gate'[r].conn], gate'[r].conn)
                      /\ Spent(gate[r].grants[i])'
    BY DEF GrantInv
  <2>1. Begun(r) /\ req'[r] = req[r] /\ gate' = gate
    BY <1>1 DEF BatchKept, GateKept
  <2>2. gate[r].grants[i] \in Window \cup {None}
    BY <2>1 DEF GateInv, BatchInv, TypeInv, SessionType
  <2>3. QED BY <1>2, <1>4, <2>1, <2>2 DEF GateInv, GrantInv
<1>6. OnceInv'
  BY <1>1 DEF GateInv, OnceInv, GateKept
<1>7. ASSUME IdxKept, NEW x \in ran
      PROVE  AsAsked(x)'
  <2>1. AsAsked(x)
    BY DEF GateInv, RanInv
  <2>2. req'[x.req] = req[x.req] /\ gate' = gate /\ Begun(x.req)'
    BY <1>1, <2>1 DEF BatchKept, GateKept, AsAsked
  <2>3. x.idx \in Nat /\ idx[x.req] \in Nat /\ idx'[x.req] \in Nat
    <3>1. DOMAIN gate[x.req].grants = 1..Len(gate[x.req].grants) /\ Len(gate[x.req].grants) \in Nat
      BY <2>1 DEF TypeInv, SessionType, AsAsked
    <3>2. DOMAIN gate[x.req].grants = DOMAIN req[x.req].stmts
      BY <2>1 DEF GateInv, BatchInv, AsAsked
    <3>3. QED BY <2>1, <3>1, <3>2 DEF TypeInv, ProcType, AsAsked
  <2>4. pc[x.req] \in {"exec", "sync", "done"}
    BY <2>1 DEF GateInv, BatchInv, AsAsked
  <2>5. x.idx <= idx'[x.req] /\ (pc'[x.req] = "exec" => x.idx # idx'[x.req])
    BY <1>7, <2>1, <2>3, <2>4 DEF IdxKept, AsAsked
  <2>6. QED BY <2>1, <2>2, <2>5 DEF AsAsked
<1>8. QED BY <1>3, <1>5, <1>6, <1>7

LEMMA GatesHold == Spec => []GateInv
<1>1. Init => GateInv
  BY DEF Init, GateInv, WindowInv, BatchInv, Begun, GrantInv, OnceInv, RanInv
<1>2. TypeInv /\ TypeInv' /\ SessionInv /\ GateInv /\ [Next]_vars => GateInv'
  <2> SUFFICES ASSUME TypeInv, TypeInv', SessionInv, GateInv, [Next]_vars PROVE GateInv'
    OBVIOUS
  <2> USE DEF Arrives, Finish, session_, query_, proc_, driver_
  <2>1. ASSUME NEW r \in Requests, NEW m \in Menu, AskLock(r, m)
       PROVE  GateInv'
    <3>1. WindowInv'
      BY <2>1 DEF AskLock, GateInv, WindowInv, TypeInv, SessionType,
         ProcType, SessionInv, HolderInv
    <3>2. GateKept
      BY <2>1 DEF AskLock, GateKept, TypeInv, SessionType
    <3>3. BatchKept
      BY <2>1 DEF AskLock, BatchKept, GateInv, BatchInv, Begun, TypeInv,
         ProcType
    <3>4. LinkKept
      BY <2>1 DEF AskLock, LinkKept, TypeInv, DriverType
    <3>5. IdxKept
      BY <2>1 DEF AskLock, IdxKept, TypeInv, ProcType
    <3>6. ran' = ran
      BY <2>1 DEF AskLock
    <3>7. QED BY <3>1, <3>2, <3>3, <3>4, <3>5, <3>6, KeptStep DEF GateInv, RanInv
  <2>2. ASSUME NEW r \in Requests, NEW m \in Menu, QueryRefused(r, m)
       PROVE  GateInv'
    <3>0. window' \in {window, None}
      BY <2>2, CheckedType DEF QueryRefused, TypeInv, SessionType
    <3>1. WindowInv'
      <4>1. /\ session' = session /\ unlocks' = unlocks
            /\ \A x \in Requests : pc'[x] \in {pc[x], "done"}
        BY <2>2 DEF QueryRefused, TypeInv, ProcType
      <4>2. QED BY <3>0, <4>1 DEF GateInv, WindowInv
    <3>2. GateKept
      <4>1. gate' = gate /\ unlocks' = unlocks
        BY <2>2 DEF QueryRefused
      <4>2. QED BY <3>0, <4>1 DEF GateKept, TypeInv, SessionType
    <3>3. BatchKept
      BY <2>2 DEF QueryRefused, BatchKept, GateInv, BatchInv, Begun,
         TypeInv, ProcType
    <3>4. LinkKept
      BY <2>2 DEF QueryRefused, LinkKept, TypeInv, DriverType
    <3>5. IdxKept
      BY <2>2 DEF QueryRefused, IdxKept, TypeInv, ProcType
    <3>6. ran' = ran
      BY <2>2 DEF QueryRefused
    <3>7. QED BY <3>1, <3>2, <3>3, <3>4, <3>5, <3>6, KeptStep DEF GateInv, RanInv
  <2>3. ASSUME NEW r \in Requests, NEW m \in Menu, QueryBegins(r, m)
       PROVE  GateInv'
    <3>1. /\ m.op = "query" /\ pc[r] = "new" /\ session \in Conns
          /\ link[session] # "unused" /\ ~Begun(r)
      BY <2>3 DEF QueryBegins, TypeInv, SessionType, SessionInv, CallInv, GateInv, BatchInv
    <3>2. DOMAIN m.stmts = 1..Len(m.stmts) /\ Len(m.stmts) \in Nat
      BY <3>1, MenuFacts
    <3>3. /\ gate' = [gate EXCEPT ![r] = [conn |-> session, grants |-> Granted(m)]]
          /\ window' = Checked(m).win /\ \A i \in DOMAIN m.stmts : Passes(m, i)
      BY <2>3 DEF QueryBegins, Checked
    <3>4. /\ req' = [req EXCEPT ![r] = m] /\ pc' = [pc EXCEPT ![r] = "exec"]
          /\ idx' = [idx EXCEPT ![r] = 1]
          /\ session' = session /\ link' = link /\ profile' = profile
          /\ unlocks' = unlocks /\ ran' = ran
      BY <2>3 DEF QueryBegins
    <3>5. /\ gate'[r].conn = session /\ gate'[r].grants = Granted(m)
          /\ DOMAIN Granted(m) = DOMAIN m.stmts
          /\ req'[r] = m /\ pc'[r] = "exec" /\ Begun(r)'
      <4>1. gate'[r] = [conn |-> session, grants |-> Granted(m)]
        BY <3>3 DEF TypeInv, SessionType
      <4>2. DOMAIN Granted(m) = DOMAIN m.stmts
        BY DEF Granted
      <4>3. session # None
        BY <3>1, SessionAssumption
      <4>4. QED BY <3>4, <4>1, <4>2, <4>3 DEF TypeInv, ProcType, Begun
    <3>6. ASSUME NEW x \in Requests, x # r
          PROVE  /\ gate'[x] = gate[x] /\ req'[x] = req[x] /\ pc'[x] = pc[x] /\ idx'[x] = idx[x]
                 /\ Begun(x)' <=> Begun(x)
      BY <3>3, <3>4, <3>6 DEF TypeInv, SessionType, ProcType, Begun
    <3>7. ASSUME NEW i \in DOMAIN m.stmts, Granted(m)[i] # None
          PROVE  /\ Granted(m)[i] = window /\ window' = None
                 /\ TakesWindow(m.stmts[i]) /\ window # None /\ window.table = m.stmts[i].table
      <4>1. TakesWindow(m.stmts[i]) /\ Granted(m)[i] = window
        BY <3>7 DEF Granted
      <4>2. window # None /\ window.table = m.stmts[i].table
        BY <3>3, <4>1 DEF Passes
      <4>3. \A j \in 1..i : j \in DOMAIN m.stmts
        BY <3>2
      <4>4. window' = None
        BY <3>3, <4>1, <4>3 DEF Checked
      <4>5. QED BY <4>1, <4>2, <4>4
    <3>8. window' \in {window, None}
      BY <3>1, <3>3, CheckedType DEF TypeInv, SessionType
    <3>9. WindowInv'
      <4>1. \A x \in Requests : pc'[x] \in {pc[x], "exec"}
        BY <3>4 DEF TypeInv, ProcType
      <4>2. QED BY <3>4, <3>8, <4>1 DEF GateInv, WindowInv
    <3>10. BatchInv'
      <4>1. ASSUME NEW x \in Requests
            PROVE  /\ pc'[x] \in {"exec", "sync"} => Begun(x)'
                   /\ Begun(x)' => /\ pc'[x] \in {"exec", "sync", "done"}
                                   /\ link'[gate'[x].conn] # "unused"
                                   /\ DOMAIN gate'[x].grants = DOMAIN req'[x].stmts
        <5>1. CASE x = r
          BY <3>1, <3>4, <3>5, <5>1
        <5>2. CASE x # r
          BY <3>4, <3>6, <5>2 DEF GateInv, BatchInv
        <5>3. QED BY <5>1, <5>2
      <4>2. QED BY <4>1 DEF BatchInv
    <3>11. GrantInv'
      <4>1. ASSUME NEW i \in DOMAIN m.stmts
            PROVE  LetThrough(m.stmts[i], Granted(m)[i], profile[session], session)
        <5>1. session # None /\ Safety = profile[session]
          BY <3>1, SessionAssumption DEF Safety
        <5>2. CASE TakesWindow(m.stmts[i])
          <6>1. window # None /\ window.table = m.stmts[i].table
            BY <3>3, <5>2 DEF Passes
          <6>2. Granted(m)[i] = window /\ window.conn = session
            BY <5>1, <5>2, <6>1 DEF Granted, GateInv, WindowInv
          <6>3. QED BY <5>1, <5>2, <6>1, <6>2 DEF TakesWindow, LetThrough, Forbidden
        <5>3. CASE ~TakesWindow(m.stmts[i])
          <6>1. Permitted(m.stmts[i], m.ack) /\ Granted(m)[i] = None
            BY <3>3, <5>3 DEF Passes, Granted
          <6>2. QED BY <5>1, <5>3, <6>1 DEF Permitted, TakesWindow, LetThrough, Forbidden
        <5>4. QED BY <5>2, <5>3
      <4>2. ASSUME NEW i \in DOMAIN m.stmts, NEW g, g = Granted(m)[i]
            PROVE  Spent(g)'
        BY <3>4, <3>7, <4>2 DEF Spent, GateInv, WindowInv
      <4>3. ASSUME NEW g, Spent(g)
            PROVE  Spent(g)'
        BY <3>4, <3>8, <4>3 DEF Spent
      <4>4. ASSUME NEW x \in Requests, Begun(x)', NEW i \in DOMAIN req'[x].stmts
            PROVE  /\ LetThrough(req'[x].stmts[i], gate'[x].grants[i],
                                 profile'[gate'[x].conn], gate'[x].conn)
                   /\ Spent(gate[x].grants[i])'
        <5>1. CASE x = r
          <6>1. LetThrough(req'[x].stmts[i], gate'[x].grants[i],
                           profile'[gate'[x].conn], gate'[x].conn)
            BY <3>4, <3>5, <4>1, <4>4, <5>1
          <6>2. PICK g : g = Granted(m)[i]
            OBVIOUS
          <6>3. Spent(g)' /\ gate'[x].grants[i] = g
            BY <3>5, <4>2, <4>4, <5>1, <6>2
          <6>4. QED BY <6>1, <6>3 DEF Spent
        <5>2. CASE x # r
          <6>1. /\ LetThrough(req[x].stmts[i], gate[x].grants[i],
                              profile[gate[x].conn], gate[x].conn)
                /\ Spent(gate[x].grants[i])
            BY <3>6, <4>4, <5>2 DEF GateInv, GrantInv
          <6>2. PICK g : g = gate[x].grants[i]
            OBVIOUS
          <6>3. Spent(g)' /\ gate'[x].grants[i] = g
            BY <3>6, <4>3, <5>2, <6>1, <6>2
          <6>4. QED BY <3>4, <3>6, <5>2, <6>1, <6>3 DEF Spent
        <5>3. QED BY <5>1, <5>2
      <4>5. QED BY <4>4 DEF GrantInv
    <3>12. OnceInv'
      <4>1. ASSUME NEW i \in DOMAIN m.stmts, NEW j \in DOMAIN m.stmts,
                   Granted(m)[i] # None, Granted(m)[j] # None
            PROVE  i = j
        <5>1. TakesWindow(m.stmts[i]) /\ TakesWindow(m.stmts[j]) /\ i \in Nat /\ j \in Nat
          BY <3>2, <3>7, <4>1
        <5>2. ~(j < i) /\ ~(i < j)
          BY <3>2, <3>3, <5>1 DEF Passes
        <5>3. QED BY <5>1, <5>2
      <4>2. ASSUME NEW i \in DOMAIN m.stmts, Granted(m)[i] # None,
                   NEW q \in Requests, q # r, Begun(q), NEW j \in DOMAIN gate[q].grants
            PROVE  Granted(m)[i] # gate[q].grants[j]
        <5>1. Spent(gate[q].grants[j])
          BY <4>2 DEF GateInv, GrantInv, BatchInv
        <5>2. Granted(m)[i] = window /\ window # None
          BY <3>7, <4>2
        <5>3. QED BY <5>1, <5>2 DEF Spent
      <4>3. ASSUME NEW x \in Requests, NEW q \in Requests, Begun(x)', Begun(q)',
                   NEW i \in DOMAIN gate'[x].grants, NEW j \in DOMAIN gate'[q].grants,
                   gate'[x].grants[i] # None, gate'[x].grants[i] = gate'[q].grants[j]
            PROVE  x = q /\ i = j
        <5>1. CASE x = r /\ q = r
          BY <3>5, <4>1, <4>3, <5>1
        <5>2. CASE x = r /\ q # r
          BY <3>5, <3>6, <4>2, <4>3, <5>2
        <5>3. CASE x # r /\ q = r
          BY <3>5, <3>6, <4>2, <4>3, <5>3
        <5>4. CASE x # r /\ q # r
          BY <3>6, <4>3, <5>4 DEF GateInv, OnceInv
        <5>5. QED BY <5>1, <5>2, <5>3, <5>4
      <4>4. QED BY <4>3 DEF OnceInv
    <3>13. RanInv'
      <4>1. ASSUME NEW x \in ran
            PROVE  AsAsked(x)' /\ \A y \in ran : x.req = y.req /\ x.idx = y.idx => x = y
        <5>1. AsAsked(x) /\ x.req # r /\ \A y \in ran : x.req = y.req /\ x.idx = y.idx => x = y
          BY <3>1 DEF GateInv, RanInv, AsAsked
        <5>2. x.req \in Requests
          BY <5>1 DEF AsAsked
        <5>3. QED BY <3>6, <5>1, <5>2 DEF AsAsked
      <4>2. QED BY <3>4, <4>1 DEF RanInv
    <3>14. QED BY <3>9, <3>10, <3>11, <3>12, <3>13 DEF GateInv
  <2>4. ASSUME NEW r \in Requests, NEW m \in Menu, Cancel(r, m)
       PROVE  GateInv'
    <3>1. WindowInv'
      BY <2>4 DEF Cancel, GateInv, WindowInv, TypeInv, SessionType,
         ProcType, SessionInv, HolderInv
    <3>2. GateKept
      BY <2>4 DEF Cancel, GateKept, TypeInv, SessionType
    <3>3. BatchKept
      BY <2>4 DEF Cancel, BatchKept, GateInv, BatchInv, Begun, TypeInv,
         ProcType
    <3>4. LinkKept
      BY <2>4 DEF Cancel, LinkKept, TypeInv, DriverType
    <3>5. IdxKept
      BY <2>4 DEF Cancel, IdxKept, TypeInv, ProcType
    <3>6. ran' = ran
      BY <2>4 DEF Cancel
    <3>7. QED BY <3>1, <3>2, <3>3, <3>4, <3>5, <3>6, KeptStep DEF GateInv, RanInv
  <2>5. ASSUME NEW r \in Requests, NEW m \in Menu, Unlock(r, m)
       PROVE  GateInv'
    <3>1. WindowInv'
      <4>1. session' = session /\ unlocks \in Nat
        BY <2>5 DEF Unlock, TypeInv, SessionType
      <4>2. CASE Safety.env = "prod"
        <5>1. session # None
          BY <4>2 DEF Safety
        <5>2. window' = [table |-> m.table, no |-> unlocks + 1, conn |-> session]
          BY <2>5, <4>2 DEF Unlock
        <5>3. unlocks' = unlocks + 1 /\ \A x \in Requests : pc'[x] \in {pc[x], "done"}
          BY <2>5, <4>2 DEF Unlock, TypeInv, ProcType
        <5>4. \A x \in Requests : pc[x] \notin {"build", "boot", "bootClose"}
          BY <5>1 DEF SessionInv, HolderInv
        <5>5. \A x \in Requests : pc'[x] \notin {"build", "boot", "bootClose"}
          BY <5>3, <5>4
        <5>6. window'.no = unlocks' /\ window'.conn = session
          BY <5>2, <5>3
        <5>7. QED BY <4>1, <5>3, <5>5, <5>6 DEF WindowInv
      <4>3. CASE Safety.env # "prod"
        <5>1. window' = window /\ unlocks' = unlocks
          BY <2>5, <4>3 DEF Unlock
        <5>2. \A x \in Requests : pc'[x] \in {pc[x], "done"}
          BY <2>5, <4>3 DEF Unlock, TypeInv, ProcType
        <5>3. QED BY <4>1, <5>1, <5>2 DEF GateInv, WindowInv
      <4>4. QED BY <4>2, <4>3
    <3>2. GateKept
      BY <2>5 DEF Unlock, GateKept, TypeInv, SessionType
    <3>3. BatchKept
      BY <2>5 DEF Unlock, BatchKept, GateInv, BatchInv, Begun, TypeInv,
         ProcType
    <3>4. LinkKept
      BY <2>5 DEF Unlock, LinkKept, TypeInv, DriverType
    <3>5. IdxKept
      BY <2>5 DEF Unlock, IdxKept, TypeInv, ProcType
    <3>6. ran' = ran
      BY <2>5 DEF Unlock
    <3>7. QED BY <3>1, <3>2, <3>3, <3>4, <3>5, <3>6, KeptStep DEF GateInv, RanInv
  <2>6. ASSUME NEW r \in Requests, NEW m \in Menu, NoSuchMethod(r, m)
       PROVE  GateInv'
    <3>1. WindowInv'
      BY <2>6 DEF NoSuchMethod, GateInv, WindowInv, TypeInv, SessionType,
         ProcType, SessionInv, HolderInv
    <3>2. GateKept
      BY <2>6 DEF NoSuchMethod, GateKept, TypeInv, SessionType
    <3>3. BatchKept
      BY <2>6 DEF NoSuchMethod, BatchKept, GateInv, BatchInv, Begun,
         TypeInv, ProcType
    <3>4. LinkKept
      BY <2>6 DEF NoSuchMethod, LinkKept, TypeInv, DriverType
    <3>5. IdxKept
      BY <2>6 DEF NoSuchMethod, IdxKept, TypeInv, ProcType
    <3>6. ran' = ran
      BY <2>6 DEF NoSuchMethod
    <3>7. QED BY <3>1, <3>2, <3>3, <3>4, <3>5, <3>6, KeptStep DEF GateInv, RanInv
  <2>7. ASSUME NEW r \in Requests, NEW m \in Menu, EndTx(r, m)
       PROVE  GateInv'
    <3>1. WindowInv'
      BY <2>7 DEF EndTx, TakeSession, GateInv, WindowInv, TypeInv,
         SessionType, ProcType, SessionInv, HolderInv
    <3>2. GateKept
      BY <2>7 DEF EndTx, GateKept, TypeInv, SessionType
    <3>3. BatchKept
      BY <2>7 DEF EndTx, TakeSession, BatchKept, GateInv, BatchInv, Begun,
         TypeInv, ProcType
    <3>4. LinkKept
      BY <2>7 DEF EndTx, LinkKept, TypeInv, DriverType
    <3>5. IdxKept
      BY <2>7 DEF EndTx, TakeSession, IdxKept, TypeInv, ProcType
    <3>6. ran' = ran
      BY <2>7 DEF EndTx
    <3>7. QED BY <3>1, <3>2, <3>3, <3>4, <3>5, <3>6, KeptStep DEF GateInv, RanInv
  <2>8. ASSUME NEW r \in Requests, NEW m \in Menu, TxState(r, m)
       PROVE  GateInv'
    <3>1. WindowInv'
      BY <2>8 DEF TxState, TakeSession, GateInv, WindowInv, TypeInv,
         SessionType, ProcType, SessionInv, HolderInv
    <3>2. GateKept
      BY <2>8 DEF TxState, GateKept, TypeInv, SessionType
    <3>3. BatchKept
      BY <2>8 DEF TxState, TakeSession, BatchKept, GateInv, BatchInv,
         Begun, TypeInv, ProcType
    <3>4. LinkKept
      BY <2>8 DEF TxState, LinkKept, TypeInv, DriverType
    <3>5. IdxKept
      BY <2>8 DEF TxState, TakeSession, IdxKept, TypeInv, ProcType
    <3>6. ran' = ran
      BY <2>8 DEF TxState
    <3>7. QED BY <3>1, <3>2, <3>3, <3>4, <3>5, <3>6, KeptStep DEF GateInv, RanInv
  <2>9. ASSUME NEW r \in Requests, NEW m \in Menu, Embed(r, m)
       PROVE  GateInv'
    <3>1. WindowInv'
      BY <2>9 DEF Embed, TakeSession, GateInv, WindowInv, TypeInv,
         SessionType, ProcType, SessionInv, HolderInv
    <3>2. GateKept
      BY <2>9 DEF Embed, GateKept, TypeInv, SessionType
    <3>3. BatchKept
      BY <2>9 DEF Embed, TakeSession, BatchKept, GateInv, BatchInv, Begun,
         TypeInv, ProcType
    <3>4. LinkKept
      BY <2>9 DEF Embed, LinkKept, TypeInv, DriverType
    <3>5. IdxKept
      BY <2>9 DEF Embed, TakeSession, IdxKept, TypeInv, ProcType
    <3>6. ran' = ran
      BY <2>9 DEF Embed
    <3>7. QED BY <3>1, <3>2, <3>3, <3>4, <3>5, <3>6, KeptStep DEF GateInv, RanInv
  <2>10. ASSUME NEW r \in Requests, CloseFirst(r)
       PROVE  GateInv'
    <3>1. WindowInv'
      BY <2>10 DEF CloseFirst, HoldsLock, GateInv, WindowInv, TypeInv,
         SessionType, ProcType, SessionInv, HolderInv
    <3>2. GateKept
      BY <2>10 DEF CloseFirst, GateKept, TypeInv, SessionType
    <3>3. BatchKept
      BY <2>10 DEF CloseFirst, HoldsLock, BatchKept, GateInv, BatchInv,
         Begun, TypeInv, ProcType
    <3>4. LinkKept
      BY <2>10 DEF CloseFirst, LinkKept, TypeInv, DriverType
    <3>5. IdxKept
      BY <2>10 DEF CloseFirst, HoldsLock, IdxKept, TypeInv, ProcType
    <3>6. ran' = ran
      BY <2>10 DEF CloseFirst
    <3>7. QED BY <3>1, <3>2, <3>3, <3>4, <3>5, <3>6, KeptStep DEF GateInv, RanInv
  <2>11. ASSUME NEW r \in Requests, NothingToClose(r)
       PROVE  GateInv'
    <3>1. WindowInv'
      BY <2>11 DEF NothingToClose, HoldsLock, GateInv, WindowInv, TypeInv,
         SessionType, ProcType, SessionInv, HolderInv
    <3>2. GateKept
      BY <2>11 DEF NothingToClose, GateKept, TypeInv, SessionType
    <3>3. BatchKept
      BY <2>11 DEF NothingToClose, HoldsLock, BatchKept, GateInv, BatchInv,
         Begun, TypeInv, ProcType
    <3>4. LinkKept
      BY <2>11 DEF NothingToClose, LinkKept, TypeInv, DriverType
    <3>5. IdxKept
      BY <2>11 DEF NothingToClose, HoldsLock, IdxKept, TypeInv, ProcType
    <3>6. ran' = ran
      BY <2>11 DEF NothingToClose
    <3>7. QED BY <3>1, <3>2, <3>3, <3>4, <3>5, <3>6, KeptStep DEF GateInv, RanInv
  <2>12. ASSUME NEW r \in Requests, Closed(r)
       PROVE  GateInv'
    <3>0. conn[r] \in Conns
      BY <2>12 DEF Closed, SessionInv, CallInv, Calling, OnSession
    <3>1. WindowInv'
      BY <2>12 DEF Closed, GateInv, WindowInv, TypeInv, SessionType,
         ProcType, SessionInv, HolderInv
    <3>2. GateKept
      BY <2>12 DEF Closed, GateKept, TypeInv, SessionType
    <3>3. BatchKept
      BY <2>12 DEF Closed, BatchKept, GateInv, BatchInv, Begun, TypeInv,
         ProcType
    <3>4. LinkKept
      BY <2>12, <3>0 DEF Closed, LinkKept, TypeInv, DriverType
    <3>5. IdxKept
      BY <2>12 DEF Closed, IdxKept, TypeInv, ProcType
    <3>6. ran' = ran
      BY <2>12 DEF Closed
    <3>7. QED BY <3>1, <3>2, <3>3, <3>4, <3>5, <3>6, KeptStep DEF GateInv, RanInv
  <2>13. ASSUME NEW r \in Requests, Built(r)
       PROVE  GateInv'
    <3>1. WindowInv'
      BY <2>13 DEF Built, GateInv, WindowInv, TypeInv, SessionType,
         ProcType, SessionInv, HolderInv
    <3>2. GateKept
      BY <2>13 DEF Built, GateKept, TypeInv, SessionType
    <3>3. BatchKept
      BY <2>13 DEF Built, BatchKept, GateInv, BatchInv, Begun, TypeInv,
         ProcType
    <3>4. LinkKept
      BY <2>13 DEF Built, LinkKept, TypeInv, DriverType
    <3>5. IdxKept
      BY <2>13 DEF Built, IdxKept, TypeInv, ProcType
    <3>6. ran' = ran
      BY <2>13 DEF Built
    <3>7. QED BY <3>1, <3>2, <3>3, <3>4, <3>5, <3>6, KeptStep DEF GateInv, RanInv
  <2>14. ASSUME NEW r \in Requests, BuildFails(r)
       PROVE  GateInv'
    <3>1. WindowInv'
      BY <2>14 DEF BuildFails, GateInv, WindowInv, TypeInv, SessionType,
         ProcType, SessionInv, HolderInv
    <3>2. GateKept
      BY <2>14 DEF BuildFails, GateKept, TypeInv, SessionType
    <3>3. BatchKept
      BY <2>14 DEF BuildFails, BatchKept, GateInv, BatchInv, Begun, TypeInv,
         ProcType
    <3>4. LinkKept
      BY <2>14 DEF BuildFails, LinkKept, TypeInv, DriverType
    <3>5. IdxKept
      BY <2>14 DEF BuildFails, IdxKept, TypeInv, ProcType
    <3>6. ran' = ran
      BY <2>14 DEF BuildFails
    <3>7. QED BY <3>1, <3>2, <3>3, <3>4, <3>5, <3>6, KeptStep DEF GateInv, RanInv
  <2>15. ASSUME NEW r \in Requests, BootClosed(r)
       PROVE  GateInv'
    <3>0. conn[r] \in Conns
      BY <2>15 DEF BootClosed, SessionInv, CallInv, Calling, OnSession
    <3>1. WindowInv'
      BY <2>15 DEF BootClosed, GateInv, WindowInv, TypeInv, SessionType,
         ProcType, SessionInv, HolderInv
    <3>2. GateKept
      BY <2>15 DEF BootClosed, GateKept, TypeInv, SessionType
    <3>3. BatchKept
      BY <2>15 DEF BootClosed, BatchKept, GateInv, BatchInv, Begun, TypeInv,
         ProcType
    <3>4. LinkKept
      BY <2>15, <3>0 DEF BootClosed, LinkKept, TypeInv, DriverType
    <3>5. IdxKept
      BY <2>15 DEF BootClosed, IdxKept, TypeInv, ProcType
    <3>6. ran' = ran
      BY <2>15 DEF BootClosed
    <3>7. QED BY <3>1, <3>2, <3>3, <3>4, <3>5, <3>6, KeptStep DEF GateInv, RanInv
  <2>16. ASSUME NEW r \in Requests, StmtRan(r)
       PROVE  GateInv'
    <3>0. conn[r] \in Conns
      BY <2>16 DEF StmtRan, SessionInv, CallInv, Calling, OnSession
    <3>1. WindowInv'
      BY <2>16 DEF StmtRan, NextStmt, QueryEnds, GateInv, WindowInv,
         TypeInv, SessionType, ProcType, SessionInv, HolderInv
    <3>2. GateKept
      BY <2>16 DEF StmtRan, QueryEnds, NextStmt, GateKept, TypeInv,
         SessionType
    <3>3. BatchKept
      BY <2>16 DEF StmtRan, NextStmt, QueryEnds, BatchKept, GateInv,
         BatchInv, Begun, TypeInv, ProcType
    <3>4. LinkKept
      BY <2>16, <3>0, AfterLink DEF StmtRan, LinkKept, TypeInv, DriverType
    <3>5. IdxKept
      <4>1. \/ idx' = idx /\ pc' = [pc EXCEPT ![r] = "done"]
            \/ idx' = [idx EXCEPT ![r] = idx[r] + 1] /\ pc' = [pc EXCEPT ![r] = "exec"]
            \/ idx' = idx /\ pc' = [pc EXCEPT ![r] = "sync"]
        BY <2>16 DEF StmtRan, NextStmt, QueryEnds
      <4>2. QED BY <4>1 DEF IdxKept, TypeInv, ProcType
    <3>6. RanInv'
      <4>0. PICK n : n = [req |-> r, idx |-> idx[r], stmt |-> StmtOf(r), conn |-> conn[r],
                          checkedOn |-> gate[r].conn, grant |-> gate[r].grants[idx[r]]]
        OBVIOUS
      <4>1. ran' = ran \cup {n} /\ pc[r] = "exec" /\ gate' = gate /\ req' = req
        BY <2>16, <4>0 DEF StmtRan
      <4>2. \A x \in ran : AsAsked(x)'
        BY <3>2, <3>3, <3>4, <3>5, KeptStep
      <4>3. AsAsked(n)'
        <5>1. Begun(r) /\ Begun(r)'
          BY <4>1 DEF GateInv, BatchInv, Begun
        <5>2. idx[r] \in DOMAIN req[r].stmts /\ idx[r] \in Nat /\ idx'[r] \in Nat
          <6>1. req[r] \in Menu /\ req[r].op = "query" /\ idx[r] \in 1..Len(req[r].stmts)
            BY <4>1 DEF TypeInv, AskedInv
          <6>2. QED BY <6>1, MenuFacts DEF TypeInv, ProcType
        <5>3. idx[r] <= idx'[r] /\ (pc'[r] = "exec" => idx[r] # idx'[r])
          <6>1. \/ idx' = idx /\ pc' = [pc EXCEPT ![r] = "done"]
                \/ idx' = [idx EXCEPT ![r] = idx[r] + 1]
                \/ idx' = idx /\ pc' = [pc EXCEPT ![r] = "sync"]
            BY <2>16 DEF StmtRan, NextStmt, QueryEnds
          <6>2. QED BY <5>2, <6>1 DEF TypeInv, ProcType
        <5>4. QED BY <4>0, <4>1, <5>1, <5>2, <5>3 DEF AsAsked, StmtOf
      <4>4. ASSUME NEW x \in ran
            PROVE  ~(x.req = r /\ x.idx = idx[r])
        BY <4>1 DEF GateInv, RanInv, AsAsked
      <4>5. n.req = r /\ n.idx = idx[r]
        BY <4>0
      <4>6. ASSUME NEW x \in ran', NEW y \in ran', x.req = y.req, x.idx = y.idx
            PROVE  x = y
        <5>1. CASE x \in ran /\ y \in ran
          BY <4>6, <5>1 DEF GateInv, RanInv
        <5>2. CASE x = n /\ y = n
          BY <5>2
        <5>3. CASE x = n /\ y \in ran
          BY <4>4, <4>5, <4>6, <5>3
        <5>4. CASE x \in ran /\ y = n
          BY <4>4, <4>5, <4>6, <5>4
        <5>5. QED BY <4>1, <4>6, <5>1, <5>2, <5>3, <5>4
      <4>7. QED BY <4>1, <4>2, <4>3, <4>6 DEF RanInv
    <3>7. QED BY <3>1, <3>2, <3>3, <3>4, <3>6, KeptStep DEF GateInv
  <2>17. ASSUME NEW r \in Requests, EmbeddingReady(r)
       PROVE  GateInv'
    <3>1. WindowInv'
      BY <2>17 DEF EmbeddingReady, GateInv, WindowInv, TypeInv, SessionType,
         ProcType, SessionInv, HolderInv
    <3>2. GateKept
      BY <2>17 DEF EmbeddingReady, GateKept, TypeInv, SessionType
    <3>3. BatchKept
      BY <2>17 DEF EmbeddingReady, BatchKept, GateInv, BatchInv, Begun,
         TypeInv, ProcType
    <3>4. LinkKept
      BY <2>17 DEF EmbeddingReady, LinkKept, TypeInv, DriverType
    <3>5. IdxKept
      BY <2>17 DEF EmbeddingReady, IdxKept, TypeInv, ProcType
    <3>6. ran' = ran
      BY <2>17 DEF EmbeddingReady
    <3>7. QED BY <3>1, <3>2, <3>3, <3>4, <3>5, <3>6, KeptStep DEF GateInv, RanInv
  <2>18. ASSUME NEW r \in Requests, EmbeddingFails(r)
       PROVE  GateInv'
    <3>1. WindowInv'
      BY <2>18 DEF EmbeddingFails, NextRow, GateInv, WindowInv, TypeInv,
         SessionType, ProcType, SessionInv, HolderInv
    <3>2. GateKept
      BY <2>18 DEF EmbeddingFails, GateKept, TypeInv, SessionType
    <3>3. BatchKept
      BY <2>18 DEF EmbeddingFails, NextRow, BatchKept, GateInv, BatchInv,
         Begun, TypeInv, ProcType
    <3>4. LinkKept
      BY <2>18 DEF EmbeddingFails, LinkKept, TypeInv, DriverType
    <3>5. IdxKept
      BY <2>18 DEF EmbeddingFails, NextRow, IdxKept, TypeInv, ProcType
    <3>6. ran' = ran
      BY <2>18 DEF EmbeddingFails
    <3>7. QED BY <3>1, <3>2, <3>3, <3>4, <3>5, <3>6, KeptStep DEF GateInv, RanInv
  <2>19. ASSUME NEW r \in Requests, NEW out, Booted(r, out)
       PROVE  GateInv'
    <3>0. conn[r] \in Conns
      BY <2>19 DEF Booted, SessionInv, CallInv, Calling, OnSession
    <3>1. WindowInv'
      BY <2>19 DEF Booted, GateInv, WindowInv, TypeInv, SessionType,
         ProcType, SessionInv, HolderInv
    <3>2. GateKept
      BY <2>19 DEF Booted, GateKept, TypeInv, SessionType
    <3>3. BatchKept
      BY <2>19 DEF Booted, BatchKept, GateInv, BatchInv, Begun, TypeInv,
         ProcType
    <3>4. LinkKept
      BY <2>19, <3>0, AfterLink DEF Booted, LinkKept, TypeInv, DriverType
    <3>5. IdxKept
      BY <2>19 DEF Booted, IdxKept, TypeInv, ProcType
    <3>6. ran' = ran
      BY <2>19 DEF Booted
    <3>7. QED BY <3>1, <3>2, <3>3, <3>4, <3>5, <3>6, KeptStep DEF GateInv, RanInv
  <2>20. ASSUME NEW r \in Requests, NEW out, Enabled(r, out)
       PROVE  GateInv'
    <3>0. conn[r] \in Conns
      BY <2>20 DEF Enabled, SessionInv, CallInv, Calling, OnSession
    <3>1. WindowInv'
      BY <2>20 DEF Enabled, ClearOnLoss, GateInv, WindowInv, TypeInv,
         SessionType, ProcType, SessionInv, HolderInv
    <3>2. GateKept
      BY <2>20 DEF Enabled, GateKept, TypeInv, SessionType
    <3>3. BatchKept
      BY <2>20 DEF Enabled, ClearOnLoss, BatchKept, GateInv, BatchInv,
         Begun, TypeInv, ProcType
    <3>4. LinkKept
      BY <2>20, <3>0, AfterLink DEF Enabled, LinkKept, TypeInv, DriverType
    <3>5. IdxKept
      BY <2>20 DEF Enabled, ClearOnLoss, IdxKept, TypeInv, ProcType
    <3>6. ran' = ran
      BY <2>20 DEF Enabled
    <3>7. QED BY <3>1, <3>2, <3>3, <3>4, <3>5, <3>6, KeptStep DEF GateInv, RanInv
  <2>21. ASSUME NEW r \in Requests, NEW out, StmtFailed(r, out)
       PROVE  GateInv'
    <3>0. conn[r] \in Conns
      BY <2>21 DEF StmtFailed, SessionInv, CallInv, Calling, OnSession
    <3>1. WindowInv'
      BY <2>21 DEF StmtFailed, QueryEnds, ClearOnLoss, GateInv, WindowInv,
         TypeInv, SessionType, ProcType, SessionInv, HolderInv
    <3>2. GateKept
      BY <2>21 DEF StmtFailed, QueryEnds, NextStmt, GateKept, TypeInv,
         SessionType
    <3>3. BatchKept
      BY <2>21 DEF StmtFailed, QueryEnds, ClearOnLoss, BatchKept, GateInv,
         BatchInv, Begun, TypeInv, ProcType
    <3>4. LinkKept
      BY <2>21, <3>0, AfterLink DEF StmtFailed, LinkKept, TypeInv,
         DriverType
    <3>5. IdxKept
      BY <2>21 DEF StmtFailed, QueryEnds, ClearOnLoss, IdxKept, TypeInv,
         ProcType
    <3>6. ran' = ran
      BY <2>21 DEF StmtFailed
    <3>7. QED BY <3>1, <3>2, <3>3, <3>4, <3>5, <3>6, KeptStep DEF GateInv, RanInv
  <2>22. ASSUME NEW r \in Requests, NEW out, Synced(r, out)
       PROVE  GateInv'
    <3>0. conn[r] \in Conns
      BY <2>22 DEF Synced, SessionInv, CallInv, Calling, OnSession
    <3>1. WindowInv'
      BY <2>22 DEF Synced, NextStmt, QueryEnds, GateInv, WindowInv, TypeInv,
         SessionType, ProcType, SessionInv, HolderInv
    <3>2. GateKept
      BY <2>22 DEF Synced, QueryEnds, NextStmt, GateKept, TypeInv,
         SessionType
    <3>3. BatchKept
      BY <2>22 DEF Synced, NextStmt, QueryEnds, BatchKept, GateInv,
         BatchInv, Begun, TypeInv, ProcType
    <3>4. LinkKept
      BY <2>22, <3>0, AfterLink DEF Synced, LinkKept, TypeInv, DriverType
    <3>5. IdxKept
      <4>1. \/ idx' = idx /\ pc' = [pc EXCEPT ![r] = "done"]
            \/ idx' = [idx EXCEPT ![r] = idx[r] + 1] /\ pc' = [pc EXCEPT ![r] = "exec"]
        BY <2>22 DEF Synced, NextStmt, QueryEnds
      <4>2. QED BY <4>1 DEF IdxKept, TypeInv, ProcType
    <3>6. ran' = ran
      BY <2>22 DEF Synced
    <3>7. QED BY <3>1, <3>2, <3>3, <3>4, <3>5, <3>6, KeptStep DEF GateInv, RanInv
  <2>23. ASSUME NEW r \in Requests, NEW out, TxEnded(r, out)
       PROVE  GateInv'
    <3>0. conn[r] \in Conns
      BY <2>23 DEF TxEnded, SessionInv, CallInv, Calling, OnSession
    <3>1. WindowInv'
      BY <2>23 DEF TxEnded, ClearOnLoss, GateInv, WindowInv, TypeInv,
         SessionType, ProcType, SessionInv, HolderInv
    <3>2. GateKept
      BY <2>23 DEF TxEnded, GateKept, TypeInv, SessionType
    <3>3. BatchKept
      BY <2>23 DEF TxEnded, ClearOnLoss, BatchKept, GateInv, BatchInv,
         Begun, TypeInv, ProcType
    <3>4. LinkKept
      BY <2>23, <3>0, AfterLink DEF TxEnded, LinkKept, TypeInv, DriverType
    <3>5. IdxKept
      BY <2>23 DEF TxEnded, ClearOnLoss, IdxKept, TypeInv, ProcType
    <3>6. ran' = ran
      BY <2>23 DEF TxEnded
    <3>7. QED BY <3>1, <3>2, <3>3, <3>4, <3>5, <3>6, KeptStep DEF GateInv, RanInv
  <2>24. ASSUME NEW r \in Requests, NEW out, Consulted(r, out)
       PROVE  GateInv'
    <3>0. conn[r] \in Conns
      BY <2>24 DEF Consulted, SessionInv, CallInv, Calling, OnSession
    <3>1. WindowInv'
      BY <2>24 DEF Consulted, GateInv, WindowInv, TypeInv, SessionType,
         ProcType, SessionInv, HolderInv
    <3>2. GateKept
      BY <2>24 DEF Consulted, GateKept, TypeInv, SessionType
    <3>3. BatchKept
      BY <2>24 DEF Consulted, BatchKept, GateInv, BatchInv, Begun, TypeInv,
         ProcType
    <3>4. LinkKept
      BY <2>24, <3>0, AfterLink DEF Consulted, LinkKept, TypeInv, DriverType
    <3>5. IdxKept
      BY <2>24 DEF Consulted, IdxKept, TypeInv, ProcType
    <3>6. ran' = ran
      BY <2>24 DEF Consulted
    <3>7. QED BY <3>1, <3>2, <3>3, <3>4, <3>5, <3>6, KeptStep DEF GateInv, RanInv
  <2>25. ASSUME NEW r \in Requests, NEW out, EmbedRead(r, out)
       PROVE  GateInv'
    <3>0. conn[r] \in Conns
      BY <2>25 DEF EmbedRead, SessionInv, CallInv, Calling, OnSession
    <3>1. WindowInv'
      BY <2>25 DEF EmbedRead, ClearOnLoss, GateInv, WindowInv, TypeInv,
         SessionType, ProcType, SessionInv, HolderInv
    <3>2. GateKept
      BY <2>25 DEF EmbedRead, GateKept, TypeInv, SessionType
    <3>3. BatchKept
      BY <2>25 DEF EmbedRead, ClearOnLoss, BatchKept, GateInv, BatchInv,
         Begun, TypeInv, ProcType
    <3>4. LinkKept
      BY <2>25, <3>0, AfterLink DEF EmbedRead, LinkKept, TypeInv, DriverType
    <3>5. IdxKept
      BY <2>25 DEF EmbedRead, ClearOnLoss, IdxKept, TypeInv, ProcType
    <3>6. ran' = ran
      BY <2>25 DEF EmbedRead
    <3>7. QED BY <3>1, <3>2, <3>3, <3>4, <3>5, <3>6, KeptStep DEF GateInv, RanInv
  <2>26. ASSUME NEW r \in Requests, NEW out, EmbedUpdated(r, out)
       PROVE  GateInv'
    <3>0. conn[r] \in Conns
      BY <2>26 DEF EmbedUpdated, SessionInv, CallInv, Calling, OnSession
    <3>1. WindowInv'
      BY <2>26 DEF EmbedUpdated, NextRow, GateInv, WindowInv, TypeInv,
         SessionType, ProcType, SessionInv, HolderInv
    <3>2. GateKept
      BY <2>26 DEF EmbedUpdated, GateKept, TypeInv, SessionType
    <3>3. BatchKept
      BY <2>26 DEF EmbedUpdated, NextRow, BatchKept, GateInv, BatchInv,
         Begun, TypeInv, ProcType
    <3>4. LinkKept
      BY <2>26, <3>0, AfterLink DEF EmbedUpdated, LinkKept, TypeInv,
         DriverType
    <3>5. IdxKept
      BY <2>26 DEF EmbedUpdated, NextRow, IdxKept, TypeInv, ProcType
    <3>6. ran' = ran
      BY <2>26 DEF EmbedUpdated
    <3>7. QED BY <3>1, <3>2, <3>3, <3>4, <3>5, <3>6, KeptStep DEF GateInv, RanInv
  <2>27. ASSUME NEW r \in Requests, NEW out, EmbedCommitted(r, out)
       PROVE  GateInv'
    <3>0. conn[r] \in Conns
      BY <2>27 DEF EmbedCommitted, SessionInv, CallInv, Calling, OnSession
    <3>1. WindowInv'
      BY <2>27 DEF EmbedCommitted, ClearOnLoss, GateInv, WindowInv, TypeInv,
         SessionType, ProcType, SessionInv, HolderInv
    <3>2. GateKept
      BY <2>27 DEF EmbedCommitted, GateKept, TypeInv, SessionType
    <3>3. BatchKept
      BY <2>27 DEF EmbedCommitted, ClearOnLoss, BatchKept, GateInv,
         BatchInv, Begun, TypeInv, ProcType
    <3>4. LinkKept
      BY <2>27, <3>0, AfterLink DEF EmbedCommitted, LinkKept, TypeInv,
         DriverType
    <3>5. IdxKept
      BY <2>27 DEF EmbedCommitted, ClearOnLoss, IdxKept, TypeInv, ProcType
    <3>6. ran' = ran
      BY <2>27 DEF EmbedCommitted
    <3>7. QED BY <3>1, <3>2, <3>3, <3>4, <3>5, <3>6, KeptStep DEF GateInv, RanInv
  <2>28. ASSUME WindowExpires
       PROVE  GateInv'
    <3>1. WindowInv'
      BY <2>28 DEF WindowExpires, GateInv, WindowInv, TypeInv, SessionType,
         ProcType, SessionInv, HolderInv
    <3>2. GateKept
      BY <2>28 DEF WindowExpires, GateKept, TypeInv, SessionType
    <3>3. BatchKept
      BY <2>28 DEF WindowExpires, BatchKept, GateInv, BatchInv, Begun,
         TypeInv, ProcType
    <3>4. LinkKept
      BY <2>28 DEF WindowExpires, LinkKept, TypeInv, DriverType
    <3>5. IdxKept
      BY <2>28 DEF WindowExpires, IdxKept, TypeInv, ProcType
    <3>6. ran' = ran
      BY <2>28 DEF WindowExpires
    <3>7. QED BY <3>1, <3>2, <3>3, <3>4, <3>5, <3>6, KeptStep DEF GateInv, RanInv
  <2>29. ASSUME NEW c \in Conns, LinkDrops(c)
       PROVE  GateInv'
    <3>1. WindowInv'
      BY <2>29 DEF LinkDrops, GateInv, WindowInv, TypeInv, SessionType,
         ProcType, SessionInv, HolderInv
    <3>2. GateKept
      BY <2>29 DEF LinkDrops, GateKept, TypeInv, SessionType
    <3>3. BatchKept
      BY <2>29 DEF LinkDrops, BatchKept, GateInv, BatchInv, Begun, TypeInv,
         ProcType
    <3>4. LinkKept
      BY <2>29 DEF LinkDrops, LinkKept, TypeInv, DriverType
    <3>5. IdxKept
      BY <2>29 DEF LinkDrops, IdxKept, TypeInv, ProcType
    <3>6. ran' = ran
      BY <2>29 DEF LinkDrops
    <3>7. QED BY <3>1, <3>2, <3>3, <3>4, <3>5, <3>6, KeptStep DEF GateInv, RanInv
  <2>30. ASSUME UNCHANGED vars
       PROVE  GateInv'
    <3>1. WindowInv'
      BY <2>30 DEF vars, GateInv, WindowInv, TypeInv, SessionType, ProcType,
         SessionInv, HolderInv
    <3>2. GateKept
      BY <2>30 DEF vars, GateKept, TypeInv, SessionType
    <3>3. BatchKept
      BY <2>30 DEF vars, BatchKept, GateInv, BatchInv, Begun, TypeInv,
         ProcType
    <3>4. LinkKept
      BY <2>30 DEF vars, LinkKept, TypeInv, DriverType
    <3>5. IdxKept
      BY <2>30 DEF vars, IdxKept, TypeInv, ProcType
    <3>6. ran' = ran
      BY <2>30 DEF vars
    <3>7. QED BY <3>1, <3>2, <3>3, <3>4, <3>5, <3>6, KeptStep DEF GateInv, RanInv
  <2>32. ASSUME NEW r \in Requests, NEW m \in Menu, Call(r, m)
       PROVE  GateInv'
    <3>1. WindowInv'
      BY <2>32 DEF Call, TakeSession, GateInv, WindowInv, TypeInv,
         SessionType, ProcType, SessionInv, HolderInv
    <3>2. GateKept
      BY <2>32 DEF Call, GateKept, TypeInv, SessionType
    <3>3. BatchKept
      BY <2>32 DEF Call, TakeSession, BatchKept, GateInv, BatchInv, Begun,
         TypeInv, ProcType
    <3>4. LinkKept
      BY <2>32 DEF Call, LinkKept, TypeInv, DriverType
    <3>5. IdxKept
      BY <2>32 DEF Call, TakeSession, IdxKept, TypeInv, ProcType
    <3>6. ran' = ran
      BY <2>32 DEF Call
    <3>7. QED BY <3>1, <3>2, <3>3, <3>4, <3>5, <3>6, KeptStep DEF GateInv, RanInv
  <2>33. ASSUME NEW r \in Requests, NEW out, Called(r, out)
       PROVE  GateInv'
    <3>0. conn[r] \in Conns
      BY <2>33 DEF Called, SessionInv, CallInv, Calling, OnSession
    <3>1. WindowInv'
      BY <2>33 DEF Called, ClearOnLoss, GateInv, WindowInv, TypeInv,
         SessionType, ProcType, SessionInv, HolderInv
    <3>2. GateKept
      BY <2>33 DEF Called, GateKept, TypeInv, SessionType
    <3>3. BatchKept
      BY <2>33 DEF Called, ClearOnLoss, BatchKept, GateInv,
         BatchInv, Begun, TypeInv, ProcType
    <3>4. LinkKept
      BY <2>33, <3>0, AfterLink DEF Called, LinkKept, TypeInv,
         DriverType
    <3>5. IdxKept
      BY <2>33 DEF Called, ClearOnLoss, IdxKept, TypeInv, ProcType
    <3>6. ran' = ran
      BY <2>33 DEF Called
    <3>7. QED BY <3>1, <3>2, <3>3, <3>4, <3>5, <3>6, KeptStep DEF GateInv, RanInv
  <2>31. QED
    BY <2>1, <2>2, <2>3, <2>4, <2>5, <2>6, <2>7, <2>8, <2>9, <2>10,
       <2>11, <2>12, <2>13, <2>14, <2>15, <2>16, <2>17, <2>18, <2>19, <2>20,
       <2>21, <2>22, <2>23, <2>24, <2>25, <2>26, <2>27, <2>28, <2>29, <2>30,
       <2>32, <2>33
       DEF Next, Ask, Proceed
<1>3. QED BY <1>1, <1>2, TypesHold, SessionsHold, PTL DEF Spec

(* Whatever is queued, refused, cancelled, lost or replaced: on prod each  *)
(* sweeping statement runs under a window of its own, opened for its table *)
(* in the session it was checked in, and a batch with a statement that the *)
(* connection forbids runs none of its statements.                         *)
THEOREM SafetyGateHolds == Spec => []GateHolds
  BY TypesHold, GatesHold, GateSuffices, PTL
=============================================================================
