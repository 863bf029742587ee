--------------------------- MODULE OracleSession ---------------------------
(***************************************************************************)
(* The Oracle session of the sidecar: state.ts, the session, query and     *)
(* transaction handlers of oracle.ts, and embed.batch, which holds a       *)
(* connection across calls to an embedding service.                        *)
(*                                                                         *)
(* JavaScript runs one piece of one handler at a time, from one await to   *)
(* the next: an action is such a piece.  The driver runs the calls made on *)
(* one connection one after the other (opq).  A call on a connection that  *)
(* was closed is rejected at once, before any other reply arrives.         *)
(*                                                                         *)
(* Draining DBMS_OUTPUT changes nothing that is modelled and never fails   *)
(* its caller: it is part of the call before it.                           *)
(***************************************************************************)
EXTENDS Naturals, FiniteSets, Sequences

CONSTANTS
  Requests,     \* RPC requests
  Menu,         \* what a request may ask: records of the set Request
  Tables,       \* tables a sweeping statement may aim at
  MaxConn,      \* bound: connections ever built
  MaxDrops,     \* bound: connections the network loses
  EmbedRows,    \* bound: rows of one embedding batch
  None          \* no session, no window, no request

Conns == 1..MaxConn

Profile == [env : {"dev", "staging", "prod"}, readOnly : BOOLEAN, warn : BOOLEAN]

(* What classifySql, isUnsafeBulkDml, isMergeSql and isTruncateSql tell    *)
(* apart: lockingQuery is SELECT ... FOR UPDATE, explain EXPLAIN PLAN,       *)
(* which is classified as a query too, sweep an UPDATE or DELETE of a      *)
(* whole table or a MERGE, comment COMMENT ON, block PL/SQL, end COMMIT or *)
(* ROLLBACK, mark SAVEPOINT, ROLLBACK TO one or SET TRANSACTION, and other *)
(* ALTER SESSION, ALTER SYSTEM and the unknown, as CALL and LOCK TABLE.    *)
StmtKind == {"query", "lockingQuery", "explain", "change", "sweep", "truncate",
             "ddl", "comment", "block", "end", "mark", "other"}

(* Kinds that may open a transaction the count is not told of.             *)
Silent == {"lockingQuery", "explain", "mark", "other"}

Stmt == [kind : StmtKind, table : Tables \cup {None}]

Request ==
  [op : {"open"}, profile : Profile]
    \cup [op : {"close", "commit", "rollback", "txState", "embed", "call",
             "ddl.confirm"}]
    \cup [op : {"unlock"}, table : Tables]
    \cup [op : {"cancel"}, target : Requests]
    \cup [op : {"query"}, stmts : Seq(Stmt) \ {<<>>}, ack : Tables \cup {None}]

ASSUME SessionAssumption ==
  /\ Menu \subseteq Request
  /\ MaxConn \in Nat \ {0} /\ MaxDrops \in Nat /\ EmbedRows \in Nat \ {0}
  /\ None \notin Requests \cup Tables \cup Conns

VARIABLES
  session,    \* currentSession
  lockq,      \* _sessionMutex: the holder and those who wait, in order
  pending,    \* _txState.pendingStatements
  window,     \* _unsafeDmlWindow
  running,    \* _running.requestId
  cancelled,  \* _running.cancelled
  pc,         \* pc[r]: the await r is in
  req,        \* req[r]: what r asked
  conn,       \* conn[r]: the connection r holds
  idx,        \* idx[r]: statement or row r is at
  embedded,   \* embedded[r]: rows r has updated
  result,     \* result[r]: what r was answered
  profile,    \* profile[c]: the params c was built with
  link,       \* link[c]: the connection as the driver sees it
  tx,         \* tx[c]: c has uncommitted work, in the database
  opq,        \* opq[c]: requests with a call on c, in order
  brk,        \* brk[c]: an interrupt was sent on c
  drops,      \* connections lost so far
  gate,       \* history: gate[r]: what the safety checks of r let through
  ran,        \* history: statements the database ran
  unlocks,    \* history: windows opened
  lateLoss,   \* history: a request cleared a session that was not its own
  unseen      \* history: unseen[c]: why the work on c is not counted

session_ == <<session, lockq, window, unlocks, lateLoss>>
query_ == <<running, cancelled, gate>>
proc_ == <<pc, req, conn, idx, embedded, result>>
driver_ == <<link, tx, opq, brk, drops, profile, unseen>>
vars == <<session_, query_, proc_, driver_, pending, ran>>

Window == [table : Tables, no : Nat, conn : Conns]
Waits == {"new", "lock", "closeOld", "build", "boot", "bootClose", "enable", "closeIt",
          "exec", "sync", "commit", "rollback", "consult", "embedRead",
          "embedding", "embedUpdate", "embedCommit", "call", "done"}
Answers == {None, "ok", "open", "clean", "busy", "refused", "noSession", "lost",
            "error", "cancelled", "noMethod", "noConnection"}

(* Why open work is not counted: its statement is followed by no consult,  *)
(* the consult failed, or the work is that of another handler.             *)
Gaps == {"silent", "consult", "embed", "call"}

TypeOK ==
  /\ session \in Conns \cup {None}
  /\ lockq \in Seq(Requests)
  /\ pending \in Nat
  /\ window \in Window \cup {None}
  /\ running \in Requests \cup {None}
  /\ cancelled \in BOOLEAN
  /\ pc \in [Requests -> Waits]
  /\ req \in [Requests -> Menu \cup {None}]
  /\ conn \in [Requests -> Conns \cup {None}]
  /\ idx \in [Requests -> Nat]
  /\ embedded \in [Requests -> Nat]
  /\ result \in [Requests -> Answers]
  /\ profile \in [Conns -> Profile \cup {None}]
  /\ link \in [Conns -> {"unused", "up", "down", "closed"}]
  /\ tx \in [Conns -> BOOLEAN]
  /\ opq \in [Conns -> Seq(Requests)]
  /\ brk \in [Conns -> BOOLEAN]
  /\ drops \in 0..MaxDrops
  /\ gate \in [Requests -> [conn : Conns \cup {None},
                            grants : Seq(Window \cup {None})]]
  /\ unlocks \in Nat
  /\ lateLoss \in BOOLEAN
  /\ unseen \in [Conns -> SUBSET Gaps]

Init ==
  /\ session = None
  /\ lockq = <<>>
  /\ pending = 0
  /\ window = None
  /\ running = None
  /\ cancelled = FALSE
  /\ pc = [r \in Requests |-> "new"]
  /\ req = [r \in Requests |-> None]
  /\ conn = [r \in Requests |-> None]
  /\ idx = [r \in Requests |-> 0]
  /\ embedded = [r \in Requests |-> 0]
  /\ result = [r \in Requests |-> None]
  /\ profile = [c \in Conns |-> None]
  /\ link = [c \in Conns |-> "unused"]
  /\ tx = [c \in Conns |-> FALSE]
  /\ opq = [c \in Conns |-> <<>>]
  /\ brk = [c \in Conns |-> FALSE]
  /\ drops = 0
  /\ gate = [r \in Requests |-> [conn |-> None, grants |-> <<>>]]
  /\ ran = {}
  /\ unlocks = 0
  /\ lateLoss = FALSE
  /\ unseen = [c \in Conns |-> {}]

-----------------------------------------------------------------------------
(***************************************************************************)
(* Calls on a connection.                                                  *)
(***************************************************************************)

(* Rejections on closed connections come before anything else.             *)
Prompt == \A c \in Conns : link[c] = "closed" => opq[c] = <<>>

(* The call of r is the one its connection answers next.                   *)
AtHead(r) ==
  /\ conn[r] # None
  /\ opq[conn[r]] # <<>> /\ Head(opq[conn[r]]) = r
  /\ link[conn[r]] = "closed" \/ Prompt

Outcomes(c) ==
  IF link[c] # "up" THEN {"lost"}
  ELSE {"ok", "error"} \cup (IF brk[c] THEN {"interrupted"} ELSE {})

Popped(c) == [opq EXCEPT ![c] = Tail(@)]
Pushed(q, c, r) == [q EXCEPT ![c] = Append(@, r)]

(* What an answer leaves of a connection: the first loss closes it; an     *)
(* interrupt hits one call at most and, sent too late, may still hit the   *)
(* next one.                                                               *)
After(c, out) ==
  /\ link' = IF out = "lost" THEN [link EXCEPT ![c] = "closed"] ELSE link
  /\ \/ brk' = [brk EXCEPT ![c] = FALSE]
     \/ out # "interrupted" /\ brk' = brk

Finish(r, a) ==
  /\ pc' = [pc EXCEPT ![r] = "done"]
  /\ result' = [result EXCEPT ![r] = a]

SetTx(c, open, why) ==
  /\ tx' = [tx EXCEPT ![c] = open]
  /\ unseen' = [unseen EXCEPT ![c] = IF open THEN @ \cup why ELSE {}]

(* A transaction that is opened where nothing counts it.                   *)
Opening(c, why) == IF tx[c] THEN {} ELSE {why}

(* The catch of withActiveSession: a lost connection clears the session,   *)
(* whichever it is by then.                                                *)
ClearOnLoss(r, out) ==
  IF out = "lost"
  THEN /\ session' = None
       /\ pending' = 0
       /\ lateLoss' = (lateLoss \/ session \notin {None, conn[r]})
  ELSE UNCHANGED <<session, pending, lateLoss>>

(* A request arrives; each asks once.                                      *)
Arrives(r, m) ==
  /\ pc[r] = "new" /\ Prompt
  /\ req' = [req EXCEPT ![r] = m]

-----------------------------------------------------------------------------
(***************************************************************************)
(* workspace.open and workspace.close.                                     *)
(***************************************************************************)

OpensAsked == Cardinality({r \in Requests : req[r] # None /\ req[r].op = "open"})

AskLock(r, m) ==
  /\ Arrives(r, m)
  /\ m.op = "close" \/ (m.op = "open" /\ OpensAsked < MaxConn)
  /\ lockq' = Append(lockq, r)
  /\ pc' = [pc EXCEPT ![r] = "lock"]
  /\ UNCHANGED <<session, window, unlocks, lateLoss, query_, conn, idx, embedded,
                 result, driver_, pending, ran>>

(* Mutation: the lock is not awaited.                                      *)
HoldsLockAtOnce(r) == pc[r] = "lock"

HoldsLock(r) == pc[r] = "lock" /\ Head(lockq) = r

(* Mutation: the old session is dropped, not closed.                       *)
CloseFirstSkipped(r) ==
  /\ HoldsLock(r) /\ session # None
  /\ session' = None /\ pending' = 0 /\ window' = None
  /\ IF req[r].op = "open"
     THEN pc' = [pc EXCEPT ![r] = "build"] /\ UNCHANGED <<lockq, result>>
     ELSE Finish(r, "ok") /\ lockq' = Tail(lockq)
  /\ UNCHANGED <<unlocks, lateLoss, query_, req, conn, idx, embedded, driver_, ran>>

(* The old session is closed first; its close is a call like any other.    *)
CloseFirst(r) ==
  /\ HoldsLock(r) /\ session # None
  /\ conn' = [conn EXCEPT ![r] = session]
  /\ pc' = [pc EXCEPT ![r] = IF req[r].op = "open" THEN "closeOld" ELSE "closeIt"]
  /\ opq' = Pushed(opq, session, r)
  /\ UNCHANGED <<session_, query_, req, idx, embedded, result, link, tx, brk,
                 drops, profile, unseen, pending, ran>>

NothingToClose(r) ==
  /\ HoldsLock(r) /\ session = None
  /\ window' = None
  /\ IF req[r].op = "open"
     THEN pc' = [pc EXCEPT ![r] = "build"] /\ UNCHANGED <<lockq, result>>
     ELSE Finish(r, "ok") /\ lockq' = Tail(lockq)
  /\ UNCHANGED <<session, unlocks, lateLoss, query_, req, conn, idx, embedded,
                 driver_, pending, ran>>

(* Failing or not, the close is over, and the database rolls back.         *)
Closed(r) ==
  /\ pc[r] \in {"closeOld", "closeIt"} /\ AtHead(r)
  /\ LET c == conn[r] IN
       /\ link' = [link EXCEPT ![c] = "closed"]
       /\ SetTx(c, FALSE, {})
       /\ opq' = Popped(c)
       /\ brk' = [brk EXCEPT ![c] = FALSE]
  /\ session' = None /\ pending' = 0 /\ window' = None
  /\ IF pc[r] = "closeOld"
     THEN pc' = [pc EXCEPT ![r] = "build"] /\ UNCHANGED <<lockq, result>>
     ELSE Finish(r, "ok") /\ lockq' = Tail(lockq)
  /\ UNCHANGED <<unlocks, lateLoss, query_, req, conn, idx, embedded, drops,
                 profile, ran>>

Built(r) ==
  /\ pc[r] = "build" /\ Prompt
  /\ \E c \in Conns :
       /\ link[c] = "unused" /\ \A j \in 1..(c - 1) : link[j] # "unused"
       /\ link' = [link EXCEPT ![c] = "up"]
       /\ profile' = [profile EXCEPT ![c] = req[r].profile]
       /\ conn' = [conn EXCEPT ![r] = c]
       /\ opq' = Pushed(opq, c, r)
  /\ pc' = [pc EXCEPT ![r] = "boot"]
  /\ UNCHANGED <<session_, query_, req, idx, embedded, result, tx, brk, drops,
                 unseen, pending, ran>>

(* Mutation: the lock is not passed on.                                    *)
BuildFailsKeepsLock(r) ==
  /\ pc[r] = "build" /\ Prompt
  /\ Finish(r, "noConnection")
  /\ UNCHANGED <<lockq, session, window, unlocks, lateLoss, query_, req, conn, idx,
                 embedded, driver_, pending, ran>>

BuildFails(r) ==
  /\ pc[r] = "build" /\ Prompt
  /\ Finish(r, "noConnection")
  /\ lockq' = Tail(lockq)
  /\ UNCHANGED <<session, window, unlocks, lateLoss, query_, req, conn, idx,
                 embedded, driver_, pending, ran>>

(* The boot queries: the session is set when they all succeed, and the     *)
(* connection is closed again when one fails.                              *)
Booted(r, out) ==
  /\ pc[r] = "boot" /\ AtHead(r) /\ out \in Outcomes(conn[r])
  /\ opq' = Pushed(Popped(conn[r]), conn[r], r)
  /\ After(conn[r], out)
  /\ IF out = "ok"
     THEN /\ session' = conn[r] /\ lockq' = Tail(lockq)
          /\ pc' = [pc EXCEPT ![r] = "enable"]
     ELSE /\ pc' = [pc EXCEPT ![r] = "bootClose"]
          /\ UNCHANGED <<session, lockq>>
  /\ UNCHANGED <<window, unlocks, lateLoss, query_, req, conn, idx, embedded,
                 result, tx, drops, profile, unseen, pending, ran>>

BootClosed(r) ==
  /\ pc[r] = "bootClose" /\ AtHead(r)
  /\ link' = [link EXCEPT ![conn[r]] = "closed"]
  /\ opq' = Popped(conn[r])
  /\ Finish(r, "noConnection")
  /\ lockq' = Tail(lockq)
  /\ UNCHANGED <<session, window, unlocks, lateLoss, query_, req, conn, idx,
                 embedded, tx, brk, drops, profile, unseen, pending, ran>>

(* enableDbmsOutputForActiveSession, outside the lock; its errors are      *)
(* swallowed, a loss clears the session all the same.                      *)
Enabled(r, out) ==
  /\ pc[r] = "enable" /\ AtHead(r) /\ out \in Outcomes(conn[r])
  /\ opq' = Popped(conn[r])
  /\ After(conn[r], out)
  /\ ClearOnLoss(r, out)
  /\ Finish(r, "ok")
  /\ UNCHANGED <<lockq, window, unlocks, query_, req, conn, idx, embedded, tx, drops, profile, unseen, ran>>

-----------------------------------------------------------------------------
(***************************************************************************)
(* query.execute: the safety checks.                                       *)
(***************************************************************************)

(* getSessionSafety: empty without a session.                              *)
Safety == IF session = None
          THEN [env |-> "unset", readOnly |-> FALSE, warn |-> FALSE]
          ELSE profile[session]

(* Whether a statement passes without a window.  No method opens the DDL   *)
(* window, so outside dev no DDL passes but COMMENT ON.                    *)
Permitted(s, ack) ==
  /\ Safety.readOnly => s.kind \in {"query", "lockingQuery"}
  /\ s.kind = "truncate" => Safety.env # "prod"
  /\ s.kind \in {"sweep", "truncate"} =>
       CASE Safety.env = "staging" -> ack = s.table
         [] Safety.env = "dev" -> Safety.warn => ack # None
         [] OTHER -> TRUE
  /\ s.kind = "ddl" => Safety.env = "dev"

(* A sweep on prod takes the one-shot window with it.                      *)
TakesWindow(s) == s.kind = "sweep" /\ Safety.env = "prod" /\ ~Safety.readOnly

(* Mutation: only the first statement is checked.                          *)
PassesAfterFirst(m, i) ==
  i > 1 \/ Permitted(m.stmts[i], m.ack)

(* The window is gone for the statements after the one that took it.       *)
Passes(m, i) ==
  IF TakesWindow(m.stmts[i])
  THEN /\ window # None /\ window.table = m.stmts[i].table
       /\ \A j \in 1..(i - 1) : ~TakesWindow(m.stmts[j])
  ELSE Permitted(m.stmts[i], m.ack)

Granted(m) ==
  [i \in DOMAIN m.stmts |-> IF TakesWindow(m.stmts[i]) THEN window ELSE None]

(* Mutation: the window stays open.                                        *)
CheckedKeepsWindow(m) ==
  [ok |-> \A i \in DOMAIN m.stmts : Passes(m, i), win |-> window,
   grants |-> Granted(m)]

(* enforceSafetyForStatement on every statement, before any of them runs:  *)
(* a window taken by one is gone though a later one is refused.            *)
Checked(m) ==
  [ok |-> \A i \in DOMAIN m.stmts : Passes(m, i),
   win |-> IF \E i \in DOMAIN m.stmts :
                TakesWindow(m.stmts[i]) /\ \A j \in 1..i : Passes(m, j)
           THEN None ELSE window,
   grants |-> Granted(m)]

-----------------------------------------------------------------------------
(***************************************************************************)
(* query.execute: running.                                                 *)
(***************************************************************************)

QueryRefused(r, m) ==
  /\ Arrives(r, m) /\ m.op = "query"
  /\ LET g == Checked(m) IN
       \/ /\ running # None
          /\ Finish(r, "busy")
          /\ UNCHANGED window
       \/ /\ running = None /\ ~g.ok
          /\ Finish(r, "refused")
          /\ window' = g.win
       \/ /\ running = None /\ g.ok /\ session = None
          /\ Finish(r, "noSession")
          /\ UNCHANGED window
  /\ UNCHANGED <<session, lockq, unlocks, lateLoss, query_, conn, idx, embedded,
                 driver_, pending, ran>>

QueryBegins(r, m) ==
  /\ Arrives(r, m) /\ m.op = "query"
  /\ running = None /\ session # None
  /\ LET g == Checked(m) IN
       /\ g.ok
       /\ window' = g.win
       /\ gate' = [gate EXCEPT ![r] = [conn |-> session, grants |-> g.grants]]
  /\ running' = r /\ cancelled' = FALSE
  /\ pc' = [pc EXCEPT ![r] = "exec"]
  /\ conn' = [conn EXCEPT ![r] = session]
  /\ idx' = [idx EXCEPT ![r] = 1]
  /\ opq' = Pushed(opq, session, r)
  /\ UNCHANGED <<session, lockq, unlocks, lateLoss, embedded, result, link, tx,
                 brk, drops, profile, unseen, pending, ran>>

StmtOf(r) == req[r].stmts[idx[r]]

(* Mutation: the slot is not freed.                                        *)
QueryEndsKeepsSlot(r, a) ==
  /\ Finish(r, a)
  /\ opq' = Popped(conn[r])
  /\ UNCHANGED <<running, cancelled, conn, idx>>

(* The request leaves queryExecute, and with it _running.                  *)
QueryEnds(r, a) ==
  /\ Finish(r, a)
  /\ running' = None
  /\ opq' = Popped(conn[r])
  /\ UNCHANGED <<cancelled, conn, idx>>

(* The next statement runs on the session of that moment.                  *)
NextStmt(r) ==
  IF idx[r] = Len(req[r].stmts) THEN QueryEnds(r, "ok")
  ELSE IF cancelled THEN QueryEnds(r, "cancelled")
  ELSE IF session = None THEN QueryEnds(r, "noSession")
  ELSE /\ pc' = [pc EXCEPT ![r] = "exec"]
       /\ conn' = [conn EXCEPT ![r] = session]
       /\ idx' = [idx EXCEPT ![r] = @ + 1]
       /\ opq' = Pushed(Popped(conn[r]), session, r)
       /\ UNCHANGED <<running, cancelled, result>>

(* What a statement leaves of a transaction.                               *)
TxAfter(kind, open) ==
  CASE kind \in {"change", "sweep", "lockingQuery", "explain"} -> {TRUE}
    [] kind \in {"ddl", "comment", "truncate", "end"} -> {FALSE}
    [] kind \in {"block", "other"} -> BOOLEAN
    [] kind = "mark" -> {open, TRUE}
    [] OTHER -> {open}

(* Mutation: PL/SQL is not followed by a consult.                          *)
ConsultsNotBlock(kind) == kind \notin {"query", "lockingQuery", "explain", "other", "block"}

Consults(kind) == kind \notin {"query", "lockingQuery", "explain", "other"}

StmtRan(r) ==
  /\ pc[r] = "exec" /\ AtHead(r) /\ link[conn[r]] = "up"
  /\ LET c == conn[r]
         s == StmtOf(r)
     IN /\ \E open \in TxAfter(s.kind, tx[c]) :
             SetTx(c, open, IF s.kind \in Silent THEN Opening(c, "silent") ELSE {})
        /\ ran' = ran \cup {[req |-> r, idx |-> idx[r], stmt |-> s, conn |-> c,
                             checkedOn |-> gate[r].conn,
                             grant |-> gate[r].grants[idx[r]]]}
        /\ After(c, "ok")
        /\ IF Consults(s.kind)
           THEN /\ pc' = [pc EXCEPT ![r] = "sync"]
                /\ opq' = Pushed(Popped(c), c, r)
                /\ UNCHANGED <<running, cancelled, conn, idx, result>>
           ELSE NextStmt(r)
  /\ UNCHANGED <<session_, gate, req, embedded, drops, profile, pending>>

(* A statement that fails stops the batch; it is not followed by a         *)
(* consult, though DDL, PL/SQL and a CALL may have committed.              *)
StmtFailed(r, out) ==
  /\ pc[r] = "exec" /\ AtHead(r) /\ out \in Outcomes(conn[r]) \ {"ok"}
  /\ LET c == conn[r] IN
       \E open \in IF StmtOf(r).kind \in {"ddl", "comment", "truncate", "block", "other"}
                     THEN {tx[c], FALSE} ELSE {tx[c]} : SetTx(c, open, {})
  /\ After(conn[r], out)
  /\ ClearOnLoss(r, out)
  /\ QueryEnds(r, IF out = "interrupted" /\ cancelled THEN "cancelled"
                  ELSE IF out = "lost" THEN "lost" ELSE "error")
  /\ UNCHANGED <<lockq, window, unlocks, gate, req, embedded, drops,
                 profile, ran>>

(* syncTxStateAfterStatement: an unanswered consult counts as "no open     *)
(* transaction".                                                           *)
Synced(r, out) ==
  /\ pc[r] = "sync" /\ AtHead(r) /\ out \in Outcomes(conn[r])
  /\ LET c == conn[r]
         modifying == StmtOf(r).kind \notin {"end", "mark"}
     IN /\ pending' = IF out # "ok" \/ ~tx[c] THEN 0
                      ELSE IF modifying THEN pending + 1 ELSE pending
        /\ SetTx(c, tx[c], IF out # "ok" THEN {"consult"} ELSE {})
        /\ After(c, out)
  /\ NextStmt(r)
  /\ UNCHANGED <<session_, gate, req, embedded, drops, profile, ran>>

(* query.cancel: the flag for the statements to come, an interrupt for the *)
(* call in progress on the session, whatever it is.                        *)
Cancel(r, m) ==
  /\ Arrives(r, m) /\ m.op = "cancel"
  /\ IF running # m.target
     THEN Finish(r, "ok") /\ UNCHANGED <<cancelled, brk>>
     ELSE /\ cancelled' = TRUE
          /\ IF session = None
             THEN Finish(r, "noSession") /\ UNCHANGED brk
             ELSE /\ Finish(r, "ok")
                  /\ brk' = [brk EXCEPT ![session] = @ \/ opq[session] # <<>>]
  /\ UNCHANGED <<session_, running, gate, conn, idx, embedded, link, tx, opq,
                 drops, profile, unseen, pending, ran>>

(* workspace.unlockUnsafeDml.                                              *)
Unlock(r, m) ==
  /\ Arrives(r, m) /\ m.op = "unlock"
  /\ IF Safety.env = "prod"
     THEN /\ window' = [table |-> m.table, no |-> unlocks + 1, conn |-> session]
          /\ unlocks' = unlocks + 1
          /\ Finish(r, "ok")
     ELSE Finish(r, "refused") /\ UNCHANGED <<window, unlocks>>
  /\ UNCHANGED <<session, lockq, lateLoss, query_, conn, idx, embedded, driver_,
                 pending, ran>>

WindowExpires ==
  /\ window # None
  /\ window' = None
  /\ UNCHANGED <<session, lockq, unlocks, lateLoss, query_, proc_, driver_,
                 pending, ran>>

(* ddl.confirm has no entry in the table of methods.                       *)
NoSuchMethod(r, m) ==
  /\ Arrives(r, m) /\ m.op = "ddl.confirm"
  /\ Finish(r, "noMethod")
  /\ UNCHANGED <<session_, query_, conn, idx, embedded, driver_, pending, ran>>

-----------------------------------------------------------------------------
(***************************************************************************)
(* connection.commit, connection.rollback, connection.txState.             *)
(***************************************************************************)

(* withActiveSession around one call.                                      *)
TakeSession(r, wait) ==
  IF session = None
  THEN Finish(r, "noSession") /\ UNCHANGED <<conn, opq>>
  ELSE /\ pc' = [pc EXCEPT ![r] = wait]
       /\ conn' = [conn EXCEPT ![r] = session]
       /\ opq' = Pushed(opq, session, r)
       /\ UNCHANGED result

EndTx(r, m) ==
  /\ Arrives(r, m) /\ m.op \in {"commit", "rollback"}
  /\ TakeSession(r, m.op)
  /\ UNCHANGED <<session_, query_, idx, embedded, link, tx, brk, drops, profile,
                 unseen, pending, ran>>

TxEnded(r, out) ==
  /\ pc[r] \in {"commit", "rollback"} /\ AtHead(r) /\ out \in Outcomes(conn[r])
  /\ opq' = Popped(conn[r])
  /\ After(conn[r], out)
  /\ IF out = "ok"
     THEN /\ SetTx(conn[r], FALSE, {})
          /\ pending' = 0
          /\ UNCHANGED <<session, lateLoss>>
     ELSE ClearOnLoss(r, out) /\ UNCHANGED <<tx, unseen>>
  /\ Finish(r, IF out \in {"ok", "lost"} THEN out ELSE "error")
  /\ UNCHANGED <<lockq, window, unlocks, query_, req, conn, idx, embedded, drops, profile, ran>>

(* The database is asked only when the count says there is work pending.   *)
TxState(r, m) ==
  /\ Arrives(r, m) /\ m.op = "txState"
  /\ IF session = None \/ pending = 0
     THEN Finish(r, "clean") /\ UNCHANGED <<conn, opq>>
     ELSE TakeSession(r, "consult")
  /\ UNCHANGED <<session_, query_, idx, embedded, link, tx, brk, drops, profile,
                 unseen, pending, ran>>

Consulted(r, out) ==
  /\ pc[r] = "consult" /\ AtHead(r) /\ out \in Outcomes(conn[r])
  /\ LET c == conn[r] IN
       /\ pending' = IF out # "ok" \/ ~tx[c] THEN 0 ELSE pending
       /\ SetTx(c, tx[c], IF out # "ok" THEN {"consult"} ELSE {})
       /\ opq' = Popped(c)
       /\ After(c, out)
  /\ Finish(r, IF pending' > 0 THEN "open" ELSE "clean")
  /\ UNCHANGED <<session_, query_, req, conn, idx, embedded, drops, profile,
                 ran>>

-----------------------------------------------------------------------------
(***************************************************************************)
(* embed.batch: rows are read, embedded one after the other by a service   *)
(* outside, updated and committed, all on the connection it started with.  *)
(***************************************************************************)

Embed(r, m) ==
  /\ Arrives(r, m) /\ m.op = "embed"
  /\ TakeSession(r, "embedRead")
  /\ UNCHANGED <<session_, query_, idx, embedded, link, tx, brk, drops, profile,
                 unseen, pending, ran>>

EmbedRead(r, out) ==
  /\ pc[r] = "embedRead" /\ AtHead(r) /\ out \in Outcomes(conn[r])
  /\ opq' = Popped(conn[r])
  /\ After(conn[r], out)
  /\ ClearOnLoss(r, out)
  /\ IF out = "ok"
     THEN /\ pc' = [pc EXCEPT ![r] = "embedding"]
          /\ idx' = [idx EXCEPT ![r] = 1]
          /\ UNCHANGED result
     ELSE Finish(r, IF out = "lost" THEN out ELSE "error") /\ UNCHANGED idx
  /\ UNCHANGED <<lockq, window, unlocks, query_, req, conn, embedded, tx,
                 drops, profile, unseen, ran>>

(* After the last row the batch is committed, if it updated any.           *)
NextRow(r, q) ==
  IF idx[r] < EmbedRows
  THEN /\ pc' = [pc EXCEPT ![r] = "embedding"]
       /\ idx' = [idx EXCEPT ![r] = @ + 1]
       /\ opq' = q
       /\ UNCHANGED result
  ELSE /\ IF embedded'[r] > 0
          THEN /\ pc' = [pc EXCEPT ![r] = "embedCommit"]
               /\ opq' = Pushed(q, conn[r], r)
               /\ UNCHANGED result
          ELSE Finish(r, "ok") /\ opq' = q
       /\ UNCHANGED idx

EmbeddingReady(r) ==
  /\ pc[r] = "embedding" /\ Prompt
  /\ pc' = [pc EXCEPT ![r] = "embedUpdate"]
  /\ opq' = Pushed(opq, conn[r], r)
  /\ UNCHANGED <<session_, query_, req, conn, idx, embedded, result, link, tx, brk,
                 drops, profile, unseen, pending, ran>>

EmbeddingFails(r) ==
  /\ pc[r] = "embedding" /\ Prompt
  /\ UNCHANGED embedded
  /\ NextRow(r, opq)
  /\ UNCHANGED <<session_, query_, req, conn, link, tx, brk, drops, profile, unseen,
                 pending, ran>>

(* An update that fails is counted and passed over, whatever the reason.   *)
EmbedUpdated(r, out) ==
  /\ pc[r] = "embedUpdate" /\ AtHead(r) /\ out \in Outcomes(conn[r])
  /\ After(conn[r], out)
  /\ IF out = "ok"
     THEN /\ embedded' = [embedded EXCEPT ![r] = @ + 1]
          /\ SetTx(conn[r], TRUE, Opening(conn[r], "embed"))
     ELSE UNCHANGED <<embedded, tx, unseen>>
  /\ NextRow(r, Popped(conn[r]))
  /\ UNCHANGED <<session_, query_, req, conn, drops, profile, pending, ran>>

EmbedCommitted(r, out) ==
  /\ pc[r] = "embedCommit" /\ AtHead(r) /\ out \in Outcomes(conn[r])
  /\ opq' = Popped(conn[r])
  /\ After(conn[r], out)
  /\ ClearOnLoss(r, out)
  /\ IF out = "ok" THEN SetTx(conn[r], FALSE, {}) ELSE UNCHANGED <<tx, unseen>>
  /\ Finish(r, IF out \in {"ok", "lost"} THEN out ELSE "error")
  /\ UNCHANGED <<lockq, window, unlocks, query_, req, conn, idx, embedded, drops, profile, ran>>

-----------------------------------------------------------------------------
(* procExecute, and any other handler that takes the session for its own   *)
(* statements: they may open or end a transaction, whether the handler     *)
(* succeeds or fails at the last of them, and none is consulted about.     *)
Call(r, m) ==
  /\ Arrives(r, m) /\ m.op = "call"
  /\ TakeSession(r, "call")
  /\ UNCHANGED <<session_, query_, idx, embedded, link, tx, brk, drops, profile,
                 unseen, pending, ran>>

Called(r, out) ==
  /\ pc[r] = "call" /\ AtHead(r) /\ out \in Outcomes(conn[r])
  /\ opq' = Popped(conn[r])
  /\ After(conn[r], out)
  /\ ClearOnLoss(r, out)
  /\ \E open \in IF out = "lost" THEN {tx[conn[r]]} ELSE BOOLEAN :
       SetTx(conn[r], open, Opening(conn[r], "call"))
  /\ Finish(r, IF out \in {"ok", "lost"} THEN out ELSE "error")
  /\ UNCHANGED <<lockq, window, unlocks, query_, req, conn, idx, embedded, drops,
                 profile, ran>>

-----------------------------------------------------------------------------
(* The network loses a connection; the database rolls it back.             *)
LinkDrops(c) ==
  /\ Prompt /\ link[c] = "up" /\ drops < MaxDrops
  /\ link' = [link EXCEPT ![c] = "down"]
  /\ SetTx(c, FALSE, {})
  /\ drops' = drops + 1
  /\ UNCHANGED <<session_, query_, proc_, opq, brk, profile, pending, ran>>

Ask(r) ==
  \E m \in Menu :
    \/ AskLock(r, m) \/ QueryRefused(r, m) \/ QueryBegins(r, m) \/ Cancel(r, m)
    \/ Unlock(r, m) \/ NoSuchMethod(r, m) \/ EndTx(r, m) \/ TxState(r, m)
    \/ Embed(r, m) \/ Call(r, m)

(* Whatever is left to do for a request that was asked.                    *)
Proceed(r) ==
  \/ CloseFirst(r) \/ NothingToClose(r) \/ Closed(r)
  \/ Built(r) \/ BuildFails(r) \/ BootClosed(r)
  \/ StmtRan(r) \/ EmbeddingReady(r) \/ EmbeddingFails(r)
  \/ \E out \in {"ok", "error", "interrupted", "lost"} :
       \/ Booted(r, out) \/ Enabled(r, out)
       \/ StmtFailed(r, out) \/ Synced(r, out)
       \/ TxEnded(r, out) \/ Consulted(r, out)
       \/ EmbedRead(r, out) \/ EmbedUpdated(r, out) \/ EmbedCommitted(r, out)
       \/ Called(r, out)

Next ==
  \/ \E r \in Requests : Ask(r) \/ Proceed(r)
  \/ WindowExpires
  \/ \E c \in Conns : LinkDrops(c)

Spec == Init /\ [][Next]_vars

(* Calls on a connection end, by an answer or by an error, and so do calls *)
(* to the embedding service and attempts to connect.                       *)
FairSpec == Spec /\ \A r \in Requests : WF_vars(Proceed(r))

-----------------------------------------------------------------------------
(***************************************************************************)
(* Properties.                                                             *)
(***************************************************************************)

(* Connections that are open, that nobody can use any more and that nobody *)
(* will close.                                                             *)
Orphans ==
  {c \in Conns :
     /\ link[c] = "up" /\ c # session
     /\ ~\E r \in Requests :
           /\ conn[r] = c
           /\ pc[r] \in {"boot", "bootClose", "closeOld", "closeIt"}}

(* openSession and closeSession, however they race and fail, orphan no     *)
(* connection; only a request that outlived its own session does.          *)
OrphanOnlyByLateLoss == ~lateLoss => Orphans = {}

(* A statement runs on the connection it was checked for, though a batch   *)
(* takes the session anew for every statement.                             *)
RunsWhereChecked == ~lateLoss => \A x \in ran : x.conn = x.checkedOn

(* A sweeping statement runs on prod only under a window opened for its    *)
(* table in the very session it was checked in, and no window serves two.  *)
WindowIsOneShot ==
  \A x \in ran :
    /\ (x.stmt.kind = "sweep" /\ profile[x.checkedOn].env = "prod") =>
         /\ x.grant # None
         /\ x.grant.table = x.stmt.table /\ x.grant.conn = x.checkedOn
    /\ \A y \in ran : x.grant # None /\ x.grant = y.grant => x = y

(* What no window and no acknowledgement allows.                           *)
Forbidden(s, p) ==
  \/ p.readOnly /\ s.kind \notin {"query", "lockingQuery"}
  \/ s.kind = "truncate" /\ p.env = "prod"
  \/ s.kind = "ddl" /\ p.env # "dev"

(* A batch with a forbidden statement runs none of its statements, not     *)
(* even those before it.                                                   *)
ForbiddenBatchRanNothing ==
  \A x \in ran : \A i \in DOMAIN req[x.req].stmts :
    ~Forbidden(req[x.req].stmts[i], profile[x.checkedOn])

(* The safety gate of enforceSafetyForStatement, over the batch and over   *)
(* the time its windows stay open.                                         *)
GateHolds == WindowIsOneShot /\ ForbiddenBatchRanNothing

(* When no call is in progress, open work is counted, so that closing a    *)
(* window asks about it, unless it was opened in one of the gaps: by a     *)
(* statement no consult follows or that is not counted after it            *)
(* (oracle.ts:1653), before a consult that failed (:1643), or by another   *)
(* handler.  A late loss is such a gap too: it leaves a session nobody     *)
(* closed, whose commit, when it ends, resets the count of the session     *)
(* opened since.                                                           *)
OpenTxIsCounted ==
  /\ ~lateLoss
  /\ session # None /\ opq[session] = <<>>
  /\ tx[session] /\ unseen[session] = {}
  => pending > 0

(* The query slot is taken exactly while a query is in progress: no path   *)
(* leaves the session refusing queries.                                    *)
SlotMatchesQuery ==
  \A r \in Requests : running = r <=> pc[r] \in {"exec", "sync"}

(* Every request is answered, and the session lock passed on, whatever the *)
(* database answers.                                                       *)
EveryRequestIsAnswered ==
  \A r \in Requests : pc[r] # "new" ~> pc[r] = "done"

(***************************************************************************)
(* What the comments and documents say.                                    *)
(***************************************************************************)

(* state.ts 121-122: the session lock leaves no connection orphaned.       *)
NoOrphan == Orphans = {}

(* oracle.ts 1860: TRUNCATE is blocked on prod connections, no bypass.     *)
TruncateNeverOnProd ==
  \A x \in ran : x.stmt.kind = "truncate" => profile[x.conn].env # "prod"
=============================================================================
