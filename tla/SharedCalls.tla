----------------------------- MODULE SharedCalls -----------------------------
(***************************************************************************)
(* The calls of the browser, the dialogs and the assistant that run beside *)
(* the user's statements on the one connection of the workspace            *)
(* (src/sidecar/src/oracle.ts, ords.ts).  They overlap: each is a sequence *)
(* of statements, and between two of them another call, or the user, uses  *)
(* the same transaction, the same callTimeout and the same DBMS_OUTPUT.    *)
(*                                                                         *)
(* A call is given by the statements it issues: what each does to the      *)
(* connection, and what becomes of the call when the statement is refused  *)
(* for want of a privilege (the ORA-00942 and ORA-01031 the code tests     *)
(* for, and the errors it treats alike), and when it fails otherwise.      *)
(* What the statements select is left out.                                 *)
(***************************************************************************)
EXTENDS Integers, Sequences, FiniteSets

CONSTANTS
  Calls,     \* the calls made
  Beside,    \* the handlers of the calls that run beside the first, which is any
  None

VARIABLES
  call,      \* call[c]: the handler, the next statement, and how it goes
  now,       \* what is written, by the user and by each call, as this session sees it
  durable,   \* what of it is committed
  conn,      \* alive: whether the database still has the connection; kept: whether
             \* the sidecar takes it for open; limit: its callTimeout
  output,    \* the calls whose lines are in the DBMS_OUTPUT buffer
  upset      \* (history) overlapped: two previews were; taken: the handlers that
             \* committed what the user had not

callVars == <<call, now, durable, conn, output, upset>>

-----------------------------------------------------------------------------
(* A statement: what it does; what a refusal (denied) or another error     *)
(* (failed) does: "raised", through withActiveSession, "recoded" as an     *)
(* RpcCodedError inside it, "raw", in a handler that does not use it,      *)
(* "warned", raised and then answered as a warning, "empty", taken for an  *)
(* answer without rows (some say so), "later", raised after the next       *)
(* statement; and alt: whether it is issued only after a refusal ("else"). *)
Reads == [does |-> "reads", denied |-> "raised", failed |-> "raised", alt |-> FALSE]
Does(d) == [Reads EXCEPT !.does = d]
Refused(s, d) == [s EXCEPT !.denied = d]
Failing(s, d) == [s EXCEPT !.failed = d]
Tried(s) == [s EXCEPT !.denied = "empty", !.failed = "empty"]
Else(s) == [s EXCEPT !.alt = TRUE]
OrElse(s, t) == <<Refused(s, "else"), Else(t)>>
Raw(s) == [s EXCEPT !.denied = "raw", !.failed = "raw"]

(* The browser's objects.                                                  *)
schemaList == <<Reads>>
objectsList == <<Reads>>
mviewDetails == OrElse(Reads, Reads)
synonymDetails == <<Reads>>
dbLinksList == OrElse(Reads, Reads)
dbLinkDdl == <<Reads>>
directoriesList == OrElse(Reads, Reads)
directoryDetails == OrElse(Reads, Reads) \o <<Refused(Reads, "empty")>>
queuesList == <<Refused(Reads, "empty")>>
queueDetails == <<Refused(Reads, "empty")>>
queueDdl == \* an empty DDL counts as a refusal
  OrElse(Reads, Refused(Reads, "empty"))
tableDescribe == <<Reads, Reads, Reads>>
compileErrors == <<Reads>>
objectDdl == <<Reads, Tried(Reads)>>
objectsListPlsql == <<Reads>>
objectDataflow == <<Reads, Reads, Reads, Reads, Reads>>
tableRelated == [i \in 1 .. 6 |-> Tried(Reads)]
tableCountRows == <<Reads>>
objectsSearch == <<Reads>>
schemaKindCounts == <<Reads>>

(* Vectors and embeddings.                                                 *)
vectorSimilaritySearch == <<Reads, Reads>>
vectorTablesInSchema == <<Reads>>
vectorIndexList == <<Tried(Reads)>>
vectorCreateIndex == <<Does("commits"), Does("commits")>>
vectorDropIndex == <<Does("commits"), Does("commits")>>
embedCountPending == <<Reads>>
embedBatch == <<Reads, Tried(Does("writes")), Does("commitsWritten")>>

(* Plans, procedures and previews.  The plan's rows are deleted in a       *)
(* finally.                                                                *)
explainPlan_NoFinally ==
  <<Does("writes"), Refused(Reads, "else"), Else(Reads)>>
explainPlan ==
  <<Does("writes"), Refused(Failing(Reads, "later"), "else"), Else(Failing(Reads, "later")),
    Does("unwrites")>>
procDescribe == <<Reads>>
dmlPreview == <<Refused(Failing(Reads, "warned"), "warned")>>
procExecute == <<Reads, Reads, Does("runs"), Tried(Does("drains"))>>
mviewRefresh == <<Does("mayCommit")>>
querySessionSelf == <<Raw(Reads)>>
setSessionAction == <<Tried(Reads)>>
tablesStats == <<Reads, Reads>>
enableDbmsOutputForActiveSession == <<Refused(Failing(Reads, "warned"), "warned")>>

(* The scheduler.                                                          *)
schedulerJobsList ==
  <<Failing(Refused(Reads, "else"), "empty"), Else(Tried(Reads)), Else(Tried(Reads)),
    Failing(Refused(Reads, "else"), "empty"), Else(Tried(Reads))>>
schedulerJobDetails == OrElse(Failing(Reads, "recoded"), Reads)
legacyJobDetails == OrElse(Failing(Reads, "recoded"), Reads)
schedulerJobDdl == <<Refused(Failing(Reads, "recoded"), "empty")>>
schedulerProgramDetails == OrElse(Failing(Reads, "recoded"), Tried(Reads))
schedulerScheduleDetails == OrElse(Failing(Reads, "recoded"), Tried(Reads))
schedulerJobPrivCheck == <<Reads>>
schedulerJobRun == <<Does("mayCommit")>>
schedulerJobEnable == <<Does("mayCommit")>>
schedulerJobDisable == <<Does("mayCommit")>>
dbmsJobRun == <<Does("mayCommit")>>
dbmsJobBroken == <<Does("writes")>>
dbmsJobUnbroken == <<Does("writes")>>

(* Users, sessions and privileges.                                         *)
userDetails == OrElse(Reads, Reads)
userProfileDetails == <<Refused(Reads, "empty")>>
userQuotas == <<Refused(Reads, "empty")>>
sessionsListAll == <<Refused(Reads, "empty")>>
sessionSqlPreview == <<Refused(Reads, "empty")>>
sessionPrivCheck == <<Refused(Reads, "empty")>>
sessionKill == <<Refused(Reads, "recoded"), Reads>>
privilegesList ==
  OrElse(Reads, Tried(Reads)) \o OrElse(Reads, Tried(Reads)) \o
  <<Refused(Reads, "empty"), Refused(Reads, "empty")>>
blockingChain == <<Refused(Reads, "empty")>>

(* ORDS: none of it goes through withActiveSession.                        *)
ordsDetect ==
  <<Tried(Reads), Refused(Raw(Reads), "empty"),
    Tried(Reads), Tried(Reads), Tried(Reads), Tried(Reads)>>
ordsModulesList == <<Refused(Raw(Reads), "empty")>>
ordsModuleGet == <<Raw(Reads), Raw(Reads), Raw(Reads)>>
ordsEnableSchema == <<Raw(Does("commits"))>>
ordsRolesList == <<Refused(Raw(Reads), "empty")>>
ordsApply == <<Raw(Does("commits"))>>
ordsClientsList == <<Refused(Raw(Reads), "empty")>>
ordsClientsCreate == <<Raw(Does("commits")), Raw(Does("commits")), Raw(Reads)>>
ordsClientsRevoke == <<Raw(Does("commits"))>>

Program ==
  [schemaList |-> schemaList, objectsList |-> objectsList,
   mviewDetails |-> mviewDetails, synonymDetails |-> synonymDetails,
   dbLinksList |-> dbLinksList, dbLinkDdl |-> dbLinkDdl,
   directoriesList |-> directoriesList,
   directoryDetails |-> directoryDetails, queuesList |-> queuesList,
   queueDetails |-> queueDetails, queueDdl |-> queueDdl,
   tableDescribe |-> tableDescribe, compileErrors |-> compileErrors,
   objectDdl |-> objectDdl, objectsListPlsql |-> objectsListPlsql,
   objectDataflow |-> objectDataflow, tableRelated |-> tableRelated,
   tableCountRows |-> tableCountRows, objectsSearch |-> objectsSearch,
   schemaKindCounts |-> schemaKindCounts,
   vectorSimilaritySearch |-> vectorSimilaritySearch,
   vectorTablesInSchema |-> vectorTablesInSchema,
   vectorIndexList |-> vectorIndexList,
   vectorCreateIndex |-> vectorCreateIndex,
   vectorDropIndex |-> vectorDropIndex,
   embedCountPending |-> embedCountPending, embedBatch |-> embedBatch,
   explainPlan |-> explainPlan, procDescribe |-> procDescribe,
   dmlPreview |-> dmlPreview, procExecute |-> procExecute,
   mviewRefresh |-> mviewRefresh, querySessionSelf |-> querySessionSelf,
   setSessionAction |-> setSessionAction, tablesStats |-> tablesStats,
   enableDbmsOutputForActiveSession |-> enableDbmsOutputForActiveSession,
   schedulerJobsList |-> schedulerJobsList,
   schedulerJobDetails |-> schedulerJobDetails,
   legacyJobDetails |-> legacyJobDetails,
   schedulerJobDdl |-> schedulerJobDdl,
   schedulerProgramDetails |-> schedulerProgramDetails,
   schedulerScheduleDetails |-> schedulerScheduleDetails,
   schedulerJobPrivCheck |-> schedulerJobPrivCheck,
   schedulerJobRun |-> schedulerJobRun,
   schedulerJobEnable |-> schedulerJobEnable,
   schedulerJobDisable |-> schedulerJobDisable, dbmsJobRun |-> dbmsJobRun,
   dbmsJobBroken |-> dbmsJobBroken, dbmsJobUnbroken |-> dbmsJobUnbroken,
   userDetails |-> userDetails, userProfileDetails |-> userProfileDetails,
   userQuotas |-> userQuotas, sessionsListAll |-> sessionsListAll,
   sessionSqlPreview |-> sessionSqlPreview,
   sessionPrivCheck |-> sessionPrivCheck, sessionKill |-> sessionKill,
   privilegesList |-> privilegesList, blockingChain |-> blockingChain,
   ordsDetect |-> ordsDetect, ordsModulesList |-> ordsModulesList,
   ordsModuleGet |-> ordsModuleGet, ordsEnableSchema |-> ordsEnableSchema,
   ordsRolesList |-> ordsRolesList, ordsApply |-> ordsApply,
   ordsClientsList |-> ordsClientsList,
   ordsClientsCreate |-> ordsClientsCreate,
   ordsClientsRevoke |-> ordsClientsRevoke]

-----------------------------------------------------------------------------
CallsInit ==
  /\ call = [c \in Calls |-> None]
  /\ now = {} /\ durable = {}
  /\ conn = [alive |-> TRUE, kept |-> TRUE, limit |-> 0]
  /\ output = {}
  /\ upset = [overlapped |-> FALSE, taken |-> {}]

User == 0
Preview == 5
Prog(c) == Program[call[c].by]
InProgress(c) == call[c] # None /\ call[c].out = "none"
Previews == {c \in Calls : InProgress(c) /\ call[c].by = "dmlPreview"}

(* What call[c] is, once the call has begun.                               *)
CallRecord ==
  [by : DOMAIN Program, at : Nat \ {0}, out : {"none", "ok", "error"}, met : BOOLEAN,
   late : BOOLEAN, wrote : BOOLEAN, heard : SUBSET Calls, unread : BOOLEAN,
   saved : {0, Preview},
   crossed : SUBSET {"none", "tx", "output"}]

(* The user is no call, and None no record of one.                         *)
ASSUME CallsAssumption ==
  User \notin Calls /\ Beside \subseteq DOMAIN Program /\ None \notin CallRecord

(* The calls that have written something and are in progress, all but c,   *)
(* as what passes under them leaves them: a commit or rollback, or a read  *)
(* of the output buffer.                                                   *)
Crossed(c, what) ==
  [d \in Calls |-> IF d # c /\ InProgress(d) /\ call[d].wrote
                     THEN [call[d] EXCEPT !.crossed = @ \cup {what}] ELSE call[d]]

(* getActiveSession; a preview puts its own limit on the connection.       *)
Begin(c) ==
  /\ call[c] = None /\ conn.kept
  /\ \E h \in (IF c = 1 THEN DOMAIN Program ELSE Beside) :
       /\ call' = [call EXCEPT ![c] =
            [by |-> h, at |-> 1, out |-> "none", met |-> FALSE, late |-> FALSE,
             wrote |-> FALSE, heard |-> {}, unread |-> FALSE,
             saved |-> IF h = "dmlPreview" THEN conn.limit ELSE 0, crossed |-> {}]]
       /\ IF h = "dmlPreview"
            THEN /\ conn' = [conn EXCEPT !.limit = Preview]
                 /\ upset' = [upset EXCEPT !.overlapped = @ \/ Previews # {}]
            ELSE UNCHANGED <<conn, upset>>
  /\ UNCHANGED <<now, durable, output>>

(* The finally of a preview; without it the limit would stay.              *)
Restored_Left(c) == conn.limit
Restored(c) == call[c].saved

(* Where a call goes on: after a refusal with the statements that stand in *)
(* for the one refused, else past them.                                    *)
Following(c, refused) ==
  LET i == call[c].at IN
  IF refused \/ Prog(c)[i].alt THEN i + 1
  ELSE CHOOSE j \in i + 1 .. Len(Prog(c)) + 1 :
         /\ j \in DOMAIN Prog(c) => ~Prog(c)[j].alt
         /\ \A k \in i + 1 .. j - 1 : Prog(c)[k].alt

(* What a statement does to the transaction and to the buffer, and what of *)
(* either it has passed under the other calls (x).  DDL commits, and so    *)
(* may a procedure or a job; the code commits after an index and after an  *)
(* embedding.                                                              *)
Commits(c) ==
  /\ durable' = now
  /\ upset' = IF User \in now \ durable
                THEN [upset EXCEPT !.taken = @ \cup {call[c].by}] ELSE upset
  /\ UNCHANGED <<now, output>>

Effect(c, does, x) ==
  \/ /\ x = "none"
     /\ \/ does \in {"reads", "mayCommit"}
        \/ does = "commitsWritten" /\ ~call[c].wrote
     /\ UNCHANGED <<now, durable, output, upset>>
  \/ /\ does \in {"writes", "runs"} /\ now' = now \cup {c}
     /\ \/ x = "none" /\ UNCHANGED durable
        \/ x = "tx" /\ does = "runs" /\ durable' = now'
     /\ output' = (IF does = "runs" THEN output \cup {c} ELSE output)
     /\ UNCHANGED upset
  \/ /\ x = "none" /\ does = "unwrites" /\ now' = now \ {c}
     /\ UNCHANGED <<durable, output, upset>>
  \/ /\ x = "tx"
     /\ \/ does \in {"commits", "mayCommit"}
        \/ does = "commitsWritten" /\ call[c].wrote
     /\ Commits(c)
  \/ /\ x = "output" /\ does = "drains" /\ output' = {}
     /\ UNCHANGED <<now, durable, upset>>

(* The lines that were read: none, if the buffer could not be, and the     *)
(* call says nothing of it (oracle.ts:1606, :3539).                        *)
Heard(c, does, o) ==
  IF does = "drains" /\ o = "ok" THEN output ELSE call[c].heard

(* The statement that is next, its outcome o, and what becomes of the call *)
(* (d): it goes on, or it has been answered.                               *)
Statement(c, o, x) ==
  LET s == Prog(c)[call[c].at]
      d == CASE o = "ok" -> "goes" [] o = "denied" -> s.denied [] OTHER -> s.failed
      goes == d \in {"goes", "else", "empty", "later"}
      next == IF goes THEN Following(c, d = "else") ELSE call[c].at
      late == call[c].late \/ d = "later"
      lost == o = "lost" /\ d \in {"raised", "warned"}
  IN
  /\ InProgress(c)
  /\ call' = [Crossed(c, x) EXCEPT ![c] =
       [call[c] EXCEPT !.at = next, !.met = @ \/ o = "lost", !.late = late,
                 !.wrote = @ \/ (o = "ok" /\ s.does \in {"writes", "runs"}),
                 !.heard = Heard(c, s.does, o),
                 !.unread = @ \/ (s.does = "drains" /\ o # "ok"),
                 !.out = IF goes /\ next \in DOMAIN Prog(c) THEN "none"
                         ELSE IF (goes /\ ~late) \/ d = "warned" THEN "ok" ELSE "error"]]
  /\ IF o = "ok" THEN Effect(c, s.does, x)
      ELSE x = "none" /\ UNCHANGED <<now, durable, output, upset>>
  /\ conn' = [conn EXCEPT !.kept = @ /\ ~lost,
                           !.limit = IF call[c].by = "dmlPreview" THEN Restored(c) ELSE @]

StatementRuns(c) ==
  \E o \in (IF conn.alive THEN {"ok", "denied", "failed"} ELSE {"lost"}),
     x \in {"none", "tx", "output"} : Statement(c, o, x)

(* The database drops the connection: what was not committed is undone.    *)
Drop ==
  /\ conn.alive
  /\ conn' = [conn EXCEPT !.alive = FALSE]
  /\ now' = durable /\ output' = {}
  /\ call' = Crossed(User, "tx")
  /\ UNCHANGED <<durable, upset>>

(* The user, on the same connection: a statement, after which the output   *)
(* is read; Commit; and Rollback.                                          *)
UserWrites ==
  /\ conn.alive /\ conn.kept /\ User \notin now
  /\ now' = now \cup {User} /\ output' = {}
  /\ call' = Crossed(User, "output")
  /\ UNCHANGED <<durable, conn, upset>>

UserCommits ==
  /\ conn.alive /\ conn.kept
  /\ durable' = now
  /\ call' = Crossed(User, "tx")
  /\ UNCHANGED <<now, conn, output, upset>>

UserRollsBack ==
  /\ conn.alive /\ conn.kept
  /\ now' = durable
  /\ call' = Crossed(User, "tx")
  /\ UNCHANGED <<durable, conn, output, upset>>

CallsNext ==
  \/ \E c \in Calls : Begin(c) \/ StatementRuns(c)
  \/ Drop \/ UserWrites \/ UserCommits \/ UserRollsBack

-----------------------------------------------------------------------------
Answered(c, h) == call[c] # None /\ call[c].by = h /\ call[c].out = "ok"

(* No preview leaves its 5 s on the connection the user's statements run   *)
(* on (oracle.ts:3427), unless two of them overlapped: the second saves    *)
(* the limit of the first, and puts it back for good.                      *)
LimitIsRestored ==
  Previews = {} /\ conn.limit = Preview => upset.overlapped

(* An answered call has its own writes as it should, unless a commit, a    *)
(* rollback or a loss went by under it: the plan is gone, the embeddings   *)
(* are stored (oracle.ts:3149, :3282), and the lines a procedure printed   *)
(* are in its answer unless another statement read the buffer first, or    *)
(* the read of it failed, which leaves them out of an answer that is no    *)
(* error (oracle.ts:1606, :3539).                                          *)
CallsKeepTheirWrites ==
  \A c \in Calls :
    /\ Answered(c, "explainPlan") /\ "tx" \notin call[c].crossed =>
         c \notin now \cup durable
    /\ Answered(c, "embedBatch") /\ call[c].wrote /\ "tx" \notin call[c].crossed =>
         c \in durable
    /\ Answered(c, "procExecute") /\ "output" \notin call[c].crossed /\ ~call[c].unread =>
         c \in call[c].heard

CallsLeaveTheConnection == LimitIsRestored /\ CallsKeepTheirWrites

(* What README.md:343 says: every transaction requires an explicit COMMIT  *)
(* or ROLLBACK; no other call commits the user's work.                     *)
NoAutoCommit == upset.taken = {}

(* What the comment of withActiveSession says (oracle.ts:696): a call that *)
(* finds the connection gone clears the session.                           *)
LossClearsTheSession ==
  \A c \in Calls : call[c] # None /\ call[c].out # "none" /\ call[c].met => ~conn.kept

=============================================================================
