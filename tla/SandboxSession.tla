--------------------------- MODULE SandboxSession ---------------------------
(***************************************************************************)
(* One sandbox in the sidecar: its cache entry, its copy in sandbox-tmp,   *)
(* the registry of open sessions, the queue of its queries and the watch   *)
(* that asks the cloud whether it was revoked (sandbox-cloud/*.ts and the  *)
(* exit and startup code of index.ts).  Every map of that code is keyed by *)
(* the sandbox id, so other sandboxes are independent copies.              *)
(*                                                                         *)
(* An action is what runs between two awaits that wait for I/O.  Closing a *)
(* DuckDB host is synchronous: closeSandbox yields for one microtask only, *)
(* in which no reply can arrive, and is one action.                        *)
(*                                                                         *)
(* A cache entry is sound when its blob has the hash in its meta.json;     *)
(* which publication it holds changes nothing here.                        *)
(***************************************************************************)
EXTENDS Naturals, Sequences

CONSTANTS
  Opens,        \* sandbox.open requests
  Queries,      \* sandbox.query requests
  MaxCrashes,   \* bound: ends of the process
  None          \* no session

(* A file that is absent, whole, or cut short by a kill.                   *)
File == {"none", "sound", "torn"}

ASSUME SandboxAssumption ==
  /\ MaxCrashes \in Nat
  /\ None \notin Opens

VARIABLES
  granted,      \* the cloud: the sandbox is ready for this user
  pulling,      \* a pull has downloaded and verified the blob
  entry,        \* the cache entry: blob.vsk and meta.json
  tmp,          \* sandbox-tmp/<id>.vsk
  proc,         \* "up", or how the process ended: "killed", "exited"
  crashes,      \* ends of the process so far
  session,      \* sessions[id]: the open whose host is registered
  resultCache,  \* SESSION_RESULT_CACHE[id]: the open whose result is kept
  opc,          \* opc[o]: the await o is in, or how it ended
  host,         \* host[o]: the DuckDB host o made
  content,      \* content[o]: the blob o's host was loaded from
  watch,        \* watch[o]: the revoke watch o started
  met,          \* history: met[o]: the loads that were under way with o's
  queue,        \* queueByBox[id]: the query that runs and those that wait
  qpc,          \* qpc[q]: where q is
  qhost         \* qhost[q]: the host q runs on, named by its open

cloudVars == <<granted, pulling, entry>>
openVars == <<opc, host, content, watch, met>>
queryVars == <<queue, qpc, qhost>>
procVars == <<proc, crashes>>
vars == <<granted, pulling, entry, tmp, proc, crashes, session, resultCache,
          opc, host, content, watch, met, queue, qpc, qhost>>

OpenWaits == {"sodium", "key", "connect", "import"}
OpenEnded == {"opened", "failed", "lost"}
QueryEnded == {"notOpen", "rows", "error", "lost"}

(* TYPE  Every variable keeps its type.                                    *)
TypeOK ==
  /\ granted \in BOOLEAN /\ pulling \in BOOLEAN
  /\ entry \in File /\ tmp \in File
  /\ proc \in {"up", "killed", "exited"} /\ crashes \in 0..MaxCrashes
  /\ session \in Opens \cup {None} /\ resultCache \in Opens \cup {None}
  /\ opc \in [Opens -> {"new"} \cup OpenWaits \cup OpenEnded]
  /\ host \in [Opens -> {"none", "open", "closed"}]
  /\ content \in [Opens -> File]
  /\ watch \in [Opens -> {"off", "asked", "ready", "told", "failed"}]
  /\ met \in [Opens -> SUBSET Opens]
  /\ queue \in Seq(Queries)
  /\ qpc \in [Queries -> {"new", "waiting", "running"} \cup QueryEnded]
  /\ qhost \in [Queries -> Opens \cup {None}]
  /\ \A q \in Queries : qpc[q] \in {"waiting", "running"} => qhost[q] \in Opens

Init ==
  /\ granted = TRUE /\ pulling = FALSE
  /\ entry = "none" /\ tmp = "none"
  /\ proc = "up" /\ crashes = 0
  /\ session = None /\ resultCache = None
  /\ opc = [o \in Opens |-> "new"]
  /\ host = [o \in Opens |-> "none"]
  /\ content = [o \in Opens |-> "none"]
  /\ watch = [o \in Opens |-> "off"]
  /\ met = [o \in Opens |-> {}]
  /\ queue = <<>>
  /\ qpc = [q \in Queries |-> "new"]
  /\ qhost = [q \in Queries |-> None]

-----------------------------------------------------------------------------
(* The cloud and the cache entry.                                          *)

(* The sandbox expires, is deleted or loses its grant.                     *)
Withdraw ==
  /\ granted /\ granted' = FALSE
  /\ UNCHANGED <<pulling, entry, tmp, procVars, session, resultCache,
                 openVars, queryVars>>

(* pullSandbox has the blob and has compared it with the cloud's hash.     *)
PullDownloaded ==
  /\ proc = "up" /\ granted /\ ~pulling
  /\ pulling' = TRUE
  /\ UNCHANGED <<granted, entry, tmp, procVars, session, resultCache,
                 openVars, queryVars>>

(* writeCacheEntry writes both files without an await between them.        *)
PullWritten ==
  /\ proc = "up" /\ pulling
  /\ pulling' = FALSE /\ entry' = "sound"
  /\ UNCHANGED <<granted, tmp, procVars, session, resultCache, openVars,
                 queryVars>>

(* sandbox.leave or sandbox.delete was answered: deleted, already gone, or *)
(* refused to one who is not the owner.  Other errors clear nothing.       *)
RemoveEntry ==
  /\ proc = "up" /\ entry # "none"
  /\ entry' = "none"
  /\ UNCHANGED <<granted, pulling, tmp, procVars, session, resultCache,
                 openVars, queryVars>>

-----------------------------------------------------------------------------
(* sandbox.open                                                            *)

(* Mutation: a failure does not close the host.                            *)
FailKeepsHost(o) ==
  /\ opc' = [opc EXCEPT ![o] = "failed"]
  /\ UNCHANGED <<host, content, watch, session, resultCache>>

Fail(o) ==
  /\ opc' = [opc EXCEPT ![o] = "failed"]
  /\ host' = [host EXCEPT ![o] = IF @ = "open" THEN "closed" ELSE @]
  /\ UNCHANGED <<content, watch, session, resultCache>>

(* Mutation: the watch starts with the request, not with its answer.       *)
AnswerUnwatched(o) ==
  /\ opc' = [opc EXCEPT ![o] = "opened"]
  /\ watch' = [watch EXCEPT ![o] = IF granted THEN "asked" ELSE "told"]

(* The answer of openSandbox, and the watch handleSandboxOpen starts.      *)
Answer(o) ==
  /\ opc' = [opc EXCEPT ![o] = "opened"]
  /\ watch' = [watch EXCEPT ![o] = "asked"]

Meets(o) ==
  LET others == {p \in Opens : opc[p] \in OpenWaits} IN
  [p \in Opens |-> met[p] \cup IF p = o THEN others
                              ELSE IF p \in others THEN {o} ELSE {}]

(* Mutation: a registered session is not looked for.                       *)
OpenBegins_Unasked(o) ==
  /\ proc = "up" /\ opc[o] = "new"
  /\ \/ Fail(o) /\ UNCHANGED met
     \/ /\ opc' = [opc EXCEPT ![o] = "sodium"]
        /\ met' = Meets(o)
        /\ UNCHANGED <<host, content, watch, session, resultCache>>
  /\ UNCHANGED <<cloudVars, tmp, procVars, queryVars>>

(* The token of the request was verified: a registered session answers     *)
(* from the result cache.                                                  *)
OpenBegins(o) ==
  /\ proc = "up" /\ opc[o] = "new"
  /\ \/ Fail(o) /\ UNCHANGED met
     \/ /\ session # None /\ resultCache # None
        /\ Answer(o)
        /\ UNCHANGED <<host, content, met, session, resultCache>>
     \/ /\ session = None \/ resultCache = None
        /\ opc' = [opc EXCEPT ![o] = "sodium"]
        /\ met' = Meets(o)
        /\ UNCHANGED <<host, content, watch, session, resultCache>>
  /\ UNCHANGED <<cloudVars, tmp, procVars, queryVars>>

(* Mutation: the hash of the blob is not compared.                         *)
EntryIsThere == entry # "none"

(* readCacheEntry: both files there, the blob has the hash of the meta.    *)
EntryIsSound == entry = "sound"

OpenReadsEntry(o) ==
  /\ proc = "up" /\ opc[o] = "sodium"
  /\ IF EntryIsSound
       THEN /\ opc' = [opc EXCEPT ![o] = "key"]
            /\ UNCHANGED <<host, content, watch, session, resultCache>>
       ELSE Fail(o)
  /\ UNCHANGED <<cloudVars, tmp, procVars, met, queryVars>>

(* The private key came from the keychain, the blob was read a second time *)
(* and is copied to sandbox-tmp.  A keychain without a key, or a blob that *)
(* is gone by now, fails the open.                                         *)
OpenCopiesBlob(o) ==
  /\ proc = "up" /\ opc[o] = "key"
  /\ \/ Fail(o) /\ UNCHANGED tmp
     \/ /\ entry # "none"
        /\ tmp' = entry
        /\ opc' = [opc EXCEPT ![o] = "connect"]
        /\ UNCHANGED <<host, content, watch, session, resultCache>>
  /\ UNCHANGED <<cloudVars, procVars, met, queryVars>>

(* DuckDBHost.openInMemory returned; readEncryptedVsk reads the file of    *)
(* sandbox-tmp before its first await.  Here and below a failure closes    *)
(* the host and leaves the file.                                           *)
OpenReadsCopy(o) ==
  /\ proc = "up" /\ opc[o] = "connect"
  /\ \/ Fail(o)
     \/ /\ tmp # "none"
        /\ host' = [host EXCEPT ![o] = "open"]
        /\ content' = [content EXCEPT ![o] = tmp]
        /\ opc' = [opc EXCEPT ![o] = "import"]
        /\ UNCHANGED <<watch, session, resultCache>>
  /\ UNCHANGED <<cloudVars, tmp, procVars, met, queryVars>>

(* The blob is decrypted, imported and described.  registerSession         *)
(* replaces whatever session another open registered in the meantime.      *)
OpenRegisters(o) ==
  /\ proc = "up" /\ opc[o] = "import"
  /\ \/ Fail(o)
     \/ /\ session' = o /\ resultCache' = o
        /\ Answer(o)
        /\ UNCHANGED <<host, content>>
  /\ UNCHANGED <<cloudVars, tmp, procVars, met, queryVars>>

-----------------------------------------------------------------------------
(* sandbox.close and the revoke watch                                      *)

(* Mutation: a copy that is already gone ends the close early.             *)
CloseStopsWithoutCopy ==
  IF session = None
    THEN UNCHANGED <<host, tmp, session, resultCache>>
    ELSE /\ host' = [host EXCEPT ![session] = "closed"]
         /\ tmp' = "none"
         /\ IF tmp = "none" THEN UNCHANGED <<session, resultCache>>
                       ELSE session' = None /\ resultCache' = None

CloseSession ==
  IF session = None
    THEN UNCHANGED <<host, tmp, session, resultCache>>
    ELSE /\ host' = [host EXCEPT ![session] = "closed"]
         /\ tmp' = "none"
         /\ session' = None /\ resultCache' = None

Close ==
  /\ proc = "up"
  /\ CloseSession
  /\ UNCHANGED <<cloudVars, procVars, opc, content, watch, met, queryVars>>

(* The cloud answers the watch of o.  Any failure but "not found" or       *)
(* "gone" is dropped.                                                      *)
WatchAnswered(o) ==
  /\ proc = "up" /\ watch[o] = "asked"
  /\ \/ /\ watch' = [watch EXCEPT ![o] = "failed"]
        /\ UNCHANGED <<host, tmp, session, resultCache>>
     \/ /\ granted
        /\ watch' = [watch EXCEPT ![o] = "ready"]
        /\ UNCHANGED <<host, tmp, session, resultCache>>
     \/ /\ ~granted
        /\ watch' = [watch EXCEPT ![o] = "told"]
        /\ CloseSession
  /\ UNCHANGED <<cloudVars, procVars, opc, content, met, queryVars>>

-----------------------------------------------------------------------------
(* sandbox.query                                                           *)

QueryArrives(q) ==
  /\ proc = "up" /\ qpc[q] = "new"
  /\ IF session = None
       THEN /\ qpc' = [qpc EXCEPT ![q] = "notOpen"]
            /\ UNCHANGED <<queue, qhost>>
       ELSE /\ qpc' = [qpc EXCEPT ![q] = "waiting"]
            /\ qhost' = [qhost EXCEPT ![q] = session]
            /\ queue' = Append(queue, q)
  /\ UNCHANGED <<cloudVars, tmp, procVars, session, resultCache, openVars>>

(* Mutation: the queue is kept but not waited for.                         *)
AnyTurn(q) == \E i \in DOMAIN queue : queue[i] = q

MyTurn(q) == queue # <<>> /\ Head(queue) = q

Ends(q, answer) ==
  /\ qpc' = [qpc EXCEPT ![q] = answer]
  /\ queue' = Tail(queue)
  /\ UNCHANGED qhost

(* Mutation: only a query that ran leaves the queue.                       *)
QueryRunsKeepsTurn(q) ==
  /\ proc = "up" /\ qpc[q] = "waiting" /\ MyTurn(q)
  /\ qpc' = [qpc EXCEPT ![q] = IF host[qhost[q]] = "closed" THEN "error" ELSE "running"]
  /\ UNCHANGED <<queue, qhost>>
  /\ UNCHANGED <<cloudVars, tmp, procVars, session, resultCache, openVars>>

QueryRuns(q) ==
  /\ proc = "up" /\ qpc[q] = "waiting" /\ MyTurn(q)
  /\ IF host[qhost[q]] = "closed"
       THEN Ends(q, "error")
       ELSE /\ qpc' = [qpc EXCEPT ![q] = "running"]
            /\ UNCHANGED <<queue, qhost>>
  /\ UNCHANGED <<cloudVars, tmp, procVars, session, resultCache, openVars>>

QueryEnds(q) ==
  /\ proc = "up" /\ qpc[q] = "running"
  /\ Ends(q, "rows") \/ Ends(q, "error")
  /\ UNCHANGED <<cloudVars, tmp, procVars, session, resultCache, openVars>>

-----------------------------------------------------------------------------
(* The process.                                                            *)

(* What is lost with the process; the files stay.                          *)
ProcessEnds(how) ==
  /\ proc = "up" /\ crashes < MaxCrashes
  /\ proc' = how /\ crashes' = crashes + 1
  /\ pulling' = FALSE
  /\ session' = None /\ resultCache' = None
  /\ opc' = [o \in Opens |-> IF opc[o] \in OpenWaits THEN "lost" ELSE opc[o]]
  /\ host' = [o \in Opens |-> IF host[o] = "open" THEN "closed" ELSE host[o]]
  /\ watch' = [o \in Opens |-> IF watch[o] = "asked" THEN "failed" ELSE watch[o]]
  /\ queue' = <<>>
  /\ qpc' = [q \in Queries |-> IF qpc[q] \in {"waiting", "running"} THEN "lost" ELSE qpc[q]]
  /\ UNCHANGED <<granted, tmp, content, met, qhost>>

(* gracefulExit: clearAllSessions closes every registered host.            *)
GracefulExit == ProcessEnds("exited") /\ UNCHANGED entry

(* A kill, which may come in the middle of writeCacheEntry: within a file  *)
(* or between the two.                                                     *)
Kill ==
  /\ ProcessEnds("killed")
  /\ \/ UNCHANGED entry
     \/ pulling /\ entry' = "torn"

(* cleanupOrphanTmpFiles runs before the first request is read.            *)
Start ==
  /\ proc # "up" /\ proc' = "up"
  /\ tmp' = "none"
  /\ watch' = [o \in Opens |-> "off"]
  /\ UNCHANGED <<cloudVars, crashes, session, resultCache, opc, host,
                 content, met, queryVars>>

-----------------------------------------------------------------------------
OpenSteps(o) ==
  \/ OpenReadsEntry(o) \/ OpenCopiesBlob(o)
  \/ OpenReadsCopy(o) \/ OpenRegisters(o)

Next ==
  \/ Withdraw \/ PullDownloaded \/ PullWritten \/ RemoveEntry
  \/ \E o \in Opens : OpenBegins(o) \/ OpenSteps(o) \/ WatchAnswered(o)
  \/ Close
  \/ \E q \in Queries : QueryArrives(q) \/ QueryRuns(q) \/ QueryEnds(q)
  \/ GracefulExit \/ Kill \/ Start

Spec == Init /\ [][Next]_vars

(* Promises settle: keychain, files and DuckDB answer, a query ends.       *)
FairSpec ==
  /\ Spec
  /\ \A o \in Opens : WF_vars(OpenSteps(o))
  /\ \A q \in Queries : WF_vars(QueryRuns(q)) /\ WF_vars(QueryEnds(q))

-----------------------------------------------------------------------------
(* SAFETY  The queries of one host never overlap, as duckdb-host.ts:18     *)
(* demands of its callers, also across a close and another open.           *)
OneQueryPerHost ==
  \A p, q \in Queries :
    qpc[p] = "running" /\ qpc[q] = "running" /\ qhost[p] = qhost[q] => p = q

(* SAFETY  What the registry offers is usable: a registered host is open   *)
(* and the result cache describes that very host, whatever opens and       *)
(* closes overlapped.                                                      *)
RegistryIsLive ==
  /\ session = resultCache
  /\ session # None => host[session] = "open"

(* SAFETY  Once the frontend was told of the revocation, a session that is *)
(* still, or again, registered has a watch of its own that will close it   *)
(* unless the cloud cannot be reached.                                     *)
ToldMeansClosed ==
  (\E o \in Opens : watch[o] = "told") /\ session # None
    => watch[session] \in {"asked", "failed"}

(* SAFETY  A cache entry that a kill left half written never leaves the    *)
(* cache: no open copies or loads a torn blob.                             *)
TornBlobIsCaught ==
  tmp # "torn" /\ \A o \in Opens : content[o] # "torn"

(* SAFETY  A host is left open without a session only if another load was  *)
(* under way together with its own and succeeded, so that one replaced the *)
(* other (open.ts:52, :126).  Opens one after the other, an open that      *)
(* fails, even beside another, a close and a revocation leave none behind. *)
OnlyOverlapLeaksHosts ==
  \A o \in Opens : host[o] = "open" /\ session # o /\ opc[o] \notin OpenWaits =>
    \E p \in met[o] : opc[p] = "opened" /\ host[p] # "none"

(* LIVENESS  Every open and every query is answered, or the process ends:  *)
(* the queue of queries goes on after an error and after a close.          *)
EveryCallSettles ==
  /\ \A o \in Opens : opc[o] \in OpenWaits ~> opc[o] \in OpenEnded
  /\ \A q \in Queries : qpc[q] = "waiting" ~> qpc[q] \in QueryEnded

(* CLAIM (index.ts:348)  A graceful exit drops the open sessions "and      *)
(* remove[s] their decrypted tmp files".                                   *)
ExitRemovesCopies ==
  [][proc' = "exited" /\ session # None => tmp' = "none"]_vars
=============================================================================
