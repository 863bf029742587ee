------------------------ MODULE SandboxSessionProofs ------------------------
(***************************************************************************)
(* Proofs about SandboxSession, for any number of opens, queries and ends  *)
(* of the process.                                                         *)
(***************************************************************************)
EXTENDS SandboxSession, TLAPS

(* The registered session belongs to an open that ended well, and an open  *)
(* that imports owns an open host.                                         *)
OwnersInv ==
  /\ session # None => opc[session] = "opened"
  /\ \A o \in Opens : opc[o] = "import" => host[o] = "open"

(* A query runs only at the head of the queue.                             *)
TurnInv == \A q \in Queries : qpc[q] = "running" => MyTurn(q)

(* The frontend is told only of what the cloud has withdrawn.              *)
ToldInv == \A o \in Opens : watch[o] = "told" => ~granted

(* Past the check of its hash an open finds no torn entry: only a kill     *)
(* tears one, and a kill ends the open.                                    *)
SoundInv == \A o \in Opens : opc[o] = "key" => entry # "torn"

(* Loads that are under way together have met, and a load that is under    *)
(* way beside a session began before the session was registered.           *)
MetInv ==
  /\ \A o, p \in Opens : o # p /\ opc[o] \in OpenWaits /\ opc[p] \in OpenWaits => p \in met[o]
  /\ session # None => \A p \in Opens : opc[p] \in OpenWaits => p \in met[session]

SessionInv ==
  /\ MetInv /\ OwnersInv /\ ToldInv /\ SoundInv /\ RegistryIsLive
  /\ ToldMeansClosed /\ TornBlobIsCaught /\ OnlyOverlapLeaksHosts

-----------------------------------------------------------------------------
LEMMA NoQueries == <<>> \in Seq(Queries)
  OBVIOUS

(* Every variable stays within its type, and the query that runs is the    *)
(* head of the queue: popping the head is popping that query.              *)
LEMMA TypeAndTurn == Spec => [](TypeOK /\ TurnInv)
<1>1. Init => TypeOK /\ TurnInv
  <2>1. ASSUME Init PROVE TypeOK
    <3>1. crashes \in 0..MaxCrashes /\ queue \in Seq(Queries)
      BY <2>1, SandboxAssumption, NoQueries DEF Init
    <3>2. QED BY <2>1, <3>1 DEF Init, TypeOK, File, QueryEnded
  <2>2. ASSUME Init PROVE TurnInv
    BY <2>2 DEF Init, TurnInv
  <2>3. QED BY <2>1, <2>2
<1>2. TypeOK /\ TurnInv /\ [Next]_vars => TypeOK' /\ TurnInv'
  <2> SUFFICES ASSUME TypeOK, TurnInv, [Next]_vars PROVE TypeOK' /\ TurnInv'
    OBVIOUS
  <2> USE DEF TypeOK, TurnInv, MyTurn, File, OpenWaits, OpenEnded, QueryEnded,
              cloudVars, openVars, queryVars, procVars
  <2>1. CASE Withdraw BY <2>1 DEF Withdraw
  <2>2. CASE PullDownloaded BY <2>2 DEF PullDownloaded
  <2>3. CASE PullWritten BY <2>3 DEF PullWritten
  <2>4. CASE RemoveEntry BY <2>4 DEF RemoveEntry
  <2>5. ASSUME NEW o \in Opens, OpenBegins(o) PROVE TypeOK' /\ TurnInv'
    BY <2>5 DEF OpenBegins, Meets, Fail, Answer
  <2>6. ASSUME NEW o \in Opens, OpenReadsEntry(o) PROVE TypeOK' /\ TurnInv'
    BY <2>6 DEF OpenReadsEntry, Fail
  <2>7. ASSUME NEW o \in Opens, OpenCopiesBlob(o) PROVE TypeOK' /\ TurnInv'
    BY <2>7 DEF OpenCopiesBlob, Fail
  <2>8. ASSUME NEW o \in Opens, OpenReadsCopy(o) PROVE TypeOK' /\ TurnInv'
    BY <2>8 DEF OpenReadsCopy, Fail
  <2>9. ASSUME NEW o \in Opens, OpenRegisters(o) PROVE TypeOK' /\ TurnInv'
    BY <2>9 DEF OpenRegisters, Fail, Answer
  <2>10. ASSUME NEW o \in Opens, WatchAnswered(o) PROVE TypeOK' /\ TurnInv'
    BY <2>10 DEF WatchAnswered, CloseSession
  <2>11. CASE Close BY <2>11 DEF Close, CloseSession
  <2>12. ASSUME NEW q \in Queries, QueryArrives(q) PROVE TypeOK' /\ TurnInv'
    <3>1. /\ Append(queue, q) \in Seq(Queries)
          /\ queue # <<>> => /\ Append(queue, q) # <<>>
                             /\ Head(Append(queue, q)) = Head(queue)
      OBVIOUS
    <3>2. queue' \in Seq(Queries)
      BY <2>12, <3>1 DEF QueryArrives
    <3>3. /\ qpc' \in [Queries -> {"new", "waiting", "running"} \cup QueryEnded]
          /\ qhost' \in [Queries -> Opens \cup {None}]
          /\ \A p \in Queries :
               qpc'[p] \in {"waiting", "running"} => qhost'[p] \in Opens
      <4>1. CASE session = None BY <2>12, <4>1 DEF QueryArrives
      <4>2. CASE session # None BY <2>12, <4>2 DEF QueryArrives
      <4>3. QED BY <4>1, <4>2
    <3>4. UNCHANGED <<granted, pulling, entry, tmp, proc, crashes, session,
                   resultCache, opc, host, content, watch, met>>
      BY <2>12 DEF QueryArrives
    <3>5. TypeOK' BY <3>2, <3>3, <3>4
    <3>6. TurnInv' BY <2>12, <3>1 DEF QueryArrives
    <3>7. QED BY <3>5, <3>6
  <2>13. ASSUME NEW q \in Queries, QueryRuns(q) PROVE TypeOK' /\ TurnInv'
    <3>1. queue # <<>> /\ Tail(queue) \in Seq(Queries)
      BY <2>13 DEF QueryRuns
    <3>2. queue' \in Seq(Queries)
      BY <2>13, <3>1 DEF QueryRuns, Ends
    <3>3. /\ qpc' \in [Queries -> {"new", "waiting", "running"} \cup QueryEnded]
          /\ UNCHANGED qhost
          /\ \A p \in Queries :
               qpc'[p] \in {"waiting", "running"} => qhost'[p] \in Opens
      <4>1. UNCHANGED qhost /\ qpc[q] = "waiting"
        BY <2>13 DEF QueryRuns, Ends
      <4>2. \E a \in {"running", "error"} : qpc' = [qpc EXCEPT ![q] = a]
        BY <2>13 DEF QueryRuns, Ends
      <4>3. QED BY <4>1, <4>2
    <3>4. UNCHANGED <<granted, pulling, entry, tmp, proc, crashes, session,
                   resultCache, opc, host, content, watch, met>>
      BY <2>13 DEF QueryRuns
    <3>5. TypeOK' BY <3>2, <3>3, <3>4
    <3>6. TurnInv' BY <2>13 DEF QueryRuns, Ends
    <3>7. QED BY <3>5, <3>6
  <2>14. ASSUME NEW q \in Queries, QueryEnds(q) PROVE TypeOK' /\ TurnInv'
    <3>1. queue # <<>> /\ Tail(queue) \in Seq(Queries)
      BY <2>14 DEF QueryEnds
    <3>2. /\ queue' \in Seq(Queries) /\ UNCHANGED qhost
          /\ \E a \in {"rows", "error"} : qpc' = [qpc EXCEPT ![q] = a]
      BY <2>14, <3>1 DEF QueryEnds, Ends
    <3>3. /\ qpc' \in [Queries -> {"new", "waiting", "running"} \cup QueryEnded]
          /\ \A p \in Queries :
               qpc'[p] \in {"waiting", "running"} => qhost'[p] \in Opens
      BY <3>2
    <3>4. UNCHANGED <<granted, pulling, entry, tmp, proc, crashes, session,
                      resultCache, opc, host, content, watch, met>>
      BY <2>14 DEF QueryEnds
    <3>5. TypeOK' BY <3>2, <3>3, <3>4
    <3>6. TurnInv' BY <2>14 DEF QueryEnds, Ends
    <3>7. QED BY <3>5, <3>6
  <2>15. CASE GracefulExit
    <3>1. crashes + 1 \in 0..MaxCrashes
      BY <2>15, SandboxAssumption DEF GracefulExit, ProcessEnds
    <3>2. TypeOK' BY <2>15, <3>1, NoQueries DEF GracefulExit, ProcessEnds
    <3>3. TurnInv' BY <2>15 DEF GracefulExit, ProcessEnds
    <3>4. QED BY <3>2, <3>3
  <2>16. CASE Kill
    <3>1. crashes + 1 \in 0..MaxCrashes
      BY <2>16, SandboxAssumption DEF Kill, ProcessEnds
    <3>2. TypeOK' BY <2>16, <3>1, NoQueries DEF Kill, ProcessEnds
    <3>3. TurnInv' BY <2>16 DEF Kill, ProcessEnds
    <3>4. QED BY <3>2, <3>3
  <2>17. CASE Start BY <2>17 DEF Start
  <2>18. CASE UNCHANGED vars BY <2>18 DEF vars
  <2>19. QED
    BY <2>1, <2>2, <2>3, <2>4, <2>5, <2>6, <2>7, <2>8, <2>9, <2>10, <2>11,
       <2>12, <2>13, <2>14, <2>15, <2>16, <2>17, <2>18 DEF Next, OpenSteps
<1>3. QED BY <1>1, <1>2, PTL DEF Spec

(* Every variable stays within its type, for any number of opens, queries  *)
(* and ends of the process.                                                *)
THEOREM SandboxTypeCorrect == Spec => []TypeOK
BY TypeAndTurn, PTL

(* Queries of one host never overlap: whatever closed or replaced the      *)
(* session in between, only the head of the one queue of the sandbox runs. *)
THEOREM QueriesNeverOverlap == Spec => []OneQueryPerHost
<1>1. TurnInv => OneQueryPerHost
  BY DEF TurnInv, OneQueryPerHost, MyTurn
<1>2. QED BY <1>1, TypeAndTurn, PTL

-----------------------------------------------------------------------------
(* The registry, the hosts and the watches.  One step per action; under    *)
(* the actions that move a session, one per part of the invariant.         *)
LEMMA SessionInvariance == Spec => []SessionInv
<1>1. Init => SessionInv
  BY SandboxAssumption DEF Init, SessionInv, MetInv, OwnersInv, ToldInv, SoundInv, OpenWaits,
     RegistryIsLive, ToldMeansClosed, TornBlobIsCaught, OnlyOverlapLeaksHosts
<1>2. TypeOK /\ SessionInv /\ [Next]_vars => SessionInv'
  <2> SUFFICES ASSUME TypeOK, SessionInv, [Next]_vars PROVE SessionInv'
    OBVIOUS
  <2> USE SandboxAssumption DEF TypeOK, SessionInv, MetInv, OwnersInv, ToldInv,
         SoundInv,
      RegistryIsLive, ToldMeansClosed, TornBlobIsCaught, OnlyOverlapLeaksHosts,
      File, OpenWaits, OpenEnded, cloudVars, openVars, queryVars, procVars
  <2>1. CASE Withdraw BY <2>1 DEF Withdraw
  <2>2. CASE PullDownloaded BY <2>2 DEF PullDownloaded
  <2>3. CASE PullWritten BY <2>3 DEF PullWritten
  <2>4. CASE RemoveEntry BY <2>4 DEF RemoveEntry
  <2>5. ASSUME NEW o \in Opens, OpenBegins(o) PROVE SessionInv'
    <3>1. OwnersInv' BY <2>5 DEF OpenBegins, Meets, Fail, Answer
    <3>2. ToldInv' BY <2>5 DEF OpenBegins, Meets, Fail, Answer
    <3>3. SoundInv' BY <2>5 DEF OpenBegins, Meets, Fail, Answer
    <3>4. RegistryIsLive' BY <2>5 DEF OpenBegins, Meets, Fail, Answer
    <3>5. ToldMeansClosed' BY <2>5 DEF OpenBegins, Meets, Fail, Answer
    <3>6. TornBlobIsCaught' BY <2>5 DEF OpenBegins, Meets, Fail, Answer
    <3>7. OnlyOverlapLeaksHosts'
      <4>1. CASE UNCHANGED <<session, met>> /\ Fail(o)
        BY <2>5, <4>1 DEF OpenBegins, Fail
      <4>2. CASE UNCHANGED <<session, met, host>> /\ Answer(o)
        BY <2>5, <4>2 DEF OpenBegins, Answer
      <4>3. CASE /\ opc' = [opc EXCEPT ![o] = "sodium"]
                 /\ met' = Meets(o)
                 /\ UNCHANGED <<host, session>>
        <5>1. \A x \in Opens : met[x] \subseteq met'[x]
          BY <4>3 DEF Meets
        <5>2. opc[o] = "new" /\ opc'[o] = "sodium"
          BY <2>5, <4>3 DEF OpenBegins
        <5>3. \A x \in Opens : x # o => opc'[x] = opc[x]
          BY <4>3
        <5> HIDE DEF MetInv, OwnersInv, ToldInv, SoundInv, RegistryIsLive,
                     ToldMeansClosed, TornBlobIsCaught
        <5>4. ASSUME NEW x \in Opens, host'[x] = "open", session' # x,
                     opc'[x] \notin OpenWaits
              PROVE \E p \in met'[x] : opc'[p] = "opened" /\ host'[p] # "none"
          <6>1. x # o BY <5>2, <5>4
          <6>2. host[x] = "open" /\ session # x /\ opc[x] \notin OpenWaits
            BY <4>3, <5>3, <5>4, <6>1
          <6>3. PICK p \in met[x] : opc[p] = "opened" /\ host[p] # "none"
            BY <6>2
          <6>4. p \in Opens /\ p # o BY <5>2, <6>3
          <6>5. QED BY <4>3, <5>1, <5>3, <6>3, <6>4
        <5>5. QED BY <5>4
      <4>4. QED BY <2>5, <4>1, <4>2, <4>3 DEF OpenBegins, Fail
    <3>8. MetInv' BY <2>5 DEF OpenBegins, Meets, Fail, Answer
    <3>9. QED BY <3>1, <3>2, <3>3, <3>4, <3>5, <3>6, <3>7, <3>8
  <2>6. ASSUME NEW o \in Opens, OpenReadsEntry(o) PROVE SessionInv'
    <3>1. OwnersInv' BY <2>6 DEF OpenReadsEntry, Fail, EntryIsSound
    <3>2. ToldInv' BY <2>6 DEF OpenReadsEntry, Fail, EntryIsSound
    <3>3. SoundInv' BY <2>6 DEF OpenReadsEntry, Fail, EntryIsSound
    <3>4. RegistryIsLive' BY <2>6 DEF OpenReadsEntry, Fail, EntryIsSound
    <3>5. ToldMeansClosed' BY <2>6 DEF OpenReadsEntry, Fail, EntryIsSound
    <3>6. TornBlobIsCaught' BY <2>6 DEF OpenReadsEntry, Fail, EntryIsSound
    <3>7. OnlyOverlapLeaksHosts' BY <2>6 DEF OpenReadsEntry, Fail, EntryIsSound
    <3>8. MetInv' BY <2>6 DEF OpenReadsEntry, Fail, EntryIsSound
    <3>9. QED BY <3>1, <3>2, <3>3, <3>4, <3>5, <3>6, <3>7, <3>8
  <2>7. ASSUME NEW o \in Opens, OpenCopiesBlob(o) PROVE SessionInv'
    <3>1. OwnersInv' BY <2>7 DEF OpenCopiesBlob, Fail
    <3>2. ToldInv' BY <2>7 DEF OpenCopiesBlob, Fail
    <3>3. SoundInv' BY <2>7 DEF OpenCopiesBlob, Fail
    <3>4. RegistryIsLive' BY <2>7 DEF OpenCopiesBlob, Fail
    <3>5. ToldMeansClosed' BY <2>7 DEF OpenCopiesBlob, Fail
    <3>6. TornBlobIsCaught' BY <2>7 DEF OpenCopiesBlob, Fail
    <3>7. OnlyOverlapLeaksHosts' BY <2>7 DEF OpenCopiesBlob, Fail
    <3>8. MetInv' BY <2>7 DEF OpenCopiesBlob, Fail
    <3>9. QED BY <3>1, <3>2, <3>3, <3>4, <3>5, <3>6, <3>7, <3>8
  <2>8. ASSUME NEW o \in Opens, OpenReadsCopy(o) PROVE SessionInv'
    <3>1. OwnersInv' BY <2>8 DEF OpenReadsCopy, Fail
    <3>2. ToldInv' BY <2>8 DEF OpenReadsCopy, Fail
    <3>3. SoundInv' BY <2>8 DEF OpenReadsCopy, Fail
    <3>4. RegistryIsLive' BY <2>8 DEF OpenReadsCopy, Fail
    <3>5. ToldMeansClosed' BY <2>8 DEF OpenReadsCopy, Fail
    <3>6. TornBlobIsCaught' BY <2>8 DEF OpenReadsCopy, Fail
    <3>7. OnlyOverlapLeaksHosts' BY <2>8 DEF OpenReadsCopy, Fail
    <3>8. MetInv' BY <2>8 DEF OpenReadsCopy, Fail
    <3>9. QED BY <3>1, <3>2, <3>3, <3>4, <3>5, <3>6, <3>7, <3>8
  <2>9. ASSUME NEW o \in Opens, OpenRegisters(o) PROVE SessionInv'
    <3>1. OwnersInv' BY <2>9 DEF OpenRegisters, Fail, Answer
    <3>2. ToldInv' BY <2>9 DEF OpenRegisters, Fail, Answer
    <3>3. SoundInv' BY <2>9 DEF OpenRegisters, Fail, Answer
    <3>4. RegistryIsLive' BY <2>9 DEF OpenRegisters, Fail, Answer
    <3>5. ToldMeansClosed' BY <2>9 DEF OpenRegisters, Fail, Answer
    <3>6. TornBlobIsCaught' BY <2>9 DEF OpenRegisters, Fail, Answer
    <3>7. OnlyOverlapLeaksHosts' BY <2>9 DEF OpenRegisters, Fail, Answer
    <3>8. MetInv' BY <2>9 DEF OpenRegisters, Fail, Answer
    <3>9. QED BY <3>1, <3>2, <3>3, <3>4, <3>5, <3>6, <3>7, <3>8
  <2>10. ASSUME NEW o \in Opens, WatchAnswered(o) PROVE SessionInv'
    <3>1. OwnersInv' BY <2>10 DEF WatchAnswered, CloseSession
    <3>2. ToldInv' BY <2>10 DEF WatchAnswered, CloseSession
    <3>3. SoundInv' BY <2>10 DEF WatchAnswered, CloseSession
    <3>4. RegistryIsLive' BY <2>10 DEF WatchAnswered, CloseSession
    <3>5. ToldMeansClosed' BY <2>10 DEF WatchAnswered, CloseSession
    <3>6. TornBlobIsCaught' BY <2>10 DEF WatchAnswered, CloseSession
    <3>7. OnlyOverlapLeaksHosts' BY <2>10 DEF WatchAnswered, CloseSession
    <3>8. MetInv' BY <2>10 DEF WatchAnswered, CloseSession
    <3>9. QED BY <3>1, <3>2, <3>3, <3>4, <3>5, <3>6, <3>7, <3>8
  <2>11. CASE Close
    <3>1. OwnersInv' BY <2>11 DEF Close, CloseSession
    <3>2. ToldInv' BY <2>11 DEF Close, CloseSession
    <3>3. SoundInv' BY <2>11 DEF Close, CloseSession
    <3>4. RegistryIsLive' BY <2>11 DEF Close, CloseSession
    <3>5. ToldMeansClosed' BY <2>11 DEF Close, CloseSession
    <3>6. TornBlobIsCaught' BY <2>11 DEF Close, CloseSession
    <3>7. OnlyOverlapLeaksHosts' BY <2>11 DEF Close, CloseSession
    <3>8. MetInv' BY <2>11 DEF Close, CloseSession
    <3>9. QED BY <3>1, <3>2, <3>3, <3>4, <3>5, <3>6, <3>7, <3>8
  <2>12. ASSUME NEW q \in Queries, QueryArrives(q) PROVE SessionInv'
    BY <2>12 DEF QueryArrives
  <2>13. ASSUME NEW q \in Queries, QueryRuns(q) PROVE SessionInv'
    BY <2>13 DEF QueryRuns
  <2>14. ASSUME NEW q \in Queries, QueryEnds(q) PROVE SessionInv'
    BY <2>14 DEF QueryEnds
  <2>15. CASE GracefulExit
    <3>1. OwnersInv' BY <2>15 DEF GracefulExit, ProcessEnds
    <3>2. ToldInv' BY <2>15 DEF GracefulExit, ProcessEnds
    <3>3. SoundInv' BY <2>15 DEF GracefulExit, ProcessEnds
    <3>4. RegistryIsLive' BY <2>15 DEF GracefulExit, ProcessEnds
    <3>5. ToldMeansClosed' BY <2>15 DEF GracefulExit, ProcessEnds
    <3>6. TornBlobIsCaught' BY <2>15 DEF GracefulExit, ProcessEnds
    <3>7. OnlyOverlapLeaksHosts' BY <2>15 DEF GracefulExit, ProcessEnds
    <3>8. MetInv' BY <2>15 DEF GracefulExit, ProcessEnds
    <3>9. QED BY <3>1, <3>2, <3>3, <3>4, <3>5, <3>6, <3>7, <3>8
  <2>16. CASE Kill
    <3>1. OwnersInv' BY <2>16 DEF Kill, ProcessEnds
    <3>2. ToldInv' BY <2>16 DEF Kill, ProcessEnds
    <3>3. SoundInv' BY <2>16 DEF Kill, ProcessEnds
    <3>4. RegistryIsLive' BY <2>16 DEF Kill, ProcessEnds
    <3>5. ToldMeansClosed' BY <2>16 DEF Kill, ProcessEnds
    <3>6. TornBlobIsCaught' BY <2>16 DEF Kill, ProcessEnds
    <3>7. OnlyOverlapLeaksHosts' BY <2>16 DEF Kill, ProcessEnds
    <3>8. MetInv' BY <2>16 DEF Kill, ProcessEnds
    <3>9. QED BY <3>1, <3>2, <3>3, <3>4, <3>5, <3>6, <3>7, <3>8
  <2>17. CASE Start BY <2>17 DEF Start
  <2>18. CASE UNCHANGED vars BY <2>18 DEF vars
  <2>19. QED
    BY <2>1, <2>2, <2>3, <2>4, <2>5, <2>6, <2>7, <2>8, <2>9, <2>10, <2>11,
       <2>12, <2>13, <2>14, <2>15, <2>16, <2>17, <2>18 DEF Next, OpenSteps
<1>3. QED BY <1>1, <1>2, SandboxTypeCorrect, PTL DEF Spec

(* The registry never offers a closed host, however opens, closes and      *)
(* revocations overlap.                                                    *)
THEOREM RegistryStaysLive == Spec => []RegistryIsLive
<1>1. SessionInv => RegistryIsLive BY DEF SessionInv
<1>2. QED BY <1>1, SessionInvariance, PTL

(* After the frontend was told of a revocation no session stays open       *)
(* unless its own watch is still out or could not reach the cloud.         *)
THEOREM RevokedIsClosed == Spec => []ToldMeansClosed
<1>1. SessionInv => ToldMeansClosed BY DEF SessionInv
<1>2. QED BY <1>1, SessionInvariance, PTL

(* No half-written cache entry is ever copied or loaded.                   *)
THEOREM TornBlobsStayInCache == Spec => []TornBlobIsCaught
<1>1. SessionInv => TornBlobIsCaught BY DEF SessionInv
<1>2. QED BY <1>1, SessionInvariance, PTL

(* A host is left without a session only by a load that succeeded beside   *)
(* another one that did: opens in sequence, failures, closes and           *)
(* revocations release every host.                                         *)
THEOREM HostsAreReleased == Spec => []OnlyOverlapLeaksHosts
<1>1. SessionInv => OnlyOverlapLeaksHosts BY DEF SessionInv
<1>2. QED BY <1>1, SessionInvariance, PTL
=============================================================================
