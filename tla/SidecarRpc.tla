----------------------------- MODULE SidecarRpc -----------------------------
(***************************************************************************)
(* The JSON-RPC bridge between the Rust shell and the Bun sidecar:         *)
(* src-tauri/src/sidecar.rs on one side, the dispatch loop of              *)
(* sidecar/src/index.ts on the other, two pipes between them.              *)
(*                                                                         *)
(* A caller runs call(): it takes the shared Sidecar (spawned on first     *)
(* use), registers a oneshot under a fresh id, sends the line to the       *)
(* writer task and waits on the oneshot.  The writer task moves lines into *)
(* the process' stdin; the demux task reads its stdout and resolves        *)
(* oneshots.  The process may die at any moment.                           *)
(***************************************************************************)
EXTENDS Naturals, Sequences, FiniteSets, Functions

CONSTANTS
  Calls,      \* one value per call(): the uuid of its request
  QueueCap,   \* capacity of the mpsc channel to the writer task
  PipeCap     \* how many lines fit in the stdin pipe of the process

ASSUME CapAssumption == QueueCap \in Nat \ {0} /\ PipeCap \in Nat \ {0}

VARIABLES
  proc,      \* the child process
  writer,    \* the stdin writer task: once stopped its receiver is dropped
  reader,    \* the stdout demux task
  caller,    \* caller[c]: how far call c has got
  oneshot,   \* oneshot[c]: the reply channel of call c
  pending,   \* the ids in the pending map
  queue,     \* lines in the mpsc channel, oldest first
  stdin,     \* lines in the stdin pipe
  handling,  \* requests whose handler promise is unsettled
  stdout,    \* messages in the stdout pipe
  runs,      \* history: runs[c] is how often the handler of c was started
  progress,  \* history: calls whose handler has written a notification
  emitted    \* notifications forwarded to the renderer

vars == <<proc, writer, reader, caller, oneshot, pending, queue, stdin,
          handling, stdout, runs, progress, emitted>>

hostVars == <<writer, reader, caller, oneshot, pending, queue, emitted>>
procVars == <<proc, stdin, handling, stdout, runs, progress>>

Reply(c) == [kind |-> "reply", id |-> c]
Note(c)  == [kind |-> "note", id |-> c]
Message  == [kind : {"reply", "note"}, id : Calls]

CallerStates == {"idle", "acquired", "registered", "waiting",
                 "ok", "closed", "dropped", "unavailable"}
Returned == {"ok", "closed", "dropped", "unavailable"}

TypeOK ==
  /\ proc \in {"none", "running", "dead"}
  /\ writer \in {"running", "stopped"}
  /\ reader \in {"running", "stopped"}
  /\ caller \in [Calls -> CallerStates]
  /\ oneshot \in [Calls -> {"none", "open", "answered", "dropped"}]
  /\ pending \in SUBSET Calls
  /\ queue \in Seq(Calls)
  /\ stdin \in Seq(Calls)
  /\ handling \in SUBSET Calls
  /\ stdout \in Seq(Message)
  /\ runs \in [Calls -> Nat]
  /\ progress \in SUBSET Calls
  /\ emitted \in SUBSET Calls

Init ==
  /\ proc = "none"
  /\ writer = "running"
  /\ reader = "running"
  /\ caller = [c \in Calls |-> "idle"]
  /\ oneshot = [c \in Calls |-> "none"]
  /\ pending = {}
  /\ queue = <<>>
  /\ stdin = <<>>
  /\ handling = {}
  /\ stdout = <<>>
  /\ runs = [c \in Calls |-> 0]
  /\ progress = {}
  /\ emitted = {}

Goto(c, from, to) ==
  /\ caller[c] = from
  /\ caller' = [caller EXCEPT ![c] = to]

-----------------------------------------------------------------------------
(***************************************************************************)
(* The callers.                                                            *)
(***************************************************************************)

(* acquire(): the slot is filled by the first caller and never emptied, so *)
(* a dead process is handed out again.                                     *)
Acquire(c) ==
  /\ Goto(c, "idle", "acquired")
  /\ proc' = IF proc = "none" THEN "running" ELSE proc
  /\ UNCHANGED <<writer, reader, oneshot, pending, queue, stdin, handling,
                 stdout, runs, progress, emitted>>

(* spawn() fails: -32003, the slot stays empty.                            *)
AcquireFails(c) ==
  /\ proc = "none"
  /\ Goto(c, "idle", "unavailable")
  /\ UNCHANGED <<proc, writer, reader, oneshot, pending, queue, stdin,
                 handling, stdout, runs, progress, emitted>>

Register(c) ==
  /\ Goto(c, "acquired", "registered")
  /\ oneshot' = [oneshot EXCEPT ![c] = "open"]
  /\ pending' = pending \cup {c}
  /\ UNCHANGED <<proc, writer, reader, queue, stdin, handling, stdout,
                 runs, progress, emitted>>

(* stdin_tx.send(line).await completes once the channel has room.          *)
Send(c) ==
  /\ writer = "running"
  /\ Len(queue) < QueueCap
  /\ Goto(c, "registered", "waiting")
  /\ queue' = Append(queue, c)
  /\ UNCHANGED <<proc, writer, reader, oneshot, pending, stdin, handling,
                 stdout, runs, progress, emitted>>

(* Mutation: a host-side timeout reported with the code of a closed pipe.  *)
SendTimesOut(c) ==
  /\ Goto(c, "waiting", "closed")
  /\ pending' = pending \ {c}
  /\ oneshot' = [oneshot EXCEPT ![c] = "dropped"]
  /\ UNCHANGED <<proc, writer, reader, queue, stdin, handling, stdout,
                 runs, progress, emitted>>

(* The receiver is gone: take the entry back, answer -32001.               *)
SendFails(c) ==
  /\ writer = "stopped"
  /\ Goto(c, "registered", "closed")
  /\ pending' = pending \ {c}
  /\ oneshot' = [oneshot EXCEPT ![c] = "dropped"]
  /\ UNCHANGED <<proc, writer, reader, queue, stdin, handling, stdout,
                 runs, progress, emitted>>

(* rx.await: the reply, or -32002 when the sender was dropped.             *)
Return(c) ==
  /\ \/ oneshot[c] = "answered" /\ Goto(c, "waiting", "ok")
     \/ oneshot[c] = "dropped" /\ Goto(c, "waiting", "dropped")
  /\ UNCHANGED <<proc, writer, reader, oneshot, pending, queue, stdin,
                 handling, stdout, runs, progress, emitted>>

-----------------------------------------------------------------------------
(***************************************************************************)
(* The two tasks of the shell.                                             *)
(***************************************************************************)

(* Mutation: a line that does not fit in the pipe is discarded.            *)
WriterWriteLossy ==
  /\ writer = "running"
  /\ queue # <<>>
  /\ proc = "running"
  /\ queue' = Tail(queue)
  /\ stdin' = IF Len(stdin) < PipeCap THEN Append(stdin, Head(queue))
                                      ELSE stdin
  /\ UNCHANGED <<proc, writer, reader, caller, oneshot, pending, handling,
                 stdout, runs, progress, emitted>>

WriterWrite ==
  /\ writer = "running"
  /\ queue # <<>>
  /\ proc = "running"
  /\ Len(stdin) < PipeCap
  /\ queue' = Tail(queue)
  /\ stdin' = Append(stdin, Head(queue))
  /\ UNCHANGED <<proc, writer, reader, caller, oneshot, pending, handling,
                 stdout, runs, progress, emitted>>

(* A write to the pipe of a dead process fails: the task leaves its loop,  *)
(* which drops the receiver with every line still queued.                  *)
WriterFails ==
  /\ writer = "running"
  /\ queue # <<>>
  /\ proc = "dead"
  /\ writer' = "stopped"
  /\ queue' = <<>>
  /\ UNCHANGED <<proc, reader, caller, oneshot, pending, stdin, handling,
                 stdout, runs, progress, emitted>>

(* A response line removes its id from the map and answers the oneshot; an *)
(* id that is not in the map is ignored.  A notification is re-emitted.    *)
ReaderReads ==
  /\ reader = "running"
  /\ stdout # <<>>
  /\ LET m == Head(stdout) IN
       IF m.kind = "note"
       THEN /\ emitted' = emitted \cup {m.id}
            /\ UNCHANGED <<pending, oneshot>>
       ELSE /\ pending' = pending \ {m.id}
            /\ oneshot' = IF m.id \in pending
                          THEN [oneshot EXCEPT ![m.id] = "answered"]
                          ELSE oneshot
            /\ UNCHANGED emitted
  /\ stdout' = Tail(stdout)
  /\ UNCHANGED <<proc, writer, reader, caller, queue, stdin, handling,
                 runs, progress>>

(* Mutation: the demux task ends without clearing the map.                 *)
ReaderTerminatedNoClear ==
  /\ reader = "running"
  /\ proc = "dead"
  /\ stdout = <<>>
  /\ reader' = "stopped"
  /\ UNCHANGED <<proc, writer, caller, oneshot, pending, queue, stdin,
                 handling, stdout, runs, progress, emitted>>

(* The Terminated event comes after the last output of the process: every  *)
(* entry of the map is dropped and the task ends.                          *)
ReaderTerminated ==
  /\ reader = "running"
  /\ proc = "dead"
  /\ stdout = <<>>
  /\ reader' = "stopped"
  /\ pending' = {}
  /\ oneshot' = [c \in Calls |-> IF c \in pending THEN "dropped"
                                 ELSE oneshot[c]]
  /\ UNCHANGED <<proc, writer, caller, queue, stdin, handling, stdout,
                 runs, progress, emitted>>

-----------------------------------------------------------------------------
(***************************************************************************)
(* The sidecar process.                                                    *)
(***************************************************************************)

(* Mutation: a line is dispatched and left in the buffer.                  *)
DispatchAgain ==
  /\ proc = "running"
  /\ stdin # <<>>
  /\ runs[Head(stdin)] < 2
  /\ stdin' = stdin
  /\ handling' = handling \cup {Head(stdin)}
  /\ runs' = [runs EXCEPT ![Head(stdin)] = @ + 1]
  /\ UNCHANGED <<proc, stdout, progress>>
  /\ UNCHANGED hostVars

(* main(): one line read, its handler started and not awaited.             *)
Dispatch ==
  /\ proc = "running"
  /\ stdin # <<>>
  /\ stdin' = Tail(stdin)
  /\ handling' = handling \cup {Head(stdin)}
  /\ runs' = [runs EXCEPT ![Head(stdin)] = @ + 1]
  /\ UNCHANGED <<proc, stdout, progress>>
  /\ UNCHANGED hostVars

(* A running handler pushes one notification about its own request.        *)
HandlerNotifies(c) ==
  /\ c \in handling
  /\ c \notin progress
  /\ progress' = progress \cup {c}
  /\ stdout' = Append(stdout, Note(c))
  /\ UNCHANGED <<proc, stdin, handling, runs>>
  /\ UNCHANGED hostVars

(* Mutations: a response overtakes what its handler wrote before; a        *)
(* response without an id.                                                 *)
HandlerRepliesFirst(c) ==
  /\ c \in handling
  /\ handling' = handling \ {c}
  /\ stdout' = <<Reply(c)>> \o stdout
  /\ UNCHANGED <<proc, stdin, runs, progress>>
  /\ UNCHANGED hostVars

HandlerRepliesNoId(c) ==
  /\ c \in handling
  /\ handling' = handling \ {c}
  /\ stdout' = Append(stdout, Note(c))
  /\ UNCHANGED <<proc, stdin, runs, progress>>
  /\ UNCHANGED hostVars

(* The handler settles, in any order: one response line is written.        *)
HandlerReplies(c) ==
  /\ c \in handling
  /\ handling' = handling \ {c}
  /\ stdout' = Append(stdout, Reply(c))
  /\ UNCHANGED <<proc, stdin, runs, progress>>
  /\ UNCHANGED hostVars

(* The process dies: handlers and unread input are lost, written output    *)
(* stays in the pipe for the reader.                                       *)
Die ==
  /\ proc = "running"
  /\ proc' = "dead"
  /\ stdin' = <<>>
  /\ handling' = {}
  /\ UNCHANGED <<stdout, runs, progress>>
  /\ UNCHANGED hostVars

-----------------------------------------------------------------------------
CallerNext(c) == Acquire(c) \/ AcquireFails(c) \/ Register(c) \/ Send(c)
                   \/ SendFails(c) \/ Return(c)
HostNext == WriterWrite \/ WriterFails \/ ReaderReads \/ ReaderTerminated
ProcNext == \/ Dispatch
            \/ \E c \in Calls : HandlerNotifies(c) \/ HandlerReplies(c)
            \/ Die

Next == (\E c \in Calls : CallerNext(c)) \/ HostNext \/ ProcNext

Spec == Init /\ [][Next]_vars

(***************************************************************************)
(* The async runtime polls every task that can proceed, and the handler    *)
(* promises of a live process settle; nothing makes a user issue a call    *)
(* or a process die.                                                       *)
(***************************************************************************)
Fairness ==
  /\ \A c \in Calls : /\ WF_vars(Register(c)) /\ WF_vars(SendFails(c))
                      /\ SF_vars(Send(c)) /\ WF_vars(Return(c))
  /\ WF_vars(WriterWrite) /\ WF_vars(WriterFails)
  /\ WF_vars(ReaderReads) /\ WF_vars(ReaderTerminated)
  /\ WF_vars(Dispatch)

HandlersSettle == \A c \in Calls : WF_vars(HandlerReplies(c))

FairSpec == Spec /\ Fairness
SettlingSpec == FairSpec /\ HandlersSettle

-----------------------------------------------------------------------------
(***************************************************************************)
(* Safety.                                                                 *)
(***************************************************************************)

(* As long as the demux task lives, a call whose oneshot is open is in the *)
(* map under its id, and its request has not been mislaid on the way: it   *)
(* is still queued, in a pipe, being handled, or answered in stdout -      *)
(* unless the process is dead, and then Terminated is still to come and    *)
(* will find it.                                                           *)
WaitingIsWakeable ==
  \A c \in Calls :
    (reader = "running" /\ caller[c] = "waiting" /\ oneshot[c] = "open") =>
      /\ c \in pending
      /\ \/ proc = "dead"
         \/ c \in Range(queue) \cup Range(stdin) \cup handling
         \/ Reply(c) \in Range(stdout)

(* -32001 and -32003 are safe to retry: the request did not reach the      *)
(* sidecar and is nowhere on its way there.                                *)
RefusedNeverRuns ==
  \A c \in Calls :
    caller[c] \in {"closed", "unavailable"} =>
      runs[c] = 0 /\ c \notin Range(queue) \cup Range(stdin)

(* Progress that a handler pushed (query.progress, ai.approval.request)    *)
(* reaches the renderer before the result of the same request does.        *)
ProgressBeforeResult ==
  \A c \in Calls : caller[c] = "ok" /\ c \in progress => c \in emitted

(* Every request is executed at most once, only while its caller waits,    *)
(* and the caller's answer agrees with what happened to it.                *)
Status == [c \in Calls |->
  CASE caller[c] = "idle" -> "idle"
    [] caller[c] \in {"acquired", "registered", "waiting"} -> "pending"
    [] caller[c] = "ok" -> "result"
    [] caller[c] = "dropped" -> "lost"
    [] OTHER -> "refused"]

Service == INSTANCE RpcService WITH status <- Status
ImplementsService == Service!SSpec

(***************************************************************************)
(* The inductive invariant behind these properties.                        *)
(***************************************************************************)

(* The demux task ends only after the process; without a live process      *)
(* nothing is read or handled; before it is spawned nobody has sent.       *)
ProcessInv ==
  /\ reader = "stopped" => proc = "dead"
  /\ proc # "running" => stdin = <<>> /\ handling = {}
  /\ proc = "none" => /\ queue = <<>>
                      /\ \A c \in Calls : caller[c] \in {"idle", "unavailable"}

(* The map holds exactly the open oneshots, and a oneshot follows its      *)
(* caller and its request.                                                 *)
ChannelInv ==
  \A c \in Calls :
    /\ c \in pending <=> oneshot[c] = "open"
    /\ oneshot[c] = "none" <=> caller[c] \in {"idle", "acquired", "unavailable"}
    /\ caller[c] = "ok" => oneshot[c] = "answered"
    /\ caller[c] \in {"closed", "dropped"} => oneshot[c] = "dropped"
    /\ oneshot[c] = "answered" => runs[c] = 1
    /\ oneshot[c] = "dropped" => reader = "stopped" \/ caller[c] = "closed"

(* A request runs at most once, and only after it was sent.                *)
RunsInv ==
  /\ \A c \in Calls :
       /\ runs[c] \in {0, 1}
       /\ runs[c] = 1 => caller[c] \in {"waiting", "ok", "dropped"}
  /\ \A c \in handling : runs[c] = 1
  /\ \A m \in Range(stdout) : m.kind = "reply" => runs[m.id] = 1

(* A line on its way is that of a call that was sent and has not run; no   *)
(* line is on its way twice.                                               *)
RouteInv ==
  /\ \A c \in Range(queue) \cup Range(stdin) :
       runs[c] = 0 /\ caller[c] \in {"waiting", "dropped"}
  /\ Range(queue) \cap Range(stdin) = {}
  /\ IsInjective(queue)
  /\ IsInjective(stdin)

(* While the process lives a sent request is somewhere.                    *)
NotMislaid ==
  \A c \in Calls :
    caller[c] = "waiting" /\ oneshot[c] = "open" /\ proc # "dead" =>
      \/ c \in Range(queue) \cup Range(stdin) \cup handling
      \/ Reply(c) \in Range(stdout)

IInv == ProcessInv /\ ChannelInv /\ RunsInv /\ RouteInv /\ NotMislaid

(***************************************************************************)
(* Liveness.                                                               *)
(***************************************************************************)

(* The Terminated event wakes every call that is in the map when the       *)
(* process dies, whatever its handler was doing.                           *)
DeathWakesInFlight ==
  \A c \in Calls :
    (c \in pending /\ proc = "dead" /\ reader = "running")
      ~> caller[c] \in Returned

(* With handlers that settle, a call registered while the demux task runs  *)
(* returns, even if the process dies under it.                             *)
InFlightReturns ==
  HandlersSettle =>
    \A c \in Calls :
      (c \in pending /\ reader = "running") ~> caller[c] \in Returned

(***************************************************************************)
(* What the documents say of the bridge.                                   *)
(***************************************************************************)

(* sidecar.rs 290-295: a call lasts as long as the sidecar takes, and the  *)
(* death of the process ends it with -32002.                               *)
EveryCallReturns ==
  \A c \in Calls : caller[c] = "registered" ~> caller[c] \in Returned
=============================================================================
