# Veesker: TLA+ models, checks and proofs

Veesker is a desktop IDE for Oracle. Three programs cooperate:

```
 Svelte frontend  --Tauri commands-->  Rust shell (src-tauri)  --JSON-RPC-->  Bun sidecar
 (src/src)        <----events-------   process, audit log,     <-- stdin /    (src/sidecar)
                                       local stores, keychain      stdout -->  Oracle, DuckDB, cloud
```

The Rust shell keeps credentials, local files and the audit log, and forwards most commands
as one JSON-RPC request to a child process, the *sidecar*. The sidecar is one JavaScript
event loop: every request is a handler that runs from `await` to `await`, interleaved with
all the others, over a few module-level variables (the Oracle session, the running query,
the debug session, the open sandboxes). The frontend is a second such loop, whose stores and
components go on after every answer with whatever the user has done meanwhile. The shell is
multi-threaded: its commands are tasks that take one lock at a time. That is where this
system is hard: in none of the three do two steps run at once on the same data, and almost
any two operations can overlap.

This directory models the parts whose correctness depends on such overlaps, on failures in
the middle of an operation, and on the death of a process. `PROJECT.json` says which lines
of `src/` each definition stands for, and lists the hazards of the code at their lines.

## How to run

    tlc -workers 2 -config rpc_safety.cfg SidecarRpc       # model-check
    tlapm SidecarRpcProofs.tla                             # check the proofs

Every `.cfg` belongs to the module named in the table of runs below. The modules need only
the standard modules, the community modules and the TLAPS library.

## Modules

| Module | What it is |
|---|---|
| **Bridge and Rust shell** | |
| `RpcService` | what a caller may expect of the sidecar: a call is executed at most once, and its answer agrees with whether it was |
| `SidecarRpc` | the bridge that implements it: callers, pending map, channel, writer and demux tasks, two pipes, the process |
| `AuditChain` | the hash-chained audit log and its verifier |
| `Workspace` | the cells that say which session is open, the tray, and the page that opens and closes it |
| `Commands` | every Tauri command as the sequence of its steps |
| `ConnectionStore`, `StoreFile` | saved connections; the encrypted file they are in, its keys and migrations |
| `ObjectVersions` | the git repository and the rows of the versions of database objects |
| **Sidecar** | |
| `OracleSession` | the Oracle session: opening, closing, queries, safety checks, transactions, embeddings |
| `SharedCalls` | the other calls on the workspace's connection, beside each other and the user's statements |
| `DebugSession` | the PL/SQL debugger and the procedure trace |
| `SandboxSession` | an open sandbox: cache, copy, DuckDB host, query queue, revocation |
| `SandboxBuild`, `SandboxPublish` | building a sandbox from a schema; the keys and the publication |
| **Frontend** | |
| `SqlEditor` | the editor's store: tabs, runs, questions, the view of the transaction |
| `EditorDocument` | a tab's text, its file and what its object's history is given |
| `CommandWindow` | parser, scripts, executor and history of the command window |
| `ObjectPanes`, `LivePanels`, `SchemaBrowser`, `RestPanels` | the inspector; panels that keep asking; the tree of schemas; the REST dialogs |
| `DebugPanel`, `SandboxList`, `SandboxDraft` | the debugger's window; the cards of the sandboxes; the publish wizard |
| `Assistant`, `CloudSession` | the assistant and its charts; sign-in and the upload of the audit |
| **Instances for TLC** | `MCOracleSession`, `MCSqlEditor`, `MCSandboxSession`, `MCWorkspace`, `MCBackend`, `MCServices` |
| **Proofs** | `SidecarRpcProofs`, `BackendProofs`, `OracleSessionProofs`, `SandboxSessionProofs`, `DebugSessionProofs`, `SqlEditorProofs`, `WorkspaceProofs`, `ServicesProofs` |

The components meet as follows. `SidecarRpc` carries every request to the sidecar; it shows
that a request that was sent runs at most once and that its handlers interleave freely,
which is what the other modules assume of the requests that reach them. `Workspace` and
`SqlEditor` see the sidecar as the queue of its calls and what they answer; `OracleSession`
models what it does inside, `SharedCalls` what else uses its connection. `AuditChain` writes
the row `Workspace` names. `Commands` ends where a store or a sidecar call begins.
`DebugPanel` has the session of `DebugSession` reduced to what the window sees,
`SandboxList` the cache `SandboxSession` opens from, and `SandboxDraft` the closure that
`SandboxBuild` shows its walks to compute. `EditorDocument` has the `ObjectVersions` its
captures go to. Modules that share no state are checked in one run, one at a time: the
variable `part` of `MCBackend`, `MCServices`, `MCWorkspace` and `MCSandboxSession` says
which of them acts, and the others stay in their initial states.

### `SidecarRpc` and `RpcService` (sidecar.rs, index.ts, rpc.ts, notifications.ts)

State: the child process; the two Tokio tasks; per call how far its `call()` got, its
oneshot and its entry in the `pending` map; the bounded channel to the writer; the pipe to
stdin; the handlers that have not settled; the pipe from stdout. Actions follow a call:
`Acquire`, `Register`, `Send` (waits for room in the channel), `WriterWrite` (waits for room
in the pipe), `Dispatch` (the handler starts, nobody waits for it), `HandlerNotifies`,
`HandlerReplies`, `ReaderReads`, `Return`. Failures: the spawn fails, the writer meets a
broken pipe and drops its receiver (`WriterFails`, after which `SendFails`), the process
dies anywhere (`Die`), and the demux task sees it only later (`ReaderTerminated`, which
clears the map). The slot of `acquire()` is never emptied, so calls made after a death still
get the dead process: that is in the model. Lines are abstracted to the id of their request.

`RpcService` promises: a call that was issued is pending, and then has a result
(then it ran exactly once), was lost (ran at most once) or refused (never ran, never will).
`SidecarRpc!Status` is the refinement mapping.

### `AuditChain` (commands.rs: write_audit_entry, verify_chain_file; audit/chain.rs; crypto.rs)

State: the date, the run of the process, the HMAC key in the keychain, the in-memory link
(`prev_hash_guard`), the file of each day. A write takes its date and time *before* the
mutex (`Stamp`) and does the rest under it (`Write`, `OpenFails`, `WriteCutShort`): that gap
is what midnight and other writers get into. The keychain may refuse the HMAC key (the line
becomes `no-chain` and the link empty) or the cipher key (the line stays in clear).
`Restart` forgets the link, `LoseKey` makes the keychain generate another key. `LoseCipher`
is a refused *read* of the cipher key: a new one is made and stored over it
(crypto.rs:163-178), and what was sealed under the former one is unreadable from then on;
every line keeps the number of the key that sealed it. `Verify` is the verifier as a
recursive function over the lines of a file. An hmac is named by the entry it covers,
because bodies contain their timestamp and are unique.

`causes[d]` records which of the known disturbances (missing key, midnight, torn line, new
key, and `resealed`: a new cipher key) met file `d`. The safety properties speak of the files
without any, and of what a torn line or a replaced cipher key may cost.

### `Workspace` (commands.rs: workspace_open, workspace_close, query_execute; tray.rs; the workspace page)

State: whether the sidecar is up and its writer task with it, its session and the queue of
its lock; the four cells (`ActiveConnection`, `ActiveSessionEnv`, `AirGapState`,
`PsdpmState`); the tray's menu; the page; the tasks. `workspace_open`, `workspace_close` and
the tray's Disconnect are tasks that send their call (`CallSent`), are answered
(`SessionReplaced`, `OpenSucceeds`, `OpenFails`, `Closes`), and then write one cell after
the other (`CellWritten`, `TrayUpdated`), each under its own lock and none under a lock that
spans them. The sidecar may die or lose its session (`SidecarDies`, `SessionLost`). A call
that is sent after the demux task cleared the map and before the writer task ends
(`WriterEnds`) is never answered (`CallUnanswered`); after that every call fails at once
(`CallFails`); the page notices a loss and reconnects (`LostSeen`, `Reconnect`). Choosing
another connection in the tray while a workspace page is mounted keeps the component, which
does not open anything (`RouteReplaced`). A statement's audit row reads two cells after the
statement (`QuerySent`, `RowNamed`, `RowWritten`). History: `overlapped`, set when two tasks
are under way at once, and a statement's `moved`, set when a cell or the session changes
between it and its row.

### `OracleSession` (oracle.ts, state.ts, sql-kind.ts, errors.ts)

State: `currentSession`, the session mutex as a queue, the count of pending statements, the
one-shot window for sweeping DML, the running query, and per connection the queue of calls
that the driver serialises. An action is a piece of a handler between two awaits.
`workspace.open` goes through `AskLock`, `CloseFirst`, `Closed`, `Built`, `Booted`,
`Enabled`, with its failure branches; `query.execute` checks the whole batch first
(`QueryRefused`, `QueryBegins`; `TakesWindow`, `Passes`, `Granted` and `Checked` say what the
checks of a batch come to) and then *takes the session anew for each statement*
(`NextStmt`), consults the database for an open transaction after those that may have
changed something (`Synced`), and stops on the first error or a cancel. `query.cancel`,
`unlockUnsafeDml`, commit, rollback, the transaction query and `embed.batch`, which keeps a
connection across calls to an HTTP service, run beside it. Each call may succeed, fail, be
interrupted (a `break` sent late may hit the next call) or find its connection lost; the
`catch` of `withActiveSession` then clears whatever session is current (`ClearOnLoss`).

Statements are abstracted to what the safety checks and the transaction count tell apart
(`StmtKind`) and the table they sweep. Each run offers requests from a `Menu`. `lateLoss` (a
request that outlived its session cleared another one) and `unseen` (why work is not
counted) are history variables that name the known gaps: `silent` for a statement no consult
follows or counts (SELECT ... FOR UPDATE, CALL, LOCK TABLE: sql-kind.ts:36,60), `consult`
for a consult that failed, `embed` for an embedding's commit, `call` for the other handlers,
of which `procExecute` consults nothing.

### `SharedCalls` (oracle.ts, ords.ts, perf-stats.ts)

The 66 other handlers on the workspace's connection, each as the statements it issues
(`Program`): what a statement does to the transaction, the connection's `callTimeout` and
the `DBMS_OUTPUT` buffer, and what becomes of the call when the statement is refused for
want of a privilege or fails otherwise. One call runs beside another from a chosen set
(`Beside`: the preview, the plan, a procedure, an embedding) and beside the user, who
writes, commits and rolls back; the connection may drop. A buffer of `DBMS_OUTPUT` that
cannot be read is answered as if it were empty (oracle.ts:1606): `unread` is the history of
it. What statements select is left out.

### `SandboxSession` (sandbox-cloud/*.ts, index.ts)

One sandbox id: every map of that code is keyed by the id, so others are independent. State:
the cache entry and the copy in `sandbox-tmp` (absent, sound or torn), the registry, the
result cache, and per open the await it is in, the DuckDB host it made and its revoke watch;
the queue of queries. `sandbox.open` is five actions, one per stretch between awaits that
wait for I/O; `Close` and the closing by the watch are synchronous. `Withdraw` is the
cloud's decision; `PullDownloaded`/`PullWritten`/`RemoveEntry` change the cache; `Kill` may
tear the entry a pull is writing; `GracefulExit` and `Start` (which sweeps `sandbox-tmp`)
frame the process. `met` is the history of which loads were under way together.

### `DebugSession` (debug.ts, flow.ts)

State: `_debugSession`, the start lock, per call the await it is in and the session it works
on, per session its two connections (the calls on the second one in order), the promise of
the program's execution and `_completionResultsExtracted`. Sessions go by the name of the
call that created them. `debug.start` takes the lock, stops its predecessor, builds two
connections, initialises, attaches, sets breakpoints and waits for the first event;
`flow.trace_proc` creates a session *without* the lock and loops. Both can be timed out
(`SyncTimesOut` closes one connection, `StepTimesOut` both) at any moment, racing events,
questions and `debug.stop`. The end of a program goes through the extraction of its results,
whose failure skips the `stop()` behind it (`ReadFails`): a start answers "completed" and a
step an error, with both connections open. The history `unread` has these calls.
One user breakpoint stands for all. What happens to calls queued before a `close()` is left
open: they may be answered or rejected.

### `SqlEditor` (stores/sql-editor.svelte.ts, sql-query.ts)

State: the page's connection and its generation (`epoch`); the tabs, each an object that may
be replaced (`copy`), with its running flag and the run that set it; the runs, each with the
await it is in; the three slots for questions (`_pendingConfirm`, `_pendingUnsafeDml`,
`_pendingDdl`); the calls the sidecar has not served and the answers on their way, in order;
the transaction `tx` as it is, as the sidecar counts it and as the bar shows it.
`RunStarted` has the six entry points with their different ways to take the tab and to ask;
`ConfirmAnswered` and `UnsafeAnswered` are the user's (nobody can answer the third question:
no component shows it); `RunServed`, `StateServed`, `StateRefused`, `EndServed` are the
sidecar's: what a run did to the transaction (a statement that failed may have committed or
changed something all the same), whether the database was asked after it, and the sidecar's
*count*, which is what the store is answered; `UnsafeWarned`, `DdlRefused`, `RunAnswered`
(which shows a modifying statement's transaction at once), `StateAnswered` (which leaves
that as it is when the call failed) and `EndAnswered` what the store does with an answer;
`PageLeft` is `reset()`, which drops tabs and questions while runs go on. `torn` and
`tx.untold` are history: a tab whose object was replaced under its run, and who was not told
of what happened to the transaction: the sidecar, or the store.

### `ConnectionStore` and `StoreFile` (persistence/connections.rs, store.rs, crypto.rs, command_history.rs, ConnectionForm.svelte)

A save is steps (`WalletChecked` ... `Persisted`, `PasswordSet`) that fail one by one, with
another save, a delete or the end of the process in between; what the user typed is known by
the number of its save. A wallet's directory holds the whole of an archive or a part of it;
a save that keeps the wallet looks for the directory and the alias only
(connections.rs:714-729), so that a part passes. `torn` says for the keys and for the wallet
of a connection whether a step failed, was cut or overlapped. The start of the store reads
or makes its keys, probes the file, encrypts a plain one by writing a copy and renaming
twice, migrates it and envelopes old commands; the process may be killed between any two
steps, and the keychain may refuse.

### `Commands` (commands.rs)

A command is a sequence of steps of these kinds: `gate` (reads the air gap), `token`, `key`,
`config` (secrets of the keychain), `oracle`, `own`, `session` (passwords, by the page's
choice, the sandbox's own connection, or the open one), `sidecar`, `store`, `path`, `file`,
`address`, `remote`, `cloud`, `leave` (goes out), `ask`, `lookup`, `row` (writes the log),
`event`. `Command` lists all of them. One command is asked; between any two of its steps the
session changes, the cell follows, somebody signs in or out, or a connection is removed.

### `SandboxBuild`, `SandboxDraft`, `SandboxPublish`, `SandboxList`

`SandboxBuild` is `buildSandbox` phase by phase (`Started` ... `LinkClosed`), one action per
hop of its walks over foreign keys and over dependencies, each of which may throw
(`Broken`), and `BuildKilled` at any moment. `SandboxDraft` is the wizard's store and its
pages: a page is made when its step is entered and destroyed when it is left, the store and
the calls outlive it; leaving the wizard makes a fresh store. Its history `past` says which
known gap was met (`lost`, `late`, `jumped`). `SandboxPublish` has the key pairs of owner
and members on several devices, where a keychain that refuses a read looks like one without
a key (keystore.ts:38-46), so that a setup or a build makes a new key over it,
`sandbox.publish` from create to finalize, the envelopes, and the wizard's last step with
its retries; the cloud is what these requests make of it. `SandboxList` has loads, pulls,
deletions, leaves and marks as operations of several steps that overlap, over the cache and
`last-seen.json`, which is an empty list when it cannot be read or parsed (last-seen.ts:24).

### `DebugPanel`, `SchemaBrowser`, `RestPanels`

`DebugPanel`: every key starts a chain of calls and nothing but the toolbar's disabled
buttons keeps two apart; steps and reads queue on the debugger's connection (`wire`); the
editor's view is rebuilt by an effect, with or without its marks. `SchemaBrowser`: a refresh
replaces the nodes, and loads still on their way are written into the former ones
(generations). `RestPanels`: five dialogs, a variable each, whose answers come in any order.

### `ObjectVersions`, `EditorDocument`, `CloudSession`, `CommandWindow`, `ObjectPanes`, `LivePanels`, `Assistant`

`ObjectVersions`: a capture stages, commits and inserts a row; a label deletes a tag, makes
another and updates a row; an error or the end of the process may come between, and a tag
that cannot be deleted stays unsaid (object_versions.rs:389). `EditorDocument` has the
two parts of a package on one tab, and saves, compilations and captures as calls whose
answers look at the tab as it is by then. A save that fails may have written part of the
file. The errors of a compilation are those of the session's *own* object of that type and
name, whoever owns the one compiled (`source.own`: they are the same). `CloudSession`: token,
features and timer are changed one after the other by a refresh, a poll and a sign-out, none
of which waits for another; what is stored of the features may be on, off, absent or
malformed, the token may have expired when the application starts, and the cloud may answer
without features; the buffer's flushes overlap. `CommandWindow`: a line is its place, the
lines of a script in the place of the line that starts it, however deep; SHOW ERRORS sends a
statement of its own; the executor goes on when the component is destroyed. `ObjectPanes`:
each pane is one line of `Pane` (for which kinds it is asked, when, and what follows its
answer); answers come in any order. Selecting an object, the one selected included, empties
the panes and forgets a loop of embeddings that runs: the requests under way are `outrun`,
the panes their answers come to `late`, the loop `lost`. `LivePanels`: five panels; a first
read that fails leaves an empty list that is listened to all the same. `Assistant`: the
questions of an analysis and the conversation; while the sidecar configures a chart the panel
does not wait, so answers overlap (`mixed`); a provider may throw instead of answering.

## Runs

Each passing run finishes in under five minutes with two workers. Bounds are named by
constants of the modules or stated in the `Part` definitions of the MC modules.

| Run | Module | Bounds | Distinct states |
|---|---|---|---|
| `rpc_safety` | `SidecarRpc` | 3 calls, channel and pipe of 1 line | 19 526 |
| `backend_safety` | `MCBackend` | audit: 3 entries, 2 days, 2 runs, 2 keys; 3 saves or deletes of 2 names and 2 wallets; 3 keys and rows; 2 calls; 2 devices of the owner, 1 of a member; 1 command, 3 changes | 4 643 942 |
| `oracle_safety` | `MCOracleSession` | 4 requests of `SafetyMenu`, 2 connections, 1 loss, batches of 2 rows | 1 078 226 |
| `oracle_live` | `MCOracleSession` | 3 requests of `LiveMenu`, 2 connections, 1 loss | 61 026 |
| `sandbox_safety` | `MCSandboxSession` | 2 opens, 2 queries, 1 end of the process; all graphs of 3 tables; 2 edits and 3 calls of a draft | 846 307 |
| `debug_safety` | `DebugSession` | a start, a start or trace or other, another other | 462 329 |
| `workspace_safety` | `MCWorkspace` | 3 tasks, two at once, prod and dev, 1 statement; 4 chains; 3 operations on cards; 4 calls of a dialog | 1 585 842 |
| `editor_safety` | `MCSqlEditor` | 2 tabs, 2 runs, 1 commit or rollback, 1 page left | 2 481 708 |
| `services_safety` | `MCServices` | 3 commits, 2 runs; 4 entries, 2 sign-ins, 3 flushes; 4 lines, 2 windows; 2 selections, 2 loops; 4 rows; 2 analyses | 3 275 713 |
| `calls_autocommit`, `workspace_airgap`, `editor_ddl` | | a violation each | |

**`rpc_safety`** checks `WaitingIsWakeable` (as long as the demux task lives, a waiting
call's request or reply is somewhere on its way or Terminated is still to come),
`RefusedNeverRuns` (-32001 and -32003 are safe to retry), `ProgressBeforeResult` (a
notification reaches the renderer before its request's result), `ImplementsService`, and two
liveness properties: `DeathWakesInFlight` and `InFlightReturns`. Channel and pipe of one
line with three calls reach every full/empty combination with a caller still blocked on
each; the code's 32 would only add equal slots.

**`backend_safety`** checks six components, one at a time. `LogIsRight`:
`UndisturbedVerifies` (a file nothing disturbed verifies completely), `SubChainsAreRuns`
(its sub-chains are exactly the runs that wrote to it), `WrittenIsRead` (no returned entry
is missing or doubled, unless a torn line swallowed it or the key that sealed it was
replaced); three entries are the least for a disturbance between two links, two days give
one midnight, two runs one restart. `StoreIsWhole`: `ConnectionsAreWhole` (row and passwords
are of one save, and the wallet is whole and the one the row is about, unless a step of that
very part failed, was cut or overlapped since it was last replaced), `StoreIsKept` (a start
cut anywhere loses nothing, except between the two renames) and `KeychainOpensStore`.
`ProdStaysProd`: no save takes a connection out of prod. `SandboxesOpen`:
`ReadyCanBeOpened`, `KeysAgree` (both unless a key was made for the account while it had
another: on a second device, by an overlapping setup or after a refused read of the
keychain), `OneSandboxPerPublish`. `CallsLeaveTheConnection`: `LimitIsRestored` and
`CallsKeepTheirWrites`. `CommandsKeepTheirOrder`: `GapHolds`, `SecretsBehindTheGate`,
`CloudCallsAreSigned`, `RepublishReadsItsOwn`, `WindowsLoggedWereOpened`.

**`oracle_safety`** checks `OrphanOnlyByLateLoss` (no connection is left open without an
owner, unless a request that outlived its session cleared another one), `RunsWhereChecked`
(with the same exception, a statement runs on the connection it was checked for),
`GateHolds` (`WindowIsOneShot` and `ForbiddenBatchRanNothing`), `OpenTxIsCounted`
(uncommitted work is counted, or one of the four gaps of `unseen` explains it) and
`SlotMatchesQuery`. Four requests are one session, its replacement, and two calls that
overlap it; the guards (`MaxConn`, `MaxDrops`) stop a third connection and a second loss.
**`oracle_live`**: every request is answered and the session lock is passed on, whatever the
database answers.

**`sandbox_safety`** checks `OneQueryPerHost`, `RegistryIsLive` (a registered host is open,
the cached result is its own), `ToldMeansClosed` (after a revocation was reported, a session
that is registered still has a watch of its own), `TornBlobIsCaught`,
`OnlyOverlapLeaksHosts` (a host is left open only by a load that succeeded beside another
one that was under way together with it and succeeded too: not by opens one after the other,
nor by one that fails) and `EveryCallSettles`; two opens is what an overlap takes, a second
query is what a queue takes. `SandboxIsOfTheDraft` has the build (`WalkIsReach`,
`DiscoveryIsRight`, `FileIsOfTheSpec`, `NothingIsLeft`: the walk hop by hop against the
closure it should compute, over every graph of three tables) and the draft (`ReviewIsOfDraft`,
`ListIsReached`, `FileIsOfDraft`, `OutIsOfFound`); the first source and its name are not
counted as edits, and a list of tables outstays its page only before the first dry run.

**`debug_safety`** checks `OrphansOnlyFromTraces` (overlapping starts never leave an open
session out of reach), `EndedIsReleased` (whoever is told that the program ended leaves no
connection behind, but for a result that could not be fetched: see below) and
`StartsAndStepsSettle`. Two starts contend for the lock; a start and a trace contend for
`_debugSession`; the third call steps, asks or stops.

**`workspace_safety`** checks `CellsDescribeSession`, `RowsNameTheirSession` and
`PageLeavesLoading` (a page that opens gets to know how that ended, but for the call that
was sent between the end of the sidecar and that of its writer) over three tasks (an open,
its replacement, and one from the tray or the page's reconnect), and `ScreensTellTheTruth`:
for the debugger's window `RunningHasCall`, `StoppedProgramIsShown`, `MarksAreBreakpoints`,
`ScriptIsOfTheObject` (at most two chains at once, five chains and edits together); for the
cards `CardsAreUnique`, `SpinnersPull`, `CachedIsOnDisk`, `RemovedIsGone`, `SeenStaysSeen`;
for the tree `SpinnersLoad`, `ExpandedIsLoaded`, `AppliedIsListed`, `PreviewIsOfConfig`
(four requests together); for the dialogs `ClientsAreRegistered`, `DetailsAreOfModule`,
`ResponseWasSent`, `SelectShowsSource`, `DetectionIsOfPage` (four calls, three in the
tester, two ORDS dialogs).

**`editor_safety`** checks `EditorTellsTheTruth` (`QuestionsAreOwned`, `FlagsTellTheTruth`),
`TxViewSettles` (once no call is under way the transaction is shown as it is, unless the
store or the sidecar was not told of what happened to it) and `AskedRunsSettle` (there is
always a time to come when every run has ended, but for those whose question nobody shows)
with one connection that is left and entered again,
two tabs, two runs of any kind and one commit or rollback: the least with which a second
question finds its slot taken, and a run's answer comes to a tab that is gone.

**`services_safety`** checks `DocumentsTellTheTruth` (`RowsAreCommits`, `BranchFollowsRows`,
`TagsAreLabels`, `CleanMeansSaved`, `CompiledVersionsCompiled`), `UploadIsRight`
(`EntriesAreKept`, `UploadFollowsSignIn`: once nothing is under way the upload is on only
for somebody signed in, and then exactly as the stored features say), `LinesRunOnceInOrder`
(with a script whose last line starts another, and one that goes on after the script it
starts), `PanesTellTheTruth` (`PanesShowSelection`: what is shown is of the selected object,
unless it answers a request made before a selection; `LoopStaysOnItsTable`) and
`PanelsTellTheTruth` (`GraphIsOfItsSeed`, `HistoryIsAPrefix`, `AuditPagesDescend`,
`ActivityMissesOnlyTheGap`, `SpinnerHasRefresh`, `ChartsAreReady`, `WaitsForAnAnswer`). The
restrictions of each part are in `MCServices`: a second compilation comes while at most one
commit or stopped operation is there (enough for two runs of one object that are served out
of order); labels and tags that stay are explored with two commits, another owner's object
with one run; the second selected object is of the first one's kind or a table, or the first
again, with three requests at once, one beside a loop; one reconnect, while the first
command window's script runs; an analysis begins when nothing waits, a second one from the
first one's last question.

Most of these invariants say "unless" and name the gap of the code in a history variable
that is set where the gap is met (an overlap, a late answer, a torn line). So they say where
the code is right *and* that there is no further way to go wrong; the next table has the
statements without the exception.

### Where the code and its documents part

Three runs look for a behaviour that contradicts a document, and find it. `findings` in
`PROJECT.json` quotes both sides.

| Run | What TLC finds |
|---|---|
| `calls_autocommit` (`NoAutoCommit`) | an embedding, a vector index or an ORDS call beside the user's uncommitted statement commits it |
| `workspace_airgap` (`ProdIsAirGapped`) | a close served before an open writes its cells after it: a prod session with the air gap off |
| `editor_ddl` (`EveryRunSettles`) | a run refused for want of a DDL window waits on a question no component shows |

The modules state more that a comment, a test or a reader would expect and the model
refutes. To reproduce one, give the configuration in the second column the definition as its
only property.

| Statement | With | What happens |
|---|---|---|
| `NoOrphan`, `TruncateNeverOnProd` | `oracle_safety.cfg`, `Requests` r1 ... r5, `Menu <- SwapMenu`, `MaxConn = 3`, `MaxDrops = 0` | an embedding that outlives its session clears the new one; the next open waits for nothing and a batch checked for dev goes on with its TRUNCATE on prod |
| `EveryCallReturns` (property) | `rpc_safety.cfg` | a call registers after the demux task cleared the map and its line enters the channel before the writer notices the death: it waits for ever |
| `NoChainIsNotABreak` | `backend_safety.cfg` | one entry written while the keychain is down makes the next chained entry a break |
| `LossClearsTheSession` | `backend_safety.cfg` | handlers that recode or swallow the error, the ORDS ones and `querySessionSelf` keep the dead session |
| `GrantsAreMade`, `RepublishMakesNoSandbox` | `backend_safety.cfg` | the wizard's grants all fail (`pub.sandbox_id` is undefined); mode "republish" still calls `publishSandbox` |
| `EveryWayOutIsGated`, `AirGappedStaysHome` | `backend_safety.cfg` | `ords_test_http` and `vector_search` do not ask for the air gap; the wizard's page publishes where no workspace is open |
| `GapFollowsToggle` (property), `OnlyFirstRunMakesKeys` (property) | `backend_safety.cfg` | an edit that does not load the air gap turns it off; a refused read of the keychain makes a new key |
| `StopInterruptsStart` | `debug_safety.cfg` | `debug.stop` while `debug.start` is connecting finds no session and answers ok; the start goes on to a pause |
| `ExitRemovesCopies` (property) | `sandbox_safety.cfg` | a graceful exit leaves the copy in `sandbox-tmp` for the next start to sweep |
| `ExistingKeyIsKept` (property), `RecoveredKeySurvives` | `sandbox_safety.cfg` | any read error looks like "no key" (keystore.ts:38-46) and a new one is written; the key recovered for a replacement is zeroed by the build |
| `EdgesPulled`, `IncludedIsThere` | `sandbox_safety.cfg` | the edges of the closure are not those that pulled the tables; an object is said to be included that the file does not hold |
| `LateReviewsAreDropped`, `ReviewIsNeverStale` | `sandbox_safety.cfg` | a late dry run is taken; going back to the tables keeps the review |
| `ExcludedStayHome`, `AddedTablesGo`, `ObjectsWerePresented` | `sandbox_safety.cfg` | excluded and added tables do not reach the build (lib/sandbox.ts:454); a failed discovery does not hold up the wizard |
| `ProdTextStaysHome` | `editor_ddl.cfg` | a run whose page was left writes its history row under the connection shown by then |
| `ErrorSaysWhy`, `WhatIsShownRuns`, `ScriptIsNoSource`, `SessionsAreShown` | `workspace_safety.cfg` | a run on a lost session: `stop()` clears the message of the error; edits after a run are ignored; after Stop in a library frame, editing makes the shown source the script; a Stop served before the session is registered leaves it running unseen |
| `RevokedStaysGone`, `LoadsAreShown` | `workspace_safety.cfg` | a revoked sandbox's cache comes back with the next load; an older load ends the newer one's spinner |
| `TogglesStay`, `PreviewsStay`, `FailuresAreTold` | `workspace_safety.cfg` | toggles during a refresh are undone; the end of an apply closes another preview, and fails silently when its dialog was closed |
| `SecretsAreNamed`, `RevokesAreHeard`, `ExportsAreNamed`, `ResponseIsOfUrl`, `SourceFitsType`, `EmptyListsAreAnswers`, `AddressIsOfPage` | `workspace_safety.cfg` | a secret under the re-typed name; a panel closed by its own question; an export named after the later selection; a response under another address; a source of the former type; an empty list asked for again endlessly; an address saved for the former connection |
| `RecallIsNewestFirst`, `StatementsAreWhole` | `services_safety.cfg` | the history is loaded in reverse; a CREATE ... IS with an inner `;` is cut at the first one (parser.ts:401) |
| `QuietPanesShowSelection`, `BatchesStayOnTheirTable`, `OneLoopAtATime` | `services_safety.cfg` | late answers are written into the selected object's panes; the embedding loop follows the selection; a selection forgets a loop that runs, and a second one starts on the same table |
| `AuditPagesAdjoin`, `SpinnerAlwaysHasRefresh` | `services_safety.cfg` | after the second page every other one is skipped; the effect outdates a refresh whose spinner then stays |
| `EveryChartIsReady`, `PanelGetsOver` | `services_safety.cfg` | a double "yes" adds a chart twice; a provider that throws (the token refused, the air gap, an answer that is no JSON: CloudProvider.ts:11,43) leaves the panel waiting |

Seen in the source while modelling, each without a statement of its own:

- *Bridge and shell.* `acquire()` hands out a dead process for ever (sidecar.rs:351;
  ARCHITECTURE.md:191 expects a new one). A run that writes past midnight starts the new
  file with a link into the old one, which the verifier calls a break (commands.rs:958;
  cause `midnight` of `AuditChain`). `query.execute`'s `origin` is not forwarded
  (commands.rs:582). `ai_approval_resolve` answers an approval nobody asks for: `aiChat` is
  called without tools. `table_describe`'s decode error has the code of the air gap's
  refusal (-32099). `embed_count_pending` is gated although it goes nowhere.
- *Stores.* The wallet is replaced before the row and the row written before the passwords;
  a failed creation leaves the row, and trying again says the name is in use. A save that
  ends after Cancel still leaves the page. The edit page does not load air gap, PSDPM and
  auto-explain. Deleting ignores failures of keychain and directory, and never deletes the
  git token, history, versions and keep-open rows. A start turns `warn_unsafe_dml` on for
  staging and prod. A cut between the two renames leaves an empty store.
- *Oracle session.* `hasOpenTx` and `connectionTxState` miss a transaction when the consult
  fails (oracle.ts:2593, 1643) and when the statement is of a kind that is not consulted
  (CALL, LOCK TABLE, SELECT ... FOR UPDATE), and `procExecute` consults nothing: the gaps of
  `unseen`. After a late loss, the commit of the session nobody closed resets
  the count of the one opened since, so that its own open work is not counted: the
  exception `~lateLoss` of `OpenTxIsCounted`. No method confirms DDL, so none passes outside
  dev (`NoSuchMethod`). `DBMS_JOB.BROKEN` and the DELETE of an explained plan are left
  uncommitted; two overlapping previews leave their 5 s `callTimeout`; an ORDS client stays
  when its grants fail.
- *Debugger.* An extraction that throws is answered "completed" to a start and an error to a
  step, and leaves the debug session open (debug.ts:575, where the comment says it is
  stopped): the exception `unread` of `EndedIsReleased`; a trace can wait in CONTINUE beyond
  its time limit, which is only looked at between steps (flow.ts:217); a first connection
  leaks when the second cannot be built (debug.ts:363). In the window, the F-keys pass by
  the toolbar's disabled buttons; a member chosen while paused resets the window without
  stopping; F8 while paused shows "completed" over a stopped session; an overtaken or
  failing `open()` leaves the former script under the new title; setting a breakpoint after
  an edit in a freshly built view throws the edit away in the editor; breakpoints are found
  by name without owner; `getCallStack` always answers `[]`, and the branches for
  SESSION_LOST and for the pause state "error" are not reachable.
- *Sandboxes.* The copy `open.ts:91` loads is a second read of the blob, made after the hash
  of the first was checked; `query.ts:39` clears its map by comparing a promise that is never
  the stored one. Publishing again is not possible: no component calls it, the wizard passes
  no `buildConfig`, and `recoverContentKey` opens without the associated data
  (handlers.ts:313). "Regenerate keypair" only ensures one; a second device's key replaces
  the registered one. The writer's rename from the temporary directory may cross devices.
  Level 1 detects nothing (build.ts:167). Dependents of another owner are attributed to the
  schema and skipped. `sweep-builds` is unused. `/sandboxes` and its pages always redirect,
  since `active` is never set; `detectStaleCache` can find nothing; failed pulls are silent;
  delete can be clicked twice; overlapping marks of `last-seen.json` lose one; a failing list
  is taken as an empty one.
- *Editor, history, cloud.* The errors of a compilation are asked for without the owner
  (sql-editor.svelte.ts:80-92), so that a broken object of another schema is kept as
  compiled. A write that fails may leave part of a file. A deletion of a git tag that fails
  is not said. An expired token leaves its features stored. `PendingTxModal` and its
  controller are imported by no component. Push sends refs/heads/main, while the branch is
  whatever git's default is.
- *Command window.* EXIT inside a script does not stop it; a destroyed window's executor
  keeps running on whatever connection is open; two command tabs share one component;
  scripts run as typed by the user; Ctrl-C is not heard while a statement runs.
- *Inspector and panels.* `refreshResult`, `confirmingRefresh` and the names of new indexes
  and columns are not reset by a selection; the answer of a job's action loads the object
  selected by then; overlapping pages of the history repeat rows.
- *Assistant.* Clearing, or another analysis, while it waits puts the late reply in the new
  conversation; on prod the air gap is forced, so that its unlock can never lead to an
  answer; a closed panel still adds its chart; a conversation may begin with the
  assistant's question.
- *Tree and dialogs.* A failed describe is kept as an empty list; a late answer from before
  a reconnect is written into the cleared column cache. Answering the question about a
  revocation closes the panel, since the question lies in its backdrop; `handleRevoke` is
  dead code.

## Fairness

- *`rpc_safety`.* The async runtime polls every task that can proceed: weak fairness of each
  step, strong fairness of `Send`, because the channel hands room to waiting senders in
  order. That handlers settle is a separate assumption (`HandlersSettle`) and stated where it
  is needed: a query may run for ever. Nothing makes a user call or the process die.
  `DeathWakesInFlight` does without it.
- *`oracle_live`.* Weak fairness of `Proceed(r)`: a call on a connection ends in some way,
  as does a call to the embedding service. New requests, drops and the expiry of windows are
  not fair.
- *`sandbox_safety`.* Promises settle: files, keychain and DuckDB answer somehow. The cloud
  need not. Builds and drafts have no liveness property.
- *`debug_safety`.* Weak fairness of `Work(c)`: timers fire, the lock is passed on, the
  driver answers a question whose turn it is and rejects calls on a closed connection. The
  program under debug need never raise another event: starts and steps are answered because
  of their timers. Traces are not claimed to end: nothing bounds their CONTINUE.
- *`workspace_safety`.* The runtime schedules every task and the sidecar serves its queue:
  weak fairness per task of sending, being answered and writing. A call sent between the end
  of the process and that of its writer task hangs and is never answered. Users and deaths
  are not fair.
- *`editor_safety`, `editor_ddl`.* Three weak fairnesses: the sidecar serves a run's call (its
  statements run under a time limit), answers arrive, and the user answers a question that is
  shown. The question for a DDL window is shown by no component, so nothing answers it; one
  taken away by another run or with its page is not answered either.

`backend_safety`, `oracle_safety` and `services_safety` check safety only. Deadlock checking
is off where the bounded set of calls may all be finished. In `SandboxSession` a close or a
start of the process is always possible, a build that ended stutters explicitly
(`BuildIsOver`), and `DebugSession` has an explicit `Done`, so those two runs are checked
for deadlock.

## Proofs

The runs show a property for a few calls; these theorems show it for any number of calls,
entries, connections, tabs, tasks, devices, days and restarts. All are checked by tlapm to
the last leaf.

| Theorem | Property | Rests on |
|---|---|---|
| `SidecarRpcProofs!TypeCorrect` | `TypeOK` | - |
| `SidecarRpcProofs!Invariance` | `IInv` | `TypeOK` |
| `...!RefusedIsSafeToRetry`, `...!NoRequestMislaid` | `RefusedNeverRuns`, `WaitingIsWakeable` | `IInv` |
| `...!ProgressComesFirst` | `ProgressBeforeResult` | `IInv`, `OrderInv` |
| `...!Refinement` | `ImplementsService` | `IInv` |
| `BackendProofs!LogTypeCorrect`, `...!LinkedUnlessDisturbed` | `TypeOK`, `UndisturbedIsLinked` | `ChainInv` |
| `...!LogKeepsItsWord` | `LogIsRight` | `ChainInv` |
| `...!CallsLeaveNoTrace` | `CallsLeaveTheConnection` | `CallsInv` |
| `...!CommandsInOrder` | `CommandsKeepTheirOrder` | `CommandsInv` |
| `...!ProdForEver` | `ProdStaysProd` (of steps) | `ConnInv` |
| `...!StoreStaysWhole` | `StoreIsWhole` | `ConnInv`, `FileInv` |
| `...!SandboxesCanBeOpened` | `SandboxesOpen` | `PublishInv` |
| `OracleSessionProofs!QuerySlotIsExact` | `SlotMatchesQuery` | `SlotInv` |
| `...!TypeCorrect` | `TypeOK` | `TypeInv` |
| `...!NoOrphanButByLateLoss`, `...!BatchesKeepTheirSession` | `OrphanOnlyByLateLoss`, `RunsWhereChecked` | `SessionInv` |
| `...!OpenWorkIsCounted` | `OpenTxIsCounted` | `TxInv` |
| `...!SafetyGateHolds` | `GateHolds` | `GateInv` |
| `SandboxSessionProofs!QueriesNeverOverlap` | `OneQueryPerHost` | `TurnInv` |
| `...!RegistryStaysLive`, `...!RevokedIsClosed`, `...!TornBlobsStayInCache`, `...!HostsAreReleased` | `RegistryIsLive`, `ToldMeansClosed`, `TornBlobIsCaught`, `OnlyOverlapLeaksHosts` | `SessionInv` |
| `DebugSessionProofs!EndedSessionsAreReleased`, `...!OnlyTracesOrphan` | `EndedIsReleased`, `OrphansOnlyFromTraces` | `ReleaseInv` |
| `SqlEditorProofs!ShownTransactionIsRight` | `TxViewSettles` | `RunInv`, `SettleInv` |
| `...!StoreSpeaksOfItsRuns` | `EditorTellsTheTruth` | `RunInv`, `FlagsInv`, `DroppedInv` |
| `WorkspaceProofs!WorkspaceTypeCorrect` | `TypeOK` | `TypeInv` |
| `...!CellsAreRight` | `CellsDescribeSession` | `QueueInv`, `DescInv` |
| `...!RowsAreRight` | `RowsNameTheirSession` | `RowInv` |
| `...!ScreensAreRight` | `ScreensTellTheTruth` | `ScreenInv` |
| `ServicesProofs!DocumentsAndVersionsAgree` | `DocumentsTellTheTruth` | `DocInv` |
| `...!EntriesAreAccountedFor` | `UploadIsRight` | `CloudInv` |
| `...!PanesAreOfTheSelection` | `PanesTellTheTruth` | `PanesInv` |

Assumptions: the bounds are naturals (`CapAssumption`, `AuditAssumption`,
`SessionAssumption`, `SandboxAssumption`, `SqlEditorAssumption`, `WorkspaceAssumption`), the
sets of connections are related as the names say, and the placeholders (`None`, `Nothing`,
...) are none of the values they stand beside (`DebugAssumption`, `CallsAssumption`,
`StoreAssumption`, `ServicesAssumption`, `PanelAssumption`, `ListAssumption`,
`RestAssumption` and `TreeAssumption` too; some of them also say what is never empty: that
owner and member have a device, that a batch of the upload holds an entry, that the body is
an object, that the user's own schema is one of the tree, that a package is no member of
itself). Nothing is assumed of how many calls, requests, connections or statements there
are; they need not be finite.

**Bridge.** "A refused call never runs" is not inductive: one has to know that its line is
not still in the channel. `IInv` follows a request: `ProcessInv` (without a live process
nothing is read or handled; the demux task ends only after it), `ChannelInv` (the map holds
exactly the open oneshots, and a oneshot agrees with its caller), `RunsInv` (a request runs
at most once, and only if it was sent), `RouteInv` (a line on its way has not run, and is on
its way only once: this is where the lemmas on injective queues come in) and `NotMislaid`
(while the process lives, a sent request is in the channel, the pipe, a handler or stdout).
With it each action of the bridge maps to a step of `RpcService` or to a stutter. That
progress comes first is about the order in the pipe: `PushedInv` (what was pushed is
forwarded or still in the pipe), `AheadInv` (no progress stands behind its own reply) and
`UnsettledInv` (a handler that may still push has not replied).

**Audit log.** That the line before a chained line is the one it links to depends on a value
in memory. `ChainInv` ties it to the file: the link is the last line of the file this run
appended to last, unless something disturbed that file (`HeadOK`); each line was made by an
entry and every written entry is in its file once, sealed with a key that was there
(`LinesOK`, `WrittenOK`); lines are linked
(`LinkedOK`). What the check *computes* over such a file is more: `Verify` is recursive over
the lines. The proof follows its trace (`Trace`: the verdict after each line): after n lines
the check still passes, has counted the chained lines among them and the sub-chains they
start. Induction over the length is made by hand, from the least line at which it would fail
(`LeastNatural`, out of the library's theorem that < is well-founded on the naturals).

**Calls on the connection.** Whether a call's own writes are as they should be is a matter of
the statements behind it. `CallsInv` says per program how far each kind of call has got and
what it has left by then (`CallKept`): a preview has set its limit or restored it, and is
alone unless it overlapped (`PreviewsAlone`); a plan, an embedding, a procedure have written
what they have come to, unless another call or the user `crossed` them. Each statement is
shown to keep this for the call it is of, and every other call to stand aside
(`BystanderIsKept`).

**Commands.** `CommandsAre` shows of each of the commands of `Command` that it is well
gated: secrets and ways out stand behind a gate, a call of the cloud behind the token.
`CommandsInv` then says of the command under way what the steps behind it have done: the gap
was read where the gate is behind it, and the steps to come are an end of the command's.

**Saved connections and the store's file.** `ConnInv` numbers the saves, keeps the tasks of
one connection apart as long as it is not `torn`, and says for each step of a save and a
delete which of row, passwords and directory are already of which save, for the keys and for
the wallet separately: a later save mends the one and not the other. A connection nothing
runs on is then whole. A prod connection stays prod in the same invariant: a save that read
the row as something else met another operation. `FileInv` says of each step of a start what
is in the file, in the copies and under which key: all that was ever saved is in the store,
or in the copy beside it between the two renames.

**Publishing.** `KeysOK`: an account whose keys were not crossed has one key, in its
device's keychain and in the cloud, and a setup or a build that reads it is refused or given
that key. `BoxesOK`: every envelope that is on its way or in a
sandbox is sealed to the keys there are. `RunsOK`: the runs of the wizard are apart, at most
one is shown. `VisitsOK`: a visit has one ready sandbox, which the run that finalizes it is
alone to make.

**Oracle session.** Four layers, each proved on top of the ones before it. *Types*:
`TypeInv` adds to the types what each await of a request knows (`AskedInv`) and that whoever
replaces the session is the head of the lock's queue (`LockInv`). *Sessions*: `CallInv` (a
request that waits for a call has it in the queue of its connection), `HolderInv` (the
holder of the lock closes the session it found, or there is none any more) and `StaleInv`
(without a late loss a call on the session is on the one there is, or on a closed one, and a
batch is on the connection it was checked for). A closed connection rejects its calls before
the next one is up; that is why a batch that takes the session anew for each statement still
finds its own. *Transactions*: `CountInv` (open work is counted, or will be by the consult of
the statement that did it, or a gap explains it) and `BootInv` (a connection being built has
done no work). *Gate*: `WindowInv`, `BatchInv`, `GrantInv` (each statement of a batch that
went through is allowed on the connection by a window of its own), `OnceInv` (no window is
granted twice) and `RanInv` (what ran is what its batch asked, each statement once).
The attempt to prove `OpenTxIsCounted` without its exception showed it false: with three
connections TLC finds the late loss described above, which the smaller instance misses.

**SQL editor.** `RunInv` says of every call and answer whose run awaits it (no run has two,
and a question belongs to a run that has none). *The transaction*: unless it was not told of
something, the sidecar counts the transaction as it is (`CountInv`), so that its answer to the
store is true when it is given. What is shown settles
because of the *last* answer on its way that says something about it; `SettleInv` follows that
one: the store has still to ask, will be told to ask again, or the last word is right.
*The flags*: `FlagsInv` says of each tab that the run it shows holds its object and is under
way; all the answers of the sidecar and of the user do one of three things to a tab
(`Moves`), which is what makes the proof one of three cases and not of fifteen.

**Workspace.** The task that ends last before everything is quiet has either overlapped
another one, or has run alone since it started. `AloneInv` follows the latter: what it has
written so far is of its connection, and the session is that or gone. `QueueInv` has the lock.
A statement's row is right because a cell written in between marks the statement: `RowInv`.

**Sandbox.** `TurnInv`: the query that runs is the head of the queue, so there is one.
`OwnersInv`: the registered session is that of an open that ended, an importing open has an
open host. `MetInv`: loads under way together have met, and one that is under way beside a
registered session has met the load that session is of; so a load that replaces it leaks the
host of one it met. `ToldInv`: a revocation is reported only if the cloud withdrew, which it
does not take back. `SoundInv`: between the check of the hash and the copy nothing tears the
entry, because only a kill does and it ends the open.

**Debugger.** That a session which is told to have ended is closed on every path, and that
no two starts orphan one another, is one invariant: `LockInv` (the lock's queue is the
starts under way, without repetition, and only its head is past waiting), `CallInv` and
`OwnInv` (what the await a call is in says about its session), `ConnectingInv` (while a
start connects, only a trace can have put a session in its place: this is what the lock is
for), `TraceInv` and `OpenInv` (an open session that is not current was displaced by a trace
or belongs to one that will stop it).

**Versions and documents.** `VersionsInv` is of the repository alone: a row's commit holds
the row's text and rows and commits come in one order (`RowsOK`); the index and the last
commit have the text of an object's newest row, unless its last capture stopped
(`BranchOK`); and the tags. `DocInv` adds the tab. `FileOK`: a save nothing overlapped is
the only one, and a plain save is of the text the tab has; the file is as the last answered
save left it until another one has written, the whole of its text or a part. `RunsOK`: a run
that nothing raced is of the text and the part the tab shows, and if it was executed that
text is in the database. `CompiledOK`: a capture that is on its way as compiled is of a text
that compiled. The attempt showed the last property false as it stood: of two overlapping
runs of one object the earlier may be served last, and the errors that are then asked for
are of its text. `Overwrites` marks the run that lost.

**Audit upload.** `UploadOK` is of the buffer, the flights, the cloud and what was dropped,
as sequences of numbers: buffer and flights are apart and without repetition (`Apart`), each
entry is somewhere (`Accounted`), the cloud has none twice but after a lost answer, and none
that still waits (`NotAgain`), and without an overlap the one flight is behind the cloud and
before the buffer (`InTurn`). Lemmas on cutting and joining sequences (`CutIs`, `JoinIs`)
carry a batch out of the buffer and back in front of it. `SignInOK`: until a
late answer or a refusal, what is collected is what is stored, only for somebody whose token
is there, a refresh is under way only for somebody signed in, and the timer agrees with them
but in the middle of a sign-out, which has stopped it.

**Panes.** A selection empties every pane, so what a pane shows was answered since: about
the object selected now, or to a request the selection outran (`ContentOK`, `RequestsOK`). Of
the loops of embeddings that run, among those the panel did not lose there is one, and as long
as no other object was selected under it, it was started for what is selected (`LoopsOK`).

**Screens.** One invariant for each, which says of every call on its way what its answer will
mean whoever is answered first. *The cards* (`ListInv`): whatever changed the cache has still
to load the list, so that the load that began last either reads the cache as it is or is
followed by another (`LoadsOK`); what was removed is granted no more, so that only a pull
that was answered before can bring it back (`GoneOK`). *The tree* (`TreeInv`): a load is of a
generation of nodes and has a number; a spinner has a load of its own generation, and the
last load of the modules has not read yet or has read what was applied. *The dialogs*
(`RestInv`): of each panel, the list asked for last is the one that is shown, or it is still
to come, or a call is under way that will ask again. *The debugger's window* (`PanelInv`):
where one chain of calls is under way and it was not begun adrift, each of its awaits says
where the program, the connection and the window are (`StageIs`); beside it, the editor's
view shows its source and marks what is set (`EditorIs`, `MarksAre`).

The theorems are about the modules as they are. Those of `BackendProofs` and
`ServicesProofs` are about the compositions `BackendSpec` and `ServicesSpec` that
`backend_safety` and `services_safety` check: each component's invariant is proved
of its own steps, and every step of the composition is shown to be one of them or to leave
the component alone. `ScreensAreRight` is about `ScreenSpec`, which `workspace_safety` checks,
in the same way. `sandbox_safety` runs the build and the draft next to the session, with which
they share no variable.

Model-checked only:

- every liveness property (TLAPS 1.4.5 does not reason about ENABLED, hence not about
  fairness);
- `WalkIsReach` and `DiscoveryIsRight` (a walk against a closure), and `LinesRunOnceInOrder`,
  where a script is what a fold of the parser makes of its lines: they compute over their
  whole input, which would need induction over data;
- `SandboxIsOfTheDraft` and `PanelsTellTheTruth`: each is a conjunction over several
  windows, and a theorem has to have all of them. Of the last one `HistoryIsAPrefix` and the
  assistant's `ChartsAreReady` filter sequences (`SelectSeq`, of which the provers know no
  more than its recursive definition).


## Inventory

What the system consists of, what each part keeps, what is hard about it, and what makes it
correct. `PROJECT.json` lists the files, and what is left out of each.

### Modelled

| Component | State | Hard behaviour | Correct when |
|---|---|---|---|
| Sidecar RPC bridge | pending map, channel, two pipes, process slot | death of the process at any point, full queues, replies in any order | every call is answered once and truthfully, nothing runs twice, progress comes first |
| Local audit log | in-memory link, one file per day, two keychain keys | racing writers, midnight, restart, a missing or new key, a torn append | the chain verifies unless something named disturbed it, no entry is lost |
| Workspace state and its page | four cells, tray, page | opens and closes that overlap, the sidecar's death, the tray | the cells describe the session in place, a row names its statement's |
| Tauri commands | the air gap, the token, the session | what changes between two steps of a command | the gate comes before secrets and network |
| Saved connections | row, two passwords, a wallet's directory | steps that fail one by one, overlapping saves, kills | all are of one save, prod stays prod |
| Local store file and its keys | keychain, file, migrations | a start cut anywhere, a keychain that refuses | nothing is lost, the keys open it |
| Object versions (partly) | git repository, rows, tags | captures and labels that stop half-way | a version is the text of its row |
| Oracle session core (partly) | session, mutex, DML window, query slot, transaction count | a request that outlives its session, late cancels, lost connections, checks made before awaits | no orphaned connection, nothing runs where it was not checked for, work is not silently pending |
| Calls on the workspace's connection; ORDS (partly) | transaction, `callTimeout`, output buffer | another call between two statements, a refusal, a loss | the connection is left as it was found, writes are kept |
| Debugger and trace | debug session, start lock, two connections per session | timers racing events, stop during start, start against trace | an ended session is released, starts never orphan each other, starts and steps are answered |
| Sandbox sessions | registry, result cache, query queue, cache and tmp files | overlapping opens, closes under queries, revocation, kill while writing | only live hosts are offered, one query per host, torn blobs and revoked sandboxes are not served |
| Sandbox build | walks, key, files | a failure at any phase | the file is of the spec, nothing is left |
| Sandbox publishing and keys (partly) | key pairs, envelopes, cloud objects | several devices, lost answers, retries | whoever a sandbox is for can open it |
| SQL editor store (partly) | tabs, runs, questions, transaction view | a second question takes the slot of the first, answers after the page was left | questions and flags belong to their runs, the view is right |
| Editor documents | text, file, history | edits under saves and compilations | clean means saved, compiled means compiled |
| Cloud sign-in and audit upload | token, features, timer, buffer | a refresh, a poll and a sign-out at once; overlapping flushes | no entry is lost or doubled without a reason |
| Command window | parser, scripts, executor, history | a destroyed window whose executor goes on | every line once, in order |
| Object inspector (partly), panels that keep asking (partly) | the selection, pages | late answers | what is shown is of what is selected |
| Schema tree, REST dialogs | nodes, lists, forms | refreshes under loads, overlapping dialogs | what is shown was loaded for it |
| Debugger window, sandbox list, publish wizard's first steps | chains, cards, draft | answers to a page that was left, keys that pass by disabled buttons | the screen shows the session, the cache, the draft |
| Assistant and charts | conversation, analysis, charts | answers of two analyses at once | a chart can be drawn and is added once |

Left out of *Oracle session core*: the row-by-row streaming of SELECT and the PSDPM origin
check; of the *editor's store*: results, the drawer's layout, auto-explain; of *object
versions*: the remote; of *publishing*: grants and revocations, which are one request each,
and publishing again, which no screen reaches.

### Not modelled

| Component | Why |
|---|---|
| Keep-open decisions (Rust) | single statements under one mutex |
| Tray icon, terminal, PII masking (Rust) | I/O of the operating system; regular expressions |
| Helpers (sidecar) | single pure functions |
| SQL splitter | two scanners over characters: what they compute is text, which this project abstracts |
| AI chat, approval, embeddings (sidecar) | the tool loop is never entered (`aiChat` is called without tools); providers are external |
| Sandbox engine | a library of single calls: encodings, libsodium, SQL translation |
| Performance analyzer (frontend) | debounced analyses whose answers may be stale; one more of the panels, not done |
| Other user interface | presentation: components over the modelled stores, typed wrappers of commands |
| Republishing and grants (sidecar) | no screen reaches a republication; a grant is one request |
| Key pair of the sandboxes (frontend) | keeps the answer of one call, which `SandboxPublish` models |
| Pending-transaction dialog (frontend) | imported by no component |
| Licence and approval store (frontend) | a flag the cloud decides; an approval is never asked for |
| Build scripts and documentation | not behaviour of the running program |

## Plan

Done: the modules above; the theorems about the bridge, the Rust shell (audit log, commands,
store and its file, the page's cells), the Oracle session and the calls beside it, the
sandboxes and their publishing, the debugger, the editor's store, documents and versions, the
audit's upload, the inspector's panes, and the screens (debugger's window, cards, tree, REST
dialogs).

Next, in this order:

1. *Panels.* `PanelsTellTheTruth`, with pages and filtered lists as sets of positions.
2. The build's walks against the closure, by the induction the audit log's check uses.

Beyond proofs: the performance analyzer, the remaining panes of the inspector, and the
streaming of rows.
