------------------------------ MODULE LivePanels ------------------------------
(***************************************************************************)
(* Panels that keep asking while they are shown: the object graph          *)
(* (VisionTab.svelte), the query history (QueryHistory.svelte), the audit  *)
(* log of the cloud (AuditLogPanel.svelte), the activity list              *)
(* (ActivityTab.svelte) and the session monitor (SessionTab.svelte).       *)
(* Answers come in any order, and the rows asked about grow meanwhile.     *)
(***************************************************************************)
EXTENDS Integers, Sequences, SequencesExt, FiniteSetsExt

CONSTANTS
  Seeds,               \* objects a graph is made of
  PAGE_SIZE,           \* rows of a page, in the history and in the audit log
  Recent, Kept,        \* lines the activity list begins with, and keeps
  MaxGens, MaxRows, MaxFetches, MaxRefreshes,
  None

VARIABLES
  vision,    \* the graph's tab
  ran,      \* the keys (connection and search) of the rows of the history, by id
  panel,      \* the history's panel
  logged,    \* the number of entries of the cloud's audit log
  auditlog,  \* its panel
  tail,      \* the lines of today's audit file; those not emitted yet
  activity,  \* the activity list
  monitor    \* the session monitor

liveVars == <<vision, ran, panel, logged, auditlog, tail, activity, monitor>>

LiveInit ==
  /\ vision = [seed |-> None, gen |-> 0, state |-> "none", graph |-> None, calls |-> {}]
  /\ ran = <<>>
  /\ panel = [key |-> "a", entries |-> <<>>, loading |-> FALSE, more |-> FALSE, hasMore |-> TRUE,
             timer |-> TRUE, calls |-> {}, sent |-> 0, grew |-> FALSE, crossed |-> FALSE]
  /\ logged = 0
  /\ auditlog = [entries |-> <<>>, offset |-> 0, loading |-> FALSE, hasMore |-> FALSE,
                 calls |-> {}, sent |-> 0, grew |-> FALSE, crossed |-> FALSE]
  /\ tail = [lines |-> 0, unsent |-> {}]
  /\ activity = [pc |-> "new", entries |-> <<>>, gap |-> {}]
  /\ monitor = [epoch |-> 0, loading |-> FALSE, flight |-> None, disturbed |-> FALSE]

-----------------------------------------------------------------------------
(* The graph.  A generation is what a call belongs to; the answer of an    *)
(* older one is dropped.                                                   *)
Vision(v) ==
  vision' = v /\ UNCHANGED <<ran, panel, logged, auditlog, tail, activity, monitor>>

Generation(v, state, step) ==
  /\ v.gen < MaxGens
  /\ Vision([v EXCEPT !.gen = @ + 1, !.state = state,
                      !.calls = @ \cup {[gen |-> v.gen + 1, of |-> v.seed, step |-> step]}])

SeedShown(o) ==
  /\ o # vision.seed
  /\ Generation([vision EXCEPT !.seed = o, !.graph = None], "checking", "ping")
Retried ==
  vision.state \in {"locked", "error"} /\ Generation(vision, "checking", "ping")
NodeExplored(o) ==
  vision.state = "ready" /\ Generation([vision EXCEPT !.seed = o], "loading", "graph")

(* Mutation: an answer is never too old.                                   *)
Current_Always(c) == TRUE
Current(c) == c.gen = vision.gen

(* A ping that fails is repeated once; one that times out, or finds nobody *)
(* signed in, is not.                                                      *)
PingAnswered(c, how) ==
  LET v == [vision EXCEPT !.calls = @ \ {c}] IN
  /\ c.step \in {"ping", "again"}
  /\ IF ~Current(c) THEN Vision(v)
     ELSE IF how = "failed" /\ c.step = "ping"
       THEN Vision([v EXCEPT !.calls = @ \cup {[c EXCEPT !.step = "again"]}])
     ELSE IF how = "ok"
       THEN Vision([v EXCEPT !.state = "loading",
                             !.calls = @ \cup {[c EXCEPT !.step = "graph", !.of = vision.seed]}])
     ELSE Vision([v EXCEPT !.state = IF how = "signedOut" THEN "locked" ELSE "error"])

GraphAnswered(c, ok) ==
  LET v == [vision EXCEPT !.calls = @ \ {c}] IN
  /\ c.step = "graph"
  /\ Vision(IF ~Current(c) THEN v
            ELSE IF ok THEN [v EXCEPT !.graph = c.of, !.state = "ready"]
            ELSE [v EXCEPT !.state = "error"])

VisionNext ==
  \/ \E o \in Seeds : SeedShown(o) \/ NodeExplored(o)
  \/ Retried
  \/ \E c \in vision.calls : \/ \E how \in {"ok", "failed", "timeout", "signedOut"} : PingAnswered(c, how)
                             \/ \E ok \in BOOLEAN : GraphAnswered(c, ok)

-----------------------------------------------------------------------------
(* The query history: pages of the rows of one key, newest first.          *)
Matching(key) == SelectSeq([i \in DOMAIN ran |-> Len(ran) + 1 - i], LAMBDA id : ran[id] = key)
FirstOf(n, s) == SubSeq(s, 1, Min({n, Len(s)}))
Page(s, offset) == FirstOf(PAGE_SIZE, SubSeq(s, offset + 1, Len(s)))

Past(p) == panel' = p /\ UNCHANGED <<vision, logged, auditlog, tail, activity, monitor>>

RowAdded(key) ==
  /\ Len(ran) < MaxRows
  /\ ran' = Append(ran, key) /\ Past([panel EXCEPT !.grew = TRUE])

KeyChanged(key) ==
  key # panel.key /\ Past([panel EXCEPT !.key = key, !.timer = TRUE]) /\ UNCHANGED ran

Fetch(p, offset, reset) ==
  /\ p.sent < MaxFetches
  /\ Past([p EXCEPT !.loading = IF reset THEN TRUE ELSE @, !.more = IF reset THEN @ ELSE TRUE,
                    !.sent = @ + 1,
                    !.calls = @ \cup {[key |-> p.key, offset |-> offset, reset |-> reset, n |-> p.sent]}])
  /\ UNCHANGED ran

TimerFires ==
  /\ panel.timer
  /\ Fetch([panel EXCEPT !.timer = FALSE, !.entries = <<>>, !.hasMore = TRUE,
                        !.grew = FALSE, !.crossed = panel.calls # {}], 0, TRUE)

(* Mutation: the end of the list asks for more while a page is on its way. *)
MayFetchMore_AtOnce == panel.hasMore
MayFetchMore == panel.hasMore /\ ~panel.more /\ ~panel.loading

EndReached == MayFetchMore /\ Fetch(panel, Len(panel.entries), FALSE)

PageAnswered(c, ok) ==
  LET page == Page(Matching(c.key), c.offset)
      p == [panel EXCEPT !.calls = @ \ {c}, !.loading = FALSE, !.more = FALSE] IN
  /\ Past(IF ok THEN [p EXCEPT !.entries = IF c.reset THEN page ELSE @ \o page,
                               !.hasMore = Len(page) = PAGE_SIZE]
          ELSE [p EXCEPT !.hasMore = FALSE])
  /\ UNCHANGED ran

(* The rows of the connection are deleted; a page may still be on its way. *)
HistoryCleared ==
  /\ Past([panel EXCEPT !.entries = <<>>, !.hasMore = FALSE, !.crossed = @ \/ panel.calls # {}])
  /\ ran' = [i \in DOMAIN ran |-> IF ran[i] = panel.key THEN None ELSE ran[i]]

HistoryNext ==
  \/ \E key \in {"a", "b"} : RowAdded(key) \/ KeyChanged(key)
  \/ TimerFires \/ EndReached \/ HistoryCleared
  \/ \E c \in panel.calls, ok \in BOOLEAN : PageAnswered(c, ok)

-----------------------------------------------------------------------------
(* The audit log of the cloud.  loadMore advances the offset before the    *)
(* call, loadEntries once more after it.                                   *)
Audit(a) == auditlog' = a /\ UNCHANGED <<vision, ran, panel, tail, activity, monitor>>

Load(a, reset) ==
  /\ a.sent < MaxFetches
  /\ Audit([a EXCEPT !.loading = TRUE, !.sent = @ + 1,
                     !.crossed = IF auditlog.calls = {} /\ reset THEN FALSE ELSE @ \/ auditlog.calls # {},
                     !.grew = IF reset THEN FALSE ELSE @,
                     !.calls = @ \cup {[offset |-> a.offset, reset |-> reset, n |-> a.sent]}])
  /\ UNCHANGED logged

Searched == Load([auditlog EXCEPT !.offset = 0], TRUE)

(* Mutation: more is asked for from where the list began.                  *)
NextOffset_Same == auditlog.offset
NextOffset == auditlog.offset + PAGE_SIZE
MoreLoaded ==
  /\ ~auditlog.loading /\ auditlog.hasMore
  /\ Load([auditlog EXCEPT !.offset = NextOffset], FALSE)

EntriesAnswered(c, ok) ==
  LET page == Page([i \in 1 .. logged |-> logged + 1 - i], c.offset)
      a == [auditlog EXCEPT !.calls = @ \ {c}, !.loading = FALSE] IN
  /\ Audit(IF ~ok THEN [a EXCEPT !.grew = @ \/ c.reset]
           ELSE [a EXCEPT !.entries = IF c.reset THEN page ELSE @ \o page,
                          !.hasMore = Len(page) = PAGE_SIZE,
                          !.offset = IF c.reset THEN @ ELSE @ + Len(page)])
  /\ UNCHANGED logged

EntryLogged ==
  /\ logged < MaxRows
  /\ logged' = logged + 1 /\ Audit([auditlog EXCEPT !.grew = TRUE])

AuditLogNext ==
  \/ Searched \/ MoreLoaded \/ EntryLogged
  \/ \E c \in auditlog.calls, ok \in BOOLEAN : EntriesAnswered(c, ok)

-----------------------------------------------------------------------------
(* The activity list: the file's last lines, and from then on the events   *)
(* the host emits after each line.                                         *)
Activity == UNCHANGED <<vision, ran, panel, logged, auditlog, monitor>>

LineWritten ==
  /\ tail.lines < MaxRows
  /\ tail' = [lines |-> tail.lines + 1, unsent |-> tail.unsent \cup {tail.lines + 1}]
  /\ UNCHANGED activity /\ Activity

LineEmitted(id) ==
  /\ tail' = [tail EXCEPT !.unsent = @ \ {id}]
  /\ activity' = IF activity.pc = "on" THEN [activity EXCEPT !.entries = FirstOf(Kept, <<id>> \o @)]
                 ELSE IF activity.pc = "read" /\ id \notin Range(activity.entries)
                   THEN [activity EXCEPT !.gap = @ \cup {id}]
                 ELSE activity
  /\ Activity

(* Mutation: the lines are read from the oldest.                           *)
Initial_Oldest == [i \in 1 .. tail.lines |-> i]
Initial == [i \in 1 .. tail.lines |-> tail.lines + 1 - i]

(* A line that cannot be read (the key, the file, the call) is left out.   *)
RecentRead(readable) ==
  /\ activity.pc = "new"
  /\ activity' = [activity EXCEPT !.pc = "read",
       !.entries = FirstOf(Recent, SelectSeq(Initial, LAMBDA id : id \in readable)),
       !.gap = (1 .. tail.lines) \ readable]
  /\ UNCHANGED tail /\ Activity

Listening ==
  /\ activity.pc = "read" /\ activity' = [activity EXCEPT !.pc = "on"]
  /\ UNCHANGED tail /\ Activity

ActivityNext ==
  \/ LineWritten \/ Listening
  \/ \E readable \in SUBSET (1 .. tail.lines) : RecentRead(readable)
  \/ \E id \in tail.unsent : LineEmitted(id)

-----------------------------------------------------------------------------
(* The session monitor.  Its effect runs again when the panel, the tab, the*)
(* interval, the window's visibility or the clock it shows changes: what   *)
(* is in flight is outdated by that, and refreshed at once if need be.     *)
Monitor(m) == monitor' = m /\ UNCHANGED <<vision, ran, panel, logged, auditlog, tail, activity>>

Refreshed(m) ==
  IF m.loading THEN m
  ELSE [m EXCEPT !.epoch = @ + 1, !.loading = TRUE, !.flight = m.epoch + 1]

EffectRuns(due) ==
  LET m == [monitor EXCEPT !.epoch = @ + 1, !.disturbed = @ \/ monitor.flight # None] IN
  /\ m.epoch < MaxRefreshes
  /\ Monitor(IF due THEN Refreshed(m) ELSE m)

RefreshDue == monitor.epoch < MaxRefreshes /\ Monitor(Refreshed(monitor))

(* Mutation: only an answer that is good ends the spinner.                 *)
LoadingAfter_Kept(ok) == ~ok
LoadingAfter(ok) == FALSE

SelfAnswered(ok) ==
  /\ monitor.flight # None
  /\ Monitor([monitor EXCEPT !.flight = None,
                             !.loading = IF monitor.flight = monitor.epoch THEN LoadingAfter(ok) ELSE @])

MonitorNext ==
  \/ \E due \in BOOLEAN : EffectRuns(due)
  \/ RefreshDue
  \/ \E ok \in BOOLEAN : SelfAnswered(ok)

-----------------------------------------------------------------------------
Descends(s) == \A i \in 1 .. Len(s) - 1 : s[i] > s[i + 1]

(* A graph is of the object it is shown for, however many were asked for   *)
(* (VisionTab.svelte:83).                                                  *)
GraphIsOfItsSeed == vision.state = "ready" => vision.graph = vision.seed

(* The history lists the newest rows of its key, unless a page was on its  *)
(* way when the list was begun again or rows were added meanwhile          *)
(* (QueryHistory.svelte:42).                                               *)
HistoryIsAPrefix ==
  panel.calls = {} /\ ~panel.timer /\ ~panel.grew /\ ~panel.crossed =>
    IsPrefix(panel.entries, Matching(panel.key))

(* The audit log is listed newest first and no entry twice, unless calls   *)
(* overlapped or entries were added meanwhile (AuditLogPanel.svelte:58).   *)
AuditPagesDescend ==
  ~auditlog.grew /\ ~auditlog.crossed /\ (\A c \in auditlog.calls : ~c.reset) =>
    Descends(auditlog.entries)

(* The activity list misses no line but those its first read could not     *)
(* read, those emitted between that read and its listening                 *)
(* (ActivityTab.svelte:78), and older ones.                                *)
ActivityMissesOnlyTheGap ==
  activity.pc = "on" =>
    \A id \in 1 .. tail.lines :
      \/ id \in Range(activity.entries) \cup activity.gap \cup tail.unsent
      \/ Len(activity.entries) = Kept
      \/ Len(activity.entries) >= Recent /\ id < Last(activity.entries)

(* The monitor's spinner has a refresh, unless the effect outdated it      *)
(* (SessionTab.svelte:157).                                                *)
SpinnerHasRefresh == monitor.loading /\ monitor.flight = None => monitor.disturbed

LivePanelsTellTheTruth ==
  /\ GraphIsOfItsSeed /\ HistoryIsAPrefix /\ AuditPagesDescend
  /\ ActivityMissesOnlyTheGap /\ SpinnerHasRefresh

(* What the reader takes for granted: the pages of the audit log adjoin,   *)
(* and the monitor never stops refreshing.                                 *)
AuditPagesAdjoin ==
  ~auditlog.grew /\ ~auditlog.crossed /\ (\A c \in auditlog.calls : ~c.reset) =>
    \A i \in 1 .. Len(auditlog.entries) - 1 : auditlog.entries[i] = auditlog.entries[i + 1] + 1
SpinnerAlwaysHasRefresh == monitor.loading => monitor.flight # None
=============================================================================
