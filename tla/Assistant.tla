------------------------------ MODULE Assistant ------------------------------
(***************************************************************************)
(* The assistant's panel (SheepChat.svelte): the conversation with a model *)
(* (AIService and its two providers), and the questions that make a chart  *)
(* of a result, whose configuration the sidecar keeps (chart.ts).          *)
(*                                                                         *)
(* While the model answers the panel waits; while the sidecar configures a *)
(* chart it does not, so answers may overlap, with each other and with the *)
(* next analysis.  The model and its tools are outside: ai.ts is only ever *)
(* called without tools.                                                   *)
(***************************************************************************)
EXTENDS Naturals, FiniteSets, Sequences

CONSTANTS
  MaxAnalyses,  \* bound: the analyses of a run, numbered; each has its own session
  MAX_SESSIONS, \* chart.ts: 64
  MaxTasks,     \* bound: answers and messages under way at once
  MaxSaid,      \* bound: messages to the model
  MaxMounts,    \* bound: openings of the panel
  AnswerMixed,  \* bound: whether the questions of a mixed analysis are answered
  ChartTypes,   \* "bar", "kpi", "table": bars stand for the charts with an axis
  None

Analyses == 1 .. MaxAnalyses

VARIABLES
  chat,     \* the panel: see Fresh
  mounts,   \* how often it was opened
  analyses, \* analyses begun
  charted,  \* the sidecar's configurations, the least recently used first
  errands,  \* what the panel waits for
  charts,   \* the dashboard: each chart's analysis, whether it could be drawn,
            \* and whether its analysis had already added one
  said,     \* messages sent to the model so far
  mixed,    \* (history) analyses with two answers under way at once, or moved
            \* on by the answer of another one
  site      \* the connection is prod; the licence has the cloud's model; air gap

assistantVars == <<chat, mounts, analyses, charted, errands, charts, said, mixed, site>>

-----------------------------------------------------------------------------
(* The configuration of a chart; its aggregation counts, or it is another. *)

emptyConfig == [type |-> None, x |-> FALSE, y |-> None, counts |-> FALSE, title |-> FALSE]

(* The columns to show are numbers or are not; the preview is missing when *)
(* a chart with an axis has anything but numbers to count with.            *)
Previewed(c) ==
  /\ c.type \notin {None, "table"} /\ c.y # None
  /\ c.type = "kpi" \/ (c.x /\ (c.counts \/ c.y = "numbers"))

isReady(c) ==
  /\ c.type # None /\ c.y # None /\ c.title
  /\ c.type \in {"kpi", "table"} \/ c.x
  /\ Previewed(c) \/ c.type = "table"

(* Every answer's patch names one field, and a session that is not known   *)
(* begins with an empty configuration.                                     *)
Config(a) ==
  LET at == {i \in DOMAIN charted : charted[i].of = a}
  IN IF at = {} THEN emptyConfig ELSE charted[CHOOSE i \in at : TRUE].config

Patched(c, step, answer) ==
  CASE step = "type" -> [c EXCEPT !.type = answer]
    [] step = "xColumn" -> [c EXCEPT !.x = TRUE]
    [] step = "yColumns" -> [c EXCEPT !.y = answer]
    [] step = "aggregation" -> [c EXCEPT !.counts = (answer = "count")]
    [] step = "title" -> [c EXCEPT !.title = TRUE]
    [] step = "confirm" -> c

Without(a) == SelectSeq(charted, LAMBDA s : s.of # a)
Room(s) == IF Len(s) >= MAX_SESSIONS THEN Tail(s) ELSE s

chartConfigure(a, c) ==
  Append(IF Without(a) = charted THEN Room(charted) ELSE Without(a), [of |-> a, config |-> c])

-----------------------------------------------------------------------------
(* The questions.                                                          *)

Answers(step) ==
  CASE step = "type" -> ChartTypes
    [] step = "xColumn" -> {"column"}
    [] step = "yColumns" -> {"numbers", "texts"}
    [] step = "aggregation" -> {"sum", "count"}
    [] step = "title" -> {"title"}
    [] step = "confirm" -> {"yes", "no"}

(* Mutations: the axis is not asked for; texts are summed up.              *)
After_NoAxis(step, c) ==
  CASE step = "type" -> "yColumns"
    [] step = "yColumns" -> "aggregation"
    [] step = "aggregation" ->
         IF ~Previewed(c) /\ ~c.counts /\ c.y = "texts" THEN step ELSE "title"
    [] step = "title" -> "confirm"
    [] OTHER -> None
After_SumsTexts(step, c) ==
  CASE step = "type" -> IF c.type = "bar" THEN "xColumn" ELSE "yColumns"
    [] step = "xColumn" -> "yColumns"
    [] step = "yColumns" -> "aggregation"
    [] step = "aggregation" -> "title"
    [] step = "title" -> "confirm"
    [] OTHER -> None

(* The question that follows an answer, once it is configured.             *)
After(step, c) ==
  CASE step = "type" -> IF c.type = "bar" THEN "xColumn" ELSE "yColumns"
    [] step = "xColumn" -> "yColumns"
    [] step = "yColumns" -> "aggregation"
    [] step = "aggregation" ->
         IF ~Previewed(c) /\ ~c.counts /\ c.y = "texts" THEN step ELSE "title"
    [] step = "title" -> "confirm"
    [] OTHER -> None

-----------------------------------------------------------------------------
(* Bound: an instance may leave fewer analyses or messages than the others. *)
(* step: the question asked last; cur: the analysis it is of; loading: it  *)
(* waits for the model; threw: (history) the provider of the cloud threw.  *)
Fresh == [open |-> TRUE, unlocked |-> FALSE, step |-> None, cur |-> 0, loading |-> FALSE,
          threw |-> FALSE]

AssistantInit ==
  /\ chat = [Fresh EXCEPT !.open = FALSE] /\ mounts = 0
  /\ charted = <<>> /\ errands = {} /\ charts = {} /\ mixed = {}
  /\ analyses \in 0 .. MaxAnalyses /\ said \in 0 .. MaxSaid
  /\ site \in [prod : BOOLEAN, cloud : BOOLEAN, airgap : BOOLEAN]
  /\ site.prod => site.airgap

Errand(kind, of, step, answer) ==
  [kind |-> kind, of |-> of, step |-> step, answer |-> answer, back |-> FALSE,
   config |-> emptyConfig, mount |-> mounts]

Mine(e) == chat.open /\ e.mount = mounts
Waits(kind) == {e \in errands : e.kind = kind /\ Mine(e)}

PanelOpened ==
  /\ ~chat.open /\ mounts < MaxMounts
  /\ chat' = Fresh /\ mounts' = mounts + 1
  /\ UNCHANGED <<analyses, charted, errands, charts, said, mixed, site>>

PanelClosed ==
  /\ chat.open /\ chat' = [chat EXCEPT !.open = FALSE]
  /\ UNCHANGED <<mounts, analyses, charted, errands, charts, said, mixed, site>>

(* The name of the connection is typed.                                    *)
unlockProdAi ==
  /\ chat.open /\ site.prod /\ ~chat.unlocked
  /\ chat' = [chat EXCEPT !.unlocked = TRUE]
  /\ UNCHANGED <<mounts, analyses, charted, errands, charts, said, mixed, site>>

clearConversation ==
  /\ chat.open /\ chat.cur # 0
  /\ chat' = [chat EXCEPT !.step = None, !.cur = 0]
  /\ UNCHANGED <<mounts, analyses, charted, errands, charts, said, mixed, site>>

(* A result is analysed; its session is its own.  Bound: an analysis begins*)
(* when the panel waits for nothing; what is answered then may overlap it. *)
startAnalyze ==
  /\ chat.open /\ analyses < MaxAnalyses /\ errands = {}
  /\ analyses' = analyses + 1
  /\ errands' = errands \cup {Errand("reset", analyses + 1, None, None)}
  /\ UNCHANGED <<chat, mounts, charted, charts, said, mixed, site>>

ResetAnswered(e) ==
  /\ e \in errands /\ e.kind = "reset"
  /\ errands' = errands \ {e} /\ charted' = Without(e.of)
  /\ chat' = IF ~Mine(e) THEN chat
              ELSE [chat EXCEPT !.cur = e.of, !.step = "type"]
  /\ UNCHANGED <<mounts, analyses, charts, said, mixed, site>>

MaySend == chat.open /\ ~chat.loading /\ (site.prod => chat.unlocked)
Asked == chat.step # None /\ chat.cur # 0

(* An answer, typed or clicked.                                            *)
handleAnalyzeAnswer(answer) ==
  /\ MaySend /\ Asked /\ answer \in Answers(chat.step)
  /\ chat.cur \in mixed => AnswerMixed
  /\ IF answer = "no"
       THEN /\ chat' = [chat EXCEPT !.step = "type"]
            /\ UNCHANGED <<errands, mixed>>
       ELSE /\ Cardinality(errands) < MaxTasks
            /\ errands' = errands \cup {Errand("answer", chat.cur, chat.step, answer)}
            /\ mixed' = mixed \cup {chat.cur : e \in {w \in Waits("answer") : w.of = chat.cur}}
            /\ UNCHANGED chat
  /\ UNCHANGED <<mounts, analyses, charted, charts, said, site>>

(* The sidecar configures the chart.                                       *)
Configures(e) ==
  /\ e \in errands /\ e.kind = "answer" /\ ~e.back
  /\ LET c == Patched(Config(e.of), e.step, e.answer)
     IN /\ charted' = chartConfigure(e.of, c)
        /\ errands' = (errands \ {e}) \cup {[e EXCEPT !.back = TRUE, !.config = c]}
  /\ UNCHANGED <<chat, mounts, analyses, charts, said, mixed, site>>

NewChart(e) ==
  [of |-> e.of, ready |-> isReady(e.config), again |-> \E c \in charts : c.of = e.of]

(* ... and the page goes on, with whatever is on the screen by then.  A    *)
(* panel that was closed still adds its chart.                             *)
Configured(e) ==
  /\ e \in errands /\ e.kind = "answer" /\ e.back
  /\ errands' = errands \ {e}
  /\ charts' = IF e.step = "confirm" THEN charts \cup {NewChart(e)} ELSE charts
  /\ chat' = IF ~Mine(e) THEN chat
              ELSE [chat EXCEPT !.step = After(e.step, e.config),
                                 !.cur = IF e.step = "confirm" THEN 0 ELSE @]
  /\ mixed' = IF Mine(e) /\ chat.cur # e.of THEN mixed \cup ({chat.cur} \cap Analyses) ELSE mixed
  /\ UNCHANGED <<mounts, analyses, charted, said, site>>

(* The call fails: the question is asked again.                            *)
ConfigureFails(e) ==
  /\ e \in errands /\ e.kind = "answer"
  /\ errands' = errands \ {e}
  /\ UNCHANGED <<chat, mounts, analyses, charted, charts, said, mixed, site>>

(* A message to the model.                                                 *)
send ==
  /\ MaySend /\ ~Asked /\ said < MaxSaid /\ Cardinality(errands) < MaxTasks
  /\ said' = said + 1
  /\ chat' = [chat EXCEPT !.loading = TRUE]
  /\ errands' = errands \cup {Errand("chat", 0, None, None)}
  /\ UNCHANGED <<mounts, analyses, charted, charts, mixed, site>>

(* The provider of the cloud reads the token first, which the keychain may *)
(* refuse and the air gap does, and last what was answered, which may be   *)
(* no JSON: exceptions that nobody handles.                                *)
MayThrow == site.cloud
Throws == site.cloud /\ site.airgap

(* Mutation: a failure leaves the panel waiting.                           *)
Settled_OnlyOk(p, ok) == IF ok THEN [p EXCEPT !.loading = FALSE] ELSE p
Settled(p, ok) == [p EXCEPT !.loading = FALSE]

(* The model, or an error, comes back; under an air gap only an error.     *)
ChatAnswered(e, ok) ==
  /\ e \in errands /\ e.kind = "chat" /\ ~Throws /\ (ok => ~site.airgap)
  /\ errands' = errands \ {e}
  /\ chat' = IF Mine(e) THEN Settled(chat, ok) ELSE chat
  /\ UNCHANGED <<mounts, analyses, charted, charts, said, mixed, site>>

ChatThrows(e) ==
  /\ e \in errands /\ e.kind = "chat" /\ MayThrow
  /\ errands' = errands \ {e}
  /\ chat' = IF Mine(e) THEN [chat EXCEPT !.threw = TRUE] ELSE chat
  /\ UNCHANGED <<mounts, analyses, charted, charts, said, mixed, site>>

AssistantNext ==
  \/ PanelOpened
  \/ PanelClosed
  \/ unlockProdAi
  \/ clearConversation
  \/ startAnalyze
  \/ send
  \/ \E answer \in {"bar", "kpi", "table", "column", "numbers", "texts", "sum", "count",
                    "title", "yes", "no"} : handleAnalyzeAnswer(answer)
  \/ \E e \in errands :
       \/ ResetAnswered(e)
       \/ Configures(e)
       \/ Configured(e)
       \/ ConfigureFails(e)
       \/ ChatAnswered(e, TRUE)
       \/ ChatAnswered(e, FALSE)
       \/ ChatThrows(e)

-----------------------------------------------------------------------------
(* Properties.                                                             *)

(* A chart that is added can be drawn, and is added once, unless answers   *)
(* of its analysis overlapped (SheepChat.svelte, handleAnalyzeAnswer: the  *)
(* panel adds whatever is configured, ready or not).                       *)
ChartsAreReady ==
  \A c \in charts : c.of \notin mixed => c.ready /\ ~c.again

(* A panel that waits has a message under way, unless the provider of the  *)
(* cloud threw since it was opened (SheepChat.svelte, send).               *)
WaitsForAnAnswer ==
  chat.open /\ chat.loading => Waits("chat") # {} \/ (site.cloud /\ chat.threw)

(* Refuted: a chart is never added twice, or when it cannot be drawn, even *)
(* when answers overlap (SheepChat.svelte, handleAnalyzeAnswer).           *)
EveryChartIsReady == \A c \in charts : c.ready /\ ~c.again

(* Refuted: a panel that waits has a message under way, whatever the       *)
(* provider does (SheepChat.svelte, send).                                 *)
PanelGetsOver == chat.open /\ chat.loading => Waits("chat") # {}
=============================================================================
