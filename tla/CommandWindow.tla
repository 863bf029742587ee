---------------------------- MODULE CommandWindow ----------------------------
(***************************************************************************)
(* The command window: CommandWindow.svelte, the parser of its lines       *)
(* (command/parser.ts), the dispatcher (command/executor.ts), the scripts  *)
(* (command/script-runner.ts), and its history (command_history.rs).       *)
(*                                                                         *)
(* A window goes with its tab: when another tab is shown, or another       *)
(* connection, the component is destroyed.  What its executor was doing    *)
(* goes on, next to what the window mounted after it does.                 *)
(*                                                                         *)
(* A statement is its lines, and a line is its place: the one it was fed   *)
(* to the window as, then, in a script, its place in that.                 *)
(***************************************************************************)
EXTENDS Naturals, Sequences

LOCAL INSTANCE SequencesExt

CONSTANTS
  Scripts,    \* the files a script may be loaded from: sequences of lines
  Pastes,     \* the texts that may be pasted: sequences of lines
  Conns,      \* connections
  MAX_DEPTH,  \* executor.ts: 5
  MaxLines,   \* bound: lines fed to a parser
  MaxWindows, \* bound: windows mounted
  None

(* A line is what it starts with, whether a ; ends it (the one a typed line*)
(* is given when its statement looks complete included), and whether it    *)
(* has a comment after that.                                               *)
SqlLine(semi, note) == [kind |-> "sql", semi |-> semi, note |-> note]
Line(kind) == [kind |-> kind, semi |-> FALSE, note |-> kind = "note"]
Lines == {SqlLine(semi, note) : semi, note \in BOOLEAN}
           \cup {Line(k) : k \in {"blank", "note", "slash", "begin", "exit", "start", "set", "show"}}

VARIABLES
  wins,   \* the windows mounted so far; the last one may be on the screen
  conn,   \* the connection that is open
  sent,   \* (history) the statements executed: their lines, those of them
          \* that end with a ;, the window they are of, the connection
  history \* the history in the database: the first lines of its commands

commandVars == <<wins, conn, sent, history>>

Idle == [mode |-> "idle", buffer |-> <<>>]

CommandInit == wins = <<>> /\ conn \in Conns /\ sent = <<>> /\ history = <<>>

-----------------------------------------------------------------------------
(* The parser.  An event is what is dispatched, with the lines it is of.   *)

Event(kind, lines) == [kind |-> kind, lines |-> lines]
Nothing == Event("nothing", <<>>)

(* Mutation: the buffer is not emptied.                                    *)
AfterStatement_Kept(p) == [p EXCEPT !.mode = "idle"]
AfterStatement(p) == Idle

(* The statement ends, in what is sent, where its first comment begins,    *)
(* whichever line that is in.                                              *)
Uncommented(lines) ==
  LET noted == {i \in DOMAIN lines : lines[i].note}
  IN IF noted = {} THEN lines
     ELSE SubSeq(lines, 1, CHOOSE i \in noted : \A j \in noted : i <= j)

ContinueSql(p, l) ==
  LET whole == Append(IF p.mode = "sql" THEN p.buffer ELSE <<>>, l)
  IN IF l.semi THEN [ev |-> Event("sql", Uncommented(whole)), p |-> AfterStatement(p)]
     ELSE [ev |-> Nothing, p |-> [mode |-> "sql", buffer |-> whole]]

Parsed(p, l) ==
  LET longer(mode) == [ev |-> Nothing, p |-> [mode |-> mode, buffer |-> Append(p.buffer, l)]]
  IN CASE p.mode = "plsql" /\ l.kind = "slash" ->
            [ev |-> Event("plsql", p.buffer), p |-> AfterStatement(p)]
       [] p.mode = "plsql" -> longer("plsql")
       [] p.mode = "sql" -> IF l.kind = "blank" THEN longer("sql") ELSE ContinueSql(p, l)
       [] l.kind \in {"blank", "slash", "note"} -> [ev |-> Nothing, p |-> p]
       [] l.kind \in {"exit", "start", "set", "show"} -> [ev |-> Event(l.kind, <<l>>), p |-> p]
       [] l.kind = "begin" -> longer("plsql")
       [] OTHER -> ContinueSql(p, l)

(* A script is parsed as a whole; what is not terminated is an error.      *)
EventsOf(lines) ==
  LET step(acc, l) ==
        LET r == Parsed(acc.p, l)
        IN [p |-> r.p, evs |-> IF r.ev = Nothing THEN acc.evs ELSE Append(acc.evs, r.ev)]
  IN FoldLeft(step, [p |-> Idle, evs |-> <<>>], lines).evs

(* The lines of the script the line at place n starts.                     *)
Placed(n, lines) == [i \in DOMAIN lines |-> [n |-> Append(n, i)] @@ lines[i]]

-----------------------------------------------------------------------------
(* The windows.                                                            *)

Latest == Len(wins)
Shown == wins # <<>> /\ wins[Latest].live
AllFed == FoldLeft(LAMBDA sum, v : sum + v.fed, 0, wins)
Busy(w) == wins[w].op # None \/ wins[w].script # <<>>

(* The history is loaded, newest first; it is turned round.                *)
Mounted ==
  /\ ~Shown /\ Latest < MaxWindows
  /\ wins' = Append(wins, [live |-> TRUE, conn |-> conn, p |-> Idle, paste |-> <<>>,
                           fed |-> 0, script |-> <<>>, op |-> None, loading |-> TRUE, recall |-> <<>>])
  /\ UNCHANGED <<conn, sent, history>>

HistoryLoaded ==
  /\ Shown /\ wins[Latest].loading
  /\ wins' = [wins EXCEPT ![Latest].loading = FALSE,
                          ![Latest].recall = Reverse(Reverse(history))]
  /\ UNCHANGED <<conn, sent, history>>

(* Another tab is shown: what was left of a paste is not fed.              *)
Gone(w) == [w EXCEPT !.live = FALSE, !.paste = <<>>, !.p = Idle, !.loading = FALSE,
                     !.recall = <<>>]

Hidden ==
  /\ Shown
  /\ wins' = [wins EXCEPT ![Latest] = Gone(@)]
  /\ UNCHANGED <<conn, sent, history>>

Reconnected(c) ==
  /\ c # conn
  /\ conn' = c
  /\ wins' = IF Shown THEN [wins EXCEPT ![Latest] = Gone(@)] ELSE wins
  /\ UNCHANGED <<sent, history>>

(* What an event leaves the executor awaiting.  SHOW ERRORS is a directive *)
(* that sends a query of its own.                                          *)
Awaits(w, ev) ==
  CASE ev.kind \in {"sql", "plsql", "show"} -> [ev |-> ev, pc |-> "asked"]
    [] ev.kind = "start" -> IF Len(w.script) >= MAX_DEPTH THEN None
                            ELSE [ev |-> ev, pc |-> "loading"]
    [] ev.kind \in {"exit", "set"} -> [ev |-> ev, pc |-> "history"]
    [] OTHER -> None

(* Mutation: a line is taken while a statement runs.                       *)
Ready_Always(w) == TRUE
Ready(w) == ~Busy(w)

(* A line of the window: the input is disabled while one is under way.     *)
Fed(line, rest, typed) ==
  /\ Shown /\ Ready(Latest) /\ AllFed < MaxLines
  /\ LET w == wins[Latest]
         r == Parsed(w.p, [n |-> <<w.fed + 1>>] @@ line)
     IN wins' = [wins EXCEPT ![Latest] =
          [w EXCEPT !.fed = @ + 1, !.p = r.p, !.paste = rest, !.op = Awaits(w, r.ev),
                    !.recall = IF typed /\ line.kind # "blank" THEN <<<<Latest, <<w.fed + 1>>>>>> \o @ ELSE @]]
  /\ UNCHANGED <<conn, sent, history>>

Typed(line) == Shown /\ wins[Latest].paste = <<>> /\ Fed(line, <<>>, TRUE)

(* The lines of a paste but the last, which stays in the input.            *)
Pasted(text) == Shown /\ wins[Latest].paste = <<>> /\ Fed(Head(text), Front(Tail(text)), FALSE)
PasteFed == Shown /\ wins[Latest].paste # <<>>
            /\ Fed(Head(wins[Latest].paste), Tail(wins[Latest].paste), FALSE)

(* Ctrl-C, which the disabled input does not hear while something runs.    *)
Interrupted ==
  /\ Shown /\ ~Busy(Latest) /\ wins[Latest].paste = <<>>
  /\ wins' = [wins EXCEPT ![Latest].p = Idle]
  /\ UNCHANGED <<conn, sent, history>>

-----------------------------------------------------------------------------
(* The executor of a window, whether it is shown or not.                   *)

Awaiting(w, pc) == wins[w].op # None /\ wins[w].op.pc = pc

Statement(w, ev) ==
  [by |-> w, on |-> conn, kind |-> ev.kind, lines |-> [i \in DOMAIN ev.lines |-> ev.lines[i].n],
   ends |-> {i \in DOMAIN ev.lines : ev.lines[i].semi}]

(* A statement is confirmed, or cancelled or refused, and executed by      *)
(* whatever connection is open.                                            *)
StatementSent(w, yes) ==
  /\ Awaiting(w, "asked")
  /\ wins' = [wins EXCEPT ![w].op.pc = IF yes THEN "running" ELSE "history"]
  /\ sent' = IF yes THEN Append(sent, Statement(w, wins[w].op.ev)) ELSE sent
  /\ UNCHANGED <<conn, history>>

StatementAnswered(w) ==
  /\ Awaiting(w, "running")
  /\ wins' = [wins EXCEPT ![w].op.pc = "history"]
  /\ UNCHANGED <<conn, sent, history>>

(* The command is appended to the history, if that can be done; EXIT then  *)
(* closes the tab.                                                         *)
HistoryAppended(w, ok) ==
  /\ Awaiting(w, "history")
  /\ LET v == [wins[w] EXCEPT !.op = None]
     IN wins' = [wins EXCEPT ![w] = IF wins[w].op.ev.kind = "exit" THEN Gone(v) ELSE v]
  /\ history' = IF ok THEN Append(history, <<w, wins[w].op.ev.lines[1].n>>) ELSE history
  /\ UNCHANGED <<conn, sent>>

(* Mutation: a script is not awaited by the one that starts it.            *)
Within_Behind(events, script) == script \o <<events>>
Within(events, script) == <<events>> \o script

ScriptLoaded(w, lines) ==
  /\ Awaiting(w, "loading") /\ AllFed + Len(lines) <= MaxLines
  /\ wins' = [wins EXCEPT ![w].op = None, ![w].fed = @ + Len(lines),
                          ![w].script =
                            Within(EventsOf(Placed(wins[w].op.ev.lines[1].n, lines)), @)]
  /\ UNCHANGED <<conn, sent, history>>

ScriptNotFound(w) ==
  /\ Awaiting(w, "loading")
  /\ wins' = [wins EXCEPT ![w].op = None]
  /\ UNCHANGED <<conn, sent, history>>

(* The next event of the innermost script, or its end.                     *)
ScriptWent(w) ==
  /\ wins[w].op = None /\ wins[w].script # <<>>
  /\ LET frame == Head(wins[w].script)
     IN wins' = [wins EXCEPT ![w] =
          IF frame = <<>> THEN [@ EXCEPT !.script = Tail(@)]
          ELSE [@ EXCEPT !.script = <<Tail(frame)>> \o Tail(@),
                         !.op = Awaits(wins[w], Head(frame))]]
  /\ UNCHANGED <<conn, sent, history>>

CommandNext ==
  \/ Mounted \/ HistoryLoaded \/ Hidden \/ PasteFed \/ Interrupted
  \/ \E c \in Conns : Reconnected(c)
  \/ \E line \in Lines : Typed(line)
  \/ \E text \in Pastes : Pasted(text)
  \/ \E w \in DOMAIN wins :
       \/ StatementAnswered(w) \/ ScriptNotFound(w) \/ ScriptWent(w)
       \/ \E lines \in Scripts : ScriptLoaded(w, lines)
       \/ \E yes \in BOOLEAN : StatementSent(w, yes) \/ HistoryAppended(w, yes)

CommandSpec == CommandInit /\ [][CommandNext]_commandVars

-----------------------------------------------------------------------------
(* Properties.                                                             *)

(* Places in their order: a script's lines are where it is started.        *)
Before(a, b) ==
  \E k \in DOMAIN a \cap DOMAIN b : a[k] < b[k] /\ \A j \in 1 .. k - 1 : a[j] = b[j]

(* No line is executed twice, and a window executes its statements in the  *)
(* order of their lines, a script's in the place of the line that starts   *)
(* it, whatever mixture of typing, pastes, nested scripts, cancelled       *)
(* questions and interruptions they come from (executor.ts:691,            *)
(* CommandWindow.svelte:118); a statement's lines follow each other, and   *)
(* only the last ends it.                                                  *)
LinesRunOnceInOrder ==
  /\ \A i, j \in DOMAIN sent :
       i < j /\ sent[i].by = sent[j].by => Before(Last(sent[i].lines), Head(sent[j].lines))
  /\ \A i \in DOMAIN sent :
       LET s == sent[i]
       IN /\ \A k \in 2 .. Len(s.lines) :
               /\ Front(s.lines[k]) = Front(s.lines[k - 1])
               /\ Last(s.lines[k]) = Last(s.lines[k - 1]) + 1
          /\ s.kind = "sql" => s.ends \subseteq {Len(s.lines)}

(* "multi-line statements accumulate in the parser buffer correctly"       *)
(* (CommandWindow.svelte:179): what is sent goes to the line of its ;.     *)
StatementsAreWhole ==
  \A i \in DOMAIN sent : sent[i].kind = "sql" => sent[i].ends # {}

(* "the user can recall recent inputs with the up arrow" (store.rs:224):   *)
(* the newest comes first.                                                 *)
Newer(a, b) == a[1] > b[1] \/ (a[1] = b[1] /\ Before(b[2], a[2]))
RecallIsNewestFirst ==
  \A w \in DOMAIN wins :
    \A i \in 2 .. Len(wins[w].recall) : Newer(wins[w].recall[i - 1], wins[w].recall[i])
=============================================================================
