--------------------------- MODULE SqlEditorProofs ---------------------------
(***************************************************************************)
(* Proofs about SqlEditor, for any connections, any menu of runs and any   *)
(* bounds.  Each layer rests on those before it:                           *)
(*   - the types, which calls a run has out, and that a question belongs   *)
(*     to the run that waits for it (RunsHold);                            *)
(*   - that the sidecar counts the transaction as it is and the last word  *)
(*     on it is still to come or was true (SettlesStep);                   *)
(*   - which run a tab's flag speaks of (FlagsStep).                       *)
(***************************************************************************)
EXTENDS SqlEditor, FiniteSetTheorems, TLAPS

Tab == [copy : Nat, running : BOOLEAN, by : Nat, torn : BOOLEAN]

(* A run under way, and what is kept of one that ended.                    *)
Busy == [pc : {"sent", "confirm", "unsafe", "ddl"}, kind : Menu,
         tab : Nat, copy : Nat, conn : Conns, epoch : Nat, acked : BOOLEAN, row : {None}]
Over == [pc : {"done"}, tab : Nat, epoch : Nat, conn : Conns, row : Conns \cup {None}]
Run == Busy \cup Over

What == {"run", "state", "end"}
Sent == [call : What, n : Nat, epoch : Nat]
Answer == [call : What, n : Nat, epoch : Nat,
           value : {"ok", "error", "unsafe", "ddl", "open", "closed"}]

Slots == [confirm : Nat, unsafe : Nat, ddl : Nat]
Txs == [open : BOOLEAN, counted : BOOLEAN, shown : BOOLEAN, ends : Nat,
        untold : SUBSET {"sidecar", "store"}]

TypeInv ==
  /\ ctx \in Conns \cup {None} /\ epoch \in Nat
  /\ tab \in Seq(Tab) /\ tabs \in Seq(DOMAIN tab) /\ active \in DOMAIN tab \cup {0}
  /\ run \in Seq(Run)
  /\ ask \in Slots
  /\ pending \subseteq Sent /\ answers \in Seq(Answer)
  /\ tx \in Txs

(* The run a call or an answer belongs to waits for it, ...                *)
Awaited(c) ==
  /\ c.epoch <= epoch
  /\ c.call = "run" => c.n \in DOMAIN run /\ run[c.n].pc = "sent"

(* ... and for no other.                                                   *)
OfRun(c, r) == c.call = "run" /\ c.n = r
Rivals(c, d) == OfRun(c, d.n) /\ c.call = d.call

CallsInv ==
  /\ \A c \in pending : Awaited(c)
  /\ \A i \in DOMAIN answers : Awaited(answers[i])
  /\ \A c, d \in pending : Rivals(c, d) => c = d
  /\ \A c \in pending : \A i \in DOMAIN answers : ~Rivals(c, answers[i])
  /\ \A i, j \in DOMAIN answers : Rivals(answers[i], answers[j]) => i = j

(* A question is that of a run that waits for it.                          *)
AskInv ==
  /\ ask.confirm # 0 => ask.confirm \in DOMAIN run /\ run[ask.confirm].pc = "confirm"
  /\ ask.unsafe # 0 => ask.unsafe \in DOMAIN run /\ run[ask.unsafe].pc = "unsafe"
  /\ ask.ddl # 0 => ask.ddl \in DOMAIN run /\ run[ask.ddl].pc = "ddl"

RunInv == TypeInv /\ CallsInv /\ AskInv

(* An answer after which the store asks for the transaction, one that      *)
(* settles what it shows, and what such an answer says.                    *)
AsksAgain(a) == a.call = "run" /\ Reconciles(run[a.n], a.value)
Settling(a) == (a.call = "state" /\ a.value # "error") \/ (a.call = "end" /\ a.value = "ok")
SaysOpen(a) == a.call = "state" /\ a.value = "open"

(* The sidecar counts the transaction as it is, unless it was not told.    *)
CountInv == "sidecar" \notin tx.untold => (tx.counted <=> tx.open)

(* The sidecar serves a call.                                              *)
Serves(c) ==
  \/ \E value \in {"ok", "error", "unsafe", "ddl"}, effect \in {"reads", "changes", "ends"},
        heard \in {"none", "told", "unheard"} : RunServed(c, value, effect, heard)
  \/ \E value \in {"ok", "error"}, over \in BOOLEAN : EndServed(c, value, over)
  \/ \E heard \in {"none", "told", "unheard"} : StateServed(c, heard)
  \/ StateRefused(c)

-----------------------------------------------------------------------------
(***************************************************************************)
(* Sequences whose entries change.                                         *)
(***************************************************************************)

(* One entry is replaced, ...                                              *)
LEMMA EntryReplaced ==
  ASSUME NEW T, NEW s \in Seq(T)
  PROVE  \A i \in DOMAIN s : \A e \in T :
           /\ [s EXCEPT ![i] = e] \in Seq(T)
           /\ DOMAIN [s EXCEPT ![i] = e] = DOMAIN s
           /\ [s EXCEPT ![i] = e][i] = e
           /\ \A j \in DOMAIN s \ {i} : [s EXCEPT ![i] = e][j] = s[j]
  OBVIOUS

(* ... all are, each by one of the same type, ...                          *)
LEMMA EntriesReplaced ==
  ASSUME NEW T, NEW s \in Seq(T), NEW F,
         DOMAIN F = DOMAIN s, F = [t \in DOMAIN s |-> F[t]],
         \A t \in DOMAIN s : F[t] \in T
  PROVE  F \in Seq(T)
  OBVIOUS

(* ... one is added, ...                                                   *)
LEMMA EntryAdded ==
  ASSUME NEW T, NEW s \in Seq(T), NEW e \in T
  PROVE  /\ Append(s, e) \in Seq(T)
         /\ DOMAIN s = 1 .. Len(s) /\ Len(s) \in Nat
         /\ Len(s) + 1 \notin DOMAIN s /\ Len(s) + 1 # 0
         /\ DOMAIN Append(s, e) = DOMAIN s \cup {Len(s) + 1}
         /\ Append(s, e)[Len(s) + 1] = e
         /\ \A j \in DOMAIN s : Append(s, e)[j] = s[j]
  OBVIOUS

(* ... one is taken out of its place, ...                                  *)
LEMMA EntryRemoved ==
  ASSUME NEW T, NEW s \in Seq(T), NEW i \in DOMAIN s
  PROVE  /\ RemoveAt(s, i) \in Seq(T)
         /\ Len(RemoveAt(s, i)) = Len(s) - 1
         /\ i \in 1 .. Len(s)
  BY DEF RemoveAt

(* ... the first is taken.                                                 *)
LEMMA HeadTaken ==
  ASSUME NEW T, NEW s \in Seq(T), s # <<>>
  PROVE  /\ Tail(s) \in Seq(T)
         /\ Head(s) \in T /\ Head(s) = s[1] /\ 1 \in DOMAIN s
         /\ \A i \in DOMAIN Tail(s) : /\ i + 1 \in DOMAIN s /\ i + 1 # 1
                                      /\ Tail(s)[i] = s[i + 1]
         /\ \A j \in DOMAIN s \ {1} : j - 1 \in DOMAIN Tail(s) /\ Tail(s)[j - 1] = s[j]
         /\ DOMAIN s \subseteq Nat /\ DOMAIN Tail(s) \subseteq Nat
  OBVIOUS

-----------------------------------------------------------------------------
(***************************************************************************)
(* What a run does to its tab.                                             *)
(***************************************************************************)

(* A run that starts or goes on marks the object it holds, ...             *)
LEMMA TakenHolds ==
  tab \in Seq(Tab) => \A r \in Nat : \A e :
           /\ Taken(r, e) \in Seq(Tab) /\ DOMAIN Taken(r, e) = DOMAIN tab
           /\ \A t \in DOMAIN tab :
                /\ Taken(r, e)[t].copy = tab[t].copy
                /\ Taken(r, e)[t].torn = tab[t].torn
                /\ Holds(e, t) => Taken(r, e)[t].running = TRUE /\ Taken(r, e)[t].by = r
                /\ ~Holds(e, t) => Taken(r, e)[t] = tab[t]
<1> SUFFICES ASSUME tab \in Seq(Tab), NEW r \in Nat, NEW e
             PROVE  /\ Taken(r, e) \in Seq(Tab) /\ DOMAIN Taken(r, e) = DOMAIN tab
                    /\ \A t \in DOMAIN tab :
                         /\ Taken(r, e)[t].copy = tab[t].copy
                         /\ Taken(r, e)[t].torn = tab[t].torn
                         /\ Holds(e, t) => Taken(r, e)[t].running = TRUE /\ Taken(r, e)[t].by = r
                         /\ ~Holds(e, t) => Taken(r, e)[t] = tab[t]
  OBVIOUS
<1> DEFINE F == Taken(r, e)
<1>1. DOMAIN F = DOMAIN tab /\ F = [t \in DOMAIN tab |-> F[t]]
  BY DEF Taken
<1>2. \A t \in DOMAIN tab : tab[t] \in Tab
  OBVIOUS
<1>3. \A t \in DOMAIN tab :
        /\ Holds(e, t) => F[t] = [tab[t] EXCEPT !.running = TRUE, !.by = r]
        /\ ~Holds(e, t) => F[t] = tab[t]
  BY DEF Taken
<1>4. \A t \in DOMAIN tab :
        LET x == [tab[t] EXCEPT !.running = TRUE, !.by = r]
        IN x \in Tab /\ x.copy = tab[t].copy /\ x.torn = tab[t].torn
           /\ x.running = TRUE /\ x.by = r
  BY <1>2 DEF Tab
<1>5. \A t \in DOMAIN tab :
        /\ F[t] \in Tab
        /\ F[t].copy = tab[t].copy
        /\ F[t].torn = tab[t].torn
        /\ Holds(e, t) => F[t].running = TRUE /\ F[t].by = r
        /\ ~Holds(e, t) => F[t] = tab[t]
  BY <1>2, <1>3, <1>4
<1> HIDE DEF F
<1>6. F \in Seq(Tab)
  BY <1>1, <1>5, EntriesReplaced
<1>7. QED BY <1>1, <1>5, <1>6 DEF F

(* ... and one that ends frees it.                                         *)
LEMMA FreedHolds ==
  tab \in Seq(Tab) => \A e :
           /\ Freed(e) \in Seq(Tab) /\ DOMAIN Freed(e) = DOMAIN tab
           /\ \A t \in DOMAIN tab :
                /\ Freed(e)[t].copy = tab[t].copy
                /\ Freed(e)[t].torn = tab[t].torn
                /\ Holds(e, t) => Freed(e)[t].running = FALSE
                /\ ~Holds(e, t) => Freed(e)[t] = tab[t]
<1> SUFFICES ASSUME tab \in Seq(Tab), NEW e
             PROVE  /\ Freed(e) \in Seq(Tab) /\ DOMAIN Freed(e) = DOMAIN tab
                    /\ \A t \in DOMAIN tab :
                         /\ Freed(e)[t].copy = tab[t].copy
                         /\ Freed(e)[t].torn = tab[t].torn
                         /\ Holds(e, t) => Freed(e)[t].running = FALSE
                         /\ ~Holds(e, t) => Freed(e)[t] = tab[t]
  OBVIOUS
<1> DEFINE F == Freed(e)
<1>1. DOMAIN F = DOMAIN tab /\ F = [t \in DOMAIN tab |-> F[t]]
  BY DEF Freed
<1>2. \A t \in DOMAIN tab : tab[t] \in Tab
  OBVIOUS
<1>3. \A t \in DOMAIN tab :
        /\ Holds(e, t) => F[t] = [tab[t] EXCEPT !.running = FALSE, !.by = 0]
        /\ ~Holds(e, t) => F[t] = tab[t]
  BY DEF Freed
<1>4. \A t \in DOMAIN tab :
        LET x == [tab[t] EXCEPT !.running = FALSE, !.by = 0]
        IN x \in Tab /\ x.copy = tab[t].copy /\ x.torn = tab[t].torn /\ x.running = FALSE
  BY <1>2 DEF Tab
<1>5. \A t \in DOMAIN tab :
        /\ F[t] \in Tab
        /\ F[t].copy = tab[t].copy
        /\ F[t].torn = tab[t].torn
        /\ Holds(e, t) => F[t].running = FALSE
        /\ ~Holds(e, t) => F[t] = tab[t]
  BY <1>2, <1>3, <1>4
<1> HIDE DEF F
<1>6. F \in Seq(Tab)
  BY <1>1, <1>5, EntriesReplaced
<1>7. QED BY <1>1, <1>5, <1>6 DEF F

(* What is kept of a run that ends names the same tab and page.            *)
LEMMA DoneHolds ==
  \A e \in Busy : \A row \in Conns \cup {None} :
    LET d == Done([e EXCEPT !.row = row])
    IN /\ Done(e) \in Over /\ d \in Over
       /\ Done(e).pc = "done" /\ Done(e).tab = e.tab /\ Done(e).epoch = e.epoch
       /\ d.pc = "done" /\ d.tab = e.tab /\ d.epoch = e.epoch
       /\ Freed([e EXCEPT !.row = row]) = Freed(e)
<1> SUFFICES ASSUME NEW e \in Busy, NEW row \in Conns \cup {None}
             PROVE  LET d == Done([e EXCEPT !.row = row])
                    IN /\ Done(e) \in Over /\ d \in Over
                       /\ Done(e).pc = "done" /\ Done(e).tab = e.tab
                       /\ Done(e).epoch = e.epoch
                       /\ d.pc = "done" /\ d.tab = e.tab /\ d.epoch = e.epoch
                       /\ Freed([e EXCEPT !.row = row]) = Freed(e)
  OBVIOUS
<1>1. LET x == [e EXCEPT !.row = row]
      IN x.tab = e.tab /\ x.epoch = e.epoch /\ x.copy = e.copy /\ x.conn = e.conn
         /\ x.row = row
  BY DEF Busy
<1>2. Freed([e EXCEPT !.row = row]) = Freed(e)
  BY <1>1 DEF Freed, Holds
<1>3. QED BY <1>1, <1>2 DEF Done, Busy, Over

-----------------------------------------------------------------------------
(***************************************************************************)
(* The calls and the answers.                                              *)
(***************************************************************************)

(* The answer at the head is awaited, and by a run that has nothing else   *)
(* under way.                                                              *)
LEMMA HeadAnswered ==
  ASSUME RunInv, answers # <<>>
  PROVE  /\ Told \in Answer /\ Tail(answers) \in Seq(Answer)
         /\ Awaited(Told)
         /\ OfRun(Told, Told.n) =>
              /\ \A c \in pending : ~OfRun(c, Told.n)
              /\ \A i \in DOMAIN Tail(answers) : ~OfRun(Tail(answers)[i], Told.n)
<1>1. answers \in Seq(Answer) /\ CallsInv
  BY DEF RunInv, TypeInv
<1>2. /\ Tail(answers) \in Seq(Answer)
      /\ Told \in Answer /\ Told = answers[1] /\ 1 \in DOMAIN answers
      /\ \A i \in DOMAIN Tail(answers) : /\ i + 1 \in DOMAIN answers /\ i + 1 # 1
                                         /\ Tail(answers)[i] = answers[i + 1]
  BY <1>1, HeadTaken DEF Told
<1>3. Awaited(answers[1])
  BY <1>1, <1>2 DEF CallsInv
<1>4. ASSUME OfRun(answers[1], answers[1].n), NEW c, Awaited(c), OfRun(c, answers[1].n)
      PROVE  Rivals(c, answers[1]) /\ Rivals(answers[1], c)
  BY <1>3, <1>4 DEF Awaited, OfRun, Rivals
<1>5. ASSUME OfRun(answers[1], answers[1].n), NEW c \in pending PROVE ~OfRun(c, answers[1].n)
  BY <1>1, <1>2, <1>4, <1>5 DEF CallsInv
<1>6. ASSUME OfRun(answers[1], answers[1].n), NEW i \in DOMAIN Tail(answers)
      PROVE  ~OfRun(Tail(answers)[i], answers[1].n)
  <2>1. i + 1 \in DOMAIN answers /\ i + 1 # 1 /\ Tail(answers)[i] = answers[i + 1]
    BY <1>2
  <2>2. Awaited(answers[i + 1]) /\ ~Rivals(answers[1], answers[i + 1])
    BY <1>1, <1>2, <2>1 DEF CallsInv
  <2>3. QED BY <1>4, <1>6, <2>1, <2>2
<1>7. QED BY <1>2, <1>3, <1>5, <1>6

(* A step that moves a run nothing is under way for, and sends at most one *)
(* call, for that run.                                                     *)
LEMMA CallsKept ==
  ASSUME RunInv, NEW r, NEW P, epoch' = epoch,
         \A q \in DOMAIN run \ {r} : q \in DOMAIN run' /\ run'[q].pc = run[q].pc,
         \A c \in pending : ~OfRun(c, r),
         \A i \in DOMAIN answers' : ~OfRun(answers'[i], r),
         answers' = answers \/ (answers # <<>> /\ answers' = Tail(answers)),
         pending' = pending \cup P,
         \A c \in P : c.epoch <= epoch',
         \A c \in P : c.call = "run" => c.n \in DOMAIN run' /\ run'[c.n].pc = "sent",
         \A c, d \in P : c = d,
         \A c \in P : c.call = "run" => c.n = r
  PROVE  CallsInv'
<1>1. answers \in Seq(Answer) /\ CallsInv
  BY DEF RunInv, TypeInv
<1>2. PICK f : /\ \A i \in DOMAIN answers' : /\ f[i] \in DOMAIN answers
                                             /\ answers'[i] = answers[f[i]]
               /\ \A i, j \in DOMAIN answers' : f[i] = f[j] => i = j
  <2>1. CASE answers' = answers
    <3> DEFINE g == [i \in DOMAIN answers |-> i]
    <3>1. /\ \A i \in DOMAIN answers' : g[i] \in DOMAIN answers /\ answers'[i] = answers[g[i]]
          /\ \A i, j \in DOMAIN answers' : g[i] = g[j] => i = j
      BY <2>1
    <3>2. QED BY <3>1
  <2>2. CASE answers # <<>> /\ answers' = Tail(answers)
    <3> DEFINE g == [i \in DOMAIN answers' |-> i + 1]
    <3>1. /\ \A i \in DOMAIN answers' : /\ i + 1 \in DOMAIN answers
                                        /\ answers'[i] = answers[i + 1]
          /\ DOMAIN answers' \subseteq Nat
      BY <1>1, <2>2, HeadTaken
    <3>2. \A i \in DOMAIN answers' : g[i] = i + 1
      OBVIOUS
    <3> HIDE DEF g
    <3>3. /\ \A i \in DOMAIN answers' : g[i] \in DOMAIN answers /\ answers'[i] = answers[g[i]]
          /\ \A i, j \in DOMAIN answers' : g[i] = g[j] => i = j
      BY <3>1, <3>2
    <3>4. QED BY <3>3
  <2>3. QED BY <2>1, <2>2
<1>3. ASSUME NEW c, Awaited(c), ~OfRun(c, r) PROVE Awaited(c)'
  BY <1>3 DEF Awaited, OfRun
<1>4. \A c \in pending' : Awaited(c)'
  BY <1>1, <1>3 DEF CallsInv, Awaited
<1>5. (\A i \in DOMAIN answers : Awaited(answers[i]))'
  BY <1>1, <1>2, <1>3 DEF CallsInv
<1>6. \A c, d \in pending' : Rivals(c, d) => c = d
  BY <1>1 DEF CallsInv, Rivals, OfRun
<1>7. ASSUME NEW c \in pending', NEW i \in DOMAIN answers' PROVE ~Rivals(c, answers'[i])
  <2>1. CASE c \in pending
    <3>1. f[i] \in DOMAIN answers /\ answers'[i] = answers[f[i]]
      BY <1>2
    <3>2. QED BY <1>1, <2>1, <3>1 DEF CallsInv
  <2>2. CASE c \in P
    <3>1. OfRun(c, answers'[i].n) /\ c.call = answers'[i].call => OfRun(answers'[i], r)
      BY <2>2 DEF OfRun
    <3>2. QED BY <3>1 DEF Rivals
  <2>3. QED BY <2>1, <2>2
<1>8. \A i, j \in DOMAIN answers' : Rivals(answers'[i], answers'[j]) => i = j
  BY <1>1, <1>2 DEF CallsInv
<1>9. QED BY <1>4, <1>5, <1>6, <1>7, <1>8 DEF CallsInv, Rivals, OfRun

(* The sidecar turns a call into an answer to the same run.                *)
LEMMA ServedKeeps ==
  ASSUME RunInv, NEW c \in pending, NEW after,
         NEW value \in {"ok", "error", "unsafe", "ddl", "open", "closed"},
         Served(c, value, after),
         after \in Txs
  PROVE  RunInv'
<1> DEFINE a == [call |-> c.call, n |-> c.n, epoch |-> c.epoch, value |-> value]
<1>1. /\ answers \in Seq(Answer) /\ CallsInv /\ c \in Sent
      /\ pending' = pending \ {c} /\ answers' = Append(answers, a)
      /\ UNCHANGED <<ctx, epoch, tab, tabs, active, run, ask>> /\ tx' = after
  BY DEF RunInv, TypeInv, Served, RunAlone
<1>2. a \in Answer /\ a.call = c.call /\ a.n = c.n /\ a.epoch = c.epoch
  BY <1>1 DEF Sent, Answer
<1> HIDE DEF a
<1>3. /\ answers' \in Seq(Answer)
      /\ DOMAIN answers' = DOMAIN answers \cup {Len(answers) + 1}
      /\ answers'[Len(answers) + 1] = a
      /\ \A j \in DOMAIN answers : answers'[j] = answers[j]
  BY <1>1, <1>2, EntryAdded
<1>4. TypeInv'
  BY <1>1, <1>3 DEF RunInv, TypeInv
<1>5. AskInv'
  BY <1>1 DEF RunInv, AskInv
<1>6. CallsInv'
  <2>1. Awaited(c) /\ Awaited(a)
    BY <1>1, <1>2 DEF CallsInv, Awaited
  <2>2. \A d : Awaited(d) => Awaited(d)'
    BY <1>1 DEF Awaited
  <2>3. \A d \in pending' : Awaited(d)'
    BY <1>1, <2>2 DEF CallsInv
  <2>4. (\A i \in DOMAIN answers : Awaited(answers[i]))'
    BY <1>1, <1>3, <2>1, <2>2 DEF CallsInv
  <2>5. \A d \in pending : /\ Rivals(d, a) <=> Rivals(d, c)
                           /\ Rivals(a, d) <=> Rivals(c, d)
    BY <1>2 DEF Rivals, OfRun
  <2>6. \A i \in DOMAIN answers : ~Rivals(answers[i], a) /\ ~Rivals(a, answers[i])
    BY <1>1, <1>2 DEF CallsInv, Rivals, OfRun
  <2>7. \A d, e \in pending' : Rivals(d, e) => d = e
    BY <1>1 DEF CallsInv
  <2>8. \A d \in pending' : \A i \in DOMAIN answers' : ~Rivals(d, answers'[i])
    BY <1>1, <1>3, <2>5 DEF CallsInv
  <2>9. \A i, j \in DOMAIN answers' : Rivals(answers'[i], answers'[j]) => i = j
    BY <1>1, <1>3, <2>6 DEF CallsInv
  <2>10. QED BY <2>3, <2>4, <2>7, <2>8, <2>9 DEF CallsInv, Rivals, OfRun
<1>7. QED BY <1>4, <1>5, <1>6 DEF RunInv

(* What the sidecar answers settles the transaction as it is, or makes the *)
(* store ask, or says nothing of it; or somebody was not told.             *)
Rightly(c, value, after) ==
  LET a == [call |-> c.call, n |-> c.n, epoch |-> c.epoch, value |-> value]
  IN \/ Settling(a) /\ (SaysOpen(a) <=> after.open)
     \/ after.untold # {}
     \/ AsksAgain(a)
     \/ /\ ~Settling(a) /\ c.call # "state"
        /\ after.untold = tx.untold
        /\ after.shown <=> tx.shown
        /\ after.open <=> tx.open

LEMMA RunServedWell ==
  ASSUME tx \in Txs, NEW c,
         NEW value \in {"ok", "error", "unsafe", "ddl"},
         NEW effect \in {"reads", "changes", "ends"},
         NEW heard \in {"none", "told", "unheard"},
         run[c.n].kind \in Kind, RunServed(c, value, effect, heard)
  PROVE  \E after \in Txs :
           /\ Served(c, value, after)
           /\ CountInv => ("sidecar" \notin after.untold => (after.counted <=> after.open))
           /\ Rightly(c, value, after)
<1> DEFINE e == run[c.n]
           open == Opened(effect)
           counted == Counted(e.kind, effect, heard)
           untold == Untold(e, value, effect, heard)
           after == [tx EXCEPT !.open = open, !.counted = counted, !.untold = untold]
           a == [call |-> c.call, n |-> c.n, epoch |-> c.epoch, value |-> value]
<1>1. /\ Served(c, value, after) /\ c.call = "run"
      /\ effect \in Effects(e.kind, value) /\ heard \in Asked(e.kind, value)
  BY DEF RunServed
<1>2. open \in BOOLEAN /\ tx.untold \subseteq {"sidecar", "store"}
      /\ tx.open \in BOOLEAN /\ tx.counted \in BOOLEAN
  BY DEF Opened, Txs
<1>3. counted \in BOOLEAN
  BY <1>2 DEF Counted
<1>4. untold \subseteq {"sidecar", "store"}
  BY <1>2 DEF Untold
<1>5. /\ after \in Txs /\ after.open = open /\ after.counted = counted
      /\ after.untold = untold /\ after.shown = tx.shown
  BY <1>2, <1>3, <1>4 DEF Txs
<1>6. effect = "reads" => open = tx.open
  BY <1>2 DEF Opened
<1>7. a.call = "run" /\ a.n = c.n /\ a.value = value /\ ~Settling(a)
  BY <1>1 DEF Settling
<1>8. heard = "told" => e.kind.sync \in {"counts", "asks"}
  BY <1>1 DEF Asked, Kind
<1>9. ASSUME CountInv, "sidecar" \notin untold PROVE counted <=> open
  <2>1. CASE heard = "none"
    <3>1. effect = "reads" /\ "sidecar" \notin tx.untold /\ counted = tx.counted
      BY <1>9, <2>1 DEF Untold, Counted
    <3>2. QED BY <1>6, <1>9, <3>1 DEF CountInv
  <2>2. CASE heard = "unheard"
    BY <1>9, <2>2 DEF Untold
  <2>3. CASE heard = "told"
    <3>1. counted = (open /\ (tx.counted \/ e.kind.sync = "counts"))
      BY <2>3 DEF Counted
    <3>2. CASE e.kind.sync = "counts" \/ ~open
      BY <1>2, <3>1, <3>2
    <3>3. CASE e.kind.sync # "counts" /\ open
      <4>1. "sidecar" \notin tx.untold /\ (effect # "reads" => e.kind.sync # "asks")
        BY <1>9, <2>3, <3>3 DEF Untold
      <4>2. CASE effect = "reads"
        BY <1>6, <1>9, <3>1, <3>3, <4>1, <4>2 DEF CountInv
      <4>3. CASE effect # "reads"
        BY <1>8, <2>3, <3>3, <4>1, <4>3
      <4>4. QED BY <4>2, <4>3
    <3>4. QED BY <3>2, <3>3
  <2>4. QED BY <2>1, <2>2, <2>3
<1>10. Rightly(c, value, after)
  <2>1. CASE effect # "reads" \/ "sidecar" \in tx.untold
    <3>1. CASE value = "ok" /\ Seen(e)
      <4>1. AsksAgain(a)
        BY <1>7, <3>1 DEF AsksAgain, Reconciles
      <4>2. QED BY <4>1 DEF Rightly
    <3>2. CASE ~(value = "ok" /\ Seen(e))
      <4>1. "store" \in untold
        BY <2>1, <3>2 DEF Untold
      <4>2. QED BY <1>5, <4>1 DEF Rightly
    <3>3. QED BY <3>1, <3>2
  <2>2. CASE effect = "reads" /\ "sidecar" \notin tx.untold
    <3>1. untold = tx.untold \/ "sidecar" \in untold
      BY <2>2 DEF Untold
    <3>2. QED BY <1>1, <1>5, <1>6, <1>7, <2>2, <3>1 DEF Rightly
  <2>3. QED BY <2>1, <2>2
<1> HIDE DEF after
<1>11. QED BY <1>1, <1>5, <1>9, <1>10

LEMMA EndServedWell ==
  ASSUME tx \in Txs, NEW c, NEW value \in {"ok", "error"}, NEW over \in BOOLEAN,
         EndServed(c, value, over)
  PROVE  \E after \in Txs :
           /\ Served(c, value, after)
           /\ CountInv => ("sidecar" \notin after.untold => (after.counted <=> after.open))
           /\ Rightly(c, value, after)
<1> DEFINE untold == CASE value = "ok" -> tx.untold \ {"sidecar"}
                       [] value = "error" -> IF over THEN {"sidecar", "store"} ELSE tx.untold
           after == [tx EXCEPT !.open = @ /\ ~over, !.counted = @ /\ value = "error",
                               !.untold = untold]
           a == [call |-> c.call, n |-> c.n, epoch |-> c.epoch, value |-> value]
<1>1. Served(c, value, after) /\ c.call = "end" /\ (value = "ok" => over)
  BY DEF EndServed
<1>2. /\ tx.untold \subseteq {"sidecar", "store"}
      /\ tx.open \in BOOLEAN /\ tx.counted \in BOOLEAN
  BY DEF Txs
<1>3. untold \subseteq {"sidecar", "store"}
  BY <1>2
<1>4. /\ value = "ok" => untold = tx.untold \ {"sidecar"}
      /\ value = "error" /\ over => untold = {"sidecar", "store"}
      /\ value = "error" /\ ~over => untold = tx.untold
  OBVIOUS
<1> HIDE DEF untold
<1>5. /\ after \in Txs /\ after.untold = untold /\ after.shown = tx.shown
      /\ after.open = (tx.open /\ ~over) /\ after.counted = (tx.counted /\ value = "error")
  BY <1>2, <1>3 DEF Txs
<1>6. a.call = "end" /\ a.value = value
  BY <1>1
<1> HIDE DEF after
<1>7. CountInv => ("sidecar" \notin untold => (after.counted <=> after.open))
  BY <1>1, <1>2, <1>4, <1>5 DEF CountInv
<1>8. Rightly(c, value, after)
  <2>1. CASE value = "ok"
    <3>1. Settling(a) /\ ~SaysOpen(a) /\ ~after.open
      BY <1>1, <1>5, <1>6, <2>1 DEF Settling, SaysOpen
    <3>2. QED BY <3>1 DEF Rightly
  <2>2. CASE value = "error" /\ over
    BY <1>4, <1>5, <2>2 DEF Rightly
  <2>3. CASE value = "error" /\ ~over
    <3>1. ~Settling(a) /\ c.call # "state"
      BY <1>1, <1>6, <2>3 DEF Settling
    <3>2. after.untold = tx.untold /\ (after.open <=> tx.open) /\ (after.shown <=> tx.shown)
      BY <1>2, <1>4, <1>5, <2>3
    <3>3. QED BY <3>1, <3>2 DEF Rightly
  <2>4. QED BY <2>1, <2>2, <2>3
<1>9. QED BY <1>1, <1>5, <1>7, <1>8

LEMMA StateServedWell ==
  ASSUME tx \in Txs, NEW c, NEW heard \in {"none", "told", "unheard"}, StateServed(c, heard)
  PROVE  \E value \in {"open", "closed"}, after \in Txs :
           /\ Served(c, value, after)
           /\ CountInv => ("sidecar" \notin after.untold => (after.counted <=> after.open))
           /\ CountInv => Rightly(c, value, after)
<1> DEFINE counted == CASE heard = "told" -> tx.open [] heard = "unheard" -> FALSE
                        [] heard = "none" -> tx.counted
           untold == CASE Gone(c) -> tx.untold
                       [] heard = "told" -> {}
                       [] heard = "unheard" -> {"sidecar"}
                       [] heard = "none" -> tx.untold \ {"store"}
           value == IF counted THEN "open" ELSE "closed"
           after == [tx EXCEPT !.counted = counted, !.untold = untold]
           a == [call |-> c.call, n |-> c.n, epoch |-> c.epoch, value |-> value]
<1>1. /\ Served(c, value, after) /\ c.call = "state"
      /\ heard # "none" => ~Gone(c)
  <2>1. StateServed(c, heard)
    OBVIOUS
  <2>2. /\ c.call = "state"
        /\ heard # "none" => tx.counted /\ ~Gone(c)
        /\ Served(c, value, [tx EXCEPT !.counted = counted, !.untold = untold])
    BY <2>1 DEF StateServed
  <2>3. QED BY <2>2
<1>2. /\ tx.untold \subseteq {"sidecar", "store"}
      /\ tx.open \in BOOLEAN /\ tx.counted \in BOOLEAN
  BY DEF Txs
<1>3. /\ heard = "told" => counted = tx.open
      /\ heard = "unheard" => counted = FALSE
      /\ heard = "none" => counted = tx.counted
  OBVIOUS
<1>4. /\ heard = "unheard" => untold = {"sidecar"}
      /\ heard = "none" => untold = tx.untold \/ untold = tx.untold \ {"store"}
      /\ untold \subseteq {"sidecar", "store"}
  <2>1. CASE Gone(c)
    BY <1>1, <1>2, <2>1
  <2>2. CASE ~Gone(c)
    BY <1>2, <2>2
  <2>3. QED BY <2>1, <2>2
<1>5. counted \in BOOLEAN
  BY <1>2, <1>3
<1> HIDE DEF counted, untold
<1>6. /\ after \in Txs /\ after.untold = untold /\ after.shown = tx.shown
      /\ after.open = tx.open /\ after.counted = counted
  BY <1>2, <1>4, <1>5 DEF Txs
<1>7. value \in {"open", "closed"} /\ (value = "open" <=> counted) /\ value # "error"
  BY <1>5
<1>8. a.call = "state" /\ a.value = value
  BY <1>1
<1> HIDE DEF after, value
<1>9. CountInv => ("sidecar" \notin untold => (counted <=> tx.open))
  BY <1>2, <1>3, <1>4 DEF CountInv
<1>10. ASSUME CountInv PROVE Rightly(c, value, after)
  <2>1. CASE untold # {}
    BY <1>6, <2>1 DEF Rightly
  <2>2. CASE untold = {}
    <3>1. Settling(a) /\ (SaysOpen(a) <=> after.open)
      BY <1>6, <1>7, <1>8, <1>9, <1>10, <2>2 DEF Settling, SaysOpen
    <3>2. QED BY <3>1 DEF Rightly
  <2>3. QED BY <2>1, <2>2
<1>11. QED BY <1>1, <1>6, <1>7, <1>9, <1>10

LEMMA ServedWell ==
  ASSUME RunInv, NEW c \in pending, Serves(c)
  PROVE  \E value \in {"ok", "error", "unsafe", "ddl", "open", "closed"}, after \in Txs :
           /\ Served(c, value, after)
           /\ CountInv => ("sidecar" \notin after.untold => (after.counted <=> after.open))
           /\ CountInv => Rightly(c, value, after)
<1>1. tx \in Txs
  BY DEF RunInv, TypeInv
<1>2. CASE \E value \in {"ok", "error", "unsafe", "ddl"}, effect \in {"reads", "changes", "ends"},
           heard \in {"none", "told", "unheard"} : RunServed(c, value, effect, heard)
  <2>1. PICK value \in {"ok", "error", "unsafe", "ddl"}, effect \in {"reads", "changes", "ends"},
             heard \in {"none", "told", "unheard"} : RunServed(c, value, effect, heard)
    BY <1>2
  <2>2. run[c.n].kind \in Kind
    <3>1. c.n \in DOMAIN run /\ run[c.n].pc = "sent"
      BY <2>1 DEF RunServed, RunInv, CallsInv, Awaited
    <3>2. run[c.n] \in Run
      BY <3>1 DEF RunInv, TypeInv
    <3>3. QED BY <3>1, <3>2, SqlEditorAssumption DEF Run, Busy, Over
  <2>3. QED BY <1>1, <2>1, <2>2, RunServedWell
<1>3. CASE \E value \in {"ok", "error"}, over \in BOOLEAN : EndServed(c, value, over)
  BY <1>1, <1>3, EndServedWell
<1>4. CASE \E heard \in {"none", "told", "unheard"} : StateServed(c, heard)
  BY <1>1, <1>4, StateServedWell
<1>5. CASE StateRefused(c)
  <2> DEFINE after == [tx EXCEPT !.untold = @ \cup {"store"}]
  <2>1. Served(c, "error", after)
    BY <1>5 DEF StateRefused
  <2>2. /\ after \in Txs /\ after.untold = tx.untold \cup {"store"}
        /\ after.counted = tx.counted /\ after.open = tx.open
    BY <1>1 DEF Txs
  <2> HIDE DEF after
  <2>3. Rightly(c, "error", after) /\ after.untold # {}
    BY <2>2 DEF Rightly
  <2>4. CountInv => ("sidecar" \notin after.untold => (after.counted <=> after.open))
    BY <2>2 DEF CountInv
  <2>5. QED BY <2>1, <2>2, <2>3, <2>4
<1>6. QED BY <1>2, <1>3, <1>4, <1>5 DEF Serves

(* Nothing is under way for a run that waits for an answer of the user.    *)
LEMMA AskedIsIdle ==
  ASSUME RunInv
  PROVE  \A r \in DOMAIN run :
           /\ r \in Nat /\ r # 0
           /\ run[r].pc # "done" => run[r] \in Busy
           /\ run[r].pc # "sent" =>
                /\ \A c \in pending : ~OfRun(c, r)
                /\ \A i \in DOMAIN answers : ~OfRun(answers[i], r)
<1>1. run \in Seq(Run) /\ CallsInv
  BY DEF RunInv, TypeInv
<1>2. \A r \in DOMAIN run : r \in Nat /\ r # 0 /\ run[r] \in Run
  BY <1>1
<1>3. \A r \in DOMAIN run : run[r].pc # "done" => run[r] \in Busy
  BY <1>2 DEF Run, Over
<1>4. \A c : \A r \in DOMAIN run :
        Awaited(c) /\ run[r].pc # "sent" => ~OfRun(c, r)
  BY DEF Awaited, OfRun
<1>5. QED BY <1>1, <1>2, <1>3, <1>4 DEF CallsInv

(* A run nothing is under way for goes on, perhaps with one call.          *)
LEMMA MoveHolds ==
  ASSUME RunInv, NEW r \in DOMAIN run, NEW e \in Run, NEW P,
         run' = [run EXCEPT ![r] = e],
         \A c \in pending : ~OfRun(c, r),
         \A i \in DOMAIN answers' : ~OfRun(answers'[i], r),
         answers' = answers \/ (answers # <<>> /\ answers' = Tail(answers)),
         pending' = pending \cup P, P \subseteq Sent,
         \A c \in P : c.epoch = epoch,
         \A c \in P : c.call = "run" => e.pc = "sent",
         \A c, d \in P : c = d,
         \A c \in P : c.call = "run" => c.n = r,
         tab' \in Seq(Tab), DOMAIN tab' = DOMAIN tab, RunAlone, tx' \in Txs,
         ask' \in Slots,
         ask'.confirm \in {0, ask.confirm} \/ (ask'.confirm = r /\ e.pc = "confirm"),
         ask'.unsafe \in {0, ask.unsafe} \/ (ask'.unsafe = r /\ e.pc = "unsafe"),
         ask'.ddl \in {0, ask.ddl} \/ (ask'.ddl = r /\ e.pc = "ddl"),
         ask'.confirm = r => e.pc = "confirm",
         ask'.unsafe = r => e.pc = "unsafe",
         ask'.ddl = r => e.pc = "ddl"
  PROVE  RunInv'
<1>1. /\ run \in Seq(Run) /\ answers \in Seq(Answer) /\ epoch \in Nat
      /\ UNCHANGED <<ctx, epoch, tabs, active>>
  BY DEF RunInv, TypeInv, RunAlone
<1>2. /\ run' \in Seq(Run) /\ DOMAIN run' = DOMAIN run /\ run'[r] = e
      /\ \A q \in DOMAIN run \ {r} : run'[q] = run[q]
  BY <1>1, EntryReplaced
<1>3. answers' \in Seq(Answer)
  <2>1. ASSUME answers # <<>> PROVE Tail(answers) \in Seq(Answer)
    BY <1>1, <2>1, HeadTaken
  <2>2. QED BY <1>1, <2>1
<1>4. TypeInv'
  BY <1>1, <1>2, <1>3 DEF RunInv, TypeInv, Slots, Txs
<1>5. AskInv'
  BY <1>2 DEF RunInv, AskInv
<1>6. \A q \in DOMAIN run \ {r} : q \in DOMAIN run' /\ run'[q].pc = run[q].pc
  BY <1>2
<1>7. /\ \A c \in P : c.epoch <= epoch'
      /\ \A c \in P : c.call = "run" => c.n \in DOMAIN run' /\ run'[c.n].pc = "sent"
  BY <1>1, <1>2
<1>8. CallsInv'
  BY <1>1, <1>6, <1>7, CallsKept
<1>9. QED BY <1>4, <1>5, <1>8 DEF RunInv

-----------------------------------------------------------------------------
(***************************************************************************)
(* The first layer: types, calls and questions.                            *)
(***************************************************************************)

LEMMA CallSent ==
  ASSUME epoch \in Nat
  PROVE  \A what \in What : \A r \in Nat :
           /\ Call(what, r) \in Sent /\ Call(what, r).call = what
           /\ Call(what, r).n = r /\ Call(what, r).epoch = epoch
  BY DEF Call, Sent

LEMMA RunInvInit == Init => RunInv
<1>1. ASSUME NEW T PROVE <<>> \in Seq(T) /\ DOMAIN <<>> = {}
  OBVIOUS
<1> SUFFICES ASSUME Init PROVE RunInv
  OBVIOUS
<1>2. TypeInv
  BY <1>1 DEF Init, TypeInv, NoAsk, NoTx, Slots, Txs
<1>3. CallsInv /\ AskInv
  BY <1>1 DEF Init, CallsInv, AskInv, NoAsk
<1>4. QED BY <1>2, <1>3 DEF RunInv

(* The page and its tabs.                                                  *)
LEMMA PageKeepsRuns ==
  ASSUME RunInv,
         \/ \E c \in Conns : PageEntered(c)
         \/ PageLeft
         \/ TabOpened
         \/ \E t \in DOMAIN tab : TabClosed(t) \/ TabSelected(t)
  PROVE  RunInv'
<1> USE DEF RunInv
<1>1. /\ UNCHANGED <<run, pending, answers>>
      /\ epoch \in Nat /\ epoch' \in Nat /\ epoch <= epoch'
      /\ ask' = ask \/ ask' = [NoAsk EXCEPT !.ddl = ask.ddl]
      /\ ask \in Slots
  BY DEF PageEntered, PageLeft, TabOpened, TabClosed, TabSelected, wire, tabVars,
         TypeInv, Slots
<1>2. CallsInv'
  <2>1. ASSUME NEW c, Awaited(c), c.epoch \in Nat PROVE Awaited(c)'
    BY <1>1, <2>1 DEF Awaited
  <2>2. /\ \A c \in pending : c \in Sent /\ c.epoch \in Nat
        /\ \A i \in DOMAIN answers : answers[i] \in Answer /\ answers[i].epoch \in Nat
    <3>1. /\ \A c \in pending : c \in Sent
          /\ \A i \in DOMAIN answers : answers[i] \in Answer
      BY DEF TypeInv
    <3>2. (\A c \in Sent : c.epoch \in Nat) /\ (\A a \in Answer : a.epoch \in Nat)
      BY DEF Sent, Answer
    <3>3. QED BY <3>1, <3>2
  <2>3. (\A c \in pending : Awaited(c))'
    BY <1>1, <2>1, <2>2 DEF CallsInv
  <2>4. (\A i \in DOMAIN answers : Awaited(answers[i]))'
    BY <1>1, <2>1, <2>2 DEF CallsInv
  <2>5. QED BY <1>1, <2>3, <2>4 DEF CallsInv, Rivals, OfRun
<1>3. ask' \in Slots /\ AskInv'
  BY <1>1 DEF AskInv, NoAsk, Slots
<1>4. tab' \in Seq(Tab) /\ tabs' \in Seq(DOMAIN tab') /\ active' \in DOMAIN tab' \cup {0}
  <2>1. CASE (\E c \in Conns : PageEntered(c)) \/ (\E t \in DOMAIN tab : TabSelected(t))
    BY <2>1 DEF PageEntered, TabSelected, tabVars, TypeInv
  <2>2. CASE PageLeft
    BY <2>2 DEF PageLeft
  <2>3. CASE TabOpened
    <3>1. NewTab \in Tab
      BY DEF NewTab, Tab
    <3>2. /\ tab' \in Seq(Tab) /\ DOMAIN tab' = 1 .. Len(tab')
          /\ Len(tab') \in DOMAIN tab' /\ DOMAIN tab \subseteq DOMAIN tab'
      BY <2>3, <3>1 DEF TabOpened, TypeInv
    <3>3. tabs' = Append(tabs, Len(tab')) /\ active' = Len(tab') /\ tabs \in Seq(DOMAIN tab')
      BY <2>3, <3>2 DEF TabOpened, TypeInv
    <3>4. QED BY <3>2, <3>3
  <2>4. ASSUME NEW t \in DOMAIN tab, TabClosed(t)
        PROVE  tab' = tab /\ tabs' \in Seq(DOMAIN tab) /\ active' \in DOMAIN tab \cup {0}
    <3>1. Place(t) \in DOMAIN tabs
      BY <2>4 DEF TabClosed, Open, Range, Place
    <3> tabs \in Seq(DOMAIN tab) /\ tabs' = RemoveAt(tabs, Place(t))
      BY <2>4 DEF TabClosed, TypeInv
    <3>2. /\ tabs' \in Seq(DOMAIN tab) /\ Len(tabs') = Len(tabs) - 1
          /\ Place(t) \in 1 .. Len(tabs) /\ Len(tabs) \in Nat
      BY <3>1, EntryRemoved
    <3>3. tabs' # <<>> => /\ 1 \in DOMAIN tabs'
                          /\ Place(t) # 1 => Place(t) - 1 \in DOMAIN tabs'
      BY <3>2
    <3>4. \A i \in DOMAIN tabs' : tabs'[i] \in DOMAIN tab
      BY <3>2
    <3>5. active' \in DOMAIN tab \cup {0}
      BY <2>4, <3>3, <3>4 DEF TabClosed, TypeInv
    <3>6. QED BY <2>4, <3>2, <3>5 DEF TabClosed
  <2>5. CASE \E t \in DOMAIN tab : TabClosed(t)
    BY <2>4, <2>5 DEF TypeInv
  <2>6. QED BY <2>1, <2>2, <2>3, <2>5
<1>5. ctx' \in Conns \cup {None} /\ tx' \in Txs
  BY DEF PageEntered, PageLeft, TabOpened, TabClosed, TabSelected, tabVars, wire,
         TypeInv, Txs, NoTx
<1>6. TypeInv'
  BY <1>1, <1>3, <1>4, <1>5 DEF TypeInv, Slots, Txs
<1>7. QED BY <1>2, <1>3, <1>6

(* A run is started: it waits for its answer, or for the user's.           *)
LEMMA StartKeepsRuns ==
  ASSUME RunInv, NEW kind \in Menu, RunStarted(kind)
  PROVE  RunInv'
<1> DEFINE r == Len(run) + 1
           e == NewRun(kind, IF kind.how = "command" THEN 0 ELSE active)
<1>1. /\ UNCHANGED <<ctx, epoch, tabs, active, answers, tx>>
      /\ ctx \in Conns /\ epoch \in Nat /\ active \in DOMAIN tab \cup {0}
      /\ tab \in Seq(Tab) /\ run \in Seq(Run) /\ ask \in Slots
  BY DEF RunInv, TypeInv, RunStarted, RunAlone, Slots
<1>2. /\ kind.how # "command" => active \in DOMAIN tab
      /\ \A t \in DOMAIN tab : t \in Nat /\ tab[t].copy \in Nat
  <2>1. \A t \in DOMAIN tab : t \in Nat /\ tab[t] \in Tab
    BY <1>1
  <2>2. QED BY <1>1, <2>1 DEF RunStarted, Tab
<1>3. e \in Busy /\ e.pc = "sent" /\ e.epoch = epoch
  BY <1>1, <1>2 DEF NewRun, Busy
<1>4. [e EXCEPT !.pc = "confirm"] \in Busy /\ [e EXCEPT !.pc = "confirm"].pc = "confirm"
  BY <1>3 DEF Busy
<1>5. Done(e) \in Over /\ Done(e).pc = "done"
  BY <1>3, DoneHolds
<1>6. PICK d \in Run : run' = Append(run, d)
      /\ \/ /\ d.pc = "confirm" /\ ask' = [ask EXCEPT !.confirm = r]
            /\ UNCHANGED <<tab, pending>>
         \/ d.pc = "done" /\ UNCHANGED <<ask, tab, pending>>
         \/ /\ d.pc = "sent" /\ tab' = Taken(r, d) /\ UNCHANGED ask
            /\ pending' = pending \cup {Call("run", r)}
  <2> DEFINE f == [e EXCEPT !.pc = "confirm"]
             g == Done(e)
  <2>1. f \in Run /\ f.pc = "confirm" /\ g \in Run /\ g.pc = "done" /\ e \in Run
    BY <1>3, <1>4, <1>5 DEF Run
  <2>2. IF kind.asks /\ kind.how # "fetch"
          THEN /\ run' = Append(run, IF ask.confirm = 0 THEN f ELSE g)
               /\ ask' = IF ask.confirm = 0 THEN [ask EXCEPT !.confirm = r] ELSE ask
               /\ UNCHANGED <<tab, pending>>
          ELSE /\ run' = Append(run, e) /\ tab' = Taken(r, e)
               /\ pending' = pending \cup {Call("run", r)}
               /\ UNCHANGED ask
    BY DEF RunStarted
  <2> HIDE DEF f, g, r, e
  <2>3. CASE kind.asks /\ kind.how # "fetch" /\ ask.confirm = 0
    BY <2>1, <2>2, <2>3
  <2>4. CASE kind.asks /\ kind.how # "fetch" /\ ask.confirm # 0
    BY <2>1, <2>2, <2>4
  <2>5. CASE ~(kind.asks /\ kind.how # "fetch")
    BY <1>3, <2>1, <2>2, <2>5
  <2>6. QED BY <2>3, <2>4, <2>5
<1> HIDE DEF e
<1>7. /\ run' \in Seq(Run) /\ DOMAIN run = 1 .. Len(run) /\ Len(run) \in Nat
      /\ DOMAIN run' = DOMAIN run \cup {r} /\ r \notin DOMAIN run /\ r \in Nat /\ r # 0
      /\ run'[r] = d /\ \A q \in DOMAIN run : run'[q] = run[q]
  BY <1>1, <1>6, EntryAdded
<1> HIDE DEF r
<1>8. tab' \in Seq(Tab) /\ DOMAIN tab' = DOMAIN tab
  <2>1. Taken(r, d) \in Seq(Tab) /\ DOMAIN Taken(r, d) = DOMAIN tab
    BY <1>1, <1>7, TakenHolds
  <2>2. tab' = tab \/ tab' = Taken(r, d)
    BY <1>6
  <2>3. QED BY <1>1, <2>1, <2>2
<1>9. /\ Call("run", r) \in Sent /\ Call("run", r).epoch = epoch
      /\ Call("run", r).n = r /\ Call("run", r).call = "run"
  BY <1>1, <1>7, CallSent DEF What
<1>10. TypeInv'
  BY <1>1, <1>6, <1>7, <1>8, <1>9 DEF RunInv, TypeInv, Slots
<1>11. AskInv'
  <2>1. ask' = ask \/ (ask' = [ask EXCEPT !.confirm = r] /\ run'[r].pc = "confirm")
    BY <1>6, <1>7
  <2>2. QED BY <1>1, <1>7, <2>1 DEF RunInv, AskInv, Slots
<1>12. CallsInv'
  <2>1. /\ \A c \in pending : ~OfRun(c, r)
        /\ \A i \in DOMAIN answers' : ~OfRun(answers'[i], r)
    BY <1>1, <1>7 DEF RunInv, CallsInv, Awaited, OfRun
  <2>2. \A q \in DOMAIN run \ {r} : q \in DOMAIN run' /\ run'[q].pc = run[q].pc
    BY <1>7
  <2>3. CASE d.pc = "sent"
    <3> DEFINE P == {Call("run", r)}
    <3>1. pending' = pending \cup P
      BY <1>6, <2>3
    <3>2. /\ \A c \in P : c.epoch <= epoch' /\ c.call = "run" /\ c.n = r
          /\ \A c, x \in P : c = x
          /\ r \in DOMAIN run' /\ run'[r].pc = "sent"
      BY <1>1, <1>7, <1>9, <2>3
    <3> HIDE DEF P
    <3>3. /\ \A c \in P : c.epoch <= epoch'
          /\ \A c \in P : c.call = "run" => c.n \in DOMAIN run' /\ run'[c.n].pc = "sent"
          /\ \A c, x \in P : c = x
          /\ \A c \in P : c.call = "run" => c.n = r
      BY <3>2
    <3>4. QED BY <1>1, <2>1, <2>2, <3>1, <3>3, CallsKept
  <2>4. CASE d.pc # "sent"
    <3> DEFINE P == {}
    <3>1. pending' = pending \cup P /\ \A c : c \notin P
      BY <1>6, <2>4
    <3> HIDE DEF P
    <3>2. QED BY <1>1, <2>1, <2>2, <3>1, CallsKept
  <2>5. QED BY <2>3, <2>4
<1>13. QED BY <1>10, <1>11, <1>12 DEF RunInv

(* A run goes on with a call, ...                                          *)
LEMMA CallHolds ==
  ASSUME RunInv, NEW r \in DOMAIN run, NEW e \in Busy,
         Calls(r, e, "run"), e.pc = "sent",
         \A c \in pending : ~OfRun(c, r),
         \A i \in DOMAIN answers' : ~OfRun(answers'[i], r),
         answers' = answers \/ (answers # <<>> /\ answers' = Tail(answers)),
         tab' \in Seq(Tab), DOMAIN tab' = DOMAIN tab, RunAlone, UNCHANGED tx, ask' \in Slots,
         ask'.confirm \in {0, ask.confirm}, ask'.unsafe \in {0, ask.unsafe},
         ask'.ddl \in {0, ask.ddl}, r \notin {ask'.confirm, ask'.unsafe, ask'.ddl}
  PROVE  RunInv'
<1> DEFINE P == {Call("run", r)}
<1>1. epoch \in Nat /\ r \in Nat /\ tx' \in Txs /\ e \in Run
  BY AskedIsIdle DEF RunInv, TypeInv, Txs, Run
<1>2. /\ Call("run", r) \in Sent /\ Call("run", r).call = "run"
      /\ Call("run", r).n = r /\ Call("run", r).epoch = epoch
  BY <1>1, CallSent DEF What
<1>3. /\ run' = [run EXCEPT ![r] = e] /\ pending' = pending \cup P
  BY DEF Calls
<1>4. /\ P \subseteq Sent
      /\ \A c \in P : c.epoch = epoch
      /\ \A c \in P : c.call = "run" => e.pc = "sent"
      /\ \A c, d \in P : c = d
      /\ \A c \in P : c.call = "run" => c.n = r
  BY <1>2
<1> HIDE DEF P
<1>5. QED BY <1>1, <1>3, <1>4, MoveHolds

(* ... or ends, the store perhaps asking for the transaction.              *)
LEMMA EndHolds ==
  ASSUME RunInv, NEW r \in DOMAIN run, NEW d \in Over, NEW e,
         run' = [run EXCEPT ![r] = d], tab' = Freed(e),
         pending' = pending \/ pending' = pending \cup {Call("state", r)},
         \A c \in pending : ~OfRun(c, r),
         \A i \in DOMAIN answers' : ~OfRun(answers'[i], r),
         answers' = answers \/ (answers # <<>> /\ answers' = Tail(answers)),
         RunAlone, tx' \in Txs, ask' \in Slots,
         ask'.confirm \in {0, ask.confirm}, ask'.unsafe \in {0, ask.unsafe},
         ask'.ddl \in {0, ask.ddl}, r \notin {ask'.confirm, ask'.unsafe, ask'.ddl}
  PROVE  RunInv'
<1>1. epoch \in Nat /\ r \in Nat /\ d \in Run /\ tab \in Seq(Tab)
  BY AskedIsIdle DEF RunInv, TypeInv, Run
<1>2. /\ Call("state", r) \in Sent /\ Call("state", r).call = "state"
      /\ Call("state", r).epoch = epoch
  BY <1>1, CallSent DEF What
<1>3. tab' \in Seq(Tab) /\ DOMAIN tab' = DOMAIN tab
  BY <1>1, FreedHolds
<1>4. PICK P : /\ P = {} \/ P = {Call("state", r)}
               /\ pending' = pending \cup P
  <2>1. pending = pending \cup {}
    OBVIOUS
  <2>2. QED BY <2>1
<1>5. /\ P \subseteq Sent
      /\ \A c \in P : c.epoch = epoch
      /\ \A c \in P : c.call = "run" => d.pc = "sent"
      /\ \A c, x \in P : c = x
      /\ \A c \in P : c.call = "run" => c.n = r
  BY <1>2, <1>4
<1>6. QED BY <1>1, <1>3, <1>4, <1>5, MoveHolds

(* The user answers a question.                                            *)
LEMMA UserKeepsRuns ==
  ASSUME RunInv, NEW yes \in BOOLEAN,
         ConfirmAnswered(yes) \/ UnsafeAnswered(yes)
  PROVE  RunInv'
<1>1. /\ tab \in Seq(Tab) /\ ask \in Slots /\ tx' \in Txs /\ AskInv
      /\ RunAlone /\ answers' = answers /\ UNCHANGED tx
  BY DEF RunInv, TypeInv, Slots, Txs, ConfirmAnswered, UnsafeAnswered
<1>2. PICK k \in {"confirm", "unsafe"} :
        /\ k = "confirm" => ConfirmAnswered(yes)
        /\ k = "unsafe" => UnsafeAnswered(yes)
  OBVIOUS
<1>3. PICK r : r = ask[k]
  OBVIOUS
<1>4. r \in DOMAIN run /\ run[r].pc = k
  BY <1>1, <1>2, <1>3 DEF AskInv, ConfirmAnswered, UnsafeAnswered
<1>5. /\ r \in Nat /\ r # 0 /\ run[r] \in Busy
      /\ \A c \in pending : ~OfRun(c, r)
      /\ \A i \in DOMAIN answers' : ~OfRun(answers'[i], r)
  BY <1>1, <1>4, AskedIsIdle
<1>6. /\ ask' \in Slots
      /\ ask'.confirm \in {0, ask.confirm}
      /\ ask'.unsafe \in {0, ask.unsafe}
      /\ ask'.ddl \in {0, ask.ddl}
      /\ r \notin {ask'.confirm, ask'.unsafe, ask'.ddl}
  <2>1. ask' = [ask EXCEPT ![k] = 0]
    BY <1>2 DEF ConfirmAnswered, UnsafeAnswered
  <2>2. /\ k # "confirm" => ask.confirm # r
        /\ k # "unsafe" => ask.unsafe # r
        /\ k # "ddl" => ask.ddl # r
    BY <1>1, <1>4, <1>5 DEF AskInv
  <2>3. QED BY <1>1, <1>5, <2>1, <2>2 DEF Slots
<1>7. CASE yes
  <2>1. PICK e \in Busy :
          /\ Calls(r, e, "run") /\ e.pc = "sent"
          /\ tab' = tab \/ tab' = Taken(r, run[r])
    <3>1. /\ k = "confirm" => /\ Calls(r, [run[r] EXCEPT !.pc = "sent"], "run")
                              /\ tab' = Taken(r, run[r])
          /\ k = "unsafe" => /\ Calls(r, [run[r] EXCEPT !.pc = "sent", !.acked = TRUE], "run")
                             /\ tab' = tab
      BY <1>2, <1>3, <1>7 DEF ConfirmAnswered, UnsafeAnswered
    <3> DEFINE f == [run[r] EXCEPT !.pc = "sent"]
               g == [run[r] EXCEPT !.pc = "sent", !.acked = TRUE]
    <3>2. f \in Busy /\ g \in Busy /\ f.pc = "sent" /\ g.pc = "sent"
      BY <1>5 DEF Busy
    <3>3. /\ k = "confirm" => Calls(r, f, "run") /\ tab' = Taken(r, run[r])
          /\ k = "unsafe" => Calls(r, g, "run") /\ tab' = tab
      BY <3>1
    <3> HIDE DEF f, g
    <3>4. QED BY <3>2, <3>3
  <2>2. tab' \in Seq(Tab) /\ DOMAIN tab' = DOMAIN tab
    BY <1>1, <1>5, <2>1, TakenHolds
  <2>3. QED BY <1>1, <1>4, <1>5, <1>6, <2>1, <2>2, CallHolds
<1>8. CASE ~yes
  <2>1. run' = [run EXCEPT ![r] = Done(run[r])] /\ tab' = Freed(run[r]) /\ pending' = pending
    BY <1>2, <1>3, <1>8 DEF ConfirmAnswered, UnsafeAnswered, Ends
  <2>2. Done(run[r]) \in Over
    BY <1>5, DoneHolds
  <2>3. QED BY <1>1, <1>4, <1>5, <1>6, <2>1, <2>2, EndHolds
<1>9. QED BY <1>7, <1>8

(* The sidecar serves a call.                                              *)
LEMMA SidecarKeepsRuns ==
  ASSUME RunInv, NEW c \in pending, Serves(c)
  PROVE  RunInv'
<1>1. PICK value \in {"ok", "error", "unsafe", "ddl", "open", "closed"}, after \in Txs :
        Served(c, value, after)
  BY ServedWell
<1>2. QED BY <1>1, ServedKeeps

(* An answer arrives.                                                      *)
LEMMA AnswerKeepsRuns ==
  ASSUME RunInv,
         UnsafeWarned \/ DdlRefused \/ RunAnswered \/ StateAnswered
           \/ EndAnswered
  PROVE  RunInv'
<1> DEFINE r == Told.n
<1>1. /\ tab \in Seq(Tab) /\ ask \in Slots /\ tx \in Txs /\ AskInv /\ run \in Seq(Run)
      /\ answers # <<>> /\ answers' = Tail(answers) /\ RunAlone
      /\ ctx \in Conns \cup {None} /\ active \in DOMAIN tab \cup {0} /\ CallsInv
      /\ pending \subseteq Sent
  BY DEF RunInv, TypeInv, Slots, Txs, UnsafeWarned, DdlRefused, RunAnswered,
         StateAnswered, EndAnswered, Answered
<1>2. /\ Told \in Answer /\ answers' \in Seq(Answer) /\ Awaited(Told)
      /\ OfRun(Told, r) =>
           /\ \A c \in pending : ~OfRun(c, r)
           /\ \A i \in DOMAIN answers' : ~OfRun(answers'[i], r)
  BY <1>1, HeadAnswered
<1> HIDE DEF r
<1>3. ASSUME UnsafeWarned \/ DdlRefused \/ RunAnswered
      PROVE  /\ r \in DOMAIN run /\ run[r] \in Busy /\ r # 0
             /\ \A c \in pending : ~OfRun(c, r)
             /\ \A i \in DOMAIN answers' : ~OfRun(answers'[i], r)
             /\ r \notin {ask.confirm, ask.unsafe, ask.ddl}
  <2>1. Told.call = "run"
    BY <1>3 DEF UnsafeWarned, DdlRefused, RunAnswered, Answered, Told
  <2>2. r \in DOMAIN run /\ run[r].pc = "sent" /\ OfRun(Told, r)
    BY <1>2, <2>1 DEF Awaited, OfRun, r
  <2>3. run[r] \in Busy /\ r # 0
    BY <2>2, AskedIsIdle
  <2>4. r \notin {ask.confirm, ask.unsafe, ask.ddl}
    BY <1>1, <2>2, <2>3 DEF AskInv
  <2>5. QED BY <1>2, <2>2, <2>3, <2>4
<1>4. ASSUME UnsafeWarned \/ RunAnswered, NEW d \in Over, NEW e,
             run' = [run EXCEPT ![r] = d], tab' = Freed(e), ask' = ask, tx' \in Txs,
             pending' = pending \/ pending' = pending \cup {Call("state", r)}
      PROVE  RunInv'
  BY <1>1, <1>3, <1>4, EndHolds
<1>5. CASE UnsafeWarned
  <2>1. CASE UnsafeSlotFree
    <3> DEFINE e == [run[r] EXCEPT !.pc = "unsafe"]
               P == {}
    <3>1. e \in Run /\ e.pc = "unsafe"
      BY <1>3, <1>5 DEF Busy, Run
    <3>2. /\ run' = [run EXCEPT ![r] = e] /\ tab' = tab /\ ask' = [ask EXCEPT !.unsafe = r]
          /\ pending' = pending \cup P /\ tx' = tx /\ P \subseteq Sent
          /\ \A c : c \notin P
      BY <1>5, <2>1 DEF UnsafeWarned, r
    <3>3. /\ ask' \in Slots /\ ask'.confirm = ask.confirm /\ ask'.ddl = ask.ddl
          /\ ask'.unsafe = r
      BY <1>1, <1>2, <3>2 DEF Slots, r, Answer
    <3> HIDE DEF e, P
    <3>4. QED BY <1>1, <1>3, <1>5, <3>1, <3>2, <3>3, MoveHolds
  <2>2. CASE ~UnsafeSlotFree
    <3>1. /\ run' = [run EXCEPT ![r] = Done(run[r])] /\ tab' = Freed(run[r])
          /\ ask' = ask /\ pending' = pending /\ tx' = tx
      BY <1>5, <2>2 DEF UnsafeWarned, Ends, r
    <3>2. Done(run[r]) \in Over
      BY <1>3, <1>5, DoneHolds
    <3>3. QED BY <1>1, <1>4, <1>5, <3>1, <3>2
  <2>3. QED BY <2>1, <2>2
<1>6. CASE DdlRefused
  <2> DEFINE e == [run[r] EXCEPT !.pc = "ddl"]
             P == {}
  <2>1. e \in Run /\ e.pc = "ddl"
    BY <1>3, <1>6 DEF Busy, Run
  <2>2. /\ run' = [run EXCEPT ![r].pc = "ddl"]
        /\ tab' = tab /\ ask' = [ask EXCEPT !.ddl = r]
        /\ pending' = pending \cup P /\ tx' = tx /\ P \subseteq Sent /\ \A c : c \notin P
    BY <1>6 DEF DdlRefused, r
  <2>3. run' = [run EXCEPT ![r] = e]
    BY <1>1, <1>3, <1>6, <2>2
  <2>4. /\ ask' \in Slots /\ ask'.confirm = ask.confirm /\ ask'.unsafe = ask.unsafe
        /\ ask'.ddl = r
    BY <1>1, <1>2, <2>2 DEF Slots, r, Answer
  <2> HIDE DEF e, P
  <2>5. QED BY <1>1, <1>3, <1>6, <2>1, <2>2, <2>3, <2>4, MoveHolds
<1>8. CASE RunAnswered
  <2> DEFINE e == [run[r] EXCEPT !.row = RowOf(run[r])]
  <2>1. RowOf(run[r]) \in Conns \cup {None}
    BY <1>1 DEF RowOf
  <2>2. Done(e) \in Over
    BY <1>3, <1>8, <2>1, DoneHolds
  <2>3. /\ run' = [run EXCEPT ![r] = Done(e)] /\ tab' = Freed(e) /\ ask' = ask
        /\ pending' = pending \/ pending' = pending \cup {Call("state", r)}
    BY <1>8 DEF RunAnswered, Ends, r
  <2>4. tx' \in Txs
    BY <1>1, <1>8 DEF RunAnswered, Txs
  <2> HIDE DEF e
  <2>5. QED BY <1>1, <1>4, <1>8, <2>2, <2>3, <2>4
<1>9. CASE StateAnswered \/ EndAnswered
  <2>1. UNCHANGED <<run, ask, pending>>
    BY <1>9 DEF StateAnswered, EndAnswered
  <2>2. tx' \in Txs
    BY <1>1, <1>9 DEF StateAnswered, EndAnswered, Txs
  <2>3. tab' \in Seq(Tab) /\ DOMAIN tab' = DOMAIN tab
    <3>1. CASE active = 0 \/ tab' = tab
      BY <1>1, <1>9, <3>1 DEF StateAnswered, EndAnswered
    <3>2. CASE active # 0 /\ tab' # tab
      <4> DEFINE x == [tab[active] EXCEPT !.copy = @ + 1, !.torn = tab[active].running]
      <4>1. tab[active] \in Tab /\ active \in DOMAIN tab
        BY <1>1, <3>2
      <4>2. x \in Tab
        <5>1. \A o \in Tab : \A n \in Nat : \A b \in BOOLEAN :
                [o EXCEPT !.copy = n, !.torn = b] \in Tab
          BY DEF Tab
        <5>2. tab[active].copy + 1 \in Nat /\ tab[active].running \in BOOLEAN
          BY <4>1 DEF Tab
        <5>3. QED BY <4>1, <5>1, <5>2
      <4>3. tab' = [tab EXCEPT ![active] = x]
        BY <1>1, <1>9, <3>2, <4>1 DEF StateAnswered, EndAnswered
      <4> HIDE DEF x
      <4>4. QED BY <1>1, <4>1, <4>2, <4>3, EntryReplaced
    <3>3. QED BY <3>1, <3>2
  <2>4. CallsInv'
    <3> DEFINE P == {}
    <3>1. pending' = pending \cup P /\ \A c : c \notin P
      BY <2>1
    <3> HIDE DEF P
    <3>2. /\ \A c \in pending : ~OfRun(c, 0)
          /\ \A i \in DOMAIN answers' : ~OfRun(answers'[i], 0)
      <4>1. \A c : Awaited(c) => ~OfRun(c, 0)
        BY <1>1, AskedIsIdle DEF Awaited, OfRun
      <4>2. \A i \in DOMAIN answers' : answers'[i] \in {answers[j] : j \in DOMAIN answers}
        BY <1>1, HeadTaken DEF RunInv, TypeInv
      <4>3. QED BY <1>1, <4>1, <4>2 DEF CallsInv
    <3>3. \A q \in DOMAIN run \ {0} : q \in DOMAIN run' /\ run'[q].pc = run[q].pc
      BY <2>1
    <3>4. epoch' = epoch
      BY <1>1 DEF RunAlone
    <3>5. QED BY <1>1, <3>1, <3>2, <3>3, <3>4, CallsKept
  <2>5. TypeInv' /\ AskInv'
    BY <1>1, <1>2, <2>1, <2>2, <2>3 DEF RunInv, TypeInv, AskInv, RunAlone, Slots, Txs
  <2>6. QED BY <2>4, <2>5 DEF RunInv
<1>10. QED BY <1>5, <1>6, <1>8, <1>9

(* The user asks for a commit or a rollback.                               *)
LEMMA EndKeepsRuns ==
  ASSUME RunInv, EndAsked
  PROVE  RunInv'
<1> DEFINE P == {Call("end", tx.ends + 1)}
<1>1. /\ tx \in Txs /\ epoch \in Nat /\ pending \subseteq Sent
      /\ UNCHANGED <<ctx, epoch, tab, tabs, active, run, ask, answers>>
  BY DEF RunInv, TypeInv, Txs, EndAsked, RunAlone
<1>2. tx.ends + 1 \in Nat
  BY <1>1 DEF Txs
<1>3. /\ Call("end", tx.ends + 1) \in Sent /\ Call("end", tx.ends + 1).call = "end"
      /\ Call("end", tx.ends + 1).epoch = epoch
  BY <1>1, <1>2, CallSent DEF What
<1>4. /\ pending' = pending \cup P /\ P \subseteq Sent
      /\ \A c \in P : c.call = "end" /\ c.epoch = epoch
      /\ \A c, d \in P : c = d
  BY <1>3 DEF EndAsked
<1> HIDE DEF P
<1>5. CallsInv'
  <2>1. \A c : Awaited(c) => ~OfRun(c, 0)
    BY AskedIsIdle DEF Awaited, OfRun
  <2>2. /\ \A c \in pending : ~OfRun(c, 0)
        /\ \A i \in DOMAIN answers' : ~OfRun(answers'[i], 0)
    BY <1>1, <2>1 DEF RunInv, CallsInv
  <2>3. \A q \in DOMAIN run \ {0} : q \in DOMAIN run' /\ run'[q].pc = run[q].pc
    BY <1>1
  <2>4. /\ \A c \in P : c.epoch <= epoch'
        /\ \A c \in P : c.call # "run"
    BY <1>1, <1>4
  <2>5. QED BY <1>1, <1>4, <2>2, <2>3, <2>4, CallsKept
<1>6. tx' \in Txs
  <2>1. tx' = [tx EXCEPT !.ends = @ + 1]
    BY DEF EndAsked
  <2>2. QED BY <1>1, <1>2, <2>1 DEF Txs
<1>7. TypeInv' /\ AskInv'
  BY <1>1, <1>4, <1>6 DEF RunInv, TypeInv, AskInv, Txs
<1>8. QED BY <1>5, <1>7 DEF RunInv

(* Every step keeps the first layer.                                       *)
LEMMA RunsStep == RunInv /\ [Next]_vars => RunInv'
<1> SUFFICES ASSUME RunInv, [Next]_vars PROVE RunInv'
  OBVIOUS
<1>1. CASE UNCHANGED vars
  BY <1>1 DEF vars, tabVars, wire, RunInv, TypeInv, CallsInv, AskInv, Awaited, OfRun, Rivals
<1>2. CASE \/ \E c \in Conns : PageEntered(c)
           \/ PageLeft
           \/ TabOpened
           \/ \E t \in DOMAIN tab : TabClosed(t) \/ TabSelected(t)
  BY <1>2, PageKeepsRuns
<1>3. CASE \E kind \in Menu : RunStarted(kind)
  BY <1>3, StartKeepsRuns
<1>4. CASE \E yes \in BOOLEAN : ConfirmAnswered(yes) \/ UnsafeAnswered(yes)
  BY <1>4, UserKeepsRuns
<1>5. CASE \E c \in pending : Serves(c)
  BY <1>5, SidecarKeepsRuns
<1>6. CASE \/ UnsafeWarned \/ DdlRefused \/ RunAnswered
           \/ StateAnswered \/ EndAnswered
  BY <1>6, AnswerKeepsRuns
<1>7. CASE EndAsked
  BY <1>7, EndKeepsRuns
<1>8. CASE SessionLost
  <2>1. UNCHANGED <<ctx, epoch, tab, tabs, active, run, ask, pending, answers>>
    BY <1>8 DEF SessionLost, RunAlone, wire
  <2>2. tx' \in Txs
    BY <1>8 DEF SessionLost, RunInv, TypeInv, Txs
  <2>3. QED BY <2>1, <2>2 DEF RunInv, TypeInv, CallsInv, AskInv, Awaited, OfRun, Rivals
<1>9. QED BY <1>1, <1>2, <1>3, <1>4, <1>5, <1>6, <1>7, <1>8 DEF Next, Serves

LEMMA RunsHold == Spec => []RunInv
<1>1. QED BY RunInvInit, RunsStep, PTL DEF Spec

-----------------------------------------------------------------------------
(***************************************************************************)
(* The transaction as it is shown.                                         *)
(***************************************************************************)

(* Of the answers on their way the k-th is the last that must be right, or *)
(* with k = 0 what is shown already is.                                    *)
LastWord(k) ==
  /\ k = 0 => (tx.shown <=> tx.open)
  /\ k # 0 => Settling(answers[k]) /\ (SaysOpen(answers[k]) <=> tx.open)
  /\ \A j \in DOMAIN answers : j > k /\ Settling(answers[j]) => (SaysOpen(answers[j]) <=> tx.open)

Late(a) == a.call = "state" /\ a.value # "error" /\ a.epoch # epoch

(* The store has still to ask, or to be told, or knows already; or what it *)
(* will be told is of a page that was left.                                *)
SettleInv ==
  tx.untold = {} =>
    \/ \E c \in pending : c.call = "state"
    \/ \E i \in DOMAIN answers : AsksAgain(answers[i])
    \/ \E i \in DOMAIN answers : Late(answers[i])
    \/ \E k \in DOMAIN answers \cup {0} : LastWord(k)

(* A step that only sends calls and does not touch a run whose answer is   *)
(* on its way.                                                             *)
LEMMA SettlesBeside ==
  ASSUME SettleInv, epoch' = epoch, answers' = answers, pending \subseteq pending',
         tx'.untold = tx.untold, tx'.shown <=> tx.shown, tx'.open <=> tx.open,
         \A i \in DOMAIN answers : answers[i].call = "run" =>
           run'[answers[i].n] = run[answers[i].n]
  PROVE  SettleInv'
<1>1. \A i \in DOMAIN answers : AsksAgain(answers[i]) => AsksAgain(answers[i])'
  BY DEF AsksAgain, Reconciles, Seen
<1>2. \A k \in DOMAIN answers \cup {0} : LastWord(k) => LastWord(k)'
  BY DEF LastWord, Settling, SaysOpen
<1>3. \A i \in DOMAIN answers : Late(answers[i]) => Late(answers[i])'
  BY DEF Late
<1>4. QED BY <1>1, <1>2, <1>3 DEF SettleInv

(* The head is taken; it neither settled anything nor makes the store ask. *)
LEMMA SettlesAfter ==
  ASSUME RunInv, SettleInv, epoch' = epoch, answers # <<>>, answers' = Tail(answers),
         pending \subseteq pending',
         tx'.untold = tx.untold, tx'.shown <=> tx.shown, tx'.open <=> tx.open,
         ~Settling(Told), ~AsksAgain(Told),
         \A i \in DOMAIN answers' : answers'[i].call = "run" =>
           run'[answers'[i].n] = run[answers'[i].n]
  PROVE  SettleInv'
<1>1. /\ Told = answers[1] /\ 1 \in DOMAIN answers
      /\ \A i \in DOMAIN answers' : /\ i + 1 \in DOMAIN answers /\ i + 1 # 1
                                    /\ answers'[i] = answers[i + 1]
      /\ \A j \in DOMAIN answers \ {1} : j - 1 \in DOMAIN answers' /\ answers'[j - 1] = answers[j]
      /\ DOMAIN answers \subseteq Nat /\ DOMAIN answers' \subseteq Nat
  BY HeadTaken DEF RunInv, TypeInv, Told
<1>2. ASSUME NEW i \in DOMAIN answers, AsksAgain(answers[i])
      PROVE  (\E j \in DOMAIN answers : AsksAgain(answers[j]))'
  <2>1. i # 1
    BY <1>1, <1>2
  <2>2. PICK j \in DOMAIN answers' : answers'[j] = answers[i]
    BY <1>1, <2>1
  <2>3. answers[i].call = "run" /\ run'[answers[i].n] = run[answers[i].n]
    BY <1>2, <2>2 DEF AsksAgain
  <2>4. AsksAgain(answers[j])'
    BY <1>2, <2>2, <2>3 DEF AsksAgain, Reconciles, Seen
  <2>5. QED BY <2>4
<1>3. ASSUME NEW i \in DOMAIN answers, Late(answers[i])
      PROVE  (\E j \in DOMAIN answers : Late(answers[j]))'
  <2>1. i # 1
    BY <1>1, <1>3 DEF Settling, Late
  <2>2. PICK j \in DOMAIN answers' : answers'[j] = answers[i]
    BY <1>1, <2>1
  <2>3. Late(answers[j])'
    BY <1>3, <2>2 DEF Late
  <2>4. QED BY <2>3
<1>4. ASSUME NEW k \in DOMAIN answers \cup {0}, LastWord(k)
      PROVE  (\E j \in DOMAIN answers \cup {0} : LastWord(j))'
  <2>1. CASE k = 0
    <3>1. LastWord(0)'
      BY <1>1, <1>4, <2>1 DEF LastWord, Settling, SaysOpen
    <3>2. QED BY <3>1
  <2>2. CASE k # 0
    <3>1. k # 1
      BY <1>1, <1>4, <2>2 DEF LastWord
    <3>2. PICK j \in DOMAIN answers' : j = k - 1 /\ answers'[j] = answers[k] /\ j # 0
      BY <1>1, <2>2, <3>1
    <3>3. LastWord(j)'
      BY <1>1, <1>4, <2>2, <3>2 DEF LastWord, Settling, SaysOpen
    <3>4. QED BY <3>3
  <2>3. QED BY <2>1, <2>2
<1>5. QED BY <1>2, <1>3, <1>4 DEF SettleInv

(* The head settles what is shown.                                         *)
LEMMA SettlesNow ==
  ASSUME RunInv, SettleInv, epoch' = epoch, answers # <<>>, answers' = Tail(answers),
         UNCHANGED <<pending, run>>, tx'.untold = tx.untold, tx'.open <=> tx.open,
         Settling(Told), Told.call = "state" => Told.epoch = epoch,
         tx'.shown <=> SaysOpen(Told)
  PROVE  SettleInv'
<1>1. /\ Told = answers[1] /\ 1 \in DOMAIN answers
      /\ \A i \in DOMAIN answers' : /\ i + 1 \in DOMAIN answers /\ i + 1 # 1
                                    /\ answers'[i] = answers[i + 1]
      /\ \A j \in DOMAIN answers \ {1} : j - 1 \in DOMAIN answers' /\ answers'[j - 1] = answers[j]
      /\ DOMAIN answers \subseteq Nat /\ DOMAIN answers' \subseteq Nat /\ 0 \notin DOMAIN answers
  BY HeadTaken DEF RunInv, TypeInv, Told
<1>2. \A i \in DOMAIN answers : AsksAgain(answers[i]) =>
        (\E j \in DOMAIN answers : AsksAgain(answers[j]))'
  <2> SUFFICES ASSUME NEW i \in DOMAIN answers, AsksAgain(answers[i])
               PROVE  (\E j \in DOMAIN answers : AsksAgain(answers[j]))'
    OBVIOUS
  <2>1. i # 1
    BY <1>1 DEF AsksAgain, Settling
  <2>2. PICK j \in DOMAIN answers' : answers'[j] = answers[i]
    BY <1>1, <2>1
  <2>3. AsksAgain(answers[j])'
    BY <2>2 DEF AsksAgain, Reconciles, Seen
  <2>4. QED BY <2>3
<1>3. ASSUME NEW i \in DOMAIN answers, Late(answers[i])
      PROVE  (\E j \in DOMAIN answers : Late(answers[j]))'
  <2>1. i # 1
    BY <1>1, <1>3 DEF Late, Settling
  <2>2. PICK j \in DOMAIN answers' : answers'[j] = answers[i]
    BY <1>1, <2>1
  <2>3. Late(answers[j])'
    BY <1>3, <2>2 DEF Late
  <2>4. QED BY <2>3
<1>4. ASSUME NEW k \in DOMAIN answers \cup {0}, LastWord(k)
      PROVE  (\E j \in DOMAIN answers \cup {0} : LastWord(j))'
  <2>1. CASE k \in {0, 1}
    <3>1. SaysOpen(answers[1]) <=> tx.open
      BY <1>1, <1>4, <2>1 DEF LastWord
    <3>2. \A j \in DOMAIN answers :
            j > 1 /\ Settling(answers[j]) => (SaysOpen(answers[j]) <=> tx.open)
      <4>1. \A j \in DOMAIN answers : j \in Nat
        BY <1>1
      <4>2. CASE k = 0
        BY <1>4, <4>1, <4>2 DEF LastWord
      <4>3. CASE k = 1
        BY <1>4, <4>3 DEF LastWord
      <4>4. QED BY <2>1, <4>2, <4>3
    <3>3. LastWord(0)'
      BY <1>1, <3>1, <3>2 DEF LastWord, Settling, SaysOpen
    <3>4. QED BY <3>3
  <2>2. CASE k \notin {0, 1}
    <3>1. PICK j \in DOMAIN answers' : j = k - 1 /\ answers'[j] = answers[k] /\ j # 0
      BY <1>1, <2>2
    <3>2. LastWord(j)'
      BY <1>1, <1>4, <2>2, <3>1 DEF LastWord, Settling, SaysOpen
    <3>3. QED BY <3>2
  <2>3. QED BY <2>1, <2>2
<1>5. QED BY <1>2, <1>3, <1>4 DEF SettleInv

(* A call is served: what is answered settles the transaction as it is, or *)
(* makes the store ask, or changed nothing, or somebody was not told.      *)
LEMMA SettlesServed ==
  ASSUME RunInv, SettleInv, NEW c \in pending, NEW after \in Txs,
         NEW value \in {"ok", "error", "unsafe", "ddl", "open", "closed"},
         Served(c, value, after), Rightly(c, value, after)
  PROVE  SettleInv'
<1> DEFINE a == [call |-> c.call, n |-> c.n, epoch |-> c.epoch, value |-> value]
<1>0. a \in Answer /\ a.call = c.call /\ a.n = c.n /\ a.value = value
  BY DEF RunInv, TypeInv, Sent, Answer
<1>1. /\ answers \in Seq(Answer)
      /\ pending' = pending \ {c} /\ answers' = Append(answers, a)
      /\ UNCHANGED <<epoch, run>> /\ tx' = after
  BY DEF RunInv, TypeInv, Served, RunAlone
<1>9. \/ Settling(a) /\ (SaysOpen(a) <=> after.open)
      \/ after.untold # {}
      \/ AsksAgain(a)
      \/ /\ ~Settling(a) /\ c.call # "state"
         /\ after.untold = tx.untold
         /\ after.shown <=> tx.shown
         /\ after.open <=> tx.open
  BY DEF Rightly
<1> HIDE DEF a
<1>2. /\ DOMAIN answers = 1 .. Len(answers) /\ Len(answers) \in Nat
      /\ Len(answers) + 1 # 0
      /\ DOMAIN answers' = DOMAIN answers \cup {Len(answers) + 1}
      /\ answers'[Len(answers) + 1] = a
      /\ \A j \in DOMAIN answers : answers'[j] = answers[j]
  BY <1>0, <1>1, EntryAdded
<1>3. PICK n : n = Len(answers) + 1
  OBVIOUS
<1>4. CASE Settling(a) /\ (SaysOpen(a) <=> after.open)
  <2>1. LastWord(n)'
    BY <1>1, <1>2, <1>3, <1>4 DEF LastWord, Settling, SaysOpen
  <2>2. QED BY <1>2, <1>3, <2>1 DEF SettleInv
<1>5. CASE after.untold # {}
  BY <1>1, <1>5 DEF SettleInv
<1>6. CASE AsksAgain(a)
  <2>1. AsksAgain(answers[n])'
    BY <1>1, <1>2, <1>3, <1>6 DEF AsksAgain, Reconciles, Seen
  <2>2. QED BY <1>2, <1>3, <2>1 DEF SettleInv
<1>7. CASE /\ ~Settling(a) /\ c.call # "state"
           /\ after.untold = tx.untold
           /\ after.shown <=> tx.shown
           /\ after.open <=> tx.open
  <2>1. c.call # "state"
    BY <1>7
  <2>2. \A i \in DOMAIN answers : AsksAgain(answers[i]) => AsksAgain(answers[i])'
    BY <1>1, <1>2 DEF AsksAgain, Reconciles, Seen
  <2>3. \A k \in DOMAIN answers \cup {0} : LastWord(k) => LastWord(k)'
    <3> SUFFICES ASSUME NEW k \in DOMAIN answers \cup {0}, LastWord(k) PROVE LastWord(k)'
      OBVIOUS
    <3>1. k # 0 => answers'[k] = answers[k]
      BY <1>2
    <3>2. \A j \in DOMAIN answers' : j > k /\ Settling(answers'[j]) =>
            (SaysOpen(answers'[j]) <=> tx.open)
      BY <1>2, <1>7 DEF LastWord
    <3>3. QED BY <1>1, <1>7, <3>1, <3>2 DEF LastWord, Settling, SaysOpen
  <2>4. tx'.untold = tx.untold
    BY <1>1, <1>7
  <2>5. \A i \in DOMAIN answers : Late(answers[i]) => Late(answers[i])'
    BY <1>1, <1>2 DEF Late
  <2>6. QED BY <1>1, <1>2, <2>1, <2>2, <2>3, <2>4, <2>5 DEF SettleInv
<1>8. QED BY <1>4, <1>5, <1>6, <1>7, <1>9

(* The sidecar serves a call.                                              *)
LEMMA SidecarSettles ==
  ASSUME RunInv, CountInv, SettleInv, NEW c \in pending, Serves(c)
  PROVE  CountInv' /\ SettleInv'
<1>1. PICK value \in {"ok", "error", "unsafe", "ddl", "open", "closed"}, after \in Txs :
        /\ Served(c, value, after) /\ Rightly(c, value, after)
        /\ "sidecar" \notin after.untold => (after.counted <=> after.open)
  BY ServedWell
<1>2. CountInv'
  BY <1>1 DEF Served, CountInv
<1>3. QED BY <1>1, <1>2, SettlesServed

(* An answer arrives.                                                      *)
LEMMA AnswerSettles ==
  ASSUME RunInv, SettleInv,
         UnsafeWarned \/ DdlRefused \/ RunAnswered \/ StateAnswered
           \/ EndAnswered
  PROVE  SettleInv'
<1>1. /\ answers # <<>> /\ answers' = Tail(answers) /\ epoch' = epoch /\ tx \in Txs
      /\ run \in Seq(Run)
  BY DEF RunInv, TypeInv, Txs, UnsafeWarned, DdlRefused, RunAnswered,
         StateAnswered, EndAnswered, Answered, RunAlone
<1>2. /\ Awaited(Told)
      /\ OfRun(Told, Told.n) => \A i \in DOMAIN answers' : ~OfRun(answers'[i], Told.n)
  BY <1>1, HeadAnswered
<1>3. ASSUME NEW r, r = Told.n, Told.call = "run",
             NEW e, run' = [run EXCEPT ![r] = e],
             pending \subseteq pending', tx'.untold = tx.untold,
             tx'.shown <=> tx.shown, tx'.open <=> tx.open, ~AsksAgain(Told)
      PROVE  SettleInv'
  <2>1. \A i \in DOMAIN answers' : answers'[i].call = "run" => answers'[i].n # r
    BY <1>2, <1>3 DEF OfRun
  <2>2. r \in DOMAIN run
    BY <1>2, <1>3 DEF Awaited
  <2>3. \A q : q # r => run'[q] = run[q]
    BY <1>1, <1>3, <2>2
  <2>4. ~Settling(Told)
    BY <1>3 DEF Settling
  <2>5. QED BY <1>1, <1>3, <2>1, <2>3, <2>4, SettlesAfter
<1>4. CASE UnsafeWarned \/ DdlRefused
  <2>1. /\ Told.call = "run" /\ tx' = tx
        /\ Told.call = "run" => Told.value # "ok"
        /\ pending \subseteq pending'
    BY <1>4 DEF UnsafeWarned, DdlRefused, Answered, Told, Calls
  <2>2. ~AsksAgain(Told)
    BY <2>1 DEF AsksAgain, Reconciles
  <2>3. PICK r : r = Told.n
    OBVIOUS
  <2>4. r \in DOMAIN run
    BY <1>2, <2>1, <2>3 DEF Awaited
  <2>5. \E e : run' = [run EXCEPT ![r] = e]
    <3>1. CASE UnsafeWarned
      <4>1. \/ run' = [run EXCEPT ![r].pc = "unsafe"]
            \/ run' = [run EXCEPT ![r] = Done(run[r])]
        BY <2>3, <3>1 DEF UnsafeWarned, Ends
      <4>2. QED BY <4>1
    <3>2. CASE DdlRefused
      <4>1. run' = [run EXCEPT ![r].pc = "ddl"]
        BY <2>3, <3>2 DEF DdlRefused
      <4> DEFINE e == [run[r] EXCEPT !.pc = "ddl"]
      <4>2. run' = [run EXCEPT ![r] = e]
        BY <1>1, <2>4, <4>1
      <4> HIDE DEF e
      <4>3. QED BY <4>2
    <3>3. QED BY <1>4, <3>1, <3>2
  <2>6. QED BY <1>3, <2>1, <2>2, <2>3, <2>5
<1>5. CASE RunAnswered
  <2> DEFINE r == Told.n
             d == Done([run[r] EXCEPT !.row = RowOf(run[r])])
  <2>1. /\ Told.call = "run" /\ run' = [run EXCEPT ![r] = d]
        /\ AsksAgain(Told) => pending' = pending \cup {Call("state", r)}
        /\ ~AsksAgain(Told) => pending' = pending
        /\ ~AsksAgain(Told) => tx' = [tx EXCEPT !.shown = @ \/ FALSE]
    BY <1>5 DEF RunAnswered, Answered, Told, Ends, AsksAgain
  <2>2. CASE AsksAgain(Told)
    <3>1. Call("state", r) \in pending' /\ Call("state", r).call = "state"
      BY <2>1, <2>2 DEF Call
    <3>2. QED BY <3>1 DEF SettleInv
  <2>3. CASE ~AsksAgain(Told)
    <3>1. tx'.untold = tx.untold /\ (tx'.shown <=> tx.shown) /\ (tx'.open <=> tx.open)
      BY <1>1, <2>1, <2>3 DEF Txs
    <3> HIDE DEF d
    <3>2. QED BY <1>3, <2>1, <2>3, <3>1
  <2>4. QED BY <2>2, <2>3
<1>6. CASE StateAnswered
  <2>1. /\ Told.call = "state" /\ UNCHANGED <<pending, run>>
        /\ Told.value \in {"open", "closed", "error"}
    BY <1>6 DEF StateAnswered, Answered, Told
  <2>0. CASE Told.value = "error"
    <3>1. tx' = tx
      BY <1>6, <2>0 DEF StateAnswered
    <3>2. ~Settling(Told) /\ ~AsksAgain(Told)
      BY <2>0, <2>1 DEF Settling, AsksAgain
    <3>3. QED BY <1>1, <2>1, <3>1, <3>2, SettlesAfter
  <2> SUFFICES ASSUME Told.value # "error" PROVE SettleInv'
    BY <2>0
  <2>2. /\ tx'.shown <=> Told.value = "open"
        /\ tx'.open <=> tx.open
        /\ tx'.untold = IF Told.epoch = epoch THEN tx.untold ELSE tx.untold \cup {"store"}
    BY <1>1, <1>6 DEF StateAnswered, Txs
  <2>3. CASE Told.epoch # epoch
    BY <2>2, <2>3 DEF SettleInv
  <2>4. CASE Told.epoch = epoch
    <3>1. Settling(Told) /\ (tx'.shown <=> SaysOpen(Told))
      BY <2>1, <2>2 DEF Settling, SaysOpen
    <3>2. QED BY <1>1, <2>1, <2>2, <2>4, <3>1, SettlesNow
  <2>5. QED BY <2>3, <2>4
<1>7. CASE EndAnswered
  <2>1. Told.call = "end" /\ UNCHANGED <<pending, run>>
    BY <1>7 DEF EndAnswered, Answered, Told
  <2>2. CASE Told.value = "ok"
    <3>1. tx' = [tx EXCEPT !.shown = FALSE]
      BY <1>7, <2>2 DEF EndAnswered
    <3>2. ~tx'.shown /\ (tx'.open <=> tx.open) /\ tx'.untold = tx.untold
      BY <1>1, <3>1 DEF Txs
    <3>3. Settling(Told) /\ ~SaysOpen(Told)
      BY <2>1, <2>2 DEF Settling, SaysOpen
    <3>4. QED BY <1>1, <2>1, <3>2, <3>3, SettlesNow
  <2>3. CASE Told.value # "ok"
    <3>1. tx' = tx
      BY <1>7, <2>3 DEF EndAnswered
    <3>2. ~Settling(Told) /\ ~AsksAgain(Told)
      BY <2>1, <2>3 DEF Settling, AsksAgain
    <3>3. QED BY <1>1, <2>1, <3>1, <3>2, SettlesAfter
  <2>4. QED BY <2>2, <2>3
<1>8. QED BY <1>4, <1>5, <1>6, <1>7

(* The page is left: nothing is open or shown, and what is still under way *)
(* for the transaction is of that page.                                    *)
LEMMA LeavingSettles ==
  ASSUME RunInv, SettleInv, PageLeft
  PROVE  SettleInv'
<1>1. /\ epoch \in Nat /\ epoch' = epoch + 1 /\ UNCHANGED <<run, pending, answers>>
      /\ tx' = [NoTx EXCEPT !.ends = tx.ends]
      /\ \A i \in DOMAIN answers : answers[i] \in Answer /\ Awaited(answers[i])
      /\ 0 \notin DOMAIN answers
  BY DEF RunInv, TypeInv, CallsInv, PageLeft, wire
<1>2. ~tx'.shown /\ ~tx'.open
  BY <1>1 DEF NoTx
<1>3. \A i \in DOMAIN answers : answers[i].epoch # epoch'
  <2>1. \A a \in Answer : a.epoch \in Nat
    BY DEF Answer
  <2>2. QED BY <1>1, <2>1 DEF Awaited
<1>4. CASE \E i \in DOMAIN answers : answers[i].call = "state" /\ answers[i].value # "error"
  BY <1>1, <1>3, <1>4 DEF SettleInv, Late
<1>5. CASE \A i \in DOMAIN answers : answers[i].call # "state" \/ answers[i].value = "error"
  <2>1. LastWord(0)'
    BY <1>1, <1>2, <1>5 DEF LastWord, SaysOpen
  <2>2. QED BY <2>1 DEF SettleInv
<1>6. QED BY <1>4, <1>5

LEMMA SettlesStep ==
  RunInv /\ CountInv /\ SettleInv /\ [Next]_vars => CountInv' /\ SettleInv'
<1> SUFFICES ASSUME RunInv, CountInv, SettleInv, [Next]_vars PROVE CountInv' /\ SettleInv'
  OBVIOUS
<1> DEFINE Same == tx'.untold = tx.untold /\ tx'.counted = tx.counted /\ tx'.open = tx.open
<1>0. Same => CountInv'
  BY DEF CountInv
<1> HIDE DEF Same
<1>1. CASE PageLeft
  <2>1. tx' = [NoTx EXCEPT !.ends = tx.ends]
    BY <1>1 DEF PageLeft
  <2>2. CountInv'
    BY <2>1 DEF CountInv, NoTx
  <2>3. QED BY <1>1, <2>2, LeavingSettles
<1>2. CASE \E c \in pending : Serves(c)
  BY <1>2, SidecarSettles
<1>3. CASE \/ UnsafeWarned \/ DdlRefused \/ RunAnswered
           \/ StateAnswered \/ EndAnswered
  <2>1. CountInv'
    <3>1. tx \in Txs
      BY DEF RunInv, TypeInv
    <3>2. CASE UnsafeWarned \/ DdlRefused
      BY <3>2 DEF UnsafeWarned, DdlRefused, CountInv
    <3>3. CASE RunAnswered
      <4>1. PICK shown : tx' = [tx EXCEPT !.shown = shown]
        BY <3>3 DEF RunAnswered
      <4>2. Same
        BY <3>1, <4>1 DEF Same, Txs
      <4>3. QED BY <1>0, <4>2
    <3>4. CASE StateAnswered
      <4>1. PICK untold : untold = IF Told.epoch = epoch THEN tx.untold
                                   ELSE tx.untold \cup {"store"}
        OBVIOUS
      <4>2. "sidecar" \in untold <=> "sidecar" \in tx.untold
        BY <4>1
      <4>3. tx' = tx \/ tx' = [tx EXCEPT !.shown = Told.value = "open", !.untold = untold]
        BY <3>4, <4>1 DEF StateAnswered
      <4>4. /\ tx'.counted = tx.counted /\ tx'.open = tx.open
            /\ tx'.untold \in {tx.untold, untold}
        BY <3>1, <4>3 DEF Txs
      <4>5. QED BY <4>2, <4>4 DEF CountInv
    <3>5. CASE EndAnswered
      <4>1. tx' = tx \/ tx' = [tx EXCEPT !.shown = FALSE]
        BY <3>5 DEF EndAnswered
      <4>2. Same
        BY <3>1, <4>1 DEF Same, Txs
      <4>3. QED BY <1>0, <4>2
    <3>6. QED BY <1>3, <3>2, <3>3, <3>4, <3>5
  <2>2. QED BY <1>3, <2>1, AnswerSettles
<1>4. CASE \/ UNCHANGED vars
           \/ \E c \in Conns : PageEntered(c)
           \/ TabOpened
           \/ \E t \in DOMAIN tab : TabClosed(t) \/ TabSelected(t)
  <2>1. UNCHANGED <<epoch, run, pending, answers, tx>>
    BY <1>4 DEF vars, tabVars, wire, PageEntered, TabOpened, TabClosed, TabSelected
  <2>2. Same
    BY <2>1 DEF Same
  <2>3. QED BY <1>0, <2>1, <2>2, SettlesBeside
<1>5. CASE \E kind \in Menu : RunStarted(kind)
  <2>1. UNCHANGED <<epoch, answers, tx>> /\ pending \subseteq pending'
    BY <1>5 DEF RunStarted, RunAlone
  <2>2. PICK d : run' = Append(run, d)
    BY <1>5 DEF RunStarted
  <2>3. \A q \in DOMAIN run : run'[q] = run[q]
    BY <2>2 DEF RunInv, TypeInv
  <2>4. \A i \in DOMAIN answers : answers[i].call = "run" => answers[i].n \in DOMAIN run
    BY DEF RunInv, CallsInv, Awaited
  <2>5. Same
    BY <2>1 DEF Same
  <2>6. QED BY <1>0, <2>1, <2>3, <2>4, <2>5, SettlesBeside
<1>6. ASSUME NEW yes \in BOOLEAN,
             ConfirmAnswered(yes) \/ UnsafeAnswered(yes)
      PROVE  CountInv' /\ SettleInv'
  <2>1. UNCHANGED <<epoch, answers, tx>> /\ pending \subseteq pending'
    BY <1>6 DEF ConfirmAnswered, UnsafeAnswered, RunAlone, Calls
  <2>2. PICK r : /\ r \in DOMAIN run /\ run[r].pc # "sent"
                 /\ \A q \in DOMAIN run \ {r} : run'[q] = run[q]
    <3>1. run \in Seq(Run) /\ AskInv
      BY DEF RunInv, TypeInv
    <3>2. CASE ConfirmAnswered(yes)
      BY <3>1, <3>2 DEF ConfirmAnswered, Calls, Ends, AskInv
    <3>3. CASE UnsafeAnswered(yes)
      BY <3>1, <3>3 DEF UnsafeAnswered, Calls, Ends, AskInv
    <3>4. QED BY <1>6, <3>2, <3>3
  <2>3. \A i \in DOMAIN answers : answers[i].call = "run" =>
          answers[i].n \in DOMAIN run \ {r}
    BY <2>2 DEF RunInv, CallsInv, Awaited
  <2>4. Same
    BY <2>1 DEF Same
  <2>5. QED BY <1>0, <2>1, <2>2, <2>3, <2>4, SettlesBeside
<1>7. CASE EndAsked
  <2>1. /\ UNCHANGED <<epoch, run, answers>> /\ pending \subseteq pending'
        /\ tx \in Txs /\ tx' = [tx EXCEPT !.ends = @ + 1]
    BY <1>7 DEF EndAsked, RunAlone, RunInv, TypeInv, Txs
  <2>2. tx'.untold = tx.untold /\ (tx'.shown <=> tx.shown) /\ (tx'.open <=> tx.open)
    BY <2>1 DEF Txs
  <2>3. Same
    BY <2>1 DEF Same, Txs
  <2>4. QED BY <1>0, <2>1, <2>2, <2>3, SettlesBeside
<1>8. CASE SessionLost
  <2>1. tx' = [tx EXCEPT !.open = FALSE, !.counted = FALSE, !.untold = {"store"}] /\ tx \in Txs
    BY <1>8 DEF SessionLost, RunInv, TypeInv
  <2>2. tx'.untold # {} /\ ~tx'.open /\ ~tx'.counted
    BY <2>1 DEF Txs
  <2>3. QED BY <2>2 DEF SettleInv, CountInv
<1>9. QED BY <1>1, <1>2, <1>3, <1>4, <1>5, <1>6, <1>7, <1>8 DEF Next, Serves

(* Whatever is run, answered late, committed, lost or left behind: once    *)
(* nothing is under way the editor shows the transaction as it is in the   *)
(* database, unless the sidecar (whose count it is told) or the store was  *)
(* not told of what happened to it last (reconcileTxState,                 *)
(* sql-editor.svelte.ts:232; reconcileAfter, oracle.ts:1634).              *)
THEOREM ShownTransactionIsRight == Spec => []TxViewSettles
<1>1. Init => CountInv /\ SettleInv
  <2> SUFFICES ASSUME Init PROVE CountInv /\ SettleInv
    OBVIOUS
  <2>1. DOMAIN answers = {} /\ ~tx.shown /\ ~tx.open /\ ~tx.counted
    BY DEF Init, NoTx
  <2>2. LastWord(0)
    BY <2>1 DEF LastWord
  <2>3. QED BY <2>1, <2>2 DEF SettleInv, CountInv
<1>2. RunInv /\ SettleInv => TxViewSettles
  <2> SUFFICES ASSUME RunInv, SettleInv, pending = {}, answers = <<>>, tx.untold = {}
               PROVE  tx.shown = tx.open
    BY DEF TxViewSettles
  <2>1. DOMAIN answers = {}
    OBVIOUS
  <2>2. LastWord(0)
    BY <2>1 DEF SettleInv
  <2>3. tx.shown <=> tx.open
    BY <2>2 DEF LastWord
  <2>4. tx.shown \in BOOLEAN /\ tx.open \in BOOLEAN
    BY DEF RunInv, TypeInv, Txs
  <2>5. QED BY <2>3, <2>4
<1>3. QED BY <1>1, <1>2, RunInvInit, RunsStep, SettlesStep, PTL DEF Spec

-----------------------------------------------------------------------------
(***************************************************************************)
(* The tabs' flags.                                                        *)
(***************************************************************************)

(* A run of this page is on a tab of this page, and holds its object or an *)
(* older one.                                                              *)
PlaceInv ==
  /\ \A r \in DOMAIN run : run[r].epoch <= epoch
  /\ \A r \in DOMAIN run : run[r].epoch = epoch => run[r].tab \in DOMAIN tab \cup {0}
  /\ \A r \in DOMAIN run : \A t \in DOMAIN tab :
       run[r].epoch = epoch /\ run[r].pc # "done" /\ run[r].tab = t =>
         run[r].copy <= tab[t].copy

(* The run a tab shows holds its object and is under way, unless a commit  *)
(* tore them apart; ...                                                    *)
ShowsRun(t) ==
  tab[t].running /\ ~tab[t].torn =>
    \E r \in DOMAIN run : r = tab[t].by /\ InFlight(r) /\ Holds(run[r], t)

(* ... and one that holds it is shown, unless there was another.           *)
IsShown(r, t) ==
  InFlight(r) /\ Holds(run[r], t) =>
    tab[t].running \/ \E q \in DOMAIN run \ {r} : run[q].tab = t /\ run[q].epoch = epoch

FlagsInv ==
  /\ PlaceInv
  /\ \A t \in DOMAIN tab : ShowsRun(t)
  /\ \A t \in DOMAIN tab : \A r \in DOMAIN run : IsShown(r, t)

(* A run begins, goes on or ends, and does to its tab what its code does.  *)
LEMMA FlagsMove ==
  ASSUME RunInv, FlagsInv, epoch' = epoch, NEW r \in DOMAIN run, NEW e \in Run,
         run' = [run EXCEPT ![r] = e],
         e.tab = run[r].tab, e.epoch = run[r].epoch,
         e.pc # "done" => e.copy = run[r].copy, run[r].pc # "done",
         \/ tab' = tab /\ InFlight(r) /\ e.pc \notin {"confirm", "done"}
         \/ tab' = Taken(r, run[r]) /\ ~InFlight(r) /\ e.pc \notin {"confirm", "done"}
         \/ tab' = Freed(run[r]) /\ e.pc = "done"
  PROVE  FlagsInv'
<1>1. run \in Seq(Run) /\ tab \in Seq(Tab) /\ r \in Nat /\ r # 0
  BY AskedIsIdle DEF RunInv, TypeInv
<1>2. /\ DOMAIN run' = DOMAIN run /\ run'[r] = e
      /\ \A q \in DOMAIN run \ {r} : run'[q] = run[q]
  BY <1>1, EntryReplaced
<1>3. PICK x : x = run[r]
  OBVIOUS
<1> DEFINE Goes == e.pc \notin {"confirm", "done"}
<1>4. /\ DOMAIN tab' = DOMAIN tab
      /\ \A t \in DOMAIN tab : tab'[t].copy = tab[t].copy /\ tab'[t].torn = tab[t].torn
      /\ \A t \in DOMAIN tab : ~Holds(x, t) => tab'[t] = tab[t]
      /\ \A t \in DOMAIN tab : Holds(x, t) =>
           \/ tab'[t] = tab[t] /\ InFlight(r) /\ Goes
           \/ tab'[t].running = TRUE /\ tab'[t].by = r /\ Goes
           \/ tab'[t].running = FALSE /\ e.pc = "done"
  <2>1. CASE tab' = tab /\ InFlight(r) /\ Goes
    BY <2>1
  <2>2. CASE tab' = Taken(r, x) /\ Goes
    BY <1>1, <2>2, TakenHolds
  <2>3. CASE tab' = Freed(x) /\ e.pc = "done"
    BY <1>1, <2>3, FreedHolds
  <2>4. QED BY <1>3, <2>1, <2>2, <2>3
<1>5. \A y : \A t \in DOMAIN tab : Holds(y, t)' <=> Holds(y, t)
  BY <1>4 DEF Holds
<1>6. PlaceInv'
  BY <1>2, <1>4 DEF FlagsInv, PlaceInv
<1>7. /\ \A q \in DOMAIN run \ {r} : InFlight(q)' <=> InFlight(q)
      /\ InFlight(r)' <=> Goes
  BY <1>2 DEF InFlight
<1>8. Goes => \A t \in DOMAIN tab : Holds(e, t) <=> Holds(x, t)
  BY <1>3 DEF Holds
<1> HIDE DEF Goes
<1>9. ASSUME NEW t \in DOMAIN tab PROVE ShowsRun(t)'
  <2> SUFFICES ASSUME tab'[t].running, ~tab'[t].torn
               PROVE  \E q \in DOMAIN run : q = tab'[t].by /\ InFlight(q)' /\ Holds(run'[q], t)
    BY <1>2, <1>5 DEF ShowsRun
  <2>1. CASE Holds(x, t) /\ tab'[t].by = r /\ Goes
    BY <1>2, <1>7, <1>8, <2>1
  <2>2. CASE tab'[t] = tab[t]
    <3>1. PICK q \in DOMAIN run : q = tab[t].by /\ InFlight(q) /\ Holds(run[q], t)
      BY <2>2 DEF FlagsInv, ShowsRun
    <3>2. CASE q # r
      BY <1>2, <1>7, <2>2, <3>1, <3>2
    <3>3. CASE q = r
      <4>1. Holds(x, t) /\ Goes
        BY <1>3, <1>4, <3>1, <3>3
      <4>2. QED BY <2>1, <2>2, <3>1, <3>3, <4>1
    <3>4. QED BY <3>2, <3>3
  <2>3. QED BY <1>4, <2>1, <2>2
<1>10. ASSUME NEW t \in DOMAIN tab, NEW q \in DOMAIN run PROVE IsShown(q, t)'
  <2> SUFFICES ASSUME InFlight(q)', Holds(run'[q], t), ~tab'[t].running
               PROVE  \E p \in DOMAIN run \ {q} : run'[p].tab = t /\ run'[p].epoch = epoch
    BY <1>2, <1>5 DEF IsShown
  <2>1. \A p \in DOMAIN run : run'[p].tab = run[p].tab /\ run'[p].epoch = run[p].epoch
    BY <1>2
  <2>2. CASE q = r
    <3>1. Goes /\ Holds(x, t)
      BY <1>2, <1>7, <1>8, <2>2
    <3>2. tab'[t] = tab[t] /\ InFlight(r)
      <4>1. e.pc # "done"
        BY <3>1 DEF Goes
      <4>2. QED BY <1>4, <3>1, <4>1
    <3>3. PICK p \in DOMAIN run \ {q} : run[p].tab = t /\ run[p].epoch = epoch
      BY <1>3, <2>2, <3>1, <3>2 DEF FlagsInv, IsShown
    <3>4. QED BY <2>1, <3>3
  <2>3. CASE q # r
    <3>1. InFlight(q) /\ Holds(run[q], t)
      BY <1>2, <1>7, <2>3
    <3>2. CASE Holds(x, t)
      BY <1>3, <2>1, <2>3, <3>2 DEF Holds
    <3>3. CASE ~Holds(x, t)
      <4>1. tab'[t] = tab[t]
        BY <1>4, <3>3
      <4>2. PICK p \in DOMAIN run \ {q} : run[p].tab = t /\ run[p].epoch = epoch
        BY <3>1, <4>1 DEF FlagsInv, IsShown
      <4>3. QED BY <2>1, <4>2
    <3>4. QED BY <3>2, <3>3
  <2>4. QED BY <2>2, <2>3
<1>11. QED BY <1>2, <1>4, <1>6, <1>9, <1>10 DEF FlagsInv

(* What is left of a run's record is of the same tab and page.             *)
Kin(e, x) ==
  /\ e \in Run /\ e.tab = x.tab /\ e.epoch = x.epoch
  /\ e.pc # "done" => e.copy = x.copy

LEMMA KinHolds ==
  ASSUME NEW x \in Busy
  PROVE  /\ LET e == [x EXCEPT !.pc = "sent"] IN Kin(e, x) /\ e.pc = "sent"
         /\ LET e == [x EXCEPT !.pc = "sent", !.acked = TRUE] IN Kin(e, x) /\ e.pc = "sent"
         /\ LET e == [x EXCEPT !.pc = "unsafe"] IN Kin(e, x) /\ e.pc = "unsafe"
         /\ LET e == [x EXCEPT !.pc = "ddl"] IN Kin(e, x) /\ e.pc = "ddl"
         /\ Kin(Done(x), x)
         /\ \A row \in Conns \cup {None} : Kin(Done([x EXCEPT !.row = row]), x)
<1>1. /\ LET e == [x EXCEPT !.pc = "sent"] IN Kin(e, x) /\ e.pc = "sent"
      /\ LET e == [x EXCEPT !.pc = "sent", !.acked = TRUE] IN Kin(e, x) /\ e.pc = "sent"
      /\ LET e == [x EXCEPT !.pc = "unsafe"] IN Kin(e, x) /\ e.pc = "unsafe"
      /\ LET e == [x EXCEPT !.pc = "ddl"] IN Kin(e, x) /\ e.pc = "ddl"
  BY DEF Kin, Run, Busy
<1>2. Kin(Done(x), x)
  <2>1. x.row \in Conns \cup {None}
    BY DEF Busy
  <2>2. QED BY <2>1, DoneHolds DEF Kin, Run
<1>3. \A row \in Conns \cup {None} : Kin(Done([x EXCEPT !.row = row]), x)
  BY DoneHolds DEF Kin, Run
<1>4. QED BY <1>1, <1>2, <1>3

(* A step that moves a run: what it does to the run's tab, ...             *)
MovesTab(r, e) ==
  \/ tab' = tab /\ InFlight(r) /\ e.pc \notin {"confirm", "done"}
  \/ tab' = Taken(r, run[r]) /\ ~InFlight(r) /\ e.pc \notin {"confirm", "done"}
  \/ tab' = Freed(run[r]) /\ e.pc = "done"

Questions == {"confirm", "unsafe", "ddl"}

(* ... and to the slots: it may leave its own and may take one, and only   *)
(* the one of the DDL question from another run.                           *)
MovesSlots(r, e) ==
  /\ ask' \in Slots
  /\ \A k \in Questions : \/ ask'[k] = ask[k]
                          \/ ask[k] = r /\ run[r].pc = k
                          \/ ask'[k] = r /\ e.pc = k /\ (ask[k] = 0 \/ k = "ddl")
  /\ e.pc \in Questions => ask'[e.pc] = r

Moves(r, e) ==
  /\ run' = [run EXCEPT ![r] = e] /\ Kin(e, run[r]) /\ run[r].pc \notin {"done", "ddl"}
  /\ MovesTab(r, e) /\ MovesSlots(r, e)

LEMMA UserMoves ==
  ASSUME RunInv, NEW yes \in BOOLEAN,
         ConfirmAnswered(yes) \/ UnsafeAnswered(yes)
  PROVE  \E r \in DOMAIN run : \E e : Moves(r, e)
<1>1. ask \in Slots /\ AskInv
  BY DEF RunInv, TypeInv, Slots
<1>2. PICK k \in {"confirm", "unsafe"} :
        /\ k = "confirm" => ConfirmAnswered(yes)
        /\ k = "unsafe" => UnsafeAnswered(yes)
  BY DEF Questions
<1>3. PICK r : r = ask[k]
  OBVIOUS
<1>4. r \in DOMAIN run /\ run[r].pc = k /\ k \in Questions
  BY <1>1, <1>2, <1>3 DEF AskInv, ConfirmAnswered, UnsafeAnswered, Questions
<1>5. run[r] \in Busy
  BY <1>4, AskedIsIdle
<1>6. ask' = [ask EXCEPT ![k] = 0]
  BY <1>2, <1>4 DEF ConfirmAnswered, UnsafeAnswered
<1>7. ASSUME NEW e, e.pc \notin Questions PROVE MovesSlots(r, e)
  <2>1. ask' \in Slots /\ \A j \in Questions : ask'[j] = IF j = k THEN 0 ELSE ask[j]
    BY <1>1, <1>2, <1>6 DEF Slots, Questions
  <2>2. QED BY <1>3, <1>4, <1>7, <2>1 DEF MovesSlots, Questions
<1> DEFINE f == [run[r] EXCEPT !.pc = "sent"]
           g == [run[r] EXCEPT !.pc = "sent", !.acked = TRUE]
           d == Done(run[r])
<1>8. /\ Kin(f, run[r]) /\ Kin(g, run[r]) /\ Kin(d, run[r])
      /\ f.pc = "sent" /\ g.pc = "sent" /\ d.pc = "done"
  BY <1>5, KinHolds DEF Done
<1>9. /\ k = "confirm" /\ yes => run' = [run EXCEPT ![r] = f] /\ tab' = Taken(r, run[r])
      /\ k = "unsafe" /\ yes => run' = [run EXCEPT ![r] = g] /\ tab' = tab
      /\ ~yes => run' = [run EXCEPT ![r] = d] /\ tab' = Freed(run[r])
  BY <1>2, <1>3, <1>4 DEF ConfirmAnswered, UnsafeAnswered, Calls, Ends
<1> HIDE DEF f, g, d
<1>10. InFlight(r) <=> k # "confirm"
  BY <1>4 DEF InFlight
<1>11. CASE k = "confirm" /\ yes
  BY <1>4, <1>7, <1>8, <1>9, <1>10, <1>11 DEF Moves, MovesTab, Questions
<1>12. CASE k = "unsafe" /\ yes
  BY <1>4, <1>7, <1>8, <1>9, <1>10, <1>12 DEF Moves, MovesTab, Questions
<1>14. CASE ~yes
  BY <1>4, <1>7, <1>8, <1>9, <1>14 DEF Moves, MovesTab, Questions
<1>15. QED BY <1>2, <1>4, <1>11, <1>12, <1>14

LEMMA AnswerMoves ==
  ASSUME RunInv, UnsafeWarned \/ DdlRefused \/ RunAnswered
  PROVE  \E r \in DOMAIN run : \E e : Moves(r, e)
<1>1. /\ ask \in Slots /\ AskInv /\ run \in Seq(Run) /\ answers # <<>>
      /\ ctx \in Conns \cup {None}
  BY DEF RunInv, TypeInv, Slots, UnsafeWarned, DdlRefused, RunAnswered, Answered
<1>2. PICK r : r = Told.n
  OBVIOUS
<1>3. r \in DOMAIN run /\ run[r] \in Busy /\ InFlight(r) /\ run[r].pc = "sent" /\ r \in Nat
  <2>1. Told.call = "run" /\ Awaited(Told)
    BY <1>1, HeadAnswered DEF UnsafeWarned, DdlRefused, RunAnswered, Answered,
       Told
  <2>2. r \in DOMAIN run /\ run[r].pc = "sent"
    BY <1>2, <2>1 DEF Awaited
  <2>3. QED BY <2>2, AskedIsIdle DEF InFlight
<1>4. ASSUME NEW e, e.pc \notin Questions, ask' = ask PROVE MovesSlots(r, e)
  BY <1>1, <1>4 DEF MovesSlots, Questions
<1>5. CASE UnsafeWarned
  <2>1. CASE UnsafeSlotFree
    <3> DEFINE e == [run[r] EXCEPT !.pc = "unsafe"]
    <3>1. Kin(e, run[r]) /\ e.pc = "unsafe"
      BY <1>3, KinHolds
    <3>2. /\ run' = [run EXCEPT ![r] = e] /\ tab' = tab /\ ask' = [ask EXCEPT !.unsafe = r]
          /\ ask.unsafe = 0
      BY <1>2, <1>5, <2>1 DEF UnsafeWarned, UnsafeSlotFree
    <3> HIDE DEF e
    <3>3. /\ ask' \in Slots /\ ask'.unsafe = r
          /\ \A k \in Questions : k # "unsafe" => ask'[k] = ask[k]
      BY <1>1, <1>3, <3>2 DEF Slots, Questions
    <3>4. MovesSlots(r, e)
      BY <3>1, <3>2, <3>3 DEF MovesSlots, Questions
    <3>5. QED BY <1>3, <3>1, <3>2, <3>4 DEF Moves, MovesTab
  <2>2. CASE ~UnsafeSlotFree
    <3> DEFINE d == Done(run[r])
    <3>1. Kin(d, run[r]) /\ d.pc = "done"
      BY <1>3, KinHolds DEF Done
    <3>2. run' = [run EXCEPT ![r] = d] /\ tab' = Freed(run[r]) /\ ask' = ask
      BY <1>2, <1>5, <2>2 DEF UnsafeWarned, Ends
    <3> HIDE DEF d
    <3>3. QED BY <1>3, <1>4, <3>1, <3>2 DEF Moves, MovesTab, Questions
  <2>3. QED BY <2>1, <2>2
<1>6. CASE DdlRefused
  <2> DEFINE e == [run[r] EXCEPT !.pc = "ddl"]
  <2>1. Kin(e, run[r]) /\ e.pc = "ddl"
    BY <1>3, KinHolds
  <2>2. /\ run' = [run EXCEPT ![r].pc = "ddl"]
        /\ tab' = tab /\ ask' = [ask EXCEPT !.ddl = r]
    BY <1>2, <1>6 DEF DdlRefused
  <2>3. run' = [run EXCEPT ![r] = e]
    BY <1>1, <1>3, <2>2
  <2> HIDE DEF e
  <2>4. /\ ask' \in Slots /\ ask'.ddl = r
        /\ \A k \in Questions : k # "ddl" => ask'[k] = ask[k]
    BY <1>1, <1>3, <2>2 DEF Slots, Questions
  <2>5. MovesSlots(r, e)
    BY <2>1, <2>4 DEF MovesSlots, Questions
  <2>6. QED BY <1>3, <2>1, <2>2, <2>3, <2>5 DEF Moves, MovesTab
<1>8. CASE RunAnswered
  <2> DEFINE x == [run[r] EXCEPT !.row = RowOf(run[r])]
             d == Done(x)
  <2>1. RowOf(run[r]) \in Conns \cup {None}
    BY <1>1 DEF RowOf
  <2>2. Kin(d, run[r]) /\ d.pc = "done" /\ Freed(x) = Freed(run[r])
    <3>1. d.pc = "done"
      BY DEF Done
    <3>2. \A row \in Conns \cup {None} :
            /\ Kin(Done([run[r] EXCEPT !.row = row]), run[r])
            /\ Freed([run[r] EXCEPT !.row = row]) = Freed(run[r])
      BY <1>3, KinHolds, DoneHolds
    <3>3. PICK y \in Conns \cup {None} : y = RowOf(run[r])
      BY <2>1
    <3>4. x = [run[r] EXCEPT !.row = y]
      BY <3>3
    <3>5. Kin(Done([run[r] EXCEPT !.row = y]), run[r])
      BY <3>2
    <3>6. Freed([run[r] EXCEPT !.row = y]) = Freed(run[r])
      BY <3>2
    <3>7. Kin(d, run[r])
      BY <3>4, <3>5
    <3>8. Freed(x) = Freed(run[r])
      BY <3>4, <3>6
    <3>9. QED BY <3>1, <3>7, <3>8
  <2>3. run' = [run EXCEPT ![r] = d] /\ tab' = Freed(x) /\ ask' = ask
    BY <1>2, <1>8 DEF RunAnswered, Ends
  <2> HIDE DEF d, x
  <2>4. QED BY <1>3, <1>4, <2>2, <2>3 DEF Moves, MovesTab, Questions
<1>9. QED BY <1>5, <1>6, <1>8

(* A run whose question is not shown lost it by leaving the page or to a   *)
(* later DDL question.                                                     *)
DroppedInv ==
  \A q \in DOMAIN run : \A k \in Questions :
    run[q].pc = k /\ ask[k] # q =>
      \/ run[q].epoch < epoch
      \/ k = "ddl" /\ \E p \in DOMAIN run \ {q} : run[p].pc = "ddl"

LEMMA MovesKeep ==
  ASSUME RunInv, FlagsInv, DroppedInv, epoch' = epoch,
         NEW r \in DOMAIN run, NEW e, Moves(r, e)
  PROVE  FlagsInv' /\ DroppedInv'
<1>1. FlagsInv'
  BY FlagsMove DEF Moves, MovesTab, Kin
<1>2. /\ DOMAIN run' = DOMAIN run /\ run'[r] = e
      /\ \A q \in DOMAIN run \ {r} : run'[q] = run[q]
  BY EntryReplaced DEF RunInv, TypeInv, Moves, Kin
<1>3. DroppedInv'
  <2> SUFFICES ASSUME NEW q \in DOMAIN run, NEW k \in Questions,
                      run'[q].pc = k, ask'[k] # q
               PROVE  \/ run'[q].epoch < epoch
                      \/ k = "ddl" /\ \E p \in DOMAIN run \ {q} : run'[p].pc = "ddl"
    BY <1>2 DEF DroppedInv
  <2>1. q # r /\ run'[q] = run[q] /\ run[q].pc = k
    BY <1>2 DEF Moves, MovesSlots
  <2>2. CASE ask[k] = q
    <3>1. k = "ddl" /\ e.pc = "ddl"
      <4>1. q # 0
        BY AskedIsIdle
      <4>2. ask'[k] = r /\ e.pc = k /\ k = "ddl"
        BY <2>1, <2>2, <4>1 DEF Moves, MovesSlots
      <4>3. QED BY <4>2
    <3>2. QED BY <1>2, <2>1, <3>1
  <2>3. CASE ask[k] # q
    <3>1. CASE run[q].epoch < epoch
      BY <2>1, <3>1
    <3>2. CASE k = "ddl" /\ \E p \in DOMAIN run \ {q} : run[p].pc = "ddl"
      <4>1. PICK p \in DOMAIN run \ {q} : run[p].pc = "ddl"
        BY <3>2
      <4>2. run'[p].pc = "ddl"
        BY <1>2, <4>1 DEF Moves, Kin
      <4>3. QED BY <3>2, <4>2
    <3>3. QED BY <2>1, <2>3, <3>1, <3>2 DEF DroppedInv
  <2>4. QED BY <2>2, <2>3
<1>4. QED BY <1>1, <1>3

(* A run is started.                                                       *)
LEMMA StartKeeps ==
  ASSUME RunInv, FlagsInv, DroppedInv, NEW kind \in Menu, RunStarted(kind)
  PROVE  FlagsInv' /\ DroppedInv'
<1> DEFINE e == NewRun(kind, IF kind.how = "command" THEN 0 ELSE active)
<1>0. PICK r : r = Len(run) + 1
  OBVIOUS
<1>1. /\ epoch' = epoch /\ epoch \in Nat /\ active \in DOMAIN tab \cup {0}
      /\ tab \in Seq(Tab) /\ run \in Seq(Run) /\ ask \in Slots
  BY DEF RunInv, TypeInv, RunStarted, RunAlone, Slots
<1>2. /\ kind.how # "command" => active \in DOMAIN tab
      /\ \A t \in DOMAIN tab : t \in Nat /\ t # 0 /\ tab[t].copy \in Nat
  <2>1. \A t \in DOMAIN tab : t \in Nat /\ t # 0 /\ tab[t] \in Tab
    BY <1>1
  <2>2. QED BY <1>1, <2>1 DEF RunStarted, Tab
<1>3. /\ e.pc = "sent" /\ e.epoch = epoch /\ e.tab \in DOMAIN tab \cup {0}
      /\ \A t \in DOMAIN tab : e.tab = t => e.copy = tab[t].copy
  BY <1>1, <1>2 DEF NewRun
<1>4. PICK d : /\ run' = Append(run, d) /\ d.tab = e.tab /\ d.epoch = epoch
               /\ d.pc # "done" => d.copy = e.copy
               /\ \/ /\ d.pc = "confirm" /\ ask.confirm = 0
                     /\ ask' = [ask EXCEPT !.confirm = r] /\ tab' = tab
                  \/ d.pc = "done" /\ ask' = ask /\ tab' = tab
                  \/ d.pc = "sent" /\ tab' = Taken(r, d) /\ ask' = ask
  <2> DEFINE f == [e EXCEPT !.pc = "confirm"]
             g == Done(e)
  <2>1. /\ f.tab = e.tab /\ f.epoch = e.epoch /\ f.pc = "confirm" /\ f.copy = e.copy
        /\ g.tab = e.tab /\ g.epoch = e.epoch /\ g.pc = "done"
    BY DEF NewRun, Done
  <2>2. IF kind.asks /\ kind.how # "fetch"
          THEN /\ run' = Append(run, IF ask.confirm = 0 THEN f ELSE g)
               /\ ask' = IF ask.confirm = 0 THEN [ask EXCEPT !.confirm = r] ELSE ask
               /\ UNCHANGED <<tab, pending>>
          ELSE /\ run' = Append(run, e) /\ tab' = Taken(r, e)
               /\ pending' = pending \cup {Call("run", r)}
               /\ UNCHANGED ask
    BY <1>0 DEF RunStarted
  <2> HIDE DEF f, g, e
  <2>3. CASE kind.asks /\ kind.how # "fetch" /\ ask.confirm = 0
    BY <1>3, <2>1, <2>2, <2>3
  <2>4. CASE kind.asks /\ kind.how # "fetch" /\ ask.confirm # 0
    BY <1>3, <2>1, <2>2, <2>4
  <2>5. CASE ~(kind.asks /\ kind.how # "fetch")
    BY <1>3, <2>2, <2>5
  <2>6. QED BY <2>3, <2>4, <2>5
<1> HIDE DEF e
<1>5. r \notin DOMAIN run /\ r \in Nat /\ r # 0
  BY <1>0, <1>1
<1>6. /\ DOMAIN run' = DOMAIN run \cup {r} /\ run'[r] = d
      /\ \A q \in DOMAIN run : run'[q] = run[q]
  <2>1. PICK T : T = Run \cup {d}
    OBVIOUS
  <2>2. run \in Seq(T) /\ d \in T
    BY <1>1, <2>1
  <2>3. QED BY <1>0, <1>4, <2>2, EntryAdded
<1>7. /\ DOMAIN tab' = DOMAIN tab
      /\ \A t \in DOMAIN tab : tab'[t].copy = tab[t].copy /\ tab'[t].torn = tab[t].torn
      /\ \A t \in DOMAIN tab :
           \/ tab'[t] = tab[t] /\ (InFlight(r)' => ~Holds(d, t))
           \/ tab'[t].running = TRUE /\ tab'[t].by = r /\ Holds(d, t) /\ InFlight(r)'
  <2>1. InFlight(r)' <=> d.pc \notin {"confirm", "done"}
    BY <1>6 DEF InFlight
  <2>2. CASE d.pc # "sent"
    BY <1>4, <2>1, <2>2
  <2>3. CASE d.pc = "sent"
    <3>1. tab' = Taken(r, d) /\ InFlight(r)'
      BY <1>4, <2>1, <2>3
    <3>2. /\ DOMAIN Taken(r, d) = DOMAIN tab
          /\ \A t \in DOMAIN tab :
               /\ Taken(r, d)[t].copy = tab[t].copy
               /\ Taken(r, d)[t].torn = tab[t].torn
               /\ Holds(d, t) => Taken(r, d)[t].running = TRUE /\ Taken(r, d)[t].by = r
               /\ ~Holds(d, t) => Taken(r, d)[t] = tab[t]
      BY <1>1, <1>5, TakenHolds
    <3>3. QED BY <3>1, <3>2
  <2>4. QED BY <2>2, <2>3
<1>8. \A y : \A t \in DOMAIN tab : Holds(y, t)' <=> Holds(y, t)
  BY <1>1, <1>7 DEF Holds
<1>9. \A q \in DOMAIN run : InFlight(q)' <=> InFlight(q)
  BY <1>6 DEF InFlight
<1>10. PlaceInv'
  <2>1. \A q \in DOMAIN run' : run'[q].epoch <= epoch
    BY <1>1, <1>4, <1>6 DEF FlagsInv, PlaceInv
  <2>2. \A q \in DOMAIN run' : run'[q].epoch = epoch => run'[q].tab \in DOMAIN tab \cup {0}
    BY <1>3, <1>4, <1>6 DEF FlagsInv, PlaceInv
  <2>3. \A q \in DOMAIN run' : \A t \in DOMAIN tab :
          run'[q].epoch = epoch /\ run'[q].pc # "done" /\ run'[q].tab = t =>
            run'[q].copy <= tab[t].copy
    BY <1>2, <1>3, <1>4, <1>6 DEF FlagsInv, PlaceInv
  <2>4. QED BY <1>1, <1>7, <2>1, <2>2, <2>3 DEF PlaceInv
<1>11. ASSUME NEW t \in DOMAIN tab PROVE ShowsRun(t)'
  <2> SUFFICES ASSUME tab'[t].running, ~tab'[t].torn
               PROVE  \E q \in DOMAIN run' : q = tab'[t].by /\ InFlight(q)' /\ Holds(run'[q], t)
    BY <1>8 DEF ShowsRun
  <2>1. CASE tab'[t] = tab[t]
    <3>1. PICK q \in DOMAIN run : q = tab[t].by /\ InFlight(q) /\ Holds(run[q], t)
      BY <2>1 DEF FlagsInv, ShowsRun
    <3>2. QED BY <1>6, <1>9, <2>1, <3>1
  <2>2. QED BY <1>6, <1>7, <2>1
<1>12. ASSUME NEW t \in DOMAIN tab, NEW q \in DOMAIN run' PROVE IsShown(q, t)'
  <2> SUFFICES ASSUME InFlight(q)', Holds(run'[q], t), ~tab'[t].running
               PROVE  \E p \in DOMAIN run' \ {q} : run'[p].tab = t /\ run'[p].epoch = epoch
    BY <1>1, <1>8 DEF IsShown
  <2>1. q # r /\ q \in DOMAIN run
    BY <1>6, <1>7
  <2>2. InFlight(q) /\ Holds(run[q], t)
    BY <1>6, <1>9, <2>1
  <2>3. tab'[t] = tab[t]
    BY <1>7
  <2>4. PICK p \in DOMAIN run \ {q} : run[p].tab = t /\ run[p].epoch = epoch
    BY <2>1, <2>2, <2>3 DEF FlagsInv, IsShown
  <2>5. QED BY <1>6, <2>4
<1>13. FlagsInv'
  BY <1>7, <1>10, <1>11, <1>12 DEF FlagsInv
<1>14. DroppedInv'
  <2> SUFFICES ASSUME NEW q \in DOMAIN run', NEW k \in Questions, run'[q].pc = k, ask'[k] # q
               PROVE  \/ run'[q].epoch < epoch
                      \/ k = "ddl" /\ \E p \in DOMAIN run' \ {q} : run'[p].pc = "ddl"
    BY <1>1 DEF DroppedInv
  <2>1. ask' = ask \/ (ask.confirm = 0 /\ ask' = [ask EXCEPT !.confirm = r] /\ d.pc = "confirm")
    BY <1>4
  <2>2. d.pc = "confirm" => ask'.confirm = r
    BY <1>1, <1>4, <1>5 DEF Slots
  <2>3. q # r
    BY <1>4, <1>6, <2>2 DEF Questions
  <2>4. q \in DOMAIN run /\ q # 0 /\ run'[q] = run[q]
    BY <1>6, <2>3, AskedIsIdle
  <2>5. ask[k] # q
    <3>1. ask'[k] = ask[k] \/ ask[k] = 0
      BY <1>1, <2>1 DEF Slots, Questions
    <3>2. QED BY <2>4, <3>1
  <2>6. \/ run[q].epoch < epoch
        \/ k = "ddl" /\ \E p \in DOMAIN run \ {q} : run[p].pc = "ddl"
    BY <2>4, <2>5 DEF DroppedInv
  <2>7. QED BY <1>6, <2>4, <2>6
<1>15. QED BY <1>13, <1>14

(* A tab is opened, or the page is left.                                   *)
LEMMA PageKeeps ==
  ASSUME RunInv, FlagsInv, DroppedInv, TabOpened \/ PageLeft
  PROVE  FlagsInv' /\ DroppedInv'
<1>1. CASE TabOpened
  <2>1. /\ UNCHANGED <<epoch, run, ask>> /\ tab' = Append(tab, NewTab) /\ tab \in Seq(Tab)
        /\ NewTab \in Tab /\ NewTab.running = FALSE
    BY <1>1 DEF TabOpened, RunInv, TypeInv, Tab, NewTab, wire
  <2>2. PICK n : n = Len(tab) + 1
    OBVIOUS
  <2>3. /\ DOMAIN tab' = DOMAIN tab \cup {n} /\ n \notin DOMAIN tab /\ n # 0
        /\ tab'[n] = NewTab /\ \A t \in DOMAIN tab : tab'[t] = tab[t]
    BY <2>1, <2>2, EntryAdded
  <2>4. DroppedInv'
    BY <2>1 DEF DroppedInv
  <2>5. \A r \in DOMAIN run : run[r].epoch = epoch => run[r].tab # n
    BY <2>3 DEF FlagsInv, PlaceInv
  <2>6. PlaceInv'
    BY <2>1, <2>3, <2>5 DEF FlagsInv, PlaceInv
  <2>7. \A t \in DOMAIN tab' : ShowsRun(t)'
    BY <2>1, <2>3 DEF FlagsInv, ShowsRun, Holds, InFlight
  <2>8. \A t \in DOMAIN tab' : \A r \in DOMAIN run : IsShown(r, t)'
    BY <2>1, <2>3, <2>5 DEF FlagsInv, IsShown, Holds, InFlight
  <2>9. QED BY <2>1, <2>4, <2>6, <2>7, <2>8 DEF FlagsInv
<1>2. CASE PageLeft
  <2>1. /\ epoch' = epoch + 1 /\ run' = run /\ tab' = <<>> /\ epoch \in Nat
        /\ \A r \in DOMAIN run : run[r].epoch \in Nat /\ run[r].epoch <= epoch
    <3>1. \A r \in DOMAIN run : run[r] \in Run
      BY DEF RunInv, TypeInv
    <3>2. \A x \in Run : x.epoch \in Nat
      BY DEF Run, Busy, Over
    <3>3. QED BY <1>2, <3>1, <3>2 DEF PageLeft, RunInv, TypeInv, FlagsInv, PlaceInv, wire
  <2>2. DOMAIN tab' = {}
    BY <2>1
  <2>3. \A r \in DOMAIN run' : run'[r].epoch < epoch'
    BY <2>1
  <2>4. DroppedInv'
    BY <2>3 DEF DroppedInv
  <2>5. PlaceInv'
    BY <2>1, <2>2 DEF PlaceInv
  <2>6. QED BY <2>2, <2>4, <2>5 DEF FlagsInv
<1>3. QED BY <1>1, <1>2

(* A commit or rollback is answered: a run that holds the former object of *)
(* the tab cannot reach the new one.                                       *)
LEMMA EndKeeps ==
  ASSUME RunInv, FlagsInv, DroppedInv, EndAnswered
  PROVE  FlagsInv' /\ DroppedInv'
<1>1. UNCHANGED <<epoch, run, ask>> /\ tab \in Seq(Tab) /\ active \in DOMAIN tab \cup {0}
  BY DEF EndAnswered, RunAlone, RunInv, TypeInv
<1>2. DroppedInv'
  BY <1>1 DEF DroppedInv
<1>3. CASE tab' = tab
  BY <1>1, <1>2, <1>3 DEF FlagsInv, PlaceInv, ShowsRun, IsShown, Holds, InFlight
<1>4. CASE tab' # tab
  <2>1. /\ tab' = [tab EXCEPT ![active].copy = @ + 1, ![active].torn = tab[active].running]
        /\ active # 0
    BY <1>4 DEF EndAnswered
  <2>2. PICK n \in DOMAIN tab : n = active
    BY <1>1, <2>1
  <2>3. /\ tab[n] \in Tab /\ DOMAIN tab' = DOMAIN tab
        /\ \A t \in DOMAIN tab \ {n} : tab'[t] = tab[t]
        /\ tab'[n] = [tab[n] EXCEPT !.copy = @ + 1, !.torn = tab[n].running]
    BY <1>1, <2>1, <2>2
  <2>4. /\ tab'[n].copy = tab[n].copy + 1 /\ tab[n].copy \in Nat
        /\ tab'[n].running = tab[n].running /\ tab'[n].torn = tab[n].running
    BY <2>3 DEF Tab
  <2>5. \A r \in DOMAIN run : run[r].pc # "done" => run[r].copy \in Nat
    BY AskedIsIdle DEF Busy
  <2>6. \A t \in DOMAIN tab :
          tab[t].copy \in Nat /\ tab'[t].copy \in Nat /\ tab[t].copy <= tab'[t].copy
    <3>1. ASSUME NEW t \in DOMAIN tab PROVE tab[t].copy \in Nat
      <4>1. tab[t] \in Tab
        BY <1>1
      <4>2. QED BY <4>1 DEF Tab
    <3>2. \A t \in DOMAIN tab \ {n} : tab'[t].copy = tab[t].copy
      BY <2>3
    <3>3. QED BY <2>4, <3>1, <3>2
  <2>7. PlaceInv'
    <3>1. ASSUME NEW r \in DOMAIN run, NEW t \in DOMAIN tab,
                 run[r].epoch = epoch, run[r].pc # "done", run[r].tab = t
          PROVE  run[r].copy <= tab'[t].copy
      <4>1. run[r].copy \in Nat /\ run[r].copy <= tab[t].copy
        BY <2>5, <3>1 DEF FlagsInv, PlaceInv
      <4>2. QED BY <2>6, <4>1
    <3>2. QED BY <1>1, <2>3, <3>1 DEF FlagsInv, PlaceInv
  <2>8. \A r \in DOMAIN run : InFlight(r) => ~Holds(run[r], n)'
    <3>1. ASSUME NEW r \in DOMAIN run, InFlight(r), run[r].tab = n, run[r].epoch = epoch
          PROVE  run[r].copy # tab'[n].copy
      <4>1. run[r].copy \in Nat /\ run[r].copy <= tab[n].copy
        BY <2>5, <3>1 DEF FlagsInv, PlaceInv, InFlight
      <4>2. QED BY <2>4, <4>1
    <3>2. QED BY <1>1, <3>1 DEF Holds
  <2>9. ASSUME NEW t \in DOMAIN tab PROVE ShowsRun(t)' /\ \A r \in DOMAIN run : IsShown(r, t)'
    <3>1. CASE t = n
      <4>1. /\ tab'[t].running <=> tab[t].running
            /\ tab'[t].torn <=> tab[t].running
        BY <2>4, <3>1
      <4>2. ShowsRun(t)'
        BY <4>1 DEF ShowsRun
      <4>3. \A r \in DOMAIN run : IsShown(r, t)'
        BY <1>1, <2>8, <3>1 DEF IsShown, InFlight
      <4>4. QED BY <4>2, <4>3
    <3>2. CASE t # n
      <4>1. tab'[t] = tab[t]
        BY <2>3, <3>2
      <4>2. ShowsRun(t) /\ \A r \in DOMAIN run : IsShown(r, t)
        BY DEF FlagsInv
      <4>3. ShowsRun(t)'
        BY <1>1, <4>1, <4>2 DEF ShowsRun, Holds, InFlight
      <4>4. \A r \in DOMAIN run : IsShown(r, t)'
        BY <1>1, <4>1, <4>2 DEF IsShown, Holds, InFlight
      <4>5. QED BY <4>3, <4>4
    <3>3. QED BY <3>1, <3>2
  <2>10. QED BY <1>1, <1>2, <2>3, <2>7, <2>9 DEF FlagsInv
<1>5. QED BY <1>3, <1>4

LEMMA FlagsStep == RunInv /\ FlagsInv /\ DroppedInv /\ [Next]_vars => FlagsInv' /\ DroppedInv'
<1> SUFFICES ASSUME RunInv, FlagsInv, DroppedInv, [Next]_vars PROVE FlagsInv' /\ DroppedInv'
  OBVIOUS
<1>1. CASE TabOpened \/ PageLeft
  BY <1>1, PageKeeps
<1>2. CASE \E kind \in Menu : RunStarted(kind)
  BY <1>2, StartKeeps
<1>3. CASE \/ \E yes \in BOOLEAN :
                ConfirmAnswered(yes) \/ UnsafeAnswered(yes)
           \/ UnsafeWarned \/ DdlRefused \/ RunAnswered
  <2>1. epoch' = epoch
    BY <1>3 DEF ConfirmAnswered, UnsafeAnswered, UnsafeWarned, DdlRefused,
                RunAnswered, RunAlone
  <2>2. PICK r \in DOMAIN run : \E e : Moves(r, e)
    BY <1>3, UserMoves, AnswerMoves
  <2>3. PICK e : Moves(r, e)
    BY <2>2
  <2>4. QED BY <2>1, <2>3, MovesKeep
<1>4. CASE EndAnswered
  BY <1>4, EndKeeps
<1>5. CASE \/ UNCHANGED vars
           \/ \E c \in Conns : PageEntered(c)
           \/ \E t \in DOMAIN tab : TabClosed(t) \/ TabSelected(t)
           \/ \E c \in pending : Serves(c)
           \/ StateAnswered \/ EndAsked \/ SessionLost
  <2>1. UNCHANGED <<epoch, tab, run, ask>>
    <3>1. ASSUME NEW c \in pending, Serves(c) PROVE UNCHANGED <<epoch, tab, run, ask>>
      <4>1. PICK value, after : Served(c, value, after)
        BY <3>1, ServedWell
      <4>2. QED BY <4>1 DEF Served, RunAlone
    <3>2. QED BY <1>5, <3>1 DEF vars, tabVars, wire, PageEntered, TabClosed, TabSelected,
                                StateAnswered, EndAsked, SessionLost, RunAlone
  <2>2. DroppedInv'
    BY <2>1 DEF DroppedInv
  <2>3. PlaceInv'
    BY <2>1 DEF FlagsInv, PlaceInv
  <2>4. FlagsInv'
    BY <2>1, <2>3 DEF FlagsInv, ShowsRun, IsShown, Holds, InFlight
  <2>5. QED BY <2>2, <2>4
<1>6. QED BY <1>1, <1>2, <1>3, <1>4, <1>5 DEF Next, Serves

(* What the store keeps beside a run belongs to that run: a question that  *)
(* is shown is one its run waits for, and a tab's flag speaks of a run of  *)
(* that tab outside the cases the property names (the three slots and the  *)
(* running flag, sql-editor.svelte.ts:130-170 and 757-872).                *)
THEOREM StoreSpeaksOfItsRuns == Spec => []EditorTellsTheTruth
<1>1. Init => FlagsInv /\ DroppedInv
  <2> SUFFICES ASSUME Init PROVE FlagsInv /\ DroppedInv
    OBVIOUS
  <2>1. DOMAIN run = {} /\ DOMAIN tab = {}
    BY DEF Init
  <2>2. QED BY <2>1 DEF FlagsInv, PlaceInv, DroppedInv
<1>2. RunInv /\ FlagsInv /\ DroppedInv => EditorTellsTheTruth
  <2> SUFFICES ASSUME RunInv, FlagsInv, DroppedInv PROVE EditorTellsTheTruth
    OBVIOUS
  <2>1. DOMAIN ask = Questions /\ AskInv
    BY DEF RunInv, TypeInv, Slots, Questions
  <2>2. \A k \in DOMAIN ask : ask[k] # 0 => run[ask[k]].pc = k
    BY <2>1 DEF AskInv, Questions
  <2>3. ASSUME NEW r \in DOMAIN run, Dropped(r)
        PROVE  \/ run[r].epoch < epoch
               \/ run[r].pc = "ddl" /\ \E q \in DOMAIN run \ {r} : run[q].pc = "ddl"
    BY <2>1, <2>3 DEF Dropped, Waits, DroppedInv
  <2>4. ASSUME NEW t \in Range(tabs)
        PROVE  /\ tab[t].running =>
                    tab[t].torn \/ \E r \in OnTab(t) : InFlight(r) /\ tab[t].by = r
               /\ (\E r \in OnTab(t) : InFlight(r) /\ Holds(run[r], t)) =>
                    tab[t].running \/ Cardinality(OnTab(t)) > 1
    <3>1. t \in DOMAIN tab
      BY <2>4 DEF RunInv, TypeInv, Range
    <3>2. tab[t].running => tab[t].torn \/ \E r \in OnTab(t) : InFlight(r) /\ tab[t].by = r
      BY <3>1 DEF FlagsInv, ShowsRun, OnTab, Holds
    <3>3. ASSUME NEW r \in OnTab(t), InFlight(r), Holds(run[r], t), ~tab[t].running
          PROVE  Cardinality(OnTab(t)) > 1
      <4>1. PICK q \in OnTab(t) : q # r
        BY <3>1, <3>3 DEF FlagsInv, IsShown, OnTab
      <4>2. IsFiniteSet(OnTab(t))
        <5>1. IsFiniteSet(DOMAIN run)
          BY FS_Interval DEF RunInv, TypeInv
        <5>2. QED BY <5>1, FS_Subset DEF OnTab
      <4>3. {r, q} \subseteq OnTab(t) /\ Cardinality({r, q}) = 2
        <5>1. Cardinality({r}) = 1 /\ IsFiniteSet({r})
          BY FS_Singleton
        <5>2. q \notin {r} /\ {r, q} = {r} \cup {q}
          BY <4>1
        <5>3. Cardinality({r} \cup {q}) = 2
          BY <5>1, <5>2, FS_AddElement
        <5>4. QED BY <4>1, <5>2, <5>3
      <4>4. Cardinality({r, q}) <= Cardinality(OnTab(t)) /\ Cardinality(OnTab(t)) \in Nat
        BY <4>2, <4>3, FS_Subset, FS_CardinalityType
      <4>5. QED BY <4>3, <4>4
    <3>4. QED BY <3>2, <3>3
  <2>5. QED
    BY <2>2, <2>3, <2>4 DEF EditorTellsTheTruth, QuestionsAreOwned, FlagsTellTheTruth
<1>3. QED BY <1>1, <1>2, RunInvInit, RunsStep, FlagsStep, PTL DEF Spec
=============================================================================
