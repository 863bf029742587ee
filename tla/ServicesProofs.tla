---------------------------- MODULE ServicesProofs ----------------------------
(***************************************************************************)
(* Theorems about the components of MCServices: the panes of the selected  *)
(* object, the upload of the audit, and the documents with their history.  *)
(* Each invariant is proved of its component's own steps; the last part    *)
(* shows that every step of the composition is one of them, or leaves the  *)
(* component alone.                                                        *)
(***************************************************************************)
EXTENDS MCServices, FiniteSetTheorems, SequenceTheorems, TLAPS

-----------------------------------------------------------------------------
(***************************************************************************)
(* The panes of the selected object.                                       *)
(***************************************************************************)

Loop == [asked : Things \cup {None}, pc : {"counting", "batch", "answer", "done"},
         lost : BOOLEAN, moved : BOOLEAN, told : BOOLEAN]
Batch == [asked : Things \cup {None}, on : Things \cup {None}, moved : BOOLEAN,
          stopped : BOOLEAN]
Gen == [running : BOOLEAN, abort : BOOLEAN, column : Things \cup {None}, loops : Seq(Loop),
        written : SUBSET Batch]

PanesTypeOK ==
  /\ selected \in Things \cup {None}
  /\ content \in [Panes -> Things \cup {None}]
  /\ \A f \in requests : f.pane \in Panes /\ f.of \in Things \cup {None}
  /\ gen \in Gen

(* What a pane has is the selection's, or came too late; and a request is  *)
(* about the selection, unless another object was selected since it was    *)
(* sent, or it follows from what came too late.                            *)
ContentOK == \A p \in Panes : content[p] # None => content[p] = selected \/ p \in late
RequestsOK == \A f \in requests : f.of # selected => f \in outrun
DdlOK == ddlLoading # None => \E f \in requests : f.pane = "ddl" /\ f.of = ddlLoading

(* The panel knows of one loop, and stops it; a loop was started for the   *)
(* table that is selected, unless the selection moved.                     *)
LoopsOK ==
  /\ \A i, j \in Known : i = j
  /\ \A i \in Known : gen.running /\ (gen.loops[i].told => gen.abort)
  /\ \A i \in LoopsRunning : gen.loops[i].asked = selected \/ gen.loops[i].moved
  /\ \A w \in gen.written : (w.on = w.asked \/ w.moved) /\ ~w.stopped

PanesInv == PanesTypeOK /\ ContentOK /\ RequestsOK /\ DdlOK /\ LoopsOK

LEMMA PanesStart == PanesInit => PanesInv
<1> SUFFICES ASSUME PanesInit PROVE PanesInv
  OBVIOUS
<1>1. PanesTypeOK
  <2>1. <<>> \in Seq(Loop) /\ gen.loops = <<>>
    BY DEF PanesInit
  <2>2. content \in [Panes -> Things \cup {None}]
    BY DEF PanesInit
  <2>3. gen \in Gen
    BY <2>1 DEF PanesInit, Gen
  <2> QED
    BY <2>2, <2>3 DEF PanesInit, PanesTypeOK
<1>2. LoopsRunning = {}
  BY DEF PanesInit, LoopsRunning
<1>3. ContentOK /\ RequestsOK /\ DdlOK /\ LoopsOK
  BY <1>2 DEF PanesInit, ContentOK, RequestsOK, DdlOK, LoopsOK, Known
<1> QED
  BY <1>1, <1>3 DEF PanesInv

(* What emptying panes does, and what asking does.                         *)
LEMMA EmptiedIs ==
  ASSUME PanesTypeOK, NEW ps
  PROVE  /\ Emptied(ps) \in [Panes -> Things \cup {None}]
         /\ \A p \in Panes : Emptied(ps)[p] # None => p \notin ps /\ Emptied(ps)[p] = content[p]
BY DEF PanesTypeOK, Emptied

LEMMA SentIs ==
  ASSUME NEW fs, NEW p, NEW o
  PROVE  /\ fs \subseteq Sent(fs, p, o)
         /\ \A f \in Sent(fs, p, o) : f \in fs \/ (f.pane = p /\ f.of = o)
BY DEF Sent, Request

(* A pane whose request is named by another pane names a pane.             *)
LEMMA PaneFrom == \A p \in Panes : Pane[p].from \in Panes \cup {None}
<1> DEFINE Names(q) == q.from \in Panes \cup {None}
<1>1. \A kinds : /\ OnSelect(kinds).from = None /\ OnClick(kinds).from = None
                 /\ OnTab(kinds).from = None /\ Afterwards(kinds).from = None
  BY DEF OnSelect, OnClick, OnTab, Afterwards
<1>2. \A kinds, next, for : /\ Then(OnSelect(kinds), next, for).from = None
                            /\ Then(OnClick(kinds), next, for).from = None
  BY DEF OnSelect, OnClick, Then
<1>3. \A kinds, q : Of(OnClick(kinds), q).from = q
  BY DEF OnSelect, OnClick, Of
<1>4. "schedulerJobData" \in Panes /\ "dbUserData" \in Panes
  BY DEF Panes, Pane
<1>5. /\ Names(details) /\ Names(dataflow) /\ Names(ddl) /\ Names(liveCount) /\ Names(mviewData)
      /\ Names(synonymData) /\ Names(dbLinkDdlText) /\ Names(directoryData) /\ Names(queueData)
      /\ Names(queueDdlText) /\ Names(schedulerJobData) /\ Names(schedulerJobDdlText)
      /\ Names(legacyJobData)
  BY <1>1, <1>2, Zenon
     DEF details, dataflow, ddl, liveCount, mviewData, synonymData, dbLinkDdlText, directoryData,
         queueData, queueDdlText, schedulerJobData, schedulerJobDdlText, legacyJobData
<1>6. /\ Names(expandedProgram) /\ Names(expandedSchedule) /\ Names(dbUserData)
      /\ Names(dbUserProfileData) /\ Names(dbUserQuotasData) /\ Names(privData)
      /\ Names(vectorIndexes) /\ Names(persistEmbed) /\ Names(searchResult) /\ Names(nodeDdl)
      /\ Names(versions) /\ Names(errors) /\ Names(auditEntries)
  BY <1>1, <1>2, <1>3, <1>4, Zenon
     DEF expandedProgram, expandedSchedule, dbUserData, dbUserProfileData, dbUserQuotasData,
         privData, vectorIndexes, persistEmbed, searchResult, nodeDdl, versions, errors,
         auditEntries
<1> HIDE DEF Names
<1>7. ASSUME NEW p \in Panes PROVE Names(Pane[p])
  BY <1>5, <1>6 DEF Panes, Pane
<1> QED
  BY <1>7 DEF Names

(* A pane that is loaded after another one is a pane.                      *)
LEMMA PaneNext == \A p \in Panes : Pane[p].next \in Panes \cup {None}
<1> DEFINE Names(q) == q.next \in Panes \cup {None}
<1>1. \A kinds : /\ OnSelect(kinds).next = None /\ OnClick(kinds).next = None
                 /\ OnTab(kinds).next = None /\ Afterwards(kinds).next = None
  BY DEF OnSelect, OnClick, OnTab, Afterwards
<1>2. \A kinds, next, for : /\ Then(OnSelect(kinds), next, for).next = next
                            /\ Then(OnClick(kinds), next, for).next = next
  BY DEF OnSelect, OnClick, Then
<1>3. \A kinds, q : Of(OnClick(kinds), q).next = None
  BY DEF OnSelect, OnClick, Of
<1>4. {"dataflow", "queueDdlText", "schedulerJobDdlText", "searchResult"} \subseteq Panes
  BY DEF Panes, Pane
<1>5. /\ Names(details) /\ Names(dataflow) /\ Names(ddl) /\ Names(liveCount) /\ Names(mviewData)
      /\ Names(synonymData) /\ Names(dbLinkDdlText) /\ Names(directoryData) /\ Names(queueData)
      /\ Names(queueDdlText) /\ Names(schedulerJobData) /\ Names(schedulerJobDdlText)
      /\ Names(legacyJobData)
  BY <1>1, <1>2, <1>4
     DEF details, dataflow, ddl, liveCount, mviewData, synonymData, dbLinkDdlText, directoryData,
         queueData, queueDdlText, schedulerJobData, schedulerJobDdlText, legacyJobData
<1>6. /\ Names(expandedProgram) /\ Names(expandedSchedule) /\ Names(dbUserData)
      /\ Names(dbUserProfileData) /\ Names(dbUserQuotasData) /\ Names(privData)
      /\ Names(vectorIndexes) /\ Names(persistEmbed) /\ Names(searchResult) /\ Names(nodeDdl)
      /\ Names(versions) /\ Names(errors) /\ Names(auditEntries)
  BY <1>1, <1>2, <1>3, <1>4
     DEF expandedProgram, expandedSchedule, dbUserData, dbUserProfileData, dbUserQuotasData,
         privData, vectorIndexes, persistEmbed, searchResult, nodeDdl, versions, errors,
         auditEntries
<1> HIDE DEF Names
<1>7. ASSUME NEW p \in Panes PROVE Names(Pane[p])
  BY <1>5, <1>6 DEF Panes, Pane
<1> QED
  BY <1>7 DEF Names

(* A function of the positions of a sequence is one.                       *)
LEMMA FunctionAsSeq ==
  ASSUME NEW S, NEW n \in Nat, NEW f, DOMAIN f = 1 .. n, f = [i \in 1 .. n |-> f[i]],
         \A i \in 1 .. n : f[i] \in S
  PROVE  f \in Seq(S)
OBVIOUS

(* The selection.                                                          *)
LEMMA SelectKeeps ==
  ASSUME PanesInv, NEW o \in Things, Select(o) PROVE PanesInv'
<1> DEFINE loads == {p \in Panes : Pane[p].on = "select" /\ KindOf[o] \in Pane[p].kinds}
<1>0. PanesTypeOK /\ ContentOK /\ RequestsOK /\ DdlOK /\ LoopsOK
  BY DEF PanesInv
<1>1. /\ selected' = o /\ content' = Emptied(Cleared \cup loads)
      /\ requests' = requests \cup {Request(requests, p, o) : p \in loads}
      /\ ddlLoading' = IF KindOf[o] = "plsql" THEN o ELSE ddlLoading
      /\ gen' = [gen EXCEPT !.running = FALSE, !.abort = FALSE, !.column = None,
                            !.loops = Interrupted(o)]
      /\ outrun' = {f \in requests : f.of # o}
  BY DEF Select
<1>2. \A p \in loads : /\ Request(requests, p, o).pane = p /\ Request(requests, p, o).of = o
                       /\ p \in Panes
  BY DEF Request
<1>3. PanesTypeOK'
  <2>1. content' \in [Panes -> Things \cup {None}]
    BY <1>0, <1>1, EmptiedIs
  <2>2. \A f \in requests' : f.pane \in Panes /\ f.of \in Things \cup {None}
    <3> HIDE DEF loads
    <3> QED
      BY <1>0, <1>1, <1>2 DEF PanesTypeOK
  <2>3. Interrupted(o) \in Seq(Loop)
    <3>1. gen.loops \in Seq(Loop)
      BY <1>0 DEF PanesTypeOK, Gen
    <3>2. \A i \in DOMAIN gen.loops : Interrupted(o)[i] \in Loop
      <4> SUFFICES ASSUME NEW i \in DOMAIN gen.loops PROVE Interrupted(o)[i] \in Loop
        OBVIOUS
      <4>1. gen.loops[i] \in Loop
        BY <3>1
      <4>2. PICK m \in BOOLEAN : m = (gen.loops[i].moved \/ o # gen.loops[i].asked)
        BY <4>1 DEF Loop
      <4>3. Interrupted(o)[i] \in {gen.loops[i], [gen.loops[i] EXCEPT !.lost = TRUE, !.moved = m]}
        BY <4>2 DEF Interrupted
      <4> QED
        BY <4>1, <4>3 DEF Loop
    <3>3. DOMAIN gen.loops = 1 .. Len(gen.loops) /\ Len(gen.loops) \in Nat
      BY <3>1
    <3>4. /\ DOMAIN Interrupted(o) = DOMAIN gen.loops
          /\ Interrupted(o) = [i \in DOMAIN gen.loops |-> Interrupted(o)[i]]
      BY Zenon DEF Interrupted
    <3> QED
      BY <3>2, <3>3, <3>4, FunctionAsSeq
  <2>4. gen' \in Gen
    BY <1>0, <1>1, <2>3 DEF PanesTypeOK, Gen
  <2> QED
    BY <1>1, <2>1, <2>2, <2>4 DEF PanesTypeOK
<1>4. ContentOK' /\ RequestsOK'
  <2>1. ContentOK'
    BY <1>0, <1>1, EmptiedIs DEF ContentOK, Cleared
  <2>2. RequestsOK'
    <3> HIDE DEF loads
    <3> QED
      BY <1>1, <1>2 DEF RequestsOK
  <2> QED
    BY <2>1, <2>2
<1>5. DdlOK'
  <2>1. CASE KindOf[o] = "plsql"
    <3>1. "ddl" \in loads
      BY <2>1 DEF Panes, Pane, ddl, OnSelect
    <3> HIDE DEF loads
    <3> QED
      BY <1>1, <1>2, <2>1, <3>1 DEF DdlOK
  <2>2. CASE KindOf[o] # "plsql"
    BY <1>0, <1>1, <2>2 DEF DdlOK
  <2> QED
    BY <2>1, <2>2
<1>6. LoopsOK'
  <2>1. gen'.loops = Interrupted(o) /\ gen'.written = gen.written
    BY <1>0, <1>1 DEF PanesTypeOK, Gen
  <2>2. ASSUME NEW i \in LoopsRunning'
        PROVE  gen'.loops[i].lost /\ (gen'.loops[i].asked = o \/ gen'.loops[i].moved)
    <3>1. i \in DOMAIN gen.loops /\ Interrupted(o)[i].pc # "done"
      BY <2>1, <2>2 DEF LoopsRunning, Interrupted
    <3>2. gen.loops[i] \in Loop
      BY <1>0, <3>1 DEF PanesTypeOK, Gen
    <3>3. PICK m \in BOOLEAN : m = (gen.loops[i].moved \/ o # gen.loops[i].asked)
      BY <3>2 DEF Loop
    <3>4. Interrupted(o)[i] = [gen.loops[i] EXCEPT !.lost = TRUE, !.moved = m]
      BY <3>1, <3>3 DEF Interrupted
    <3> QED
      BY <2>1, <3>2, <3>3, <3>4 DEF Loop
  <2>3. Known' = {}
    BY <2>2 DEF Known
  <2> QED
    BY <1>0, <1>1, <2>1, <2>2, <2>3 DEF LoopsOK
<1> QED
  BY <1>3, <1>4, <1>5, <1>6 DEF PanesInv

(* The steps that leave the embeddings alone.                              *)
LEMMA LoopsStay ==
  ASSUME LoopsOK, selected' = selected, gen'.loops = gen.loops, gen'.running = gen.running,
         gen'.written = gen.written, gen'.abort = gen.abort
  PROVE  LoopsOK'
<1>1. LoopsRunning' = LoopsRunning /\ Known' = Known
  BY DEF LoopsRunning, Known
<1> QED
  BY <1>1 DEF LoopsOK

LEMMA AskedKeeps ==
  ASSUME PanesInv, NEW p \in Panes, Asked(p) PROVE PanesInv'
<1>0. PanesTypeOK /\ ContentOK /\ RequestsOK /\ DdlOK /\ LoopsOK
  BY DEF PanesInv
<1>1. PICK anew : content' = Emptied(anew) /\ late' = late \ anew
  BY DEF Asked
<1>2. PICK of : of # None /\ requests' = Sent(requests, p, of)
                /\ (of = selected \/ (Pane[p].from # None /\ of = content[Pane[p].from]))
  BY DEF Asked
<1>3. /\ UNCHANGED <<selected, ddlLoading, gen>>
      /\ outrun' = IF Pane[p].from \in late THEN outrun \cup (requests' \ requests) ELSE outrun
  BY DEF Asked
<1>4. of \in Things \cup {None}
  <2>1. CASE of = selected
    BY <1>0, <2>1 DEF PanesTypeOK
  <2>2. CASE Pane[p].from \in Panes /\ of = content[Pane[p].from]
    BY <1>0, <2>2 DEF PanesTypeOK
  <2> QED
    BY <1>2, <2>1, <2>2, PaneFrom
<1>5. PanesTypeOK'
  BY <1>0, <1>1, <1>2, <1>3, <1>4, EmptiedIs, SentIs DEF PanesTypeOK
<1>6. ContentOK'
  BY <1>0, <1>1, <1>3, EmptiedIs DEF ContentOK
<1>9. RequestsOK'
  <2> SUFFICES ASSUME NEW f \in requests', f.of # selected PROVE f \in outrun'
    BY <1>3 DEF RequestsOK
  <2>1. CASE f \in requests
    BY <1>0, <1>3, <2>1 DEF RequestsOK
  <2>2. CASE f \notin requests
    <3>1. f.of = of
      BY <1>2, <2>2, SentIs
    <3>2. Pane[p].from \in Panes /\ of = content[Pane[p].from]
      BY <1>2, <3>1, PaneFrom
    <3>3. Pane[p].from \in late
      BY <1>0, <1>2, <3>1, <3>2 DEF ContentOK
    <3> QED
      BY <1>3, <2>2, <3>3
  <2> QED
    BY <2>1, <2>2
<1>7. DdlOK'
  BY <1>0, <1>2, <1>3, SentIs DEF DdlOK
<1>8. LoopsOK'
  BY <1>0, <1>3, LoopsStay
<1> QED
  BY <1>5, <1>6, <1>7, <1>8, <1>9 DEF PanesInv

LEMMA TabShownKeeps ==
  ASSUME PanesInv, NEW p \in Panes, TabShown(p) PROVE PanesInv'
<1>0. PanesTypeOK /\ ContentOK /\ RequestsOK /\ DdlOK /\ LoopsOK
  BY DEF PanesInv
<1>1. /\ UNCHANGED <<selected, content, outrun, late, ddlLoading>>
      /\ requests' \in {requests, Sent(requests, p, selected)}
      /\ gen' \in {gen, [gen EXCEPT !.column = content["details"]]}
  BY DEF TabShown
<1>2. content["details"] \in Things \cup {None}
  BY <1>0 DEF PanesTypeOK, Panes, Pane
<1>3. /\ gen' \in Gen
      /\ gen'.loops = gen.loops /\ gen'.running = gen.running
      /\ gen'.written = gen.written /\ gen'.abort = gen.abort
  BY <1>0, <1>1, <1>2 DEF PanesTypeOK, Gen
<1>4. PanesTypeOK'
  BY <1>0, <1>1, <1>3, SentIs DEF PanesTypeOK
<1>5. ContentOK' /\ RequestsOK'
  BY <1>0, <1>1, SentIs DEF ContentOK, RequestsOK
<1>6. DdlOK'
  BY <1>0, <1>1, SentIs DEF DdlOK
<1>7. LoopsOK'
  BY <1>0, <1>1, <1>3, LoopsStay
<1> QED
  BY <1>4, <1>5, <1>6, <1>7 DEF PanesInv

LEMMA AnswerKeeps ==
  ASSUME PanesInv, NEW f \in requests, NEW ok \in BOOLEAN, Answer(f, ok) PROVE PanesInv'
<1> DEFINE p == f.pane
           next == Pane[p].next
           writes == /\ p # "ddl"
                     /\ ok \/ Pane[p].on = "tab" \/ p = "details"
           rest == requests \ {f}
           base == Emptied({next} \cap Panes)
<1>0. PanesTypeOK /\ ContentOK /\ RequestsOK /\ DdlOK /\ LoopsOK
  BY DEF PanesInv
<1>1. /\ p \in Panes /\ f.of \in Things \cup {None}
  BY <1>0 DEF PanesTypeOK
<1>2. /\ UNCHANGED <<selected, gen>>
      /\ ddlLoading' = IF p = "ddl" /\ ddlLoading = f.of THEN None ELSE ddlLoading
      /\ late' = IF ~writes THEN late ELSE IF f \in outrun THEN late \cup {p} ELSE late \ {p}
      /\ outrun' = (outrun \ {f}) \cup
                    (IF f \in outrun /\ Pane[p].for = "own" THEN requests' \ rest ELSE {})
      /\ content' = [base EXCEPT
                       ![p] = IF ~writes THEN @ ELSE IF p = "details" /\ ~ok THEN None ELSE f.of]
  BY DEF Answer
<1>3. \/ requests' = rest
      \/ \E o \in Things \cup {None} :
           /\ next \in Panes /\ requests' = Sent(rest, next, o)
           /\ o = IF Pane[p].for = "own" THEN f.of ELSE selected
  <2>1. requests' = IF next = None THEN rest
                    ELSE Sent(rest, next, IF Pane[p].for = "own" THEN f.of ELSE selected)
    BY DEF Answer
  <2>2. (IF Pane[p].for = "own" THEN f.of ELSE selected) \in Things \cup {None}
    BY <1>0, <1>1 DEF PanesTypeOK
  <2>3. next \in Panes \cup {None}
    BY <1>1, PaneNext
  <2> HIDE DEF next, p, rest
  <2> QED
    BY <2>1, <2>2, <2>3
<1>4. /\ base \in [Panes -> Things \cup {None}]
      /\ \A q \in Panes : base[q] # None => base[q] = content[q]
  BY <1>0, EmptiedIs
<1> HIDE DEF base, writes, rest
<1>5. PanesTypeOK'
  <2>1. content' \in [Panes -> Things \cup {None}]
    BY <1>1, <1>2, <1>4
  <2>2. \A g \in requests' : g.pane \in Panes /\ g.of \in Things \cup {None}
    <3> HIDE DEF p, next
    <3> QED
      BY <1>0, <1>3, SentIs DEF PanesTypeOK, rest
  <2> QED
    BY <1>0, <1>2, <2>1, <2>2 DEF PanesTypeOK
<1>6. ContentOK'
  <2>1. \A q \in Panes \ {p} : content'[q] = base[q] /\ (q \in late' <=> q \in late)
    BY <1>2, <1>4
  <2>2. CASE ~writes
    BY <1>0, <1>1, <1>2, <1>4, <2>1, <2>2 DEF ContentOK
  <2>3. CASE writes
    <3>1. content'[p] \in {None, f.of} /\ (f.of = selected \/ p \in late')
      BY <1>0, <1>1, <1>2, <1>4, <2>3 DEF RequestsOK
    <3> HIDE DEF p
    <3> QED
      BY <1>0, <1>2, <1>4, <2>1, <3>1 DEF ContentOK
  <2> QED
    BY <2>2, <2>3
<1>7. DdlOK'
  <2> SUFFICES ASSUME ddlLoading' # None PROVE \E g \in requests' : g.pane = "ddl" /\ g.of = ddlLoading'
    BY DEF DdlOK
  <2>1. ddlLoading' = ddlLoading /\ ~(p = "ddl" /\ ddlLoading = f.of)
    BY <1>2
  <2>2. PICK g \in requests : g.pane = "ddl" /\ g.of = ddlLoading
    BY <1>0, <2>1 DEF DdlOK
  <2>3. g \in rest
    BY <2>1, <2>2 DEF rest
  <2>4. g \in requests'
    BY <1>3, <2>3, SentIs
  <2> QED
    BY <2>1, <2>2, <2>4
<1>8. LoopsOK'
  BY <1>0, <1>2, LoopsStay
<1>9. RequestsOK'
  <2> SUFFICES ASSUME NEW g \in requests', g.of # selected PROVE g \in outrun'
    BY <1>2 DEF RequestsOK
  <2>1. CASE g \in rest
    BY <1>0, <1>2, <2>1 DEF RequestsOK, rest
  <2>2. CASE g \notin rest
    <3>1. g.of = IF Pane[p].for = "own" THEN f.of ELSE selected
      BY <1>3, <2>2, SentIs
    <3>2. Pane[p].for = "own" /\ f \in outrun
      BY <1>0, <3>1 DEF RequestsOK
    <3> QED
      BY <1>2, <2>2, <3>2
  <2> QED
    BY <2>1, <2>2
<1> QED
  BY <1>5, <1>6, <1>7, <1>8, <1>9 DEF PanesInv

LEMMA ActKeeps ==
  ASSUME PanesInv, NEW what, Act(what) PROVE PanesInv'
<1>0. PanesTypeOK /\ ContentOK /\ RequestsOK /\ DdlOK /\ LoopsOK
  BY DEF PanesInv
<1>1. UNCHANGED <<selected, content, requests, outrun, late, ddlLoading, gen>>
  BY DEF Act
<1> QED
  BY <1>0, <1>1, LoopsStay DEF PanesInv, PanesTypeOK, ContentOK, RequestsOK, DdlOK

LEMMA ActAnsweredKeeps ==
  ASSUME PanesInv, NEW what, NEW ok \in BOOLEAN, ActAnswered(what, ok) PROVE PanesInv'
<1>0. PanesTypeOK /\ ContentOK /\ RequestsOK /\ DdlOK /\ LoopsOK
  BY DEF PanesInv
<1>1. UNCHANGED <<selected, outrun, ddlLoading, gen>>
  BY DEF ActAnswered
<1>2. \/ UNCHANGED <<requests, content, late>>
      \/ \E anew : \E p \in {"mviewData", "legacyJobData", "schedulerJobData"} :
           /\ requests' = Sent(requests, p, selected)
           /\ content' = Emptied(anew) /\ late' = late \ anew
  BY DEF ActAnswered
<1>3. {"mviewData", "legacyJobData", "schedulerJobData"} \subseteq Panes
  BY DEF Panes, Pane
<1>4. PanesTypeOK'
  <2>1. content' \in [Panes -> Things \cup {None}]
    BY <1>0, <1>2, EmptiedIs DEF PanesTypeOK
  <2>2. \A g \in requests' : g.pane \in Panes /\ g.of \in Things \cup {None}
    BY <1>0, <1>2, <1>3, SentIs DEF PanesTypeOK
  <2> QED
    BY <1>0, <1>1, <2>1, <2>2 DEF PanesTypeOK
<1>5. ContentOK' /\ RequestsOK'
  BY <1>0, <1>1, <1>2, EmptiedIs, SentIs DEF ContentOK, RequestsOK
<1>6. DdlOK'
  BY <1>0, <1>1, <1>2, SentIs DEF DdlOK
<1>7. LoopsOK'
  BY <1>0, <1>1, LoopsStay
<1> QED
  BY <1>4, <1>5, <1>6, <1>7 DEF PanesInv

(* The embeddings.                                                         *)
LEMMA StartGenerateKeeps ==
  ASSUME PanesInv, StartGenerate PROVE PanesInv'
<1> DEFINE l == NewLoop(selected)
<1>0. PanesTypeOK /\ ContentOK /\ RequestsOK /\ DdlOK /\ LoopsOK
  BY DEF PanesInv
<1>1. /\ UNCHANGED <<selected, content, requests, outrun, late, ddlLoading>> /\ ~gen.running
      /\ gen' = [gen EXCEPT !.running = TRUE, !.abort = FALSE, !.loops = Append(@, l)]
  BY DEF StartGenerate, MayStart
<1>2. l \in Loop
  BY <1>0 DEF PanesTypeOK, Loop, NewLoop
<1>3. /\ gen.loops \in Seq(Loop) /\ Append(gen.loops, l) \in Seq(Loop)
      /\ DOMAIN Append(gen.loops, l) = DOMAIN gen.loops \cup {Len(gen.loops) + 1}
      /\ Append(gen.loops, l)[Len(gen.loops) + 1] = l
      /\ \A i \in DOMAIN gen.loops : Append(gen.loops, l)[i] = gen.loops[i]
  <2>1. gen.loops \in Seq(Loop)
    BY <1>0 DEF PanesTypeOK, Gen
  <2> HIDE DEF l
  <2> QED
    BY <1>2, <2>1
<1>4. PanesTypeOK'
  <2>1. gen' \in Gen
    <3> HIDE DEF l
    <3> QED
      BY <1>0, <1>1, <1>3 DEF PanesTypeOK, Gen
  <2> QED
    BY <1>0, <1>1, <2>1 DEF PanesTypeOK
<1>5. gen'.loops = Append(gen.loops, l) /\ gen'.running /\ gen'.written = gen.written
  <2> HIDE DEF l
  <2> QED
    BY <1>0, <1>1 DEF PanesTypeOK, Gen
<1>6. LoopsOK'
  <2>1. Known = {}
    BY <1>0, <1>1 DEF LoopsOK
  <2>2. LoopsRunning' \subseteq LoopsRunning \cup {Len(gen.loops) + 1}
    BY <1>3, <1>5 DEF LoopsRunning
  <2>3. \A i \in LoopsRunning : gen'.loops[i] = gen.loops[i]
    BY <1>3, <1>5 DEF LoopsRunning
  <2>4. gen'.loops[Len(gen.loops) + 1].asked = selected /\ ~gen'.loops[Len(gen.loops) + 1].told
    BY <1>3, <1>5 DEF NewLoop
  <2>5. \A i \in Known' : i = Len(gen.loops) + 1
    BY <2>1, <2>2, <2>3 DEF Known
  <2> QED
    BY <1>0, <1>1, <1>5, <2>2, <2>3, <2>4, <2>5 DEF LoopsOK
<1> QED
  BY <1>0, <1>1, <1>4, <1>6 DEF PanesInv, ContentOK, RequestsOK, DdlOK

LEMMA StopGenerateKeeps ==
  ASSUME PanesInv, StopGenerate PROVE PanesInv'
<1>0. PanesTypeOK /\ ContentOK /\ RequestsOK /\ DdlOK /\ LoopsOK
  BY DEF PanesInv
<1> DEFINE told == [i \in DOMAIN gen.loops |-> [gen.loops[i] EXCEPT !.told = TRUE]]
<1>1. /\ UNCHANGED <<selected, content, requests, outrun, late, ddlLoading>>
      /\ gen' = [gen EXCEPT !.abort = TRUE, !.loops = told]
  BY DEF StopGenerate
<1>2. gen.loops \in Seq(Loop)
  BY <1>0 DEF PanesTypeOK, Gen
<1>3. ASSUME NEW i \in DOMAIN gen.loops
      PROVE  /\ told[i] \in Loop /\ told[i].pc = gen.loops[i].pc /\ told[i].lost = gen.loops[i].lost
             /\ told[i].asked = gen.loops[i].asked /\ told[i].moved = gen.loops[i].moved
  <2>1. gen.loops[i] \in Loop
    BY <1>2
  <2> QED
    BY <2>1 DEF Loop
<1>4. told \in Seq(Loop) /\ DOMAIN told = DOMAIN gen.loops
  <2>1. DOMAIN gen.loops = 1 .. Len(gen.loops) /\ Len(gen.loops) \in Nat
    BY <1>2
  <2>2. DOMAIN told = DOMAIN gen.loops /\ told = [i \in DOMAIN gen.loops |-> told[i]]
    OBVIOUS
  <2> HIDE DEF told
  <2> QED
    BY <1>3, <2>1, <2>2, FunctionAsSeq
<1> HIDE DEF told
<1>5. gen' \in Gen /\ gen'.loops = told /\ gen'.abort
      /\ gen'.running = gen.running /\ gen'.written = gen.written
  BY <1>0, <1>1, <1>4 DEF PanesTypeOK, Gen
<1>6. LoopsRunning' = LoopsRunning /\ Known' = Known
  BY <1>3, <1>4, <1>5 DEF LoopsRunning, Known
<1>7. LoopsOK'
  BY <1>0, <1>1, <1>3, <1>5, <1>6 DEF LoopsOK, LoopsRunning
<1> QED
  BY <1>0, <1>1, <1>5, <1>7 DEF PanesInv, PanesTypeOK, ContentOK, RequestsOK, DdlOK

LEMMA LoopContinuesKeeps ==
  ASSUME PanesInv, NEW i \in DOMAIN gen.loops, LoopContinues(i) PROVE PanesInv'
<1> DEFINE l == gen.loops[i]
           onto == [asked |-> l.asked, on |-> selected, moved |-> l.moved,
                    stopped |-> l.told /\ ~l.lost]
           over == [j \in DOMAIN gen.loops |->
                      IF j = i THEN [gen.loops[i] EXCEPT !.pc = "done"]
                               ELSE [gen.loops[j] EXCEPT !.lost = TRUE]]
<1>0. PanesTypeOK /\ ContentOK /\ RequestsOK /\ DdlOK /\ LoopsOK
  BY DEF PanesInv
<1>1. UNCHANGED <<selected, requests, outrun, ddlLoading>> /\ l.pc # "done"
  BY DEF LoopContinues
<1>2. i \in LoopsRunning
  BY <1>1 DEF LoopsRunning
<1>3. PICK pc \in {"batch", "answer", "done"} :
        \/ pc \in {"batch", "answer"} /\ gen' = [gen EXCEPT !.loops[i].pc = pc]
        \/ /\ pc = "answer" /\ ~gen.abort
           /\ gen' = [gen EXCEPT !.loops[i].pc = pc, !.written = @ \cup {onto}]
        \/ pc = "done" /\ gen' = [gen EXCEPT !.running = FALSE, !.loops = over]
  BY DEF LoopContinues, Ends
<1>4. UNCHANGED <<content, late>> \/ \E ps : content' = Emptied(ps) /\ late' = late \ ps
  BY DEF LoopContinues, Ends
<1>5. gen.loops \in Seq(Loop) /\ l \in Loop /\ gen \in Gen
  BY <1>0 DEF PanesTypeOK, Gen
<1>6. PICK ls : ls = IF pc = "done" THEN over ELSE [gen.loops EXCEPT ![i].pc = pc]
  OBVIOUS
<1>7. ASSUME NEW j \in DOMAIN gen.loops
      PROVE  /\ ls[j] \in Loop /\ ls[j].asked = gen.loops[j].asked
             /\ ls[j].moved = gen.loops[j].moved /\ ls[j].told = gen.loops[j].told
             /\ (j = i => ls[j].pc = pc /\ ls[j].lost = l.lost)
             /\ (j # i => ls[j].pc = gen.loops[j].pc)
             /\ (j # i => ls[j].lost = (gen.loops[j].lost \/ pc = "done"))
  <2>1. gen.loops[j] \in Loop
    BY <1>5
  <2>2. CASE pc = "done" /\ j = i
    <3>1. ls[j] = [gen.loops[j] EXCEPT !.pc = pc]
      BY <1>6, <2>2
    <3> QED
      BY <2>1, <2>2, <3>1 DEF Loop
  <2>3. CASE pc = "done" /\ j # i
    <3>1. ls[j] = [gen.loops[j] EXCEPT !.lost = TRUE]
      BY <1>6, <2>3
    <3> QED
      BY <2>1, <2>3, <3>1 DEF Loop
  <2>4. CASE pc # "done" /\ j = i
    <3>1. ls[j] = [gen.loops[j] EXCEPT !.pc = pc]
      BY <1>5, <1>6, <2>4
    <3> QED
      BY <2>1, <2>4, <3>1 DEF Loop
  <2>5. CASE pc # "done" /\ j # i
    <3>1. ls[j] = gen.loops[j]
      BY <1>5, <1>6, <2>5
    <3> QED
      BY <2>1, <2>5, <3>1 DEF Loop
  <2> QED
    BY <2>2, <2>3, <2>4, <2>5
<1>8. ls \in Seq(Loop) /\ DOMAIN ls = DOMAIN gen.loops
  <2>1. DOMAIN ls = DOMAIN gen.loops /\ ls = [j \in DOMAIN ls |-> ls[j]]
    BY <1>5, <1>6
  <2>2. DOMAIN gen.loops = 1 .. Len(gen.loops) /\ Len(gen.loops) \in Nat
    BY <1>5
  <2> QED
    BY <1>7, <2>1, <2>2, FunctionAsSeq
<1>9. PICK ws : ws = gen.written \cup {onto}
  OBVIOUS
<1>10. onto \in Batch
  <2>1. PICK b \in BOOLEAN : b = (l.told /\ ~l.lost)
    BY <1>5 DEF Loop
  <2> QED
    BY <1>0, <1>5, <2>1 DEF PanesTypeOK, Loop, Batch
<1>11. /\ gen.written \subseteq Batch /\ ws \subseteq Batch
       /\ \/ pc \in {"batch", "answer"} /\ gen' = [gen EXCEPT !.loops = ls]
          \/ pc = "answer" /\ ~gen.abort /\ gen' = [gen EXCEPT !.loops = ls, !.written = ws]
          \/ pc = "done" /\ gen' = [gen EXCEPT !.running = FALSE, !.loops = ls]
  <2>1. gen.written \subseteq Batch /\ ws \subseteq Batch
    BY <1>5, <1>9, <1>10 DEF Gen
  <2> HIDE DEF onto, over
  <2>2. CASE pc \in {"batch", "answer"} /\ gen' = [gen EXCEPT !.loops[i].pc = pc]
    BY <1>5, <1>6, <2>1, <2>2 DEF Gen
  <2>3. CASE /\ pc = "answer" /\ ~gen.abort
             /\ gen' = [gen EXCEPT !.loops[i].pc = pc, !.written = @ \cup {onto}]
    BY <1>5, <1>6, <1>9, <2>1, <2>3 DEF Gen
  <2>4. CASE pc = "done" /\ gen' = [gen EXCEPT !.running = FALSE, !.loops = over]
    BY <1>6, <2>1, <2>4
  <2> QED
    BY <1>3, <2>2, <2>3, <2>4
<1> HIDE DEF onto, over, l
<1>12. /\ gen' \in Gen /\ gen'.loops = ls /\ gen'.abort = gen.abort
       /\ \/ gen'.written = gen.written
          \/ pc = "answer" /\ ~gen.abort /\ gen'.written = ws
       /\ IF pc = "done" THEN ~gen'.running ELSE gen'.running = gen.running
  <2>1. CASE pc \in {"batch", "answer"} /\ gen' = [gen EXCEPT !.loops = ls]
    BY <1>5, <1>8, <2>1 DEF Gen
  <2>2. CASE pc = "answer" /\ ~gen.abort /\ gen' = [gen EXCEPT !.loops = ls, !.written = ws]
    BY <1>5, <1>8, <1>11, <2>2 DEF Gen
  <2>3. CASE pc = "done" /\ gen' = [gen EXCEPT !.running = FALSE, !.loops = ls]
    BY <1>5, <1>8, <2>3 DEF Gen
  <2> QED
    BY <1>11, <2>1, <2>2, <2>3
<1>13. PanesTypeOK'
  BY <1>0, <1>1, <1>4, <1>12, EmptiedIs DEF PanesTypeOK
<1>14. ContentOK' /\ RequestsOK' /\ DdlOK'
  BY <1>0, <1>1, <1>4, EmptiedIs DEF ContentOK, RequestsOK, DdlOK
<1>15. LoopsRunning' \subseteq LoopsRunning /\ (pc = "done" => i \notin LoopsRunning')
  BY <1>2, <1>7, <1>8, <1>12 DEF LoopsRunning
<1>16. Known' \subseteq Known /\ (pc = "done" => Known' = {})
  <2>1. LoopsRunning \subseteq DOMAIN gen.loops
    BY DEF LoopsRunning
  <2> QED
    BY <1>7, <1>12, <1>15, <2>1 DEF Known, l
<1>17. \A w \in gen'.written : (w.on = w.asked \/ w.moved) /\ ~w.stopped
  <2>1. ~gen.abort => ~(l.told /\ ~l.lost)
    BY <1>0, <1>2 DEF LoopsOK, Known, l
  <2>2. selected = l.asked \/ l.moved
    BY <1>0, <1>2 DEF LoopsOK, l
  <2>3. ~gen.abort => (onto.on = onto.asked \/ onto.moved) /\ ~onto.stopped
    BY <2>1, <2>2 DEF onto
  <2> QED
    BY <1>0, <1>9, <1>12, <2>3 DEF LoopsOK
<1>18. LoopsOK'
  <2>1. LoopsRunning \subseteq DOMAIN gen.loops /\ Known \subseteq LoopsRunning
    BY DEF LoopsRunning, Known
  <2>2. \A j \in LoopsRunning' : gen'.loops[j].asked = selected \/ gen'.loops[j].moved
    BY <1>0, <1>7, <1>12, <1>15, <2>1 DEF LoopsOK
  <2>3. \A j \in Known' : gen'.running /\ (gen'.loops[j].told => gen'.abort)
    BY <1>0, <1>7, <1>12, <1>16, <2>1 DEF LoopsOK
  <2>4. \A j, k \in Known' : j = k
    BY <1>0, <1>16 DEF LoopsOK
  <2> QED
    BY <1>1, <1>17, <2>2, <2>3, <2>4 DEF LoopsOK
<1> QED
  BY <1>13, <1>14, <1>18 DEF PanesInv

LEMMA PanesStay ==
  ASSUME PanesInv, [PanesNext]_paneVars PROVE PanesInv'
<1>1. CASE UNCHANGED paneVars
  BY <1>1, LoopsStay DEF paneVars, PanesInv, PanesTypeOK, ContentOK, RequestsOK, DdlOK
<1>2. CASE PanesNext
  BY <1>2, SelectKeeps, AskedKeeps, TabShownKeeps, AnswerKeeps, ActKeeps, ActAnsweredKeeps,
     StartGenerateKeeps, StopGenerateKeeps, LoopContinuesKeeps DEF PanesNext
<1> QED
  BY <1>1, <1>2

LEMMA PanesSuffice == PanesInv => PanesShowSelection /\ LoopStaysOnItsTable
<1> SUFFICES ASSUME PanesInv PROVE PanesShowSelection /\ LoopStaysOnItsTable
  OBVIOUS
<1>1. PanesShowSelection
  BY DEF PanesInv, ContentOK, DdlOK, PanesShowSelection
<1>2. Cardinality(Known) <= 1
  <2>1. CASE Known = {}
    BY <2>1, FS_EmptySet
  <2>2. CASE Known # {}
    <3>1. PICK i \in Known : TRUE
      BY <2>2
    <3>2. Known = {i}
      BY <3>1 DEF PanesInv, LoopsOK
    <3> QED
      BY <3>2, FS_Singleton
  <2> QED
    BY <2>1, <2>2
<1>3. LoopStaysOnItsTable
  BY <1>2 DEF PanesInv, LoopsOK, LoopStaysOnItsTable
<1> QED
  BY <1>1, <1>3

-----------------------------------------------------------------------------
(***************************************************************************)
(* The sign-in and the upload of the audit.                                *)
(***************************************************************************)

(* Sequences of entries: what is in them, without repetition, in order.    *)
In(s) == Cloud!Range(s)
Once(s) == \A i, j \in DOMAIN s : s[i] = s[j] => i = j
Below(s, t) == \A x \in In(s), y \in In(t) : x < y

(* A part of a sequence.                                                   *)
LEMMA PartIs ==
  ASSUME NEW s \in Seq(Nat), NEW m \in 1 .. Len(s) + 1, NEW n \in 0 .. Len(s), m <= n + 1
  PROVE  /\ SubSeq(s, m, n) \in Seq(Nat) /\ DOMAIN SubSeq(s, m, n) = 1 .. n - m + 1
         /\ \A i \in 1 .. n - m + 1 : SubSeq(s, m, n)[i] = s[i + m - 1] /\ i + m - 1 \in 1 .. Len(s)
<1>1. Len(s) \in Nat
  OBVIOUS
<1>2. Len(SubSeq(s, m, n)) = n - m + 1 /\ SubSeq(s, m, n) \in Seq(Nat)
  BY <1>1, SubSeqProperties
<1> QED
  BY <1>1, <1>2, SubSeqProperties

(* The first entries of a sequence are sent, the rest stays.               *)
LEMMA CutIs ==
  ASSUME NEW s \in Seq(Nat)
  PROVE  /\ Cloud!FirstOf(s) \in Seq(Nat) /\ Cloud!RestOf(s) \in Seq(Nat)
         /\ In(s) = In(Cloud!FirstOf(s)) \cup In(Cloud!RestOf(s))
         /\ Once(s) => /\ Once(Cloud!FirstOf(s)) /\ Once(Cloud!RestOf(s))
                       /\ In(Cloud!FirstOf(s)) \cap In(Cloud!RestOf(s)) = {}
         /\ Cloud!Ascending(s) => /\ Cloud!Ascending(Cloud!FirstOf(s))
                                  /\ Cloud!Ascending(Cloud!RestOf(s))
                                  /\ Below(Cloud!FirstOf(s), Cloud!RestOf(s))
<1> DEFINE k == IF Len(s) < BATCH_SIZE THEN Len(s) ELSE BATCH_SIZE
           a == Cloud!FirstOf(s)
           b == Cloud!RestOf(s)
<1>1. Len(s) \in Nat /\ k \in 0 .. Len(s) /\ DOMAIN s = 1 .. Len(s)
  BY ServicesAssumption
<1>2. a = SubSeq(s, 1, k)
  BY DEF Cloud!FirstOf
<1>3. /\ a \in Seq(Nat) /\ DOMAIN a = 1 .. k /\ Len(a) = k
      /\ \A i \in 1 .. k : a[i] = s[i]
  <2>1. 1 \in 1 .. Len(s) + 1 /\ 1 <= k + 1 /\ k - 1 + 1 = k
    BY <1>1
  <2> HIDE DEF k, a
  <2>2. a \in Seq(Nat) /\ DOMAIN a = 1 .. k - 1 + 1 /\ \A i \in 1 .. k - 1 + 1 : a[i] = s[i + 1 - 1]
    BY <1>1, <1>2, <2>1, PartIs
  <2>3. \A i \in 1 .. k : i + 1 - 1 = i
    BY <1>1
  <2>4. Len(a) = k
    BY <1>1, <2>1, <2>2
  <2> QED
    BY <2>1, <2>2, <2>3, <2>4
<1>4. b = SubSeq(s, k + 1, Len(s))
  BY <1>3 DEF Cloud!RestOf
<1> HIDE DEF k, a, b
<1>5. /\ b \in Seq(Nat) /\ DOMAIN b = 1 .. Len(s) - k
      /\ \A i \in 1 .. Len(s) - k : b[i] = s[i + k] /\ i + k \in 1 .. Len(s)
  <2>1. k + 1 \in 1 .. Len(s) + 1 /\ Len(s) \in 0 .. Len(s) /\ k + 1 <= Len(s) + 1
        /\ Len(s) - (k + 1) + 1 = Len(s) - k
    BY <1>1
  <2>2. \A i \in 1 .. Len(s) - k : i + (k + 1) - 1 = i + k
    BY <1>1
  <2>3. /\ b \in Seq(Nat) /\ DOMAIN b = 1 .. Len(s) - (k + 1) + 1
        /\ \A i \in 1 .. Len(s) - (k + 1) + 1 : b[i] = s[i + (k + 1) - 1] /\ i + (k + 1) - 1 \in 1 .. Len(s)
    BY <1>4, <2>1, PartIs
  <2> QED
    BY <2>1, <2>2, <2>3
<1>6. In(s) = In(a) \cup In(b)
  <2>1. ASSUME NEW x \in In(s) PROVE x \in In(a) \cup In(b)
    <3>1. PICK i \in 1 .. Len(s) : x = s[i]
      BY <1>1 DEF In, Cloud!Range
    <3>2. CASE i <= k
      BY <1>1, <1>3, <3>1, <3>2 DEF In, Cloud!Range
    <3>3. CASE i > k
      <4>1. i - k \in 1 .. Len(s) - k /\ i - k + k = i
        BY <1>1, <3>1, <3>3
      <4>2. b[i - k] = x
        BY <1>5, <3>1, <4>1
      <4> QED
        BY <1>5, <4>1, <4>2 DEF In, Cloud!Range
    <3> QED
      BY <1>1, <3>2, <3>3
  <2>2. ASSUME NEW x \in In(a) \cup In(b) PROVE x \in In(s)
    <3>1. CASE x \in In(a)
      BY <1>1, <1>3, <3>1 DEF In, Cloud!Range
    <3>2. CASE x \in In(b)
      BY <1>1, <1>5, <3>2 DEF In, Cloud!Range
    <3> QED
      BY <2>2, <3>1, <3>2
  <2> QED
    BY <2>1, <2>2
<1>7. Once(s) => Once(a) /\ Once(b) /\ In(a) \cap In(b) = {}
  <2> SUFFICES ASSUME Once(s) PROVE Once(a) /\ Once(b) /\ In(a) \cap In(b) = {}
    OBVIOUS
  <2>1. Once(a)
    BY <1>1, <1>3 DEF Once
  <2>2. ASSUME NEW i \in DOMAIN b, NEW j \in DOMAIN b, b[i] = b[j] PROVE i = j
    <3>1. i + k \in DOMAIN s /\ j + k \in DOMAIN s /\ s[i + k] = s[j + k]
      BY <1>1, <1>5, <2>2
    <3>2. i + k = j + k
      BY <3>1 DEF Once
    <3> QED
      BY <1>1, <1>5, <3>2
  <2>3. ASSUME NEW i \in DOMAIN a, NEW j \in DOMAIN b PROVE a[i] # b[j]
    <3>1. i \in DOMAIN s /\ j + k \in DOMAIN s /\ i # j + k
      BY <1>1, <1>3, <1>5
    <3> QED
      BY <1>3, <1>5, <3>1 DEF Once
  <2> QED
    BY <2>1, <2>2, <2>3 DEF Once, In, Cloud!Range
<1>8. Cloud!Ascending(s) => Cloud!Ascending(a) /\ Cloud!Ascending(b) /\ Below(a, b)
  <2> SUFFICES ASSUME Cloud!Ascending(s) PROVE Cloud!Ascending(a) /\ Cloud!Ascending(b) /\ Below(a, b)
    OBVIOUS
  <2>1. Cloud!Ascending(a)
    BY <1>1, <1>3 DEF Cloud!Ascending
  <2>2. ASSUME NEW i \in DOMAIN b, NEW j \in DOMAIN b, i < j PROVE b[i] < b[j]
    <3>1. i \in 1 .. Len(s) - k /\ j \in 1 .. Len(s) - k
      BY <1>5
    <3>2. i + k \in DOMAIN s /\ j + k \in DOMAIN s
      BY <1>1, <1>5, <3>1
    <3>3. i + k < j + k
      BY <1>1, <2>2, <3>1
    <3> QED
      BY <1>5, <3>1, <3>2, <3>3 DEF Cloud!Ascending
  <2>3. ASSUME NEW i \in DOMAIN a, NEW j \in DOMAIN b PROVE a[i] < b[j]
    <3>1. i \in DOMAIN s /\ j + k \in DOMAIN s /\ i < j + k
      BY <1>1, <1>3, <1>5
    <3> QED
      BY <1>3, <1>5, <3>1 DEF Cloud!Ascending
  <2> QED
    BY <2>1, <2>2, <2>3 DEF Cloud!Ascending, Below, In, Cloud!Range
<1> QED
  BY <1>3, <1>5, <1>6, <1>7, <1>8 DEF a, b

(* Two sequences one behind the other.                                     *)
LEMMA JoinIs ==
  ASSUME NEW s \in Seq(Nat), NEW t \in Seq(Nat)
  PROVE  /\ s \o t \in Seq(Nat) /\ In(s \o t) = In(s) \cup In(t)
         /\ Once(s) /\ Once(t) /\ In(s) \cap In(t) = {} => Once(s \o t)
         /\ Cloud!Ascending(s) /\ Cloud!Ascending(t) /\ Below(s, t) => Cloud!Ascending(s \o t)
<1> DEFINE u == s \o t
<1>1. /\ Len(s) \in Nat /\ Len(t) \in Nat /\ DOMAIN s = 1 .. Len(s) /\ DOMAIN t = 1 .. Len(t)
      /\ u \in Seq(Nat) /\ DOMAIN u = 1 .. Len(s) + Len(t)
      /\ \A i \in 1 .. Len(s) + Len(t) : u[i] = IF i <= Len(s) THEN s[i] ELSE t[i - Len(s)]
  BY ConcatProperties
<1> HIDE DEF u
<1>2. \A i \in DOMAIN s : i \in DOMAIN u /\ u[i] = s[i]
  BY <1>1
<1>3. ASSUME NEW i \in DOMAIN t PROVE i + Len(s) \in DOMAIN u /\ u[i + Len(s)] = t[i]
  <2>1. i + Len(s) \in 1 .. Len(s) + Len(t) /\ ~(i + Len(s) <= Len(s)) /\ i + Len(s) - Len(s) = i
    BY <1>1
  <2> QED
    BY <1>1, <2>1
<1>4. ASSUME NEW i \in DOMAIN u
      PROVE  \/ i \in DOMAIN s /\ u[i] = s[i]
             \/ i - Len(s) \in DOMAIN t /\ u[i] = t[i - Len(s)] /\ i > Len(s)
  BY <1>1
<1>5. In(u) = In(s) \cup In(t)
  BY <1>2, <1>3, <1>4 DEF In, Cloud!Range
<1>6. ASSUME Once(s), Once(t), In(s) \cap In(t) = {}, NEW i \in DOMAIN u, NEW j \in DOMAIN u, u[i] = u[j]
      PROVE  i = j
  <2>1. \A x \in DOMAIN s, y \in DOMAIN t : s[x] # t[y]
    BY <1>6 DEF In, Cloud!Range
  <2>2. CASE i \in DOMAIN s /\ u[i] = s[i] /\ j \in DOMAIN s /\ u[j] = s[j]
    BY <1>6, <2>2 DEF Once
  <2>3. CASE /\ i - Len(s) \in DOMAIN t /\ u[i] = t[i - Len(s)]
             /\ j - Len(s) \in DOMAIN t /\ u[j] = t[j - Len(s)]
    <3>1. i - Len(s) = j - Len(s)
      BY <1>6, <2>3 DEF Once
    <3> QED
      BY <1>1, <3>1
  <2> QED
    BY <1>4, <1>6, <2>1, <2>2, <2>3
<1>7. ASSUME Cloud!Ascending(s), Cloud!Ascending(t), Below(s, t),
             NEW i \in DOMAIN u, NEW j \in DOMAIN u, i < j
      PROVE  u[i] < u[j]
  <2>1. \A x \in DOMAIN s, y \in DOMAIN t : s[x] < t[y]
    BY <1>7 DEF Below, In, Cloud!Range
  <2>2. CASE i \in DOMAIN s /\ u[i] = s[i] /\ j \in DOMAIN s /\ u[j] = s[j]
    BY <1>7, <2>2 DEF Cloud!Ascending
  <2>3. CASE /\ i - Len(s) \in DOMAIN t /\ u[i] = t[i - Len(s)]
             /\ j - Len(s) \in DOMAIN t /\ u[j] = t[j - Len(s)]
    <3>1. i - Len(s) < j - Len(s)
      BY <1>1, <1>7
    <3> QED
      BY <1>7, <2>3, <3>1 DEF Cloud!Ascending
  <2>4. CASE i - Len(s) \in DOMAIN t /\ i > Len(s) /\ j \in DOMAIN s
    BY <1>1, <1>7, <2>4
  <2> QED
    BY <1>4, <2>1, <2>2, <2>3, <2>4
<1> QED
  BY <1>1, <1>5, <1>6, <1>7 DEF u, Once, Cloud!Ascending

(* What is true of the entries that wait (b), are in flight (fs), and were *)
(* taken (c), where s is what was counted.                                 *)
Flight == [n : Nat, batch : Seq(Nat), answer : {None, "ok", "error"}]
SeenRecord == [entries : Nat, logins : Nat, flushes : Nat, gaps : Nat, dropped : SUBSET Nat,
               twice : SUBSET Nat, overlap : BOOLEAN, late : BOOLEAN, refused : BOOLEAN]

UploadTypeOK(b, fs, c, s) ==
  /\ b \in Seq(Nat) /\ c \in Seq(Nat) /\ s \in SeenRecord
  /\ \A f \in fs : f \in Flight /\ f.n <= s.flushes
  /\ \A f, g \in fs : f.n = g.n => f = g
  /\ In(b) \cup In(c) \subseteq 1 .. s.entries
  /\ \A f \in fs : In(f.batch) \subseteq 1 .. s.entries

(* No entry is in two places that may still send it.                       *)
Apart(b, fs) ==
  /\ Once(b)
  /\ \A f \in fs : Once(f.batch) /\ In(f.batch) \cap In(b) = {}
  /\ \A f, g \in fs : f # g => In(f.batch) \cap In(g.batch) = {}

(* None is lost.                                                           *)
Accounted(b, fs, c, s) ==
  /\ \A e \in 1 .. s.entries :
       e \in In(b) \cup In(c) \cup s.dropped \/ \E f \in fs : e \in In(f.batch)
  /\ \A f \in fs : f.answer = "ok" => In(f.batch) \subseteq In(c)

(* An entry that was taken and may be sent again is one the answer to      *)
(* which was lost.                                                         *)
NotAgain(b, fs, c, s) ==
  /\ In(b) \cap In(c) \subseteq s.twice
  /\ \A f \in fs : f.answer # "ok" => In(f.batch) \cap In(c) \subseteq s.twice
  /\ \A i, j \in DOMAIN c : i # j /\ c[i] = c[j] => c[i] \in s.twice

InTurn(b, fs, c, s) ==
  ~s.overlap =>
    /\ \A f, g \in fs : f = g
    /\ Cloud!Ascending(b) /\ \A f \in fs : Cloud!Ascending(f.batch) /\ Below(f.batch, b)
    /\ s.twice = {} => /\ Cloud!Ascending(c) /\ Below(c, b)
                       /\ \A f \in fs : f.answer # "ok" => Below(c, f.batch)

UploadOK(b, fs, c, s) ==
  /\ UploadTypeOK(b, fs, c, s) /\ Apart(b, fs) /\ Accounted(b, fs, c, s)
  /\ NotAgain(b, fs, c, s) /\ InTurn(b, fs, c, s)

(* An entry is pushed.                                                     *)
LEMMA PushKeeps ==
  ASSUME NEW b, NEW fs, NEW c, NEW s, UploadOK(b, fs, c, s)
  PROVE  UploadOK(Append(b, s.entries + 1), fs, c, [s EXCEPT !.entries = @ + 1])
<1> DEFINE e == s.entries + 1
           d == Append(b, e)
           t == [s EXCEPT !.entries = @ + 1]
<1>0. UploadTypeOK(b, fs, c, s) /\ Apart(b, fs) /\ Accounted(b, fs, c, s) /\ NotAgain(b, fs, c, s)
      /\ InTurn(b, fs, c, s)
  BY DEF UploadOK
<1>1. /\ t \in SeenRecord /\ t.entries = e /\ t.flushes = s.flushes /\ t.dropped = s.dropped
      /\ t.twice = s.twice /\ t.overlap = s.overlap /\ e \in Nat /\ s.entries \in Nat
      /\ b \in Seq(Nat) /\ c \in Seq(Nat) /\ s.flushes \in Nat
  <2>1. s \in SeenRecord /\ b \in Seq(Nat) /\ c \in Seq(Nat)
    BY <1>0 DEF UploadTypeOK
  <2>2. s.entries \in Nat /\ s.flushes \in Nat /\ e \in Nat
    BY <2>1 DEF SeenRecord
  <2>3. t \in SeenRecord
    BY <2>1, <2>2 DEF SeenRecord
  <2>4. t.entries = e /\ t.flushes = s.flushes /\ t.dropped = s.dropped /\ t.twice = s.twice
        /\ t.overlap = s.overlap
    BY <2>1 DEF SeenRecord
  <2> QED
    BY <2>1, <2>2, <2>3, <2>4
<1>2. d = b \o <<e>> /\ <<e>> \in Seq(Nat)
  BY <1>1
<1>3. In(<<e>>) = {e} /\ Once(<<e>>) /\ Cloud!Ascending(<<e>>)
  BY <1>1 DEF In, Cloud!Range, Once, Cloud!Ascending
<1> HIDE DEF d, t
<1>4. /\ e \notin In(b) /\ e \notin In(c) /\ \A f \in fs : e \notin In(f.batch)
      /\ \A x \in In(b) \cup In(c) : x \in Nat /\ x < e
      /\ \A f \in fs : \A x \in In(f.batch) : x \in Nat /\ x < e
      /\ 1 .. e = 1 .. s.entries \cup {e}
  <2>1. \A x \in 1 .. s.entries : x \in Nat /\ x < e
    BY <1>1
  <2>2. e \notin 1 .. s.entries /\ 1 .. e = 1 .. s.entries \cup {e}
    BY <1>1
  <2>3. In(b) \cup In(c) \subseteq 1 .. s.entries /\ \A f \in fs : In(f.batch) \subseteq 1 .. s.entries
    BY <1>0 DEF UploadTypeOK
  <2> HIDE DEF e
  <2> QED
    BY <2>1, <2>2, <2>3
<1> HIDE DEF e
<1>5. d \in Seq(Nat) /\ In(d) = In(b) \cup {e} /\ (Once(b) => Once(d))
  <2>1. In(b) \cap In(<<e>>) = {}
    BY <1>3, <1>4
  <2>2. /\ b \o <<e>> \in Seq(Nat) /\ In(b \o <<e>>) = In(b) \cup In(<<e>>)
        /\ Once(b) /\ Once(<<e>>) /\ In(b) \cap In(<<e>>) = {} => Once(b \o <<e>>)
    BY <1>1, <1>2, JoinIs
  <2> QED
    BY <1>2, <1>3, <2>1, <2>2
<1>6. Cloud!Ascending(b) => Cloud!Ascending(d)
  <2>1. Below(b, <<e>>)
    BY <1>3, <1>4 DEF Below
  <2> QED
    BY <1>1, <1>2, <1>3, <2>1, JoinIs
<1>7. UploadTypeOK(d, fs, c, t)
  <2>1. In(d) \cup In(c) \subseteq 1 .. e
    BY <1>0, <1>4, <1>5, <1>1 DEF UploadTypeOK
  <2> QED
    BY <1>0, <1>1, <1>4, <1>5, <2>1 DEF UploadTypeOK
<1>8. Apart(d, fs)
  BY <1>0, <1>4, <1>5 DEF Apart
<1>9. Accounted(d, fs, c, t)
  BY <1>0, <1>1, <1>4, <1>5 DEF Accounted
<1>10. NotAgain(d, fs, c, t)
  BY <1>0, <1>1, <1>4, <1>5 DEF NotAgain
<1>11. InTurn(d, fs, c, t)
  BY <1>0, <1>1, <1>4, <1>5, <1>6 DEF InTurn, Below
<1> QED
  BY <1>7, <1>8, <1>9, <1>10, <1>11 DEF UploadOK, d, t, e

(* A batch is sent.                                                        *)
LEMMA FlushKeeps ==
  ASSUME NEW b, NEW fs, NEW c, NEW s, UploadOK(b, fs, c, s)
  PROVE  UploadOK(Cloud!RestOf(b),
                  fs \cup {[n |-> s.flushes + 1, batch |-> Cloud!FirstOf(b), answer |-> None]},
                  c, [s EXCEPT !.flushes = @ + 1, !.overlap = @ \/ fs # {}])
<1> DEFINE g == [n |-> s.flushes + 1, batch |-> Cloud!FirstOf(b), answer |-> None]
           d == Cloud!RestOf(b)
           gs == fs \cup {g}
           t == [s EXCEPT !.flushes = @ + 1, !.overlap = @ \/ fs # {}]
<1>0. UploadTypeOK(b, fs, c, s) /\ Apart(b, fs) /\ Accounted(b, fs, c, s) /\ NotAgain(b, fs, c, s)
      /\ InTurn(b, fs, c, s)
  BY DEF UploadOK
<1>1. /\ t \in SeenRecord /\ t.entries = s.entries /\ t.flushes = s.flushes + 1
      /\ t.dropped = s.dropped /\ t.twice = s.twice /\ t.overlap = (s.overlap \/ fs # {})
      /\ s.entries \in Nat /\ b \in Seq(Nat) /\ c \in Seq(Nat) /\ s.flushes \in Nat
  <2>1. s \in SeenRecord /\ b \in Seq(Nat) /\ c \in Seq(Nat)
    BY <1>0 DEF UploadTypeOK
  <2>2. s.entries \in Nat /\ s.flushes \in Nat /\ s.overlap \in BOOLEAN
    BY <2>1 DEF SeenRecord
  <2>3. t = [s EXCEPT !.flushes = s.flushes + 1, !.overlap = (s.overlap \/ fs # {})]
    BY <2>1 DEF SeenRecord
  <2>4. (s.overlap \/ fs # {}) \in BOOLEAN /\ s.flushes + 1 \in Nat
    BY <2>2
  <2>5. PICK o \in BOOLEAN : o = (s.overlap \/ fs # {})
    BY <2>4
  <2> HIDE DEF t
  <2>6. t = [s EXCEPT !.flushes = s.flushes + 1, !.overlap = o]
    BY <2>3, <2>5
  <2>7. t \in SeenRecord
    BY <2>1, <2>4, <2>6 DEF SeenRecord
  <2>8. t.entries = s.entries /\ t.flushes = s.flushes + 1 /\ t.dropped = s.dropped
        /\ t.twice = s.twice /\ t.overlap = o
    BY <2>1, <2>6 DEF SeenRecord
  <2> QED
    BY <2>1, <2>2, <2>5, <2>7, <2>8
<1>2. /\ d \in Seq(Nat) /\ g.batch \in Seq(Nat) /\ In(b) = In(g.batch) \cup In(d)
      /\ Once(b) => Once(g.batch) /\ Once(d) /\ In(g.batch) \cap In(d) = {}
      /\ Cloud!Ascending(b) => Cloud!Ascending(g.batch) /\ Cloud!Ascending(d) /\ Below(g.batch, d)
  BY <1>1, CutIs
<1>3. g \in Flight /\ g.n = s.flushes + 1 /\ g.answer = None /\ None # "ok"
  BY <1>1, <1>2, ServicesAssumption DEF Flight
<1> HIDE DEF t, g, d
<1>4. \A f \in fs : f.n # g.n /\ f # g /\ f.n <= s.flushes + 1
  BY <1>0, <1>1, <1>3 DEF UploadTypeOK, Flight
<1>5. UploadTypeOK(d, gs, c, t)
  <2>1. \A f \in gs : f \in Flight /\ f.n <= t.flushes
    BY <1>0, <1>1, <1>3, <1>4 DEF UploadTypeOK
  <2>2. \A f, h \in gs : f.n = h.n => f = h
    BY <1>0, <1>4 DEF UploadTypeOK
  <2>3. \A f \in gs : In(f.batch) \subseteq 1 .. t.entries
    BY <1>0, <1>1, <1>2 DEF UploadTypeOK
  <2> QED
    BY <1>0, <1>1, <1>2, <2>1, <2>2, <2>3 DEF UploadTypeOK
<1>6. Apart(d, gs)
  BY <1>0, <1>2 DEF Apart
<1>7. Accounted(d, gs, c, t)
  BY <1>0, <1>1, <1>2, <1>3 DEF Accounted
<1>8. NotAgain(d, gs, c, t)
  BY <1>0, <1>1, <1>2, <1>3 DEF NotAgain
<1>9. InTurn(d, gs, c, t)
  <2> SUFFICES ASSUME ~s.overlap, fs = {} PROVE InTurn(d, gs, c, t)
    BY <1>1 DEF InTurn
  <2>1. Cloud!Ascending(b) /\ (s.twice = {} => Cloud!Ascending(c) /\ Below(c, b))
    BY <1>0 DEF InTurn
  <2> QED
    BY <1>1, <1>2, <2>1 DEF InTurn, Below
<1> QED
  BY <1>5, <1>6, <1>7, <1>8, <1>9 DEF UploadOK, d, t, g

(* A batch is posted: the cloud takes it or not, and answers or not.       *)
LEMMA PostedKeeps ==
  ASSUME NEW b, NEW fs, NEW c, NEW s, UploadOK(b, fs, c, s),
         NEW f \in fs, f.answer = None,
         NEW taken \in BOOLEAN, NEW a \in {"ok", "error"}, a = "ok" => taken
  PROVE  UploadOK(b, (fs \ {f}) \cup {[f EXCEPT !.answer = a]},
                  IF taken THEN c \o f.batch ELSE c,
                  IF taken /\ a = "error" THEN [s EXCEPT !.twice = @ \cup Cloud!Range(f.batch)]
                                          ELSE s)
<1> DEFINE h == [f EXCEPT !.answer = a]
           gs == (fs \ {f}) \cup {h}
           k == IF taken THEN c \o f.batch ELSE c
           new == IF taken THEN In(f.batch) ELSE {}
           t == IF taken /\ a = "error" THEN [s EXCEPT !.twice = @ \cup Cloud!Range(f.batch)]
                                        ELSE s
<1>0. UploadTypeOK(b, fs, c, s) /\ Apart(b, fs) /\ Accounted(b, fs, c, s) /\ NotAgain(b, fs, c, s)
      /\ InTurn(b, fs, c, s)
  BY DEF UploadOK
<1>1. /\ f \in Flight /\ h \in Flight /\ h.n = f.n /\ h.batch = f.batch /\ h.answer = a
      /\ f.answer # "ok" /\ f.batch \in Seq(Nat)
  <2>1. f \in Flight
    BY <1>0 DEF UploadTypeOK
  <2> QED
    BY <2>1, ServicesAssumption DEF Flight
<1>2. s \in SeenRecord /\ b \in Seq(Nat) /\ c \in Seq(Nat)
  BY <1>0 DEF UploadTypeOK
<1>3. /\ t \in SeenRecord /\ t.entries = s.entries /\ t.flushes = s.flushes /\ t.dropped = s.dropped
      /\ t.overlap = s.overlap /\ s.twice \subseteq t.twice
      /\ taken /\ a = "error" => In(f.batch) \subseteq t.twice
  <2>1. In(f.batch) \subseteq Nat
    BY <1>1 DEF In, Cloud!Range
  <2>2. CASE taken /\ a = "error"
    <3>1. t = [s EXCEPT !.twice = s.twice \cup In(f.batch)]
      BY <1>2, <2>2 DEF SeenRecord, In
    <3>2. s.twice \cup In(f.batch) \in SUBSET Nat
      BY <1>2, <2>1 DEF SeenRecord
    <3> HIDE DEF t
    <3> QED
      BY <1>2, <3>1, <3>2 DEF SeenRecord
  <2>3. CASE ~(taken /\ a = "error")
    BY <1>2, <2>3
  <2> QED
    BY <2>2, <2>3
<1>4. /\ k \in Seq(Nat) /\ In(k) = In(c) \cup new
      /\ Cloud!Ascending(c) /\ (taken => Cloud!Ascending(f.batch) /\ Below(c, f.batch)) => Cloud!Ascending(k)
  <2>1. /\ c \o f.batch \in Seq(Nat) /\ In(c \o f.batch) = In(c) \cup In(f.batch)
        /\ Cloud!Ascending(c) /\ Cloud!Ascending(f.batch) /\ Below(c, f.batch) => Cloud!Ascending(c \o f.batch)
    BY <1>1, <1>2, JoinIs
  <2> QED
    BY <1>2, <2>1
<1>5. ASSUME NEW i \in DOMAIN k, NEW j \in DOMAIN k, i # j, k[i] = k[j] PROVE k[i] \in s.twice
  <2>1. CASE ~taken
    BY <1>0, <1>5, <2>1 DEF NotAgain
  <2>2. CASE taken
    <3>1. /\ Len(c) \in Nat /\ DOMAIN c = 1 .. Len(c) /\ DOMAIN f.batch = 1 .. Len(f.batch)
          /\ Len(f.batch) \in Nat /\ DOMAIN (c \o f.batch) = 1 .. Len(c) + Len(f.batch)
          /\ \A x \in 1 .. Len(c) + Len(f.batch) :
               (c \o f.batch)[x] = IF x <= Len(c) THEN c[x] ELSE f.batch[x - Len(c)]
      BY <1>1, <1>2, ConcatProperties
    <3>2. ASSUME NEW x \in DOMAIN k
          PROVE  \/ x \in DOMAIN c /\ k[x] = c[x]
                 \/ x - Len(c) \in DOMAIN f.batch /\ k[x] = f.batch[x - Len(c)]
      BY <2>2, <3>1
    <3>3. CASE i \in DOMAIN c /\ k[i] = c[i] /\ j \in DOMAIN c /\ k[j] = c[j]
      <4> HIDE DEF k
      <4> QED
        BY <1>0, <1>5, <3>3 DEF NotAgain
    <3>4. CASE /\ i - Len(c) \in DOMAIN f.batch /\ k[i] = f.batch[i - Len(c)]
               /\ j - Len(c) \in DOMAIN f.batch /\ k[j] = f.batch[j - Len(c)]
      <4>1. i \in Nat /\ j \in Nat
        BY <1>4
      <4>2. i - Len(c) # j - Len(c)
        BY <1>5, <3>1, <4>1
      <4> HIDE DEF k
      <4> QED
        BY <1>0, <1>5, <3>4, <4>2 DEF Apart, Once
    <3>5. CASE k[i] \in In(c) /\ k[i] \in In(f.batch)
      BY <1>0, <1>1, <3>5 DEF NotAgain
    <3> HIDE DEF k
    <3>6. \A x \in DOMAIN c : c[x] \in In(c)
      BY DEF In, Cloud!Range
    <3>7. \A x \in DOMAIN f.batch : f.batch[x] \in In(f.batch)
      BY DEF In, Cloud!Range
    <3> QED
      BY <1>5, <3>2, <3>3, <3>4, <3>5, <3>6, <3>7
  <2> QED
    BY <2>1, <2>2
<1>6. new \subseteq In(f.batch) /\ (a = "ok" => new = In(f.batch))
  OBVIOUS
<1>15. taken /\ a = "error" => In(f.batch) \subseteq t.twice
  BY <1>3
<1>16. ~taken => new = {} /\ k = c
  OBVIOUS
<1> HIDE DEF h, k, new, t
<1>7. \A g \in gs : (g \in fs /\ g # f) \/ g = h
  OBVIOUS
<1>8. UploadTypeOK(b, gs, k, t)
  <2>1. \A g \in gs : g \in Flight /\ g.n <= t.flushes /\ In(g.batch) \subseteq 1 .. t.entries
    BY <1>0, <1>1, <1>3, <1>7 DEF UploadTypeOK
  <2>2. \A g, x \in gs : g.n = x.n => g = x
    BY <1>0, <1>1, <1>7 DEF UploadTypeOK
  <2>3. In(b) \cup In(k) \subseteq 1 .. t.entries
    BY <1>0, <1>3, <1>4, <1>6 DEF UploadTypeOK
  <2> QED
    BY <1>2, <1>3, <1>4, <2>1, <2>2, <2>3 DEF UploadTypeOK
<1>9. Apart(b, gs)
  BY <1>0, <1>1, <1>7 DEF Apart
<1>10. Accounted(b, gs, k, t)
  <2>1. \A g \in gs : g.answer = "ok" => In(g.batch) \subseteq In(k)
    BY <1>0, <1>1, <1>4, <1>6, <1>7 DEF Accounted
  <2>2. ASSUME NEW e \in 1 .. t.entries
        PROVE  e \in In(b) \cup In(k) \cup t.dropped \/ \E g \in gs : e \in In(g.batch)
    <3>1. e \in In(b) \cup In(c) \cup s.dropped \/ \E g \in fs : e \in In(g.batch)
      BY <1>0, <1>3 DEF Accounted
    <3>2. h \in gs /\ fs \ {f} \subseteq gs
      OBVIOUS
    <3> QED
      BY <1>1, <1>3, <1>4, <3>1, <3>2
  <2> QED
    BY <2>1, <2>2 DEF Accounted
<1>11. NotAgain(b, gs, k, t)
  <2>1. In(b) \cap In(k) \subseteq t.twice
    BY <1>0, <1>3, <1>4, <1>6 DEF NotAgain, Apart
  <2>2. ASSUME NEW g \in gs, g.answer # "ok" PROVE In(g.batch) \cap In(k) \subseteq t.twice
    <3>1. CASE g \in fs /\ g # f
      <4>1. In(g.batch) \cap In(c) \subseteq s.twice /\ In(g.batch) \cap In(f.batch) = {}
        BY <1>0, <2>2, <3>1 DEF NotAgain, Apart
      <4> QED
        BY <1>3, <1>4, <1>6, <4>1
    <3>2. CASE g = h
      <4>1. In(f.batch) \cap In(c) \subseteq s.twice /\ a = "error"
        BY <1>0, <1>1, <2>2, <3>2 DEF NotAgain
      <4> QED
        BY <1>1, <1>3, <1>4, <1>6, <1>15, <1>16, <3>2, <4>1
    <3> QED
      BY <1>7, <3>1, <3>2
  <2> QED
    BY <1>3, <1>5, <2>1, <2>2 DEF NotAgain
<1>12. InTurn(b, gs, k, t)
  <2> SUFFICES ASSUME ~s.overlap PROVE InTurn(b, gs, k, t)
    BY <1>3 DEF InTurn
  <2>1. /\ \A x, y \in fs : x = y
        /\ Cloud!Ascending(b) /\ Cloud!Ascending(f.batch) /\ Below(f.batch, b)
        /\ s.twice = {} => /\ Cloud!Ascending(c) /\ Below(c, b) /\ Below(c, f.batch)
    BY <1>0, <1>1 DEF InTurn
  <2>2. gs = {h}
    BY <2>1
  <2>3. ASSUME t.twice = {}
        PROVE  Cloud!Ascending(k) /\ Below(k, b) /\ (a # "ok" => Below(k, f.batch))
    <3>1. s.twice = {} /\ Cloud!Ascending(c) /\ Below(c, b) /\ Below(c, f.batch)
      BY <1>3, <2>1, <2>3
    <3>2. Cloud!Ascending(k)
      BY <1>4, <2>1, <3>1
    <3>3. Below(k, b)
      BY <1>4, <1>6, <2>1, <3>1 DEF Below
    <3>4. a # "ok" => Below(k, f.batch)
      BY <1>3, <1>4, <1>6, <1>15, <1>16, <2>3, <3>1 DEF Below
    <3> QED
      BY <3>2, <3>3, <3>4
  <2> QED
    BY <1>1, <2>1, <2>2, <2>3 DEF InTurn
<1> QED
  BY <1>8, <1>9, <1>10, <1>11, <1>12 DEF UploadOK, h, k, t

(* Its answer came and was the cloud's word that it took it.               *)
LEMMA DoneKeeps ==
  ASSUME NEW b, NEW fs, NEW c, NEW s, UploadOK(b, fs, c, s), NEW f \in fs, f.answer = "ok"
  PROVE  UploadOK(b, fs \ {f}, c, s)
<1>0. UploadTypeOK(b, fs, c, s) /\ Apart(b, fs) /\ Accounted(b, fs, c, s) /\ NotAgain(b, fs, c, s)
      /\ InTurn(b, fs, c, s)
  BY DEF UploadOK
<1>1. In(f.batch) \subseteq In(c)
  BY <1>0 DEF Accounted
<1>2. UploadTypeOK(b, fs \ {f}, c, s) /\ Apart(b, fs \ {f})
  BY <1>0 DEF UploadTypeOK, Apart
<1>3. Accounted(b, fs \ {f}, c, s)
  BY <1>0, <1>1 DEF Accounted
<1>4. NotAgain(b, fs \ {f}, c, s) /\ InTurn(b, fs \ {f}, c, s)
  BY <1>0 DEF NotAgain, InTurn
<1> QED
  BY <1>2, <1>3, <1>4 DEF UploadOK

(* It was not, and the batch is put back in front of what waits.           *)
LEMMA PutBackKeeps ==
  ASSUME NEW b, NEW fs, NEW c, NEW s, UploadOK(b, fs, c, s), NEW f \in fs, f.answer # "ok"
  PROVE  UploadOK(Cloud!PutBack(f.batch, b), fs \ {f}, c, s)
<1> DEFINE d == Cloud!PutBack(f.batch, b)
           gs == fs \ {f}
<1>0. UploadTypeOK(b, fs, c, s) /\ Apart(b, fs) /\ Accounted(b, fs, c, s) /\ NotAgain(b, fs, c, s)
      /\ InTurn(b, fs, c, s)
  BY DEF UploadOK
<1>1. b \in Seq(Nat) /\ f.batch \in Seq(Nat)
  BY <1>0 DEF UploadTypeOK, Flight
<1>2. /\ d \in Seq(Nat) /\ In(d) = In(f.batch) \cup In(b)
      /\ Once(f.batch) /\ Once(b) /\ In(f.batch) \cap In(b) = {} => Once(d)
      /\ Cloud!Ascending(f.batch) /\ Cloud!Ascending(b) /\ Below(f.batch, b) => Cloud!Ascending(d)
  BY <1>1, JoinIs DEF Cloud!PutBack
<1> HIDE DEF d
<1>3. UploadTypeOK(d, gs, c, s)
  BY <1>0, <1>2 DEF UploadTypeOK
<1>4. Apart(d, gs)
  <2>1. \A g \in gs : In(f.batch) \cap In(g.batch) = {} /\ In(g.batch) \cap In(b) = {}
    BY <1>0 DEF Apart
  <2> QED
    BY <1>0, <1>2, <2>1 DEF Apart
<1>5. Accounted(d, gs, c, s)
  BY <1>0, <1>2 DEF Accounted
<1>6. NotAgain(d, gs, c, s)
  BY <1>0, <1>2 DEF NotAgain
<1>7. InTurn(d, gs, c, s)
  <2> SUFFICES ASSUME ~s.overlap PROVE InTurn(d, gs, c, s)
    BY DEF InTurn
  <2>1. /\ \A x, y \in fs : x = y
        /\ Cloud!Ascending(b) /\ Cloud!Ascending(f.batch) /\ Below(f.batch, b)
        /\ s.twice = {} => /\ Cloud!Ascending(c) /\ Below(c, b) /\ Below(c, f.batch)
    BY <1>0 DEF InTurn
  <2>2. gs = {}
    BY <2>1
  <2>3. Cloud!Ascending(d)
    BY <1>0, <1>2, <2>1 DEF Apart
  <2>4. s.twice = {} => Below(c, d)
    BY <1>2, <2>1 DEF Below
  <2> QED
    BY <2>1, <2>2, <2>3, <2>4 DEF InTurn
<1> QED
  BY <1>3, <1>4, <1>5, <1>6, <1>7 DEF UploadOK, d

(* Or it is dropped, because enough others wait.                           *)
LEMMA DropKeeps ==
  ASSUME NEW b, NEW fs, NEW c, NEW s, UploadOK(b, fs, c, s), NEW f \in fs
  PROVE  UploadOK(b, fs \ {f}, c, [s EXCEPT !.dropped = @ \cup Cloud!Range(f.batch)])
<1> DEFINE t == [s EXCEPT !.dropped = @ \cup Cloud!Range(f.batch)]
           gs == fs \ {f}
<1>0. UploadTypeOK(b, fs, c, s) /\ Apart(b, fs) /\ Accounted(b, fs, c, s) /\ NotAgain(b, fs, c, s)
      /\ InTurn(b, fs, c, s)
  BY DEF UploadOK
<1>1. s \in SeenRecord /\ f.batch \in Seq(Nat)
  BY <1>0 DEF UploadTypeOK, Flight
<1>2. /\ t \in SeenRecord /\ t.entries = s.entries /\ t.flushes = s.flushes
      /\ t.dropped = s.dropped \cup In(f.batch) /\ t.overlap = s.overlap /\ t.twice = s.twice
  <2>1. In(f.batch) \subseteq Nat
    BY <1>1 DEF In, Cloud!Range
  <2>2. t = [s EXCEPT !.dropped = s.dropped \cup In(f.batch)]
    BY <1>1 DEF SeenRecord, In
  <2>3. s.dropped \cup In(f.batch) \in SUBSET Nat
    BY <1>1, <2>1 DEF SeenRecord
  <2> HIDE DEF t
  <2> QED
    BY <1>1, <2>2, <2>3 DEF SeenRecord
<1> HIDE DEF t
<1>3. UploadTypeOK(b, gs, c, t)
  BY <1>0, <1>2 DEF UploadTypeOK
<1>4. Apart(b, gs)
  BY <1>0 DEF Apart
<1>5. Accounted(b, gs, c, t)
  BY <1>0, <1>2 DEF Accounted
<1>6. NotAgain(b, gs, c, t)
  BY <1>0, <1>2 DEF NotAgain
<1>7. InTurn(b, gs, c, t)
  BY <1>0, <1>2 DEF InTurn
<1> QED
  BY <1>3, <1>4, <1>5, <1>6, <1>7 DEF UploadOK, t

(* What else is counted does not matter to the entries.                    *)
LEMMA UploadSees ==
  ASSUME NEW b, NEW fs, NEW c, NEW s, UploadOK(b, fs, c, s), NEW t \in SeenRecord,
         t.entries = s.entries, t.flushes = s.flushes, t.dropped = s.dropped,
         t.twice = s.twice, t.overlap = s.overlap
  PROVE  UploadOK(b, fs, c, t)
BY DEF UploadOK, UploadTypeOK, Apart, Accounted, NotAgain, InTurn

(* Signing in: what is known of the token, unless something was late.     *)
SignInTypeOK ==
  /\ token \in Users \cup {None} /\ features \in BOOLEAN /\ timer \in BOOLEAN /\ gap \in BOOLEAN
  /\ stored \in {"none", "off", "on"}
  /\ refresh \in {"sent", "on", "off", "none", "unauthorized", "error", "over"}
  /\ signout \in {"none", "clearing"} /\ polls \subseteq Users

SignInOK ==
  ~seen.late =>
    /\ features \/ timer => token # None
    /\ refresh # "over" => token # None
    /\ token # None /\ ~seen.refused =>
         /\ features <=> stored = "on"
         /\ features => timer \/ signout = "clearing"
    /\ signout = "clearing" => ~timer

CloudInv == UploadOK(buffer, flights, cloud, seen) /\ SignInTypeOK /\ SignInOK

LEMMA CloudStart == Cloud!CloudInit => CloudInv
<1> SUFFICES ASSUME Cloud!CloudInit PROVE CloudInv
  OBVIOUS
<1>1. PICK read \in BOOLEAN :
        /\ features = (read /\ token # None /\ stored = "on") /\ timer = features
        /\ refresh = IF read /\ token # None THEN "sent" ELSE "over"
        /\ seen = [entries |-> 0, logins |-> 0, flushes |-> 0, gaps |-> 0, dropped |-> {},
                   twice |-> {}, overlap |-> FALSE, late |-> FALSE, refused |-> ~read]
  BY DEF Cloud!CloudInit
<1>2. /\ seen \in SeenRecord /\ seen.entries = 0 /\ seen.flushes = 0 /\ seen.dropped = {}
      /\ seen.twice = {} /\ ~seen.late /\ ~seen.overlap /\ seen.refused = ~read
  BY <1>1 DEF SeenRecord
<1>3. buffer = <<>> /\ flights = {} /\ cloud = <<>>
  BY DEF Cloud!CloudInit
<1>4. <<>> \in Seq(Nat) /\ In(<<>>) = {} /\ Once(<<>>) /\ Cloud!Ascending(<<>>)
  BY DEF In, Cloud!Range, Once, Cloud!Ascending
<1>5. UploadOK(buffer, flights, cloud, seen)
  BY <1>2, <1>3, <1>4 DEF UploadOK, UploadTypeOK, Apart, Accounted, NotAgain, InTurn, Below
<1>6. SignInTypeOK
  BY <1>1 DEF Cloud!CloudInit, SignInTypeOK
<1>7. SignInOK
  BY <1>1, <1>2 DEF Cloud!CloudInit, SignInOK
<1> QED
  BY <1>5, <1>6, <1>7 DEF CloudInv

(* flush() of what waits.                                                  *)
LEMMA FlushesKeep ==
  ASSUME CloudInv, Cloud!Flushes(buffer), cloud' = cloud
  PROVE  /\ UploadOK(buffer, flights, cloud, seen)'
         /\ seen'.late = seen.late /\ seen'.refused = seen.refused
<1>0. UploadOK(buffer, flights, cloud, seen) /\ seen \in SeenRecord
  BY DEF CloudInv, UploadOK, UploadTypeOK
<1>1. CASE buffer = <<>>
  BY <1>0, <1>1 DEF Cloud!Flushes
<1>2. CASE buffer # <<>>
  <2>1. /\ buffer' = Cloud!RestOf(buffer)
        /\ flights' = flights \cup {[n |-> seen.flushes + 1, batch |-> Cloud!FirstOf(buffer), answer |-> None]}
        /\ seen' = [seen EXCEPT !.flushes = @ + 1, !.overlap = @ \/ flights # {}]
    BY <1>2 DEF Cloud!Flushes
  <2>2. UploadOK(buffer', flights', cloud', seen')
    BY <1>0, <2>1, FlushKeeps
  <2>3. seen'.late = seen.late /\ seen'.refused = seen.refused
    BY <1>0, <2>1 DEF SeenRecord
  <2> QED
    BY <2>2, <2>3
<1> QED
  BY <1>1, <1>2

(* An action that changes no entry, only what else is counted.             *)
LEMMA LateKeeps ==
  ASSUME CloudInv, UNCHANGED <<buffer, flights, cloud>>, NEW lag \in BOOLEAN, NEW refused \in BOOLEAN,
         NEW logins \in Nat, NEW gaps \in Nat,
         seen' = [seen EXCEPT !.late = lag, !.refused = refused, !.logins = logins, !.gaps = gaps]
  PROVE  /\ UploadOK(buffer, flights, cloud, seen)'
         /\ seen'.late = lag /\ seen'.refused = refused
<1>0. UploadOK(buffer, flights, cloud, seen) /\ seen \in SeenRecord
  BY DEF CloudInv, UploadOK, UploadTypeOK
<1>1. seen' \in SeenRecord
  BY <1>0 DEF SeenRecord
<1>2. /\ seen'.entries = seen.entries /\ seen'.flushes = seen.flushes /\ seen'.dropped = seen.dropped
      /\ seen'.twice = seen.twice /\ seen'.overlap = seen.overlap
      /\ seen'.late = lag /\ seen'.refused = refused
  BY <1>0 DEF SeenRecord
<1> QED
  BY <1>0, <1>1, <1>2, UploadSees

LEMMA CloudStay ==
  ASSUME CloudInv, [Cloud!CloudNext]_cloudVars
  PROVE  CloudInv'
<1>0. /\ UploadOK(buffer, flights, cloud, seen) /\ seen \in SeenRecord
      /\ seen.late \in BOOLEAN /\ seen.refused \in BOOLEAN /\ seen.logins \in Nat /\ seen.gaps \in Nat
      /\ seen.entries \in Nat /\ seen.flushes \in Nat
  BY DEF CloudInv, UploadOK, UploadTypeOK, SeenRecord
<1> USE DEF CloudInv, Cloud!authVars, Cloud!uploadVars
<1>1. CASE UNCHANGED cloudVars
  <2>1. UploadOK(buffer, flights, cloud, seen)'
    BY <1>0, <1>1 DEF cloudVars
  <2>2. SignInTypeOK'
    BY <1>0, <1>1 DEF cloudVars, SignInTypeOK
  <2>3. SignInOK'
    BY <1>0, <1>1, Zenon DEF cloudVars, SignInOK
  <2> QED
    BY <2>1, <2>2, <2>3
<1>2. CASE Cloud!EntryPushed
  <2> DEFINE s == Append(buffer, seen.entries + 1)
             t == [seen EXCEPT !.entries = @ + 1]
  <2>1. UploadOK(s, flights, cloud, t) /\ t \in SeenRecord
    <3>1. UploadOK(s, flights, cloud, t)
      BY <1>0, PushKeeps
    <3> QED
      BY <3>1 DEF UploadOK, UploadTypeOK
  <2>2. /\ UploadOK(buffer', flights', cloud', seen') /\ seen'.late = seen.late
        /\ seen'.refused = seen.refused
    <3>1. CASE Len(s) < BATCH_SIZE
      <4>1. buffer' = s /\ seen' = t /\ flights' = flights /\ cloud' = cloud
        BY <1>2, <3>1 DEF Cloud!EntryPushed
      <4>2. t.late = seen.late /\ t.refused = seen.refused
        BY <1>0 DEF SeenRecord
      <4> HIDE DEF s, t
      <4> QED
        BY <2>1, <4>1, <4>2
    <3>2. CASE ~(Len(s) < BATCH_SIZE)
      <4>1. /\ buffer' = Cloud!RestOf(s) /\ cloud' = cloud
            /\ flights' = flights \cup {[n |-> seen.flushes + 1, batch |-> Cloud!FirstOf(s), answer |-> None]}
            /\ seen' = [seen EXCEPT !.entries = @ + 1, !.flushes = @ + 1, !.overlap = @ \/ flights # {}]
        BY <1>2, <3>2 DEF Cloud!EntryPushed
      <4>2. t.flushes = seen.flushes /\ t.overlap = seen.overlap
        BY <1>0 DEF SeenRecord
      <4>3. seen' = [t EXCEPT !.flushes = @ + 1, !.overlap = @ \/ flights # {}]
        BY <1>0, <4>1 DEF SeenRecord
      <4>4. seen'.late = seen.late /\ seen'.refused = seen.refused
        BY <1>0, <4>1 DEF SeenRecord
      <4> HIDE DEF s, t
      <4>5. UploadOK(Cloud!RestOf(s),
                     flights \cup {[n |-> t.flushes + 1, batch |-> Cloud!FirstOf(s), answer |-> None]},
                     cloud, [t EXCEPT !.flushes = @ + 1, !.overlap = @ \/ flights # {}])
        BY <2>1, FlushKeeps
      <4> QED
        BY <4>1, <4>2, <4>3, <4>4, <4>5
    <3> QED
      BY <3>1, <3>2
  <2>3. UNCHANGED <<token, features, stored, refresh, signout, polls, timer, gap>>
    BY <1>2 DEF Cloud!EntryPushed
  <2> HIDE DEF s, t
  <2> QED
    BY <2>2, <2>3 DEF SignInTypeOK, SignInOK
<1>3. CASE Cloud!TimerFired
  <2>1. Cloud!Flushes(buffer) /\ UNCHANGED <<token, features, stored, refresh, signout, polls, timer, cloud, gap>>
    BY <1>3 DEF Cloud!TimerFired
  <2>2. UploadOK(buffer, flights, cloud, seen)' /\ seen'.late = seen.late /\ seen'.refused = seen.refused
    BY <2>1, FlushesKeep
  <2> QED
    BY <2>1, <2>2 DEF SignInTypeOK, SignInOK
<1>4. ASSUME NEW f \in flights, NEW taken \in BOOLEAN, NEW answer \in {"ok", "error"}, Cloud!Posted(f, taken, answer)
      PROVE  CloudInv'
  <2>1. /\ f.answer = None /\ (answer = "ok" => taken)
        /\ cloud' = (IF taken THEN cloud \o f.batch ELSE cloud)
        /\ flights' = (flights \ {f}) \cup {[f EXCEPT !.answer = answer]}
        /\ seen' = (IF taken /\ answer = "error" THEN [seen EXCEPT !.twice = @ \cup Cloud!Range(f.batch)] ELSE seen)
        /\ UNCHANGED <<token, features, stored, refresh, signout, polls, timer, buffer, gap>>
    BY <1>4 DEF Cloud!Posted
  <2>2. UploadOK(buffer', flights', cloud', seen')
    BY <1>0, <2>1, PostedKeeps
  <2>3. seen'.late = seen.late /\ seen'.refused = seen.refused
    BY <1>0, <2>1 DEF SeenRecord
  <2> QED
    BY <2>1, <2>2, <2>3 DEF SignInTypeOK, SignInOK
<1>5. ASSUME NEW f \in flights, Cloud!PostAnswered(f) PROVE CloudInv'
  <2>1. UNCHANGED <<token, features, stored, refresh, signout, polls, timer, cloud, gap>> /\ flights' = flights \ {f}
    BY <1>5 DEF Cloud!PostAnswered
  <2>2. UploadOK(buffer', flights', cloud', seen') /\ seen'.late = seen.late /\ seen'.refused = seen.refused
    <3>1. CASE f.answer = "ok"
      <4>1. buffer' = buffer /\ seen' = seen
        BY <1>5, <3>1 DEF Cloud!PostAnswered
      <4> QED
        BY <1>0, <2>1, <3>1, <4>1, DoneKeeps
    <3>2. CASE f.answer # "ok" /\ Len(buffer) < MAX_BUFFER
      <4>1. buffer' = Cloud!PutBack(f.batch, buffer) /\ seen' = seen
        BY <1>5, <3>2 DEF Cloud!PostAnswered
      <4>2. UploadOK(Cloud!PutBack(f.batch, buffer), flights \ {f}, cloud, seen)
        BY <1>0, <3>2, PutBackKeeps
      <4> QED
        BY <2>1, <4>1, <4>2
    <3>3. CASE f.answer # "ok" /\ ~(Len(buffer) < MAX_BUFFER)
      <4>1. buffer' = buffer /\ seen' = [seen EXCEPT !.dropped = @ \cup Cloud!Range(f.batch)]
        BY <1>5, <3>3 DEF Cloud!PostAnswered
      <4>2. UploadOK(buffer, flights \ {f}, cloud, [seen EXCEPT !.dropped = @ \cup Cloud!Range(f.batch)])
        BY <1>0, DropKeeps
      <4>3. seen'.late = seen.late /\ seen'.refused = seen.refused
        BY <1>0, <4>1 DEF SeenRecord
      <4> QED
        BY <2>1, <4>1, <4>2, <4>3
    <3> QED
      BY <3>1, <3>2, <3>3
  <2> QED
    BY <2>1, <2>2 DEF SignInTypeOK, SignInOK
<1>6. ASSUME NEW answer \in {"on", "off", "none", "unauthorized", "error"}, Cloud!RefreshServed(answer) PROVE CloudInv'
  <2>1. UploadOK(buffer, flights, cloud, seen)'
    BY <1>0, <1>6 DEF Cloud!RefreshServed
  <2>2. SignInTypeOK' /\ SignInOK'
    BY <1>6 DEF Cloud!RefreshServed, SignInTypeOK, SignInOK
  <2> QED
    BY <2>1, <2>2
<1>7. CASE Cloud!RefreshApplied
  <2>1. PICK lag \in BOOLEAN : lag = (seen.late \/ signout = "clearing")
    BY <1>0
  <2>2. seen' = [seen EXCEPT !.late = lag, !.refused = seen.refused, !.logins = seen.logins, !.gaps = seen.gaps]
    <3>1. seen' = [seen EXCEPT !.late = lag]
      BY <1>0, <1>7, <2>1 DEF Cloud!RefreshApplied, SeenRecord
    <3> QED
      BY <1>0, <3>1 DEF SeenRecord
  <2>3. UNCHANGED <<buffer, flights, cloud>>
    BY <1>7 DEF Cloud!RefreshApplied
  <2>4. UploadOK(buffer, flights, cloud, seen)' /\ seen'.late = lag /\ seen'.refused = seen.refused
    BY <1>0, <2>2, <2>3, LateKeeps
  <2>5. SignInTypeOK'
    BY <1>7 DEF Cloud!RefreshApplied, SignInTypeOK, Cloud!Applied
  <2>6. SignInOK'
    BY <1>7, <2>1, <2>4 DEF Cloud!RefreshApplied, SignInTypeOK, SignInOK, Cloud!Applied
  <2> QED
    BY <2>4, <2>5, <2>6
<1>8. ASSUME NEW cleared \in BOOLEAN, Cloud!RefreshRejected(cleared) PROVE CloudInv'
  <2>1. seen' = [seen EXCEPT !.late = TRUE, !.refused = seen.refused, !.logins = seen.logins, !.gaps = seen.gaps]
    <3>1. seen' = [seen EXCEPT !.late = TRUE]
      BY <1>8 DEF Cloud!RefreshRejected
    <3> QED
      BY <1>0, <3>1 DEF SeenRecord
  <2>2. UNCHANGED <<buffer, flights, cloud>>
    BY <1>8 DEF Cloud!RefreshRejected
  <2>3. UploadOK(buffer, flights, cloud, seen)' /\ seen'.late
    BY <1>0, <2>1, <2>2, LateKeeps
  <2>4. SignInTypeOK'
    BY <1>8 DEF Cloud!RefreshRejected, SignInTypeOK
  <2>5. SignInOK'
    BY <2>3 DEF SignInOK
  <2> QED
    BY <2>3, <2>4, <2>5
<1>9. ASSUME NEW u \in Users, Cloud!LinkFollowed(u) PROVE CloudInv'
  <2>1. seen' = [seen EXCEPT !.late = seen.late, !.refused = seen.refused, !.logins = seen.logins + 1, !.gaps = seen.gaps]
    <3>1. seen' = [seen EXCEPT !.logins = seen.logins + 1]
      BY <1>0, <1>9 DEF Cloud!LinkFollowed, SeenRecord
    <3> QED
      BY <1>0, <3>1 DEF SeenRecord
  <2>2. UNCHANGED <<buffer, flights, cloud>>
    BY <1>9 DEF Cloud!LinkFollowed
  <2>3. UploadOK(buffer, flights, cloud, seen)' /\ seen'.late = seen.late /\ seen'.refused = seen.refused
    <3>1. seen.logins + 1 \in Nat
      BY <1>0
    <3> QED
      BY <1>0, <2>1, <2>2, <3>1, LateKeeps
  <2>4. SignInTypeOK' /\ SignInOK'
    BY <1>9, <2>3 DEF Cloud!LinkFollowed, SignInTypeOK, SignInOK
  <2> QED
    BY <2>3, <2>4
<1>10. ASSUME NEW u \in Users, NEW flags \in {"on", "off", "none"}, NEW kept \in BOOLEAN,
              Cloud!PollAnswered(u, flags, kept)
       PROVE  CloudInv'
  <2>1. PICK lag \in BOOLEAN : lag = (seen.late \/ refresh # "over" \/ signout = "clearing"
                                            \/ (kept /\ flags = "none" /\ features))
    BY <1>0
  <2>2. PICK refused \in BOOLEAN : refused = (seen.refused /\ ~kept)
    BY <1>0 DEF SignInTypeOK
  <2>3. seen' = [seen EXCEPT !.late = lag, !.refused = refused, !.logins = seen.logins, !.gaps = seen.gaps]
    <3>1. seen' = [seen EXCEPT !.late = lag, !.refused = refused]
      BY <1>0, <1>10, <2>1, <2>2 DEF Cloud!PollAnswered, SeenRecord
    <3> QED
      BY <1>0, <3>1 DEF SeenRecord
  <2>4. UNCHANGED <<buffer, flights, cloud>>
    BY <1>10 DEF Cloud!PollAnswered
  <2>5. UploadOK(buffer, flights, cloud, seen)' /\ seen'.late = lag /\ seen'.refused = refused
    BY <1>0, <2>3, <2>4, LateKeeps
  <2>6. u # None
    BY ServicesAssumption
  <2>7. SignInTypeOK'
    BY <1>10 DEF Cloud!PollAnswered, SignInTypeOK, Cloud!Applied
  <2>8. SignInOK'
    <3>1. CASE ~kept
      BY <1>10, <2>1, <2>2, <2>5, <3>1 DEF Cloud!PollAnswered, SignInOK
    <3>2. CASE kept /\ flags = "none"
      BY <1>10, <2>1, <2>2, <2>5, <2>6, <3>2 DEF Cloud!PollAnswered, SignInTypeOK, SignInOK
    <3>3. CASE kept /\ flags # "none"
      BY <1>10, <2>1, <2>2, <2>5, <2>6, <3>3 DEF Cloud!PollAnswered, SignInTypeOK, SignInOK, Cloud!Applied
    <3> QED
      BY <3>1, <3>2, <3>3
  <2> QED
    BY <2>5, <2>7, <2>8
<1>11. CASE Cloud!LogoutClicked
  <2>1. /\ Cloud!Flushes(buffer) /\ cloud' = cloud /\ signout' = "clearing" /\ timer' = FALSE
        /\ UNCHANGED <<token, features, stored, refresh, polls, gap>>
    BY <1>11 DEF Cloud!LogoutClicked, Cloud!TimerAfterLogout
  <2>2. UploadOK(buffer, flights, cloud, seen)' /\ seen'.late = seen.late /\ seen'.refused = seen.refused
    BY <2>1, FlushesKeep
  <2> QED
    BY <2>1, <2>2 DEF SignInTypeOK, SignInOK
<1>12. ASSUME NEW cleared \in BOOLEAN, Cloud!LogoutServed(cleared) PROVE CloudInv'
  <2>0. /\ UNCHANGED <<buffer, flights, cloud, refresh, polls, timer, gap>>
        /\ signout = "clearing" /\ signout' = "none"
    BY <1>12 DEF Cloud!LogoutServed
  <2>1. CASE ~cleared
    <3>1. seen' = [seen EXCEPT !.late = seen.late, !.refused = TRUE, !.logins = seen.logins, !.gaps = seen.gaps]
      <4>1. seen' = [seen EXCEPT !.refused = TRUE]
        BY <1>12, <2>1 DEF Cloud!LogoutServed
      <4> QED
        BY <1>0, <4>1 DEF SeenRecord
    <3>2. UploadOK(buffer, flights, cloud, seen)' /\ seen'.late = seen.late /\ seen'.refused
      BY <1>0, <2>0, <3>1, LateKeeps
    <3>3. UNCHANGED <<token, features, stored>>
      BY <1>12, <2>1 DEF Cloud!LogoutServed
    <3> QED
      BY <2>0, <3>2, <3>3 DEF SignInTypeOK, SignInOK
  <2>2. CASE cleared
    <3>1. PICK lag \in BOOLEAN : lag = (seen.late \/ refresh # "over")
      BY <1>0
    <3>2. seen' = [seen EXCEPT !.late = lag, !.refused = FALSE, !.logins = seen.logins, !.gaps = seen.gaps]
      <4>1. seen' = [seen EXCEPT !.late = lag, !.refused = FALSE]
        BY <1>0, <1>12, <2>2, <3>1 DEF Cloud!LogoutServed, SeenRecord
      <4> QED
        BY <1>0, <4>1 DEF SeenRecord
    <3>3. UploadOK(buffer, flights, cloud, seen)' /\ seen'.late = lag
      BY <1>0, <2>0, <3>2, LateKeeps
    <3>4. token' = None /\ features' = FALSE /\ stored' = "none"
      BY <1>12, <2>2 DEF Cloud!LogoutServed
    <3> QED
      BY <2>0, <3>1, <3>3, <3>4 DEF SignInTypeOK, SignInOK
  <2> QED
    BY <2>1, <2>2
<1>13. CASE Cloud!GapSwitched
  <2>1. seen' = [seen EXCEPT !.late = seen.late, !.refused = seen.refused, !.logins = seen.logins, !.gaps = seen.gaps + 1]
    <3>1. seen' = [seen EXCEPT !.gaps = seen.gaps + 1]
      BY <1>0, <1>13 DEF Cloud!GapSwitched, SeenRecord
    <3> QED
      BY <1>0, <3>1 DEF SeenRecord
  <2>2. UNCHANGED <<buffer, flights, cloud>>
    BY <1>13 DEF Cloud!GapSwitched
  <2>3. UploadOK(buffer, flights, cloud, seen)' /\ seen'.late = seen.late /\ seen'.refused = seen.refused
    <3>1. seen.gaps + 1 \in Nat
      BY <1>0
    <3> QED
      BY <1>0, <2>1, <2>2, <3>1, LateKeeps
  <2>4. SignInTypeOK' /\ SignInOK'
    BY <1>13, <2>3 DEF Cloud!GapSwitched, SignInTypeOK, SignInOK
  <2> QED
    BY <2>3, <2>4
<1> QED
  BY <1>1, <1>2, <1>3, <1>4, <1>5, <1>6, <1>7, <1>8, <1>9, <1>10, <1>11, <1>12, <1>13 DEF Cloud!CloudNext

LEMMA CloudSuffices == CloudInv => Cloud!EntriesAreKept /\ Cloud!UploadFollowsSignIn
<1> SUFFICES ASSUME CloudInv PROVE Cloud!EntriesAreKept /\ Cloud!UploadFollowsSignIn
  OBVIOUS
<1>0. /\ UploadTypeOK(buffer, flights, cloud, seen) /\ Accounted(buffer, flights, cloud, seen)
      /\ NotAgain(buffer, flights, cloud, seen) /\ InTurn(buffer, flights, cloud, seen)
  BY DEF CloudInv, UploadOK
<1>1. ASSUME NEW e \in 1 .. seen.entries
      PROVE  e \in Cloud!Range(buffer) \cup Cloud!InFlight \cup seen.dropped \/ e \in Cloud!Range(cloud)
  <2>1. e \in In(buffer) \cup In(cloud) \cup seen.dropped \/ \E f \in flights : e \in In(f.batch)
    BY <1>0 DEF Accounted
  <2> QED
    BY <2>1 DEF In, Cloud!InFlight
<1>2. ASSUME NEW e \in Cloud!Range(cloud), Cloud!Times(e) > 1 PROVE e \in seen.twice
  <2> DEFINE at == {i \in DOMAIN cloud : cloud[i] = e}
  <2>1. PICK i \in DOMAIN cloud : cloud[i] = e
    BY DEF Cloud!Range
  <2>2. \E j \in at : j # i
    <3> SUFFICES ASSUME at = {i} PROVE FALSE
      BY <2>1
    <3>1. Cardinality(at) = 1
      BY FS_Singleton
    <3>2. \A S : Cloud!Cardinality(S) = Cardinality(S)
      BY DEF Cloud!Cardinality, Cardinality
    <3> QED
      BY <1>2, <3>1, <3>2 DEF Cloud!Times
  <2>3. PICK j \in DOMAIN cloud : j # i /\ cloud[j] = e
    BY <2>2
  <2> QED
    BY <1>0, <2>1, <2>3 DEF NotAgain
<1>3. Cloud!EntriesAreKept
  BY <1>0, <1>1, <1>2 DEF Cloud!EntriesAreKept, InTurn
<1>4. Cloud!UploadFollowsSignIn
  BY DEF CloudInv, SignInTypeOK, SignInOK, Cloud!UploadFollowsSignIn, Cloud!Settled
<1> QED
  BY <1>3, <1>4

-----------------------------------------------------------------------------
(***************************************************************************)
(* The documents and the history of their objects.                         *)
(***************************************************************************)

Row == [object : Objects, text : Text, reason : {"baseline", "compile"}, commit : Nat,
        label : Labels \cup {None}, truth : BOOLEAN]

VersionsTypeOK ==
  /\ rows \in Seq(Row) /\ commits \in Seq([Objects -> Text \cup {None}])
  /\ index \in [Objects -> Text \cup {None}] /\ tags \in [Objects \X Labels -> Nat]
  /\ spoilt \in [objects : SUBSET Objects, rows : SUBSET Nat, tags : SUBSET (Objects \X Labels)]

RowsOK ==
  /\ \A i \in DOMAIN rows : rows[i].commit \in 1 .. Len(commits)
  /\ Doc!RowsAreCommits

(* What the next commit takes from the index is of the newest row, too.    *)
BranchOK ==
  \A o \in Objects \ spoilt.objects : \A i \in Doc!RowsOf(o) :
    Doc!Newest(i, o) => index[o] = rows[i].text /\ Doc!Last(commits)[o] = rows[i].text

VersionsInv == VersionsTypeOK /\ RowsOK /\ BranchOK /\ Doc!TagsAreLabels

LEMMA VersionsStart == Doc!VersionsInit => VersionsInv
<1> SUFFICES ASSUME Doc!VersionsInit PROVE VersionsInv
  OBVIOUS
<1>1. rows = <<>> /\ DOMAIN rows = {} /\ commits = <<>>
  BY DEF Doc!VersionsInit
<1>2. VersionsTypeOK
  BY <1>1 DEF Doc!VersionsInit, VersionsTypeOK
<1>3. RowsOK /\ BranchOK
  BY <1>1 DEF RowsOK, BranchOK, Doc!RowsAreCommits, Doc!RowsOf
<1>4. Doc!TagsAreLabels
  <2>1. \A p \in Objects \X Labels : tags[p] = 0
    BY DEF Doc!VersionsInit
  <2>2. DOMAIN tags = Objects \X Labels
    BY DEF Doc!VersionsInit
  <2> QED
    BY <1>1, <2>1, <2>2 DEF Doc!TagsAreLabels
<1> QED
  BY <1>2, <1>3, <1>4 DEF VersionsInv

(* A capture stops before its row, or adds the row it stands for.          *)
LEMMA CapturedKeeps ==
  ASSUME VersionsInv, NEW o \in Objects, NEW x \in Text, NEW reason \in {"baseline", "compile"},
         NEW truth \in BOOLEAN, NEW stop \in {"none", "write", "commit", "insert"},
         Doc!Captured(o, x, reason, truth, stop)
  PROVE  /\ VersionsInv'
         /\ \/ rows' = rows
            \/ \E r \in Row : /\ rows' = Append(rows, r) /\ r.object = o /\ r.text = x
                              /\ r.reason = reason /\ r.truth = truth
<1>0. /\ rows \in Seq(Row) /\ commits \in Seq([Objects -> Text \cup {None}])
      /\ index \in [Objects -> Text \cup {None}] /\ tags \in [Objects \X Labels -> Nat]
      /\ spoilt \in [objects : SUBSET Objects, rows : SUBSET Nat, tags : SUBSET (Objects \X Labels)]
      /\ RowsOK /\ BranchOK /\ Doc!TagsAreLabels
  BY DEF VersionsInv, VersionsTypeOK
<1>a. /\ Len(rows) \in Nat /\ DOMAIN rows = 1 .. Len(rows) /\ Len(commits) \in Nat
      /\ DOMAIN commits = 1 .. Len(commits) /\ \A i \in DOMAIN rows : rows[i] \in Row
  BY <1>0
<1>1. CASE UNCHANGED <<rows, commits, index, tags, spoilt>>
  <2>1. VersionsTypeOK'
    BY <1>0, <1>1 DEF VersionsTypeOK
  <2>2. RowsOK'
    BY <1>0, <1>1 DEF RowsOK, Doc!RowsAreCommits
  <2>3. BranchOK'
    BY <1>0, <1>1 DEF BranchOK, Doc!RowsOf, Doc!Newest, Doc!Last
  <2>4. Doc!TagsAreLabels'
    BY <1>0, <1>1 DEF Doc!TagsAreLabels
  <2> QED
    BY <1>1, <2>1, <2>2, <2>3, <2>4 DEF VersionsInv
<1>2. CASE ~UNCHANGED <<rows, commits, index, tags, spoilt>>
  <2>0. ~Doc!Known(o, x)
    BY <1>2 DEF Doc!Captured, Doc!versionVars
  <2>1. /\ index' = (IF stop = "write" THEN index ELSE [index EXCEPT ![o] = x])
        /\ commits' = (IF stop \in {"write", "commit"} THEN commits ELSE Append(commits, index'))
        /\ tags' = tags
        /\ spoilt' = (IF stop = "none" THEN [spoilt EXCEPT !.objects = @ \ {o}]
                                       ELSE [spoilt EXCEPT !.objects = @ \cup {o}])
    BY <2>0 DEF Doc!Captured, Doc!Staged
  <2>2. index' \in [Objects -> Text \cup {None}] /\ \A p \in Objects \ {o} : index'[p] = index[p]
    BY <1>0, <2>1
  <2>9. /\ Append(commits, index') \in Seq([Objects -> Text \cup {None}])
        /\ Len(Append(commits, index')) = Len(commits) + 1
        /\ \A i \in 1 .. Len(commits) : Append(commits, index')[i] = commits[i]
        /\ Append(commits, index')[Len(commits) + 1] = index'
    <3> DEFINE T == [Objects -> Text \cup {None}]
    <3>1. index' \in T /\ commits \in Seq(T)
      BY <1>0, <2>2
    <3> HIDE DEF T
    <3>2. Append(commits, index') \in Seq(T)
      BY <3>1
    <3> QED
      BY <3>1, <3>2, AppendProperties DEF T
  <2>3. commits' \in Seq([Objects -> Text \cup {None}])
    BY <1>0, <2>1, <2>9
  <2>4. /\ spoilt' \in [objects : SUBSET Objects, rows : SUBSET Nat, tags : SUBSET (Objects \X Labels)] /\ spoilt'.rows = spoilt.rows /\ spoilt'.tags = spoilt.tags
        /\ Objects \ spoilt'.objects \subseteq (Objects \ spoilt.objects) \cup {o}
        /\ stop # "none" => o \in spoilt'.objects
    BY <1>0, <2>1
  <2>5. /\ Len(commits') \in Nat /\ Len(commits) <= Len(commits')
        /\ \A i \in 1 .. Len(commits) : commits'[i] = commits[i]
        /\ commits' # commits => Len(commits') = Len(commits) + 1 /\ commits'[Len(commits')] = index'
    <3>1. CASE stop \in {"write", "commit"}
      BY <1>a, <2>1, <3>1
    <3>2. CASE ~(stop \in {"write", "commit"})
      <4>1. commits' = Append(commits, index')
        BY <2>1, <3>2
      <4>2. Len(commits') = Len(commits) + 1 /\ commits'[Len(commits) + 1] = index'
            /\ \A i \in 1 .. Len(commits) : commits'[i] = commits[i]
        BY <2>9, <4>1
      <4> QED
        BY <1>a, <4>2
    <3> QED
      BY <3>1, <3>2
  <2>6. CASE stop # "none"
    <3>1. rows' = rows
      BY <2>0, <2>6 DEF Doc!Captured
    <3>2. VersionsTypeOK'
      BY <1>0, <2>1, <2>2, <2>3, <2>4, <3>1 DEF VersionsTypeOK
    <3>3. RowsOK'
      <4>1. \A i \in DOMAIN rows : rows[i].commit \in 1 .. Len(commits') /\ rows[i].commit \in 1 .. Len(commits)
        BY <1>0, <1>a, <2>5 DEF RowsOK
      <4> QED
        BY <1>0, <2>5, <3>1, <4>1 DEF RowsOK, Doc!RowsAreCommits
    <3>4. BranchOK'
      <4> SUFFICES ASSUME NEW p \in Objects \ spoilt'.objects, NEW i \in Doc!RowsOf(p)', Doc!Newest(i, p)'
                   PROVE  index'[p] = rows[i].text /\ Doc!Last(commits')[p] = rows[i].text
        BY <3>1 DEF BranchOK, Doc!Last
      <4>1. p # o /\ p \in Objects \ spoilt.objects
        BY <2>4, <2>6
      <4>2. i \in Doc!RowsOf(p) /\ Doc!Newest(i, p)
        BY <3>1 DEF Doc!RowsOf, Doc!Newest
      <4>3. index[p] = rows[i].text /\ commits[Len(commits)][p] = rows[i].text
        BY <1>0, <4>1, <4>2 DEF BranchOK, Doc!Last
      <4>4. index'[p] = rows[i].text
        BY <2>2, <4>1, <4>3
      <4>5. commits'[Len(commits')][p] = rows[i].text
        BY <2>5, <4>3, <4>4
      <4> QED
        BY <4>4, <4>5 DEF Doc!Last
    <3>5. Doc!TagsAreLabels'
      BY <1>0, <2>1, <2>4, <3>1 DEF Doc!TagsAreLabels
    <3> QED
      BY <3>1, <3>2, <3>3, <3>4, <3>5 DEF VersionsInv
  <2>7. CASE stop = "none"
    <3> DEFINE r == [object |-> o, text |-> x, reason |-> reason, commit |-> Len(commits'),
                     label |-> None, truth |-> truth]
    <3>1. rows' = Append(rows, r)
      BY <2>0, <2>7 DEF Doc!Captured
    <3>2. /\ r \in Row /\ r.object = o /\ r.text = x /\ r.reason = reason /\ r.truth = truth
          /\ r.commit = Len(commits') /\ r.label = None
      BY <2>5 DEF Row
    <3> HIDE DEF r
    <3>3. /\ rows' \in Seq(Row) /\ Len(rows') = Len(rows) + 1 /\ DOMAIN rows' = 1 .. Len(rows) + 1
          /\ rows'[Len(rows) + 1] = r /\ \A i \in DOMAIN rows : rows'[i] = rows[i]
      BY <1>0, <1>a, <3>1, <3>2, AppendProperties
    <3>4. /\ index'[o] = x /\ commits' # commits /\ Len(commits') = Len(commits) + 1
          /\ commits'[Len(commits')] = index'
      <4>1. commits' = Append(commits, index') /\ index' = [index EXCEPT ![o] = x]
        BY <2>1, <2>7
      <4>2. index'[o] = x
        BY <1>0, <4>1
      <4>3. Len(commits') = Len(commits) + 1 /\ commits'[Len(commits')] = index'
        BY <2>9, <4>1
      <4> QED
        BY <1>a, <4>2, <4>3
    <3>5. VersionsTypeOK'
      BY <1>0, <2>1, <2>2, <2>3, <2>4, <3>3 DEF VersionsTypeOK
    <3>6. RowsOK'
      <4>1. \A i \in DOMAIN rows : /\ rows[i].commit \in 1 .. Len(commits') /\ rows[i].commit \in 1 .. Len(commits)
                                   /\ rows[i].commit < Len(commits')
        BY <1>0, <1>a, <2>5, <3>4 DEF RowsOK
      <4>2. \A i \in DOMAIN rows' : i \in DOMAIN rows \/ i = Len(rows) + 1
        BY <1>a, <3>3
      <4>3. ASSUME NEW i \in DOMAIN rows'
            PROVE  rows'[i].commit \in 1 .. Len(commits') /\ commits'[rows'[i].commit][rows'[i].object] = rows'[i].text
        <5>1. CASE i \in DOMAIN rows
          BY <1>0, <2>5, <3>3, <4>1, <5>1 DEF RowsOK, Doc!RowsAreCommits
        <5>2. CASE i = Len(rows) + 1
          <6>1. Len(commits') \in 1 .. Len(commits')
            BY <1>a, <3>4
          <6> QED
            BY <3>2, <3>3, <3>4, <5>2, <6>1
        <5> QED
          BY <4>2, <5>1, <5>2
      <4>4. ASSUME NEW i \in DOMAIN rows', NEW j \in DOMAIN rows', i < j PROVE rows'[i].commit < rows'[j].commit
        <5>1. i \in DOMAIN rows
          BY <1>a, <3>3, <4>4
        <5>2. CASE j \in DOMAIN rows
          BY <1>0, <3>3, <4>4, <5>1, <5>2 DEF RowsOK, Doc!RowsAreCommits
        <5>3. CASE j = Len(rows) + 1
          BY <3>2, <3>3, <4>1, <5>1, <5>3
        <5> QED
          BY <4>2, <5>2, <5>3
      <4> QED
        BY <4>3, <4>4 DEF RowsOK, Doc!RowsAreCommits
    <3>7. BranchOK'
      <4> SUFFICES ASSUME NEW p \in Objects \ spoilt'.objects, NEW i \in Doc!RowsOf(p)', Doc!Newest(i, p)'
                   PROVE  index'[p] = rows'[i].text /\ commits'[Len(commits')][p] = rows'[i].text
        BY DEF BranchOK, Doc!Last
      <4>0. i \in DOMAIN rows' /\ rows'[i].object = p
        BY DEF Doc!RowsOf
      <4>1. CASE p = o
        <5>1. Len(rows) + 1 \in Doc!RowsOf(o)'
          BY <1>a, <3>2, <3>3 DEF Doc!RowsOf
        <5>2. i >= Len(rows) + 1
          BY <1>a, <3>3, <4>0, <4>1, <5>1 DEF Doc!Newest
        <5>3. i = Len(rows) + 1
          BY <1>a, <3>3, <4>0, <5>2
        <5> QED
          BY <3>2, <3>3, <3>4, <4>1, <5>3
      <4>2. CASE p # o
        <5>1. p \in Objects \ spoilt.objects
          BY <2>4, <4>2
        <5>2. i \in DOMAIN rows /\ rows'[i] = rows[i]
          BY <1>a, <3>2, <3>3, <4>0, <4>2
        <5>3. Doc!RowsOf(p) \subseteq Doc!RowsOf(p)'
          BY <1>a, <3>3 DEF Doc!RowsOf
        <5>4. i \in Doc!RowsOf(p) /\ Doc!Newest(i, p)
          BY <4>0, <5>2, <5>3 DEF Doc!RowsOf, Doc!Newest
        <5>5. index[p] = rows[i].text
          BY <1>0, <5>1, <5>4 DEF BranchOK
        <5> QED
          BY <2>2, <3>4, <4>2, <5>2, <5>5
      <4> QED
        BY <4>1, <4>2
    <3>8. Doc!TagsAreLabels'
      <4>1. \A i \in DOMAIN rows' : rows'[i].label # None => i \in DOMAIN rows /\ rows'[i] = rows[i]
        BY <1>a, <3>2, <3>3
      <4>2. DOMAIN rows \subseteq DOMAIN rows'
        BY <1>a, <3>3
      <4>3. ASSUME NEW p \in DOMAIN tags' \ spoilt'.tags, tags'[p] # 0
            PROVE  \E i \in DOMAIN rows' : /\ rows'[i].object = p[1] /\ rows'[i].label = p[2]
                                           /\ rows'[i].commit = tags'[p]
        <5>1. PICK i \in DOMAIN rows : /\ rows[i].object = p[1] /\ rows[i].label = p[2]
                                       /\ rows[i].commit = tags[p]
          BY <1>0, <2>1, <2>4, <4>3 DEF Doc!TagsAreLabels
        <5> QED
          BY <2>1, <3>3, <4>2, <5>1
      <4>4. ASSUME NEW i \in DOMAIN rows', rows'[i].label # None, i \notin spoilt'.rows
            PROVE  tags'[<<rows'[i].object, rows'[i].label>>] = rows'[i].commit
        <5>1. i \in DOMAIN rows /\ rows'[i] = rows[i] /\ i \notin spoilt.rows
          BY <2>4, <4>1, <4>4
        <5>2. tags[<<rows[i].object, rows[i].label>>] = rows[i].commit
          BY <1>0, <4>4, <5>1 DEF Doc!TagsAreLabels
        <5> QED
          BY <2>1, <5>1, <5>2
      <4> QED
        BY <4>3, <4>4 DEF Doc!TagsAreLabels
    <3> QED
      BY <3>1, <3>2, <3>5, <3>6, <3>7, <3>8 DEF VersionsInv
  <2> QED
    BY <2>6, <2>7
<1> QED
  BY <1>1, <1>2

(* A label changes its row's label, and tags of its row's object.          *)
LEMMA LabelledKeeps ==
  ASSUME VersionsInv, NEW i \in DOMAIN rows, NEW l \in Labels \cup {None},
         NEW stop \in {"none", "delete", "update"}, NEW kept \in BOOLEAN,
         Doc!Labelled(i, l, stop, kept)
  PROVE  /\ VersionsInv' /\ DOMAIN rows' = DOMAIN rows
         /\ \A k \in DOMAIN rows : /\ rows'[k].object = rows[k].object /\ rows'[k].text = rows[k].text
                                   /\ rows'[k].reason = rows[k].reason /\ rows'[k].truth = rows[k].truth
<1> DEFINE o == rows[i].object
           lo == rows[i].label
           old == IF kept THEN tags ELSE Doc!Untagged(o, lo)
           taken == l # None /\ (l \in BadLabels \/ old[<<o, l>>] # 0)
<1>0. /\ rows \in Seq(Row) /\ commits \in Seq([Objects -> Text \cup {None}])
      /\ index \in [Objects -> Text \cup {None}] /\ tags \in [Objects \X Labels -> Nat]
      /\ spoilt \in [objects : SUBSET Objects, rows : SUBSET Nat, tags : SUBSET (Objects \X Labels)]
      /\ RowsOK /\ BranchOK /\ Doc!TagsAreLabels
  BY DEF VersionsInv, VersionsTypeOK
<1>a. /\ Len(rows) \in Nat /\ DOMAIN rows = 1 .. Len(rows) /\ Len(commits) \in Nat
      /\ \A k \in DOMAIN rows : rows[k] \in Row
  BY <1>0
<1>b. \A k \in DOMAIN rows : /\ rows[k].object \in Objects /\ rows[k].label \in Labels \cup {None}
                             /\ rows[k].commit \in Nat \ {0}
  <2>1. \A k \in DOMAIN rows : rows[k].commit # 0
    BY <1>0, <1>a DEF RowsOK
  <2> QED
    BY <1>a, <2>1 DEF Row
<1>c. None \notin Labels
  BY ServicesAssumption
<1>1. /\ kept => lo # None
      /\ rows' = (IF stop = "delete" THEN rows ELSE [rows EXCEPT ![i].label = l])
      /\ tags' = (IF stop # "none" \/ l = None \/ taken THEN old
                  ELSE [old EXCEPT ![<<o, l>>] = rows[i].commit])
      /\ spoilt' = [spoilt EXCEPT !.rows = (IF stop = "none" /\ ~taken THEN @ \ {i} ELSE @ \cup {i})
                                             \cup {k \in DOMAIN rows \ {i} : Doc!Shares(k, i)},
                                    !.tags = IF kept THEN @ \cup {<<o, lo>>} ELSE @ \ {<<o, lo>>}]
      /\ commits' = commits /\ index' = index
  BY DEF Doc!Labelled
<1>2. /\ rows' \in Seq(Row) /\ DOMAIN rows' = DOMAIN rows
      /\ \A k \in DOMAIN rows : /\ rows'[k].object = rows[k].object /\ rows'[k].text = rows[k].text
                                /\ rows'[k].reason = rows[k].reason /\ rows'[k].truth = rows[k].truth
                                /\ rows'[k].commit = rows[k].commit
                                /\ k # i \/ stop = "delete" => rows'[k].label = rows[k].label
      /\ stop # "delete" => rows'[i].label = l
  <2>1. CASE stop = "delete"
    BY <1>0, <1>1, <2>1
  <2>2. CASE stop # "delete"
    <3> DEFINE r == [rows[i] EXCEPT !.label = l]
    <3>1. rows' = [rows EXCEPT ![i] = r]
      BY <1>1, <2>2
    <3>2. /\ r \in Row /\ r.object = rows[i].object /\ r.text = rows[i].text /\ r.reason = rows[i].reason
          /\ r.truth = rows[i].truth /\ r.commit = rows[i].commit /\ r.label = l
      BY <1>a DEF Row
    <3> HIDE DEF r
    <3>3. rows' \in Seq(Row) /\ DOMAIN rows' = DOMAIN rows
      BY <1>0, <3>1, <3>2
    <3>4. rows'[i] = r /\ \A k \in DOMAIN rows : k # i => rows'[k] = rows[k]
      BY <1>0, <3>1
    <3> QED
      BY <2>2, <3>2, <3>3, <3>4
  <2> QED
    BY <2>1, <2>2
<1>3. /\ old \in [Objects \X Labels -> Nat]
      /\ \A p \in Objects \X Labels : p # <<o, lo>> => old[p] = tags[p]
      /\ \A p \in Objects \X Labels : p = <<o, lo>> /\ ~kept => old[p] = 0
  <2>0. CASE kept
    BY <1>0, <2>0
  <2>1. CASE ~kept /\ lo = None
    <3>1. old = tags
      BY <2>1 DEF Doc!Untagged
    <3>2. \A p \in Objects \X Labels : p # <<o, lo>>
      BY <1>c, <2>1
    <3> HIDE DEF old, lo
    <3> QED
      BY <1>0, <3>1, <3>2
  <2>2. CASE ~kept /\ lo # None
    <3>1. old = [tags EXCEPT ![<<o, lo>>] = 0]
      BY <2>2 DEF Doc!Untagged
    <3> HIDE DEF old, lo, o
    <3> QED
      BY <1>0, <3>1
  <2> QED
    BY <2>0, <2>1, <2>2
<1>4. /\ tags' \in [Objects \X Labels -> Nat]
      /\ \A p \in Objects \X Labels :
           \/ tags'[p] = old[p]
           \/ p = <<o, l>> /\ tags'[p] = rows[i].commit /\ stop = "none" /\ old[p] = 0
      /\ stop = "none" /\ ~taken /\ l # None => tags'[<<o, l>>] = rows[i].commit
  <2>1. CASE stop # "none" \/ l = None \/ taken
    BY <1>1, <1>3, <2>1
  <2>2. CASE ~(stop # "none" \/ l = None \/ taken)
    <3>1. tags' = [old EXCEPT ![<<o, l>>] = rows[i].commit] /\ stop = "none" /\ old[<<o, l>>] = 0 /\ l # None
      BY <1>1, <2>2
    <3>2. <<o, l>> \in Objects \X Labels /\ rows[i].commit \in Nat
      BY <1>b, <3>1
    <3> HIDE DEF old, o, taken
    <3> QED
      BY <1>3, <3>1, <3>2
  <2> QED
    BY <2>1, <2>2
<1>5. /\ spoilt' \in [objects : SUBSET Objects, rows : SUBSET Nat, tags : SUBSET (Objects \X Labels)] /\ spoilt'.objects = spoilt.objects
      /\ spoilt.tags \ {<<o, lo>>} \subseteq spoilt'.tags /\ (kept => <<o, lo>> \in spoilt'.tags)
      /\ \A k \in DOMAIN rows : k # i /\ k \notin spoilt'.rows => k \notin spoilt.rows /\ ~Doc!Shares(k, i)
      /\ i \notin spoilt'.rows => stop = "none" /\ ~taken
  <2> DEFINE S == IF stop = "none" /\ ~taken THEN spoilt.rows \ {i} ELSE spoilt.rows \cup {i}
             T == {k \in DOMAIN rows \ {i} : Doc!Shares(k, i)}
             G == IF kept THEN spoilt.tags \cup {<<o, lo>>} ELSE spoilt.tags \ {<<o, lo>>}
  <2>1. spoilt' = [spoilt EXCEPT !.rows = S \cup T, !.tags = G]
    BY <1>0, <1>1
  <2>g. /\ G \subseteq Objects \X Labels /\ spoilt.tags \ {<<o, lo>>} \subseteq G
        /\ kept => <<o, lo>> \in G
    <3>1. kept => <<o, lo>> \in Objects \X Labels
      BY <1>1, <1>b
    <3>2. spoilt.tags \subseteq Objects \X Labels
      BY <1>0
    <3> HIDE DEF o, lo
    <3> QED
      BY <3>1, <3>2
  <2>2. spoilt.rows \subseteq Nat /\ i \in Nat /\ DOMAIN rows \subseteq Nat
    BY <1>0, <1>a
  <2>3. S \subseteq Nat /\ T \subseteq Nat /\ (i \notin S => stop = "none" /\ ~taken) /\ spoilt.rows \ {i} \subseteq S
    BY <2>2
  <2>4. \A k \in DOMAIN rows : k # i /\ Doc!Shares(k, i) => k \in T
    OBVIOUS
  <2> HIDE DEF S, T, G, taken, o, lo
  <2>5. spoilt' \in [objects : SUBSET Objects, rows : SUBSET Nat, tags : SUBSET (Objects \X Labels)] /\ spoilt'.objects = spoilt.objects
        /\ spoilt'.rows = S \cup T /\ spoilt'.tags = G
    BY <1>0, <2>1, <2>3, <2>g
  <2> QED
    BY <2>3, <2>4, <2>5, <2>g
<1>6. VersionsTypeOK'
  BY <1>0, <1>1, <1>2, <1>4, <1>5 DEF VersionsTypeOK
<1> HIDE DEF old, taken
<1>7. RowsOK'
  BY <1>0, <1>1, <1>2 DEF RowsOK, Doc!RowsAreCommits
<1>8. BranchOK'
  <2> SUFFICES ASSUME NEW p \in Objects \ spoilt'.objects, NEW k \in Doc!RowsOf(p)', Doc!Newest(k, p)'
               PROVE  index'[p] = rows'[k].text /\ Doc!Last(commits)'[p] = rows'[k].text
    BY DEF BranchOK
  <2>1. k \in DOMAIN rows /\ rows[k].object = p /\ rows'[k].text = rows[k].text
    BY <1>2 DEF Doc!RowsOf
  <2>2. Doc!RowsOf(p) \subseteq Doc!RowsOf(p)'
    BY <1>2 DEF Doc!RowsOf
  <2>3. k \in Doc!RowsOf(p) /\ Doc!Newest(k, p)
    BY <2>1, <2>2 DEF Doc!RowsOf, Doc!Newest
  <2>4. p \in Objects \ spoilt.objects
    BY <1>5
  <2>5. index[p] = rows[k].text /\ Doc!Last(commits)[p] = rows[k].text
    BY <1>0, <2>3, <2>4 DEF BranchOK
  <2> QED
    BY <1>1, <2>1, <2>5 DEF Doc!Last
<1>9. Doc!TagsAreLabels'
  <2>1. ASSUME NEW p \in (Objects \X Labels) \ spoilt'.tags, tags'[p] # 0
        PROVE  \E k \in DOMAIN rows' : /\ rows'[k].object = p[1] /\ rows'[k].label = p[2]
                                       /\ rows'[k].commit = tags'[p]
    <3>1. CASE p = <<o, l>> /\ tags'[p] = rows[i].commit /\ stop = "none"
      BY <1>2, <3>1
    <3>2. CASE tags'[p] = old[p]
      <4>1. p # <<o, lo>> /\ tags'[p] = tags[p]
        BY <1>3, <1>5, <2>1, <3>2
      <4>2. PICK k \in DOMAIN rows : rows[k].object = p[1] /\ rows[k].label = p[2] /\ rows[k].commit = tags[p]
        <5>1. DOMAIN tags = Objects \X Labels /\ p \notin spoilt.tags
          BY <1>0, <1>5, <2>1, <4>1
        <5> QED
          BY <1>0, <2>1, <4>1, <5>1 DEF Doc!TagsAreLabels
      <4>3. k # i
        BY <4>1, <4>2
      <4> QED
        BY <1>2, <4>1, <4>2, <4>3
    <3> QED
      BY <1>4, <3>1, <3>2
  <2>2. ASSUME NEW k \in DOMAIN rows', rows'[k].label # None, k \notin spoilt'.rows
        PROVE  tags'[<<rows'[k].object, rows'[k].label>>] = rows'[k].commit
    <3>0. k \in DOMAIN rows
      BY <1>2
    <3>1. CASE k = i
      <4>1. stop = "none" /\ ~taken /\ rows'[k].label = l /\ l # None
        BY <1>2, <1>5, <2>2, <3>1
      <4> QED
        BY <1>2, <1>4, <3>0, <3>1, <4>1
    <3>2. CASE k # i
      <4> DEFINE p == <<rows[k].object, rows[k].label>>
      <4>1. rows'[k].label = rows[k].label /\ rows'[k].object = rows[k].object /\ rows'[k].commit = rows[k].commit
        BY <1>2, <3>0, <3>2
      <4>2. p \in Objects \X Labels
        BY <1>b, <2>2, <3>0, <4>1
      <4>3. k \notin spoilt.rows /\ ~Doc!Shares(k, i)
        BY <1>5, <2>2, <3>0, <3>2
      <4>4. tags[p] = rows[k].commit /\ rows[k].commit # 0
        BY <1>0, <1>b, <2>2, <3>0, <4>1, <4>3 DEF Doc!TagsAreLabels
      <4>5. p # <<o, lo>>
        BY <2>2, <4>1, <4>3 DEF Doc!Shares
      <4>6. old[p] = tags[p]
        BY <1>3, <4>2, <4>5
      <4>7. tags'[p] = old[p]
        BY <1>4, <4>2, <4>4, <4>6
      <4> QED
        BY <4>1, <4>4, <4>6, <4>7
    <3> QED
      BY <3>1, <3>2
  <2>3. DOMAIN tags' = Objects \X Labels
    BY <1>4
  <2> QED
    BY <2>1, <2>2, <2>3 DEF Doc!TagsAreLabels
<1> QED
  BY <1>2, <1>6, <1>7, <1>8, <1>9 DEF VersionsInv

LEMMA VersionsStay ==
  ASSUME VersionsInv, UNCHANGED <<rows, commits, index, tags, spoilt>>
  PROVE  VersionsInv'
<1>1. VersionsTypeOK'
  BY DEF VersionsInv, VersionsTypeOK
<1>2. RowsOK'
  BY DEF VersionsInv, RowsOK, Doc!RowsAreCommits
<1>3. BranchOK'
  BY DEF VersionsInv, BranchOK, Doc!RowsOf, Doc!Newest, Doc!Last
<1>4. Doc!TagsAreLabels'
  BY DEF VersionsInv, Doc!TagsAreLabels
<1> QED
  BY <1>1, <1>2, <1>3, <1>4 DEF VersionsInv

Save == [n : Nat, as : BOOLEAN, text : Text, raced : BOOLEAN, written : {"no", "whole", "part"}]
Run == [n : Nat, object : Objects, text : Text, whole : BOOLEAN, executed : BOOLEAN, raced : BOOLEAN]
Capture == [object : Objects, text : Text, reason : {"baseline", "compile"}, truth : BOOLEAN]
Tab == [text : [Objects -> Text], shown : Objects, file : BOOLEAN, saved : Text \cup {None},
        dirty : BOOLEAN, raced : BOOLEAN]
Source == [text : [Objects -> Text], compiled : SUBSET (Objects \X Text), own : BOOLEAN]

DocTypeOK ==
  /\ doc \in Tab /\ disk \in Text \cup {None}
  /\ saves \subseteq Save /\ runs \subseteq Run /\ captures \subseteq Capture
  /\ source \in Source
  /\ did \in [saves : Nat, runs : Nat, edits : Nat, opens : Nat]

(* A save nothing overlapped is alone, and of the text that is shown; the  *)
(* file is as the last such save left it until another has been written,   *)
(* the whole of it or a part.                                              *)
FileOK ==
  /\ \A s \in saves : ~s.raced => /\ saves = {s}
                                  /\ s.written = "whole" => disk = s.text
                                  /\ ~s.as => doc.text[Body] = s.text
  /\ doc.file /\ ~doc.raced /\ (\A s \in saves : s.written = "no") =>
       /\ doc.saved # None /\ disk = doc.saved
       /\ ~doc.dirty => doc.saved = doc.text[Body]

(* A run nothing overlapped is of what is shown, and its text is still the *)
(* object's source.                                                        *)
RunsOK ==
  \A r \in runs : ~r.raced =>
    /\ r.whole /\ r.object = doc.shown /\ r.text = doc.text[doc.shown]
    /\ r.executed => /\ source.text[r.object] = r.text
                     /\ r.text \notin Broken => <<r.object, r.text>> \in source.compiled

CompiledOK ==
  /\ \A c \in captures : c.reason = "compile" /\ c.truth => <<c.object, c.text>> \in source.compiled
  /\ Doc!CompiledVersionsCompiled

DocInv == VersionsInv /\ DocTypeOK /\ FileOK /\ RunsOK /\ CompiledOK

LEMMA DocStart == Doc!DocInit => DocInv
<1> SUFFICES ASSUME Doc!DocInit PROVE DocInv
  OBVIOUS
<1>0. Body \in Objects
  BY ServicesAssumption
<1>1. PICK x \in Text : LET texts == [o \in Objects |-> x]
       IN /\ doc = Doc!Fresh(texts) /\ disk = None
          /\ \E own \in BOOLEAN : source = [text |-> texts, compiled |-> {}, own |-> own]
          /\ captures = {[object |-> o, text |-> x, reason |-> "baseline",
                          truth |-> TRUE] : o \in Objects}
  BY DEF Doc!DocInit
<1>2. saves = {} /\ runs = {} /\ rows = <<>> /\ VersionsInv
  BY VersionsStart DEF Doc!DocInit, Doc!VersionsInit
<1>3. doc \in Tab /\ ~doc.file
  BY <1>0, <1>1 DEF Doc!Fresh, Tab
<1>4. ASSUME NEW c \in captures PROVE c \in Capture /\ c.reason = "baseline"
  <2>1. PICK o \in Objects : c = [object |-> o, text |-> x, reason |-> "baseline", truth |-> TRUE]
    BY <1>1
  <2> QED
    BY <2>1 DEF Capture
<1>5. DocTypeOK
  <2>1. did \in [saves : Nat, runs : Nat, edits : Nat, opens : Nat]
    BY DEF Doc!DocInit
  <2>2. source \in Source
    BY <1>1 DEF Source
  <2>3. disk = None
    BY <1>1
  <2> QED
    BY <1>2, <1>3, <1>4, <2>1, <2>2, <2>3 DEF DocTypeOK
<1>6. FileOK /\ RunsOK
  BY <1>2, <1>3 DEF FileOK, RunsOK
<1>7. CompiledOK
  BY <1>2, <1>4 DEF CompiledOK, Doc!CompiledVersionsCompiled
<1> QED
  BY <1>2, <1>5, <1>6, <1>7 DEF DocInv

(* What an edit, or another save, does to the calls under way.             *)
LEMMA RunsDisturbed ==
  ASSUME NEW rs, rs \subseteq Run
  PROVE  Doc!Disturbs(rs) \subseteq Run /\ \A r \in Doc!Disturbs(rs) : r.raced
<1>1. ASSUME NEW r \in Run PROVE [r EXCEPT !.raced = TRUE] \in Run /\ [r EXCEPT !.raced = TRUE].raced
  BY DEF Run
<1> QED
  BY <1>1 DEF Doc!Disturbs

LEMMA SavesDisturbed ==
  ASSUME NEW ss, ss \subseteq Save
  PROVE  /\ Doc!Disturbs(ss) \subseteq Save /\ \A s \in Doc!Disturbs(ss) : s.raced
         /\ (\A s \in Doc!Disturbs(ss) : s.written = "no") => \A s \in ss : s.written = "no"
<1>1. ASSUME NEW s \in Save
      PROVE  /\ [s EXCEPT !.raced = TRUE] \in Save /\ [s EXCEPT !.raced = TRUE].raced
             /\ [s EXCEPT !.raced = TRUE].written = s.written
  BY DEF Save
<1>2. \A s \in ss : [s EXCEPT !.raced = TRUE] \in Doc!Disturbs(ss)
  BY DEF Doc!Disturbs
<1> QED
  BY <1>1, <1>2 DEF Doc!Disturbs

LEMMA SavesMiss ==
  ASSUME NEW ss, ss \subseteq Save
  PROVE  /\ Doc!Misses(ss) \subseteq Save
         /\ \A s \in Doc!Misses(ss) : ~s.raced => s \in ss /\ s.as
         /\ (\A s \in Doc!Misses(ss) : s.written = "no") => \A s \in ss : s.written = "no"
         /\ \A s \in ss : ss = {s} /\ s.as => Doc!Misses(ss) = {s}
<1>1. ASSUME NEW s \in Save
      PROVE  /\ [s EXCEPT !.raced = @ \/ ~s.as] \in Save
             /\ [s EXCEPT !.raced = @ \/ ~s.as].written = s.written
             /\ ~[s EXCEPT !.raced = @ \/ ~s.as].raced => [s EXCEPT !.raced = @ \/ ~s.as] = s /\ s.as
             /\ s.as => [s EXCEPT !.raced = @ \/ ~s.as] = s
  <2>1. PICK b \in BOOLEAN : b = (s.raced \/ ~s.as)
    BY DEF Save
  <2>2. [s EXCEPT !.raced = @ \/ ~s.as] = [s EXCEPT !.raced = b]
    BY <2>1 DEF Save
  <2>3. [s EXCEPT !.raced = b] \in Save /\ [s EXCEPT !.raced = b].written = s.written /\ [s EXCEPT !.raced = b].raced = b
    BY DEF Save
  <2>4. s.raced \in BOOLEAN /\ s.as \in BOOLEAN
    BY DEF Save
  <2>5. s.as => b = s.raced
    BY <2>1, <2>4
  <2>6. b = s.raced => [s EXCEPT !.raced = b] = s
    BY DEF Save
  <2>7. ~b => s.as
    BY <2>1, <2>4
  <2> QED
    BY <2>2, <2>3, <2>5, <2>6, <2>7
<1>2. \A s \in ss : [s EXCEPT !.raced = @ \/ ~s.as] \in Doc!Misses(ss)
  BY DEF Doc!Misses
<1>3. Doc!Misses(ss) \subseteq Save
  BY <1>1 DEF Doc!Misses
<1>4. ASSUME NEW s \in Doc!Misses(ss), ~s.raced PROVE s \in ss /\ s.as
  <2>1. PICK t \in ss : s = [t EXCEPT !.raced = @ \/ ~t.as]
    BY DEF Doc!Misses
  <2> QED
    BY <1>1, <1>4, <2>1
<1>5. ASSUME \A s \in Doc!Misses(ss) : s.written = "no", NEW s \in ss PROVE s.written = "no"
  BY <1>1, <1>2, <1>5
<1>6. ASSUME NEW s \in ss, ss = {s}, s.as PROVE Doc!Misses(ss) = {s}
  BY <1>1, <1>6 DEF Doc!Misses
<1> QED
  BY <1>3, <1>4, <1>5, <1>6

LEMMA EditedKeeps ==
  ASSUME DocInv, NEW x \in Text, Doc!Edited(x)
  PROVE  DocInv'
<1>0. DocTypeOK /\ FileOK /\ RunsOK /\ CompiledOK /\ VersionsInv /\ doc \in Tab /\ doc.shown \in Objects
  BY DEF DocInv, DocTypeOK, Tab
<1>1. PICK d \in BOOLEAN : d = (IF doc.shown = Body THEN doc.saved # None /\ doc.saved # x ELSE doc.dirty)
  BY <1>0 DEF Tab
<1>2. PICK tx \in [Objects -> Text] : tx = [doc.text EXCEPT ![doc.shown] = x]
  BY <1>0 DEF Tab
<1>3. doc' = [doc EXCEPT !.text = tx, !.dirty = d]
  BY <1>0, <1>1, <1>2 DEF Doc!Edited, Tab
<1>4. /\ doc' \in Tab /\ doc'.text = tx /\ doc'.dirty = d /\ doc'.shown = doc.shown
      /\ doc'.file = doc.file /\ doc'.saved = doc.saved /\ doc'.raced = doc.raced
  BY <1>0, <1>3 DEF Tab
<1>5. /\ saves' = (IF doc.shown = Body THEN Doc!Misses(saves) ELSE saves)
      /\ runs' = Doc!Disturbs(runs) /\ did' = [did EXCEPT !["edits"] = @ + 1]
      /\ UNCHANGED <<disk, captures, source>> /\ UNCHANGED <<rows, commits, index, tags, spoilt>>
  BY DEF Doc!Edited, Doc!versionVars, Doc!Did
<1>6. saves \subseteq Save /\ runs \subseteq Run
  BY <1>0 DEF DocTypeOK
<1>7. runs' \subseteq Run /\ \A r \in runs' : r.raced
  BY <1>5, <1>6, RunsDisturbed
<1>8. /\ saves' \subseteq Save
      /\ (\A s \in saves' : s.written = "no") => \A s \in saves : s.written = "no"
  BY <1>5, <1>6, SavesMiss
<1>9. did' \in [saves : Nat, runs : Nat, edits : Nat, opens : Nat]
  BY <1>0, <1>5 DEF DocTypeOK
<1>10. DocTypeOK'
  BY <1>0, <1>4, <1>5, <1>7, <1>8, <1>9 DEF DocTypeOK
<1>11. FileOK'
  <2>1. ASSUME NEW s \in saves', ~s.raced
        PROVE  saves' = {s} /\ (s.written = "whole" => disk' = s.text) /\ (~s.as => doc'.text[Body] = s.text)
    <3>1. CASE doc.shown = Body
      <4>1. s \in saves /\ s.as
        BY <1>5, <1>6, <2>1, <3>1, SavesMiss
      <4>2. saves = {s} /\ (s.written = "whole" => disk = s.text)
        BY <1>0, <2>1, <4>1 DEF FileOK
      <4>3. saves' = {s}
        BY <1>5, <1>6, <3>1, <4>1, <4>2, SavesMiss
      <4> QED
        BY <1>5, <4>1, <4>2, <4>3
    <3>2. CASE doc.shown # Body
      <4>1. tx[Body] = doc.text[Body] /\ saves' = saves
        BY <1>0, <1>2, <1>5, <3>2, ServicesAssumption DEF Tab
      <4> QED
        BY <1>0, <1>4, <1>5, <2>1, <4>1 DEF FileOK
    <3> QED
      BY <3>1, <3>2
  <2>2. ASSUME doc'.file, ~doc'.raced, \A s \in saves' : s.written = "no"
        PROVE  doc'.saved # None /\ disk' = doc'.saved /\ (~doc'.dirty => doc'.saved = doc'.text[Body])
    <3>1. doc.saved # None /\ disk = doc.saved /\ (~doc.dirty => doc.saved = doc.text[Body])
      BY <1>0, <1>4, <1>8, <2>2 DEF FileOK
    <3>2. CASE doc.shown = Body
      <4>1. tx[Body] = x
        BY <1>0, <1>2, <3>2 DEF Tab
      <4> QED
        BY <1>1, <1>4, <1>5, <3>1, <3>2, <4>1
    <3>3. CASE doc.shown # Body
      <4>1. tx[Body] = doc.text[Body]
        BY <1>0, <1>2, <3>3, ServicesAssumption DEF Tab
      <4> QED
        BY <1>1, <1>4, <1>5, <3>1, <3>3, <4>1
    <3> QED
      BY <3>2, <3>3
  <2> QED
    BY <2>1, <2>2 DEF FileOK
<1>12. RunsOK'
  BY <1>7 DEF RunsOK
<1>13. CompiledOK'
  BY <1>0, <1>5 DEF CompiledOK, Doc!CompiledVersionsCompiled
<1>14. VersionsInv'
  BY <1>0, <1>5, VersionsStay
<1> QED
  BY <1>10, <1>11, <1>12, <1>13, <1>14 DEF DocInv

LEMMA PartShownKeeps ==
  ASSUME DocInv, NEW o \in Objects, Doc!PartShown(o)
  PROVE  DocInv'
<1>0. DocTypeOK /\ FileOK /\ RunsOK /\ CompiledOK /\ VersionsInv /\ doc \in Tab /\ runs \subseteq Run
  BY DEF DocInv, DocTypeOK
<1>1. /\ doc' = [doc EXCEPT !.shown = o] /\ runs' = Doc!Disturbs(runs)
      /\ UNCHANGED <<disk, saves, captures, source, did>> /\ UNCHANGED <<rows, commits, index, tags, spoilt>>
  BY DEF Doc!PartShown, Doc!versionVars
<1>2. /\ doc' \in Tab /\ doc'.text = doc.text /\ doc'.dirty = doc.dirty
      /\ doc'.file = doc.file /\ doc'.saved = doc.saved /\ doc'.raced = doc.raced
  BY <1>0, <1>1 DEF Tab
<1>3. runs' \subseteq Run /\ \A r \in runs' : r.raced
  BY <1>0, <1>1, RunsDisturbed
<1>4. DocTypeOK'
  BY <1>0, <1>1, <1>2, <1>3 DEF DocTypeOK
<1>5. FileOK'
  BY <1>0, <1>1, <1>2 DEF FileOK
<1>6. RunsOK'
  BY <1>3 DEF RunsOK
<1>7. CompiledOK'
  BY <1>0, <1>1 DEF CompiledOK, Doc!CompiledVersionsCompiled
<1>8. VersionsInv'
  BY <1>0, <1>1, VersionsStay
<1> QED
  BY <1>4, <1>5, <1>6, <1>7, <1>8 DEF DocInv

LEMMA ObjectOpenedKeeps ==
  ASSUME DocInv, Doc!ObjectOpened
  PROVE  DocInv'
<1>0. /\ DocTypeOK /\ FileOK /\ RunsOK /\ CompiledOK /\ VersionsInv /\ saves \subseteq Save /\ runs \subseteq Run
      /\ captures \subseteq Capture /\ source.text \in [Objects -> Text] /\ Body \in Objects
  BY ServicesAssumption DEF DocInv, DocTypeOK, Source
<1>1. /\ doc' = Doc!Fresh(source.text) /\ saves' = Doc!Misses(saves) /\ runs' = Doc!Disturbs(runs)
      /\ captures' = captures \cup {[object |-> o, text |-> source.text[o],
                                     reason |-> "baseline", truth |-> TRUE] : o \in Objects}
      /\ did' = [did EXCEPT !["opens"] = @ + 1]
      /\ UNCHANGED <<disk, source>> /\ UNCHANGED <<rows, commits, index, tags, spoilt>>
  BY DEF Doc!ObjectOpened, Doc!versionVars, Doc!Did
<1>2. doc' \in Tab /\ ~doc'.file
  BY <1>0, <1>1 DEF Doc!Fresh, Tab
<1>3. runs' \subseteq Run /\ \A r \in runs' : r.raced
  BY <1>0, <1>1, RunsDisturbed
<1>4. saves' \subseteq Save
  BY <1>0, <1>1, SavesMiss
<1>5. ASSUME NEW c \in captures', c \notin captures PROVE c \in Capture /\ c.reason = "baseline"
  <2>1. PICK o \in Objects : c = [object |-> o, text |-> source.text[o], reason |-> "baseline", truth |-> TRUE]
    BY <1>1, <1>5
  <2> QED
    BY <1>0, <2>1 DEF Capture
<1>6. did' \in [saves : Nat, runs : Nat, edits : Nat, opens : Nat]
  BY <1>0, <1>1 DEF DocTypeOK
<1>7. DocTypeOK'
  BY <1>0, <1>1, <1>2, <1>3, <1>4, <1>5, <1>6 DEF DocTypeOK
<1>8. FileOK'
  <2>1. ASSUME NEW s \in saves', ~s.raced
        PROVE  saves' = {s} /\ (s.written = "whole" => disk' = s.text) /\ s.as
    <3>1. s \in saves /\ s.as
      BY <1>0, <1>1, <2>1, SavesMiss
    <3>2. saves = {s} /\ (s.written = "whole" => disk = s.text)
      BY <1>0, <2>1, <3>1 DEF FileOK
    <3>3. saves' = {s}
      BY <1>0, <1>1, <3>1, <3>2, SavesMiss
    <3> QED
      BY <1>1, <3>1, <3>2, <3>3
  <2> QED
    BY <1>2, <2>1 DEF FileOK
<1>9. RunsOK'
  BY <1>3 DEF RunsOK
<1>10. CompiledOK'
  BY <1>0, <1>1, <1>5 DEF CompiledOK, Doc!CompiledVersionsCompiled
<1>11. VersionsInv'
  BY <1>0, <1>1, VersionsStay
<1> QED
  BY <1>7, <1>8, <1>9, <1>10, <1>11 DEF DocInv

LEMMA SaveStartedKeeps ==
  ASSUME DocInv, NEW as \in BOOLEAN, Doc!SaveStarted(as)
  PROVE  DocInv'
<1> DEFINE v == [n |-> did.saves + 1, as |-> as, text |-> doc.text[Body], raced |-> saves # {}, written |-> "no"]
<1>0. /\ DocTypeOK /\ FileOK /\ RunsOK /\ CompiledOK /\ VersionsInv /\ saves \subseteq Save
      /\ did \in [saves : Nat, runs : Nat, edits : Nat, opens : Nat] /\ doc.text[Body] \in Text
  BY ServicesAssumption DEF DocInv, DocTypeOK, Tab
<1>1. /\ saves' = Doc!Disturbs(saves) \cup {v} /\ did' = [did EXCEPT !["saves"] = @ + 1]
      /\ UNCHANGED <<doc, disk, runs, captures, source>> /\ UNCHANGED <<rows, commits, index, tags, spoilt>>
  BY DEF Doc!SaveStarted, Doc!versionVars, Doc!Did
<1>2. v \in Save /\ v.text = doc.text[Body] /\ v.written = "no" /\ (v.raced <=> saves # {})
  <2>1. PICK b \in BOOLEAN : b = (saves # {})
    OBVIOUS
  <2>2. v = [n |-> did.saves + 1, as |-> as, text |-> doc.text[Body], raced |-> b, written |-> "no"]
    BY <2>1
  <2> HIDE DEF v
  <2>3. v.text = doc.text[Body] /\ v.written = "no" /\ v.raced = b
    BY <2>2
  <2>4. did.saves + 1 \in Nat
    BY <1>0
  <2>5. v \in Save
    BY <1>0, <2>2, <2>4 DEF Save
  <2> QED
    BY <2>1, <2>3, <2>5
<1> HIDE DEF v
<1>3. did' \in [saves : Nat, runs : Nat, edits : Nat, opens : Nat]
  BY <1>0, <1>1
<1>4. saves' \subseteq Save /\ \A s \in saves' : s # v => s.raced
  BY <1>0, <1>1, <1>2, SavesDisturbed
<1>5. (\A s \in saves' : s.written = "no") => \A s \in saves : s.written = "no"
  BY <1>0, <1>1, SavesDisturbed
<1>6. DocTypeOK'
  BY <1>0, <1>1, <1>3, <1>4 DEF DocTypeOK
<1>7. FileOK'
  <2>1. ASSUME NEW s \in saves', ~s.raced
        PROVE  saves' = {s} /\ s.written = "no" /\ doc'.text[Body] = s.text
    <3>1. s = v /\ saves = {}
      BY <1>2, <1>4, <2>1
    <3>2. saves' = {v}
      BY <1>1, <3>1 DEF Doc!Disturbs
    <3> QED
      BY <1>1, <1>2, <3>1, <3>2
  <2> QED
    BY <1>0, <1>1, <1>5, <2>1 DEF FileOK
<1>8. RunsOK'
  BY <1>0, <1>1 DEF RunsOK
<1>9. CompiledOK'
  BY <1>0, <1>1 DEF CompiledOK, Doc!CompiledVersionsCompiled
<1>10. VersionsInv'
  BY <1>0, <1>1, VersionsStay
<1> QED
  BY <1>6, <1>7, <1>8, <1>9, <1>10 DEF DocInv

LEMMA WrittenKeeps ==
  ASSUME DocInv, NEW s \in saves, NEW how \in {"whole", "part"}, Doc!Written(s, how)
  PROVE  DocInv'
<1> DEFINE v == [s EXCEPT !.written = how]
<1>0. /\ DocTypeOK /\ FileOK /\ RunsOK /\ CompiledOK /\ VersionsInv /\ saves \subseteq Save /\ s \in Save
      /\ s.text \in Text
  BY DEF DocInv, DocTypeOK, Save
<1>1. /\ disk' = (IF how = "whole" THEN s.text ELSE None) /\ saves' = (saves \ {s}) \cup {v}
      /\ UNCHANGED <<doc, runs, captures, source, did>> /\ UNCHANGED <<rows, commits, index, tags, spoilt>>
  BY DEF Doc!Written, Doc!versionVars
<1>2. v \in Save /\ v.text = s.text /\ v.written = how /\ v.raced = s.raced /\ v.as = s.as
  BY <1>0 DEF Save
<1> HIDE DEF v
<1>3. DocTypeOK'
  BY <1>0, <1>1, <1>2 DEF DocTypeOK
<1>4. FileOK'
  <2>1. ASSUME NEW t \in saves', ~t.raced
        PROVE  saves' = {t} /\ (t.written = "whole" => disk' = t.text) /\ (~t.as => doc'.text[Body] = t.text)
    <3>1. t = v
      <4> SUFFICES ASSUME t \in saves, t # s PROVE FALSE
        BY <1>1
      <4>1. saves = {t}
        BY <1>0, <2>1 DEF FileOK
      <4> QED
        BY <4>1
    <3>2. saves = {s} /\ (~s.as => doc.text[Body] = s.text)
      BY <1>0, <1>2, <2>1, <3>1 DEF FileOK
    <3> QED
      BY <1>1, <1>2, <3>1, <3>2
  <2>2. v \in saves' /\ v.written # "no"
    BY <1>1, <1>2
  <2> QED
    BY <2>1, <2>2 DEF FileOK
<1>5. RunsOK'
  BY <1>0, <1>1 DEF RunsOK
<1>6. CompiledOK'
  BY <1>0, <1>1 DEF CompiledOK, Doc!CompiledVersionsCompiled
<1>7. VersionsInv'
  BY <1>0, <1>1, VersionsStay
<1> QED
  BY <1>3, <1>4, <1>5, <1>6, <1>7 DEF DocInv

LEMMA SaveAnsweredKeeps ==
  ASSUME DocInv, NEW s \in saves, Doc!SaveAnswered(s)
  PROVE  DocInv'
<1>0. /\ DocTypeOK /\ FileOK /\ RunsOK /\ CompiledOK /\ VersionsInv /\ saves \subseteq Save /\ s \in Save
      /\ s.text \in Text /\ s.as \in BOOLEAN /\ s.raced \in BOOLEAN /\ doc \in Tab /\ doc.file \in BOOLEAN
      /\ None \notin Text
  BY ServicesAssumption DEF DocInv, DocTypeOK, Save, Tab
<1>1. /\ saves' = saves \ {s}
      /\ doc' = (IF s.written # "whole" THEN [doc EXCEPT !.raced = @ \/ s.written = "part"]
                 ELSE [doc EXCEPT !.file = @ \/ s.as, !.saved = s.text,
                                  !.dirty = s.as /\ doc.text[Body] # s.text, !.raced = s.raced])
      /\ UNCHANGED <<disk, runs, captures, source, did>> /\ UNCHANGED <<rows, commits, index, tags, spoilt>>
  BY DEF Doc!SaveAnswered, Doc!versionVars, Doc!DirtyAfter
<1>2. \A t \in saves' : t.raced
  <2> SUFFICES ASSUME NEW t \in saves, t # s, ~t.raced PROVE FALSE
    BY <1>1
  <2>1. saves = {t}
    BY <1>0 DEF FileOK
  <2> QED
    BY <2>1
<1>3. CASE s.written # "whole"
  <2>0. PICK b \in BOOLEAN : b = (doc.raced \/ s.written = "part")
    BY <1>0
  <2>9. doc' = [doc EXCEPT !.raced = b]
    BY <1>0, <1>1, <1>3, <2>0 DEF Tab
  <2>1. /\ doc' \in Tab /\ doc'.text = doc.text /\ doc'.shown = doc.shown /\ doc'.file = doc.file
        /\ doc'.saved = doc.saved /\ doc'.dirty = doc.dirty /\ doc'.raced = b
    BY <1>0, <2>9 DEF Tab
  <2>2. ~b => s.written = "no" /\ ~doc.raced
    BY <1>0, <1>3, <2>0 DEF Save
  <2>3. DocTypeOK'
    BY <1>0, <1>1, <2>1 DEF DocTypeOK
  <2>4. FileOK'
    <3>1. ASSUME doc'.file, ~doc'.raced, \A t \in saves' : t.written = "no"
          PROVE  \A t \in saves : t.written = "no"
      BY <1>1, <2>1, <2>2, <3>1
    <3> QED
      BY <1>0, <1>1, <1>2, <2>1, <2>2, <3>1 DEF FileOK
  <2>5. RunsOK'
    BY <1>0, <1>1, <2>1 DEF RunsOK
  <2> QED
    BY <1>0, <1>1, <2>3, <2>4, <2>5, VersionsStay DEF DocInv, CompiledOK, Doc!CompiledVersionsCompiled
<1>4. CASE s.written = "whole"
  <2>1. PICK d \in BOOLEAN : d = (s.as /\ doc.text[Body] # s.text)
    BY <1>0
  <2>2. PICK f \in BOOLEAN : f = (doc.file \/ s.as)
    BY <1>0
  <2>3. doc' = [doc EXCEPT !.file = f, !.saved = s.text, !.dirty = d, !.raced = s.raced]
    BY <1>0, <1>1, <1>4, <2>1, <2>2 DEF Tab
  <2>4. /\ doc' \in Tab /\ doc'.text = doc.text /\ doc'.shown = doc.shown
        /\ doc'.saved = s.text /\ doc'.dirty = d /\ doc'.raced = s.raced
    BY <1>0, <2>3 DEF Tab
  <2>5. DocTypeOK'
    BY <1>0, <1>1, <2>4 DEF DocTypeOK
  <2>6. FileOK'
    <3>1. ASSUME ~s.raced
          PROVE  disk' = doc'.saved /\ (~doc'.dirty => doc'.saved = doc'.text[Body])
      <4>1. saves = {s} /\ disk = s.text /\ (~s.as => doc.text[Body] = s.text)
        BY <1>0, <1>1, <1>4, <3>1 DEF FileOK
      <4> QED
        BY <1>0, <1>1, <2>1, <2>4, <4>1
    <3>2. doc'.saved # None
      BY <1>0, <2>4
    <3> QED
      BY <1>2, <2>4, <3>1, <3>2 DEF FileOK
  <2>7. RunsOK'
    BY <1>0, <1>1, <2>4 DEF RunsOK
  <2> QED
    BY <1>0, <1>1, <2>5, <2>6, <2>7, VersionsStay DEF DocInv, CompiledOK, Doc!CompiledVersionsCompiled
<1> QED
  BY <1>3, <1>4

LEMMA RunStartedKeeps ==
  ASSUME DocInv, NEW whole \in BOOLEAN, Doc!RunStarted(whole)
  PROVE  DocInv'
<1> DEFINE v == [n |-> did.runs + 1, object |-> doc.shown, text |-> doc.text[doc.shown], whole |-> whole,
                 executed |-> FALSE, raced |-> ~whole]
<1>0. /\ DocTypeOK /\ FileOK /\ RunsOK /\ CompiledOK /\ VersionsInv /\ runs \subseteq Run
      /\ did \in [saves : Nat, runs : Nat, edits : Nat, opens : Nat] /\ doc.shown \in Objects
      /\ doc.text[doc.shown] \in Text
  BY DEF DocInv, DocTypeOK, Tab
<1>1. /\ runs' = runs \cup {v} /\ did' = [did EXCEPT !["runs"] = @ + 1]
      /\ UNCHANGED <<doc, disk, saves, captures, source>> /\ UNCHANGED <<rows, commits, index, tags, spoilt>>
  BY DEF Doc!RunStarted, Doc!versionVars, Doc!Did
<1>2. /\ v \in Run /\ v.object = doc.shown /\ v.text = doc.text[doc.shown] /\ v.whole = whole /\ ~v.executed
      /\ (v.raced <=> ~whole)
  <2>1. PICK b \in BOOLEAN : b = ~whole
    OBVIOUS
  <2>2. v = [n |-> did.runs + 1, object |-> doc.shown, text |-> doc.text[doc.shown], whole |-> whole,
             executed |-> FALSE, raced |-> b]
    BY <2>1
  <2> HIDE DEF v
  <2>3. /\ v.object = doc.shown /\ v.text = doc.text[doc.shown] /\ v.whole = whole /\ ~v.executed
        /\ v.raced = b
    BY <2>2
  <2>4. did.runs + 1 \in Nat
    BY <1>0
  <2>5. v \in Run
    BY <1>0, <2>2, <2>4 DEF Run
  <2> QED
    BY <2>1, <2>3, <2>5
<1> HIDE DEF v
<1>3. did' \in [saves : Nat, runs : Nat, edits : Nat, opens : Nat]
  BY <1>0, <1>1
<1>4. DocTypeOK'
  BY <1>0, <1>1, <1>2, <1>3 DEF DocTypeOK
<1>5. FileOK'
  BY <1>0, <1>1 DEF FileOK
<1>6. RunsOK'
  BY <1>0, <1>1, <1>2 DEF RunsOK
<1>7. CompiledOK'
  BY <1>0, <1>1 DEF CompiledOK, Doc!CompiledVersionsCompiled
<1>8. VersionsInv'
  BY <1>0, <1>1, VersionsStay
<1> QED
  BY <1>4, <1>5, <1>6, <1>7, <1>8 DEF DocInv

LEMMA ExecutedKeeps ==
  ASSUME DocInv, NEW r \in runs, Doc!Executed(r)
  PROVE  DocInv'
<1> DEFINE v == [r EXCEPT !.executed = TRUE]
<1>0. /\ DocTypeOK /\ FileOK /\ RunsOK /\ CompiledOK /\ VersionsInv /\ runs \subseteq Run /\ r \in Run
      /\ source \in Source
      /\ r.object \in Objects /\ r.text \in Text
  BY DEF DocInv, DocTypeOK, Run
<1>1. /\ source' = (IF ~r.whole THEN source
                    ELSE [own |-> source.own,
                          text |-> [source.text EXCEPT ![r.object] = r.text],
                          compiled |-> IF r.text \in Broken THEN source.compiled
                                       ELSE source.compiled \cup {<<r.object, r.text>>}])
      /\ runs' = {[q EXCEPT !.raced = @ \/ Doc!Overwrites(r, q)] : q \in runs \ {r}} \cup {v}
      /\ UNCHANGED <<doc, disk, saves, captures, did>> /\ UNCHANGED <<rows, commits, index, tags, spoilt>>
  BY DEF Doc!Executed, Doc!versionVars
<1>2. /\ v \in Run /\ v.object = r.object /\ v.text = r.text /\ v.whole = r.whole /\ v.executed /\ v.raced = r.raced
  BY <1>0 DEF Run
<1>3. /\ source' \in Source
      /\ source.compiled \subseteq source'.compiled
      /\ r.whole => /\ source'.text[r.object] = r.text
                    /\ \A o \in Objects \ {r.object} : source'.text[o] = source.text[o]
                    /\ r.text \notin Broken => <<r.object, r.text>> \in source'.compiled
      /\ ~r.whole => source' = source
  <2>1. CASE ~r.whole
    BY <1>0, <1>1, <2>1
  <2>2. CASE r.whole /\ r.text \in Broken
    <3>1. source' = [own |-> source.own, text |-> [source.text EXCEPT ![r.object] = r.text],
                     compiled |-> source.compiled]
      BY <1>1, <2>2
    <3> QED
      BY <1>0, <2>2, <3>1 DEF Source
  <2>3. CASE r.whole /\ r.text \notin Broken
    <3>1. source' = [own |-> source.own, text |-> [source.text EXCEPT ![r.object] = r.text],
                     compiled |-> source.compiled \cup {<<r.object, r.text>>}]
      BY <1>1, <2>3
    <3> QED
      BY <1>0, <2>3, <3>1 DEF Source
  <2> QED
    BY <2>1, <2>2, <2>3
<1>4. ASSUME NEW q \in runs
      PROVE  /\ [q EXCEPT !.raced = @ \/ Doc!Overwrites(r, q)] \in Run
             /\ ~[q EXCEPT !.raced = @ \/ Doc!Overwrites(r, q)].raced =>
                  [q EXCEPT !.raced = @ \/ Doc!Overwrites(r, q)] = q /\ ~Doc!Overwrites(r, q)
  <2>1. q \in Run /\ q.raced \in BOOLEAN
    BY <1>0 DEF Run
  <2>2. PICK b \in BOOLEAN : b = (q.raced \/ Doc!Overwrites(r, q))
    BY <2>1
  <2>3. [q EXCEPT !.raced = @ \/ Doc!Overwrites(r, q)] = [q EXCEPT !.raced = b]
    BY <2>1, <2>2 DEF Run
  <2>4. [q EXCEPT !.raced = b] \in Run /\ [q EXCEPT !.raced = b].raced = b
    BY <2>1 DEF Run
  <2>5. ~b => b = q.raced /\ ~Doc!Overwrites(r, q)
    BY <2>1, <2>2
  <2>6. b = q.raced => [q EXCEPT !.raced = b] = q
    BY <2>1 DEF Run
  <2> QED
    BY <2>3, <2>4, <2>5, <2>6
<1> HIDE DEF v
<1>5. ASSUME NEW p \in runs', p # v
      PROVE  p \in Run /\ (~p.raced => p \in runs /\ ~Doc!Overwrites(r, p))
  <2>1. PICK q \in runs : p = [q EXCEPT !.raced = @ \/ Doc!Overwrites(r, q)]
    BY <1>1, <1>5
  <2> QED
    BY <1>4, <2>1
<1>6. DocTypeOK'
  BY <1>0, <1>1, <1>2, <1>3, <1>5 DEF DocTypeOK
<1>7. FileOK'
  BY <1>0, <1>1 DEF FileOK
<1>8. RunsOK'
  <2> SUFFICES ASSUME NEW p \in runs', ~p.raced
               PROVE  /\ p.whole /\ p.object = doc.shown /\ p.text = doc.text[doc.shown]
                      /\ p.executed => /\ source'.text[p.object] = p.text
                                       /\ p.text \notin Broken => <<p.object, p.text>> \in source'.compiled
    BY <1>1 DEF RunsOK
  <2>1. CASE p = v
    BY <1>0, <1>2, <1>3, <2>1 DEF RunsOK
  <2>2. CASE p # v
    <3>1. p \in runs /\ ~Doc!Overwrites(r, p) /\ p.object \in Objects
      BY <1>5, <2>2 DEF Run
    <3>2. /\ p.whole /\ p.object = doc.shown /\ p.text = doc.text[doc.shown]
          /\ p.executed => /\ source.text[p.object] = p.text
                           /\ p.text \notin Broken => <<p.object, p.text>> \in source.compiled
      BY <1>0, <3>1 DEF RunsOK
    <3>3. p.executed => source'.text[p.object] = p.text
      BY <1>3, <3>1, <3>2 DEF Doc!Overwrites
    <3> QED
      BY <1>3, <3>2, <3>3
  <2> QED
    BY <2>1, <2>2
<1>9. CompiledOK'
  BY <1>0, <1>1, <1>3 DEF CompiledOK, Doc!CompiledVersionsCompiled
<1>10. VersionsInv'
  BY <1>0, <1>1, VersionsStay
<1> QED
  BY <1>6, <1>7, <1>8, <1>9, <1>10 DEF DocInv

LEMMA ErrorsAnsweredKeeps ==
  ASSUME DocInv, NEW r \in runs, NEW none \in BOOLEAN, Doc!ErrorsAnswered(r, none)
  PROVE  DocInv'
<1> DEFINE c == [object |-> doc.shown, text |-> doc.text[doc.shown], reason |-> "compile",
                 truth |-> ~r.raced /\ source.own]
<1>0. /\ DocTypeOK /\ FileOK /\ RunsOK /\ CompiledOK /\ VersionsInv /\ runs \subseteq Run /\ r \in Run
      /\ captures \subseteq Capture /\ doc.shown \in Objects /\ doc.text[doc.shown] \in Text
      /\ r.raced \in BOOLEAN /\ source.own \in BOOLEAN
  BY DEF DocInv, DocTypeOK, Run, Tab, Source
<1>1. /\ runs' = runs \ {r} /\ r.executed /\ (none => Doc!NoErrors(r))
      /\ captures' = (IF none THEN captures \cup {c} ELSE captures)
      /\ UNCHANGED <<doc, disk, saves, source, did>> /\ UNCHANGED <<rows, commits, index, tags, spoilt>>
  BY DEF Doc!ErrorsAnswered, Doc!versionVars
<1>2. /\ c \in Capture /\ c.object = doc.shown /\ c.text = doc.text[doc.shown] 
      /\ c.truth => ~r.raced /\ source.own
  <2>1. PICK b \in BOOLEAN : b = (~r.raced /\ source.own)
    BY <1>0
  <2>2. c = [object |-> doc.shown, text |-> doc.text[doc.shown], reason |-> "compile", truth |-> b]
    BY <2>1
  <2> HIDE DEF c
  <2> QED
    BY <1>0, <2>1, <2>2 DEF Capture
<1> HIDE DEF c
<1>3. none /\ c.truth => <<c.object, c.text>> \in source.compiled
  BY <1>0, <1>1, <1>2 DEF RunsOK, Doc!NoErrors
<1>4. DocTypeOK'
  BY <1>0, <1>1, <1>2 DEF DocTypeOK
<1>5. FileOK'
  BY <1>0, <1>1 DEF FileOK
<1>6. RunsOK'
  BY <1>0, <1>1 DEF RunsOK
<1>7. CompiledOK'
  BY <1>0, <1>1, <1>3 DEF CompiledOK, Doc!CompiledVersionsCompiled
<1>8. VersionsInv'
  BY <1>0, <1>1, VersionsStay
<1> QED
  BY <1>4, <1>5, <1>6, <1>7, <1>8 DEF DocInv

LEMMA CaptureServedKeeps ==
  ASSUME DocInv, NEW c \in captures, NEW stop \in {"none", "write", "commit", "insert"},
         Doc!CaptureServed(c, stop)
  PROVE  DocInv'
<1>0. /\ DocTypeOK /\ FileOK /\ RunsOK /\ CompiledOK /\ VersionsInv /\ c \in Capture /\ rows \in Seq(Row)
      /\ c.object \in Objects /\ c.text \in Text /\ c.reason \in {"baseline", "compile"} /\ c.truth \in BOOLEAN
  BY DEF DocInv, DocTypeOK, Capture, VersionsInv, VersionsTypeOK
<1>1. /\ captures' = captures \ {c} /\ Doc!Captured(c.object, c.text, c.reason, c.truth, stop)
      /\ UNCHANGED <<doc, disk, saves, runs, source, did>>
  BY DEF Doc!CaptureServed
<1>2. /\ VersionsInv'
      /\ \/ rows' = rows
         \/ \E r \in Row : /\ rows' = Append(rows, r) /\ r.object = c.object /\ r.text = c.text
                           /\ r.reason = c.reason /\ r.truth = c.truth
  BY <1>0, <1>1, CapturedKeeps
<1>3. DocTypeOK'
  BY <1>0, <1>1 DEF DocTypeOK
<1>4. FileOK' /\ RunsOK'
  BY <1>0, <1>1 DEF FileOK, RunsOK
<1>5. CompiledOK'
  <2>1. CASE rows' = rows
    BY <1>0, <1>1, <2>1 DEF CompiledOK, Doc!CompiledVersionsCompiled
  <2>2. ASSUME NEW r \in Row, rows' = Append(rows, r), r.object = c.object, r.text = c.text,
               r.reason = c.reason, r.truth = c.truth
        PROVE  CompiledOK'
    <3>1. \A i \in DOMAIN rows' : (i \in DOMAIN rows /\ rows'[i] = rows[i]) \/ rows'[i] = r
      BY <1>0, <2>2, AppendProperties
    <3>2. c.reason = "compile" /\ c.truth => <<c.object, c.text>> \in source.compiled
      BY <1>0 DEF CompiledOK
    <3>3. ASSUME NEW i \in DOMAIN rows', rows'[i].reason = "compile", rows'[i].truth
          PROVE  <<rows'[i].object, rows'[i].text>> \in source.compiled
      <4>1. CASE i \in DOMAIN rows /\ rows'[i] = rows[i]
        BY <1>0, <3>3, <4>1 DEF CompiledOK, Doc!CompiledVersionsCompiled
      <4>2. CASE rows'[i] = r
        BY <2>2, <3>2, <3>3, <4>2
      <4> QED
        BY <3>1, <4>1, <4>2
    <3> QED
      BY <1>0, <1>1, <3>3 DEF CompiledOK, Doc!CompiledVersionsCompiled
  <2> QED
    BY <1>2, <2>1, <2>2
<1> QED
  BY <1>2, <1>3, <1>4, <1>5 DEF DocInv

LEMMA LabelServedKeeps ==
  ASSUME DocInv, NEW i \in DOMAIN rows, NEW l \in Labels \cup {None},
         NEW stop \in {"none", "delete", "update"}, NEW kept \in BOOLEAN,
         Doc!LabelServed(i, l, stop, kept)
  PROVE  DocInv'
<1>0. DocTypeOK /\ FileOK /\ RunsOK /\ CompiledOK /\ VersionsInv
  BY DEF DocInv
<1>1. Doc!Labelled(i, l, stop, kept) /\ UNCHANGED <<doc, disk, saves, runs, captures, source, did>>
  BY DEF Doc!LabelServed, Doc!docVars
<1>2. /\ VersionsInv' /\ DOMAIN rows' = DOMAIN rows
      /\ \A k \in DOMAIN rows : /\ rows'[k].object = rows[k].object /\ rows'[k].text = rows[k].text
                                /\ rows'[k].reason = rows[k].reason /\ rows'[k].truth = rows[k].truth
  BY <1>0, <1>1, LabelledKeeps
<1>3. DocTypeOK' /\ FileOK' /\ RunsOK'
  BY <1>0, <1>1 DEF DocTypeOK, FileOK, RunsOK
<1>4. CompiledOK'
  BY <1>0, <1>1, <1>2 DEF CompiledOK, Doc!CompiledVersionsCompiled
<1> QED
  BY <1>2, <1>3, <1>4 DEF DocInv

LEMMA DocStay ==
  ASSUME DocInv, [Doc!DocNext]_(Doc!allVars)
  PROVE  DocInv'
<1>1. CASE UNCHANGED Doc!allVars
  <2>1. UNCHANGED <<doc, disk, saves, runs, captures, source, did>> /\ UNCHANGED <<rows, commits, index, tags, spoilt>>
    BY <1>1 DEF Doc!allVars, Doc!docVars, Doc!versionVars
  <2>2. DocTypeOK' /\ FileOK' /\ RunsOK' /\ CompiledOK'
    BY <2>1 DEF DocInv, DocTypeOK, FileOK, RunsOK, CompiledOK, Doc!CompiledVersionsCompiled
  <2>3. VersionsInv'
    BY <2>1, VersionsStay DEF DocInv
  <2> QED
    BY <2>2, <2>3 DEF DocInv
<1>2. CASE Doc!DocNext
  <2>1. ASSUME NEW s \in saves, Doc!Written(s, "whole") \/ Doc!Written(s, "part") \/ Doc!SaveAnswered(s)
        PROVE  DocInv'
    BY <2>1, WrittenKeeps, SaveAnsweredKeeps
  <2> QED
    BY <1>2, <2>1, EditedKeeps, PartShownKeeps, ObjectOpenedKeeps, SaveStartedKeeps, RunStartedKeeps,
       ExecutedKeeps, ErrorsAnsweredKeeps, CaptureServedKeeps, LabelServedKeeps DEF Doc!DocNext
<1> QED
  BY <1>1, <1>2

LEMMA DocSuffices ==
  DocInv => /\ Doc!RowsAreCommits /\ Doc!BranchFollowsRows /\ Doc!TagsAreLabels
            /\ Doc!CleanMeansSaved /\ Doc!CompiledVersionsCompiled
<1> SUFFICES ASSUME DocInv
             PROVE  /\ Doc!RowsAreCommits /\ Doc!BranchFollowsRows /\ Doc!TagsAreLabels
                    /\ Doc!CleanMeansSaved /\ Doc!CompiledVersionsCompiled
  OBVIOUS
<1>1. Doc!RowsAreCommits /\ Doc!BranchFollowsRows /\ Doc!TagsAreLabels
  BY DEF DocInv, VersionsInv, RowsOK, BranchOK, Doc!BranchFollowsRows
<1>2. Doc!CleanMeansSaved
  BY DEF DocInv, FileOK, Doc!CleanMeansSaved
<1>3. Doc!CompiledVersionsCompiled
  BY DEF DocInv, CompiledOK
<1> QED
  BY <1>1, <1>2, <1>3

-----------------------------------------------------------------------------
(***************************************************************************)
(* The composition.                                                        *)
(***************************************************************************)

(* A step of one component leaves the others alone.                        *)
LEMMA EachForItself ==
  ASSUME [ServicesNext]_ServicesVars
  PROVE  /\ [PanesNext]_paneVars /\ [Cloud!CloudNext]_cloudVars /\ [Doc!DocNext]_(Doc!allVars)
         /\ part' = part
<1>1. CASE UNCHANGED ServicesVars
  BY <1>1 DEF ServicesVars, paneVars, cloudVars, docVars, versionVars, Doc!allVars, Doc!docVars, Doc!versionVars
<1>2. CASE part = "history" /\ HistoryPart /\ UNCHANGED part
  BY <1>2 DEF HistoryPart, paneVars, cloudVars
<1>3. CASE part = "files" /\ FilesPart /\ UNCHANGED part
  BY <1>3 DEF FilesPart, paneVars, cloudVars
<1>4. CASE (SignInPart \/ UploadPart) /\ UNCHANGED part
  BY <1>4 DEF SignInPart, UploadPart, paneVars, docVars, versionVars, Doc!allVars, Doc!docVars, Doc!versionVars
<1>5. CASE CommandPart /\ UNCHANGED part
  BY <1>5 DEF CommandPart, paneVars, cloudVars, docVars, versionVars, Doc!allVars, Doc!docVars, Doc!versionVars
<1>6. CASE PanesPart /\ UNCHANGED part
  BY <1>6 DEF PanesPart, cloudVars, docVars, versionVars, Doc!allVars, Doc!docVars, Doc!versionVars
<1>7. CASE (LivePart \/ SheepPart) /\ UNCHANGED part
  BY <1>7 DEF LivePart, SheepPart, paneVars, cloudVars, docVars, versionVars, Doc!allVars, Doc!docVars, Doc!versionVars
<1> QED
  BY <1>1, <1>2, <1>3, <1>4, <1>5, <1>6, <1>7 DEF ServicesNext

(* The panes show the selected object's contents, but for one that a       *)
(* request sent before the last change of object answered; the panel knows *)
(* one loop of embeddings at most, which it can stop and which stays on its*)
(* table unless another was selected (ObjectDetails.svelte), also when the *)
(* same object is selected again.                                          *)
THEOREM PanesAreOfTheSelection == ServicesSpec => []PanesTellTheTruth
<1>1. ServicesInit => PanesInv
  BY PanesStart DEF ServicesInit
<1>2. PanesInv /\ [ServicesNext]_ServicesVars => PanesInv'
  BY EachForItself, PanesStay
<1>3. PanesInv => PanesTellTheTruth
  BY PanesSuffice DEF PanesTellTheTruth
<1> QED
  BY <1>1, <1>2, <1>3, PTL DEF ServicesSpec

(* Every audit entry is accounted for and in its order, and the upload     *)
(* follows the sign-in and the features that are stored, whatever they say *)
(* (CloudAuditService.ts, auth.ts), for any batch size and any buffer.     *)
THEOREM EntriesAreAccountedFor == ServicesSpec => []UploadIsRight
<1>1. ServicesInit => CloudInv
  BY CloudStart DEF ServicesInit
<1>2. CloudInv /\ [ServicesNext]_ServicesVars => CloudInv'
  BY EachForItself, CloudStay
<1>3. CloudInv => UploadIsRight
  BY CloudSuffices DEF UploadIsRight
<1> QED
  BY <1>1, <1>2, <1>3, PTL DEF ServicesSpec

(* A version is the text its row stands for, the branch ends with the      *)
(* newest rows, the tags are the labels, a clean tab is on disk, and what  *)
(* is captured as compiled did compile, but after the failures each of     *)
(* them names (object_versions.rs, sql-editor.svelte.ts, sql-files.ts).    *)
THEOREM DocumentsAndVersionsAgree == ServicesSpec => []DocumentsTellTheTruth
<1>1. ServicesInit => DocInv
  BY DocStart DEF ServicesInit
<1>2. DocInv /\ [ServicesNext]_ServicesVars => DocInv'
  BY EachForItself, DocStay
<1>3. DocInv => DocumentsTellTheTruth
  BY DocSuffices DEF DocumentsTellTheTruth
<1> QED
  BY <1>1, <1>2, <1>3, PTL DEF ServicesSpec
=============================================================================
