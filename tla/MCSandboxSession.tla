-------------------------- MODULE MCSandboxSession --------------------------
(***************************************************************************)
(* Instances of SandboxSession, SandboxBuild and SandboxDraft for TLC.     *)
(* They have no state in common; `part` says which of them acts, and the   *)
(* others stay in their initial states.                                    *)
(***************************************************************************)
EXTENDS SandboxSession, SandboxDraft

CONSTANTS o1, o2, q1, q2

VARIABLE part

SandboxVars == <<part, vars, buildVars, draftVars>>

(* Two schemas: a chain of foreign keys; and one whose third table has no  *)
(* neighbours and whose first refers to one with a type no file can hold.  *)
MCSchemas ==
  << [refs |-> {<<1, 2>>, <<2, 3>>}, uses |-> {<<11, 1>>, <<12, 3>>}, fatal |-> {}, tables |-> Tables],
     [refs |-> {<<1, 2>>}, uses |-> {<<12, 2>>}, fatal |-> {2}, tables |-> Tables] >>

(* Dry runs over every graph of foreign keys between three tables.         *)
Edges == {e \in Tables \X Tables : e[1] # e[2]} \cup {<<1, 1>>}
Graph(g) == [refs |-> g, uses |-> {}, fatal |-> {}, foreign |-> {}, personal |-> {}, others |-> {}]
Dry(p, n) == [primary |-> p, depth |-> n, level |-> 0, dry |-> TRUE, out |-> {}, again |-> FALSE]
Walks == {<<Graph(g), Dry(p, n), 0>> : g \in SUBSET Edges, p \in {{1}, {1, 2}}, n \in 1..2}

(* Builds from one chain of foreign keys, with objects that use a table,   *)
(* each other in a line, or each other in a ring.                          *)
Uses == {{<<11, 1>>}, {<<11, 2>>, <<12, 11>>, <<13, 12>>},
         {<<11, 12>>, <<12, 11>>, <<11, 1>>, <<13, 3>>}}
Chain(u, odd, o) ==
  [refs |-> {<<1, 2>>, <<2, 3>>}, uses |-> u, fatal |-> odd[1], foreign |-> odd[2],
   personal |-> {2}, others |-> o]
Build(p, n, l, e, a) ==
  [primary |-> p, depth |-> n, level |-> l, dry |-> FALSE, out |-> e, again |-> a]
Builds ==
  {<<Chain(u, odd, o), Build(p, n, l, e, k = 2), IF k = 0 THEN 0 ELSE 1>> :
     u \in Uses, odd \in {<<{}, {}>>, <<{3}, {}>>, <<{}, {3}>>}, o \in {{}, {12}},
     p \in {{}, {1}}, n \in 1..2, l \in {0, 2}, e \in {{}, {11}}, k \in 0..2}

SandboxInit ==
  /\ part \in {"session", "build", "draft"}
  /\ Init /\ DraftInit
  /\ \E c \in Walks \cup Builds :
       /\ BuildInit(c[1], c[2], c[3])
       /\ part # "build" => c = <<Graph({}), Dry({1}, 1), 0>>

(* A build that has answered does no more.                                 *)
BuildIsOver ==
  /\ part = "build" /\ at \in {"ended", "killed"}
  /\ UNCHANGED <<vars, buildVars, draftVars>>

(* A list of tables still outstays its page only before the first dry run. *)
DraftPart ==
  /\ DraftNext
  /\ past'.calls = 0 \/ \A l \in lists' : l.here

SandboxNext ==
  /\ \/ part = "session" /\ Next /\ UNCHANGED <<buildVars, draftVars>>
     \/ part = "build" /\ BuildNext /\ UNCHANGED <<vars, draftVars>>
     \/ BuildIsOver
     \/ part = "draft" /\ DraftPart /\ UNCHANGED <<vars, buildVars>>
  /\ UNCHANGED part

(* The fairness is that of FairSpec.                                       *)
SandboxSpec ==
  /\ SandboxInit /\ [][SandboxNext]_SandboxVars
  /\ \A o \in Opens : WF_vars(OpenSteps(o))
  /\ \A q \in Queries : WF_vars(QueryRuns(q)) /\ WF_vars(QueryEnds(q))

-----------------------------------------------------------------------------
(* SandboxBuild and SandboxDraft: the walks find what they are for, the    *)
(* file is of the spec and nothing else is left of a build (build.ts); the *)
(* review, the list and the file are of the draft as it is                 *)
(* (publish-wizard.svelte.ts).                                             *)
SandboxIsOfTheDraft ==
  /\ part = "build" => BuildsAreTrue
  /\ part = "draft" => DraftsAreTrue
=============================================================================
