---------------------------- MODULE SchemaBrowser ----------------------------
(***************************************************************************)
(* The tree of schemas of a workspace page (SchemaTree.svelte and          *)
(* routes/workspace/[id]/+page.svelte) and the REST endpoints that are     *)
(* previewed and applied over it (RestApiPreview.svelte).                  *)
(*                                                                         *)
(* A refresh replaces the nodes; what is still loading for a former node   *)
(* is written into that node, which nobody shows.                          *)
(***************************************************************************)
EXTENDS Naturals

CONSTANTS
  Schemas, Own,    \* of these the one that is current
  Kinds,           \* of objects; one is REST_MODULE
  Configs,         \* endpoints that can be built
  Filters,         \* what is typed into the filter: names of schemas and of endpoints
  MaxLoads, MaxLists, MaxPreviews,   \* bounds: steps that load, lists asked for, previews
  Nil

ASSUME TreeAssumption == Own \in Schemas /\ "REST_MODULE" \in Kinds

VARIABLES
  deployed,    \* the endpoints the database has
  tree,        \* the nodes, the filter, sessionLost, fatal
  loads,       \* kinds on their way
  lists,       \* listSchemas on its way: of a refresh, of a reconnect
  builder,     \* showApiBuilder, previewSql, previewConfig
  previews, applies,   \* ordsGenerateSql and ordsApply on their way
  asked,       \* the previews asked for
  applied      \* history: the endpoints of which the page heard that they were applied

treeVars == <<deployed, tree, loads, lists, builder, previews, applies, asked, applied>>

(* A kind of a node.  Its n is the load it shows, asked the last one.      *)
IdleKind == [st |-> "idle", value |-> {}, n |-> 0, asked |-> 0]
newSchemaNode(s) ==
  [expanded |-> s = Own, kinds |-> [k \in Kinds |-> IdleKind],
   reopened |-> FALSE]   \* history: it was collapsed, and came back open

IdleKinds(t, names) ==
  {p \in names \X Kinds : t.node[p[1]].kinds[p[2]].st = "idle"}

(* Some kinds begin to load together.                                      *)
Asking(c, n) == [c EXCEPT !.st = "loading", !.asked = n]
loadKind(t, pairs) ==
  [t EXCEPT !.asks = @ + 1,
            !.node = [s \in Schemas |-> [t.node[s] EXCEPT !.kinds =
              [k \in Kinds |-> LET c == t.node[s].kinds[k] IN
                               IF <<s, k>> \in pairs THEN Asking(c, t.asks + 1) ELSE c]]]]

(* Only the modules of the current schema change meanwhile.                *)
LoadsOf(t, pairs) ==
  {[n |-> t.asks + 1, gen |-> t.gen, s |-> p[1], k |-> p[2],
    read |-> IF p = <<Own, "REST_MODULE">> THEN Nil ELSE {p[2]}] : p \in pairs}

FirstTree ==
  [gen |-> 0, node |-> [s \in Schemas |-> newSchemaNode(s)], search |-> Nil, lost |-> FALSE,
   fatal |-> FALSE, asks |-> 0, listed |-> 0]

TreeInit ==
  /\ deployed = {}
  /\ tree = loadKind(FirstTree, IdleKinds(FirstTree, {Own}))
  /\ loads = LoadsOf(FirstTree, IdleKinds(FirstTree, {Own}))
  /\ lists = {} /\ previews = {} /\ applies = {}
  /\ builder = [open |-> FALSE, sql |-> Nil, config |-> Nil, modal |-> 0]
  /\ asked = 0 /\ applied = {}

ApiVars == <<builder, previews, applies, asked, applied>>

-----------------------------------------------------------------------------
(* What the filter leaves.  It looks at the names of schemas, and at the   *)
(* objects that are loaded.                                                *)
NameMatches(s) == tree.search \in {Nil, s}
SchemaVisible(s) ==
  NameMatches(s) \/ \E k \in Kinds : tree.search \in tree.node[s].kinds[k].value
filteredObjects(s, k) ==
  {o \in tree.node[s].kinds[k].value : NameMatches(s) \/ o = tree.search}
KindShown(s, k) ==
  /\ SchemaVisible(s) /\ (tree.node[s].expanded \/ tree.search # Nil)
  /\ tree.node[s].kinds[k].st = "ok" => filteredObjects(s, k) # {}

(* The page takes clicks, and no dialog lies over the tree.                *)
TreeFree == ~tree.fatal /\ ~builder.open /\ builder.sql = Nil

Searched(q) ==
  /\ TreeFree /\ q # tree.search
  /\ tree' = [tree EXCEPT !.search = q]
  /\ UNCHANGED <<deployed, loads, lists, ApiVars>>

BeginLoading(t, pairs) ==
  IF pairs = {} THEN tree' = t /\ UNCHANGED loads
  ELSE /\ t.asks < MaxLoads
       /\ tree' = loadKind(t, pairs) /\ loads' = loads \cup LoadsOf(t, pairs)

Toggled(s) ==
  LET open == ~tree.node[s].expanded IN
  [tree EXCEPT !.node[s].expanded = open,
               !.node[s].reopened = tree.node[s].reopened /\ ~open]
onToggle(s) ==
  LET t == Toggled(s) IN
  /\ TreeFree /\ SchemaVisible(s)
  /\ BeginLoading(t, IF t.node[s].expanded THEN IdleKinds(t, {s}) ELSE {})
  /\ UNCHANGED <<deployed, lists, ApiVars>>

(* A kind is opened, by the user or because it is shown again as open.     *)
onKindExpand(s, k) ==
  /\ TreeFree /\ KindShown(s, k) /\ tree.node[s].kinds[k].st = "idle"
  /\ BeginLoading(tree, {<<s, k>>})
  /\ UNCHANGED <<deployed, lists, ApiVars>>
onRetryKind(s, k) ==
  /\ TreeFree /\ KindShown(s, k) /\ tree.node[s].kinds[k].st = "err"
  /\ BeginLoading(tree, {<<s, k>>})
  /\ UNCHANGED <<deployed, lists, ApiVars>>

(* The sidecar reads what ORDS has.                                        *)
LoadRead(l) ==
  /\ l.read = Nil /\ loads' = (loads \ {l}) \cup {[l EXCEPT !.read = deployed]}
  /\ UNCHANGED <<deployed, tree, lists, ApiVars>>

(* Mutation: an answer goes into the node that has the name by now.        *)
Shows_ByName(l) == TRUE
Shows(l) == l.gen = tree.gen

KindRead(l, st) ==
  [tree.node[l.s].kinds[l.k] EXCEPT !.st = st, !.n = l.n, !.value = IF st = "ok" THEN l.read ELSE {}]
Written(l, st) ==
  IF Shows(l) THEN [tree.node EXCEPT ![l.s].kinds[l.k] = KindRead(l, st)] ELSE tree.node
LoadAnswered(l, how) ==
  /\ how = "ok" => l.read # Nil
  /\ loads' = loads \ {l}
  /\ tree' = [tree EXCEPT !.node = Written(l, IF how = "ok" THEN "ok" ELSE "err"),
                          !.lost = @ \/ how = "lost"]
  /\ UNCHANGED <<deployed, lists, ApiVars>>

-----------------------------------------------------------------------------
(* The list of schemas again: by the button, of which there is one at a    *)
(* time and which first notes what is open, or by a reconnect.             *)
Expanded == {s \in Schemas : tree.node[s].expanded}
Listed(kind, t) ==
  /\ tree.listed < MaxLists
  /\ lists' = lists \cup {[n |-> tree.listed + 1, kind |-> kind, open |-> Expanded]}
  /\ tree' = [t EXCEPT !.listed = @ + 1]
  /\ UNCHANGED <<deployed, loads, ApiVars>>
refreshSchemas ==
  TreeFree /\ (\A r \in lists : r.kind # "refresh") /\ Listed("refresh", tree)
onReconnect == TreeFree /\ tree.lost /\ Listed("boot", [tree EXCEPT !.lost = FALSE])

(* What the new nodes load: those that were open; of a reconnect, the      *)
(* current one.                                                            *)
(* Mutation: nodes that were open come back so, and load nothing.          *)
ToExpand_None(r) == {}
ToExpand(r) == IF r.kind = "boot" THEN {Own} ELSE r.open

NewNodes(r) ==
  [s \in Schemas |->
     [newSchemaNode(s) EXCEPT !.expanded = @ \/ (r.kind = "refresh" /\ s \in r.open),
                              !.reopened = s = Own /\ r.kind = "refresh" /\ s \notin r.open]]
ListAnswered(r, ok) ==
  LET t == [tree EXCEPT !.gen = @ + 1, !.node = NewNodes(r)] IN
  /\ lists' = lists \ {r}
  /\ IF ok
     THEN BeginLoading(t, IdleKinds(t, ToExpand(r)))
     ELSE tree' = [tree EXCEPT !.fatal = @ \/ r.kind = "boot"] /\ UNCHANGED loads
  /\ UNCHANGED <<deployed, ApiVars>>

-----------------------------------------------------------------------------
(* An endpoint: the builder asks for its SQL, the preview shows it, and    *)
(* what is applied is the configuration, from which the sidecar makes the  *)
(* SQL again.  The preview lies over the builder, the builder over the     *)
(* tree; a click beside either closes it.                                  *)
openApiBuilder ==
  /\ TreeFree /\ builder' = [builder EXCEPT !.open = TRUE]
  /\ UNCHANGED <<deployed, tree, loads, lists, previews, applies, asked, applied>>
BuilderClosed ==
  /\ ~tree.fatal /\ builder.open /\ builder.sql = Nil
  /\ builder' = [builder EXCEPT !.open = FALSE]
  /\ UNCHANGED <<deployed, tree, loads, lists, previews, applies, asked, applied>>

onPreview(c) ==
  /\ ~tree.fatal /\ builder.open /\ builder.sql = Nil /\ asked < MaxPreviews
  /\ previews' = previews \cup {[n |-> asked + 1, config |-> c]} /\ asked' = asked + 1
  /\ UNCHANGED <<deployed, tree, loads, lists, builder, applies, applied>>

(* Mutation: the configuration is that of the last click.                  *)
ConfigOf_Last(p) == (CHOOSE x \in previews : \A y \in previews : y.n <= x.n).config
ConfigOf(p) == p.config

handleBuilderPreview(p, ok) ==
  /\ previews' = previews \ {p}
  /\ builder' = IF ok THEN [builder EXCEPT !.sql = p.config, !.config = ConfigOf(p),
                                           !.modal = IF builder.sql = Nil THEN @ + 1 ELSE @]
                ELSE builder
  /\ UNCHANGED <<deployed, tree, loads, lists, applies, asked, applied>>

(* The dialog that shows the SQL is busy while what it applies goes on.    *)
Applying == \E a \in applies : a.modal = builder.modal
PreviewClosed ==
  /\ ~tree.fatal /\ builder.sql # Nil
  /\ \/ builder' = [builder EXCEPT !.sql = Nil]
     \/ ~Applying /\ builder' = [builder EXCEPT !.sql = Nil, !.open = FALSE]   \* copied to a tab
  /\ UNCHANGED <<deployed, tree, loads, lists, previews, applies, asked, applied>>

handlePreviewApply ==
  /\ ~tree.fatal /\ builder.sql # Nil /\ ~Applying
  /\ applies' = applies \cup {[config |-> builder.config, modal |-> builder.modal, pc |-> "sent", n |-> 0]}
  /\ UNCHANGED <<deployed, tree, loads, lists, builder, previews, asked, applied>>
ApplyServed(a, ok) ==
  /\ a.pc = "sent"
  /\ applies' = (applies \ {a}) \cup {[a EXCEPT !.pc = IF ok THEN "made" ELSE "failed"]}
  /\ deployed' = IF ok THEN deployed \cup {a.config} ELSE deployed
  /\ UNCHANGED <<tree, loads, lists, builder, previews, asked, applied>>

(* Mutation: only modules that were never loaded are loaded.               *)
Reloaded_Idle == {p \in {<<Own, "REST_MODULE">>} : tree.node[Own].kinds[p[2]].st = "idle"}
Reloaded == {<<Own, "REST_MODULE">>}

ApplyAnswered(a) ==
  /\ \/ /\ a.pc = "made" /\ BeginLoading(tree, Reloaded)
        /\ applies' = (applies \ {a}) \cup {[a EXCEPT !.pc = "reload", !.n = tree.asks + 1]}
        /\ applied' = applied \cup {a.config}
     \/ a.pc = "failed" /\ applies' = applies \ {a} /\ UNCHANGED <<tree, loads, applied>>
  /\ UNCHANGED <<deployed, lists, builder, previews, asked>>

(* The dialogs close, whatever they show by now.                           *)
Reloading(a) == \E l \in loads : l.n = a.n
ApplyEnds(a) ==
  /\ a.pc = "reload" /\ ~Reloading(a)
  /\ applies' = applies \ {a}
  /\ builder' = [builder EXCEPT !.open = FALSE, !.sql = Nil, !.config = Nil]
  /\ UNCHANGED <<deployed, tree, loads, lists, previews, asked, applied>>

TreeNext ==
  \/ \E q \in {Nil} \cup Filters : Searched(q)
  \/ \E s \in Schemas : onToggle(s) \/ \E k \in Kinds : onKindExpand(s, k) \/ onRetryKind(s, k)
  \/ \E l \in loads : LoadRead(l) \/ \E how \in {"ok", "err", "lost"} : LoadAnswered(l, how)
  \/ refreshSchemas \/ onReconnect
  \/ \E r \in lists, ok \in BOOLEAN : ListAnswered(r, ok)
  \/ openApiBuilder \/ BuilderClosed \/ PreviewClosed \/ handlePreviewApply
  \/ \E c \in Configs : onPreview(c)
  \/ \E p \in previews, ok \in BOOLEAN : handleBuilderPreview(p, ok)
  \/ \E a \in applies : ApplyAnswered(a) \/ ApplyEnds(a) \/ \E ok \in BOOLEAN : ApplyServed(a, ok)

-----------------------------------------------------------------------------
(* Properties.                                                             *)

(* A kind that turns is being loaded, and a load that is on its way for a  *)
(* node that went never answers for the one that came (loadKind).          *)
SpinnersLoad ==
  \A s \in Schemas, k \in Kinds :
    LET c == tree.node[s].kinds[k] IN
    /\ c.st = "loading" => \E l \in loads : l.gen = tree.gen /\ l.s = s /\ l.k = k
    /\ c.n <= c.asked

(* A schema that is shown open has loaded, or loads, all its kinds; but    *)
(* for the current one, which a refresh opens although it was collapsed.   *)
ExpandedIsLoaded ==
  \A s \in Expanded : IdleKinds(tree, {s}) # {} => tree.node[s].reopened

(* What was applied is in the list of modules, once that is loaded, unless *)
(* an older load came after a newer one.                                   *)
AppliedIsListed ==
  LET c == tree.node[Own].kinds["REST_MODULE"] IN
  c.st = "ok" /\ c.n = c.asked => applied \subseteq c.value

(* What would be applied is what the preview shows.                        *)
PreviewIsOfConfig == builder.sql # Nil => builder.config = builder.sql

TreeTellsTheTruth == SpinnersLoad /\ ExpandedIsLoaded /\ AppliedIsListed /\ PreviewIsOfConfig

(* Statements the code does not keep: an endpoint that could not be        *)
(* applied says so; a preview is closed by the user or by its own apply;   *)
(* schemas opened or closed while the tree is refreshed stay so.           *)
FailuresAreTold ==
  \A a \in applies : a.pc = "failed" => builder.sql # Nil /\ builder.modal = a.modal
PreviewsStay ==
  \A a \in applies : a.pc = "reload" /\ ~Reloading(a) => builder.sql \in {Nil, a.config}
TogglesStay == \A r \in lists : r.kind = "refresh" => Expanded \ {Own} = r.open \ {Own}
=============================================================================
