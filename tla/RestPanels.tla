----------------------------- MODULE RestPanels -----------------------------
(***************************************************************************)
(* The dialogs around REST endpoints: the OAuth clients                    *)
(* (OAuthClientsPanel.svelte), the details of a module                     *)
(* (RestModuleDetails.svelte), the test of an endpoint                     *)
(* (RestTestPanel.svelte), the form of the builder (RestApiBuilder.svelte) *)
(* and what is known of ORDS (stores/ords.svelte.ts, with                  *)
(* OrdsBootstrapModal.svelte).  Each has a variable of its own; answers    *)
(* come in any order, and none is asked whether it is still wanted.        *)
(***************************************************************************)
EXTENDS Naturals

CONSTANTS
  Clients,       \* names of clients
  Modules,       \* modules, and the addresses that are tested
  Pages,         \* connections
  MaxCalls,      \* bound: the calls of a panel
  Nothing

ASSUME RestAssumption == Nothing \notin Pages /\ Pages # {} /\ Modules # {}

VARIABLES
  registered,    \* the clients the database has
  oauth, module, tester, form, ords

restVars == <<registered, oauth, module, tester, form, ords>>

Panel(number) == [open |-> FALSE, number |-> number, rows |-> {}, loading |-> FALSE, error |-> FALSE,
                  name |-> Nothing, creating |-> FALSE, secret |-> Nothing, confirm |-> Nothing,
                  shown |-> 0, asked |-> 0, stale |-> FALSE, calls |-> {}, count |-> 0]
Lists == {"tables", "procedures"}

RestInit ==
  /\ registered \in SUBSET Clients
  /\ oauth = Panel(0)
  /\ module = [selected |-> Nothing, shown |-> Nothing, loading |-> FALSE, failed |-> FALSE, last |-> 0, asked |-> 0,
               count |-> 0, calls |-> {}, exported |-> {}]
  /\ tester = [url |-> CHOOSE u \in Modules : TRUE, sending |-> FALSE, response |-> Nothing,
               sent |-> Nothing, token |-> Nothing, client |-> Nothing, fetching |-> FALSE,
               panel |-> 0, calls |-> {}, count |-> 0]
  /\ form \in [type : {"none"}, source : {Nothing}, key : {Nothing}, has : SUBSET Lists,
               full : {{}}, answered : {{}}, calls : {{}}, count : {0}, sheep : {Nothing}]
  /\ ords = [page |-> CHOOSE p \in Pages : TRUE, boot |-> "opening", session |-> Nothing,
             connectionId |-> Nothing, state |-> Nothing, shown |-> 0, asked |-> 0, visit |-> 0,
             modal |-> FALSE, modals |-> 0,
             saved |-> [p \in Pages |-> FALSE], enabled |-> {}, calls |-> {}, count |-> 0,
             misplaced |-> FALSE]

-----------------------------------------------------------------------------
(* The clients.  A panel that is closed is gone; what it asked goes on, and*)
(* its answer changes nothing.                                             *)
Oauth(o) == oauth' = o /\ UNCHANGED <<module, tester, form, ords>>
OauthAsks(o, kind, of) ==
  [o EXCEPT !.count = @ + 1,
            !.calls = @ \cup {[n |-> o.count + 1, panel |-> o.number, kind |-> kind, of |-> of,
                               pc |-> "asked", rows |-> {}]}]
LoadAsked(o) ==
  [OauthAsks(o, "list", Nothing) EXCEPT !.loading = TRUE, !.error = FALSE, !.asked = o.count + 1]
OfPanel(c) == oauth.open /\ c.panel = oauth.number
Keep(o) == [Panel(o.number) EXCEPT !.calls = {c \in o.calls : c.kind # "list"}, !.count = o.count]

OAuthOpened ==
  /\ ~oauth.open /\ oauth.count < MaxCalls
  /\ Oauth(LoadAsked([Keep(oauth) EXCEPT !.open = TRUE, !.number = @ + 1]))
  /\ UNCHANGED registered
OAuthClosed ==
  oauth.open /\ oauth.secret = Nothing /\ Oauth(Keep(oauth)) /\ UNCHANGED registered

(* The form stays open to the keyboard while its client is created.        *)
Usable == oauth.open /\ oauth.secret = Nothing /\ oauth.confirm = Nothing
NameTyped(c) ==
  /\ Usable /\ oauth.name # c
  /\ Oauth([oauth EXCEPT !.name = c]) /\ UNCHANGED registered
handleCreate ==
  /\ Usable /\ oauth.name # Nothing /\ ~oauth.creating /\ oauth.count < MaxCalls
  /\ Oauth([OauthAsks(oauth, "create", oauth.name) EXCEPT !.creating = TRUE, !.error = FALSE])
  /\ UNCHANGED registered

requestRevoke(c) ==
  /\ Usable /\ c \in oauth.rows /\ ~oauth.loading
  /\ Oauth([oauth EXCEPT !.confirm = c]) /\ UNCHANGED registered
(* Both buttons of the question lie in the backdrop, which hears their     *)
(* click as well and closes the panel; Escape only takes the question away.*)
confirmRevoke ==
  /\ oauth.confirm # Nothing /\ oauth.count < MaxCalls
  /\ Oauth(Keep(OauthAsks(oauth, "revoke", oauth.confirm))) /\ UNCHANGED registered
cancelRevoke(escaped) ==
  /\ oauth.confirm # Nothing
  /\ Oauth(IF escaped THEN [oauth EXCEPT !.confirm = Nothing] ELSE Keep(oauth))
  /\ UNCHANGED registered

(* The database; a client may be made although its roles are refused.      *)
(* History: stale, the rows are older than what another call changed.      *)
Served(c, how) ==
  LET made == registered \cup {c.of}
      now == CASE c.kind = "create" /\ how # "refused" -> made
               [] c.kind = "revoke" /\ how = "ok" -> registered \ {c.of}
               [] OTHER -> registered
      blind == now # registered /\ (~OfPanel(c) \/ how = "half") IN
  /\ c.pc = "asked"
  /\ how = "half" => c.kind = "create"
  /\ c.kind = "create" /\ c.of \in registered => how = "refused"
  /\ registered' = now
  /\ Oauth([oauth EXCEPT !.calls = (@ \ {c}) \cup {[c EXCEPT !.pc = how, !.rows = registered]},
                         !.stale = IF c.kind = "list" /\ c.n = oauth.asked /\ how = "ok" THEN FALSE ELSE @ \/ blind])

(* Mutation: nothing is loaded after a client was created.                 *)
AfterCreate_Kept(o) == o
AfterCreate(o) == LoadAsked(o)

OauthAnswered(c) ==
  LET o == [oauth EXCEPT !.calls = @ \ {c}] IN
  /\ c.pc # "asked" /\ UNCHANGED registered
  /\ IF ~OfPanel(c) THEN Oauth(o)
     ELSE IF c.kind = "list"
       THEN Oauth([o EXCEPT !.loading = FALSE, !.shown = c.n,
                            !.rows = IF c.pc = "ok" THEN c.rows ELSE @,
                            !.error = @ \/ c.pc # "ok", !.stale = @ \/ c.pc # "ok"])
     ELSE IF c.pc = "ok"
       THEN Oauth(AfterCreate([o EXCEPT !.creating = FALSE, !.name = Nothing, !.error = FALSE,
                                        !.secret = [of |-> c.of, name |-> oauth.name]]))
     ELSE Oauth([o EXCEPT !.creating = FALSE, !.error = TRUE])
SecretNoted ==
  oauth.secret # Nothing /\ Oauth([oauth EXCEPT !.secret = Nothing]) /\ UNCHANGED registered

OauthNext ==
  \/ OAuthOpened \/ OAuthClosed \/ handleCreate \/ confirmRevoke \/ SecretNoted
  \/ \E escaped \in BOOLEAN : cancelRevoke(escaped)
  \/ \E c \in Clients : NameTyped(c) \/ requestRevoke(c)
  \/ NameTyped(Nothing)   \* cancelled
  \/ \E c \in oauth.calls : OauthAnswered(c) \/ \E how \in {"ok", "half", "refused"} : Served(c, how)

-----------------------------------------------------------------------------
(* The details of the selected module, and its export into a tab.          *)
Module(m) == module' = m /\ UNCHANGED <<registered, oauth, tester, form, ords>>
ModuleAsks(m, kind) ==
  [m EXCEPT !.count = @ + 1,
            !.calls = @ \cup {[n |-> m.count + 1, kind |-> kind, of |-> m.selected]}]
DetailAsked(m) ==
  [ModuleAsks(m, "load") EXCEPT !.shown = Nothing, !.loading = TRUE, !.failed = FALSE,
                                   !.asked = m.count + 1]
Detailed == module.shown # Nothing /\ ~module.loading /\ ~module.failed

(* Mutation: the details are loaded when the panel comes, and then stay.   *)
ModuleShown_Once(m) ==
  IF module.selected = Nothing THEN DetailAsked(m) ELSE m
ModuleShown(m) == DetailAsked(m)

ModuleSelected(m) ==
  /\ m # module.selected /\ module.count < MaxCalls
  /\ Module(ModuleShown([module EXCEPT !.selected = m]))
onExportSql ==
  /\ Detailed /\ module.count < MaxCalls
  /\ Module(ModuleAsks(module, "export"))
ModuleAnswered(c, ok) ==
  LET m == [module EXCEPT !.calls = @ \ {c}] IN
  IF c.kind = "load" THEN Module([m EXCEPT !.loading = FALSE, !.failed = @ \/ ~ok, !.last = c.n,
                                               !.shown = IF ok THEN c.of ELSE @])
  ELSE Module(IF ok THEN [m EXCEPT !.exported = @ \cup {<<c.of, module.selected>>}] ELSE m)

ModuleNext ==
  \/ \E m \in Modules : ModuleSelected(m)
  \/ onExportSql
  \/ \E c \in module.calls, ok \in BOOLEAN : ModuleAnswered(c, ok)

-----------------------------------------------------------------------------
(* The test of an endpoint: one request, and one for a token, at a time.   *)
(* The address changes with what is typed, and with the module.            *)
Tester(t) == tester' = t /\ UNCHANGED <<registered, oauth, module, form, ords>>
TesterAsks(t, kind, of) ==
  [t EXCEPT !.count = @ + 1, !.calls = @ \cup {[panel |-> t.panel, kind |-> kind, of |-> of]}]

UrlChanged(u) == u # tester.url /\ Tester([tester EXCEPT !.url = u])
TesterReopened ==
  /\ tester.panel < MaxCalls
  /\ Tester([tester EXCEPT !.panel = @ + 1, !.sending = FALSE, !.response = Nothing, !.sent = Nothing,
                           !.token = Nothing, !.client = Nothing, !.fetching = FALSE])
send ==
  /\ ~tester.sending /\ tester.count < MaxCalls
  /\ Tester(TesterAsks([tester EXCEPT !.sending = TRUE, !.response = Nothing, !.sent = tester.url],
                       "send", tester.url))
ClientTyped(c) == c # tester.client /\ Tester([tester EXCEPT !.client = c])
fetchToken ==
  /\ ~tester.fetching /\ tester.client # Nothing /\ tester.count < MaxCalls
  /\ Tester(TesterAsks([tester EXCEPT !.fetching = TRUE], "token", tester.client))
(* Mutation: the answer of a panel that was closed is taken.               *)
OfTester_Any(c) == TRUE
OfTester(c) == c.panel = tester.panel

TesterAnswered(c, ok) ==
  LET t == [tester EXCEPT !.calls = @ \ {c}] IN
  IF ~OfTester(c) THEN Tester(t)
  ELSE IF c.kind = "send" THEN Tester([t EXCEPT !.sending = FALSE, !.response = IF ok THEN c.of ELSE @])
  ELSE Tester(IF ok THEN [t EXCEPT !.fetching = FALSE, !.token = c.of, !.client = Nothing]
              ELSE [t EXCEPT !.fetching = FALSE])

TesterNext ==
  \/ \E u \in Modules : UrlChanged(u)
  \/ \E c \in Clients : ClientTyped(c)
  \/ TesterReopened \/ send \/ fetchToken
  \/ \E c \in tester.calls, ok \in BOOLEAN : TesterAnswered(c, ok)

-----------------------------------------------------------------------------
(* The form of the builder.  Objects are told apart by their kind.         *)
Form(f) == form' = f /\ UNCHANGED <<registered, oauth, module, tester, ords>>
ListOf == [t \in {"auto-crud", "procedure"} |-> IF t = "procedure" THEN "procedures" ELSE "tables"]
KindsOf == [l \in Lists |-> IF l = "tables" THEN {"TABLE", "VIEW"} ELSE {"PROCEDURE", "FUNCTION"}]

(* The effect: a list that is empty is asked for, when the type needs it,  *)
(* and again when it was assigned and is still empty.                      *)
Fills(f) ==
  IF f.type \in DOMAIN ListOf /\ ListOf[f.type] \notin f.full
  THEN [f EXCEPT !.count = @ + 1, !.calls = @ \cup {[n |-> f.count + 1, kind |-> ListOf[f.type]]}]
  ELSE f
BuilderShown(kind) ==
  /\ form.type = "none"
  /\ Form(Fills([form EXCEPT !.type = IF kind \in {"PROCEDURE", "FUNCTION"} THEN "procedure" ELSE "auto-crud",
                             !.source = kind, !.key = kind]))
TypeChosen(t) ==
  /\ form.type \notin {"none", t} /\ form.count < MaxCalls
  /\ Form(Fills([form EXCEPT !.type = t]))
onObjectChange(kind) ==
  /\ form.type \in DOMAIN ListOf /\ ListOf[form.type] \in form.full
  /\ kind \in KindsOf[ListOf[form.type]] \ {form.key}
  /\ Form([form EXCEPT !.source = kind, !.key = kind])
ListCame(c, ok) ==
  LET f == [form EXCEPT !.calls = @ \ {c}] IN
  /\ c.kind \in Lists /\ form.count < MaxCalls
  /\ Form(IF ~ok THEN f
          ELSE IF c.kind \in f.has THEN [f EXCEPT !.full = @ \cup {c.kind}, !.answered = @ \cup {c.kind}]
          ELSE IF f.type \in DOMAIN ListOf /\ ListOf[f.type] = c.kind
            THEN Fills([f EXCEPT !.answered = @ \cup {c.kind}])
          ELSE [f EXCEPT !.answered = @ \cup {c.kind}])

(* A suggestion, asked for in an overlay that may be closed meanwhile.     *)
Suggestions == [type : {Nothing, "procedure", "custom-sql"}, source : {Nothing, "TABLE", "PROCEDURE"}]
requestSuggestion ==
  /\ form.type # "none" /\ form.sheep = Nothing /\ form.count < MaxCalls
  /\ \A c \in form.calls : c.kind # "suggest"
  /\ Form([form EXCEPT !.count = @ + 1, !.calls = @ \cup {[n |-> form.count + 1, kind |-> "suggest"]}])
SuggestionCame(c, s) ==
  /\ c.kind = "suggest" /\ Form([form EXCEPT !.calls = @ \ {c}, !.sheep = s])
TriedAgain == form.sheep # Nothing /\ Form([form EXCEPT !.sheep = Nothing])

(* Mutation: the object is taken over, and the menu left as it was.        *)
KeyOf_Kept(f, kind) == f.key
KeyOf(f, kind) == kind

applySuggestion ==
  LET s == form.sheep
      f == [form EXCEPT !.type = IF s.type = Nothing THEN @ ELSE s.type,
                        !.source = IF s.source = Nothing THEN @ ELSE s.source,
                        !.key = IF s.source = Nothing THEN @ ELSE KeyOf(form, s.source),
                        !.sheep = Nothing] IN
  /\ s # Nothing /\ form.count < MaxCalls
  /\ Form(IF f.type = form.type THEN Fills(f) ELSE Fills(Fills(f)))   \* the effect runs as well

FormNext ==
  \/ \E kind \in {Nothing, "TABLE", "PROCEDURE"} : BuilderShown(kind)
  \/ \E t \in {"auto-crud", "procedure", "custom-sql"} : TypeChosen(t)
  \/ \E kind \in {"TABLE", "VIEW", "PROCEDURE", "FUNCTION"} : onObjectChange(kind)
  \/ \E c \in form.calls : \/ \E ok \in BOOLEAN : ListCame(c, ok)
                           \/ \E s \in Suggestions \cup {Nothing} : SuggestionCame(c, s)
  \/ requestSuggestion \/ TriedAgain \/ applySuggestion

-----------------------------------------------------------------------------
(* What is known of ORDS, in a store that outlives pages.  A page opens    *)
(* its session, lists its schemas, and then tells the store whose it is.   *)
Ords(o) == ords' = o /\ UNCHANGED <<registered, oauth, module, tester, form>>
OrdsAsks(o, kind, visit, modal) ==
  [o EXCEPT !.count = @ + 1, !.asked = IF kind = "enable" THEN @ ELSE o.count + 1,
            !.calls = @ \cup {[n |-> o.count + 1, kind |-> kind, visit |-> visit, modal |-> modal,
                               of |-> o.session, pc |-> "asked", enabled |-> FALSE]}]

PageEntered(p) ==
  /\ p # ords.page /\ ords.boot = "up"
  /\ Ords([ords EXCEPT !.page = p, !.boot = "opening", !.visit = @ + 1, !.modal = FALSE])
SessionOpened ==
  ords.boot = "opening" /\ Ords([ords EXCEPT !.boot = "listing", !.session = ords.page])
SchemasListed ==
  /\ ords.boot = "listing" /\ ords.count < MaxCalls
  /\ Ords(OrdsAsks([ords EXCEPT !.boot = "up", !.connectionId = ords.page], "boot", ords.visit, 0))

(* The dialog also opens from an error of the panel of clients.            *)
Modal(o) == [o EXCEPT !.modal = TRUE, !.modals = IF ords.modal THEN @ ELSE @ + 1]
onOpenBootstrap == ords.boot # "opening" /\ ~ords.modal /\ Ords(Modal(ords))
ModalShown == ords.modal /\ ords.state # Nothing
ModalClosed == ModalShown /\ Ords([ords EXCEPT !.modal = FALSE])
onEnableSchema ==
  /\ ModalShown /\ ~ords.state.enabled /\ ords.count < MaxCalls
  /\ \A c \in ords.calls : c.modal # ords.modals
  /\ Ords(OrdsAsks(ords, "enable", ords.visit, ords.modals))
setBaseUrl ==
  /\ ModalShown /\ ords.state.enabled /\ ~ords.state.url
  /\ Ords([ords EXCEPT !.state.url = TRUE, !.modal = FALSE, !.misplaced = @ \/ ords.page # ords.connectionId,
                       !.saved = IF ords.connectionId = Nothing THEN @ ELSE [@ EXCEPT ![ords.connectionId] = TRUE]])

OrdsServed(c, ok) ==
  /\ c.pc = "asked"
  /\ Ords([ords EXCEPT !.enabled = IF ok /\ c.kind = "enable" THEN @ \cup {c.of} ELSE @,
                       !.calls = (@ \ {c}) \cup {[c EXCEPT !.pc = IF ok THEN "ok" ELSE "failed",
                                                          !.enabled = c.of \in ords.enabled]}])

(* Mutation: an address that was typed gives way to one that is detected.  *)
Url_Detected(o) == FALSE
Url(o) == o.connectionId # Nothing /\ o.saved[o.connectionId]

Detected(o, c) ==
  [o EXCEPT !.shown = c.n,
            !.state = IF c.pc = "ok" THEN [of |-> c.of, enabled |-> c.enabled, url |-> Url(o)] ELSE Nothing]
OrdsAnswered(c) ==
  LET o == [ords EXCEPT !.calls = @ \ {c}]
      d == Detected(o, c)
      here == c.visit = ords.visit /\ c.pc = "ok" IN
  /\ c.pc # "asked"
  /\ CASE c.kind = "boot" -> Ords(IF here /\ ~(d.state.enabled /\ d.state.url) THEN Modal(d) ELSE d)
       [] c.kind = "again" -> Ords(IF here /\ d.state.enabled THEN [d EXCEPT !.modal = FALSE] ELSE d)
       [] c.kind = "enable" /\ c.pc = "ok" ->
            ords.count < MaxCalls /\ Ords(OrdsAsks(o, "again", c.visit, c.modal))
       [] OTHER -> Ords(o)

OrdsNext ==
  \/ \E p \in Pages : PageEntered(p)
  \/ SessionOpened \/ SchemasListed \/ onOpenBootstrap \/ ModalClosed \/ onEnableSchema \/ setBaseUrl
  \/ \E c \in ords.calls : OrdsAnswered(c) \/ \E ok \in BOOLEAN : OrdsServed(c, ok)

-----------------------------------------------------------------------------
(* Properties.                                                             *)

(* The rows are the clients there are, once nothing is on its way; unless  *)
(* an older list came last, a call of a former panel changed them since, a *)
(* client was half made, or the list could not be had.                     *)
ClientsAreRegistered ==
  oauth.open /\ oauth.calls = {} /\ oauth.shown = oauth.asked /\ ~oauth.stale => oauth.rows = registered

(* The details are of the selected module, once nothing is on its way and  *)
(* unless an older answer came last.                                       *)
DetailsAreOfModule ==
  LET loads == {c \in module.calls : c.kind = "load"} IN
  /\ module.loading => loads # {}
  /\ loads = {} /\ module.last = module.asked /\ Detailed => module.shown = module.selected

(* A response is of the request that was sent last, and a panel that waits *)
(* has a request on its way (RestTestPanel).                               *)
ResponseWasSent ==
  /\ tester.response \in {Nothing, tester.sent}
  /\ tester.sending => \E c \in tester.calls : c.panel = tester.panel /\ c.kind = "send"

(* What would be previewed is what the menu of objects has selected.       *)
SelectShowsSource == form.key = form.source

(* Once the page is up and nothing is on its way, what is known of ORDS is *)
(* about its connection, with the address that was typed for it; unless an *)
(* older detection came last.                                              *)
DetectionIsOfPage ==
  ords.boot = "up" /\ ords.calls = {} /\ ords.state # Nothing /\ ords.shown = ords.asked =>
    /\ ords.state.of = ords.page /\ (ords.state.enabled <=> ords.page \in ords.enabled)
    /\ ords.saved[ords.page] => ords.state.url

RestTellsTheTruth ==
  /\ ClientsAreRegistered /\ DetailsAreOfModule /\ ResponseWasSent
  /\ SelectShowsSource /\ DetectionIsOfPage

(* Statements the code does not keep: a secret is shown under the name of  *)
(* its client; the panel that revokes hears whether it did; an export has  *)
(* the name of its module; a response is of the address above it; what is  *)
(* previewed is of the type that is chosen; an empty list is not asked for *)
(* again; an address is kept for the page it was typed on.                 *)
SecretsAreNamed == oauth.secret # Nothing => oauth.secret.name = oauth.secret.of
RevokesAreHeard == \A c \in oauth.calls : c.kind = "revoke" => OfPanel(c)
ExportsAreNamed == \A e \in module.exported : e[1] = e[2]
ResponseIsOfUrl == tester.response \in {Nothing, tester.url}
SourceFitsType ==
  form.type \in DOMAIN ListOf /\ form.source # Nothing => form.source \in KindsOf[ListOf[form.type]]
EmptyListsAreAnswers == \A c \in form.calls : c.kind \notin form.answered \ form.full
AddressIsOfPage == ~ords.misplaced
=============================================================================
