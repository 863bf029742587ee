-------------------------- MODULE MCOracleSession --------------------------
(* Instances of OracleSession for TLC: what the requests may ask.          *)
EXTENDS OracleSession, TLC

CONSTANTS r1, r2, r3, r4, r5, r6, T, U

Symmetry == Permutations(Requests)

Open(env) ==
  [op |-> "open", profile |-> [env |-> env, readOnly |-> FALSE, warn |-> env = "dev"]]
OpenReadOnly ==
  [op |-> "open", profile |-> [env |-> "prod", readOnly |-> TRUE, warn |-> FALSE]]
Plain(op) == [op |-> op]
S(kind) == [kind |-> kind, table |-> None]
On(kind, t) == [kind |-> kind, table |-> t]
Query(stmts) == [op |-> "query", stmts |-> stmts, ack |-> None]
Typed(stmts, t) == [op |-> "query", stmts |-> stmts, ack |-> t]
UnlockOf(t) == [op |-> "unlock", table |-> t]
CancelOf(r) == [op |-> "cancel", target |-> r]

(* Sessions replaced and closed under running work, guarded statements on  *)
(* prod, transactions and cancels.                                         *)
SafetyMenu ==
  {Open("dev"), Open("prod"), Plain("close"), Plain("embed"), Plain("call"), Plain("commit"),
   Plain("txState"), UnlockOf(T), Plain("ddl.confirm"),
   Query(<<S("change"), S("query")>>), Query(<<S("lockingQuery"), S("block")>>),
   Query(<<On("sweep", T)>>), Query(<<S("change"), On("truncate", T)>>),
   Query(<<S("other"), S("mark")>>), Query(<<S("end")>>)}
    \cup {CancelOf(r) : r \in Requests}

(* One request of each kind that waits, on a staging or read-only session. *)
LiveMenu == {Open("staging"), OpenReadOnly, Plain("close"), Plain("embed"),
             Plain("txState"), Query(<<S("query"), S("change")>>),
             Typed(<<S("change"), On("truncate", T)>>, T)}

SwapMenu == {Open("dev"), Open("prod"), Plain("embed"),
             Typed(<<S("query"), On("truncate", T)>>, T)}
=============================================================================
