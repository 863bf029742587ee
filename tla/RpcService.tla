----------------------------- MODULE RpcService -----------------------------
(***************************************************************************)
(* What the rest of the application may rely on when it calls the sidecar: *)
(* a request is executed at most once, only while its caller is still      *)
(* waiting, and the caller is told either the result of that execution,    *)
(* that the answer was lost (the request may or may not have run), or that *)
(* the request was refused (it never ran and never will).                  *)
(***************************************************************************)
EXTENDS Naturals

CONSTANT Calls

VARIABLES
  status,  \* status[c]: what the caller of c knows
  runs     \* runs[c]: how often the handler of c was started

svars == <<status, runs>>

SInit ==
  /\ status = [c \in Calls |-> "idle"]
  /\ runs = [c \in Calls |-> 0]

Answer(c, from, to) ==
  /\ status[c] \in from
  /\ status' = [status EXCEPT ![c] = to]
  /\ UNCHANGED runs

Issue(c)    == Answer(c, {"idle"}, "pending")
Complete(c) == runs[c] = 1 /\ Answer(c, {"pending"}, "result")
Lose(c)     == Answer(c, {"pending"}, "lost")
Refuse(c)   == runs[c] = 0 /\ Answer(c, {"idle", "pending"}, "refused")

Execute(c) ==
  /\ status[c] = "pending"
  /\ runs[c] = 0
  /\ runs' = [runs EXCEPT ![c] = 1]
  /\ UNCHANGED status

SNext == \E c \in Calls :
  Issue(c) \/ Execute(c) \/ Complete(c) \/ Lose(c) \/ Refuse(c)

SSpec == SInit /\ [][SNext]_svars
=============================================================================
