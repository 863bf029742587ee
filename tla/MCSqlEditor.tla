---------------------------- MODULE MCSqlEditor ----------------------------
(* Instances of SqlEditor for TLC: the runs the user may start.            *)
EXTENDS SqlEditor, TLC

Runs(how, does, word, sync) ==
  [how |-> how, asks |-> FALSE, does |-> does, word |-> word, ddl |-> FALSE, sync |-> sync]
Ddl(how, asks) ==
  [how |-> how, asks |-> asks, does |-> "ends", word |-> "modifying", ddl |-> TRUE,
   sync |-> "counts"]

AllRuns ==
  {Runs("one", "changes", "modifying", "counts"), Runs("selection", "changes", "modifying", "none"),
   Ddl("all", TRUE), Ddl("command", FALSE)}
HangRuns == {Ddl("one", FALSE)}
=============================================================================
