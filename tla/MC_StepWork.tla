----------------------------- MODULE MC_StepWork -----------------------------
(* Two steps under one condition, one in an include and one outside: they  *)
(* share a program and never a status.  The worker's script starts a       *)
(* helper in its group and a daemon that has left it, and a line comes in  *)
(* two pieces.                                                             *)
EXTENDS StepWork

MCCondition == [s \in Steps |-> "success()"]
MCScopeOf == [s \in Steps |-> IF s = "test" THEN "deploy" ELSE ""]

Silent == [s \in {"stdout", "stderr"} |-> <<>>]
Says(out, err) == [s \in {"stdout", "stderr"} |-> IF s = "stdout" THEN out ELSE err]
MCScripts ==
  {[p \in Processes |-> CASE p = "sh" -> Says(<<"a">>, <<>>)
                          [] p = "helper" -> Says(<<"nl">>, <<"b">>)
                          [] p = "daemon" -> Silent],
   [p \in Processes |-> CASE p = "sh" -> Says(<<"a", "b">>, <<>>)
                          [] p = "helper" -> Silent
                          [] p = "daemon" -> Says(<<"nl">>, <<>>)]}

Line(form, key, value, text) == [form |-> form, key |-> key, value |-> value, text |-> text]
MCOutputFiles ==
  {<<>>,
   <<Line("blank", "", "", "#"), Line("value", "x", "1", "x=1"), Line("value", "x", "2", "x=2")>>,
   <<Line("open", "x", "END", "x<<END"), Line("blank", "", "", "empty"),
     Line("value", "y", "1", "y=1"), Line("other", "", "", "END")>>,
   <<Line("open", "x", "END", "x<<END"), Line("value", "y", "1", "y=1")>>,
   <<Line("value", "x", "1", "x=1"), Line("other", "", "", "?")>>}

Prompt(type, default, options, autoYes, terminal) ==
  [type |-> type, default |-> default, options |-> options, autoYes |-> autoYes,
   terminal |-> terminal]
MCPrompts ==
  {Prompt("confirm", "", <<>>, TRUE, FALSE), Prompt("confirm", "y", <<>>, FALSE, TRUE),
   Prompt("select", "red", <<"red", "blue">>, FALSE, TRUE),
   Prompt("select", "green", <<"red", "blue">>, FALSE, FALSE),
   Prompt("text", "", <<>>, FALSE, FALSE), Prompt("text", "red", <<>>, FALSE, TRUE)}
=============================================================================
