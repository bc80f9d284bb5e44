---------------------------- MODULE MC_StepRun ----------------------------
(***************************************************************************)
(* Every combination of the settings of a step, with three attempts where  *)
(* it is retried.                                                          *)
(***************************************************************************)
EXTENDS StepRun

MCConfigs ==
  {s \in [skipReason : BOOLEAN, cached : BOOLEAN, forEach : BOOLEAN, gated : BOOLEAN,
          attempts : {1, 3}, retryOn : SUBSET Causes, timeout : BOOLEAN,
          continueOnError : BOOLEAN, mapped : BOOLEAN, cleanup : BOOLEAN] :
     s.cleanup => s.attempts = 1 /\ ~s.forEach /\ ~s.skipReason}
=============================================================================
