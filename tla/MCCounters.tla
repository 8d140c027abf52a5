----------------------------- MODULE MCCounters -----------------------------
(***************************************************************************)
(* Counters for TLC, with one key. A behaviour follows one scenario: flush, *)
(* with everything but a restart that keeps the table, or retry, in which  *)
(* tables are kept, the session lasts, and two bytes are forwarded, too    *)
(* few for the cap on pending batches to drop any.                         *)
(***************************************************************************)
EXTENDS Counters

CONSTANTS k1

VARIABLE scenario

OneKey == {k1}
OnOff == {{k1}, {}}

MCInit == Init /\ scenario \in {"flush", "retry"} /\ (scenario = "retry" => table = {k1})

MCNext ==
  /\ UNCHANGED scenario
  /\ \/ StartApply \/ Fold \/ FlushFails
     \/ SampleRead \/ Sample \/ SendFails \/ HandleAck \/ Bill \/ Refuse
     \/ SendSome /\ (scenario = "retry" => DOMAIN pending \subseteq DOMAIN pending')
     \/ SomeTraffic /\ (scenario = "retry" => kernel'[k1] <= 2)
     \/ scenario = "flush" /\ (FoldReadFails \/ Flush \/ Disconnect \/ Connect \/ Restart)

MCSpec == MCInit /\ [][MCNext]_<<vars, scenario>> /\ Fairness

\* EventuallyBilled is of the second scenario.
RetryEnds == scenario = "retry" => EventuallyBilled
=============================================================================
