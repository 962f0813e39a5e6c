--------------------------- MODULE MCSncapRecord ---------------------------
(***************************************************************************)
(* Instances of SncapRecord: a record with one auxiliary processor type    *)
(* and three models, a second type it does not define, and jobs that pass  *)
(* or fail each of the checks.                                             *)
(***************************************************************************)
EXTENDS SncapRecord, TLC

MCCpu == <<"ICF", "IFL">>
MCMsu == [m \in Model |-> CASE m = "401" -> 1 [] m = "402" -> 2 [] OTHER -> 3]
MCProcMax == [c \in Defined |-> 2]

Icf(n) == [t \in Type |-> IF t = "ICF" THEN n ELSE 0]
Ifl(n) == [t \in Type |-> IF t = "IFL" THEN n ELSE 0]
JobOf(op, model, cpu) == [operation |-> op, test |-> FALSE, dryrun |-> FALSE, model |-> model, cpu |-> cpu]

MCJob ==
  { JobOf("ACTIVATE", "403", Icf(0)), JobOf("ACTIVATE", "402", Icf(0)), JobOf("ACTIVATE", "402", Icf(2)),
    JobOf("ACTIVATE", "undefined", Icf(1)), JobOf("ACTIVATE", NoModel, Ifl(1)),
    JobOf("ACTIVATE", NoModel, Icf(0)),
    JobOf("DEACTIVATE", NoModel, Icf(0)), JobOf("DEACTIVATE", NoModel, Icf(1)),
    JobOf("DEACTIVATE", "401", Icf(0)),
    [JobOf("ACTIVATE", NoModel, Icf(1)) EXCEPT !.test = TRUE],
    [JobOf("DEACTIVATE", NoModel, Icf(0)) EXCEPT !.test = TRUE],
    [JobOf("ACTIVATE", "402", Icf(1)) EXCEPT !.dryrun = TRUE],
    JobOf("QUERY_RECORD", NoModel, Icf(0)),
    [JobOf("QUERY_RECORD", NoModel, Icf(0)) EXCEPT !.dryrun = TRUE] }

MCOperated ==
  { [operation |-> "ACTIVATE", test |-> FALSE, model |-> "403", cpu |-> Icf(1)] }

\* Correlators of two calls, and of two calls with the same one.
MCTwoCalls == <<5, 6>>
MCThreeCalls == <<5, 6, 7>>
MCEqualCalls == <<5, 5>>

\* Everything but a response that is not the last one.
MostFaults == FaultKind \ {"partial"}
=============================================================================
