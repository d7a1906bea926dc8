--------------------------- MODULE MCUserWorkflow ---------------------------
(* Two users and a list of two queries. The second query overrides a bind of *)
(* the workflow with a var and asks for another with its own preflight; in   *)
(* the last settings it has a time range of its own as well.                 *)
EXTENDS UserWorkflow

First(r) == [range |-> r, vars |-> {}, preflights |-> <<>>]
Second(r) == [range |-> r, vars |-> {"a"}, preflights |-> <<{"b"}>>]
Base == [random |-> FALSE, ramp |-> FALSE, duration |-> TRUE, defaultRange |-> TRUE,
         rangeCadence |-> "per_loop", preflightCadence |-> "per_loop", vars |-> {"a", "c"},
         preflights |-> <<{"b"}>>, queries |-> <<First("default"), Second("default")>>]
MCConfigs ==
    { Base,
      [Base EXCEPT !.ramp = TRUE, !.rangeCadence = "per_query"],
      [Base EXCEPT !.preflightCadence = "once", !.defaultRange = FALSE,
                   !.preflights = <<{"a"}, {"a", "b"}>>],
      [Base EXCEPT !.random = TRUE, !.duration = FALSE, !.rangeCadence = "per_query",
                   !.preflightCadence = "per_query", !.queries = <<First("none"), Second("own")>>] }
=============================================================================
