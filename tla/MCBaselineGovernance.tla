------------------------ MODULE MCBaselineGovernance ------------------------
(* Values of the constants of BaselineGovernance.                          *)
EXTENDS BaselineGovernance

Data(success, trust, verified, tokens, mission, errors) ==
  [NoData EXCEPT !.success = success, !.trust = trust, !.mission = mission,
                 !.files = [modified |-> 2, verified |-> verified],
                 !.tokens = tokens, !.replans = 1,
                 !.errors = [count |-> errors, steps |-> 4]]

(* A run that went well, and one that failed. *)
MCRunData == {Data(TRUE, "high", 2, 20, TRUE, 1), Data(FALSE, "none", 1, 130, FALSE, 4)}

Result(passed) == [success |-> TRUE, tokens |-> 10, verified |-> passed,
                   errors |-> [count |-> 0, steps |-> 4]]

MCSuites == {<<>>, <<Result(TRUE), Result(FALSE)>>}

Config(policy, fresh, stale) ==
  [policy |-> policy, minOverall |-> Unknown, maxDrop |-> Unknown,
   fresh |-> fresh, stale |-> stale, weights |-> NoOverrides]

(* The default, a lenient one with dates and weights, one that is invalid. *)
MCConfigs ==
  {[Config("balanced", 0, 0) EXCEPT !.minOverall = 5000],
   [Config("lenient", Unknown, Unknown) EXCEPT !.weights = [d \in {"cost"} |-> 1],
                                               !.maxDrop = -6000],
   Config("strict", 2, 1)}

MCKeeps == {0, 1}
=============================================================================
