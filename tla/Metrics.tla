-------------------------------- MODULE Metrics --------------------------------
(***************************************************************************)
(* metrics: the gauges of a RunnerSet as functions of the object the       *)
(* collector lists.  Ratios are in hundredths.                             *)
(***************************************************************************)
EXTENDS Integers

\* int() of a NaN or an infinity, as amd64 computes it
NotANumber == -(2^30)

\* runner_active_ratio: int(active / runners * 100)
ActiveRatio(active, runners) ==
    IF runners = 0 THEN NotANumber ELSE (100 * active) \div runners

RunnerSetGauges(s) ==
    [spec_runners          |-> s.spec.runners,
     status_runners        |-> s.status.runners,
     status_idle_runners   |-> s.status.idle,
     status_active_runners |-> s.status.active,
     runner_active_ratio   |-> ActiveRatio(s.status.active, s.status.runners)]

\* Collector.Scrape: the gauges of the RunnerSets the informer cache lists
Scrape(cached) == {RunnerSetGauges(s) : s \in {c \in cached : c.alive}}

=============================================================================
