------------------------------- MODULE MCScan -------------------------------
(***************************************************************************)
(* Settings of a small width, a few of them varied at a time around a base *)
(* that Validate accepts.                                                  *)
(***************************************************************************)
EXTENDS Scan

Base ==
  [ Lookback |-> 2, Interval |-> 2, DruidMaxRange |-> 0, DruidTimeout |-> 0, HashScanTTL |-> 1,
    ScanRange |-> 6, WorkerTTL |-> 0, RetrainRetry |-> 0, RetrainLease |-> 0,
    RetrainRetryMax |-> 0, StaleAfter |-> 3 ]

(* Every base and cap. *)
Retries ==
  { [Base EXCEPT !.RetrainRetry = base, !.RetrainRetryMax = cap] :
      base \in 0 .. MaxDuration, cap \in 0 .. MaxDuration }

(* Windows of a LOOKBACK, up to where their number and their timeouts overflow. *)
Leases ==
  { [Base EXCEPT !.Lookback = lookback, !.ScanRange = 0, !.DruidMaxRange = range,
                 !.DruidTimeout = timeout] :
      lookback \in 1 .. MaxDuration, range \in 0 .. MaxDuration, timeout \in {0, 5} }

(* Heartbeats against intervals. *)
Heartbeats ==
  { [Base EXCEPT !.Interval = interval, !.WorkerTTL = ttl, !.ScanRange = 0, !.StaleAfter = 0] :
      interval \in 0 .. MaxDuration, ttl \in 0 .. MaxDuration }

(***************************************************************************)
(* Scans that are followed: a range in one slice and in two, a cache that  *)
(* is scanned anew at every unit and one that is kept, the least           *)
(* STALE_AFTER that Validate allows with each, and none.  The last one has *)
(* less slack than Validate asks for and never starts.                     *)
(***************************************************************************)
Scans ==
  { [Base EXCEPT !.HashScanTTL = 2, !.StaleAfter = 4],
    [Base EXCEPT !.DruidMaxRange = 4],
    [Base EXCEPT !.HashScanTTL = 2, !.DruidMaxRange = 3, !.StaleAfter = 0],
    [Base EXCEPT !.ScanRange = 4] }

Every == Retries \cup Leases \cup Heartbeats \cup Scans
=============================================================================
