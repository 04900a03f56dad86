---------------------------------- MODULE Views ----------------------------------
(***************************************************************************)
(* What the oracle shows of its requests: the summaries of data_request.rs *)
(* and the view methods that return them.  Requests are numbered from 0    *)
(* there and from 1 here.                                                  *)
(***************************************************************************)
EXTENDS Oracle, SequencesExt

WindowSummary(w) ==
  [ start_time     |-> w.start_time,
    end_time       |-> w.end_time,
    bond_size      |-> w.bond_size,
    bonded_outcome |-> w.bonded_outcome ]

WindowSummaries(dr) ==
  [r \in DOMAIN dr.resolution_windows |-> WindowSummary(dr.resolution_windows[r])]

ActiveSummary(dr) ==
  [ outcomes                   |-> dr.outcomes,
    requester                  |-> dr.requester,
    resolution_windows         |-> WindowSummaries(dr),
    global_config_id           |-> dr.global_config_id,
    initial_challenge_period   |-> dr.initial_challenge_period,
    final_arbitrator_triggered |-> dr.final_arbitrator_triggered,
    data_type                  |-> dr.data_type,
    validity_bond              |-> dr.request_config.validity_bond,
    paid_fee                   |-> dr.request_config.paid_fee,
    stake_multiplier           |-> dr.request_config.stake_multiplier,
    min_resolution_bond        |-> dr.request_config.min_resolution_bond ]

FinalizedSummary(dr) ==
  [ finalized_outcome  |-> dr.finalized_outcome,
    resolution_windows |-> WindowSummaries(dr),
    global_config_id   |-> dr.global_config_id,
    paid_fee           |-> dr.request_config.paid_fee ]

Summarize(dr) == IF IsActive(dr) THEN ActiveSummary(dr) ELSE FinalizedSummary(dr)

\* Mutated form: a page ends after its last request.
PageEndTooFar(from, limit) == Min({from + limit + 1, Len(data_requests)})

\* Where the page of limit requests after the first from ones ends.
PageEnd(from, limit) == Min({from + limit, Len(data_requests)})

GetRequests(from, limit) ==
  [i \in 1 .. Max({0, PageEnd(from, limit) - from}) |-> Summarize(data_requests[from + i])]

\* What a reader gets who turns pages until one is empty.
AllPages(limit) ==
  FlattenSeq([page \in 1 .. Len(data_requests) |-> GetRequests((page - 1) * limit, limit)])

(***************************************************************************)
(* Whatever the size of the pages, who turns them sees each request exactly*)
(* once, in the order they were made, active and final ones alike          *)
(* (get_requests: half-open ranges cut off at the length of the vector).   *)
(***************************************************************************)
PagesCoverRequests ==
  \A limit \in 1 .. MaxRequests + 1 :
    AllPages(limit) = [id \in DOMAIN data_requests |-> Summarize(data_requests[id])]
=================================================================================
