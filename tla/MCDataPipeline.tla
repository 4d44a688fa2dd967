--------------------------- MODULE MCDataPipeline ---------------------------
(* DataPipeline for TLC: a pair of runs of one scenario, and what an       *)
(* attempt can leave behind.                                               *)
EXTENDS DataPipeline

APair == {"static", "treatment"}
ThePair == {<<"static", "treatment">>}
Cascade == [r \in APair |-> "cascade"]

Good == [signs |-> {}, events |-> EventTypes]

(* A good attempt; one with signs against it; one whose latencies, or      *)
(* whose events, were not stored.                                          *)
Attempts == {Good, [Good EXCEPT !.signs = {"speech_oom", "on_vps"}],
             [Good EXCEPT !.signs = {"no_latency"}],
             [Good EXCEPT !.events = EventTypes \ {"fault_stage_started"}],
             [Good EXCEPT !.events = EventTypes \ {"fault_injected"}]}

(* One of the runs may be repeated; its first attempt ends in any of these *)
(* ways.                                                                   *)
Repeated == [r \in APair |-> IF r = "static" THEN <<Attempts, {Good}>> ELSE <<{Good}>>]
=============================================================================
