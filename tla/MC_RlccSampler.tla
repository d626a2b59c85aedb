--------------------------- MODULE MC_RlccSampler ---------------------------
(* Small instances of RlccSampler.  One tick stands for 50 ms, so         *)
(* SAMPLE_INTERVAL (100 ms) is 2 ticks; one RTT sample is below it and   *)
(* one above, so both branches of xqc_min occur, and min_rtt can drop in *)
(* the middle of an epoch.  Twelve ticks hold four epochs at the short   *)
(* RTT and leave room for an ack gap longer than the wait before a       *)
(* sampling window.                                                      *)
EXTENDS RlccSampler

MC_RttSamples == {1, 3}
=============================================================================
