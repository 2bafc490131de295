----------------------------- MODULE MCProcess ------------------------------
(* Two requests and a job. The periods are shorter than those of the code,  *)
(* in the same order; a request fits just within the shutdown period, or    *)
(* takes longer than all that follows the signal.                           *)
EXTENDS Process

MCMetricsPath == <<"metrics">>
=============================================================================
