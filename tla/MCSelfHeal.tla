----------------------------- MODULE MCSelfHeal -----------------------------
(* An instance of SelfHeal for TLC: durations in milliseconds, in an       *)
(* integer narrow enough for the doubling to reach its end.                *)
EXTENDS SelfHeal

MCMaxDuration == 2047
MCMinimumRetryBackoff == 100
MCMinRetryBackoff == 150
MCMaxRetryBackoff == 2000
MCJitters == {0, 5, 10}
MCStatusCodes == {401, 404, 408, 429, 503, 599}
=============================================================================
