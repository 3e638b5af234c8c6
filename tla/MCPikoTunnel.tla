---------------------------- MODULE MCPikoTunnel ----------------------------
(* An instance of PikoTunnel for TLC: the retry delays are those of the    *)
(* default minimum with little room above it, because SelfHeal's own runs  *)
(* cover them.                                                             *)
EXTENDS PikoTunnel

MCMaxDuration == 1023
MCMinimumRetryBackoff == 100
MCMinRetryBackoff == 100
MCMaxRetryBackoff == 200
MCJitters == {10}
MCStatusCodes == {401, 503}
=============================================================================
