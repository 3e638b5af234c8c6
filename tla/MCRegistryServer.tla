-------------------------- MODULE MCRegistryServer --------------------------
(* An instance of RegistryServer for TLC: the backoff takes two values.    *)
EXTENDS RegistryServer

MCMaxDuration == 1023
MCMinimumRetryBackoff == 100
MCMinRetryBackoff == 100
MCMaxRetryBackoff == 200
MCJitters == {0}
MCStatusCodes == {401, 503}
=============================================================================
