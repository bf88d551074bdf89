------------------------------- MODULE MCProviderHealth -------------------------------
(* Two loops on one window, batches of two, a window of two units of the clock, the kinds  *)
(* of failure mock_b has; as in the settings, fewer failures in a row make a provider      *)
(* UNHEALTHY than samples are needed for a rate.                                           *)
EXTENDS ProviderHealth
=======================================================================================
