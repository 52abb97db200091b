-------------------------- MODULE MCBreakerTraffic --------------------------
(***************************************************************************)
(* BreakerTraffic for TLC: three calls in flight at once are enough for a  *)
(* late report of each kind to meet a breaker that others moved on.        *)
(***************************************************************************)
EXTENDS BreakerTraffic
=============================================================================
