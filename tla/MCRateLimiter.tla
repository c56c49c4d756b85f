--------------------------- MODULE MCRateLimiter ---------------------------
(* Small values for RateLimiter.  A minute is two ticks; the limits are none,   *)
(* a rate below one request per tick with the default burst, and a larger one.  *)
EXTENDS RateLimiter

CONSTANTS route1, token1, call1

MCRoutes == {route1}
MCTokens == {token1}
MCCalls == {call1}
MCLimits == {[rpm |-> 0, burst |-> 0], [rpm |-> 1, burst |-> 0], [rpm |-> 3, burst |-> 2]}
=============================================================================
