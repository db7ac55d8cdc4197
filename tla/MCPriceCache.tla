---------------------------- MODULE MCPriceCache ----------------------------
(***************************************************************************)
(* PriceCache with its circuit breaker for TLC: the hourly job, two        *)
(* refreshes on demand and one other caller of Paddle, two readers, a      *)
(* threshold of two failures, one change of the price.                     *)
(***************************************************************************)
EXTENDS PriceCache, TLC

=============================================================================
