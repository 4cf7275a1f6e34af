------------------------------ MODULE MCPoolMain ------------------------------
(* Assignment3's main for TLC: two points, a Fibonacci number, a count of  *)
(* primes and the estimate.                                                *)
EXTENDS PoolMain

CONSTANTS point, point2, fib, primes, pi

MCLow == {point, point2, pi}
MCHigh == {fib, primes}
MCPrimes == {primes}
MCArgument == [c \in MCHigh |-> IF c = fib THEN 8 ELSE 18]
NoThrow == {}
Initialized == {"INIT"}
Zero == {0}
===============================================================================
