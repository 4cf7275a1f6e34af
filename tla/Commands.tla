------------------------------- MODULE Commands -------------------------------
(***************************************************************************)
(* What the commands of Assignment3 compute, and what they should.  The    *)
(* integers of main are at most 2 * 10, far from those whose Fibonacci     *)
(* number an int does not hold.                                            *)
(***************************************************************************)
EXTENDS Integers, FiniteSets

(* FibonacciCommand: the last two sums after each round of its loop.       *)
Rounds[i \in Nat] == IF i = 0 THEN <<0, 1>>
                     ELSE LET last == Rounds[i - 1] IN <<last[2], last[1] + last[2]>>
Fibonacci(numIterations) == Rounds[numIterations][2]

(* The most rounds whose sums an int of 32 bits holds.                     *)
IntRounds == 45

(* Mutant: the divisors are tried below n / 2 only.                        *)
BelowHalf(n) == n \notin {0, 1} /\ \A i \in 2..((n \div 2) - 1) : n % i # 0

(* PrimeNumberCountCommand: the divisors up to n / 2 are tried.            *)
IsPrime(n) == n \notin {0, 1} /\ \A i \in 2..(n \div 2) : n % i # 0
PrimeNumberCount(maxNumber) == Cardinality({n \in 0..(maxNumber - 1) : IsPrime(n)})

(* CircleDetectorCommand: a random point is in the circle or not.          *)
CircleDetector == {0, 1}
-------------------------------------------------------------------------------
(* The definitions the results are compared with.                          *)
FibonacciNumber[n \in Nat] ==
  IF n <= 1 THEN 1 ELSE FibonacciNumber[n - 1] + FibonacciNumber[n - 2]

Prime(n) == Cardinality({d \in 1..n : n % d = 0}) = 2
===============================================================================
