-------------------------- MODULE MCCircuitBreaker ---------------------------
EXTENDS CircuitBreaker, TLC

CONSTANTS p1, p2, s1, s2

\* Two calls of one peer interleave; the other peer has one at a time.
MCCalls == {<<p1, s1>>, <<p1, s2>>, <<p2, s1>>}

\* The default, all errors, and one that finds only I/O errors mild.
MCClassifiers ==
  {DefaultClassifier, AllErrors,
   [k \in ErrorKind |-> IF k = "ioError" THEN "application" ELSE "infrastructure"]}
=============================================================================
