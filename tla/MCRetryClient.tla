--------------------------- MODULE MCRetryClient ----------------------------
EXTENDS RetryClient

CONSTANTS a1, a2

\* The default predicate, the wider one and a custom one that retries what the
\* server answered, with 1 and 2 attempts; and one setting each that
\* build() must turn down.
MCSettings ==
  {[DefaultConfig EXCEPT !.maxAttempts = n, !.retryable = r] :
     n \in 0..2, r \in {NetworkOnly, NetworkAndTimeout, {"resource"}}}
  \cup {[DefaultConfig EXCEPT !.initialBackoff = 300],
        [DefaultConfig EXCEPT !.multiplier = 10]}
=============================================================================
