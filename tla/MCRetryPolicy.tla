---------------------------- MODULE MCRetryPolicy ----------------------------
EXTENDS RetryPolicy

\* Every policy of a five-bit duration type, refused ones included.
SmallPolicies == [maxAttempts : {0, 1, 5, 8}, initial : -1..MaxDuration,
                  maxDelay : 0..MaxDuration]
=============================================================================
