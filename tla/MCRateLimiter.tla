---------------------------- MODULE MCRateLimiter -----------------------------
\* Two interchangeable keys and counts that saturate just above a full bucket.
EXTENDS RateLimiter, TLC

Symmetry == Permutations(Key)
===============================================================================
