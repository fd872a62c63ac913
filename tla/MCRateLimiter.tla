---------------------------- MODULE MCRateLimiter ----------------------------
\* Model-checking instances of RateLimiter: the configurations give the constants
\* their values.  The runs check temporal formulas, so they use no symmetry.
EXTENDS RateLimiter
==============================================================================
