-------------------------- MODULE MCCircuitBreaker --------------------------
\* Model-checking instances of CircuitBreaker: the configurations give the constants
\* their values.  The runs check temporal formulas, so they use no symmetry.
EXTENDS CircuitBreaker
=============================================================================
