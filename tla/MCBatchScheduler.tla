-------------------------- MODULE MCBatchScheduler --------------------------
\* Model-checking instances of BatchScheduler: the configurations give the constants
\* their values.  The runs check temporal formulas, so they use no symmetry.
EXTENDS BatchScheduler
=============================================================================
