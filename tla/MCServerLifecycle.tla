------------------------- MODULE MCServerLifecycle -------------------------
\* Model-checking instances of ServerLifecycle: the configurations give the constants
\* their values.  The runs check temporal formulas, so they use no symmetry.
EXTENDS ServerLifecycle
============================================================================
