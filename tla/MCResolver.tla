----------------------------- MODULE MCResolver -----------------------------
EXTENDS Resolver

\* Half days around both ends of the window; -1 is a clock slightly behind.
MCAges == {-1, 12, 13, 14}
=============================================================================
