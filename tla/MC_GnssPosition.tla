--------------------------- MODULE MC_GnssPosition ---------------------------
\* Reporting off, or on with one of two log intervals.  Every count of fixes up
\* to MaxFixes divides the differences of the values.
EXTENDS GnssPosition

MC_Values == {-12, 24}

MC_Settings == {[enabled |-> FALSE, log |-> 1], [enabled |-> TRUE, log |-> 1],
                [enabled |-> TRUE, log |-> 2]}
=============================================================================
