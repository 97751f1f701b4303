--------------------------- MODULE MCCoworkRelay ----------------------------
\* CoworkRelay with a manager and one or two coworkers, in one or two groups.
EXTENDS CoworkRelay
=============================================================================
