---------------------------- MODULE MCThreadHooks -----------------------------
EXTENDS ThreadHooks
\* Lowest, normal, highest, time critical.
FourLevels == {-1, 0, 1, 2}
===============================================================================
