------------------------------ MODULE Undefined ------------------------------
\* The value of what is undefined or null in the code, for modules that TLC checks
\* side by side.
CONSTANT None
=============================================================================
