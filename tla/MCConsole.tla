----------------------------- MODULE MCConsole -----------------------------
\* A ring of two characters whose indices wrap after four, and two processes.
EXTENDS Console
=============================================================================
