------------------------------ MODULE MCConsole -------------------------------
EXTENDS Console
=============================================================================
