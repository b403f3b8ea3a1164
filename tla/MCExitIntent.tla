---------------------------- MODULE MCExitIntent ----------------------------
EXTENDS ExitIntent
=============================================================================
