----------------------------- MODULE MCHciQueue -----------------------------
EXTENDS HciQueue

=============================================================================
