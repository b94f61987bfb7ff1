----------------------------- MODULE MCHciLink -----------------------------
EXTENDS HciLinkPhases

=============================================================================
