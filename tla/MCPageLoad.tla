----------------------------- MODULE MCPageLoad -----------------------------
EXTENDS PageLoad
=============================================================================
