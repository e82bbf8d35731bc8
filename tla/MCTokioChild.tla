----------------------------- MODULE MCTokioChild -----------------------------
EXTENDS TokioChild
=============================================================================
