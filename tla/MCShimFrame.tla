----------------------------- MODULE MCShimFrame -----------------------------
EXTENDS ShimFrame
=============================================================================
