---------------------------- MODULE MCWritePath ----------------------------
EXTENDS WritePath
=============================================================================
