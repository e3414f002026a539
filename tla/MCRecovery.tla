---------------------------- MODULE MCRecovery ----------------------------
EXTENDS Recovery
CONSTANTS s1, s2, s3
MCPool == SetToSeq({s1, s2, s3} \cap Strategy)
=============================================================================
