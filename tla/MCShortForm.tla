---------------------------- MODULE MCShortForm ----------------------------
EXTENDS ShortFormPublication, TLC

\* Neither adapter saves a session, and the standing grant is for YouTube alone.
ASSUME NothingIsRemembered == Resumable = {} /\ Standing = {}

RunSymmetry == Permutations(Run)
=============================================================================
