--------------------------- MODULE MCQueueTurns ---------------------------
EXTENDS QueueTurns, TLC

KeySymmetry == Permutations(Keys)
=============================================================================
