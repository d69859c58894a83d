---------------------------- MODULE MCVideoTask ----------------------------
EXTENDS VideoTask, TLC

\* Polls are interchangeable, and so are create calls.
Calls == Permutations(Gets) \cup Permutations(Submits)
=============================================================================
