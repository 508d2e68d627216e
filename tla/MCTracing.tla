------------------------------ MODULE MCTracing ------------------------------
EXTENDS Readers, TLC

ThreadSymmetry == Permutations(Threads)

\* Bound: four spans while the clock has ticked once, three when it has ticked twice.
Bounded == Len(spans) + clock <= 5
=============================================================================
