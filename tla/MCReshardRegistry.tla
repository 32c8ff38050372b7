-------------------------- MODULE MCReshardRegistry --------------------------
EXTENDS ReshardRegistry, TLC

\* Units and attempts are interchangeable.
Symmetry == Permutations(Unit) \cup Permutations(Attempt)

\* A generation stays exposed and the properties say nothing of it any more, so
\* the behaviour is followed only while one is left that is not.
SomeCovered == exposed # Uuid
=============================================================================
