------------------------ MODULE MCConcurrentFulfilment ------------------------
EXTENDS FulfilmentBooks, TLC
\* The handlers are interchangeable; no liveness is checked under symmetry.
HandlerSymmetry == Permutations(Requests)
=============================================================================
