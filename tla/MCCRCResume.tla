---------------------------- MODULE MCCRCResume ----------------------------
(* A file of several checkpoint intervals, resumed more than once.          *)
EXTENDS CRCResume, TLC

Interchangeable == Permutations(Requests)

NoOthers == {}
SomeOthers == {[b |-> 0, e |-> 3]}
=============================================================================
