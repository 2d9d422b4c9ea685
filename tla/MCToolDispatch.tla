---------------------------- MODULE MCToolDispatch ----------------------------
(* Instances of ToolDispatch for TLC. *)
EXTENDS ToolDispatch, TLC

CONSTANTS t1, t2, plan, stop, tap, loose, k1

Flat == {Do(tap), Replay(k1), Promote(k1, FALSE), Promote(k1, TRUE),
         Batch(<<Do(plan), Do(tap)>>, TRUE, TRUE),
         Batch(<<Batch(<<Do(tap)>>, TRUE, TRUE), Do(loose), Do(stop)>>, FALSE, FALSE)}

Interchangeable == Permutations(Task)
=============================================================================
