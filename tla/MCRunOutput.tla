----------------------------- MODULE MCRunOutput -----------------------------
(* Small instances of RunOutput: a channel of one chunk, and a cap that a  *)
(* chunk of one unit may fit under after a chunk of two did not.           *)
EXTENDS RunOutput

TwoAndOne == [s \in Streams |-> IF s = "out" THEN 2 ELSE 1]
OneAndOne == [s \in Streams |-> 1]
=============================================================================
