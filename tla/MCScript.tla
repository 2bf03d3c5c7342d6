------------------------------- MODULE MCScript -------------------------------
(* Scripts of no, one and two bytes, the first and the last that mean         *)
(* OP_STACK and the bytes beside them included.  Other memory shows every     *)
(* operation, OP_STACK for none, one and two bytes, and there are signatures  *)
(* that verify.                                                               *)
EXTENDS Script

MCBytes == {0, 1, 75, 76, 170}
MCScripts == BoundedSeq(MCBytes, 2) \cup TupleOf({80, 100, 120, 140, 160, 255}, 1)
MCOutputs == BoundedSeq({1, 75, 255}, 1) \cup {<<2, 80>>}
MCSigned == {<<<<1>>, <<0>>>>, <<<<1, 200>>, <<1>>>>}
MCShown ==
  [operation : {"OP_FALSE", "OP_TRUE", "OP_DUP", "OP_EQUAL", "OP_VERIFY", "OP_HASH160",
                "OP_CHECKSIG"}, argument : {0}]
  \cup [operation : {"OP_STACK"}, argument : 0 .. 2]
  \cup {[operation |-> "OP_UNKNOWN", argument |-> 200], [operation |-> "unlisted", argument |-> 7]}
===============================================================================
