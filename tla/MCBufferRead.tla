---------------------------- MODULE MCBufferRead ----------------------------
(***************************************************************************)
(* An instance of BufferRead for TLC: samples with two timestamps, one of  *)
(* them too long to write, and reads of the whole buffer and after the     *)
(* first timestamp.                                                        *)
(***************************************************************************)
EXTENDS BufferRead

Mixed == {[stamp |-> 1, fits |-> TRUE], [stamp |-> 2, fits |-> TRUE],
          [stamp |-> 2, fits |-> FALSE]}

AllOrAfter == {[stamp |-> 1, absolute |-> FALSE], [stamp |-> 1, absolute |-> TRUE]}

=============================================================================
