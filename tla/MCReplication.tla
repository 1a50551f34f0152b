--------------------------- MODULE MCReplication ---------------------------
(***************************************************************************)
(* Small instances of Replication for TLC: one key, hashed to the second   *)
(* of two partitions.  The frame in which a command travels is checked on  *)
(* its own: Replication takes the command that FSM.Apply decodes for the   *)
(* one that was encoded, which the properties below justify.               *)
(***************************************************************************)
EXTENDS Replication, CommandFrame

MCKeyPartition == [k \in Keys |-> 1]
MCSymmetry == Permutations(Nodes) \cup Permutations(Handlers)

(***************************************************************************)
(* The codec has no state: it is evaluated once, where a behaviour starts. *)
(***************************************************************************)

\* FSM.Apply reads from the frame of EncodeCommand the topic, partition, key
\* and value that Publish put in.
SingleRoundTrip == Init => SingleReadsBack

\* FSM.Apply reads from the frame of EncodeBatchCommand the records of the
\* batch: none is lost, split or joined with another.
BatchRoundTrip == Init => BatchReadsBack

\* Whatever bytes FSM.Apply is given, its length checks keep it inside them.
DecodeStaysInside == Init => DecodesInside

=============================================================================
