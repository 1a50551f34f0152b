---------------------------- MODULE PartitionLog ----------------------------
(***************************************************************************)
(* What a partition's commit log promises its clients: a sequence of       *)
(* records at consecutive offsets, which grows at the end by appends and   *)
(* shrinks at the front by retention.  A record never changes its offset,  *)
(* an offset is never given out twice, and every record from the first     *)
(* offset on is there to be read, across restarts.                         *)
(***************************************************************************)
EXTENDS Integers, Sequences

CONSTANTS
  Records,     \* what a client can produce
  BatchSizes   \* how many records one call may append

VARIABLES
  first,    \* the offset of the oldest record still kept
  content   \* the records kept, content[i] at offset first + i - 1

vars == <<first, content>>

Init == first = 0 /\ content = << >>

\* One call adds its n records at the end.
Extend(n) ==
  /\ UNCHANGED first
  /\ content' \in [1..(Len(content) + n) -> Records]
  /\ SubSeq(content', 1, Len(content)) = content

\* Retention drops the n oldest records.
Trim(n) ==
  /\ first' = first + n
  /\ content' = SubSeq(content, n + 1, Len(content))

Next ==
  \/ \E n \in BatchSizes \cup {1} : Extend(n)
  \/ \E n \in 1..Len(content) : Trim(n)

Spec == Init /\ [][Next]_vars

=============================================================================
