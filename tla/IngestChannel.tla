--------------------------- MODULE IngestChannel ---------------------------
(***************************************************************************)
(* What the ingest adapter promises (spec 4.2, 7 and 8): each call either *)
(* accepts one whole message and publishes it to the consumer side in the *)
(* same step, as one batch, or fails with OutOfSpace and publishes        *)
(* nothing.  Messages are published in the order they were accepted and  *)
(* never partly.  Byte p of the k-th accepted message is <<k, p>>.        *)
(***************************************************************************)
EXTENDS Naturals, Sequences

CONSTANTS
  MaxMsgs,  \* bound on the messages accepted
  MaxLen    \* bound on the length of one message

VARIABLES
  accepted,   \* the messages ingest returned success for
  published   \* the packets the consumer side can see

vars == <<accepted, published>>

Msg(k, len) == [q \in 1..len |-> <<k, q>>]

Init ==
  /\ accepted = << >>
  /\ published = << >>

(* A successful ingest: the message is accepted and published at once.   *)
Ingest(len) ==
  LET m == Msg(Len(accepted) + 1, len)
  IN  /\ Len(accepted) < MaxMsgs
      /\ accepted' = Append(accepted, m)
      /\ published' = Append(published, m)

(* An OutOfSpace ingest changes nothing the consumer can see, so it is a  *)
(* stuttering step of this specification.                                 *)
Next == \E len \in 1..MaxLen : Ingest(len)

Spec == Init /\ [][Next]_vars
=============================================================================
