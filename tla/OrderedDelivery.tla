--------------------------- MODULE OrderedDelivery ---------------------------
(***************************************************************************)
(* What the way from the event consumer to the streaming engine promises   *)
(* about one stream of messages: each message that was accepted is handed  *)
(* over once, in the order of acceptance, and in the end.                  *)
(***************************************************************************)
EXTENDS Naturals, Sequences

VARIABLES
  pending,     (* accepted, not yet handed over                              *)
  delivered    (* handed over                                                *)

vars == <<pending, delivered>>

Init ==
  /\ pending = <<>>
  /\ delivered = <<>>

(* An event is accepted with all the messages it will cause: the stream     *)
(* grows at its end.                                                        *)
Accept ==
  /\ UNCHANGED delivered
  /\ Len(pending') > Len(pending)
  /\ SubSeq(pending', 1, Len(pending)) = pending

Deliver ==
  /\ pending # <<>>
  /\ delivered' = Append(delivered, Head(pending))
  /\ pending' = Tail(pending)

Next == Accept \/ Deliver

(* In order and once; and, with the fairness, in the end.                   *)
Safety == Init /\ [][Next]_vars

Spec == Safety /\ WF_vars(Deliver)
=============================================================================
