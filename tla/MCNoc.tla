------------------------------- MODULE MCNoc -------------------------------
(***************************************************************************)
(* A mesh of 2 x 2: two nodes send to a third, one of them twice.  The     *)
(* packets of the first turn in the router of the second, where they       *)
(* compete with its own for the link they share.                           *)
(***************************************************************************)
EXTENDS Noc

To(x, y, size) == [dst |-> <<x, y>>, size |-> size]
ToOneCorner ==
    [n \in Nodes |->
        CASE n = <<0, 0>> -> <<To(1, 1, 1), To(1, 1, 0)>>
          [] n = <<1, 0>> -> <<To(1, 1, 0)>>
          [] OTHER -> << >>]
=============================================================================
