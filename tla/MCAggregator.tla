---------------------------- MODULE MCAggregator ----------------------------
(***************************************************************************)
(* Small instances of Aggregator.                                          *)
(***************************************************************************)
EXTENDS Aggregator, TLC

CONSTANTS v1, v2, n1, n2, t1, t2

MCNameOf == v1 :> n1 @@ v2 :> n1

\* With a packer, with other targets in front, without a timer.
MCOptions ==
    {[suspend_push |-> FALSE, packer |-> TRUE, pushout_timer |-> TRUE,
      targets |-> <<t1, t2>>],
     [suspend_push |-> FALSE, packer |-> FALSE, pushout_timer |-> TRUE,
      targets |-> <<t2, t1>>],
     [suspend_push |-> TRUE, packer |-> FALSE, pushout_timer |-> FALSE,
      targets |-> <<t1>>]}
=============================================================================
