----------------------------- MODULE MCTelemetry -----------------------------
(***************************************************************************)
(* A small instance of Telemetry.                                          *)
(***************************************************************************)
EXTENDS Telemetry

MCRecord == (SUBSET (Sampler \X (1..MaxTicks))) \ {{}}
MCPusher == Handler \cup Client

MCColumn == <<"name", "count", "ts">>

MCStatOptions ==
    {[suspended |-> FALSE, targets |-> <<"statlog", "other">>],
     [suspended |-> TRUE, targets |-> <<"statlog", "other">>],
     [suspended |-> FALSE, targets |-> <<"other">>]}

\* Some are longer than there are columns.
MCFormats == BoundedSeq({"name", "count", "ts", "alias", "#", "$"}, 4)

Log(suspended, target, list) ==
    [suspended |-> suspended, target |-> target, show_legend |-> TRUE,
     table_log |-> ~suspended, sequence_of_list |-> list]

MCLogOptions == {Log(FALSE, TRUE, <<>>), Log(TRUE, FALSE, <<"ts", "$", "#">>)}

\* Bound on what the program starts with; a reload may bring any options.
MCInit == Init /\ lopt.target /\ ~sopt.suspended /\ Len(sopt.targets) = 2

MCSpec == MCInit /\ [][Next]_vars /\ Fairness
=============================================================================
