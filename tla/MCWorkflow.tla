------------------------------ MODULE MCWorkflow ------------------------------
(***************************************************************************)
(* A small instance of Workflow: pools with and without CPUs of their own, *)
(* a default for WFC or none, CPUs that are not there.                     *)
(***************************************************************************)
EXTENDS Workflow

Cpu(wfc, sys, own, threads, meter) ==
    [wfc |-> wfc, sys |-> sys, cpu |-> [q \in Pool |-> own],
     threads |-> [q \in Pool |-> threads], meter |-> meter]

MCCpuOptions ==
    {Cpu({1}, {2}, {}, 1, TRUE),
     Cpu({}, {2}, {}, 1, TRUE),
     Cpu({1, 9}, {}, {0}, 2, FALSE)}
=============================================================================
