---------------------------- MODULE MCIngestion ----------------------------
(***************************************************************************)
(* Constants of the runs of Ingestion.                                     *)
(***************************************************************************)
EXTENDS Ingestion

CONSTANTS m1, m2, scheduler, command

MCMail == {m1, m2}
MCScheduled == {scheduler}
MCBoth == {scheduler, command}
=============================================================================
