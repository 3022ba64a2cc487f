-------------------------- MODULE MCBackgroundExec --------------------------
(* An instance of BackgroundExec for TLC, and the mistakes its properties catch. *)
EXTENDS BackgroundExec

=============================================================================
