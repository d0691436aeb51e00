--------------------------- MODULE MCReminderWorker ---------------------------
(***************************************************************************)
(* Small instances of ReminderWorker for TLC.                              *)
(***************************************************************************)
EXTENDS ReminderWorker, TLC

\* Nothing distinguishes two worker processes.
WorkerSymmetry == Permutations(Workers)
=============================================================================
