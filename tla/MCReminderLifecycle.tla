-------------------------- MODULE MCReminderLifecycle --------------------------
(***************************************************************************)
(* Small instances of ReminderLifecycle for TLC.                           *)
(***************************************************************************)
EXTENDS ReminderLifecycle
=============================================================================
