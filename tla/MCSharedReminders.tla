------------------------- MODULE MCSharedReminders -------------------------
(* Instances of SharedReminders for TLC.                                   *)
EXTENDS SharedReminders, TLC
People == 1..2
\* The two links are interchangeable.
Links == Permutations(Invites)
\* The second person competes for links and membership as long as no worker has
\* taken the reminder; the fan-out and the buttons are explored for the owner
\* and the first person.
Focus == \/ rem.token = Null /\ occ.status = "absent"
         \/ member[2] = [state |-> "none", rev |-> 0, id |-> 0] /\ opening[2] = Closed
\* Two attempts, a snooze and one attempt, or one attempt, a snooze and two.
FewRounds == rem.rev <= 4
=============================================================================
