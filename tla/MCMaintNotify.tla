--------------------------- MODULE MCMaintNotify ---------------------------
(***************************************************************************)
(* Small instances of MaintNotify.                                         *)
(***************************************************************************)
EXTENDS MaintNotify

MCPlans == {[count |-> 1, total |-> 1]}

\* A reminder looks only at whether the maintenance is planned: once it runs,
\* its steps, which MCThreads explores, are left alone.
MCNoSteps == \A m \in Maints : steps[m].list # <<>> => steps[m].list[1] = PlannedStep

\* Nor are the messages of the lifecycle posted where reminders go to two channels.
MCQuiet == \A e \in events : e.kind # "reminder" => e.pc # "sending"
=============================================================================
