---------------------------- MODULE StepContract ----------------------------
(***************************************************************************)
(* One child of a wave as TaskSaga models it: preflight, which a cancel    *)
(* ends, a shielded execution, which it does not, and the returned status. *)
(* A judged step that was asked to cancel during its execution loses the   *)
(* completed result.                                                       *)
(***************************************************************************)
VARIABLES phase, out, asked, sampled, ran

contractVars == <<phase, out, asked, sampled, ran>>

Init ==
  /\ phase = "preflight" /\ out = "none" /\ asked = FALSE /\ sampled = FALSE
  /\ ran = FALSE

\* The route decides whether the step is judged.
Sample ==
  /\ phase = "preflight" /\ sampled' \in BOOLEAN
  /\ UNCHANGED <<phase, out, asked, ran>>

PreflightFails ==
  /\ phase = "preflight" /\ phase' = "returned" /\ out' = "failed"
  /\ asked' \in {asked, TRUE} /\ UNCHANGED <<sampled, ran>>

BeginExecute ==
  /\ phase = "preflight" /\ ~asked /\ phase' = "executing"
  /\ UNCHANGED <<out, asked, sampled, ran>>

NoteCancel ==
  /\ phase = "executing" /\ ~asked /\ asked' = TRUE
  /\ UNCHANGED <<phase, out, sampled, ran>>

Ran ==
  /\ phase = "executing" /\ ran' = TRUE
  /\ UNCHANGED <<phase, out, asked, sampled>>

\* A completed result is returned, unless the step is judged and the cancel
\* came before its judge was started.
EndExecute ==
  /\ phase = "executing" /\ phase' = "returned"
  /\ asked' \in {asked, TRUE}
  /\ \/ ran /\ out' = "completed" /\ ~(sampled /\ asked')
     \/ (ran => sampled /\ asked') /\ out' = "failed"
  /\ UNCHANGED <<sampled, ran>>

Next == Sample \/ PreflightFails \/ BeginExecute \/ NoteCancel \/ Ran \/ EndExecute

Spec == Init /\ [][Next]_contractVars
=============================================================================
