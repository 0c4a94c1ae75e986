----------------------------- MODULE OORStates ------------------------------
(***************************************************************************)
(* The state machine of an outgoing OOR transfer (oor/transitions.go) and  *)
(* what one turn of its session actor makes of an event.                   *)
(*                                                                         *)
(* Packages and signatures are abstracted: a package is valid and signing  *)
(* succeeds.  Retryable rejections are "busy", the others "rejected".      *)
(* Whether the retry window has run out is an input of the event           *)
(* (e.late), since it depends on the clock.  FailEvent has no sender in an *)
(* outgoing session and is left out.                                       *)
(***************************************************************************)
EXTENDS FiniteSets

Phases == {"idle", "ark_signatures", "submit", "checkpoint_signatures",
           "finalize", "local_update", "completed", "failed"}

\* first stands for FirstRejectUnixNanos # 0.
OORState(phase) == [phase |-> phase, first |-> FALSE]

OORStateSet == [phase: Phases, first: BOOLEAN]

Terminal(st) == st.phase \in {"completed", "failed"}

\* The states that still name their inputs for a release.
prePONRInputOutpoints(st) == st.phase \in {"ark_signatures", "submit"}

OOREvent(type) == [type |-> type, late |-> FALSE]

\* late: the retry window has elapsed.
Busy(late) == [OOREvent("busy") EXCEPT !.late = late]

-----------------------------------------------------------------------------
To(st, out) == [next |-> st, out |-> out]

unexpectedEvent(st) == To(st, {})

\* The terminal branch of handleOutboxError.
FailWith(st) ==
    To(OORState("failed"),
       IF prePONRInputOutpoints(st) THEN {"release"} ELSE {})

handleOutboxError(st, e) ==
    IF e.type = "rejected" THEN FailWith(st) ELSE To(st, {"retry"})

\* Mutant: the inputs are released before the retry is decided on.
handleSubmitOutboxError_releases(st, e) ==
    IF e.type = "busy" /\ ~(st.first /\ e.late)
    THEN To([st EXCEPT !.first = TRUE], {"retry", "release"})
    ELSE FailWith(st)

handleSubmitOutboxError(st, e) ==
    IF e.type = "busy" /\ ~(st.first /\ e.late)
    THEN To([st EXCEPT !.first = TRUE], {"retry"})
    ELSE FailWith(st)

submitOutbox == {"send_submit", "retry"}
finalizeOutbox == {"send_finalize", "retry"}

\* One operator per state, as in the code.
Idle(st, e) ==
    IF e.type = "start" THEN To(OORState("ark_signatures"), {"sign_ark"})
    ELSE unexpectedEvent(st)

AwaitingArkSignatures(st, e) ==
    CASE e.type = "ark_signed" -> To(OORState("submit"), submitOutbox)
      [] e.type \in {"busy", "rejected"} -> handleOutboxError(st, e)
      [] OTHER -> unexpectedEvent(st)

AwaitingSubmitAccepted(st, e) ==
    CASE e.type = "submit_accepted" ->
            To(OORState("checkpoint_signatures"), {"sign_checkpoints"})
      [] e.type \in {"busy", "rejected"} -> handleSubmitOutboxError(st, e)
      [] OTHER -> unexpectedEvent(st)

AwaitingCheckpointSignatures(st, e) ==
    CASE e.type = "checkpoints_signed" -> To(OORState("finalize"), finalizeOutbox)
      [] e.type \in {"busy", "rejected"} -> handleOutboxError(st, e)
      [] OTHER -> unexpectedEvent(st)

AwaitingFinalizeAccepted(st, e) ==
    CASE e.type = "finalize_accepted" ->
            To(OORState("local_update"), {"mark_spent"})
      [] e.type \in {"busy", "rejected"} -> handleOutboxError(st, e)
      [] OTHER -> unexpectedEvent(st)

AwaitingLocalVTXOUpdate(st, e) ==
    CASE e.type = "inputs_marked_spent" -> To(OORState("completed"), {})
      [] e.type \in {"busy", "rejected"} -> handleOutboxError(st, e)
      [] OTHER -> unexpectedEvent(st)

OORProcessEvent(st, e) ==
    CASE st.phase = "idle" -> Idle(st, e)
      [] st.phase = "ark_signatures" -> AwaitingArkSignatures(st, e)
      [] st.phase = "submit" -> AwaitingSubmitAccepted(st, e)
      [] st.phase = "checkpoint_signatures" -> AwaitingCheckpointSignatures(st, e)
      [] st.phase = "finalize" -> AwaitingFinalizeAccepted(st, e)
      [] st.phase = "local_update" -> AwaitingLocalVTXOUpdate(st, e)
      [] OTHER -> unexpectedEvent(st)

\* OutboxForState: what a resume re-emits.
OutboxForState(st) ==
    CASE st.phase = "ark_signatures" -> {"sign_ark"}
      [] st.phase = "submit" -> submitOutbox
      [] st.phase = "checkpoint_signatures" -> {"sign_checkpoints"}
      [] st.phase = "finalize" -> finalizeOutbox
      [] st.phase = "local_update" -> {"mark_spent", "retry"}
      [] OTHER -> {}

-----------------------------------------------------------------------------
(***************************************************************************)
(* driveOutboxEvents: the effects a session runs inline feed their result  *)
(* back as an event before the turn commits.  One follow-up leads to a     *)
(* state that waits, so a turn has at most one.                            *)
(***************************************************************************)
FollowUp(out) ==
    CASE "sign_ark" \in out -> {OOREvent("ark_signed")}
      [] "sign_checkpoints" \in out -> {OOREvent("checkpoints_signed")}
      [] "mark_spent" \in out -> {OOREvent("inputs_marked_spent")}
      [] OTHER -> {}

driveOutboxEvents(t) ==
    LET follow == FollowUp(t.out)
    IN  IF follow = {}
        THEN t
        ELSE LET last == OORProcessEvent(t.next, CHOOSE e \in follow : TRUE)
             IN  To(last.next, t.out \cup last.out)

\* handleStartTransfer, handleDriveEvent and handleResumeSession on the state
\* machine: the state the turn commits and every effect it runs.
Turn(st, e) ==
    driveOutboxEvents(IF e.type = "resume" THEN To(st, OutboxForState(st))
                      ELSE OORProcessEvent(st, e))

=============================================================================
