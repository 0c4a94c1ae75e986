--------------------------- MODULE MCRoundClient ----------------------------
(***************************************************************************)
(* Instances of RoundClient.  Each scenario isolates one kind of trouble,  *)
(* so that their state spaces add up instead of multiplying.               *)
(***************************************************************************)
EXTENDS RoundClient

Plain == [wants |-> {"board"}, asks |-> 2, faults |-> {}, max |-> 0,
          early |-> {}, dies |-> FALSE, budget |-> FALSE]

(* A deposit and a refresh that may share a round, with an operator that    *)
(* refuses, falls silent or gives up.                                       *)
Shared == [Plain EXCEPT !.wants = {"board", "refresh"}, !.dies = TRUE]
(* Registrations that are refused by the round actor or fail its checks. *)
Refused == [Plain EXCEPT !.wants = {"board", "send"}, !.asks = 1,
                         !.dies = TRUE, !.faults = {"join", "slot", "wallet"}, !.max = 1]
Rejected == [Plain EXCEPT !.wants = {"send"}, !.dies = TRUE,
                          !.faults = {"check", "store", "server", "height"},
                          !.max = 2]
Unboarded == [Rejected EXCEPT !.wants = {"board"}]
(* Quotes out of order and messages that come twice. *)
Overtaken == [Plain EXCEPT !.wants = {"send"}, !.asks = 1, !.dies = TRUE,
                           !.faults = {"reseal", "dup"}, !.max = 2]
(* Failures of rounds that live on. *)
Misled == [Plain EXCEPT !.wants = {"board", "send"}, !.faults = {"stray"},
                        !.max = 1]
(* Restarts. *)
Crashed == [Plain EXCEPT !.wants = {"refresh"}, !.dies = TRUE,
                         !.faults = {"crash"}, !.max = 2]
CrashedBoard == [Crashed EXCEPT !.wants = {"board"}, !.dies = FALSE]
(* A leave. *)
Left == [Crashed EXCEPT !.wants = {"leave"}, !.max = 1]
(* The finalization, or the last words of a round, fail. *)
Unsettled == [Plain EXCEPT !.wants = {"refresh"}, !.max = 2,
                           !.faults = {"finalize", "crash", "forfeited"}]
GivenUp == [Unsettled EXCEPT !.faults = {"finalize", "crash"}, !.max = 4]
(* Local messages that are lost. *)
Deaf == [Plain EXCEPT !.wants = {"refresh"}, !.dies = TRUE, !.max = 1,
                      !.faults = {"start", "cancel", "query", "ask", "watch",
                                  "retire"}]
(* Timers that beat messages, a scheduled slot, a short budget. *)
Hasty == [Plain EXCEPT !.wants = {"refresh"}, !.budget = TRUE, !.max = 1,
                       !.faults = {"schedule"},
                       !.early = Phases \ {"reconcile"}]

MCScenarios == {Shared, Refused, Rejected, Unboarded, Overtaken, Misled,
                Crashed, CrashedBoard, Left, Unsettled, GivenUp, Deaf, Hasty}
MCLeave == {Left}
=============================================================================
