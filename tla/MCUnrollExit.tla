---------------------------- MODULE MCUnrollExit ----------------------------
(***************************************************************************)
(* Instances of UnrollRegistry.                                            *)
(***************************************************************************)
EXTENDS UnrollRegistry, TLC

CONSTANTS
    a, b, t,         \* nodes of the proofs; t carries the VTXO
    s1, s2,          \* the sweeps
    x, y,            \* a foreign spend of a source, and of the target
    srcA, srcB,      \* source outputs
    ear1, ear2       \* listeners

MCTxs == {a, b, t, s1, s2, x, y}
MCSweeps == <<s1, s2>>
MCSubs == {Child, ear1, ear2}
MCWanted == [s \in MCSubs |-> IF s = Child
                              THEN {"confirmed", "finalized", "failed"}
                              ELSE {}]

Single == [nodes |-> {t}, inputs |-> (t :> {srcA}), target |-> t,
           checkpoints |-> {}, delay |-> 1, margin |-> 1]
Chain == [Single EXCEPT !.nodes = {a, t},
                        !.inputs = (a :> {srcA}) @@ (t :> {a})]
Roots == [Single EXCEPT !.nodes = {a, b, t},
                        !.inputs = (a :> {srcA}) @@ (b :> {srcB})
                                    @@ (t :> {a, b})]

(* Scenarios.  Each isolates one kind of trouble, so that their state      *)
(* spaces add up instead of multiplying.                                   *)
Plain == [proof |-> Single, fraud |-> FALSE, outside |-> {},
          foreign |-> <<>>, asks |-> 1, faults |-> <<>>, max |-> 0,
          final |-> 9, top |-> 4]

(* A proof with an ancestor. *)
Deep == [Plain EXCEPT !.proof = Chain, !.top = 5]
(* A crash, a failed route, and a second ask. *)
Interrupted == [Plain EXCEPT !.faults = [crash |-> 1, route |-> 1],
                             !.max = 2, !.asks = 3, !.top = 3]
Restarted == [Plain EXCEPT !.faults = [crash |-> 1, route |-> 1], !.max = 1,
                           !.asks = 2]
(* A lost lease, or no fee estimate. *)
Hampered == [Plain EXCEPT !.faults = [lease |-> 1, estimate |-> 1],
                          !.max = 1, !.asks = 2]
(* The checkpoint cannot be written, or the ledger does not answer. *)
Unstaged == [Plain EXCEPT !.faults = [stage |-> 1, ledger |-> 1], !.max = 1,
                          !.asks = 2]
(* The job cannot start, or the registry cannot store or wait. *)
Unstarted == [Plain EXCEPT !.max = 2, !.asks = 2, !.top = 2,
                !.faults = [load |-> 1, store |-> 1, timeout |-> 1]]
(* Sweeps refused for their fee, any of which may still be mined. *)
Repriced == [Plain EXCEPT !.faults = [fee |-> 2], !.max = 2,
                          !.outside = {s1, s2}, !.top = 5]
RepricedCrash == [Plain EXCEPT !.faults = [fee |-> 1, crash |-> 1], !.max = 2]
(* The sweep cannot be built, or is refused for good. *)
Unbuilt == [Plain EXCEPT !.faults = [permanent |-> 1, build |-> 1],
                         !.max = 2]
(* Somebody else spends the source, or the target. *)
Forestalled == [Plain EXCEPT !.outside = {x}, !.foreign = (x :> {srcA}),
                             !.faults = [crash |-> 1], !.max = 1, !.top = 3]
Claimed == [Plain EXCEPT !.outside = {y}, !.foreign = (y :> {t})]
(* Two roots, one or both refused, or only one of them submitted. *)
Split == [Plain EXCEPT !.proof = Roots, !.faults = [structural |-> 2],
                       !.max = 2, !.asks = 2, !.top = 2]
SplitRoute == [Plain EXCEPT !.proof = Roots, !.max = 1, !.asks = 2, !.top = 2,
                            !.faults = [unknown |-> 1, route |-> 1]]
(* An exit that answers a fraud leaves its checkpoint to the operator. *)
Fraud == [Plain EXCEPT !.proof = [Single EXCEPT !.checkpoints = {t},
                                                !.delay = 2],
                       !.fraud = TRUE, !.outside = {t}, !.top = 5]
(* A reorg and slow mailboxes; finality, and a record that is not stored. *)
Reorged == [Plain EXCEPT !.faults = [slow |-> 1, reorg |-> 1, lost |-> 1],
                         !.max = 2, !.top = 3]
Final == [Plain EXCEPT !.final = 2, !.faults = [store |-> 1], !.max = 1]
(* Only listeners. *)
Ears == [Plain EXCEPT !.asks = 0, !.max = 2, !.final = 2,
            !.faults = [slow |-> 1, reorg |-> 1, structural |-> 1,
                        cancel |-> 1, lost |-> 1]]

MCScenarios == {Deep, Interrupted, Restarted, Hampered, Unstaged, Unstarted, Repriced,
                RepricedCrash, Unbuilt, Forestalled, Claimed, Split,
                SplitRoute, Fraud, Reorged, Final, Ears}
=============================================================================
