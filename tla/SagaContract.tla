---------------------------- MODULE SagaContract ----------------------------
(***************************************************************************)
(* What a task with undoable writes promises: it moves forward, then       *)
(* either keeps all its writes or takes every one of them back, dependents *)
(* first.  A write that cannot be taken back is recorded as stuck.  Only   *)
(* an aborted task (its workflow failed) is excused.                       *)
(***************************************************************************)
CONSTANTS Steps
VARIABLES phase,  \* forward, backward, kept, unwound, aborted
          fate,   \* open, clean, applied, lost, undone, stuck
          deps    \* the steps each step depends on

vars == <<phase, fate, deps>>

Applied == {s \in Steps : fate[s] = "applied"}

Init == /\ phase = "forward"
        /\ fate = [s \in Steps |-> "open"]
        /\ deps = [s \in Steps |-> {}]

Plan == /\ phase = "forward" /\ Applied = {}
        /\ deps' \in [Steps -> SUBSET Steps]
        /\ UNCHANGED <<phase, fate>>

\* Open steps are decided, several at a time; a decided step stays decided,
\* and a step is applied only after the steps it depends on.
Advance == /\ phase = "forward" /\ phase' \in {"forward", "aborted"}
           /\ \A s \in Steps : fate[s] # "open" => fate'[s] = fate[s]
           /\ \A s \in Steps : fate'[s] \in {"open", "clean", "applied", "lost"}
           /\ \A s \in Steps : fate[s] = "open" /\ fate'[s] \in {"clean", "applied"} =>
                \A d \in deps[s] : fate[d] \in {"clean", "applied"}
           /\ UNCHANGED deps

\* Half a change is never kept.
Keep == /\ phase = "forward" /\ phase' = "kept"
        /\ \A s \in Steps : fate[s] \in {"clean", "applied"}
        /\ UNCHANGED <<fate, deps>>

TurnBack == /\ phase = "forward" /\ phase' = "backward"
            /\ UNCHANGED <<fate, deps>>

TakeBack(s) == /\ phase = "backward" /\ s \in Applied
               /\ \A t \in Applied : s \notin deps[t]
               /\ \/ fate' = [fate EXCEPT ![s] = "undone"] /\ UNCHANGED phase
                  \/ fate' = [fate EXCEPT ![s] = "stuck"] /\ phase' \in {phase, "aborted"}
               /\ UNCHANGED deps

\* The end of a task that takes its writes back, or had none.
Conclude == /\ phase \in {"forward", "backward"} /\ phase' = "unwound"
            /\ Applied = {}
            /\ UNCHANGED <<fate, deps>>

Abort == /\ phase' = "aborted"
         /\ UNCHANGED <<fate, deps>>

Next == Plan \/ Advance \/ Keep \/ TurnBack \/ Conclude \/ Abort
        \/ \E s \in Steps : TakeBack(s)

Spec == Init /\ [][Next]_vars
=============================================================================
