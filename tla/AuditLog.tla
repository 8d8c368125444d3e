------------------------------ MODULE AuditLog ------------------------------
(***************************************************************************)
(* What the audit record promises: a log that only grows at its end, and   *)
(* holds no event twice.  Once somebody has reached behind it, the promise *)
(* is void.                                                                *)
(***************************************************************************)
EXTENDS Naturals, Sequences
CONSTANT Recordable \* events that may be recorded
VARIABLES log,      \* entries, each of one event
          breached

vars == <<log, breached>>

Recorded == {log[i].event : i \in DOMAIN log}

Init == log = <<>> /\ breached = FALSE

\* One entry more; those before it stay what and where they are.
Record(e) ==
  /\ ~breached /\ e \notin Recorded
  /\ DOMAIN log' = 1..Len(log) + 1
  /\ \A i \in DOMAIN log : log'[i] = log[i]
  /\ log'[Len(log) + 1].event = e
  /\ UNCHANGED breached

Breach == /\ ~breached /\ breached' = TRUE
          /\ log' = <<>>

Next == Breach \/ \E e \in Recordable : Record(e)

Spec == Init /\ [][Next]_vars
=============================================================================
