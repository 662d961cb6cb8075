------------------------------ MODULE EventRules ------------------------------
(***************************************************************************)
(* The rules by which the coordinator's EventLedger judges a normalized    *)
(* event (coordinator/src/domain/event-ledger.ts).  A ledger is the set of *)
(* the events it has received; an event is a record                        *)
(*                                                                         *)
(*   id     <<source, number>>, the eventId: "runtime" events are numbered *)
(*          by the adapter, "policy" notices by their sequence, and the    *)
(*          coordinator's own terminal is the only "coordinator" event     *)
(*   seq    the sequence number                                            *)
(*   kind   "progress" (run, model, tool, ... events), "usage", "policy"   *)
(*          or "terminal"                                                  *)
(*   state  the state of a terminal or of a policy notice, else "none"     *)
(*   reason the abort cause a terminal is blamed on, else "none"            *)
(*   usage  the snapshot of a usage event, else a placeholder              *)
(*                                                                         *)
(* Two events are semantically equal JSON exactly when their records are   *)
(* equal.  Schema validation and run attribution are not modelled.         *)
(***************************************************************************)
EXTENDS Integers

SequencesOf(received) == {e.seq : e \in received}

TerminalsOf(received) == {e \in received : e.kind = "terminal"}

Known(received, e) == \E r \in received : r.id = e.id

(* The same eventId with different JSON: a contract error. *)
Conflicting(received, e) == \E r \in received : r.id = e.id /\ r # e

(* Mutant: only a terminal on the same sequence counts as a second one. *)
MutantSecondTerminal(received, e) ==
  /\ ~Known(received, e)
  /\ e.kind = "terminal"
  /\ e.seq \in SequencesOf(TerminalsOf(received))

(* A second terminal event, under whatever eventId: a contract error. *)
SecondTerminal(received, e) ==
  /\ ~Known(received, e)
  /\ e.kind = "terminal"
  /\ TerminalsOf(received) # {}

(* An event past the accepted terminal is dropped, not an error. *)
AfterTerminal(received, e) ==
  /\ ~Known(received, e)
  /\ e.kind # "terminal"
  /\ \E t \in TerminalsOf(received) : e.seq > t.seq

(* A new event on a sequence number already used: a contract error. *)
SequenceTaken(received, e) ==
  /\ ~Known(received, e)
  /\ ~SecondTerminal(received, e)
  /\ ~AfterTerminal(received, e)
  /\ e.seq \in SequencesOf(received)

Rejected(received, e) ==
  \/ Conflicting(received, e)
  \/ SecondTerminal(received, e)
  \/ SequenceTaken(received, e)

Dropped(received, e) == e \in received \/ AfterTerminal(received, e)

Accepted(received, e) == ~Rejected(received, e) /\ ~Dropped(received, e)

(* The sequence of the next event the coordinator itself creates. *)
NextSequence(received) ==
  LET used == {0} \cup SequencesOf(received)
  IN  1 + CHOOSE m \in used : \A n \in used : n <= m

(* Mutant: the coordinator's own notices are not made room for. *)
MutantSequenceAfterCoordinatorEvents(received, seq, offset) == seq

(* The sequence a runtime event is filed under once the coordinator has      *)
(* inserted `offset` notices of its own: shifted by the offset, then past    *)
(* the numbers already taken.                                                *)
SequenceAfterCoordinatorEvents(received, seq, offset) ==
  LET from == seq + offset
      free == {n \in from..(from + NextSequence(received)) : n \notin SequencesOf(received)}
  IN  IF offset = 0 THEN seq
      ELSE CHOOSE n \in free : \A m \in free : n <= m
===============================================================================
