----------------------------- MODULE EventQueue -----------------------------
(***************************************************************************)
(* The simultaneous-event queue of src/sim/core/event_queue.h.             *)
(*                                                                         *)
(* The binary heap (std::push_heap / std::pop_heap over event_before) is   *)
(* abstracted to the set of queued events: push adds one with the next     *)
(* sequence number, pop removes the event that comes before every other.   *)
(***************************************************************************)
EXTENDS Integers

\* EventKind: the kinds double as same-timestamp priorities.
Checkpoint == 0
MatchEnd   == 1
Decide     == 2
Swing      == 3

Kind == {Checkpoint, MatchEnd, Decide, Swing}

\* Entity ids; 0 marks an event that belongs to no unit.
EntityId == 0..2

Event == [time_ms: Nat, kind: Kind, source_id: EntityId, target_id: EntityId, seq: Nat]

\* Mutant: at equal time the unit ids are compared before the priorities.
event_before_IdsFirst(a, b) ==
  \/ a.time_ms < b.time_ms
  \/ a.time_ms = b.time_ms /\ a.source_id < b.source_id
  \/ a.time_ms = b.time_ms /\ a.source_id = b.source_id /\ a.kind > b.kind

\* Mutant: simultaneous events come in the order they were pushed.
event_before_ByInsertion(a, b) ==
  \/ a.time_ms < b.time_ms
  \/ a.time_ms = b.time_ms /\ a.seq < b.seq

\* The total order (time_ms, priority, source_id, target_id, seq).
event_before(a, b) ==
  \/ a.time_ms < b.time_ms
  \/ /\ a.time_ms = b.time_ms
     /\ \/ a.kind < b.kind
        \/ /\ a.kind = b.kind
           /\ \/ a.source_id < b.source_id
              \/ /\ a.source_id = b.source_id
                 /\ \/ a.target_id < b.target_id
                    \/ a.target_id = b.target_id /\ a.seq < b.seq

EmptyQueue == [heap |-> {}, next_seq |-> 0]

push(q, time_ms, kind, source_id, target_id) ==
  [heap |-> q.heap \cup {[time_ms |-> time_ms, kind |-> kind, source_id |-> source_id,
                          target_id |-> target_id, seq |-> q.next_seq]},
   next_seq |-> q.next_seq + 1]

\* The event pop() returns.
IsTop(q, e) == e \in q.heap /\ \A o \in q.heap \ {e} : event_before(e, o)

\* The queue pop() leaves.
pop(q, e) == [q EXCEPT !.heap = @ \ {e}]

\* The events of one kind still queued.
Queued(q, kind) == {e \in q.heap : e.kind = kind}
=============================================================================
