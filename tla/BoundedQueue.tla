---------------------------- MODULE BoundedQueue ----------------------------
(***************************************************************************)
(* libs/common BoundedQueue<T> as data: what each member function does to  *)
(* the queue while it holds the mutex.  A queue is a record of its items,  *)
(* whether close() was called, and the largest depth it ever had.  The     *)
(* member size_ always equals the number of items and is not kept apart.   *)
(* Blocking, timeouts and the condition variables belong to the modules    *)
(* whose threads call these functions.                                     *)
(***************************************************************************)
LOCAL INSTANCE Naturals
LOCAL INSTANCE Sequences

\* The constructor: a capacity of 0 is taken as 1.
EffectiveCapacity(capacity) == IF capacity = 0 THEN 1 ELSE capacity

NewQueue == [items |-> <<>>, closed |-> FALSE, peak |-> 0]

QueueType(Item) == [items : Seq(Item), closed : BOOLEAN, peak : Nat]

\* Mutant: the capacity is one too many.
HasRoomLate(q, capacity) == Len(q.items) <= EffectiveCapacity(capacity)

HasRoom(q, capacity) == Len(q.items) < EffectiveCapacity(capacity)

\* A pop can return an item: close() keeps what is queued.
HasItem(q) == q.items # <<>>

\* A pop returns kClosed: closed, and drained to the last item.
Drained(q) == q.closed /\ q.items = <<>>

\* Mutant: the newest item is the next one out.
PushFront(q, x) ==
  LET longer == <<x>> \o q.items
  IN  [q EXCEPT !.items = longer,
                !.peak = IF Len(longer) > @ THEN Len(longer) ELSE @]

\* push_locked
Push(q, x) ==
  LET items == Append(q.items, x)
  IN  [q EXCEPT !.items = items,
                !.peak  = IF Len(items) > q.peak THEN Len(items) ELSE q.peak]

\* pop_locked: the item is Head(q.items).
Pop(q) == [q EXCEPT !.items = Tail(q.items)]

Close(q) == [q EXCEPT !.closed = TRUE]

=============================================================================
