---------------------------- MODULE BthreadQueue ----------------------------
(***************************************************************************)
(* The run queues of bthread's workers (brpc/src/bthread/                  *)
(* work_stealing_queue.h): each worker pushes and pops at the bottom of    *)
(* its own WorkStealingQueue, and every worker steals at the top of any.   *)
(* Each access to _top, _bottom or a slot that another thread can write or *)
(* watch is a step.  Accesses are sequentially consistent, which is what   *)
(* the fences and the compare_exchange are there for.                      *)
(*                                                                         *)
(* _bottom and the slots of a queue are written by its owner alone, so the *)
(* owner's loads of them need no step of their own.                        *)
(***************************************************************************)
EXTENDS Integers

CONSTANTS
  Workers,   \* the worker threads; the queue of worker w is called w
  Items,     \* what is queued
  NoItem,    \* the contents of a slot never written, and the result "false"
  Capacity   \* _capacity: b & (_capacity - 1) is b % Capacity

ASSUME QueueAssumption == /\ Capacity \in Nat \ {0}
                          /\ NoItem \notin Items

VARIABLES
  _top, _bottom, _buffer,
  at,       \* where each worker is in push(), pop() or steal()
  victim,   \* the queue it is at
  t, b,     \* its variables of these names
  val,      \* the item to push, or the result
  balance   \* history: pushes of each item less the times it was handed out

queueVars == <<_top, _bottom, _buffer, at, victim, t, b, val, balance>>

QueueInit ==
  /\ _top = [q \in Workers |-> 1] /\ _bottom = [q \in Workers |-> 1]
  /\ _buffer = [q \in Workers |-> [i \in 0..Capacity - 1 |-> NoItem]]
  /\ at = [w \in Workers |-> "idle"] /\ victim = [w \in Workers |-> w]
  /\ t = [w \in Workers |-> 0] /\ b = [w \in Workers |-> 0]
  /\ val = [w \in Workers |-> NoItem]
  /\ balance = [x \in Items |-> 0]

Slot(p) == p % Capacity

Goto(w, place) == at' = [at EXCEPT ![w] = place]

\* The call ends with the result x (NoItem: false).
Return(w, x) ==
  /\ Goto(w, "idle")
  /\ val' = [val EXCEPT ![w] = x]
  /\ t' = [t EXCEPT ![w] = 0] /\ b' = [b EXCEPT ![w] = 0]
  /\ UNCHANGED victim

HandOut(x) == balance' = [balance EXCEPT ![x] = @ - 1]

-----------------------------------------------------------------------------
(* push(), by the owner                                                    *)

Full(w) == _bottom[w] >= _top[w] + Capacity

PushBegin(w, x) ==
  /\ at[w] = "idle" /\ ~Full(w)
  /\ Goto(w, "push_write")
  /\ victim' = [victim EXCEPT ![w] = w]
  /\ val' = [val EXCEPT ![w] = x]
  /\ b' = [b EXCEPT ![w] = _bottom[w]]
  /\ UNCHANGED <<_top, _bottom, _buffer, t, balance>>

PushWrite(w) ==
  /\ at[w] = "push_write"
  /\ _buffer' = [_buffer EXCEPT ![w][Slot(b[w])] = val[w]]
  /\ Goto(w, "push_publish")
  /\ UNCHANGED <<_top, _bottom, victim, t, b, val, balance>>

PushPublish(w) ==
  /\ at[w] = "push_publish"
  /\ _bottom' = [_bottom EXCEPT ![w] = b[w] + 1]
  /\ balance' = [balance EXCEPT ![val[w]] = @ + 1]
  /\ Return(w, val[w])
  /\ UNCHANGED <<_top, _buffer>>

-----------------------------------------------------------------------------
(* pop(), by the owner                                                     *)

PopEmpty(w) ==
  /\ at[w] = "idle" /\ _top[w] >= _bottom[w]
  /\ Return(w, NoItem)
  /\ UNCHANGED <<_top, _bottom, _buffer, balance>>

PopBegin(w) ==
  /\ at[w] = "idle" /\ _top[w] < _bottom[w]
  /\ Goto(w, "pop_reserve")
  /\ victim' = [victim EXCEPT ![w] = w]
  /\ b' = [b EXCEPT ![w] = _bottom[w]]
  /\ UNCHANGED <<_top, _bottom, _buffer, t, val, balance>>

\* _bottom.store(newb), then the fence.
PopReserve(w) ==
  /\ at[w] = "pop_reserve"
  /\ _bottom' = [_bottom EXCEPT ![w] = b[w] - 1]
  /\ Goto(w, "pop_look")
  /\ UNCHANGED <<_top, _buffer, victim, t, b, val, balance>>

\* A thief has taken the last item meanwhile.
PopTooLate(w) ==
  /\ at[w] = "pop_look" /\ _top[w] > b[w] - 1
  /\ Goto(w, "pop_restore")
  /\ val' = [val EXCEPT ![w] = NoItem]
  /\ UNCHANGED <<_top, _bottom, _buffer, victim, t, b, balance>>

\* Mutant: the last item needs none either.
PopAny(w) ==
  /\ at[w] = "pop_look" /\ _top[w] <= b[w] - 1
  /\ Return(w, _buffer[w][Slot(b[w] - 1)])
  /\ HandOut(_buffer[w][Slot(b[w] - 1)])
  /\ UNCHANGED <<_top, _bottom, _buffer>>

\* More items are left: this one needs no compare_exchange.
PopTake(w) ==
  /\ at[w] = "pop_look" /\ _top[w] < b[w] - 1
  /\ Return(w, _buffer[w][Slot(b[w] - 1)])
  /\ HandOut(_buffer[w][Slot(b[w] - 1)])
  /\ UNCHANGED <<_top, _bottom, _buffer>>

PopLast(w) ==
  /\ at[w] = "pop_look" /\ _top[w] = b[w] - 1
  /\ Goto(w, "pop_cas")
  /\ t' = [t EXCEPT ![w] = _top[w]]
  /\ val' = [val EXCEPT ![w] = _buffer[w][Slot(b[w] - 1)]]
  /\ UNCHANGED <<_top, _bottom, _buffer, victim, b, balance>>

\* The compare_exchange of pop().
PopWin(w) ==
  /\ at[w] = "pop_cas" /\ _top[w] = t[w]
  /\ _top' = [_top EXCEPT ![w] = t[w] + 1]
  /\ HandOut(val[w])
  /\ Goto(w, "pop_restore")
  /\ UNCHANGED <<_bottom, _buffer, victim, t, b, val>>

PopLose(w) ==
  /\ at[w] = "pop_cas" /\ _top[w] # t[w]
  /\ val' = [val EXCEPT ![w] = NoItem]
  /\ Goto(w, "pop_restore")
  /\ UNCHANGED <<_top, _bottom, _buffer, victim, t, b, balance>>

PopRestore(w) ==
  /\ at[w] = "pop_restore"
  /\ _bottom' = [_bottom EXCEPT ![w] = b[w]]
  /\ Return(w, val[w])
  /\ UNCHANGED <<_top, _buffer, balance>>

-----------------------------------------------------------------------------
(* steal(), by any worker from the queue q                                 *)

StealBegin(w, q) ==
  /\ at[w] = "idle"
  /\ victim' = [victim EXCEPT ![w] = q]
  /\ t' = [t EXCEPT ![w] = _top[q]]
  /\ Goto(w, "steal_load")
  /\ UNCHANGED <<_top, _bottom, _buffer, b, val, balance>>

\* The load of _bottom.  The one before the loop is repeated at once in it:
\* whatever the first sees the second could have seen.
StealEmpty(w) ==
  /\ at[w] = "steal_load" /\ t[w] >= _bottom[victim[w]]
  /\ Return(w, NoItem)
  /\ UNCHANGED <<_top, _bottom, _buffer, balance>>

StealLoad(w) ==
  /\ at[w] = "steal_load" /\ t[w] < _bottom[victim[w]]
  /\ Goto(w, "steal_read")
  /\ UNCHANGED <<_top, _bottom, _buffer, victim, t, b, val, balance>>

StealRead(w) ==
  /\ at[w] = "steal_read"
  /\ val' = [val EXCEPT ![w] = _buffer[victim[w]][Slot(t[w])]]
  /\ Goto(w, "steal_cas")
  /\ UNCHANGED <<_top, _bottom, _buffer, victim, t, b, balance>>

\* The compare_exchange of steal(); when it fails it loads _top again.
StealWin(w) ==
  /\ at[w] = "steal_cas" /\ _top[victim[w]] = t[w]
  /\ _top' = [_top EXCEPT ![victim[w]] = t[w] + 1]
  /\ HandOut(val[w])
  /\ Return(w, val[w])
  /\ UNCHANGED <<_bottom, _buffer>>

StealLose(w) ==
  /\ at[w] = "steal_cas" /\ _top[victim[w]] # t[w]
  /\ t' = [t EXCEPT ![w] = _top[victim[w]]]
  /\ Goto(w, "steal_load")
  /\ UNCHANGED <<_top, _bottom, _buffer, victim, b, val, balance>>

-----------------------------------------------------------------------------
PushStep(w) == PushWrite(w) \/ PushPublish(w)
PopStep(w) == \/ PopReserve(w) \/ PopTooLate(w) \/ PopTake(w) \/ PopLast(w)
              \/ PopWin(w) \/ PopLose(w) \/ PopRestore(w)
StealStep(w) == StealEmpty(w) \/ StealLoad(w) \/ StealRead(w) \/ StealWin(w) \/ StealLose(w)

\* Whoever calls push() brings an item that is in no queue and that nobody
\* else is pushing: a task is made ready by one thread at a time.
IsPushing(w, x) == at[w] \in {"push_write", "push_publish"} /\ val[w] = x
MayPush(x) == balance[x] = 0 /\ \A w \in Workers : ~IsPushing(w, x)

QueueNext == \E w \in Workers :
  \/ \E x \in Items : MayPush(x) /\ PushBegin(w, x)
  \/ PopEmpty(w) \/ PopBegin(w)
  \/ \E q \in Workers : StealBegin(w, q)
  \/ PushStep(w) \/ PopStep(w) \/ StealStep(w)

QueueSpec == QueueInit /\ [][QueueNext]_queueVars

-----------------------------------------------------------------------------
(* Every item comes out exactly once.                                      *)

Places == {"idle", "push_write", "push_publish", "pop_reserve", "pop_look", "pop_cas",
           "pop_restore", "steal_load", "steal_read", "steal_cas"}

QueueTypeOK ==
  /\ _top \in [Workers -> Nat] /\ _bottom \in [Workers -> Nat]
  /\ _buffer \in [Workers -> [0..Capacity - 1 -> Items \cup {NoItem}]]
  /\ at \in [Workers -> Places] /\ victim \in [Workers -> Workers]
  /\ t \in [Workers -> Nat] /\ b \in [Workers -> Nat]
  /\ val \in [Workers -> Items \cup {NoItem}]
  /\ balance \in [Items -> Int]

\* The end of the queue's contents: pop() lowers _bottom before it knows
\* whether it gets the item.
End(q) == IF at[q] \in {"pop_look", "pop_cas", "pop_restore"} THEN b[q] ELSE _bottom[q]

Span(q) == _top[q]..(End(q) - 1)

\* What each worker knows where it is in its call.
Pushing(w) ==
  at[w] \in {"push_write", "push_publish"} =>
    /\ b[w] = _bottom[w] /\ b[w] < _top[w] + Capacity
    /\ val[w] \in Items /\ balance[val[w]] = 0
    /\ \A v \in Workers \ {w} : ~IsPushing(v, val[w])
    /\ at[w] = "push_publish" => _buffer[w][Slot(b[w])] = val[w]

Popping(w) ==
  /\ at[w] = "pop_reserve" => b[w] = _bottom[w] /\ b[w] > 0
  /\ at[w] \in {"pop_look", "pop_cas", "pop_restore"} => b[w] = _bottom[w] + 1
  /\ at[w] = "pop_cas" =>
       /\ t[w] = _bottom[w] /\ _top[w] >= t[w]
       /\ val[w] = _buffer[w][Slot(t[w])] /\ val[w] \in Items
  /\ at[w] = "pop_restore" => _top[w] = b[w]

Stealing(w) ==
  /\ at[w] \in {"steal_load", "steal_read", "steal_cas"} => t[w] <= _top[victim[w]]
  /\ at[w] \in {"steal_read", "steal_cas"} /\ t[w] = _top[victim[w]] => t[w] < End(victim[w])
  /\ at[w] = "steal_cas" /\ t[w] = _top[victim[w]] => val[w] = _buffer[victim[w]][Slot(t[w])]

\* push(), pop() and steal() of work_stealing_queue.h: an item that was pushed
\* and not handed out is in one slot of one queue between _top and the end,
\* all items there are of this kind, and no item is handed out twice.
EachItemOnce ==
  /\ \A q \in Workers : _top[q] <= End(q) /\ End(q) <= _top[q] + Capacity
  /\ \A x \in Items : balance[x] \in {0, 1}
  /\ \A x \in Items : balance[x] = 1 =>
       \E q \in Workers : \E p \in Span(q) : _buffer[q][Slot(p)] = x
  /\ \A q \in Workers : \A p \in Span(q) :
       _buffer[q][Slot(p)] \in Items /\ balance[_buffer[q][Slot(p)]] = 1
  /\ \A q1, q2 \in Workers : \A p1 \in Span(q1), p2 \in Span(q2) :
       _buffer[q1][Slot(p1)] = _buffer[q2][Slot(p2)] => q1 = q2 /\ p1 = p2

QueueInvariant ==
  /\ QueueTypeOK
  /\ EachItemOnce
  /\ \A w \in Workers : Pushing(w) /\ Popping(w) /\ Stealing(w)
=============================================================================
