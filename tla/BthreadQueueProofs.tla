------------------------- MODULE BthreadQueueProofs -------------------------
(***************************************************************************)
(* WorkStealingQueue hands out every item once, for every set of workers   *)
(* and of items and every capacity.                                        *)
(***************************************************************************)
EXTENDS BthreadQueue, TLAPS

-----------------------------------------------------------------------------
(* Slots and contents                                                      *)

\* Positions less than a capacity apart have slots of their own
\* (b & (_capacity - 1) in work_stealing_queue.h).
LEMMA SlotsDiffer ==
  ASSUME NEW p1 \in Nat, NEW p2 \in Nat, p1 < p2, p2 < p1 + Capacity
  PROVE  Slot(p1) # Slot(p2)
<1>1. Capacity \in Nat /\ Capacity > 0
  BY QueueAssumption
<1>2. SUFFICES ASSUME p1 % Capacity = p2 % Capacity PROVE FALSE
  BY DEF Slot
<1>3. /\ p1 = Capacity * (p1 \div Capacity) + (p1 % Capacity)
      /\ p2 = Capacity * (p2 \div Capacity) + (p2 % Capacity)
      /\ p1 \div Capacity \in Int /\ p2 \div Capacity \in Int
  BY <1>1
<1> DEFINE d == (p2 \div Capacity) - (p1 \div Capacity)
<1>4. p2 - p1 = Capacity * d /\ d \in Int
  BY <1>1, <1>2, <1>3
<1>5. d > 0 /\ d < 1
  BY <1>1, <1>4
<1>6. QED
  BY <1>4, <1>5

\* A slot is an index of _buffer.
LEMMA SlotType == \A p \in Nat : Slot(p) \in 0..Capacity - 1
BY QueueAssumption DEF Slot


\* What a slot may hold.
LEMMA SlotHolds ==
  ASSUME QueueTypeOK, NEW q \in Workers, NEW p \in Nat
  PROVE  _buffer[q][Slot(p)] \in Items \cup {NoItem}
<1>1. Slot(p) \in 0..Capacity - 1
  BY SlotType
<1>2. _buffer[q] \in [0..Capacity - 1 -> Items \cup {NoItem}]
  BY DEF QueueTypeOK
<1> QED
  BY <1>1, <1>2

\* The end is a position.
LEMMA EndType == QueueTypeOK => \A q \in Workers : End(q) \in Nat
BY DEF QueueTypeOK, End

\* The contents are what lies between _top and the end.
LEMMA KeepsContents ==
  ASSUME EachItemOnce, UNCHANGED <<_top, balance>>, \A q \in Workers : End(q)' = End(q),
         \A q \in Workers : \A p \in Span(q) : _buffer'[q][Slot(p)] = _buffer[q][Slot(p)]
  PROVE  EachItemOnce'
BY DEF EachItemOnce, Span

\* push() publishes the item behind the end.
LEMMA PublishKeepsContents ==
  ASSUME QueueTypeOK, QueueTypeOK', EachItemOnce, UNCHANGED <<_top, _buffer>>,
         NEW q \in Workers, NEW x \in Items, End(q) < _top[q] + Capacity,
         _buffer[q][Slot(End(q))] = x, balance[x] = 0,
         balance' = [balance EXCEPT ![x] = @ + 1],
         End(q)' = End(q) + 1, \A r \in Workers \ {q} : End(r)' = End(r)
  PROVE  EachItemOnce'
<1>1. /\ \A r \in Workers : End(r) \in Nat /\ _top[r] \in Nat /\ _top[r] <= End(r)
      /\ Capacity \in Nat
  BY EndType, QueueAssumption DEF QueueTypeOK, EachItemOnce
<1>2. \A r \in Workers : \A p \in Span(r)' : p \in Span(r) \/ (r = q /\ p = End(q))
  BY <1>1 DEF Span
<1>3. /\ \A r \in Workers : \A p \in Span(r) : p \in Span(r)' /\ _buffer[r][Slot(p)] # x
      /\ End(q) \in Span(q)'
  BY <1>1 DEF Span, EachItemOnce
<1>4. \A y \in Items : balance'[y] = IF y = x THEN 1 ELSE balance[y]
  BY DEF QueueTypeOK
<1>5. \A r \in Workers : _top'[r] <= End(r)' /\ End(r)' <= _top'[r] + Capacity
  BY <1>1 DEF EachItemOnce
<1>6. ASSUME NEW y \in Items, balance'[y] = 1
      PROVE  \E r \in Workers : \E p \in Span(r)' : _buffer'[r][Slot(p)] = y
  <2>1. CASE y = x
    BY <2>1, <1>3
  <2>2. CASE y # x
    <3>1. PICK r \in Workers : \E p \in Span(r) : _buffer[r][Slot(p)] = y
      BY <1>4, <1>6, <2>2 DEF EachItemOnce
    <3>2. PICK p \in Span(r) : _buffer[r][Slot(p)] = y
      BY <3>1
    <3> QED
      BY <3>2, <1>3
  <2> QED
    BY <2>1, <2>2
<1>7. \A r \in Workers : \A p \in Span(r)' :
        _buffer'[r][Slot(p)] \in Items /\ balance'[_buffer'[r][Slot(p)]] = 1
  BY <1>2, <1>3, <1>4 DEF EachItemOnce
<1>8. \A q1, q2 \in Workers : \A p1 \in Span(q1)', p2 \in Span(q2)' :
        _buffer'[q1][Slot(p1)] = _buffer'[q2][Slot(p2)] => q1 = q2 /\ p1 = p2
  BY <1>2, <1>3 DEF EachItemOnce
<1> QED
  BY <1>4, <1>5, <1>6, <1>7, <1>8 DEF EachItemOnce

\* pop() and steal() take an item off an end.
LEMMA TakeKeepsContents ==
  ASSUME QueueTypeOK, QueueTypeOK', EachItemOnce, UNCHANGED _buffer,
         NEW q \in Workers, NEW p \in Span(q), NEW x, x = _buffer[q][Slot(p)], HandOut(x),
         \A r \in Workers \ {q} : _top'[r] = _top[r] /\ End(r)' = End(r),
         \/ p = _top[q] /\ _top'[q] = _top[q] + 1 /\ End(q)' = End(q)
         \/ p = End(q) - 1 /\ _top'[q] = _top[q] /\ End(q)' = End(q) - 1
  PROVE  EachItemOnce'
<1>1. /\ \A r \in Workers : End(r) \in Nat /\ _top[r] \in Nat
      /\ Capacity \in Nat
  BY EndType, QueueAssumption DEF QueueTypeOK
<1>2. x \in Items /\ balance[x] = 1
  BY DEF EachItemOnce
<1>3. \A r \in Workers : \A i \in Span(r)' : i \in Span(r) /\ ~(r = q /\ i = p)
  BY <1>1 DEF Span
<1>4. \A r \in Workers : \A i \in Span(r) : i \in Span(r)' \/ (r = q /\ i = p)
  BY <1>1 DEF Span
<1>5. \A r \in Workers : _top'[r] <= End(r)' /\ End(r)' <= _top'[r] + Capacity
  <2>1. \A r \in Workers : _top[r] <= End(r) /\ End(r) <= _top[r] + Capacity
    BY DEF EachItemOnce
  <2>2. _top'[q] <= End(q)' /\ End(q)' <= _top'[q] + Capacity
    BY <1>1, <2>1 DEF Span
  <2> QED
    BY <2>1, <2>2
<1>6. \A y \in Items : balance'[y] = IF y = x THEN 0 ELSE balance[y]
  BY <1>2 DEF HandOut, QueueTypeOK
<1>7. ASSUME NEW y \in Items, balance'[y] = 1
      PROVE  \E r \in Workers : \E i \in Span(r)' : _buffer'[r][Slot(i)] = y
  <2>1. y # x /\ balance[y] = 1
    BY <1>6, <1>7
  <2>2. PICK r \in Workers : \E i \in Span(r) : _buffer[r][Slot(i)] = y
    BY <2>1 DEF EachItemOnce
  <2>3. PICK i \in Span(r) : _buffer[r][Slot(i)] = y
    BY <2>2
  <2> QED
    BY <2>1, <2>3, <1>4
<1>8. ASSUME NEW r \in Workers, NEW i \in Span(r)'
      PROVE  _buffer'[r][Slot(i)] \in Items /\ balance'[_buffer'[r][Slot(i)]] = 1
  <2>1. i \in Span(r) /\ ~(r = q /\ i = p)
    BY <1>3
  <2>2. _buffer[r][Slot(i)] \in Items /\ balance[_buffer[r][Slot(i)]] = 1
    BY <2>1 DEF EachItemOnce
  <2>3. _buffer[r][Slot(i)] # x
    BY <2>1 DEF EachItemOnce
  <2> QED
    BY <2>2, <2>3, <1>6
<1>9. \A q1, q2 \in Workers : \A p1 \in Span(q1)', p2 \in Span(q2)' :
        _buffer'[q1][Slot(p1)] = _buffer'[q2][Slot(p2)] => q1 = q2 /\ p1 = p2
  BY <1>3 DEF EachItemOnce
<1> QED
  BY <1>5, <1>6, <1>7, <1>8, <1>9 DEF EachItemOnce
-----------------------------------------------------------------------------
(* The steps that leave the contents alone                                 *)

\* Nobody but w moves, and w begins to push nothing that another pushes.
OnlyMoves(w) == \A v \in Workers \ {w} :
  /\ at'[v] = at[v] /\ t'[v] = t[v] /\ b'[v] = b[v] /\ val'[v] = val[v]
  /\ victim'[v] = victim[v] /\ _bottom'[v] = _bottom[v]
  /\ \A x \in Items : IsPushing(v, x) => ~IsPushing(w, x)'

\* A step of w that moves no end of a queue and writes no slot leaves what the
\* others know true: only w's own place is left to look at.
LEMMA OwnStep ==
  ASSUME QueueInvariant, QueueTypeOK', NEW w \in Workers,
         UNCHANGED <<_top, _buffer, balance>>, \A q \in Workers : End(q)' = End(q),
         OnlyMoves(w), Pushing(w)', Popping(w)', Stealing(w)'
  PROVE  QueueInvariant'
<1>1. EachItemOnce'
  BY KeepsContents DEF QueueInvariant
<1>2. ASSUME NEW v \in Workers \ {w} PROVE Pushing(v)'
  BY DEF QueueInvariant, Pushing, IsPushing, OnlyMoves
<1>3. ASSUME NEW v \in Workers \ {w} PROVE Popping(v)'
  <2>1. Popping(v)
    BY DEF QueueInvariant
  <2> QED
    BY <2>1 DEF Popping, OnlyMoves
<1>4. ASSUME NEW v \in Workers \ {w} PROVE Stealing(v)'
  <2>1. victim[v] \in Workers
    BY DEF QueueInvariant, QueueTypeOK
  <2>2. End(victim[v])' = End(victim[v])
    BY <2>1 DEF End, OnlyMoves
  <2> QED
    BY <2>1, <2>2 DEF QueueInvariant, Stealing, OnlyMoves
<1> QED
  BY <1>1, <1>2, <1>3, <1>4 DEF QueueInvariant

\* push() finds room, and nobody else pushes this item.
LEMMA PushBeginKeeps ==
  ASSUME QueueInvariant, NEW w \in Workers, NEW x \in Items, MayPush(x), PushBegin(w, x)
  PROVE  QueueInvariant'
<1> USE DEF PushBegin, Goto
<1>1. QueueTypeOK'
  BY QueueAssumption DEF QueueInvariant, QueueTypeOK, Places
<1>2. \A r \in Workers : End(r)' = End(r)
  BY DEF QueueInvariant, QueueTypeOK, Popping, End
<1>3. Pushing(w)' /\ Popping(w)' /\ Stealing(w)'
  <2>1. b'[w] = _bottom[w] /\ b'[w] < _top[w] + Capacity /\ val'[w] = x /\ at'[w] = "push_write"
    BY QueueAssumption DEF QueueInvariant, QueueTypeOK, Full
  <2>2. \A v \in Workers \ {w} : ~IsPushing(v, x)'
    BY DEF QueueInvariant, QueueTypeOK, IsPushing, MayPush
  <2>3. Pushing(w)'
    BY <2>1, <2>2 DEF Pushing, MayPush
  <2> QED
    BY <2>3 DEF QueueInvariant, QueueTypeOK, Popping, Stealing
<1>4. OnlyMoves(w)
  BY DEF QueueInvariant, QueueTypeOK, OnlyMoves, IsPushing, MayPush
<1> QED
  BY <1>1, <1>2, <1>3, <1>4, OwnStep

\* pop() finds nothing.
LEMMA PopEmptyKeeps ==
  ASSUME QueueInvariant, NEW w \in Workers, PopEmpty(w)
  PROVE  QueueInvariant'
<1> USE DEF PopEmpty, Return, Goto
<1>1. QueueTypeOK'
  BY QueueAssumption DEF QueueInvariant, QueueTypeOK, Places
<1>2. \A r \in Workers : End(r)' = End(r)
  BY DEF QueueInvariant, QueueTypeOK, Popping, End
<1>3. Pushing(w)' /\ Popping(w)' /\ Stealing(w)'
  BY <1>2 DEF QueueInvariant, QueueTypeOK, Pushing, Popping, Stealing, End
<1>4. OnlyMoves(w)
  BY DEF QueueInvariant, QueueTypeOK, OnlyMoves, IsPushing
<1> QED
  BY <1>1, <1>2, <1>3, <1>4, OwnStep

\* pop() finds something.
LEMMA PopBeginKeeps ==
  ASSUME QueueInvariant, NEW w \in Workers, PopBegin(w)
  PROVE  QueueInvariant'
<1> USE DEF PopBegin, Goto
<1>1. QueueTypeOK'
  BY QueueAssumption DEF QueueInvariant, QueueTypeOK, Places
<1>2. \A r \in Workers : End(r)' = End(r)
  BY DEF QueueInvariant, QueueTypeOK, Popping, End
<1>3. Pushing(w)' /\ Popping(w)' /\ Stealing(w)'
  BY <1>2 DEF QueueInvariant, QueueTypeOK, Pushing, Popping, Stealing, End
<1>4. OnlyMoves(w)
  BY DEF QueueInvariant, QueueTypeOK, OnlyMoves, IsPushing
<1> QED
  BY <1>1, <1>2, <1>3, <1>4, OwnStep

\* pop() lowers _bottom; the end stays, for the item is not taken yet.
LEMMA PopReserveKeeps ==
  ASSUME QueueInvariant, NEW w \in Workers, PopReserve(w)
  PROVE  QueueInvariant'
<1> USE DEF PopReserve, Goto
<1>1. QueueTypeOK'
  <2>1. b[w] - 1 \in Nat
    BY DEF QueueInvariant, QueueTypeOK, Popping
  <2> QED
    BY <2>1 DEF QueueInvariant, QueueTypeOK, Places
<1>2. \A r \in Workers : End(r)' = End(r)
  BY DEF QueueInvariant, QueueTypeOK, Popping, End
<1>3. Pushing(w)' /\ Popping(w)' /\ Stealing(w)'
  BY <1>2 DEF QueueInvariant, QueueTypeOK, Pushing, Popping, Stealing, End
<1>4. OnlyMoves(w)
  BY DEF QueueInvariant, QueueTypeOK, OnlyMoves, IsPushing
<1> QED
  BY <1>1, <1>2, <1>3, <1>4, OwnStep

\* pop() sees that a thief has taken the item it reserved.
LEMMA PopTooLateKeeps ==
  ASSUME QueueInvariant, NEW w \in Workers, PopTooLate(w)
  PROVE  QueueInvariant'
<1> USE DEF PopTooLate, Goto
<1>1. QueueTypeOK'
  BY QueueAssumption DEF QueueInvariant, QueueTypeOK, Places
<1>2. \A r \in Workers : End(r)' = End(r)
  BY DEF QueueInvariant, QueueTypeOK, Popping, End
<1>3. Pushing(w)' /\ Popping(w)' /\ Stealing(w)'
  <2>1. _top[w] = b[w]
    BY DEF QueueInvariant, QueueTypeOK, EachItemOnce, Popping, End
  <2> QED
    BY <2>1 DEF QueueInvariant, QueueTypeOK, Pushing, Popping, Stealing
<1>4. OnlyMoves(w)
  BY DEF QueueInvariant, QueueTypeOK, OnlyMoves, IsPushing
<1> QED
  BY <1>1, <1>2, <1>3, <1>4, OwnStep

\* pop() sees one item, the one its compare_exchange is for.
LEMMA PopLastKeeps ==
  ASSUME QueueInvariant, NEW w \in Workers, PopLast(w)
  PROVE  QueueInvariant'
<1> USE DEF PopLast, Goto
<1>1. QueueTypeOK'
  <2>1. b[w] - 1 \in Nat
    BY DEF QueueInvariant, QueueTypeOK
  <2>2. _buffer[w][Slot(b[w] - 1)] \in Items \cup {NoItem}
    BY <2>1, SlotHolds DEF QueueInvariant
  <2> QED
    BY <2>1, <2>2 DEF QueueInvariant, QueueTypeOK, Places
<1>2. \A r \in Workers : End(r)' = End(r)
  BY DEF QueueInvariant, QueueTypeOK, Popping, End
<1>3. Pushing(w)' /\ Popping(w)' /\ Stealing(w)'
  <2>1. b[w] = _bottom[w] + 1 /\ b[w] - 1 \in Span(w)
    BY DEF QueueInvariant, QueueTypeOK, Popping, Span, End
  <2>2. _buffer[w][Slot(b[w] - 1)] \in Items
    BY <2>1 DEF QueueInvariant, EachItemOnce
  <2> QED
    BY <2>1, <2>2 DEF QueueInvariant, QueueTypeOK, Pushing, Popping, Stealing
<1>4. OnlyMoves(w)
  BY DEF QueueInvariant, QueueTypeOK, OnlyMoves, IsPushing
<1> QED
  BY <1>1, <1>2, <1>3, <1>4, OwnStep

\* pop() loses its compare_exchange to a thief.
LEMMA PopLoseKeeps ==
  ASSUME QueueInvariant, NEW w \in Workers, PopLose(w)
  PROVE  QueueInvariant'
<1> USE DEF PopLose, Goto
<1>1. QueueTypeOK'
  BY QueueAssumption DEF QueueInvariant, QueueTypeOK, Places
<1>2. \A r \in Workers : End(r)' = End(r)
  BY DEF QueueInvariant, QueueTypeOK, Popping, End
<1>3. Pushing(w)' /\ Popping(w)' /\ Stealing(w)'
  <2>1. _top[w] = b[w]
    BY DEF QueueInvariant, QueueTypeOK, EachItemOnce, Popping, End
  <2> QED
    BY <2>1 DEF QueueInvariant, QueueTypeOK, Pushing, Popping, Stealing
<1>4. OnlyMoves(w)
  BY DEF QueueInvariant, QueueTypeOK, OnlyMoves, IsPushing
<1> QED
  BY <1>1, <1>2, <1>3, <1>4, OwnStep

\* pop() stores the old _bottom again.
LEMMA PopRestoreKeeps ==
  ASSUME QueueInvariant, NEW w \in Workers, PopRestore(w)
  PROVE  QueueInvariant'
<1> USE DEF PopRestore, Return, Goto
<1>1. QueueTypeOK'
  BY QueueAssumption DEF QueueInvariant, QueueTypeOK, Places
<1>2. \A r \in Workers : End(r)' = End(r)
  BY DEF QueueInvariant, QueueTypeOK, Popping, End
<1>3. Pushing(w)' /\ Popping(w)' /\ Stealing(w)'
  BY <1>2 DEF QueueInvariant, QueueTypeOK, Pushing, Popping, Stealing, End
<1>4. OnlyMoves(w)
  BY DEF QueueInvariant, QueueTypeOK, OnlyMoves, IsPushing
<1> QED
  BY <1>1, <1>2, <1>3, <1>4, OwnStep

\* steal() loads _top.
LEMMA StealBeginKeeps ==
  ASSUME QueueInvariant, NEW w \in Workers, NEW q \in Workers, StealBegin(w, q)
  PROVE  QueueInvariant'
<1> USE DEF StealBegin, Goto
<1>1. QueueTypeOK'
  BY QueueAssumption DEF QueueInvariant, QueueTypeOK, Places
<1>2. \A r \in Workers : End(r)' = End(r)
  BY DEF QueueInvariant, QueueTypeOK, Popping, End
<1>3. Pushing(w)' /\ Popping(w)' /\ Stealing(w)'
  BY <1>2 DEF QueueInvariant, QueueTypeOK, Pushing, Popping, Stealing, End
<1>4. OnlyMoves(w)
  BY DEF QueueInvariant, QueueTypeOK, OnlyMoves, IsPushing
<1> QED
  BY <1>1, <1>2, <1>3, <1>4, OwnStep

\* steal() finds nothing.
LEMMA StealEmptyKeeps ==
  ASSUME QueueInvariant, NEW w \in Workers, StealEmpty(w)
  PROVE  QueueInvariant'
<1> USE DEF StealEmpty, Return, Goto
<1>1. QueueTypeOK'
  BY QueueAssumption DEF QueueInvariant, QueueTypeOK, Places
<1>2. \A r \in Workers : End(r)' = End(r)
  BY DEF QueueInvariant, QueueTypeOK, Popping, End
<1>3. Pushing(w)' /\ Popping(w)' /\ Stealing(w)'
  BY <1>2 DEF QueueInvariant, QueueTypeOK, Pushing, Popping, Stealing, End
<1>4. OnlyMoves(w)
  BY DEF QueueInvariant, QueueTypeOK, OnlyMoves, IsPushing
<1> QED
  BY <1>1, <1>2, <1>3, <1>4, OwnStep

\* steal() finds something: _bottom never exceeds the end.
LEMMA StealLoadKeeps ==
  ASSUME QueueInvariant, NEW w \in Workers, StealLoad(w)
  PROVE  QueueInvariant'
<1> USE DEF StealLoad, Goto
<1>1. QueueTypeOK'
  BY QueueAssumption DEF QueueInvariant, QueueTypeOK, Places
<1>2. \A r \in Workers : End(r)' = End(r)
  BY DEF QueueInvariant, QueueTypeOK, Popping, End
<1>3. Pushing(w)' /\ Popping(w)' /\ Stealing(w)'
  BY <1>2 DEF QueueInvariant, QueueTypeOK, Pushing, Popping, Stealing, End
<1>4. OnlyMoves(w)
  BY DEF QueueInvariant, QueueTypeOK, OnlyMoves, IsPushing
<1> QED
  BY <1>1, <1>2, <1>3, <1>4, OwnStep

\* steal() reads the slot at the _top it loaded.
LEMMA StealReadKeeps ==
  ASSUME QueueInvariant, NEW w \in Workers, StealRead(w)
  PROVE  QueueInvariant'
<1> USE DEF StealRead, Goto
<1>1. QueueTypeOK'
  <2>1. t[w] \in Nat /\ victim[w] \in Workers
    BY DEF QueueInvariant, QueueTypeOK
  <2>2. _buffer[victim[w]][Slot(t[w])] \in Items \cup {NoItem}
    BY <2>1, SlotHolds DEF QueueInvariant
  <2> QED
    BY <2>2 DEF QueueInvariant, QueueTypeOK, Places
<1>2. \A r \in Workers : End(r)' = End(r)
  BY DEF QueueInvariant, QueueTypeOK, Popping, End
<1>3. Pushing(w)' /\ Popping(w)' /\ Stealing(w)'
  BY <1>2 DEF QueueInvariant, QueueTypeOK, Pushing, Popping, Stealing, End
<1>4. OnlyMoves(w)
  BY DEF QueueInvariant, QueueTypeOK, OnlyMoves, IsPushing
<1> QED
  BY <1>1, <1>2, <1>3, <1>4, OwnStep

\* steal() loses its compare_exchange and loads _top again.
LEMMA StealLoseKeeps ==
  ASSUME QueueInvariant, NEW w \in Workers, StealLose(w)
  PROVE  QueueInvariant'
<1> USE DEF StealLose, Goto
<1>1. QueueTypeOK'
  BY QueueAssumption DEF QueueInvariant, QueueTypeOK, Places
<1>2. \A r \in Workers : End(r)' = End(r)
  BY DEF QueueInvariant, QueueTypeOK, Popping, End
<1>3. Pushing(w)' /\ Popping(w)' /\ Stealing(w)'
  BY <1>2 DEF QueueInvariant, QueueTypeOK, Pushing, Popping, Stealing, End
<1>4. OnlyMoves(w)
  BY DEF QueueInvariant, QueueTypeOK, OnlyMoves, IsPushing
<1> QED
  BY <1>1, <1>2, <1>3, <1>4, OwnStep

-----------------------------------------------------------------------------
(* The steps that change the contents                                      *)

\* push() writes a slot that no position of the contents has.
LEMMA PushWriteKeeps ==
  ASSUME QueueInvariant, NEW w \in Workers, PushWrite(w)
  PROVE  QueueInvariant'
<1> USE DEF PushWrite, Goto
<1>1. /\ val[w] \in Items /\ b[w] = _bottom[w] /\ End(w) = b[w] /\ b[w] < _top[w] + Capacity
      /\ b[w] \in Nat /\ _top[w] \in Nat /\ Capacity \in Nat
      /\ _buffer \in [Workers -> [0..Capacity - 1 -> Items \cup {NoItem}]]
  BY QueueAssumption DEF QueueInvariant, QueueTypeOK, Pushing, End
<1>2. Slot(b[w]) \in 0..Capacity - 1
  BY <1>1, SlotType
<1>3. \A r \in Workers : End(r)' = End(r)
  BY DEF QueueInvariant, QueueTypeOK, End
<1>4. ASSUME NEW r \in Workers, NEW p \in Span(r)
      PROVE  _buffer'[r][Slot(p)] = _buffer[r][Slot(p)]
  <2>1. CASE r = w
    <3>1. p \in Nat /\ p < b[w] /\ b[w] < p + Capacity
      BY <1>1, <2>1 DEF Span
    <3>2. Slot(p) # Slot(b[w]) /\ Slot(p) \in 0..Capacity - 1
      BY <1>1, <3>1, SlotsDiffer, SlotType
    <3> QED
      BY <1>1, <2>1, <3>2
  <2>2. CASE r # w
    BY <1>1, <2>2
  <2> QED
    BY <2>1, <2>2
<1>5. EachItemOnce'
  BY <1>3, <1>4, KeepsContents DEF QueueInvariant
<1>6. QueueTypeOK'
  BY <1>1, <1>2 DEF QueueInvariant, QueueTypeOK, Places
<1>7. \A v \in Workers : Pushing(v)'
  BY <1>1, <1>2 DEF QueueInvariant, QueueTypeOK, Pushing, IsPushing
<1>8. ASSUME NEW v \in Workers PROVE Popping(v)'
  <2>1. CASE v = w
    BY <2>1 DEF QueueInvariant, QueueTypeOK, Popping
  <2>2. CASE v # w
    BY <1>1, <2>2 DEF QueueInvariant, QueueTypeOK, Popping
  <2> QED
    BY <2>1, <2>2
<1>9. ASSUME NEW v \in Workers PROVE Stealing(v)'
  <2>1. victim[v] \in Workers /\ End(victim[v])' = End(victim[v])
    BY DEF QueueInvariant, QueueTypeOK, End
  <2>2. ASSUME at'[v] = "steal_cas", t[v] = _top[victim[v]]
        PROVE  val[v] = _buffer'[victim[v]][Slot(t[v])]
    <3>1. at[v] = "steal_cas"
      BY <2>2 DEF QueueInvariant, QueueTypeOK
    <3>2. t[v] \in Nat /\ t[v] < End(victim[v]) /\ val[v] = _buffer[victim[v]][Slot(t[v])]
      BY <2>2, <3>1 DEF QueueInvariant, QueueTypeOK, Stealing
    <3>3. t[v] \in Span(victim[v])
      BY <2>1, <2>2, <3>2, EndType DEF QueueInvariant, Span
    <3> QED
      BY <2>1, <3>2, <3>3, <1>4
  <2> QED
    BY <2>1, <2>2 DEF QueueInvariant, QueueTypeOK, Stealing
<1> QED
  BY <1>5, <1>6, <1>7, <1>8, <1>9 DEF QueueInvariant

\* push() publishes its item, of which the queues have no other copy.
LEMMA PushPublishKeeps ==
  ASSUME QueueInvariant, NEW w \in Workers, PushPublish(w)
  PROVE  QueueInvariant'
<1> USE DEF PushPublish, Return, Goto
<1>1. /\ val[w] \in Items /\ balance[val[w]] = 0
      /\ b[w] = End(w) /\ b[w] < _top[w] + Capacity /\ _buffer[w][Slot(b[w])] = val[w]
      /\ \A v \in Workers \ {w} : ~IsPushing(v, val[w])
  BY DEF QueueInvariant, Pushing, End
<1>2. QueueTypeOK'
  BY <1>1 DEF QueueInvariant, QueueTypeOK, Places
<1>3. End(w)' = End(w) + 1 /\ \A r \in Workers \ {w} : End(r)' = End(r)
  BY <1>1 DEF QueueInvariant, QueueTypeOK, End
<1>4. EachItemOnce'
  BY <1>1, <1>2, <1>3, PublishKeepsContents DEF QueueInvariant
<1>5. \A v \in Workers : Pushing(v)'
  BY <1>1 DEF QueueInvariant, QueueTypeOK, Pushing, IsPushing
<1>6. \A v \in Workers : Popping(v)'
  BY DEF QueueInvariant, QueueTypeOK, Popping
<1>7. ASSUME NEW v \in Workers PROVE Stealing(v)'
  <2>1. /\ victim[v] \in Workers /\ End(victim[v]) \in Nat
        /\ End(victim[v])' = End(victim[v]) \/ End(victim[v])' = End(victim[v]) + 1
    BY <1>1, EndType DEF QueueInvariant, QueueTypeOK, End
  <2>2. /\ at'[v] \in {"steal_load", "steal_read", "steal_cas"} => at'[v] = at[v]
        /\ at[v] = "steal_cas" => t'[v] = t[v] /\ val'[v] = val[v]
        /\ at[v] \in {"steal_load", "steal_read"} => t'[v] = t[v]
        /\ victim' = victim /\ t[v] \in Nat /\ _top[victim[v]] \in Nat
    BY <2>1 DEF QueueInvariant, QueueTypeOK
  <2> QED
    BY <2>1, <2>2 DEF QueueInvariant, Stealing
<1> QED
  BY <1>2, <1>4, <1>5, <1>6, <1>7 DEF QueueInvariant

\* pop() takes the item at the end; more are left for the thieves.
LEMMA PopTakeKeeps ==
  ASSUME QueueInvariant, NEW w \in Workers, PopTake(w)
  PROVE  QueueInvariant'
<1> USE DEF PopTake, Return, Goto
<1> DEFINE x == _buffer[w][Slot(b[w] - 1)]
<1>1. /\ b[w] = End(w) /\ b[w] = _bottom[w] + 1 /\ _top[w] < b[w] - 1
      /\ b[w] \in Nat /\ _top[w] \in Nat /\ b[w] - 1 \in Span(w)
  BY DEF QueueInvariant, QueueTypeOK, Popping, End, Span
<1>2. x \in Items /\ balance[x] = 1
  <2>1. EachItemOnce
    BY DEF QueueInvariant
  <2> HIDE DEF PopTake
  <2> QED
    BY <1>1, <2>1 DEF EachItemOnce
<1>3. QueueTypeOK'
  BY <1>2 DEF QueueInvariant, QueueTypeOK, Places, HandOut
<1>4. End(w)' = End(w) - 1 /\ \A r \in Workers \ {w} : End(r)' = End(r)
  BY <1>1 DEF QueueInvariant, QueueTypeOK, End
<1>5. EachItemOnce'
  BY <1>1, <1>3, <1>4, TakeKeepsContents DEF QueueInvariant
<1>6. \A v \in Workers : Pushing(v)'
  BY <1>2 DEF QueueInvariant, QueueTypeOK, Pushing, IsPushing, HandOut
<1>7. \A v \in Workers : Popping(v)'
  BY DEF QueueInvariant, QueueTypeOK, Popping
<1>8. ASSUME NEW v \in Workers PROVE Stealing(v)'
  <2>1. victim[v] \in Workers /\ victim' = victim
    BY DEF QueueInvariant, QueueTypeOK
  <2>2. _top[victim[v]] < End(victim[v]) => _top[victim[v]] < End(victim[v])'
    <3>1. CASE victim[v] = w
      <4>1. End(victim[v])' = b[w] - 1
        BY <2>1, <3>1, <1>1 DEF QueueInvariant, QueueTypeOK, End
      <4> QED
        BY <3>1, <4>1, <1>1
    <3>2. CASE victim[v] # w
      <4>1. End(victim[v])' = End(victim[v])
        BY <2>1, <3>2 DEF QueueInvariant, QueueTypeOK, End
      <4> QED
        BY <4>1
    <3> QED
      BY <3>1, <3>2
  <2> QED
    BY <2>1, <2>2 DEF QueueInvariant, QueueTypeOK, Stealing
<1> QED
  BY <1>3, <1>5, <1>6, <1>7, <1>8 DEF QueueInvariant

\* A compare_exchange of _top takes the item at the top of q.
LEMMA TopAdvances ==
  ASSUME QueueInvariant, QueueTypeOK', NEW q \in Workers, _top[q] < End(q),
         NEW x, x = _buffer[q][Slot(_top[q])], HandOut(x), UNCHANGED _buffer,
         _top' = [_top EXCEPT ![q] = _top[q] + 1], \A r \in Workers : End(r)' = End(r)
  PROVE  EachItemOnce'
<1>1. _top[q] \in Span(q)
  <2>1. _top[q] \in Nat /\ End(q) \in Nat
    BY EndType DEF QueueInvariant, QueueTypeOK
  <2> QED
    BY <2>1 DEF Span
<1>2. /\ \A r \in Workers \ {q} : _top'[r] = _top[r] /\ End(r)' = End(r)
      /\ _top'[q] = _top[q] + 1
  BY DEF QueueInvariant, QueueTypeOK
<1> QED
  BY <1>1, <1>2, TakeKeepsContents DEF QueueInvariant

\* pop() wins its compare_exchange.
LEMMA PopWinKeeps ==
  ASSUME QueueInvariant, NEW w \in Workers, PopWin(w)
  PROVE  QueueInvariant'
<1> USE DEF PopWin, Goto
<1>1. /\ t[w] = _bottom[w] /\ _top[w] = t[w] /\ b[w] = _bottom[w] + 1 /\ End(w) = b[w]
      /\ val[w] = _buffer[w][Slot(t[w])] /\ val[w] \in Items
      /\ b[w] \in Nat /\ t[w] \in Nat /\ _bottom[w] \in Nat /\ _top[w] < End(w)
  BY DEF QueueInvariant, QueueTypeOK, Popping, End
<1>2. \A r \in Workers : End(r)' = End(r)
  BY DEF QueueInvariant, QueueTypeOK, End
<1>3. QueueTypeOK'
  BY <1>1 DEF QueueInvariant, QueueTypeOK, Places, HandOut
<1>4. EachItemOnce'
  BY <1>1, <1>2, <1>3, TopAdvances
<1>5. balance[val[w]] = 1
  <2>1. t[w] \in Span(w)
    BY <1>1 DEF Span
  <2> QED
    BY <1>1, <2>1 DEF QueueInvariant, EachItemOnce
<1>6. \A v \in Workers : Pushing(v)'
  BY <1>1, <1>5 DEF QueueInvariant, QueueTypeOK, Pushing, IsPushing, HandOut
<1>7. \A v \in Workers : Popping(v)'
  BY <1>1 DEF QueueInvariant, QueueTypeOK, Popping
<1>8. \A v \in Workers : Stealing(v)'
  BY <1>1, <1>2 DEF QueueInvariant, QueueTypeOK, Stealing, End
<1> QED
  BY <1>3, <1>4, <1>6, <1>7, <1>8 DEF QueueInvariant

\* steal() wins its compare_exchange: its read of the slot was not stale.
LEMMA StealWinKeeps ==
  ASSUME QueueInvariant, NEW w \in Workers, StealWin(w)
  PROVE  QueueInvariant'
<1> USE DEF StealWin, Return, Goto
<1> DEFINE q == victim[w]
<1>1. /\ q \in Workers /\ t[w] \in Nat /\ _top[q] = t[w] /\ t[w] < End(q) /\ End(q) \in Nat
      /\ val[w] = _buffer[q][Slot(t[w])]
  BY EndType DEF QueueInvariant, QueueTypeOK, Stealing
<1>2. \A r \in Workers : End(r)' = End(r)
  BY DEF QueueInvariant, QueueTypeOK, End
<1>3. val[w] \in Items /\ balance[val[w]] = 1
  <2>1. t[w] \in Span(q)
    BY <1>1 DEF Span
  <2> QED
    BY <1>1, <2>1 DEF QueueInvariant, EachItemOnce
<1>4. QueueTypeOK'
  <2>1. _top' \in [Workers -> Nat] /\ at' \in [Workers -> Places]
    BY <1>1 DEF QueueInvariant, QueueTypeOK, Places
  <2>2. balance' \in [Items -> Int]
    BY <1>3 DEF QueueInvariant, QueueTypeOK, HandOut
  <2> QED
    BY <1>3, <2>1, <2>2 DEF QueueInvariant, QueueTypeOK
<1>5. EachItemOnce'
  BY <1>1, <1>2, <1>4, TopAdvances
<1>6. \A r \in Workers : _top'[r] = IF r = q THEN t[w] + 1 ELSE _top[r]
  BY <1>1 DEF QueueInvariant, QueueTypeOK
<1>7. ASSUME NEW v \in Workers PROVE Pushing(v)'
  <2>1. \A y \in Items : balance'[y] = IF y = val[w] THEN 0 ELSE balance[y]
    BY <1>3 DEF QueueInvariant, QueueTypeOK, HandOut
  <2>2. \A u \in Workers : at'[u] \in {"push_write", "push_publish"} =>
          u # w /\ at'[u] = at[u] /\ val'[u] = val[u] /\ b'[u] = b[u]
    BY DEF QueueInvariant, QueueTypeOK
  <2>3. _top[v] \in Nat /\ b[v] \in Nat /\ Capacity \in Nat
    BY QueueAssumption DEF QueueInvariant, QueueTypeOK
  <2>4. _top'[v] \in Nat /\ _top'[v] >= _top[v]
    BY <1>1, <1>6, <2>3
  <2> QED
    BY <1>3, <2>1, <2>2, <2>3, <2>4 DEF QueueInvariant, Pushing, IsPushing
<1>8. \A v \in Workers : Popping(v)'
  BY <1>1 DEF QueueInvariant, QueueTypeOK, Popping, End
<1>9. ASSUME NEW v \in Workers PROVE Stealing(v)'
  <2>1. CASE v = w
    BY <2>1 DEF QueueInvariant, QueueTypeOK, Stealing
  <2>2. CASE v # w
    <3>1. /\ at'[v] = at[v] /\ t'[v] = t[v] /\ val'[v] = val[v] /\ victim'[v] = victim[v]
          /\ victim[v] \in Workers /\ t[v] \in Nat /\ _top[victim[v]] \in Nat
      BY <2>2 DEF QueueInvariant, QueueTypeOK
    <3>2. End(victim[v])' = End(victim[v])
      BY <3>1 DEF QueueInvariant, QueueTypeOK, End
    <3> QED
      BY <1>1, <1>6, <3>1, <3>2 DEF QueueInvariant, Stealing
  <2> QED
    BY <2>1, <2>2
<1> QED
  BY <1>4, <1>5, <1>7, <1>8, <1>9 DEF QueueInvariant


-----------------------------------------------------------------------------
\* Every step of the workers keeps the invariant.
LEMMA QueueInductive == QueueInvariant /\ [QueueNext]_queueVars => QueueInvariant'
<1> SUFFICES ASSUME QueueInvariant, [QueueNext]_queueVars PROVE QueueInvariant'
  OBVIOUS
<1>1. CASE UNCHANGED queueVars
  <2> USE <1>1 DEF queueVars
  <2>1. QueueTypeOK'
    BY DEF QueueInvariant, QueueTypeOK
  <2>2. EachItemOnce'
    BY KeepsContents DEF QueueInvariant, End
  <2>3. \A w \in Workers : Pushing(w)' /\ Popping(w)'
    BY DEF QueueInvariant, Pushing, Popping, IsPushing
  <2>4. \A w \in Workers : Stealing(w)'
    BY DEF QueueInvariant, Stealing, End
  <2> QED
    BY <2>1, <2>2, <2>3, <2>4 DEF QueueInvariant
<1>2. ASSUME NEW w \in Workers, NEW x \in Items, MayPush(x), PushBegin(w, x) PROVE QueueInvariant'
  BY <1>2, PushBeginKeeps
<1>3. ASSUME NEW w \in Workers, PopEmpty(w) \/ PopBegin(w) PROVE QueueInvariant'
  BY <1>3, PopEmptyKeeps, PopBeginKeeps
<1>4. ASSUME NEW w \in Workers, NEW q \in Workers, StealBegin(w, q) PROVE QueueInvariant'
  BY <1>4, StealBeginKeeps
<1>5. ASSUME NEW w \in Workers, PushStep(w) PROVE QueueInvariant'
  BY <1>5, PushWriteKeeps, PushPublishKeeps DEF PushStep
<1>6. ASSUME NEW w \in Workers, PopStep(w) PROVE QueueInvariant'
  BY <1>6, PopReserveKeeps, PopTooLateKeeps, PopTakeKeeps, PopLastKeeps, PopWinKeeps,
           PopLoseKeeps, PopRestoreKeeps DEF PopStep
<1>7. ASSUME NEW w \in Workers, StealStep(w) PROVE QueueInvariant'
  BY <1>7, StealEmptyKeeps, StealLoadKeeps, StealReadKeeps, StealWinKeeps, StealLoseKeeps
     DEF StealStep
<1> QED
  BY <1>1, <1>2, <1>3, <1>4, <1>5, <1>6, <1>7 DEF QueueNext

\* The queues start empty.
LEMMA QueueStarts == QueueInit => QueueInvariant
<1> SUFFICES ASSUME QueueInit PROVE QueueInvariant
  OBVIOUS
<1> USE QueueAssumption DEF QueueInit
<1>1. QueueTypeOK
  BY DEF QueueTypeOK, Places
<1>2. EachItemOnce
  BY DEF EachItemOnce, Span, End
<1>3. \A w \in Workers : Pushing(w) /\ Popping(w) /\ Stealing(w)
  BY DEF Pushing, Popping, Stealing
<1> QED
  BY <1>1, <1>2, <1>3 DEF QueueInvariant

\* work_stealing_queue.h, for any number of workers and any capacity: what was
\* pushed is in one slot of one queue until one call of pop() or steal() hands
\* it out, and no call hands out anything else.
THEOREM WorkStealingIsExactlyOnce == QueueSpec => []QueueInvariant
<1>1. QueueInit => QueueInvariant
  BY QueueStarts
<1>2. QueueInvariant /\ [QueueNext]_queueVars => QueueInvariant'
  BY QueueInductive
<1> QED
  BY <1>1, <1>2, PTL DEF QueueSpec
=============================================================================
