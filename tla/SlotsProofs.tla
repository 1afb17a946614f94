---------------------------- MODULE SlotsProofs -----------------------------
(***************************************************************************)
(* Slots, for every set of slots, people and requests: seats, queues and   *)
(* mails, no deadlock of sign-ups, the refinement of SlotBook, progress of *)
(* every request, and whom the unique index turns away.                    *)
(***************************************************************************)
EXTENDS Slots, FiniteSetTheorems, SequenceTheorems, TLAPS

-----------------------------------------------------------------------------
(* Shapes: the operators on a slot return a slot. *)

LEMMA KeysFinite == IsFiniteSet(Keys)
  BY SlotsAssumption, FS_Union DEF Keys

LEMMA PeopleFinite ==
  ASSUME NEW b
  PROVE  /\ Active(b) \in SUBSET Keys /\ IsFiniteSet(Active(b)) /\ Taken(b) \in Nat
         /\ Waiting(b) \in SUBSET Keys /\ IsFiniteSet(Waiting(b))
         /\ Cardinality(Waiting(b)) \in Nat
  <1>1. Active(b) \in SUBSET Keys /\ Waiting(b) \in SUBSET Keys
    BY DEF Active, Waiting
  <1>2. IsFiniteSet(Active(b)) /\ IsFiniteSet(Waiting(b))
    BY <1>1, KeysFinite, FS_Subset
  <1> QED
    BY <1>1, <1>2, FS_CardinalityType DEF Taken

LEMMA EmptySlotType == \A s \in Slots : EmptySlot(s) \in Slot
  BY SlotsAssumption DEF EmptySlot, Slot

LEMMA PutRowType ==
  ASSUME NEW b \in Slot, NEW k \in Keys, NEW how \in {"active", "waiting"},
         NEW user \in BOOLEAN, NEW now \in Nat
  PROVE  PutRow(b, k, how, user, now) \in Slot
  BY DEF PutRow, Slot

LEMMA DropRowType ==
  ASSUME NEW b \in Slot, NEW k \in Keys
  PROVE  DropRow(b, k) \in Slot
  BY DEF DropRow, Slot

LEMMA PromoteType ==
  ASSUME NEW b \in Slot, NEW P \in NextUp(b)
  PROVE  Promote(b, P) \in Slot
  BY DEF Promote, Slot

-----------------------------------------------------------------------------
(* Type correctness.  A request between its start and its commit still has  *)
(* an item to work on.                                                      *)

Busy == \A t \in Requests : pc[t] \in {"lock", "work", "full", "clash"} => todo[t] # <<>>

Shape == TypeOK /\ Busy

LEMMA ItemType ==
  ASSUME Shape, NEW t \in Requests, pc[t] \in {"lock", "work", "full", "clash"}
  PROVE  Item(t) \in Items /\ Here(t) \in Slots /\ Tail(todo[t]) \in Seq(Items)
  <1>1. todo[t] \in Seq(Items) /\ todo[t] # <<>>
    BY DEF Shape, TypeOK, Busy
  <1>2. Item(t) \in Items /\ Tail(todo[t]) \in Seq(Items)
    BY <1>1, HeadTailProperties DEF Item
  <1> QED
    BY <1>2 DEF Here, Items, Claims, Releases, Resizes

LEMMA BeginShape ==
  ASSUME Shape, NEW t \in Requests, NEW what \in Kinds,
         NEW items \in Seq(Items), items # <<>>, Begin(t, what, items)
  PROVE  Shape'
  BY DEF Shape, TypeOK, Busy, Begin, Stages

LEMMA PlanType ==
  ASSUME NEW S \in SUBSET Slots, S # {}, NEW q \in Orders(S)
  PROVE  /\ Cardinality(S) \in Nat \ {0}
         /\ DOMAIN q = 1 .. Cardinality(S)
         /\ \A i \in DOMAIN q : q[i] \in S /\ q[i] \in Slots
  <1>1. IsFiniteSet(S)
    BY SlotsAssumption, FS_Subset
  <1>2. Cardinality(S) \in Nat \ {0}
    BY <1>1, FS_CardinalityType, FS_EmptySet
  <1> QED
    BY <1>2 DEF Orders

LEMMA ArriveShape ==
  ASSUME Shape, NEW t \in Requests, Arrive(t)
  PROVE  Shape'
  <1>1. CASE TakeSlot(t)
    <2>1. PICK s \in Slots, k \in Adults, u \in BOOLEAN :
            Begin(t, "take", <<[act |-> "claim", slot |-> s, key |-> k, user |-> u, idem |-> u]>>)
      BY <1>1 DEF TakeSlot
    <2> DEFINE i == [act |-> "claim", slot |-> s, key |-> k, user |-> u, idem |-> u]
    <2>2. i \in Items
      BY DEF Items, Claims, Keys
    <2>3. <<i>> \in Seq(Items) /\ <<i>> # <<>>
      BY <2>2
    <2> QED
      BY <2>1, <2>3, BeginShape DEF Kinds
  <1>2. CASE PublicSignup(t)
    <2>1. PICK S \in (SUBSET Slots) \ {{}}, scout \in Scouts : \E q \in IdOrder(S) :
            Begin(t, "signup", [i \in DOMAIN q |-> SignupItem(q[i], scout)])
      BY <1>2 DEF PublicSignup
    <2>2. PICK q \in IdOrder(S) :
            Begin(t, "signup", [i \in DOMAIN q |-> SignupItem(q[i], scout)])
      BY <2>1
    <2> DEFINE items == [i \in DOMAIN q |-> SignupItem(q[i], scout)]
    <2>3. q \in Orders(S)
      BY DEF IdOrder
    <2>4. \A s \in Slots : SignupItem(s, scout) \in Items
      BY SlotsAssumption DEF SignupItem, Items, Claims, Keys
    <2>5. items \in [1 .. Cardinality(S) -> Items] /\ Cardinality(S) \in Nat \ {0}
      BY <2>3, <2>4, PlanType
    <2>6. items \in Seq(Items) /\ items # <<>>
      BY <2>5
    <2> QED
      BY <2>2, <2>6, BeginShape DEF Kinds
  <1>3. CASE ReleaseSlot(t)
    <2>1. PICK s \in Slots, k \in Logins :
            Begin(t, "release", <<[act |-> "release", slot |-> s, key |-> k]>>)
      BY <1>3 DEF ReleaseSlot
    <2> DEFINE i == [act |-> "release", slot |-> s, key |-> k]
    <2>2. i \in Items
      BY SlotsAssumption DEF Items, Releases, Keys
    <2>3. <<i>> \in Seq(Items) /\ <<i>> # <<>>
      BY <2>2
    <2> QED
      BY <2>1, <2>3, BeginShape DEF Kinds
  <1>4. CASE ImportEventSlots(t)
    <2>1. PICK S \in (SUBSET Slots) \ {{}} : \E q \in Orders(S), size \in [S -> Sizes] :
            Begin(t, "import",
              [i \in DOMAIN q |-> [act |-> "resize", slot |-> q[i], cap |-> size[q[i]]]])
      BY <1>4 DEF ImportEventSlots
    <2>2. PICK q \in Orders(S), size \in [S -> Sizes] :
            Begin(t, "import",
              [i \in DOMAIN q |-> [act |-> "resize", slot |-> q[i], cap |-> size[q[i]]]])
      BY <2>1
    <2> DEFINE items == [i \in DOMAIN q |-> [act |-> "resize", slot |-> q[i], cap |-> size[q[i]]]]
    <2>3. \A s \in S : [act |-> "resize", slot |-> s, cap |-> size[s]] \in Items
      BY DEF Items, Resizes
    <2>4. items \in [1 .. Cardinality(S) -> Items] /\ Cardinality(S) \in Nat \ {0}
      BY <2>3, PlanType
    <2>5. items \in Seq(Items) /\ items # <<>>
      BY <2>4
    <2> QED
      BY <2>2, <2>5, BeginShape DEF Kinds
  <1> QED
    BY <1>1, <1>2, <1>3, <1>4 DEF Arrive

LEMMA DoneShape ==
  ASSUME Shape, NEW t \in Requests, pc[t] = "work", NEW b \in Slot,
         NEW P \in SUBSET Keys, Done(t, b, P)
  PROVE  Shape'
  <1>1. Here(t) \in Slots /\ Tail(todo[t]) \in Seq(Items)
    BY ItemType
  <1>2. {<<Here(t), k, b.since[k]>> : k \in P} \in SUBSET Rows
    BY <1>1 DEF Rows, Slot
  <1>3. todo[t] \in Seq(Items) /\ todo[t] # <<>>
    BY DEF Shape, TypeOK, Busy
  <1>4. Len(todo[t]) # 1 => Tail(todo[t]) # <<>>
    <2>1. Len(todo[t]) \in Nat \ {0}
      BY <1>3, EmptySeq
    <2>2. Len(Tail(todo[t])) = Len(todo[t]) - 1
      BY <1>3, HeadTailProperties
    <2>3. Len(<<>>) = 0
      BY EmptySeq
    <2>4. ASSUME Tail(todo[t]) = <<>> PROVE Len(todo[t]) = 1
      <3>1. Len(Tail(todo[t])) = 0
        BY <2>3, <2>4, Zenon
      <3> QED
        BY <2>1, <2>2, <3>1
    <2> QED
      BY <2>4
  <1>5. TypeOK'
    BY <1>1, <1>2 DEF Done, Shape, TypeOK, Stages
  <1>6. Busy'
    BY <1>1, <1>4 DEF Done, Shape, TypeOK, Busy
  <1> QED
    BY <1>5, <1>6 DEF Shape

LEMMA FailsShape ==
  ASSUME Shape, NEW t \in Requests, pc[t] = "work", NEW how \in {"full", "clash"},
         Fails(t, how)
  PROVE  Shape'
  BY DEF Fails, Shape, TypeOK, Busy, Stages

LEMMA WorkShape ==
  ASSUME Shape, NEW t \in Requests, Work(t)
  PROVE  Shape'
  <1> DEFINE b == draft[t][Here(t)]
             i == Item(t)
  <1>1. pc[t] = "work" /\ (ClaimSlot(t, b, i) \/ Release(t, b, i) \/ Resize(t, b, i))
    BY DEF Work
  <1>2. i \in Items /\ Here(t) \in Slots
    BY <1>1, ItemType
  <1>3. b \in Slot /\ began[t] \in Nat
    BY <1>2 DEF Shape, TypeOK
  <1> HIDE DEF b, i
  <1>4. CASE ClaimSlot(t, b, i)
    <2>1. i \in Claims /\ i.key \in Keys /\ i.user \in BOOLEAN
      BY <1>2, <1>4 DEF ClaimSlot, Items, Claims, Releases, Resizes
    <2>2. CASE ClaimAgain(t, b, i)
      <3>1. [b EXCEPT !.owned[i.key] = @ \/ i.user] \in Slot
        BY <1>3, <2>1 DEF Slot
      <3> QED
        BY <1>1, <1>3, <2>2, <3>1, DoneShape DEF ClaimAgain
    <2>3. CASE ClaimSeat(t, b, i)
      <3>1. PutRow(b, i.key, IF Full(b) THEN "waiting" ELSE "active", i.user, began[t]) \in Slot
        BY <1>3, <2>1, PutRowType
      <3> QED
        BY <1>1, <2>3, <3>1, DoneShape DEF ClaimSeat
    <2>4. CASE ClaimFull(t, b, i)
      BY <1>1, <2>4, FailsShape DEF ClaimFull
    <2>5. CASE ClaimClash(t, b, i)
      BY <1>1, <2>5, FailsShape DEF ClaimClash
    <2> QED
      BY <1>4, <2>2, <2>3, <2>4, <2>5 DEF ClaimSlot
  <1>5. CASE Release(t, b, i)
    <2>1. i \in Releases /\ i.key \in Keys
      BY <1>2, <1>3, <1>5 DEF Release, Items, Claims, Releases, Resizes
    <2>2. CASE b.owned[i.key]
      <3> DEFINE c == DropRow(b, i.key)
      <3>1. PICK P \in NextUp(c) : Done(t, Promote(c, P), P)
        BY <1>5, <2>2 DEF Release
      <3>2. c \in Slot
        BY <1>3, <2>1, DropRowType
      <3> HIDE DEF c
      <3>3. Promote(c, P) \in Slot /\ P \in SUBSET Keys
        BY <3>2, PromoteType, PeopleFinite DEF NextUp
      <3> QED
        BY <1>1, <2>1, <3>1, <3>3, DoneShape
    <2>3. CASE ~b.owned[i.key]
      BY <1>1, <1>3, <1>5, <2>1, <2>3, DoneShape DEF Release
    <2> QED
      BY <2>2, <2>3
  <1>6. CASE Resize(t, b, i)
    <2>1. i \in Resizes /\ i.cap \in Nat
      BY <1>2, <1>3, <1>6, SlotsAssumption DEF Resize, Items, Claims, Releases, Resizes
    <2> DEFINE c == [b EXCEPT !.cap = i.cap]
    <2>2. PICK P \in NextUp(c) : Done(t, Promote(c, P), P)
      BY <1>6 DEF Resize
    <2>3. c \in Slot
      BY <1>3, <2>1 DEF Slot
    <2> HIDE DEF c
    <2>4. Promote(c, P) \in Slot /\ P \in SUBSET Keys
      BY <2>3, PromoteType, PeopleFinite DEF NextUp
    <2> QED
      BY <1>1, <2>1, <2>2, <2>4, DoneShape
  <1> QED
    BY <1>1, <1>4, <1>5, <1>6

LEMMA LeaveShape ==
  ASSUME Shape, NEW t \in Requests, Leave(t), book' = book, told' \in SUBSET Rows
  PROVE  Shape'
  BY EmptySlotType DEF Leave, Shape, TypeOK, Busy, Stages

LEMMA PurgeShape ==
  ASSUME Shape, NEW k \in Keys, PurgeScout(k)
  PROVE  Shape'
  <1>1. \A s \in Slots : DropRow(book[s], k) \in Slot
    BY DropRowType DEF Shape, TypeOK
  <1>2. \A t \in Requests : \A s \in Slots : DropRow(draft[t][s], k) \in Slot
    BY DropRowType DEF Shape, TypeOK
  <1>3. book' \in [Slots -> Slot] /\ draft' \in [Requests -> [Slots -> Slot]]
    BY <1>1, <1>2 DEF PurgeScout, Shape, TypeOK
  <1> QED
    BY <1>3 DEF PurgeScout, Shape, TypeOK, Busy

LEMMA ShapeStep == Shape /\ [Next]_vars => Shape'
  <1> SUFFICES ASSUME Shape, [Next]_vars PROVE Shape'
    OBVIOUS
  <1>1. ASSUME NEW t \in Requests, Arrive(t) PROVE Shape'
    BY <1>1, ArriveShape
  <1>2. ASSUME NEW t \in Requests, LockSlot(t) PROVE Shape'
    <2>1. Here(t) \in Slots
      BY <1>2, ItemType DEF LockSlot
    <2> QED
      BY <1>2, <2>1 DEF LockSlot, Shape, TypeOK, Busy, Stages
  <1>3. ASSUME NEW t \in Requests, Work(t) PROVE Shape'
    BY <1>3, WorkShape
  <1>4. ASSUME NEW t \in Requests, Commit(t) PROVE Shape'
    <2>1. book' \in [Slots -> Slot] /\ draft' \in [Requests -> [Slots -> Slot]]
      BY <1>4, EmptySlotType DEF Commit, Shape, TypeOK
    <2> QED
      BY <1>4, <2>1 DEF Commit, Shape, TypeOK, Busy, Stages
  <1>5. ASSUME NEW t \in Requests, Rollback(t) \/ Abandon(t) \/ DeadlockVictim(t) PROVE Shape'
    BY <1>5, LeaveShape DEF Rollback, Abandon, DeadlockVictim, Shape, TypeOK
  <1>6. ASSUME NEW t \in Requests, NotifyPromoted(t) PROVE Shape'
    <2>1. told' \in SUBSET Rows
      BY <1>6 DEF NotifyPromoted, Shape, TypeOK
    <2> QED
      BY <1>6, <2>1, LeaveShape DEF NotifyPromoted
  <1>7. ASSUME NEW k \in Expiring, PurgeScout(k) PROVE Shape'
    BY <1>7, PurgeShape, SlotsAssumption
  <1>8. CASE UNCHANGED vars
    BY <1>8 DEF vars, Shape, TypeOK, Busy
  <1> QED
    BY <1>1, <1>2, <1>3, <1>4, <1>5, <1>6, <1>7, <1>8 DEF Next

LEMMA ShapeInit == Init => Shape
  BY EmptySlotType DEF Init, Shape, TypeOK, Busy, Kinds, Stages

\* Every reachable state has the types the module declares, for any slots,
\* people and number of concurrent requests.
THEOREM TypeCorrect == Spec => []TypeOK
  <1>1. Spec => []Shape
    BY ShapeInit, ShapeStep, PTL DEF Spec
  <1>2. Shape => TypeOK
    BY DEF Shape
  <1> QED
    BY <1>1, <1>2, PTL

-----------------------------------------------------------------------------
(* How the operators move the number of seats taken. *)

LEMMA PromoteTaken ==
  ASSUME NEW b \in Slot, NEW P \in NextUp(b)
  PROVE  /\ Promote(b, P).cap = b.cap
         /\ Taken(Promote(b, P)) <= b.cap \/ Taken(Promote(b, P)) = Taken(b)
  <1>1. P \in SUBSET Waiting(b) /\ P \in SUBSET Keys
    BY PeopleFinite DEF NextUp
  <1>2. Active(Promote(b, P)) = Active(b) \cup P
    BY <1>1 DEF Active, Promote, Slot
  <1>3. Active(b) \cap P = {}
    BY <1>1 DEF Active, Waiting
  <1>4. /\ IsFiniteSet(Active(b)) /\ IsFiniteSet(Waiting(b)) /\ Taken(b) \in Nat
        /\ Cardinality(Waiting(b)) \in Nat
    BY PeopleFinite
  <1>5. IsFiniteSet(P) /\ Cardinality(P) \in Nat
    BY <1>1, <1>4, FS_Subset, FS_CardinalityType
  <1>6. Cardinality({}) = 0
    BY FS_EmptySet
  <1>7. Taken(Promote(b, P)) = Taken(b) + Cardinality(P)
    <2>1. Cardinality(Active(b) \cup P)
            = Cardinality(Active(b)) + Cardinality(P) - Cardinality(Active(b) \cap P)
      BY <1>4, <1>5, FS_Union
    <2>2. Cardinality(Active(b) \cap P) = 0
      BY <1>3, <1>6
    <2> QED
      BY <1>2, <1>4, <1>5, <2>1, <2>2 DEF Taken
  <1>8. b.cap \in Nat /\ Open(b) \in Nat /\ (Open(b) = 0 \/ Taken(b) + Open(b) = b.cap)
    BY <1>4 DEF Open, Full, Slot
  <1>9. Cardinality(P) <= Open(b)
    BY <1>4, <1>8 DEF NextUp
  <1>10. Promote(b, P).cap = b.cap
    BY DEF Promote, Slot
  <1> QED
    BY <1>4, <1>5, <1>7, <1>8, <1>9, <1>10

LEMMA PutRowTaken ==
  ASSUME NEW b \in Slot, NEW k \in Keys, NEW user \in BOOLEAN, NEW now \in Nat,
         b.seat[k] = "none"
  PROVE  LET c == PutRow(b, k, IF Full(b) THEN "waiting" ELSE "active", user, now)
         IN  c.cap = b.cap /\ (Taken(c) <= b.cap \/ Taken(c) = Taken(b))
  <1> DEFINE c == PutRow(b, k, IF Full(b) THEN "waiting" ELSE "active", user, now)
  <1>1. c.cap = b.cap
    BY DEF PutRow, Slot
  <1>2. b.cap \in Nat /\ IsFiniteSet(Active(b)) /\ Taken(b) \in Nat
    BY PeopleFinite DEF Slot
  <1>3. CASE Full(b)
    <2>1. Active(c) = Active(b)
      BY <1>3 DEF Active, PutRow, Slot
    <2> QED
      BY <1>1, <2>1 DEF Taken
  <1>4. CASE ~Full(b)
    <2>1. Active(c) = Active(b) \cup {k} /\ k \notin Active(b)
      BY <1>4 DEF Active, PutRow, Slot
    <2>2. Taken(c) = Taken(b) + 1
      BY <1>2, <2>1, FS_AddElement DEF Taken
    <2> QED
      BY <1>1, <1>2, <1>4, <2>2 DEF Full
  <1> QED
    BY <1>3, <1>4

LEMMA DropRowTaken ==
  ASSUME NEW b \in Slot, NEW k \in Keys
  PROVE  /\ DropRow(b, k).cap = b.cap
         /\ Taken(DropRow(b, k)) = IF k \in Active(b) THEN Taken(b) - 1 ELSE Taken(b)
  <1>1. Active(DropRow(b, k)) = Active(b) \ {k}
    BY DEF Active, DropRow, Slot
  <1>2. IsFiniteSet(Active(b))
    BY PeopleFinite
  <1>3. DropRow(b, k).cap = b.cap
    BY DEF DropRow, Slot
  <1> QED
    BY <1>1, <1>2, <1>3, FS_RemoveElement DEF Taken

-----------------------------------------------------------------------------
(* No overbooking.  The committed count alone says nothing of the seats a   *)
(* transaction is about to commit, so the invariant follows its draft: a    *)
(* lock has one holder, the holder starts from the committed slot, and its  *)
(* draft has room for its seats, or takes no more of them than the          *)
(* committed slot it will replace.                                          *)

Locks == \A t, u \in Requests : t # u => held[t] \cap held[u] = {}

WorksOnHeld ==
    \A t \in Requests : pc[t] = "work" =>
        Here(t) \in held[t] /\ draft[t][Here(t)] = book[Here(t)]

Fits(b, c) == Taken(c) <= c.cap \/ Taken(c) <= Taken(b)

DraftsFit == \A t \in Requests : \A s \in held[t] : Fits(book[s], draft[t][s])

Booking == Shape /\ Locks /\ WorksOnHeld /\ DraftsFit

LEMMA FitsKept ==
  ASSUME NEW a \in Slot, NEW b \in Slot, NEW c \in Slot, Fits(a, b),
         c.cap = b.cap, Taken(c) <= b.cap \/ Taken(c) <= Taken(b)
  PROVE  Fits(a, c)
  <1>1. Taken(a) \in Nat /\ Taken(b) \in Nat /\ Taken(c) \in Nat
    BY PeopleFinite
  <1> QED
    BY <1>1 DEF Fits, Slot

LEMMA FitsPurged ==
  ASSUME NEW b \in Slot, NEW c \in Slot, NEW k \in Keys, SameRow(b, c, k), Fits(b, c)
  PROVE  Fits(DropRow(b, k), DropRow(c, k))
  <1>1. Taken(b) \in Nat /\ Taken(c) \in Nat /\ c.cap \in Nat
    BY PeopleFinite DEF Slot
  <1>2. k \in Active(b) <=> k \in Active(c)
    BY DEF Active, SameRow
  <1> QED
    BY <1>1, <1>2, DropRowTaken DEF Fits

\* One item of work leaves the slot's draft fitting.
LEMMA WorkFits ==
  ASSUME Booking, NEW t \in Requests, Work(t)
  PROVE  /\ UNCHANGED <<book, held>>
         /\ pc' = [pc EXCEPT ![t] = pc'[t]] /\ pc'[t] # "work"
         /\ \A u \in Requests \ {t} : draft'[u] = draft[u] /\ todo'[u] = todo[u]
         /\ \A s \in held[t] : Fits(book[s], draft'[t][s])
  <1> DEFINE b == draft[t][Here(t)]
             i == Item(t)
             a == book[Here(t)]
  <1>1. pc[t] = "work" /\ (ClaimSlot(t, b, i) \/ Release(t, b, i) \/ Resize(t, b, i))
    BY DEF Work
  <1>2. i \in Items /\ Here(t) \in Slots /\ Here(t) \in held[t]
    BY <1>1, ItemType DEF Booking, WorksOnHeld
  <1>3. a \in Slot /\ b = a /\ began[t] \in Nat /\ Fits(a, b)
    BY <1>1, <1>2 DEF Booking, Shape, TypeOK, DraftsFit, WorksOnHeld
  <1>4. TypeOK /\ held[t] \in SUBSET Slots
    BY DEF Booking, Shape, TypeOK
  <1>5. \A s \in held[t] : Fits(book[s], draft[t][s])
    BY DEF Booking, DraftsFit
  <1>6. ASSUME NEW c \in Slot, NEW P, Done(t, c, P), Fits(a, c)
        PROVE  /\ UNCHANGED <<book, held>>
               /\ pc' = [pc EXCEPT ![t] = pc'[t]] /\ pc'[t] # "work"
               /\ \A u \in Requests \ {t} : draft'[u] = draft[u] /\ todo'[u] = todo[u]
               /\ \A s \in held[t] : Fits(book[s], draft'[t][s])
    <2>1. UNCHANGED <<book, held>>
      BY <1>6 DEF Done
    <2>2. pc' = [pc EXCEPT ![t] = pc'[t]] /\ pc'[t] # "work"
      BY <1>4, <1>6 DEF Done, TypeOK
    <2>3. \A u \in Requests \ {t} : draft'[u] = draft[u] /\ todo'[u] = todo[u]
      BY <1>4, <1>6 DEF Done, TypeOK
    <2>4. draft'[t] = [draft[t] EXCEPT ![Here(t)] = c]
      BY <1>4, <1>6 DEF Done, TypeOK
    <2>5. ASSUME NEW s \in held[t] PROVE Fits(book[s], draft'[t][s])
      <3>1. CASE s = Here(t)
        BY <1>2, <1>4, <1>6, <2>4, <3>1 DEF TypeOK
      <3>2. CASE s # Here(t)
        <4>1. draft'[t][s] = draft[t][s]
          BY <1>4, <2>4, <3>2 DEF TypeOK
        <4> QED
          BY <1>5, <4>1
      <3> QED
        BY <3>1, <3>2
    <2> QED
      BY <2>1, <2>2, <2>3, <2>5
  <1>7. ASSUME NEW how \in {"full", "clash"}, Fails(t, how)
        PROVE  /\ UNCHANGED <<book, held>>
               /\ pc' = [pc EXCEPT ![t] = pc'[t]] /\ pc'[t] # "work"
               /\ \A u \in Requests \ {t} : draft'[u] = draft[u] /\ todo'[u] = todo[u]
               /\ \A s \in held[t] : Fits(book[s], draft'[t][s])
    BY <1>4, <1>5, <1>7 DEF Fails, TypeOK
  <1> HIDE DEF a, b, i
  <1>8. CASE ClaimSlot(t, b, i)
    <2>1. i.key \in Keys /\ i.user \in BOOLEAN
      BY <1>2, <1>8 DEF ClaimSlot, Items, Claims, Releases, Resizes
    <2>2. CASE ClaimAgain(t, b, i)
      <3> DEFINE c == [b EXCEPT !.owned[i.key] = @ \/ i.user]
      <3>1. c \in Slot /\ c.cap = b.cap /\ Active(c) = Active(b)
        BY <1>3, <2>1 DEF Slot, Active
      <3>2. Fits(a, c)
        BY <1>3, <3>1 DEF Fits, Taken
      <3>3. Done(t, c, {})
        BY <2>2 DEF ClaimAgain
      <3> QED
        BY <1>6, <3>1, <3>2, <3>3
    <2>3. CASE ClaimSeat(t, b, i)
      <3> DEFINE c == PutRow(b, i.key, IF Full(b) THEN "waiting" ELSE "active", i.user, began[t])
      <3>1. c \in Slot
        BY <1>3, <2>1, PutRowType
      <3>2. c.cap = b.cap /\ (Taken(c) <= b.cap \/ Taken(c) = Taken(b))
        BY <1>3, <2>1, <2>3, PutRowTaken DEF ClaimSeat
      <3>3. Fits(a, c)
        BY <1>3, <3>1, <3>2, PeopleFinite, FitsKept
      <3>4. Done(t, c, {})
        BY <2>3 DEF ClaimSeat
      <3> QED
        BY <1>6, <3>1, <3>3, <3>4
    <2>4. CASE ClaimFull(t, b, i)
      BY <1>7, <2>4 DEF ClaimFull
    <2>5. CASE ClaimClash(t, b, i)
      BY <1>7, <2>5 DEF ClaimClash
    <2> QED
      BY <1>8, <2>2, <2>3, <2>4, <2>5 DEF ClaimSlot
  <1>9. CASE Release(t, b, i)
    <2>1. i.key \in Keys
      BY <1>2, <1>9 DEF Release, Items, Claims, Releases, Resizes
    <2>2. CASE b.owned[i.key]
      <3> DEFINE c == DropRow(b, i.key)
      <3>1. PICK P \in NextUp(c) : Done(t, Promote(c, P), P)
        BY <1>9, <2>2 DEF Release
      <3>2. c \in Slot /\ c.cap = b.cap /\ Taken(c) <= Taken(b)
        <4>1. Taken(b) \in Nat
          BY PeopleFinite
        <4> QED
          BY <1>3, <2>1, <4>1, DropRowType, DropRowTaken
      <3>3. Fits(a, c)
        BY <1>3, <3>2, FitsKept
      <3> HIDE DEF c
      <3>4. Promote(c, P) \in Slot
        BY <3>2, PromoteType
      <3>5. /\ Promote(c, P).cap = c.cap
            /\ Taken(Promote(c, P)) <= c.cap \/ Taken(Promote(c, P)) <= Taken(c)
        BY <3>2, PromoteTaken, PeopleFinite
      <3>6. Fits(a, Promote(c, P))
        BY <1>3, <3>2, <3>3, <3>4, <3>5, FitsKept
      <3> QED
        BY <1>6, <3>1, <3>4, <3>6
    <2>3. CASE ~b.owned[i.key]
      BY <1>3, <1>6, <1>9, <2>3 DEF Release
    <2> QED
      BY <2>2, <2>3
  <1>10. CASE Resize(t, b, i)
    <2>1. i.cap \in Nat
      BY <1>2, <1>10, SlotsAssumption DEF Resize, Items, Claims, Releases, Resizes
    <2> DEFINE c == [b EXCEPT !.cap = i.cap]
    <2>2. PICK P \in NextUp(c) : Done(t, Promote(c, P), P)
      BY <1>10 DEF Resize
    <2>3. c \in Slot /\ Active(c) = Active(a)
      BY <1>3, <2>1 DEF Slot, Active
    <2>4. Taken(c) = Taken(a) /\ Taken(a) \in Nat
      BY <2>3, PeopleFinite DEF Taken
    <2> HIDE DEF c
    <2>5. Promote(c, P) \in Slot
      BY <2>3, PromoteType
    <2>6. Fits(a, Promote(c, P))
      BY <2>3, <2>4, PromoteTaken DEF Fits, Slot
    <2> QED
      BY <1>6, <2>2, <2>5, <2>6
  <1> QED
    BY <1>1, <1>8, <1>9, <1>10

LEMMA BookingInit == Init => Booking
  BY ShapeInit DEF Init, Booking, Locks, WorksOnHeld, DraftsFit

\* Ending a request frees its slots and touches nobody else's.
LEMMA FreedBooking ==
  ASSUME Booking, NEW t \in Requests, Shape',
         held' = [held EXCEPT ![t] = {}],
         pc'[t] # "work",
         \A u \in Requests \ {t} :
            /\ pc'[u] = pc[u] /\ todo'[u] = todo[u] /\ draft'[u] = draft[u]
            /\ \A s \in held[u] : book'[s] = book[s]
  PROVE  Booking'
  <1>1. held \in [Requests -> SUBSET Slots]
    BY DEF Booking, Shape, TypeOK
  <1>2. held'[t] = {} /\ \A u \in Requests \ {t} : held'[u] = held[u]
    BY <1>1
  <1>3. Locks'
    BY <1>1, <1>2 DEF Booking, Locks
  <1>4. WorksOnHeld'
    <2> SUFFICES ASSUME NEW u \in Requests, pc'[u] = "work"
                 PROVE  Here(u)' \in held'[u] /\ draft'[u][Here(u)'] = book'[Here(u)']
      BY DEF WorksOnHeld
    <2>1. u # t /\ pc[u] = "work" /\ Here(u)' = Here(u)
      BY DEF Here, Item
    <2>2. Here(u) \in held[u] /\ draft[u][Here(u)] = book[Here(u)]
      BY <2>1 DEF Booking, WorksOnHeld
    <2> QED
      BY <1>2, <2>1, <2>2
  <1>5. DraftsFit'
    <2> SUFFICES ASSUME NEW u \in Requests, NEW s \in held'[u]
                 PROVE  Fits(book'[s], draft'[u][s])
      BY DEF DraftsFit, Fits, Taken, Active
    <2>1. u # t /\ s \in held[u]
      BY <1>2
    <2>2. Fits(book[s], draft[u][s])
      BY <2>1 DEF Booking, DraftsFit
    <2> QED
      BY <2>1, <2>2
  <1> QED
    BY <1>3, <1>4, <1>5 DEF Booking

LEMMA LeaveBooking ==
  ASSUME Booking, NEW t \in Requests, Leave(t), book' = book, Shape'
  PROVE  Booking'
  <1>1. pc'[t] # "work" /\ held' = [held EXCEPT ![t] = {}]
    BY DEF Leave, Booking, Shape, TypeOK
  <1>2. \A u \in Requests \ {t} :
            /\ pc'[u] = pc[u] /\ todo'[u] = todo[u] /\ draft'[u] = draft[u]
            /\ \A s \in held[u] : book'[s] = book[s]
    BY DEF Leave, Booking, Shape, TypeOK
  <1> QED
    BY <1>1, <1>2, FreedBooking

LEMMA CommitBooking ==
  ASSUME Booking, NEW t \in Requests, Commit(t), Shape'
  PROVE  Booking'
  <1>1. pc'[t] # "work" /\ held' = [held EXCEPT ![t] = {}]
    BY DEF Commit, Booking, Shape, TypeOK
  <1>2. \A u \in Requests \ {t} :
            /\ pc'[u] = pc[u] /\ todo'[u] = todo[u] /\ draft'[u] = draft[u]
    BY DEF Commit, Booking, Shape, TypeOK
  <1>3. \A u \in Requests \ {t} : \A s \in held[u] : book'[s] = book[s]
    BY DEF Commit, Booking, Shape, TypeOK, Locks
  <1> QED
    BY <1>1, <1>2, <1>3, FreedBooking

LEMMA LockBooking ==
  ASSUME Booking, NEW t \in Requests, LockSlot(t), Shape'
  PROVE  Booking'
  <1> DEFINE h == Here(t)
  <1>1. h \in Slots /\ pc[t] = "lock"
    BY ItemType DEF LockSlot, Booking
  <1>2. TypeOK
    BY DEF Booking, Shape
  <1>3. \A u \in Requests \ {t} : h \notin held[u]
    BY <1>1 DEF LockSlot, Waits
  <1>4. /\ held'[t] = held[t] \cup {h} /\ draft'[t] = [draft[t] EXCEPT ![h] = book[h]]
        /\ UNCHANGED <<book, todo>>
        /\ \A u \in Requests \ {t} :
              held'[u] = held[u] /\ draft'[u] = draft[u] /\ pc'[u] = pc[u]
    BY <1>2 DEF LockSlot, TypeOK
  <1>5. draft'[t][h] = book[h] /\ \A s \in Slots \ {h} : draft'[t][s] = draft[t][s]
    BY <1>1, <1>2, <1>4 DEF TypeOK
  <1>6. \A u \in Requests : Here(u)' = Here(u)
    BY <1>4 DEF Here, Item
  <1>7. Locks'
    BY <1>3, <1>4 DEF Booking, Locks
  <1> HIDE DEF h
  <1>8. WorksOnHeld'
    <2> SUFFICES ASSUME NEW u \in Requests, pc'[u] = "work"
                 PROVE  Here(u)' \in held'[u] /\ draft'[u][Here(u)'] = book'[Here(u)']
      BY DEF WorksOnHeld
    <2>1. CASE u = t
      <3>1. Here(u)' = h
        BY <1>6, <2>1 DEF h
      <3> QED
        BY <1>4, <1>5, <2>1, <3>1
    <2>2. CASE u # t
      BY <1>4, <1>6, <2>2 DEF Booking, WorksOnHeld
    <2> QED
      BY <2>1, <2>2
  <1>9. DraftsFit'
    <2> SUFFICES ASSUME NEW u \in Requests, NEW s \in held'[u]
                 PROVE  Fits(book'[s], draft'[u][s])
      BY DEF DraftsFit, Fits, Taken, Active
    <2>1. CASE u # t
      BY <1>4, <2>1 DEF Booking, DraftsFit
    <2>2. CASE u = t /\ s = h
      <3>1. Taken(book[h]) \in Nat
        BY PeopleFinite
      <3>2. Fits(book[h], book[h])
        BY <3>1 DEF Fits
      <3>3. book'[s] = book[h] /\ draft'[u][s] = book[h]
        BY <1>4, <1>5, <2>2
      <3> QED
        BY <3>2, <3>3
    <2>3. CASE u = t /\ s # h
      <3>1. s \in held[t] /\ s \in Slots
        BY <1>2, <1>4, <2>3 DEF TypeOK
      <3>2. Fits(book[s], draft[t][s])
        BY <3>1 DEF Booking, DraftsFit
      <3> QED
        BY <1>4, <1>5, <2>3, <3>1, <3>2
    <2> QED
      BY <2>1, <2>2, <2>3
  <1> QED
    BY <1>7, <1>8, <1>9 DEF Booking

LEMMA WorkBooking ==
  ASSUME Booking, NEW t \in Requests, Work(t), Shape'
  PROVE  Booking'
  <1>1. /\ UNCHANGED <<book, held>>
        /\ pc' = [pc EXCEPT ![t] = pc'[t]] /\ pc'[t] # "work"
        /\ \A u \in Requests \ {t} : draft'[u] = draft[u] /\ todo'[u] = todo[u]
        /\ \A s \in held[t] : Fits(book[s], draft'[t][s])
    BY WorkFits
  <1>2. \A u \in Requests \ {t} : pc'[u] = pc[u]
    BY <1>1 DEF Booking, Shape, TypeOK
  <1>3. Locks'
    BY <1>1 DEF Booking, Locks
  <1>4. WorksOnHeld'
    <2> SUFFICES ASSUME NEW u \in Requests, pc'[u] = "work"
                 PROVE  Here(u)' \in held'[u] /\ draft'[u][Here(u)'] = book'[Here(u)']
      BY DEF WorksOnHeld
    <2>1. u # t /\ pc[u] = "work" /\ Here(u)' = Here(u)
      BY <1>1, <1>2 DEF Here, Item
    <2> QED
      BY <1>1, <2>1 DEF Booking, WorksOnHeld
  <1>5. DraftsFit'
    <2> SUFFICES ASSUME NEW u \in Requests, NEW s \in held[u]
                 PROVE  Fits(book[s], draft'[u][s])
      BY <1>1 DEF DraftsFit, Fits, Taken, Active
    <2>1. CASE u = t
      BY <1>1, <2>1
    <2>2. CASE u # t
      BY <1>1, <2>2 DEF Booking, DraftsFit
    <2> QED
      BY <2>1, <2>2
  <1> QED
    BY <1>3, <1>4, <1>5 DEF Booking

LEMMA PurgeBooking ==
  ASSUME Booking, NEW k \in Keys, PurgeScout(k), Shape'
  PROVE  Booking'
  <1>1. TypeOK /\ UNCHANGED <<pc, todo, held>>
    BY DEF Booking, Shape, PurgeScout
  <1>2. \A u \in Requests : Here(u)' = Here(u)
    BY <1>1 DEF Here, Item
  <1>3. ASSUME NEW u \in Requests, NEW s \in held[u]
        PROVE  \/ book'[s] = book[s] /\ draft'[u][s] = draft[u][s]
               \/ /\ book'[s] = DropRow(book[s], k) /\ draft'[u][s] = DropRow(draft[u][s], k)
                  /\ SameRow(book[s], draft[u][s], k)
    <2>1. s \in Slots
      BY <1>1 DEF TypeOK
    <2>2. book[s].seat[k] = "none" \/ SameRow(book[s], draft[u][s], k)
      BY DEF PurgeScout, Untouched
    <2>3. book'[s] = IF book[s].seat[k] # "none" THEN DropRow(book[s], k) ELSE book[s]
      BY <2>1 DEF PurgeScout
    <2>4. draft'[u][s] = IF book[s].seat[k] # "none" THEN DropRow(draft[u][s], k) ELSE draft[u][s]
      BY <2>1 DEF PurgeScout
    <2> QED
      BY <2>2, <2>3, <2>4
  <1>4. Locks'
    BY <1>1 DEF Booking, Locks
  <1>5. WorksOnHeld'
    <2> SUFFICES ASSUME NEW u \in Requests, pc[u] = "work"
                 PROVE  Here(u) \in held[u] /\ draft'[u][Here(u)] = book'[Here(u)]
      BY <1>1, <1>2 DEF WorksOnHeld
    <2>1. Here(u) \in held[u] /\ draft[u][Here(u)] = book[Here(u)]
      BY DEF Booking, WorksOnHeld
    <2> QED
      BY <1>3, <2>1
  <1>6. DraftsFit'
    <2> SUFFICES ASSUME NEW u \in Requests, NEW s \in held[u]
                 PROVE  Fits(book'[s], draft'[u][s])
      BY <1>1 DEF DraftsFit, Fits, Taken, Active
    <2>1. Fits(book[s], draft[u][s])
      BY DEF Booking, DraftsFit
    <2>2. book[s] \in Slot /\ draft[u][s] \in Slot
      BY <1>1 DEF TypeOK
    <2> QED
      BY <1>3, <2>1, <2>2, FitsPurged
  <1> QED
    BY <1>4, <1>5, <1>6 DEF Booking

LEMMA BookingStep == Booking /\ [Next]_vars => Booking'
  <1> SUFFICES ASSUME Booking, [Next]_vars PROVE Booking'
    OBVIOUS
  <1>1. Shape'
    BY ShapeStep DEF Booking
  <1>2. ASSUME NEW t \in Requests, Arrive(t) PROVE Booking'
    <2>1. PICK what, items : Begin(t, what, items)
      BY <1>2 DEF Arrive, TakeSlot, PublicSignup, ReleaseSlot, ImportEventSlots
    <2>2. /\ UNCHANGED <<book, held, draft>> /\ pc'[t] = "lock"
          /\ \A u \in Requests \ {t} : pc'[u] = pc[u] /\ todo'[u] = todo[u]
      BY <2>1 DEF Begin, Booking, Shape, TypeOK
    <2>3. Locks' /\ DraftsFit'
      BY <2>2 DEF Booking, Locks, DraftsFit, Fits, Taken, Active
    <2>4. WorksOnHeld'
      BY <2>2 DEF Booking, WorksOnHeld, Here, Item
    <2> QED
      BY <1>1, <2>3, <2>4 DEF Booking
  <1>3. ASSUME NEW t \in Requests, LockSlot(t) PROVE Booking'
    BY <1>1, <1>3, LockBooking
  <1>4. ASSUME NEW t \in Requests, Work(t) PROVE Booking'
    BY <1>1, <1>4, WorkBooking
  <1>5. ASSUME NEW t \in Requests, Commit(t) PROVE Booking'
    BY <1>1, <1>5, CommitBooking
  <1>6. ASSUME NEW t \in Requests,
               Rollback(t) \/ Abandon(t) \/ DeadlockVictim(t) \/ NotifyPromoted(t)
        PROVE  Booking'
    BY <1>1, <1>6, LeaveBooking DEF Rollback, Abandon, DeadlockVictim, NotifyPromoted
  <1>7. ASSUME NEW k \in Expiring, PurgeScout(k) PROVE Booking'
    BY <1>1, <1>7, PurgeBooking, SlotsAssumption
  <1>8. CASE UNCHANGED vars
    <2>1. Locks' /\ WorksOnHeld'
      BY <1>8 DEF vars, Booking, Locks, WorksOnHeld, Here, Item
    <2>2. DraftsFit'
      BY <1>8 DEF vars, Booking, DraftsFit, Fits, Taken, Active
    <2> QED
      BY <1>1, <2>1, <2>2 DEF Booking
  <1> QED
    BY <1>2, <1>3, <1>4, <1>5, <1>6, <1>7, <1>8 DEF Next

\* Only a commit adds seats to a committed slot, and then up to its capacity.
LEMMA NoOverbookingStep ==
  ASSUME Booking, [Next]_vars, NEW s \in Slots, Taken(book'[s]) > Taken(book[s])
  PROVE  Taken(book'[s]) <= book'[s].cap
  <1>1. TypeOK
    BY DEF Booking, Shape
  <1>2. ASSUME NEW t \in Requests, Commit(t) PROVE Taken(book'[s]) <= book'[s].cap
    <2>1. book'[s] = IF s \in held[t] THEN draft[t][s] ELSE book[s]
      BY <1>2 DEF Commit
    <2>2. s \in held[t] => Fits(book[s], draft[t][s])
      BY DEF Booking, DraftsFit
    <2>3. Taken(book[s]) \in Nat /\ Taken(book'[s]) \in Nat
      BY PeopleFinite
    <2> QED
      BY <2>1, <2>2, <2>3 DEF Fits
  <1>3. ASSUME NEW k \in Expiring, PurgeScout(k) PROVE FALSE
    <2>1. book'[s] = DropRow(book[s], k) \/ book'[s] = book[s]
      BY <1>3 DEF PurgeScout
    <2>2. book[s] \in Slot /\ k \in Keys
      BY <1>1, SlotsAssumption DEF TypeOK
    <2>3. Taken(book[s]) \in Nat
      BY PeopleFinite
    <2> QED
      BY <2>1, <2>2, <2>3, DropRowTaken
  <1>4. ASSUME book' = book PROVE FALSE
    BY <1>4, PeopleFinite
  <1>5. ASSUME NEW t \in Requests,
               Arrive(t) \/ LockSlot(t) \/ Work(t) \/ Rollback(t) \/ NotifyPromoted(t)
               \/ Abandon(t) \/ DeadlockVictim(t)
        PROVE  book' = book
    <2>1. CASE Arrive(t)
      BY <2>1 DEF Arrive, TakeSlot, PublicSignup, ReleaseSlot, ImportEventSlots, Begin
    <2>2. CASE Work(t)
      BY <2>2, WorkFits
    <2> QED
      BY <1>5, <2>1, <2>2 DEF LockSlot, Rollback, NotifyPromoted, Abandon, DeadlockVictim
  <1> QED
    BY <1>2, <1>3, <1>4, <1>5 DEF Next, vars

\* For any slots, people and concurrent requests, the seated count of a slot
\* grows only up to its capacity: the claim of lib/slots/index.ts:1-7.
THEOREM SeatsWithinCapacity == Spec => NoOverbooking
  <1>1. Spec => []Booking
    BY BookingInit, BookingStep, PTL DEF Spec
  <1>2. Booking /\ [Next]_vars =>
          [\A s \in Slots :
              Taken(book'[s]) > Taken(book[s]) => Taken(book'[s]) <= book'[s].cap]_vars
    BY NoOverbookingStep
  <1> QED
    BY <1>1, <1>2, PTL DEF Spec, NoOverbooking

-----------------------------------------------------------------------------
(* What one item of work does to the slot it is done on, seen from the      *)
(* committed slot: nothing but the owner of a row, one more row with the    *)
(* transaction's now(), or a slot with fewer rows (or another capacity) whose       *)
(* waitlist has moved up.                                                   *)

Adopts(b, c, P) ==
    P = {} /\ c.cap = b.cap /\ c.seat = b.seat /\ c.since = b.since

Adds(b, c, P, now) ==
    /\ P = {}
    /\ \E k \in Keys, u \in BOOLEAN :
          /\ b.seat[k] = "none"
          /\ c = PutRow(b, k, IF Full(b) THEN "waiting" ELSE "active", u, now)

Thins(b, d) ==
    /\ Active(d) \subseteq Active(b) /\ Waiting(d) \subseteq Waiting(b)
    /\ \A k \in Active(d) \cup Waiting(d) : d.since[k] = b.since[k]
    /\ \A k \in Keys : d.since[k] \in {0, b.since[k]}

MovesUp(b, c, P) ==
    \E d \in Slot : Thins(b, d) /\ P \in NextUp(d) /\ c = Promote(d, P)

LEMMA WorkChanges ==
  ASSUME Booking, NEW t \in Requests, Work(t)
  PROVE  \/ \E how \in {"full", "clash"} : Fails(t, how)
         \/ \E c \in Slot, P \in SUBSET Keys :
               /\ Done(t, c, P)
               /\ \/ Adopts(book[Here(t)], c, P)
                  \/ Adds(book[Here(t)], c, P, began[t])
                  \/ MovesUp(book[Here(t)], c, P)
  <1> DEFINE b == draft[t][Here(t)]
             i == Item(t)
  <1>1. pc[t] = "work" /\ (ClaimSlot(t, b, i) \/ Release(t, b, i) \/ Resize(t, b, i))
    BY DEF Work
  <1>2. i \in Items /\ Here(t) \in Slots /\ b = book[Here(t)] /\ b \in Slot /\ began[t] \in Nat
    BY <1>1, ItemType DEF Booking, Shape, TypeOK, WorksOnHeld
  <1> HIDE DEF b, i
  <1>3. CASE ClaimSlot(t, b, i)
    <2>1. i.key \in Keys /\ i.user \in BOOLEAN
      BY <1>2, <1>3 DEF ClaimSlot, Items, Claims, Releases, Resizes
    <2>2. CASE ClaimAgain(t, b, i)
      <3> DEFINE c == [b EXCEPT !.owned[i.key] = @ \/ i.user]
      <3>1. c \in Slot /\ Adopts(b, c, {})
        BY <1>2, <2>1 DEF Slot, Adopts
      <3>2. Done(t, c, {})
        BY <2>2 DEF ClaimAgain
      <3> QED
        BY <1>2, <3>1, <3>2
    <2>3. CASE ClaimSeat(t, b, i)
      <3> DEFINE c == PutRow(b, i.key, IF Full(b) THEN "waiting" ELSE "active", i.user, began[t])
      <3>1. c \in Slot
        BY <1>2, <2>1, PutRowType
      <3>2. Done(t, c, {})
        BY <2>3 DEF ClaimSeat
      <3>3. Adds(b, c, {}, began[t])
        BY <2>1, <2>3 DEF ClaimSeat, Adds
      <3> QED
        BY <1>2, <3>1, <3>2, <3>3
    <2>4. CASE ClaimFull(t, b, i)
      BY <2>4 DEF ClaimFull
    <2>5. CASE ClaimClash(t, b, i)
      BY <2>5 DEF ClaimClash
    <2> QED
      BY <1>3, <2>2, <2>3, <2>4, <2>5 DEF ClaimSlot
  <1>4. ASSUME NEW d \in Slot, Thins(b, d), NEW P \in NextUp(d),
               Done(t, Promote(d, P), P)
        PROVE  \E c \in Slot, Q \in SUBSET Keys : Done(t, c, Q) /\ MovesUp(b, c, Q)
    <2>1. Promote(d, P) \in Slot /\ P \in SUBSET Keys
      BY PromoteType, PeopleFinite DEF NextUp
    <2>2. MovesUp(b, Promote(d, P), P)
      BY <1>4 DEF MovesUp
    <2> QED
      BY <1>4, <2>1, <2>2
  <1>5. CASE Release(t, b, i)
    <2>1. i.key \in Keys
      BY <1>2, <1>5 DEF Release, Items, Claims, Releases, Resizes
    <2>2. CASE b.owned[i.key]
      <3> DEFINE d == DropRow(b, i.key)
      <3>1. PICK P \in NextUp(d) : Done(t, Promote(d, P), P)
        BY <1>5, <2>2 DEF Release
      <3>2. d \in Slot
        BY <1>2, <2>1, DropRowType
      <3>3. Thins(b, d)
        BY <1>2, <2>1 DEF Thins, Active, Waiting, DropRow, Slot
      <3> QED
        BY <1>2, <1>4, <2>1, <3>1, <3>2, <3>3
    <2>3. CASE ~b.owned[i.key]
      <3>1. Done(t, b, {}) /\ Adopts(b, b, {})
        BY <1>5, <2>3 DEF Release, Adopts
      <3> QED
        BY <1>2, <2>1, <3>1
    <2> QED
      BY <2>2, <2>3
  <1>6. CASE Resize(t, b, i)
    <2>1. i.cap \in Nat
      BY <1>2, <1>6, SlotsAssumption DEF Resize, Items, Claims, Releases, Resizes
    <2> DEFINE d == [b EXCEPT !.cap = i.cap]
    <2>2. PICK P \in NextUp(d) : Done(t, Promote(d, P), P)
      BY <1>6 DEF Resize
    <2>3. d \in Slot /\ Thins(b, d)
      BY <1>2, <2>1 DEF Slot, Thins, Active, Waiting
    <2> QED
      BY <1>2, <1>4, <2>1, <2>2, <2>3
  <1> QED
    BY <1>1, <1>3, <1>5, <1>6

\* The frame of a finished item: only its own slot's draft is another.
LEMMA DoneFrame ==
  ASSUME Booking, NEW t \in Requests, pc[t] = "work", NEW c \in Slot, NEW P, Done(t, c, P)
  PROVE  /\ Here(t) \in held[t] /\ Here(t) \in Slots
         /\ UNCHANGED <<book, held, told, kind>>
         /\ draft'[t][Here(t)] = c
         /\ \A s \in Slots \ {Here(t)} : draft'[t][s] = draft[t][s]
         /\ \A u \in Requests \ {t} : /\ draft'[u] = draft[u] /\ pc'[u] = pc[u]
                                      /\ todo'[u] = todo[u] /\ promoted'[u] = promoted[u]
         /\ promoted'[t] = promoted[t] \cup {<<Here(t), k, c.since[k]>> : k \in P}
         /\ todo'[t] = Tail(todo[t]) /\ pc'[t] \in {"lock", "commit"}
  <1>1. TypeOK /\ Here(t) \in held[t] /\ Here(t) \in Slots
    BY ItemType DEF Booking, Shape, WorksOnHeld
  <1>2. UNCHANGED <<book, held, told, kind>>
    BY DEF Done
  <1>3. draft'[t][Here(t)] = c /\ \A s \in Slots \ {Here(t)} : draft'[t][s] = draft[t][s]
    BY <1>1 DEF Done, TypeOK
  <1>4. \A u \in Requests \ {t} : /\ draft'[u] = draft[u] /\ pc'[u] = pc[u]
                                  /\ todo'[u] = todo[u] /\ promoted'[u] = promoted[u]
    BY <1>1 DEF Done, TypeOK
  <1>5. promoted'[t] = promoted[t] \cup {<<Here(t), k, c.since[k]>> : k \in P}
    BY <1>1 DEF Done, TypeOK
  <1>6. todo'[t] = Tail(todo[t]) /\ pc'[t] \in {"lock", "commit"}
    BY <1>1 DEF Done, TypeOK
  <1> QED
    BY <1>1, <1>2, <1>3, <1>4, <1>5, <1>6

-----------------------------------------------------------------------------
(* No idle seat, while the purge deletes nobody (with the purge it fails:   *)
(* see slots_purge.cfg).  Whoever opens a seat fills it before committing.  *)

Served(b) == Waiting(b) # {} => Full(b)

LEMMA PromoteServes ==
  ASSUME NEW d \in Slot, NEW P \in NextUp(d)
  PROVE  Served(Promote(d, P))
  <1> DEFINE c == Promote(d, P)
  <1>1. P \in SUBSET Waiting(d) /\ P \in SUBSET Keys
    BY PeopleFinite DEF NextUp
  <1>2. Active(c) = Active(d) \cup P /\ Waiting(c) = Waiting(d) \ P /\ c.cap = d.cap
    BY <1>1 DEF Active, Waiting, Promote, Slot
  <1>3. /\ IsFiniteSet(Active(d)) /\ IsFiniteSet(Waiting(d)) /\ Taken(d) \in Nat
        /\ Cardinality(Waiting(d)) \in Nat /\ d.cap \in Nat
    BY PeopleFinite DEF Slot
  <1>4. IsFiniteSet(P) /\ Cardinality(P) \in Nat
    BY <1>1, <1>3, FS_Subset, FS_CardinalityType
  <1>5. Taken(c) = Taken(d) + Cardinality(P)
    <2>1. Cardinality(Active(d) \cup P)
            = Cardinality(Active(d)) + Cardinality(P) - Cardinality(Active(d) \cap P)
      BY <1>3, <1>4, FS_Union
    <2>2. Active(d) \cap P = {}
      BY <1>1 DEF Active, Waiting
    <2>3. Cardinality(Active(d) \cap P) = 0
      BY <2>2, FS_EmptySet
    <2> QED
      BY <1>2, <1>3, <1>4, <2>1, <2>3 DEF Taken
  <1> HIDE DEF c
  <1> SUFFICES ASSUME Waiting(c) # {} PROVE Full(c)
    BY DEF c, Served
  <1>6. P # Waiting(d)
    BY <1>2
  <1>7. Cardinality(P) # Cardinality(Waiting(d))
    BY <1>1, <1>3, <1>6, FS_Subset
  <1>8. Cardinality(P) = Open(d)
    BY <1>7 DEF NextUp
  <1> QED
    BY <1>2, <1>3, <1>5, <1>8 DEF Open, Full

LEMMA ChangeServes ==
  ASSUME NEW b \in Slot, NEW c \in Slot, NEW P, NEW now \in Nat, Served(b),
         Adopts(b, c, P) \/ Adds(b, c, P, now) \/ MovesUp(b, c, P)
  PROVE  Served(c)
  <1>1. CASE Adopts(b, c, P)
    BY <1>1 DEF Adopts, Served, Full, Taken, Waiting, Active
  <1>2. CASE Adds(b, c, P, now)
    <2>1. PICK k \in Keys, u \in BOOLEAN :
            b.seat[k] = "none" /\ c = PutRow(b, k, IF Full(b) THEN "waiting" ELSE "active", u, now)
      BY <1>2 DEF Adds
    <2>2. CASE Full(b)
      <3>1. Active(c) = Active(b) /\ c.cap = b.cap
        BY <2>1, <2>2 DEF Active, PutRow, Slot
      <3> QED
        BY <2>2, <3>1 DEF Served, Full, Taken
    <2>3. CASE ~Full(b)
      <3>1. Waiting(c) = Waiting(b)
        BY <2>1, <2>3 DEF Waiting, PutRow, Slot
      <3> QED
        BY <2>3, <3>1 DEF Served
    <2> QED
      BY <2>2, <2>3
  <1>3. CASE MovesUp(b, c, P)
    BY <1>3, PromoteServes DEF MovesUp
  <1> QED
    BY <1>1, <1>2, <1>3

DraftsServe ==
    /\ \A s \in Slots : Served(book[s])
    /\ \A t \in Requests : \A s \in held[t] : Served(draft[t][s])

LEMMA ServeInit == Init => DraftsServe
  <1> SUFFICES ASSUME Init PROVE DraftsServe
    OBVIOUS
  <1>1. \A s \in Slots : Waiting(EmptySlot(s)) = {}
    BY DEF Waiting, EmptySlot
  <1> QED
    BY <1>1 DEF Init, DraftsServe, Served

LEMMA ServeStep ==
  ASSUME Booking, DraftsServe, [Next]_vars, Expiring = {}
  PROVE  DraftsServe'
  <1> USE DEF Served, Full, Taken, Waiting, Active
  <1>1. TypeOK
    BY DEF Booking, Shape
  <1>2. ASSUME NEW t \in Requests, Arrive(t) PROVE DraftsServe'
    <2>1. UNCHANGED <<book, held, draft>>
      BY <1>2 DEF Arrive, TakeSlot, PublicSignup, ReleaseSlot, ImportEventSlots, Begin
    <2> QED
      BY <2>1 DEF DraftsServe
  <1>3. ASSUME NEW t \in Requests, LockSlot(t) PROVE DraftsServe'
    <2> DEFINE h == Here(t)
    <2>1. h \in Slots
      BY <1>3, ItemType DEF LockSlot, Booking
    <2>2. /\ book' = book /\ held'[t] = held[t] \cup {h} /\ draft'[t][h] = book[h]
          /\ \A s \in Slots \ {h} : draft'[t][s] = draft[t][s]
          /\ \A u \in Requests \ {t} : held'[u] = held[u] /\ draft'[u] = draft[u]
      BY <1>1, <1>3, <2>1 DEF LockSlot, TypeOK
    <2>3. \A s \in held[t] : s \in Slots
      BY <1>1 DEF TypeOK
    <2> HIDE DEF h
    <2>4. ASSUME NEW u \in Requests, NEW s \in held'[u] PROVE Served(draft'[u][s])
      <3>1. CASE u # t
        BY <2>2, <3>1 DEF DraftsServe
      <3>2. CASE u = t /\ s = h
        BY <2>1, <2>2, <3>2 DEF DraftsServe
      <3>3. CASE u = t /\ s # h
        BY <2>2, <2>3, <3>3 DEF DraftsServe
      <3> QED
        BY <3>1, <3>2, <3>3
    <2> QED
      BY <2>2, <2>4 DEF DraftsServe
  <1>4. ASSUME NEW t \in Requests, Work(t) PROVE DraftsServe'
    <2>1. CASE \E how \in {"full", "clash"} : Fails(t, how)
      BY <2>1 DEF Fails, DraftsServe
    <2>2. ASSUME NEW c \in Slot, NEW P \in SUBSET Keys, Done(t, c, P),
                 \/ Adopts(book[Here(t)], c, P) \/ Adds(book[Here(t)], c, P, began[t])
                 \/ MovesUp(book[Here(t)], c, P)
          PROVE  DraftsServe'
      <3>1. pc[t] = "work"
        BY <1>4 DEF Work
      <3>2. /\ Here(t) \in Slots /\ book' = book /\ held' = held
            /\ draft'[t][Here(t)] = c
            /\ \A s \in Slots \ {Here(t)} : draft'[t][s] = draft[t][s]
            /\ \A u \in Requests \ {t} : draft'[u] = draft[u]
        BY <2>2, <3>1, DoneFrame
      <3>3. book[Here(t)] \in Slot /\ began[t] \in Nat /\ Served(book[Here(t)])
        BY <1>1, <3>2 DEF TypeOK, DraftsServe
      <3>4. Served(c)
        BY <2>2, <3>3, ChangeServes
      <3>5. \A u \in Requests : \A s \in held[u] : s \in Slots
        BY <1>1 DEF TypeOK
      <3>6. ASSUME NEW u \in Requests, NEW s \in held[u] PROVE Served(draft'[u][s])
        <4>1. CASE u # t
          BY <3>2, <4>1 DEF DraftsServe
        <4>2. CASE u = t /\ s = Here(t)
          BY <3>2, <3>4, <4>2
        <4>3. CASE u = t /\ s # Here(t)
          BY <3>2, <3>5, <4>3 DEF DraftsServe
        <4> QED
          BY <4>1, <4>2, <4>3
      <3> QED
        BY <3>2, <3>6 DEF DraftsServe
    <2> QED
      BY <1>4, <2>1, <2>2, WorkChanges
  <1>5. ASSUME NEW t \in Requests, Commit(t) PROVE DraftsServe'
    <2>1. \A s \in Slots : book'[s] = IF s \in held[t] THEN draft[t][s] ELSE book[s]
      BY <1>5 DEF Commit
    <2>2. held'[t] = {} /\ \A u \in Requests \ {t} : held'[u] = held[u] /\ draft'[u] = draft[u]
      BY <1>1, <1>5 DEF Commit, TypeOK
    <2> QED
      BY <2>1, <2>2 DEF DraftsServe
  <1>6. ASSUME NEW t \in Requests, Leave(t), book' = book PROVE DraftsServe'
    <2>1. held'[t] = {} /\ \A u \in Requests \ {t} : held'[u] = held[u] /\ draft'[u] = draft[u]
      BY <1>1, <1>6 DEF Leave, TypeOK
    <2> QED
      BY <1>6, <2>1 DEF DraftsServe
  <1>7. ASSUME NEW t \in Requests,
               Rollback(t) \/ Abandon(t) \/ DeadlockVictim(t) \/ NotifyPromoted(t)
        PROVE  DraftsServe'
    BY <1>6, <1>7 DEF Rollback, Abandon, DeadlockVictim, NotifyPromoted
  <1>8. CASE UNCHANGED vars
    BY <1>8 DEF vars, DraftsServe
  <1> QED
    BY <1>2, <1>3, <1>4, <1>5, <1>7, <1>8 DEF Next

\* While the purge deletes nobody, no committed slot has an open seat and a
\* waitlist: every release and every import fills the seats it opens.
THEOREM OpenSeatsAreFilled == ASSUME Expiring = {} PROVE Spec => []NoIdleSeat
  <1>1. Spec => []Booking
    BY BookingInit, BookingStep, PTL DEF Spec
  <1>2. Booking /\ DraftsServe /\ [Next]_vars => DraftsServe'
    BY ServeStep
  <1>3. DraftsServe => NoIdleSeat
    BY DEF DraftsServe, Served, NoIdleSeat
  <1> QED
    BY <1>1, <1>2, <1>3, ServeInit, PTL DEF Spec

-----------------------------------------------------------------------------
(* The waitlist moves up oldest first.  A draft promotes from the committed *)
(* slot it started from, which nobody but the purge changes meanwhile.      *)

InOrder(b, c) ==
    \A k \in Waiting(b), j \in Waiting(c) : k \in Active(c) => ~Older(c, j, k)

DraftsInOrder == \A t \in Requests : \A s \in held[t] : InOrder(book[s], draft[t][s])

LEMMA SameInOrder ==
  ASSUME NEW b
  PROVE  InOrder(b, b)
  BY DEF InOrder, Waiting, Active

LEMMA ChangeInOrder ==
  ASSUME NEW b \in Slot, NEW c \in Slot, NEW P, NEW now \in Nat,
         Adopts(b, c, P) \/ Adds(b, c, P, now) \/ MovesUp(b, c, P)
  PROVE  InOrder(b, c)
  <1> SUFFICES ASSUME NEW k \in Waiting(b), NEW j \in Waiting(c), k \in Active(c)
               PROVE  ~Older(c, j, k)
    BY DEF InOrder
  <1>1. k \in Keys /\ b.seat[k] = "waiting" /\ c.seat[k] = "active"
    BY DEF Waiting, Active
  <1>2. ~Adopts(b, c, P)
    BY <1>1 DEF Adopts
  <1>3. ~Adds(b, c, P, now)
    <2> SUFFICES ASSUME NEW m \in Keys, NEW u \in BOOLEAN, b.seat[m] = "none",
                        c = PutRow(b, m, IF Full(b) THEN "waiting" ELSE "active", u, now)
                 PROVE  FALSE
      BY DEF Adds
    <2>1. c.seat[k] = b.seat[k]
      BY <1>1 DEF PutRow, Slot
    <2> QED
      BY <1>1, <2>1
  <1>4. PICK d \in Slot : Thins(b, d) /\ P \in NextUp(d) /\ c = Promote(d, P)
    BY <1>2, <1>3 DEF MovesUp
  <1>5. k \notin Active(d)
    BY <1>1, <1>4 DEF Thins, Active
  <1>6. k \in P /\ j \in Waiting(d) \ P
    BY <1>1, <1>4, <1>5 DEF Promote, Active, Waiting, Slot, NextUp
  <1>7. ~Older(d, j, k)
    BY <1>4, <1>6 DEF NextUp
  <1>8. c.since = d.since
    BY <1>4 DEF Promote, Slot
  <1> QED
    BY <1>7, <1>8 DEF Older

LEMMA InOrderPurged ==
  ASSUME NEW b \in Slot, NEW c \in Slot, NEW k \in Keys, InOrder(b, c)
  PROVE  InOrder(DropRow(b, k), DropRow(c, k))
  <1> SUFFICES ASSUME NEW m \in Waiting(DropRow(b, k)), NEW j \in Waiting(DropRow(c, k)),
                      m \in Active(DropRow(c, k))
               PROVE  ~Older(DropRow(c, k), j, m)
    BY DEF InOrder
  <1>1. /\ m \in Waiting(b) /\ m # k /\ m \in Active(c)
        /\ j \in Waiting(c) /\ j # k
        /\ DropRow(c, k).since[m] = c.since[m] /\ DropRow(c, k).since[j] = c.since[j]
    BY DEF Waiting, Active, DropRow, Slot
  <1>2. ~Older(c, j, m)
    BY <1>1 DEF InOrder
  <1> QED
    BY <1>1, <1>2 DEF Older

LEMMA OrderStep ==
  ASSUME Booking, DraftsInOrder, [Next]_vars
  PROVE  DraftsInOrder'
  <1> USE DEF InOrder, Waiting, Active, Older
  <1>1. TypeOK
    BY DEF Booking, Shape
  <1>2. ASSUME NEW t \in Requests, Arrive(t) PROVE DraftsInOrder'
    <2>1. UNCHANGED <<book, held, draft>>
      BY <1>2 DEF Arrive, TakeSlot, PublicSignup, ReleaseSlot, ImportEventSlots, Begin
    <2> QED
      BY <2>1 DEF DraftsInOrder
  <1>3. ASSUME NEW t \in Requests, LockSlot(t) PROVE DraftsInOrder'
    <2> DEFINE h == Here(t)
    <2>1. h \in Slots
      BY <1>3, ItemType DEF LockSlot, Booking
    <2>2. /\ book' = book /\ held'[t] = held[t] \cup {h} /\ draft'[t][h] = book[h]
          /\ \A s \in Slots \ {h} : draft'[t][s] = draft[t][s]
          /\ \A u \in Requests \ {t} : held'[u] = held[u] /\ draft'[u] = draft[u]
      BY <1>1, <1>3, <2>1 DEF LockSlot, TypeOK
    <2>3. \A s \in held[t] : s \in Slots
      BY <1>1 DEF TypeOK
    <2> HIDE DEF h
    <2>4. ASSUME NEW u \in Requests, NEW s \in held'[u] PROVE InOrder(book[s], draft'[u][s])
      <3>1. CASE u # t
        BY <2>2, <3>1 DEF DraftsInOrder
      <3>2. CASE u = t /\ s = h
        BY <2>1, <2>2, <3>2, SameInOrder DEF DraftsInOrder
      <3>3. CASE u = t /\ s # h
        BY <2>2, <2>3, <3>3 DEF DraftsInOrder
      <3> QED
        BY <3>1, <3>2, <3>3
    <2> QED
      BY <2>2, <2>4 DEF DraftsInOrder
  <1>4. ASSUME NEW t \in Requests, Work(t) PROVE DraftsInOrder'
    <2>1. CASE \E how \in {"full", "clash"} : Fails(t, how)
      BY <2>1 DEF Fails, DraftsInOrder
    <2>2. ASSUME NEW c \in Slot, NEW P \in SUBSET Keys, Done(t, c, P),
                 \/ Adopts(book[Here(t)], c, P) \/ Adds(book[Here(t)], c, P, began[t])
                 \/ MovesUp(book[Here(t)], c, P)
          PROVE  DraftsInOrder'
      <3>1. pc[t] = "work"
        BY <1>4 DEF Work
      <3>2. /\ Here(t) \in Slots /\ book' = book /\ held' = held
            /\ draft'[t][Here(t)] = c
            /\ \A s \in Slots \ {Here(t)} : draft'[t][s] = draft[t][s]
            /\ \A u \in Requests \ {t} : draft'[u] = draft[u]
        BY <2>2, <3>1, DoneFrame
      <3>3. book[Here(t)] \in Slot /\ began[t] \in Nat
        BY <1>1, <3>2 DEF TypeOK
      <3>4. InOrder(book[Here(t)], c)
        BY <2>2, <3>3, ChangeInOrder
      <3>5. \A u \in Requests : \A s \in held[u] : s \in Slots
        BY <1>1 DEF TypeOK
      <3>6. ASSUME NEW u \in Requests, NEW s \in held[u] PROVE InOrder(book[s], draft'[u][s])
        <4>1. CASE u # t
          BY <3>2, <4>1 DEF DraftsInOrder
        <4>2. CASE u = t /\ s = Here(t)
          BY <3>2, <3>4, <4>2
        <4>3. CASE u = t /\ s # Here(t)
          BY <3>2, <3>5, <4>3 DEF DraftsInOrder
        <4> QED
          BY <4>1, <4>2, <4>3
      <3> QED
        BY <3>2, <3>6 DEF DraftsInOrder
    <2> QED
      BY <1>4, <2>1, <2>2, WorkChanges
  <1>5. ASSUME NEW t \in Requests, Commit(t) PROVE DraftsInOrder'
    <2>1. \A s \in Slots \ held[t] : book'[s] = book[s]
      BY <1>5 DEF Commit
    <2>2. held'[t] = {} /\ \A u \in Requests \ {t} : held'[u] = held[u] /\ draft'[u] = draft[u]
      BY <1>1, <1>5 DEF Commit, TypeOK
    <2>3. \A u \in Requests \ {t} : \A s \in held[u] : s \in Slots \ held[t]
      BY <1>1 DEF Booking, Locks, TypeOK
    <2> QED
      BY <2>1, <2>2, <2>3 DEF DraftsInOrder
  <1>6. ASSUME NEW t \in Requests, Leave(t), book' = book PROVE DraftsInOrder'
    <2>1. held'[t] = {} /\ \A u \in Requests \ {t} : held'[u] = held[u] /\ draft'[u] = draft[u]
      BY <1>1, <1>6 DEF Leave, TypeOK
    <2> QED
      BY <1>6, <2>1 DEF DraftsInOrder
  <1>7. ASSUME NEW t \in Requests,
               Rollback(t) \/ Abandon(t) \/ DeadlockVictim(t) \/ NotifyPromoted(t)
        PROVE  DraftsInOrder'
    BY <1>6, <1>7 DEF Rollback, Abandon, DeadlockVictim, NotifyPromoted
  <1>8. ASSUME NEW k \in Expiring, PurgeScout(k) PROVE DraftsInOrder'
    <2>1. k \in Keys /\ held' = held
      BY <1>8, SlotsAssumption DEF PurgeScout
    <2>2. ASSUME NEW u \in Requests, NEW s \in held[u]
          PROVE  InOrder(book'[s], draft'[u][s])
      <3>1. s \in Slots /\ book[s] \in Slot /\ draft[u][s] \in Slot
        BY <1>1 DEF TypeOK
      <3>2. \/ book'[s] = book[s] /\ draft'[u][s] = draft[u][s]
            \/ book'[s] = DropRow(book[s], k) /\ draft'[u][s] = DropRow(draft[u][s], k)
        BY <1>8, <3>1 DEF PurgeScout
      <3>3. InOrder(book[s], draft[u][s])
        BY DEF DraftsInOrder
      <3> HIDE DEF InOrder
      <3> QED
        BY <2>1, <3>1, <3>2, <3>3, InOrderPurged
    <2> QED
      BY <2>1, <2>2 DEF DraftsInOrder
  <1>9. CASE UNCHANGED vars
    BY <1>9 DEF vars, DraftsInOrder
  <1> QED
    BY <1>2, <1>3, <1>4, <1>5, <1>7, <1>8, <1>9 DEF Next

LEMMA OldestFirstStep ==
  ASSUME Booking, DraftsInOrder, [Next]_vars, NEW s \in Slots
  PROVE  InOrder(book[s], book'[s])
  <1>1. ASSUME NEW t \in Requests, Commit(t) PROVE InOrder(book[s], book'[s])
    <2>1. book'[s] = IF s \in held[t] THEN draft[t][s] ELSE book[s]
      BY <1>1 DEF Commit
    <2> QED
      BY <2>1, SameInOrder DEF DraftsInOrder
  <1>2. ASSUME NEW k \in Expiring, PurgeScout(k) PROVE InOrder(book[s], book'[s])
    <2>1. book'[s] = DropRow(book[s], k) \/ book'[s] = book[s]
      BY <1>2 DEF PurgeScout
    <2>2. book[s] \in Slot /\ k \in Keys
      BY SlotsAssumption DEF Booking, Shape, TypeOK
    <2>3. \A m \in Waiting(book[s]) : m \notin Active(DropRow(book[s], k))
      BY <2>2 DEF Waiting, Active, DropRow, Slot
    <2> QED
      BY <2>1, <2>3, SameInOrder DEF InOrder
  <1>3. ASSUME NEW t \in Requests,
               Arrive(t) \/ LockSlot(t) \/ Work(t) \/ Rollback(t) \/ NotifyPromoted(t)
               \/ Abandon(t) \/ DeadlockVictim(t)
        PROVE  book' = book
    <2>1. CASE Arrive(t)
      BY <2>1 DEF Arrive, TakeSlot, PublicSignup, ReleaseSlot, ImportEventSlots, Begin
    <2>2. CASE Work(t)
      BY <2>2, WorkFits
    <2> QED
      BY <1>3, <2>1, <2>2 DEF LockSlot, Rollback, NotifyPromoted, Abandon, DeadlockVictim
  <1> QED
    BY <1>1, <1>2, <1>3, SameInOrder DEF Next, vars

\* For any slots, people and concurrent requests, nobody on a waitlist is
\* promoted past an older row that is left waiting: promote() reads the oldest
\* rows of a slot whose lock it holds, and its commit publishes that choice.
THEOREM WaitlistInOrder == Spec => OldestFirst
  <1>1. Spec => []Booking
    BY BookingInit, BookingStep, PTL DEF Spec
  <1>2. Init => DraftsInOrder
    BY DEF Init, DraftsInOrder
  <1>3. Booking /\ DraftsInOrder /\ [Next]_vars => DraftsInOrder'
    BY OrderStep
  <1>4. Booking /\ DraftsInOrder /\ [Next]_vars =>
          [\A s \in Slots : \A k \in Waiting(book[s]), j \in Waiting(book'[s]) :
              k \in Active(book'[s]) => ~Older(book'[s], j, k)]_vars
    BY OldestFirstStep DEF InOrder
  <1> QED
    BY <1>1, <1>2, <1>3, <1>4, PTL DEF Spec, OldestFirst

-----------------------------------------------------------------------------
(* The plan of a request: it never comes back to a slot it holds, and unless *)
(* it is an import it locks slots in increasing order of their ids.          *)

Before(t, a, b) == a # b /\ (kind[t] # "import" => a < b)

InStep(t) ==
    /\ \A i, j \in 1 .. Len(todo[t]) : i < j => Before(t, todo[t][i].slot, todo[t][j].slot)
    /\ \A h \in held[t], j \in 1 .. Len(todo[t]) :
          pc[t] = "lock" \/ j > 1 => Before(t, h, todo[t][j].slot)

Planned ==
    \A t \in Requests :
        /\ pc[t] \in {"lock", "work"} => InStep(t)
        /\ pc[t] \in {"idle", "notify"} => held[t] = {}

LEMMA BeginPlanned ==
  ASSUME Shape, Planned, NEW t \in Requests, NEW what \in Kinds,
         NEW items \in Seq(Items), Begin(t, what, items),
         \A i, j \in 1 .. Len(items) :
            i < j => /\ items[i].slot # items[j].slot
                     /\ what # "import" => items[i].slot < items[j].slot
  PROVE  Planned'
  <1>1. TypeOK /\ pc[t] = "idle" /\ held[t] = {}
    BY DEF Shape, Begin, Planned
  <1>2. /\ held' = held /\ pc'[t] = "lock" /\ kind'[t] = what /\ todo'[t] = items
        /\ \A u \in Requests \ {t} : pc'[u] = pc[u] /\ kind'[u] = kind[u] /\ todo'[u] = todo[u]
    BY <1>1 DEF Begin, TypeOK
  <1> SUFFICES ASSUME NEW u \in Requests
               PROVE  /\ pc'[u] \in {"lock", "work"} => InStep(u)'
                      /\ pc'[u] \in {"idle", "notify"} => held'[u] = {}
    BY DEF Planned
  <1>3. CASE u = t
    BY <1>1, <1>2, <1>3 DEF InStep, Before
  <1>4. CASE u # t
    BY <1>2, <1>4 DEF Planned, InStep, Before
  <1> QED
    BY <1>3, <1>4

LEMMA ArrivePlanned ==
  ASSUME Shape, Planned, NEW t \in Requests, Arrive(t)
  PROVE  Planned'
  <1>1. CASE TakeSlot(t)
    <2>1. PICK s \in Slots, k \in Adults, u \in BOOLEAN :
            Begin(t, "take", <<[act |-> "claim", slot |-> s, key |-> k, user |-> u, idem |-> u]>>)
      BY <1>1 DEF TakeSlot
    <2> DEFINE i == [act |-> "claim", slot |-> s, key |-> k, user |-> u, idem |-> u]
    <2>2. i \in Items
      BY DEF Items, Claims, Keys
    <2> HIDE DEF i
    <2>3. <<i>> \in Seq(Items) /\ Len(<<i>>) = 1
      BY <2>2
    <2>4. Begin(t, "take", <<i>>)
      BY <2>1 DEF i
    <2>5. \A m, n \in 1 .. Len(<<i>>) : ~(m < n)
      BY <2>3
    <2> QED
      BY <2>3, <2>4, <2>5, BeginPlanned DEF Kinds
  <1>2. CASE PublicSignup(t)
    <2>1. PICK S \in (SUBSET Slots) \ {{}}, scout \in Scouts : \E q \in IdOrder(S) :
            Begin(t, "signup", [i \in DOMAIN q |-> SignupItem(q[i], scout)])
      BY <1>2 DEF PublicSignup
    <2>2. PICK q \in IdOrder(S) :
            Begin(t, "signup", [i \in DOMAIN q |-> SignupItem(q[i], scout)])
      BY <2>1
    <2> DEFINE items == [i \in DOMAIN q |-> SignupItem(q[i], scout)]
    <2>3. q \in Orders(S) /\ \A i, j \in DOMAIN q : i < j => q[i] < q[j]
      BY DEF IdOrder
    <2>4. \A s \in Slots : SignupItem(s, scout) \in Items /\ SignupItem(s, scout).slot = s
      BY SlotsAssumption DEF SignupItem, Items, Claims, Keys
    <2>5. /\ Cardinality(S) \in Nat \ {0} /\ DOMAIN q = 1 .. Cardinality(S)
          /\ \A i \in DOMAIN q : q[i] \in Slots
      BY <2>3, PlanType
    <2>6. items \in [1 .. Cardinality(S) -> Items]
      BY <2>4, <2>5
    <2>7. items \in Seq(Items) /\ Len(items) = Cardinality(S)
      BY <2>5, <2>6
    <2>8. \A i \in 1 .. Cardinality(S) : items[i].slot = q[i] /\ q[i] \in Nat
      BY <2>4, <2>5, SlotsAssumption
    <2>9. Begin(t, "signup", items)
      BY <2>2
    <2> HIDE DEF items
    <2>10. \A i, j \in 1 .. Len(items) :
              i < j => /\ items[i].slot # items[j].slot
                       /\ "signup" # "import" => items[i].slot < items[j].slot
      BY <2>3, <2>5, <2>7, <2>8
    <2> QED
      BY <2>7, <2>9, <2>10, BeginPlanned DEF Kinds
  <1>3. CASE ReleaseSlot(t)
    <2>1. PICK s \in Slots, k \in Logins :
            Begin(t, "release", <<[act |-> "release", slot |-> s, key |-> k]>>)
      BY <1>3 DEF ReleaseSlot
    <2> DEFINE i == [act |-> "release", slot |-> s, key |-> k]
    <2>2. i \in Items
      BY SlotsAssumption DEF Items, Releases, Keys
    <2> HIDE DEF i
    <2>3. <<i>> \in Seq(Items) /\ Len(<<i>>) = 1
      BY <2>2
    <2>4. Begin(t, "release", <<i>>)
      BY <2>1 DEF i
    <2>5. \A m, n \in 1 .. Len(<<i>>) : ~(m < n)
      BY <2>3
    <2> QED
      BY <2>3, <2>4, <2>5, BeginPlanned DEF Kinds
  <1>4. CASE ImportEventSlots(t)
    <2>1. PICK S \in (SUBSET Slots) \ {{}} : \E q \in Orders(S), size \in [S -> Sizes] :
            Begin(t, "import",
              [i \in DOMAIN q |-> [act |-> "resize", slot |-> q[i], cap |-> size[q[i]]]])
      BY <1>4 DEF ImportEventSlots
    <2>2. PICK q \in Orders(S), size \in [S -> Sizes] :
            Begin(t, "import",
              [i \in DOMAIN q |-> [act |-> "resize", slot |-> q[i], cap |-> size[q[i]]]])
      BY <2>1
    <2> DEFINE items == [i \in DOMAIN q |-> [act |-> "resize", slot |-> q[i], cap |-> size[q[i]]]]
    <2>3. \A s \in S : [act |-> "resize", slot |-> s, cap |-> size[s]] \in Items
      BY DEF Items, Resizes
    <2>4. /\ Cardinality(S) \in Nat \ {0} /\ DOMAIN q = 1 .. Cardinality(S)
          /\ \A i \in DOMAIN q : q[i] \in S
          /\ \A i, j \in DOMAIN q : q[i] = q[j] => i = j
      BY PlanType DEF Orders
    <2>5. items \in [1 .. Cardinality(S) -> Items]
      BY <2>3, <2>4
    <2>6. items \in Seq(Items) /\ Len(items) = Cardinality(S)
      BY <2>4, <2>5
    <2>7. \A i \in 1 .. Cardinality(S) : items[i].slot = q[i]
      BY <2>4
    <2>8. Begin(t, "import", items)
      BY <2>2
    <2> HIDE DEF items
    <2>9. \A i, j \in 1 .. Len(items) :
              i < j => /\ items[i].slot # items[j].slot
                       /\ "import" # "import" => items[i].slot < items[j].slot
      BY <2>4, <2>6, <2>7
    <2> QED
      BY <2>6, <2>8, <2>9, BeginPlanned DEF Kinds
  <1> QED
    BY <1>1, <1>2, <1>3, <1>4 DEF Arrive

LEMMA PlannedStep ==
  ASSUME Booking, Planned, [Next]_vars
  PROVE  Planned'
  <1>1. TypeOK
    BY DEF Booking, Shape
  <1>2. ASSUME NEW t \in Requests, Arrive(t) PROVE Planned'
    BY <1>2, ArrivePlanned DEF Booking
  <1>3. ASSUME NEW t \in Requests,
               \A u \in Requests \ {t} : /\ pc'[u] = pc[u] /\ kind'[u] = kind[u]
                                         /\ todo'[u] = todo[u] /\ held'[u] = held[u],
               pc'[t] \in {"lock", "work"} => InStep(t)',
               pc'[t] \in {"idle", "notify"} => held'[t] = {}
        PROVE  Planned'
    <2> SUFFICES ASSUME NEW u \in Requests
                 PROVE  /\ pc'[u] \in {"lock", "work"} => InStep(u)'
                        /\ pc'[u] \in {"idle", "notify"} => held'[u] = {}
      BY DEF Planned
    <2> QED
      BY <1>3 DEF Planned, InStep, Before
  <1>4. ASSUME NEW t \in Requests, LockSlot(t) PROVE Planned'
    <2>1. /\ held'[t] = held[t] \cup {Here(t)} /\ pc[t] = "lock" /\ pc'[t] = "work"
          /\ kind'[t] = kind[t] /\ todo'[t] = todo[t]
          /\ \A u \in Requests \ {t} : /\ pc'[u] = pc[u] /\ kind'[u] = kind[u]
                                       /\ todo'[u] = todo[u] /\ held'[u] = held[u]
      BY <1>1, <1>4 DEF LockSlot, TypeOK
    <2>2. todo[t] \in Seq(Items) /\ todo[t] # <<>>
      BY <2>1 DEF Booking, Shape, TypeOK, Busy
    <2>3. Here(t) = todo[t][1].slot /\ Len(todo[t]) \in Nat \ {0}
      BY <2>2, EmptySeq DEF Here, Item
    <2>4. InStep(t)
      BY <2>1 DEF Planned
    <2>5. InStep(t)'
      BY <2>1, <2>3, <2>4 DEF InStep, Before
    <2> QED
      BY <1>3, <2>1, <2>5
  <1>5. ASSUME NEW t \in Requests, Work(t) PROVE Planned'
    <2>1. pc[t] = "work" /\ InStep(t)
      BY <1>5 DEF Work, Planned
    <2>2. CASE \E how \in {"full", "clash"} : Fails(t, how)
      <3>1. /\ pc'[t] \in {"full", "clash"}
            /\ \A u \in Requests \ {t} : /\ pc'[u] = pc[u] /\ kind'[u] = kind[u]
                                         /\ todo'[u] = todo[u] /\ held'[u] = held[u]
        BY <1>1, <2>2 DEF Fails, TypeOK
      <3> QED
        BY <1>3, <3>1
    <2>3. ASSUME NEW c \in Slot, NEW P \in SUBSET Keys, Done(t, c, P)
          PROVE  Planned'
      <3>1. /\ held' = held /\ kind' = kind /\ todo'[t] = Tail(todo[t])
            /\ pc'[t] \in {"lock", "commit"}
            /\ \A u \in Requests \ {t} : pc'[u] = pc[u] /\ todo'[u] = todo[u]
        BY <2>1, <2>3, DoneFrame
      <3>2. todo[t] \in Seq(Items) /\ todo[t] # <<>>
        BY <2>1 DEF Booking, Shape, TypeOK, Busy
      <3>3. /\ Len(todo[t]) \in Nat \ {0} /\ Len(Tail(todo[t])) = Len(todo[t]) - 1
            /\ \A i \in 1 .. Len(todo[t]) - 1 : Tail(todo[t])[i] = todo[t][i + 1]
        BY <3>2, EmptySeq, HeadTailProperties
      <3>4. \A i, j \in 1 .. Len(todo'[t]) :
               i < j => Before(t, todo'[t][i].slot, todo'[t][j].slot)
        BY <2>1, <3>1, <3>3 DEF InStep
      <3>5. \A h \in held[t], j \in 1 .. Len(todo'[t]) : Before(t, h, todo'[t][j].slot)
        BY <2>1, <3>1, <3>3 DEF InStep
      <3>6. InStep(t)'
        BY <3>1, <3>4, <3>5 DEF InStep, Before
      <3> QED
        BY <1>3, <3>1, <3>6
    <2> QED
      BY <1>5, <2>2, <2>3, WorkChanges
  <1>6. ASSUME NEW t \in Requests,
               \/ Commit(t) \/ Rollback(t) \/ Abandon(t) \/ DeadlockVictim(t)
               \/ NotifyPromoted(t)
        PROVE  Planned'
    <2>1. /\ pc'[t] \in {"idle", "notify"} /\ held'[t] = {}
          /\ \A u \in Requests \ {t} : /\ pc'[u] = pc[u] /\ kind'[u] = kind[u]
                                       /\ todo'[u] = todo[u] /\ held'[u] = held[u]
      BY <1>1, <1>6 DEF Commit, Rollback, Abandon, DeadlockVictim, NotifyPromoted, Leave, TypeOK
    <2> QED
      BY <1>3, <2>1
  <1>7. ASSUME NEW k \in Expiring, PurgeScout(k) PROVE Planned'
    BY <1>7 DEF PurgeScout, Planned, InStep, Before
  <1>8. CASE UNCHANGED vars
    BY <1>8 DEF vars, Planned, InStep, Before
  <1> QED
    BY <1>2, <1>4, <1>5, <1>6, <1>7, <1>8 DEF Next

LEMMA PlannedInit == Init => Planned
  BY DEF Init, Planned

-----------------------------------------------------------------------------
(* Requests that lock in id order wait only for requests at a later slot:   *)
(* among finitely many slots no circle of them is closed.                   *)

Later(s) == {n \in Slots : n > s}

\* Of some slots, one is last.
LEMMA LastSlot ==
  ASSUME NEW H \in SUBSET Slots, H # {}
  PROVE  \E m \in H : \A n \in H : ~(m < n)
  <1> DEFINE M == {Later(s) : s \in H}
  <1>1. IsFiniteSet(Slots) /\ Slots \subseteq Nat
    BY SlotsAssumption
  <1>2. M \subseteq SUBSET Slots /\ M # {}
    BY DEF Later
  <1>3. IsWellFoundedOn(StrictSubsetOrdering(Slots), SUBSET Slots)
    BY <1>1, FS_StrictSubsetOrderingWellFounded, FS_FiniteSubsetsOfFinite
  <1> HIDE DEF M
  <1>4. PICK x \in M : \A y \in M : ~(<<y, x>> \in StrictSubsetOrdering(Slots))
    BY <1>2, <1>3, WFMin
  <1>5. PICK m \in H : x = Later(m)
    BY DEF M
  <1>6. ASSUME NEW n \in H, m < n PROVE FALSE
    <2>1. m \in Nat /\ n \in Nat /\ n \in Slots
      BY <1>1
    <2>2. Later(n) \in M
      BY DEF M
    <2>3. \A z \in Slots : z \in Nat
      BY <1>1
    <2>4. Later(n) \subseteq Later(m) /\ n \in Later(m) /\ n \notin Later(n)
      <3>1. ASSUME NEW z \in Later(n) PROVE z \in Later(m)
        <4>1. z \in Slots /\ z \in Nat /\ z > n
          BY <2>3 DEF Later
        <4>2. z > m
          BY <1>6, <2>1, <4>1
        <4> QED
          BY <4>1, <4>2 DEF Later
      <3>2. n > m /\ ~(n > n)
        BY <1>6, <2>1
      <3> QED
        BY <2>1, <3>1, <3>2 DEF Later
    <2>5. Later(n) \in SUBSET Slots /\ Later(m) \in SUBSET Slots /\ Later(n) # Later(m)
      BY <2>4 DEF Later
    <2>6. <<Later(n), Later(m)>> \in StrictSubsetOrdering(Slots)
      BY <2>4, <2>5 DEF StrictSubsetOrdering
    <2> QED
      BY <1>4, <1>5, <2>2, <2>6
  <1> QED
    BY <1>6

LEMMA WaitsLater ==
  ASSUME Booking, Planned, NEW t \in Requests, NEW u \in Requests,
         kind[u] # "import", Waits(t, u), pc[u] = "lock"
  PROVE  Here(t) < Here(u)
  <1>1. Here(t) \in held[u] /\ InStep(u)
    BY DEF Waits, Planned
  <1>2. todo[u] \in Seq(Items) /\ todo[u] # <<>>
    BY DEF Booking, Shape, TypeOK, Busy
  <1>3. Here(u) = todo[u][1].slot /\ Len(todo[u]) \in Nat \ {0}
    BY <1>2, EmptySeq DEF Here, Item
  <1> QED
    BY <1>1, <1>3 DEF InStep, Before

LEMMA NoCircle ==
  ASSUME Booking, Planned
  PROVE  SignupsNeverDeadlock
  <1> SUFFICES ASSUME NEW S \in SUBSET {t \in Requests : kind[t] # "import"}, S # {},
                      \A t \in S : \E u \in S : Waits(t, u)
               PROVE  FALSE
    BY DEF SignupsNeverDeadlock
  <1>1. \A t \in S : t \in Requests /\ kind[t] # "import" /\ pc[t] = "lock"
    BY DEF Waits
  <1> DEFINE H == {Here(t) : t \in S}
  <1>2. \A t \in S : Here(t) \in Slots
    BY <1>1, ItemType DEF Booking
  <1>3. H \in SUBSET Slots /\ H # {}
    BY <1>2
  <1> HIDE DEF H
  <1>4. PICK m \in H : \A n \in H : ~(m < n)
    BY <1>3, LastSlot
  <1>5. PICK t \in S : m = Here(t)
    BY DEF H
  <1>6. PICK u \in S : Waits(t, u)
    OBVIOUS
  <1>7. Here(t) < Here(u)
    BY <1>1, <1>6, WaitsLater
  <1>8. Here(u) \in H
    BY DEF H
  <1> QED
    BY <1>4, <1>5, <1>7, <1>8

\* For any slots, people and concurrent requests, takes, releases and public
\* sign-ups among themselves never wait in a circle: a sign-up claims its slots
\* in id order (public-signup.ts:191).
THEOREM IdOrderPreventsDeadlock == Spec => []SignupsNeverDeadlock
  <1>1. Spec => []Booking
    BY BookingInit, BookingStep, PTL DEF Spec
  <1>2. Booking /\ Planned /\ [Next]_vars => Planned'
    BY PlannedStep
  <1>3. Booking /\ Planned => SignupsNeverDeadlock
    BY NoCircle
  <1> QED
    BY <1>1, <1>2, <1>3, PlannedInit, PTL DEF Spec

-----------------------------------------------------------------------------
(* A promotion is announced once.  A row is named by its slot, its holder   *)
(* and its createdAt.  No two open transactions have the same now(), and a  *)
(* row others can see carries the now() of one that has ended.  So a row,   *)
(* once promoted, is on no waitlist again, committed or drafted, and nobody *)
(* can promote it a second time.                                            *)

OnList(b, r) == b.seat[r[2]] = "waiting" /\ b.since[r[2]] = r[3]

\* No transaction that is open, or begins later, has this now().
Spent(n) == n <= clock /\ \A t \in Requests : began[t] = n => n = 0

Ages ==
    /\ \A t \in Requests : /\ began[t] <= clock
                           /\ began[t] = 0 <=> pc[t] \in {"idle", "notify"}
    /\ \A t, u \in Requests : t # u /\ began[t] = began[u] => began[t] = 0
    /\ \A s \in Slots, k \in Keys : Spent(book[s].since[k])
    /\ \A t \in Requests, s \in Slots, k \in Keys :
          Spent(draft[t][s].since[k]) \/ draft[t][s].since[k] = began[t]

\* The row is off every waitlist for good.
Past(r) ==
    /\ Spent(r[3])
    /\ ~OnList(book[r[1]], r)
    /\ \A u \in Requests : r[1] \in held[u] => ~OnList(draft[u][r[1]], r)

\* Until its promotion is committed, it is off the list of the promoter alone.
Due(t, r) ==
    IF pc[t] = "notify" THEN Past(r)
    ELSE Spent(r[3]) /\ r[1] \in held[t] /\ ~OnList(draft[t][r[1]], r)

Announcing ==
    /\ Ages
    /\ \A r \in told : Past(r)
    /\ \A t \in Requests : \A r \in promoted[t] : Due(t, r)

LEMMA RowParts ==
  ASSUME NEW r \in Rows
  PROVE  r[1] \in Slots /\ r[2] \in Keys /\ r[3] \in Nat
  BY DEF Rows

LEMMA DropRowList ==
  ASSUME NEW b \in Slot, NEW k \in Keys, NEW r \in Rows, OnList(DropRow(b, k), r)
  PROVE  OnList(b, r)
  BY RowParts DEF OnList, DropRow, Slot

LEMMA ChangeList ==
  ASSUME NEW b \in Slot, NEW c \in Slot, NEW P, NEW now \in Nat,
         Adopts(b, c, P) \/ Adds(b, c, P, now) \/ MovesUp(b, c, P),
         NEW r \in Rows, r[3] # now, OnList(c, r)
  PROVE  OnList(b, r)
  <1>1. r[2] \in Keys /\ r[3] \in Nat /\ c.seat[r[2]] = "waiting" /\ c.since[r[2]] = r[3]
    BY RowParts DEF OnList
  <1>2. CASE Adopts(b, c, P)
    BY <1>1, <1>2 DEF Adopts, OnList
  <1>3. CASE Adds(b, c, P, now)
    <2>1. PICK k \in Keys, u \in BOOLEAN :
            b.seat[k] = "none" /\ c = PutRow(b, k, IF Full(b) THEN "waiting" ELSE "active", u, now)
      BY <1>3 DEF Adds
    <2>2. c.since[k] = now
      BY <2>1 DEF PutRow, Slot
    <2>3. r[2] # k
      BY <1>1, <2>2
    <2>4. c.seat[r[2]] = b.seat[r[2]] /\ c.since[r[2]] = b.since[r[2]]
      BY <1>1, <2>1, <2>3 DEF PutRow, Slot
    <2> QED
      BY <1>1, <2>4 DEF OnList
  <1>4. CASE MovesUp(b, c, P)
    <2>1. PICK d \in Slot : Thins(b, d) /\ P \in NextUp(d) /\ c = Promote(d, P)
      BY <1>4 DEF MovesUp
    <2>2. d.seat[r[2]] = "waiting" /\ d.since[r[2]] = r[3]
      BY <1>1, <2>1 DEF Promote, Slot
    <2>3. r[2] \in Waiting(d)
      BY <1>1, <2>2 DEF Waiting
    <2>4. r[2] \in Waiting(b) /\ b.since[r[2]] = d.since[r[2]]
      BY <2>1, <2>3 DEF Thins
    <2> QED
      BY <2>2, <2>4 DEF Waiting, OnList
  <1> QED
    BY <1>2, <1>3, <1>4

\* The rows an item promotes were waiting until then, and wait no more.
LEMMA ChangePromotes ==
  ASSUME NEW b \in Slot, NEW c \in Slot, NEW P, NEW k \in P, NEW now,
         Adopts(b, c, P) \/ Adds(b, c, P, now) \/ MovesUp(b, c, P)
  PROVE  /\ k \in Keys /\ b.seat[k] = "waiting" /\ c.seat[k] = "active"
         /\ c.since[k] = b.since[k]
  <1>1. PICK d \in Slot : Thins(b, d) /\ P \in NextUp(d) /\ c = Promote(d, P)
    BY DEF Adopts, Adds, MovesUp
  <1>2. k \in Waiting(d) /\ k \in Keys
    BY <1>1, PeopleFinite DEF NextUp
  <1>3. k \in Waiting(b) /\ b.since[k] = d.since[k]
    BY <1>1, <1>2 DEF Thins
  <1>4. c.seat[k] = "active" /\ c.since[k] = d.since[k]
    BY <1>1, <1>2 DEF Promote, Slot
  <1> QED
    BY <1>2, <1>3, <1>4 DEF Waiting

\* The stamps of the changed slot: those it had, the transaction's own, or none.
LEMMA ChangeStamps ==
  ASSUME NEW b \in Slot, NEW c \in Slot, NEW P, NEW now \in Nat, NEW m \in Keys,
         Adopts(b, c, P) \/ Adds(b, c, P, now) \/ MovesUp(b, c, P)
  PROVE  c.since[m] \in {b.since[m], now, 0}
  <1>1. CASE Adopts(b, c, P)
    BY <1>1 DEF Adopts
  <1>2. CASE Adds(b, c, P, now)
    <2>1. PICK k \in Keys, u \in BOOLEAN :
            c = PutRow(b, k, IF Full(b) THEN "waiting" ELSE "active", u, now)
      BY <1>2 DEF Adds
    <2>2. c.since[m] = IF m = k THEN now ELSE b.since[m]
      BY <2>1 DEF PutRow, Slot
    <2> QED
      BY <2>2
  <1>3. CASE MovesUp(b, c, P)
    <2>1. PICK d \in Slot : Thins(b, d) /\ P \in NextUp(d) /\ c = Promote(d, P)
      BY <1>3 DEF MovesUp
    <2>2. c.since[m] = d.since[m] /\ d.since[m] \in {0, b.since[m]}
      BY <2>1 DEF Promote, Slot, Thins
    <2> QED
      BY <2>2
  <1> QED
    BY <1>1, <1>2, <1>3

\* A transaction begins with a new now(), or ends, or none does either.
LEMMA ClockStep ==
  ASSUME Booking, [Next]_vars
  PROVE  \/ clock' = clock /\ began' = began
         \/ \E t \in Requests :
               /\ clock' = clock + 1 /\ began' = [began EXCEPT ![t] = clock + 1]
               /\ pc[t] = "idle" /\ pc' = [pc EXCEPT ![t] = "lock"]
               /\ UNCHANGED <<book, held, draft, promoted, told>>
         \/ \E t \in Requests : clock' = clock /\ began' = [began EXCEPT ![t] = 0]
  <1>1. ASSUME NEW t \in Requests, Arrive(t)
        PROVE  /\ clock' = clock + 1 /\ began' = [began EXCEPT ![t] = clock + 1]
               /\ pc[t] = "idle" /\ pc' = [pc EXCEPT ![t] = "lock"]
               /\ UNCHANGED <<book, held, draft, promoted, told>>
    BY <1>1 DEF Arrive, TakeSlot, PublicSignup, ReleaseSlot, ImportEventSlots, Begin
  <1>2. ASSUME NEW t \in Requests, LockSlot(t) \/ Work(t) PROVE clock' = clock /\ began' = began
    <2>1. CASE LockSlot(t)
      BY <2>1 DEF LockSlot
    <2>2. CASE Work(t)
      BY <2>2, WorkChanges DEF Fails, Done
    <2> QED
      BY <1>2, <2>1, <2>2
  <1>3. ASSUME NEW t \in Requests,
               \/ Commit(t) \/ Rollback(t) \/ Abandon(t) \/ DeadlockVictim(t)
               \/ NotifyPromoted(t)
        PROVE  clock' = clock /\ began' = [began EXCEPT ![t] = 0]
    BY <1>3 DEF Commit, Rollback, Abandon, DeadlockVictim, NotifyPromoted, Leave
  <1>4. ASSUME NEW k \in Expiring, PurgeScout(k) PROVE clock' = clock /\ began' = began
    BY <1>4 DEF PurgeScout
  <1>5. CASE UNCHANGED vars
    BY <1>5 DEF vars
  <1> QED
    BY <1>1, <1>2, <1>3, <1>4, <1>5 DEF Next

LEMMA SpentKept ==
  ASSUME Booking, [Next]_vars, NEW n \in Nat, Spent(n)
  PROVE  n <= clock' /\ \A t \in Requests : began'[t] = n => n = 0
  <1>1. clock \in Nat /\ began \in [Requests -> Nat]
    BY DEF Booking, Shape, TypeOK
  <1>2. n <= clock /\ \A t \in Requests : began[t] = n => n = 0
    BY DEF Spent
  <1>3. CASE clock' = clock /\ began' = began
    BY <1>2, <1>3
  <1>4. ASSUME NEW t \in Requests, clock' = clock + 1, began' = [began EXCEPT ![t] = clock + 1]
        PROVE  n <= clock' /\ \A u \in Requests : began'[u] = n => n = 0
    BY <1>1, <1>2, <1>4
  <1>5. ASSUME NEW t \in Requests, clock' = clock, began' = [began EXCEPT ![t] = 0]
        PROVE  n <= clock' /\ \A u \in Requests : began'[u] = n => n = 0
    BY <1>1, <1>2, <1>5
  <1> QED
    BY <1>3, <1>4, <1>5, ClockStep

LEMMA AgesStep ==
  ASSUME Booking, Booking', Ages, [Next]_vars
  PROVE  Ages'
  <1> DEFINE Fine(n) == n <= clock' /\ \A t \in Requests : began'[t] = n => n = 0
  <1>1. TypeOK /\ clock \in Nat /\ began \in [Requests -> Nat]
    BY DEF Booking, Shape, TypeOK
  <1>2. \A n \in Nat : Spent(n) => Fine(n)
    BY SpentKept
  <1>3. \A s \in Slots, k \in Keys : book[s].since[k] \in Nat /\ Fine(book[s].since[k])
    <2>1. \A s \in Slots, k \in Keys : book[s].since[k] \in Nat /\ Spent(book[s].since[k])
      BY <1>1 DEF TypeOK, Slot, Ages
    <2> QED
      BY <1>2, <2>1
  <1>4. \A t \in Requests, s \in Slots, k \in Keys :
           /\ draft[t][s].since[k] \in Nat
           /\ Fine(draft[t][s].since[k]) \/ draft[t][s].since[k] = began[t]
    <2>1. \A t \in Requests, s \in Slots, k \in Keys :
             /\ draft[t][s].since[k] \in Nat
             /\ Spent(draft[t][s].since[k]) \/ draft[t][s].since[k] = began[t]
      BY <1>1 DEF TypeOK, Slot, Ages
    <2> QED
      BY <1>2, <2>1
  <1>5. Fine(0)
    <2>1. clock' \in Nat
      BY DEF Booking, Shape, TypeOK
    <2> QED
      BY <2>1
  <1>6. \A t \in Requests : /\ began[t] \in Nat /\ began[t] <= clock
                            /\ began[t] = 0 <=> pc[t] \in {"idle", "notify"}
    BY <1>1 DEF Ages
  <1>7. \A t, u \in Requests : t # u /\ began[t] = began[u] => began[t] = 0
    BY DEF Ages
  <1>8. \A s \in Slots, k \in Keys : EmptySlot(s).since[k] = 0
    BY DEF EmptySlot
  \* What each kind of step has to show.
  <1>9. ASSUME \A t \in Requests : /\ began'[t] <= clock'
                                   /\ began'[t] = 0 <=> pc'[t] \in {"idle", "notify"},
               \A t, u \in Requests : t # u /\ began'[t] = began'[u] => began'[t] = 0,
               \A s \in Slots, k \in Keys : Fine(book'[s].since[k]),
               \A t \in Requests, s \in Slots, k \in Keys :
                  Fine(draft'[t][s].since[k]) \/ draft'[t][s].since[k] = began'[t]
        PROVE  Ages'
    BY <1>9 DEF Ages, Spent
  <1>10. ASSUME clock' = clock, began' = began,
                \A t \in Requests : pc'[t] \in {"idle", "notify"} <=> pc[t] \in {"idle", "notify"},
                \A s \in Slots, k \in Keys : book'[s].since[k] \in {book[s].since[k], 0},
                \A t \in Requests, s \in Slots, k \in Keys :
                   draft'[t][s].since[k]
                      \in {draft[t][s].since[k], book[s].since[k], began[t], 0}
         PROVE  Ages'
    <2>1. \A t \in Requests : /\ began'[t] <= clock'
                              /\ began'[t] = 0 <=> pc'[t] \in {"idle", "notify"}
      BY <1>6, <1>10
    <2>2. \A s \in Slots, k \in Keys : Fine(book'[s].since[k])
      BY <1>3, <1>5, <1>10
    <2>3. \A t \in Requests, s \in Slots, k \in Keys :
             Fine(draft'[t][s].since[k]) \/ draft'[t][s].since[k] = began'[t]
      <3> HIDE DEF Fine
      <3> QED
        BY <1>3, <1>4, <1>5, <1>10
    <2> QED
      BY <1>7, <1>9, <1>10, <2>1, <2>2, <2>3
  <1>11. ASSUME NEW t \in Requests, clock' = clock, began' = [began EXCEPT ![t] = 0],
                pc'[t] \in {"idle", "notify"},
                \A u \in Requests \ {t} : pc'[u] = pc[u] /\ draft'[u] = draft[u],
                \A s \in Slots : draft'[t][s] = EmptySlot(s),
                \A s \in Slots : book'[s] \in {book[s], draft[t][s]}
         PROVE  Ages'
    <2>1. began'[t] = 0 /\ \A u \in Requests \ {t} : began'[u] = began[u]
      BY <1>1, <1>11
    <2>2. Fine(began[t])
      BY <1>6, <1>7, <1>11, <2>1
    <2>3. \A u \in Requests : /\ began'[u] <= clock'
                              /\ began'[u] = 0 <=> pc'[u] \in {"idle", "notify"}
      BY <1>1, <1>6, <1>11, <2>1
    <2>4. \A u, w \in Requests : u # w /\ began'[u] = began'[w] => began'[u] = 0
      BY <1>7, <2>1
    <2> HIDE DEF Fine
    <2>5. \A s \in Slots, k \in Keys : Fine(book'[s].since[k])
      BY <1>3, <1>4, <1>11, <2>2
    <2>6. ASSUME NEW u \in Requests, NEW s \in Slots, NEW k \in Keys
          PROVE  Fine(draft'[u][s].since[k]) \/ draft'[u][s].since[k] = began'[u]
      <3>1. CASE u = t
        BY <1>5, <1>8, <1>11, <3>1
      <3>2. CASE u # t
        BY <1>4, <1>11, <2>1, <3>2
      <3> QED
        BY <3>1, <3>2
    <2> QED
      BY <1>9, <2>3, <2>4, <2>5, <2>6
  <1>12. ASSUME NEW t \in Requests, Arrive(t) PROVE Ages'
    <2>1. PICK what, items : Begin(t, what, items)
      BY <1>12 DEF Arrive, TakeSlot, PublicSignup, ReleaseSlot, ImportEventSlots
    <2>2. /\ clock' = clock + 1 /\ began'[t] = clock + 1 /\ pc[t] = "idle" /\ pc'[t] = "lock"
          /\ UNCHANGED <<book, draft>>
          /\ \A u \in Requests \ {t} : began'[u] = began[u] /\ pc'[u] = pc[u]
      BY <1>1, <2>1 DEF Begin, TypeOK
    <2>3. \A u \in Requests : /\ began'[u] <= clock'
                              /\ began'[u] = 0 <=> pc'[u] \in {"idle", "notify"}
      BY <1>1, <1>6, <2>2
    <2>4. \A u, w \in Requests : u # w /\ began'[u] = began'[w] => began'[u] = 0
      <3>1. \A u \in Requests \ {t} : began'[u] # began'[t]
        BY <1>1, <1>6, <2>2
      <3> QED
        BY <1>7, <2>2, <3>1
    <2>5. began[t] = 0
      BY <1>6, <2>2
    <2> HIDE DEF Fine
    <2>6. \A s \in Slots, k \in Keys : Fine(book'[s].since[k])
      BY <1>3, <2>2
    <2>7. \A u \in Requests, s \in Slots, k \in Keys :
             Fine(draft'[u][s].since[k]) \/ draft'[u][s].since[k] = began'[u]
      BY <1>4, <1>5, <2>2, <2>5
    <2> QED
      BY <1>9, <2>3, <2>4, <2>6, <2>7
  <1>13. ASSUME NEW t \in Requests, LockSlot(t) PROVE Ages'
    <2>1. Here(t) \in Slots
      BY <1>13, ItemType DEF LockSlot, Booking
    <2>2. /\ UNCHANGED <<clock, began, book>> /\ draft'[t][Here(t)] = book[Here(t)]
          /\ \A s \in Slots \ {Here(t)} : draft'[t][s] = draft[t][s]
          /\ \A u \in Requests \ {t} : draft'[u] = draft[u] /\ pc'[u] = pc[u]
          /\ pc[t] = "lock" /\ pc'[t] = "work"
      BY <1>1, <1>13, <2>1 DEF LockSlot, TypeOK
    <2>3. \A u \in Requests, s \in Slots, k \in Keys :
             draft'[u][s].since[k] \in {draft[u][s].since[k], book[s].since[k], began[u], 0}
      BY <2>2
    <2> QED
      BY <1>10, <2>2, <2>3
  <1>14. ASSUME NEW t \in Requests, Work(t) PROVE Ages'
    <2>1. pc[t] = "work"
      BY <1>14 DEF Work
    <2>2. ASSUME NEW how \in {"full", "clash"}, Fails(t, how) PROVE Ages'
      <3>1. /\ UNCHANGED <<clock, began, book, draft>> /\ pc'[t] = how
            /\ \A u \in Requests \ {t} : pc'[u] = pc[u]
        BY <1>1, <2>2 DEF Fails, TypeOK
      <3> QED
        BY <1>10, <2>1, <3>1
    <2>3. ASSUME NEW c \in Slot, NEW P \in SUBSET Keys, Done(t, c, P),
                 \/ Adopts(book[Here(t)], c, P) \/ Adds(book[Here(t)], c, P, began[t])
                 \/ MovesUp(book[Here(t)], c, P)
          PROVE  Ages'
      <3>1. /\ Here(t) \in Slots /\ book' = book
            /\ draft'[t][Here(t)] = c
            /\ \A s \in Slots \ {Here(t)} : draft'[t][s] = draft[t][s]
            /\ \A u \in Requests \ {t} : draft'[u] = draft[u] /\ pc'[u] = pc[u]
            /\ pc'[t] \in {"lock", "commit"}
        BY <2>1, <2>3, DoneFrame
      <3>2. clock' = clock /\ began' = began
        BY <2>3 DEF Done
      <3>3. book[Here(t)] \in Slot /\ began[t] \in Nat
        BY <1>1, <3>1 DEF TypeOK
      <3>4. \A k \in Keys : c.since[k] \in {book[Here(t)].since[k], began[t], 0}
        BY <2>3, <3>3, ChangeStamps
      <3>5. \A u \in Requests, s \in Slots, k \in Keys :
               draft'[u][s].since[k] \in {draft[u][s].since[k], book[s].since[k], began[u], 0}
        BY <3>1, <3>4
      <3> QED
        BY <1>10, <2>1, <3>1, <3>2, <3>5
    <2> QED
      BY <1>14, <2>2, <2>3, WorkChanges
  <1>15. ASSUME NEW t \in Requests, Commit(t) PROVE Ages'
    <2>1. \A s \in Slots : book'[s] \in {book[s], draft[t][s]}
      BY <1>15 DEF Commit
    <2>2. /\ clock' = clock /\ began' = [began EXCEPT ![t] = 0] /\ pc'[t] = "notify"
          /\ \A u \in Requests \ {t} : pc'[u] = pc[u] /\ draft'[u] = draft[u]
          /\ \A s \in Slots : draft'[t][s] = EmptySlot(s)
      BY <1>1, <1>15 DEF Commit, TypeOK
    <2> QED
      BY <1>11, <2>1, <2>2
  <1>16. ASSUME NEW t \in Requests,
                Rollback(t) \/ Abandon(t) \/ DeadlockVictim(t) \/ NotifyPromoted(t)
         PROVE  Ages'
    <2>1. Leave(t) /\ book' = book
      BY <1>16 DEF Rollback, Abandon, DeadlockVictim, NotifyPromoted
    <2>2. /\ clock' = clock /\ began' = [began EXCEPT ![t] = 0] /\ pc'[t] = "idle"
          /\ \A u \in Requests \ {t} : pc'[u] = pc[u] /\ draft'[u] = draft[u]
          /\ \A s \in Slots : draft'[t][s] = EmptySlot(s)
      BY <1>1, <2>1 DEF Leave, TypeOK
    <2> QED
      BY <1>11, <2>1, <2>2
  <1>17. ASSUME NEW k \in Expiring, PurgeScout(k) PROVE Ages'
    <2>1. k \in Keys /\ UNCHANGED <<clock, began, pc>>
      BY <1>17, SlotsAssumption DEF PurgeScout
    <2>2. ASSUME NEW b \in Slot, NEW m \in Keys
          PROVE  DropRow(b, k).since[m] \in {b.since[m], 0}
      BY <2>1 DEF DropRow, Slot
    <2>3. ASSUME NEW s \in Slots, NEW m \in Keys
          PROVE  book'[s].since[m] \in {book[s].since[m], 0}
      <3>1. book[s] \in Slot
        BY <1>1 DEF TypeOK
      <3>2. book'[s] = book[s] \/ book'[s] = DropRow(book[s], k)
        BY <1>17 DEF PurgeScout
      <3> QED
        BY <2>2, <3>1, <3>2
    <2>4. ASSUME NEW u \in Requests, NEW s \in Slots, NEW m \in Keys
          PROVE  draft'[u][s].since[m]
                    \in {draft[u][s].since[m], book[s].since[m], began[u], 0}
      <3>1. draft[u][s] \in Slot
        BY <1>1 DEF TypeOK
      <3>2. draft'[u][s] = draft[u][s] \/ draft'[u][s] = DropRow(draft[u][s], k)
        BY <1>17 DEF PurgeScout
      <3> QED
        BY <2>2, <3>1, <3>2
    <2> QED
      BY <1>10, <2>1, <2>3, <2>4
  <1>18. CASE UNCHANGED vars
    BY <1>10, <1>18 DEF vars
  <1> QED
    BY <1>12, <1>13, <1>14, <1>15, <1>16, <1>17, <1>18 DEF Next

\* A row whose now() is spent comes on a list, committed or drafted, only from
\* a list it is on already.
LEMMA NoReturn ==
  ASSUME Booking, Ages, [Next]_vars, NEW r \in Rows, Spent(r[3])
  PROVE  /\ OnList(book'[r[1]], r) =>
               \/ OnList(book[r[1]], r)
               \/ \E u \in Requests : r[1] \in held[u] /\ OnList(draft[u][r[1]], r)
         /\ \A u \in Requests : r[1] \in held'[u] /\ OnList(draft'[u][r[1]], r) =>
               \/ OnList(book[r[1]], r)
               \/ r[1] \in held[u] /\ OnList(draft[u][r[1]], r)
  <1> DEFINE s == r[1]
             Goal == /\ OnList(book'[s], r) =>
                          \/ OnList(book[s], r)
                          \/ \E u \in Requests : s \in held[u] /\ OnList(draft[u][s], r)
                     /\ \A u \in Requests : s \in held'[u] /\ OnList(draft'[u][s], r) =>
                          OnList(book[s], r) \/ (s \in held[u] /\ OnList(draft[u][s], r))
  <1> HIDE DEF OnList
  <1>1. TypeOK /\ s \in Slots
    BY RowParts DEF Booking, Shape
  <1>2. ASSUME UNCHANGED <<book, held, draft>> PROVE Goal
    BY <1>2
  <1>3. ASSUME NEW t \in Requests, Arrive(t) PROVE Goal
    BY <1>2, <1>3 DEF Arrive, TakeSlot, PublicSignup, ReleaseSlot, ImportEventSlots, Begin
  <1>4. ASSUME NEW t \in Requests, LockSlot(t) PROVE Goal
    <2>1. Here(t) \in Slots
      BY <1>4, ItemType DEF LockSlot, Booking
    <2>2. /\ book' = book /\ held'[t] = held[t] \cup {Here(t)}
          /\ draft'[t][Here(t)] = book[Here(t)]
          /\ \A h \in Slots \ {Here(t)} : draft'[t][h] = draft[t][h]
          /\ \A u \in Requests \ {t} : held'[u] = held[u] /\ draft'[u] = draft[u]
      BY <1>1, <1>4, <2>1 DEF LockSlot, TypeOK
    <2>3. ASSUME NEW u \in Requests, s \in held'[u], OnList(draft'[u][s], r)
          PROVE  OnList(book[s], r) \/ (s \in held[u] /\ OnList(draft[u][s], r))
      <3>1. CASE u # t
        BY <2>2, <2>3, <3>1
      <3>2. CASE u = t /\ s = Here(t)
        <4>1. draft'[u][s] = book[s]
          BY <2>2, <3>2
        <4> QED
          BY <2>3, <4>1
      <3>3. CASE u = t /\ s # Here(t)
        BY <1>1, <2>2, <2>3, <3>3
      <3> QED
        BY <3>1, <3>2, <3>3
    <2> QED
      BY <2>2, <2>3
  <1>5. ASSUME NEW t \in Requests, Work(t) PROVE Goal
    <2>1. CASE \E how \in {"full", "clash"} : Fails(t, how)
      BY <1>2, <2>1 DEF Fails
    <2>2. ASSUME NEW c \in Slot, NEW P \in SUBSET Keys, Done(t, c, P),
                 \/ Adopts(book[Here(t)], c, P) \/ Adds(book[Here(t)], c, P, began[t])
                 \/ MovesUp(book[Here(t)], c, P)
          PROVE  Goal
      <3>1. pc[t] = "work"
        BY <1>5 DEF Work
      <3>2. /\ Here(t) \in Slots /\ book' = book /\ held' = held
            /\ draft'[t][Here(t)] = c
            /\ \A h \in Slots \ {Here(t)} : draft'[t][h] = draft[t][h]
            /\ \A u \in Requests \ {t} : draft'[u] = draft[u]
        BY <2>2, <3>1, DoneFrame
      <3>3. book[Here(t)] \in Slot /\ began[t] \in Nat
        BY <1>1, <3>2 DEF TypeOK
      <3>4. r[3] # began[t]
        BY <3>1, <3>3 DEF Ages, Spent
      <3>7. OnList(c, r) => OnList(book[Here(t)], r)
        BY <2>2, <3>3, <3>4, ChangeList
      <3>5. ASSUME NEW u \in Requests, s \in held[u], OnList(draft'[u][s], r)
            PROVE  OnList(book[s], r) \/ OnList(draft[u][s], r)
        <4>1. CASE u # t
          BY <3>2, <3>5, <4>1
        <4>2. CASE u = t /\ s = Here(t)
          BY <3>2, <3>7, <3>5, <4>2
        <4>3. CASE u = t /\ s # Here(t)
          BY <1>1, <3>2, <3>5, <4>3
        <4> QED
          BY <4>1, <4>2, <4>3
      <3>6. \A u \in Requests : s \in held'[u] /\ OnList(draft'[u][s], r) =>
                OnList(book[s], r) \/ (s \in held[u] /\ OnList(draft[u][s], r))
        BY <3>2, <3>5
      <3>8. OnList(book'[s], r) => OnList(book[s], r)
        BY <3>2
      <3> QED
        BY <3>6, <3>8
    <2> QED
      BY <1>5, <2>1, <2>2, WorkChanges
  <1>6. ASSUME NEW t \in Requests, Commit(t) PROVE Goal
    <2>1. book'[s] = IF s \in held[t] THEN draft[t][s] ELSE book[s]
      BY <1>1, <1>6 DEF Commit
    <2>2. held'[t] = {} /\ \A u \in Requests \ {t} : held'[u] = held[u] /\ draft'[u] = draft[u]
      BY <1>1, <1>6 DEF Commit, TypeOK
    <2> QED
      BY <2>1, <2>2
  <1>7. ASSUME NEW t \in Requests,
               Rollback(t) \/ Abandon(t) \/ DeadlockVictim(t) \/ NotifyPromoted(t)
        PROVE  Goal
    <2>1. Leave(t) /\ book' = book
      BY <1>7 DEF Rollback, Abandon, DeadlockVictim, NotifyPromoted
    <2>2. held'[t] = {} /\ \A u \in Requests \ {t} : held'[u] = held[u] /\ draft'[u] = draft[u]
      BY <1>1, <2>1 DEF Leave, TypeOK
    <2> QED
      BY <2>1, <2>2
  <1>8. ASSUME NEW k \in Expiring, PurgeScout(k) PROVE Goal
    <2>1. k \in Keys /\ held' = held
      BY <1>8, SlotsAssumption DEF PurgeScout
    <2>2. book'[s] = book[s] \/ book'[s] = DropRow(book[s], k)
      BY <1>1, <1>8 DEF PurgeScout
    <2>3. \A u \in Requests :
             draft'[u][s] = draft[u][s] \/ draft'[u][s] = DropRow(draft[u][s], k)
      BY <1>1, <1>8 DEF PurgeScout
    <2>4. book[s] \in Slot /\ \A u \in Requests : draft[u][s] \in Slot
      BY <1>1 DEF TypeOK
    <2>5. OnList(book'[s], r) => OnList(book[s], r)
      BY <2>1, <2>2, <2>4, DropRowList
    <2>6. \A u \in Requests : OnList(draft'[u][s], r) => OnList(draft[u][s], r)
      BY <2>1, <2>3, <2>4, DropRowList
    <2> QED
      BY <2>1, <2>5, <2>6
  <1>9. CASE UNCHANGED vars
    BY <1>2, <1>9 DEF vars
  <1> QED
    BY <1>3, <1>4, <1>5, <1>6, <1>7, <1>8, <1>9 DEF Next

LEMMA PastKept ==
  ASSUME Booking, Ages, [Next]_vars, NEW r \in Rows, Past(r)
  PROVE  Past(r)'
  <1>1. Spent(r[3])'
    BY RowParts, SpentKept DEF Past, Spent
  <1>2. /\ ~OnList(book[r[1]], r) /\ Spent(r[3])
        /\ \A u \in Requests : r[1] \in held[u] => ~OnList(draft[u][r[1]], r)
    BY DEF Past
  <1>3. /\ ~OnList(book'[r[1]], r)
        /\ \A u \in Requests : r[1] \in held'[u] => ~OnList(draft'[u][r[1]], r)
    BY <1>2, NoReturn, Zenon
  <1> QED
    BY <1>1, <1>3 DEF Past, OnList

LEMMA DueKept ==
  ASSUME Booking, Planned, Ages, [Next]_vars, NEW t \in Requests, NEW r \in Rows,
         Due(t, r), r \in promoted'[t]
  PROVE  Due(t, r)'
  <1>1. TypeOK /\ r[1] \in Slots /\ r[3] \in Nat
    BY RowParts DEF Booking, Shape, TypeOK
  <1>2. CASE pc[t] = "notify" /\ pc'[t] = "notify"
    BY <1>2, PastKept DEF Due
  <1>3. ASSUME pc[t] # "notify", pc'[t] # "notify", held[t] \subseteq held'[t],
               OnList(draft'[t][r[1]], r) => OnList(draft[t][r[1]], r)
        PROVE  Due(t, r)'
    <2>1. Spent(r[3]) /\ r[1] \in held[t] /\ ~OnList(draft[t][r[1]], r)
      BY <1>3 DEF Due
    <2>2. Spent(r[3])'
      BY <1>1, <2>1, SpentKept DEF Spent
    <2>3. r[1] \in held'[t] /\ ~OnList(draft'[t][r[1]], r)
      BY <1>3, <2>1
    <2> QED
      BY <1>3, <2>2, <2>3 DEF Due, OnList
  <1>4. ASSUME pc'[t] = pc[t], held'[t] = held[t],
               OnList(draft'[t][r[1]], r) => OnList(draft[t][r[1]], r)
        PROVE  Due(t, r)'
    BY <1>2, <1>3, <1>4
  <1>5. ASSUME NEW u \in Requests, Arrive(u) PROVE Due(t, r)'
    <2>1. PICK what, items : Begin(u, what, items)
      BY <1>5 DEF Arrive, TakeSlot, PublicSignup, ReleaseSlot, ImportEventSlots
    <2>2. UNCHANGED <<held, draft>> /\ pc[u] = "idle" /\ (u # t => pc'[t] = pc[t])
      BY <1>1, <2>1 DEF Begin, TypeOK
    <2>3. u # t
      BY <2>2 DEF Due, Planned
    <2> QED
      BY <1>4, <2>2, <2>3
  <1>6. ASSUME NEW u \in Requests, LockSlot(u) PROVE Due(t, r)'
    <2>1. Here(u) \in Slots
      BY <1>6, ItemType DEF LockSlot, Booking
    <2>2. CASE u # t
      <3>1. pc'[t] = pc[t] /\ held'[t] = held[t] /\ draft'[t] = draft[t]
        BY <1>1, <1>6, <2>2 DEF LockSlot, TypeOK
      <3> QED
        BY <1>4, <3>1
    <2>3. CASE u = t
      <3>1. /\ pc[t] = "lock" /\ pc'[t] = "work" /\ held[t] \subseteq held'[t]
            /\ \A s \in Slots \ {Here(t)} : draft'[t][s] = draft[t][s]
        BY <1>1, <1>6, <2>3 DEF LockSlot, TypeOK
      <3>2. todo[t] \in Seq(Items) /\ todo[t] # <<>>
        BY <3>1 DEF Booking, Shape, TypeOK, Busy
      <3>3. Here(t) = todo[t][1].slot /\ Len(todo[t]) \in Nat \ {0}
        BY <3>2, EmptySeq DEF Here, Item
      <3>4. Here(t) \notin held[t]
        BY <3>1, <3>3 DEF Planned, InStep, Before
      <3>5. r[1] # Here(t)
        BY <3>1, <3>4 DEF Due
      <3>6. draft'[t][r[1]] = draft[t][r[1]]
        BY <1>1, <3>1, <3>5
      <3> QED
        BY <1>3, <3>1, <3>6
    <2> QED
      BY <2>2, <2>3
  <1>7. ASSUME NEW u \in Requests, Work(u) PROVE Due(t, r)'
    <2>1. pc[u] = "work"
      BY <1>7 DEF Work
    <2>2. CASE \E how \in {"full", "clash"} : Fails(u, how)
      <3>1. held' = held /\ draft' = draft
            /\ (pc'[t] = pc[t] \/ (pc[t] = "work" /\ pc'[t] \in {"full", "clash"}))
        BY <1>1, <2>1, <2>2 DEF Fails, TypeOK
      <3> QED
        BY <1>3, <1>4, <3>1
    <2>3. ASSUME NEW c \in Slot, NEW P \in SUBSET Keys, Done(u, c, P),
                 \/ Adopts(book[Here(u)], c, P) \/ Adds(book[Here(u)], c, P, began[u])
                 \/ MovesUp(book[Here(u)], c, P)
          PROVE  Due(t, r)'
      <3>1. /\ Here(u) \in held[u] /\ Here(u) \in Slots /\ held' = held
            /\ draft'[u][Here(u)] = c
            /\ \A s \in Slots \ {Here(u)} : draft'[u][s] = draft[u][s]
            /\ \A w \in Requests \ {u} : draft'[w] = draft[w] /\ pc'[w] = pc[w]
            /\ pc'[u] \in {"lock", "commit"}
        BY <2>1, <2>3, DoneFrame
      <3>2. CASE u # t
        BY <1>4, <3>1, <3>2
      <3>3. CASE u = t /\ r[1] # Here(u)
        <4>1. draft'[t][r[1]] = draft[t][r[1]]
          BY <1>1, <3>1, <3>3
        <4> QED
          BY <1>3, <2>1, <3>1, <3>3, <4>1
      <3>4. CASE u = t /\ r[1] = Here(u)
        <4>1. draft[t][r[1]] = book[r[1]] /\ book[r[1]] \in Slot
          BY <1>1, <2>1, <3>4 DEF Booking, WorksOnHeld, TypeOK
        <4>2. r[3] # began[t] /\ began[t] \in Nat
          BY <1>1, <2>1, <3>4 DEF Due, Ages, Spent, TypeOK
        <4>3. OnList(c, r) => OnList(book[r[1]], r)
          BY <1>1, <2>3, <3>4, <4>1, <4>2, ChangeList
        <4>4. draft'[t][r[1]] = c
          BY <3>1, <3>4
        <4> QED
          BY <1>3, <2>1, <3>1, <3>4, <4>1, <4>3, <4>4
      <3> QED
        BY <3>2, <3>3, <3>4
    <2> QED
      BY <1>7, <2>2, <2>3, WorkChanges
  <1>8. ASSUME NEW u \in Requests, Commit(u) PROVE Due(t, r)'
    <2>1. CASE u # t
      <3>1. pc'[t] = pc[t] /\ held'[t] = held[t] /\ draft'[t] = draft[t]
        BY <1>1, <1>8, <2>1 DEF Commit, TypeOK
      <3> QED
        BY <1>4, <3>1
    <2>2. CASE u = t
      <3>1. /\ pc[t] = "commit" /\ pc'[t] = "notify" /\ held'[t] = {}
            /\ \A s \in held[t] \cap Slots : book'[s] = draft[t][s]
            /\ \A w \in Requests \ {t} : held'[w] = held[w]
        BY <1>1, <1>8, <2>2 DEF Commit, TypeOK
      <3>2. Spent(r[3]) /\ r[1] \in held[t] /\ ~OnList(draft[t][r[1]], r)
        BY <3>1 DEF Due
      <3>5. Spent(r[3])'
        BY <1>1, <3>2, SpentKept DEF Spent
      <3>3. ~OnList(book'[r[1]], r)
        BY <1>1, <3>1, <3>2
      <3>4. \A w \in Requests : r[1] \notin held'[w]
        BY <3>1, <3>2 DEF Booking, Locks
      <3> QED
        BY <3>1, <3>3, <3>4, <3>5 DEF Due, Past, OnList
    <2> QED
      BY <2>1, <2>2
  <1>9. ASSUME NEW u \in Requests,
               Rollback(u) \/ Abandon(u) \/ DeadlockVictim(u) \/ NotifyPromoted(u)
        PROVE  Due(t, r)'
    <2>1. Leave(u)
      BY <1>9 DEF Rollback, Abandon, DeadlockVictim, NotifyPromoted
    <2>2. u # t
      BY <1>1, <2>1 DEF Leave, TypeOK
    <2>3. pc'[t] = pc[t] /\ held'[t] = held[t] /\ draft'[t] = draft[t]
      BY <1>1, <2>1, <2>2 DEF Leave, TypeOK
    <2> QED
      BY <1>4, <2>3
  <1>10. ASSUME NEW k \in Expiring, PurgeScout(k) PROVE Due(t, r)'
    <2>1. k \in Keys /\ UNCHANGED <<pc, held>>
      BY <1>10, SlotsAssumption DEF PurgeScout
    <2>2. draft'[t][r[1]] = draft[t][r[1]] \/ draft'[t][r[1]] = DropRow(draft[t][r[1]], k)
      BY <1>1, <1>10 DEF PurgeScout
    <2>3. draft[t][r[1]] \in Slot
      BY <1>1 DEF TypeOK
    <2>4. OnList(draft'[t][r[1]], r) => OnList(draft[t][r[1]], r)
      BY <2>1, <2>2, <2>3, DropRowList
    <2> QED
      BY <1>4, <2>1, <2>4
  <1>11. CASE UNCHANGED vars
    BY <1>4, <1>11 DEF vars
  <1> QED
    BY <1>5, <1>6, <1>7, <1>8, <1>9, <1>10, <1>11 DEF Next

\* Rows are promoted by an item of work, and told or forgotten at the end.
LEMMA PromotionsMove ==
  ASSUME Booking, [Next]_vars
  PROVE  \/ UNCHANGED <<promoted, told>>
         \/ \E t \in Requests, c \in Slot, P \in SUBSET Keys :
               /\ pc[t] = "work" /\ Done(t, c, P)
               /\ \/ Adopts(book[Here(t)], c, P) \/ Adds(book[Here(t)], c, P, began[t])
                  \/ MovesUp(book[Here(t)], c, P)
         \/ \E t \in Requests :
               /\ promoted' = [promoted EXCEPT ![t] = {}]
               /\ \/ told' = told
                  \/ /\ pc[t] = "notify"
                     /\ told' = told \cup {r \in promoted[t] : StillSeated(r) /\ r[2] \in Mailable}
  <1>1. ASSUME NEW t \in Requests, Arrive(t) PROVE UNCHANGED <<promoted, told>>
    BY <1>1 DEF Arrive, TakeSlot, PublicSignup, ReleaseSlot, ImportEventSlots, Begin
  <1>2. ASSUME NEW t \in Requests, LockSlot(t) \/ Commit(t) PROVE UNCHANGED <<promoted, told>>
    BY <1>2 DEF LockSlot, Commit
  <1>3. ASSUME NEW k \in Expiring, PurgeScout(k) PROVE UNCHANGED <<promoted, told>>
    BY <1>3 DEF PurgeScout
  <1>4. ASSUME NEW t \in Requests, Work(t)
        PROVE  \/ UNCHANGED <<promoted, told>>
               \/ \E c \in Slot, P \in SUBSET Keys :
                     /\ pc[t] = "work" /\ Done(t, c, P)
                     /\ \/ Adopts(book[Here(t)], c, P) \/ Adds(book[Here(t)], c, P, began[t])
                        \/ MovesUp(book[Here(t)], c, P)
    <2>1. pc[t] = "work"
      BY <1>4 DEF Work
    <2>2. CASE \E how \in {"full", "clash"} : Fails(t, how)
      BY <2>2 DEF Fails
    <2>3. CASE \E c \in Slot, P \in SUBSET Keys :
                  /\ Done(t, c, P)
                  /\ \/ Adopts(book[Here(t)], c, P)
                     \/ Adds(book[Here(t)], c, P, began[t])
                     \/ MovesUp(book[Here(t)], c, P)
      BY <2>1, <2>3
    <2> QED
      BY <1>4, <2>2, <2>3, WorkChanges
  <1>5. ASSUME NEW t \in Requests,
               Rollback(t) \/ Abandon(t) \/ DeadlockVictim(t) \/ NotifyPromoted(t)
        PROVE  /\ promoted' = [promoted EXCEPT ![t] = {}]
               /\ \/ told' = told
                  \/ /\ pc[t] = "notify"
                     /\ told' = told \cup {r \in promoted[t] : StillSeated(r) /\ r[2] \in Mailable}
    BY <1>5 DEF Rollback, Abandon, DeadlockVictim, NotifyPromoted, Leave
  <1>6. CASE UNCHANGED vars
    BY <1>6 DEF vars
  <1> QED
    BY <1>1, <1>2, <1>3, <1>4, <1>5, <1>6 DEF Next

LEMMA AnnouncingStep ==
  ASSUME Booking, Booking', Planned, Announcing, [Next]_vars
  PROVE  Announcing'
  <1>1. /\ promoted \in [Requests -> SUBSET Rows] /\ told \in SUBSET Rows
        /\ promoted' \in [Requests -> SUBSET Rows] /\ Ages
    BY DEF Booking, Shape, TypeOK, Announcing
  <1>2. Ages'
    BY <1>1, AgesStep
  <1>3. ASSUME NEW r \in told' PROVE Past(r)'
    <2>1. r \in told \/ \E t \in Requests : r \in promoted[t] /\ pc[t] = "notify"
      BY <1>3, PromotionsMove DEF Done
    <2>2. r \in Rows /\ Past(r)
      BY <1>1, <2>1 DEF Announcing, Due
    <2> QED
      BY <1>1, <2>2, PastKept
  <1>4. ASSUME NEW t \in Requests, NEW r \in promoted'[t] PROVE Due(t, r)'
    <2>1. r \in Rows
      BY <1>1
    <2>2. CASE r \in promoted[t]
      BY <1>1, <2>1, <2>2, DueKept DEF Announcing
    <2>3. CASE r \notin promoted[t]
      <3>1. promoted' # promoted
            /\ ~\E u \in Requests : promoted' = [promoted EXCEPT ![u] = {}]
        BY <1>1, <2>3
      <3>2. PICK u \in Requests, c \in Slot, P \in SUBSET Keys :
               /\ pc[u] = "work" /\ Done(u, c, P)
               /\ \/ Adopts(book[Here(u)], c, P) \/ Adds(book[Here(u)], c, P, began[u])
                  \/ MovesUp(book[Here(u)], c, P)
        BY <3>1, PromotionsMove
      <3>3. /\ Here(u) \in held[u] /\ Here(u) \in Slots /\ held' = held
            /\ draft'[u][Here(u)] = c
            /\ \A w \in Requests \ {u} : promoted'[w] = promoted[w]
            /\ promoted'[u] = promoted[u] \cup {<<Here(u), k, c.since[k]>> : k \in P}
            /\ pc'[u] \in {"lock", "commit"}
        BY <3>2, DoneFrame
      <3>4. u = t
        BY <2>3, <3>3
      <3>5. PICK k \in P : r = <<Here(t), k, c.since[k]>>
        BY <2>3, <3>3, <3>4
      <3>6. book[Here(u)] \in Slot
        BY <3>3 DEF Booking, Shape, TypeOK
      <3>7. k \in Keys /\ c.seat[k] = "active" /\ c.since[k] = book[Here(u)].since[k]
        BY <3>2, <3>6, ChangePromotes
      <3>8. r[1] = Here(t) /\ r[2] = k /\ r[3] = c.since[k]
        BY <3>5
      <3>9. Spent(r[3])'
        <4>1. r[3] \in Nat /\ Spent(r[3])
          BY <1>1, <2>1, <3>3, <3>7, <3>8, RowParts DEF Ages
        <4> QED
          BY <4>1, SpentKept DEF Spent
      <3>10. ~OnList(draft'[t][r[1]], r)
        BY <3>3, <3>4, <3>7, <3>8 DEF OnList
      <3> QED
        BY <3>3, <3>4, <3>8, <3>9, <3>10 DEF Due, OnList
    <2> QED
      BY <2>2, <2>3
  <1> QED
    BY <1>2, <1>3, <1>4 DEF Announcing

LEMMA AnnouncedStep ==
  ASSUME Booking, Announcing, AnnouncedOnce, [Next]_vars
  PROVE  AnnouncedOnce'
  <1>1. promoted \in [Requests -> SUBSET Rows]
    BY DEF Booking, Shape, TypeOK
  <1>2. /\ \A t \in Requests : promoted[t] \cap told = {}
        /\ \A t, u \in Requests : t # u => promoted[t] \cap promoted[u] = {}
    BY DEF AnnouncedOnce
  <1>3. ASSUME \A t \in Requests : promoted'[t] \cap told' = {},
               \A t, u \in Requests : t # u => promoted'[t] \cap promoted'[u] = {}
        PROVE  AnnouncedOnce'
    BY <1>3 DEF AnnouncedOnce
  <1>4. CASE UNCHANGED <<promoted, told>>
    BY <1>2, <1>3, <1>4
  <1>5. ASSUME NEW t \in Requests, promoted' = [promoted EXCEPT ![t] = {}],
               told \subseteq told', told' \subseteq told \cup promoted[t]
        PROVE  AnnouncedOnce'
    <2>1. promoted'[t] = {} /\ \A u \in Requests \ {t} : promoted'[u] = promoted[u]
      BY <1>1, <1>5
    <2>2. \A u \in Requests : promoted'[u] \cap told' = {}
      BY <1>2, <1>5, <2>1
    <2>3. \A u, w \in Requests : u # w => promoted'[u] \cap promoted'[w] = {}
      BY <1>2, <2>1
    <2> QED
      BY <1>3, <2>2, <2>3
  <1>6. ASSUME NEW t \in Requests, NEW c \in Slot, NEW P \in SUBSET Keys,
               pc[t] = "work", Done(t, c, P),
               \/ Adopts(book[Here(t)], c, P) \/ Adds(book[Here(t)], c, P, began[t])
               \/ MovesUp(book[Here(t)], c, P)
        PROVE  AnnouncedOnce'
    <2> DEFINE fresh == {<<Here(t), k, c.since[k]>> : k \in P}
    <2>1. /\ Here(t) \in held[t] /\ Here(t) \in Slots /\ told' = told
          /\ promoted'[t] = promoted[t] \cup fresh
          /\ \A u \in Requests \ {t} : promoted'[u] = promoted[u]
      BY <1>6, DoneFrame
    <2>2. book[Here(t)] \in Slot
      BY <2>1 DEF Booking, Shape, TypeOK
    <2>3. ASSUME NEW r \in fresh PROVE r[1] = Here(t) /\ OnList(book[r[1]], r)
      <3>1. PICK k \in P : r = <<Here(t), k, c.since[k]>>
        OBVIOUS
      <3>2. book[Here(t)].seat[k] = "waiting" /\ c.since[k] = book[Here(t)].since[k]
        BY <1>6, <2>2, ChangePromotes
      <3>3. r[1] = Here(t) /\ r[2] = k /\ r[3] = c.since[k]
        BY <3>1
      <3> QED
        BY <3>2, <3>3 DEF OnList
    <2> HIDE DEF fresh
    <2>4. ASSUME NEW r \in fresh PROVE r \notin told
      BY <2>3 DEF Announcing, Past
    <2>5. ASSUME NEW r \in fresh, NEW u \in Requests, u # t PROVE r \notin promoted[u]
      <3>1. ~Past(r)
        BY <2>3 DEF Past
      <3>2. r[1] \notin held[u]
        BY <2>1, <2>3, <2>5 DEF Booking, Locks
      <3> QED
        BY <3>1, <3>2 DEF Announcing, Due
    <2>6. \A u \in Requests : promoted'[u] \cap told' = {}
      BY <1>2, <2>1, <2>4
    <2>7. \A u, w \in Requests : u # w => promoted'[u] \cap promoted'[w] = {}
      BY <1>2, <2>1, <2>5
    <2> QED
      BY <1>3, <2>6, <2>7
  <1> QED
    BY <1>4, <1>5, <1>6, PromotionsMove

\* For any slots, people and concurrent requests, a promotion is announced by
\* one request and at most once: notifyPromoted is given the rows its own
\* transaction promoted, and nobody promotes a row a second time.
THEOREM PromotionsAnnouncedOnce == Spec => []AnnouncedOnce
  <1>1. Init => Announcing /\ AnnouncedOnce
    BY SlotsAssumption DEF Init, Announcing, Ages, Spent, EmptySlot, AnnouncedOnce
  <1>2. Spec => []Booking
    BY BookingInit, BookingStep, PTL DEF Spec
  <1>3. Booking /\ Planned /\ [Next]_vars => Planned'
    BY PlannedStep
  <1>4. Booking /\ Booking' /\ Planned /\ Announcing /\ [Next]_vars => Announcing'
    BY AnnouncingStep
  <1>5. Booking /\ Announcing /\ AnnouncedOnce /\ [Next]_vars => AnnouncedOnce'
    BY AnnouncedStep
  <1> QED
    BY <1>1, <1>2, <1>3, <1>4, <1>5, PlannedInit, PTL DEF Spec

-----------------------------------------------------------------------------
(* What a transaction does to one slot, as SlotBook sees it.  These are the *)
(* steps of SlotBook with the slot before (b) and after (c) as arguments.   *)

\* The waitlist with its tickets, as the refinement mapping reads it.
Queue(b) == [k \in Waiting(b) |-> b.since[k]]

Stays(b, c) == c.cap = b.cap /\ Active(c) = Active(b) /\ Queue(c) = Queue(b)

Advances(n, in, q, c) ==
    \E P \in SUBSET DOMAIN q :
        /\ P = {} \/ Cardinality(in \cup P) <= n
        /\ P = DOMAIN q \/ Cardinality(in \cup P) >= n
        /\ \A k \in P, j \in (DOMAIN q) \ P : q[k] <= q[j]
        /\ c.cap = n /\ Active(c) = in \cup P
        /\ Queue(c) = Abstract!Only(q, (DOMAIN q) \ P)

Enters(s, b, c, ticket) ==
    \E k \in Keys \ (Active(b) \cup DOMAIN Queue(b)) :
        /\ c.cap = b.cap
        /\ IF Taken(b) < b.cap
           THEN Active(c) = Active(b) \cup {k} /\ Queue(c) = Queue(b)
           ELSE /\ s \in Waitlisted /\ Active(c) = Active(b)
                /\ Queue(c) = [j \in (DOMAIN Queue(b)) \cup {k} |->
                                  IF j = k THEN ticket ELSE Queue(b)[j]]

Exits(b, c) ==
    \E k \in Active(b) \cup DOMAIN Queue(b) :
        Advances(b.cap, Active(b) \ {k}, Abstract!Only(Queue(b), (DOMAIN Queue(b)) \ {k}), c)

Refits(b, c) == \E n \in Sizes : Advances(n, Active(b), Queue(b), c)

Does(what, s, b, c, ticket) ==
    \/ Stays(b, c)
    \/ what \in {"take", "signup"} /\ Enters(s, b, c, ticket)
    \/ what = "release" /\ Exits(b, c)
    \/ what = "import" /\ Refits(b, c)

\* Rows with nothing wrong: no owner without a row.
Proper(b) == \A k \in Keys : b.owned[k] => b.seat[k] # "none"

Suits(what, i) ==
    /\ i.act = "claim" => what \in {"take", "signup"}
    /\ i.act = "release" => what = "release"
    /\ i.act = "resize" => what = "import"

\* The rows promote() takes are the lowest tickets, up to the open seats.
LEMMA MoveAdvances ==
  ASSUME NEW d \in Slot, Proper(d), NEW P \in NextUp(d)
  PROVE  Proper(Promote(d, P)) /\ Advances(d.cap, Active(d), Queue(d), Promote(d, P))
  <1> DEFINE c == Promote(d, P)
             q == Queue(d)
  <1>1. P \in SUBSET Waiting(d) /\ P \in SUBSET Keys
    BY PeopleFinite DEF NextUp
  <1>2. /\ Active(c) = Active(d) \cup P /\ Waiting(c) = Waiting(d) \ P
        /\ c.cap = d.cap /\ c.since = d.since
    BY <1>1 DEF Active, Waiting, Promote, Slot
  <1>3. \A k \in Keys : c.owned[k] => c.seat[k] # "none"
    BY DEF Proper, Promote, Slot
  <1>4. /\ IsFiniteSet(Active(d)) /\ IsFiniteSet(Waiting(d)) /\ Taken(d) \in Nat
        /\ Cardinality(Waiting(d)) \in Nat /\ d.cap \in Nat
    BY PeopleFinite DEF Slot
  <1>5. IsFiniteSet(P) /\ Cardinality(P) \in Nat
    BY <1>1, <1>4, FS_Subset, FS_CardinalityType
  <1>6. Cardinality(Active(d) \cup P) = Taken(d) + Cardinality(P)
    <2>1. Cardinality(Active(d) \cup P)
            = Cardinality(Active(d)) + Cardinality(P) - Cardinality(Active(d) \cap P)
      BY <1>4, <1>5, FS_Union
    <2>2. Active(d) \cap P = {}
      BY <1>1 DEF Active, Waiting
    <2>3. Cardinality(Active(d) \cap P) = 0
      BY <2>2, FS_EmptySet
    <2> QED
      BY <1>4, <1>5, <2>1, <2>3 DEF Taken
  <1>7. /\ P # {} => Cardinality(P) > 0
        /\ P # Waiting(d) => Cardinality(P) < Cardinality(Waiting(d))
    BY <1>1, <1>4, <1>5, FS_Subset, FS_EmptySet
  <1>8. Cardinality(P) = IF Cardinality(Waiting(d)) <= Open(d)
                         THEN Cardinality(Waiting(d)) ELSE Open(d)
    BY DEF NextUp
  <1>9. P = {} \/ Cardinality(Active(d) \cup P) <= d.cap
    BY <1>4, <1>5, <1>6, <1>7, <1>8 DEF Open, Full
  <1>10. P = Waiting(d) \/ Cardinality(Active(d) \cup P) >= d.cap
    BY <1>4, <1>5, <1>6, <1>7, <1>8 DEF Open, Full
  <1>11. DOMAIN q = Waiting(d) /\ \A k \in Waiting(d) : q[k] = d.since[k] /\ q[k] \in Nat
    BY PeopleFinite DEF Queue, Slot
  <1>12. \A k \in P, j \in Waiting(d) \ P : q[k] <= q[j]
    <2>1. \A k \in P, j \in Waiting(d) \ P : ~(d.since[j] < d.since[k])
      BY DEF NextUp, Older
    <2> QED
      BY <1>1, <1>11, <2>1
  <1>13. Queue(c) = Abstract!Only(q, Waiting(d) \ P)
    <2>1. Queue(c) = [k \in Waiting(d) \ P |-> d.since[k]]
      BY <1>2, Zenon DEF Queue
    <2> QED
      BY <1>11, <2>1 DEF Abstract!Only
  <1> HIDE DEF c, q
  <1>14. Advances(d.cap, Active(d), q, c)
    BY <1>1, <1>2, <1>9, <1>10, <1>11, <1>12, <1>13 DEF Advances
  <1> QED
    BY <1>3, <1>14 DEF Proper, c, q

LEMMA ReleaseExits ==
  ASSUME NEW b \in Slot, Proper(b), NEW k \in Keys, b.owned[k],
         NEW P \in NextUp(DropRow(b, k))
  PROVE  LET c == Promote(DropRow(b, k), P) IN c \in Slot /\ Proper(c) /\ Exits(b, c)
  <1> DEFINE d == DropRow(b, k)
             c == Promote(d, P)
  <1>1. d \in Slot /\ c \in Slot
    BY DropRowType, PromoteType
  <1>2. /\ Waiting(d) = Waiting(b) \ {k} /\ Active(d) = Active(b) \ {k} /\ d.cap = b.cap
        /\ \A j \in Waiting(d) : d.since[j] = b.since[j]
    BY DEF DropRow, Waiting, Active, Slot
  <1>3. Proper(d)
    BY DEF Proper, DropRow, Slot
  <1>4. DOMAIN Queue(b) = Waiting(b) /\ \A j \in Waiting(b) : Queue(b)[j] = b.since[j]
    BY DEF Queue
  <1>5. k \in Active(b) \cup Waiting(b)
    BY DEF Proper, Active, Waiting, Slot
  <1> HIDE DEF d
  <1>6. Queue(d) = Abstract!Only(Queue(b), Waiting(b) \ {k})
    BY <1>2, <1>4 DEF Queue, Abstract!Only
  <1>7. Proper(c) /\ Advances(d.cap, Active(d), Queue(d), c)
    BY <1>1, <1>3, MoveAdvances DEF d
  <1>8. Exits(b, c)
    BY <1>2, <1>4, <1>5, <1>6, <1>7 DEF Exits
  <1> QED
    BY <1>1, <1>7, <1>8 DEF d

LEMMA ResizeRefits ==
  ASSUME NEW b \in Slot, Proper(b), NEW n \in Sizes,
         NEW P \in NextUp([b EXCEPT !.cap = n])
  PROVE  LET c == Promote([b EXCEPT !.cap = n], P) IN c \in Slot /\ Proper(c) /\ Refits(b, c)
  <1> DEFINE d == [b EXCEPT !.cap = n]
             c == Promote(d, P)
  <1>1. n \in Nat
    BY SlotsAssumption
  <1>2. d \in Slot
    BY <1>1 DEF Slot
  <1>3. /\ d.cap = n /\ Waiting(d) = Waiting(b) /\ Active(d) = Active(b)
        /\ d.since = b.since /\ d.seat = b.seat /\ d.owned = b.owned
    BY DEF Waiting, Active, Slot
  <1>4. Proper(d)
    BY <1>3 DEF Proper
  <1> HIDE DEF d
  <1>5. Queue(d) = Queue(b)
    BY <1>3 DEF Queue
  <1>6. c \in Slot /\ Proper(c) /\ Advances(n, Active(b), Queue(b), c)
    BY <1>2, <1>3, <1>4, <1>5, MoveAdvances, PromoteType DEF d
  <1>7. Refits(b, c)
    BY <1>6 DEF Refits
  <1> QED
    BY <1>6, <1>7 DEF d

LEMMA ClaimEnters ==
  ASSUME NEW b \in Slot, Proper(b), NEW k \in Keys, NEW u \in BOOLEAN, NEW s,
         NEW now \in Nat, b.seat[k] = "none", Full(b) => s \in Waitlisted
  PROVE  LET c == PutRow(b, k, IF Full(b) THEN "waiting" ELSE "active", u, now)
         IN  c \in Slot /\ Proper(c) /\ Enters(s, b, c, now)
  <1> DEFINE c == PutRow(b, k, IF Full(b) THEN "waiting" ELSE "active", u, now)
  <1>1. c \in Slot
    BY PutRowType
  <1>2. k \notin Active(b) /\ k \notin Waiting(b) /\ c.cap = b.cap
    BY DEF Active, Waiting, PutRow, Slot
  <1>3. DOMAIN Queue(b) = Waiting(b) /\ \A j \in Waiting(b) : Queue(b)[j] = b.since[j]
    BY DEF Queue
  <1>4. Proper(c)
    BY DEF Proper, PutRow, Slot
  <1>5. Taken(b) \in Nat /\ b.cap \in Nat
    BY PeopleFinite DEF Slot
  <1>6. \A j \in Keys : c.since[j] = IF j = k THEN now ELSE b.since[j]
    BY DEF PutRow, Slot
  <1>7. Waiting(b) \subseteq Keys /\ \A j \in Waiting(b) : j # k
    BY <1>2, PeopleFinite
  <1>8. CASE Full(b)
    <2>1. Active(c) = Active(b) /\ Waiting(c) = Waiting(b) \cup {k}
      BY <1>2, <1>8 DEF Active, Waiting, PutRow, Slot
    <2> HIDE DEF c
    <2>2. Queue(c) = [j \in Waiting(b) \cup {k} |-> IF j = k THEN now ELSE Queue(b)[j]]
      BY <1>3, <1>6, <1>7, <2>1 DEF Queue
    <2>3. Enters(s, b, c, now)
      BY <1>2, <1>3, <1>5, <1>8, <2>1, <2>2 DEF Enters, Full
    <2> QED
      BY <1>1, <1>4, <2>3 DEF c
  <1>9. CASE ~Full(b)
    <2>1. Active(c) = Active(b) \cup {k} /\ Waiting(c) = Waiting(b)
      BY <1>2, <1>9 DEF Active, Waiting, PutRow, Slot
    <2> HIDE DEF c
    <2>2. Queue(c) = Queue(b)
      BY <1>6, <1>7, <2>1 DEF Queue
    <2>3. Enters(s, b, c, now)
      BY <1>2, <1>3, <1>5, <1>9, <2>1, <2>2 DEF Enters, Full
    <2> QED
      BY <1>1, <1>4, <2>3 DEF c
  <1> QED
    BY <1>8, <1>9

-----------------------------------------------------------------------------
(* The refinement.  Until it commits, nobody sees what a transaction did to *)
(* a slot; by then it has done to each slot it holds nothing, or one step   *)
(* of its kind, seen from the committed slot that its lock kept still.      *)

Suited(t) == \A i \in DOMAIN todo[t] : Suits(kind[t], todo[t][i])

Faithful ==
    /\ \A s \in Slots : Proper(book[s])
    /\ \A t \in Requests : \A s \in held[t] :
          Proper(draft[t][s]) /\ Does(kind[t], s, book[s], draft[t][s], began[t])
    /\ \A t \in Requests : pc[t] \in {"lock", "work"} => Suited(t)

LEMMA FaithfulInit == Init => Faithful
  <1> SUFFICES ASSUME Init PROVE Faithful
    OBVIOUS
  <1>1. \A s \in Slots : Proper(EmptySlot(s))
    BY DEF EmptySlot, Proper
  <1> QED
    BY <1>1 DEF Init, Faithful

LEMMA ArriveSuits ==
  ASSUME NEW t \in Requests, Arrive(t)
  PROVE  \E what \in Kinds : \E items :
            Begin(t, what, items) /\ \A i \in DOMAIN items : Suits(what, items[i])
  <1>1. CASE TakeSlot(t)
    <2>1. PICK s \in Slots, k \in Adults, u \in BOOLEAN :
            Begin(t, "take", <<[act |-> "claim", slot |-> s, key |-> k, user |-> u, idem |-> u]>>)
      BY <1>1 DEF TakeSlot
    <2> QED
      BY <2>1 DEF Suits, Kinds
  <1>2. CASE PublicSignup(t)
    <2>1. PICK S \in (SUBSET Slots) \ {{}}, scout \in Scouts : \E q \in IdOrder(S) :
            Begin(t, "signup", [i \in DOMAIN q |-> SignupItem(q[i], scout)])
      BY <1>2 DEF PublicSignup
    <2>2. PICK q \in IdOrder(S) :
            Begin(t, "signup", [i \in DOMAIN q |-> SignupItem(q[i], scout)])
      BY <2>1
    <2> DEFINE items == [i \in DOMAIN q |-> SignupItem(q[i], scout)]
    <2>3. \A i \in DOMAIN items : items[i].act = "claim"
      BY DEF SignupItem
    <2>4. Begin(t, "signup", items)
      BY <2>2
    <2> HIDE DEF items
    <2> QED
      BY <2>3, <2>4 DEF Suits, Kinds
  <1>3. CASE ReleaseSlot(t)
    <2>1. PICK s \in Slots, k \in Logins :
            Begin(t, "release", <<[act |-> "release", slot |-> s, key |-> k]>>)
      BY <1>3 DEF ReleaseSlot
    <2> QED
      BY <2>1 DEF Suits, Kinds
  <1>4. CASE ImportEventSlots(t)
    <2>1. PICK S \in (SUBSET Slots) \ {{}} : \E q \in Orders(S), size \in [S -> Sizes] :
            Begin(t, "import",
              [i \in DOMAIN q |-> [act |-> "resize", slot |-> q[i], cap |-> size[q[i]]]])
      BY <1>4 DEF ImportEventSlots
    <2>2. PICK q \in Orders(S), size \in [S -> Sizes] :
            Begin(t, "import",
              [i \in DOMAIN q |-> [act |-> "resize", slot |-> q[i], cap |-> size[q[i]]]])
      BY <2>1
    <2> DEFINE items == [i \in DOMAIN q |-> [act |-> "resize", slot |-> q[i], cap |-> size[q[i]]]]
    <2>3. \A i \in DOMAIN items : items[i].act = "resize"
      OBVIOUS
    <2>4. Begin(t, "import", items)
      BY <2>2
    <2> HIDE DEF items
    <2> QED
      BY <2>3, <2>4 DEF Suits, Kinds
  <1> QED
    BY <1>1, <1>2, <1>3, <1>4 DEF Arrive

LEMMA WorkDoes ==
  ASSUME Booking, NEW t \in Requests, Work(t),
         Suits(kind[t], Item(t)), Proper(book[Here(t)])
  PROVE  \/ \E how \in {"full", "clash"} : Fails(t, how)
         \/ \E c \in Slot : \E P \in SUBSET Keys :
               Done(t, c, P) /\ Proper(c) /\ Does(kind[t], Here(t), book[Here(t)], c, began[t])
  <1> DEFINE b == draft[t][Here(t)]
             i == Item(t)
  <1>1. pc[t] = "work" /\ (ClaimSlot(t, b, i) \/ Release(t, b, i) \/ Resize(t, b, i))
    BY DEF Work
  <1>2. /\ i \in Items /\ Here(t) \in Slots /\ b = book[Here(t)] /\ b \in Slot
        /\ began[t] \in Nat
    BY <1>1, ItemType DEF Booking, Shape, TypeOK, WorksOnHeld
  <1>3. Suits(kind[t], i) /\ Proper(b)
    BY <1>2
  <1> HIDE DEF b, i
  <1>4. CASE ClaimSlot(t, b, i)
    <2>1. /\ i.key \in Keys /\ i.user \in BOOLEAN /\ i.act = "claim"
          /\ kind[t] \in {"take", "signup"}
      BY <1>2, <1>3, <1>4 DEF ClaimSlot, Items, Claims, Releases, Resizes, Suits
    <2>2. CASE ClaimAgain(t, b, i)
      <3> DEFINE c == [b EXCEPT !.owned[i.key] = @ \/ i.user]
      <3>1. c \in Slot /\ Waiting(c) = Waiting(b) /\ Active(c) = Active(b) /\ c.cap = b.cap
            /\ c.since = b.since
        BY <1>2, <2>1 DEF Slot, Waiting, Active
      <3>2. b.seat[i.key] # "none"
        BY <2>2 DEF ClaimAgain, IsMine
      <3>3. \A k \in Keys : c.owned[k] => c.seat[k] # "none"
        BY <1>2, <1>3, <2>1, <3>2 DEF Proper, Slot
      <3>4. Done(t, c, {})
        BY <2>2 DEF ClaimAgain
      <3> HIDE DEF c
      <3>5. Proper(c)
        BY <3>3 DEF Proper
      <3>6. Stays(b, c)
        BY <3>1, Zenon DEF Stays, Queue
      <3> QED
        BY <1>2, <3>1, <3>4, <3>5, <3>6 DEF Does
    <2>3. CASE ClaimSeat(t, b, i)
      <3> DEFINE c == PutRow(b, i.key, IF Full(b) THEN "waiting" ELSE "active", i.user, began[t])
      <3>1. /\ Done(t, c, {}) /\ b.seat[i.key] = "none"
            /\ Full(b) => Here(t) \in Waitlisted
        BY <2>3 DEF ClaimSeat
      <3>2. c \in Slot /\ Proper(c) /\ Enters(Here(t), b, c, began[t])
        BY <1>2, <1>3, <2>1, <3>1, ClaimEnters
      <3> HIDE DEF c
      <3> QED
        BY <1>2, <2>1, <3>1, <3>2 DEF Does
    <2>4. CASE ClaimFull(t, b, i)
      BY <2>4 DEF ClaimFull
    <2>5. CASE ClaimClash(t, b, i)
      BY <2>5 DEF ClaimClash
    <2> QED
      BY <1>4, <2>2, <2>3, <2>4, <2>5 DEF ClaimSlot
  <1>5. CASE Release(t, b, i)
    <2>1. i.key \in Keys /\ kind[t] = "release"
      BY <1>2, <1>3, <1>5 DEF Release, Items, Claims, Releases, Resizes, Suits
    <2>2. CASE b.owned[i.key]
      <3>1. PICK P \in NextUp(DropRow(b, i.key)) : Done(t, Promote(DropRow(b, i.key), P), P)
        BY <1>5, <2>2 DEF Release
      <3> DEFINE c == Promote(DropRow(b, i.key), P)
      <3>2. c \in Slot /\ Proper(c) /\ Exits(b, c)
        BY <1>2, <1>3, <2>1, <2>2, ReleaseExits
      <3>3. P \in SUBSET Keys
        BY PeopleFinite DEF NextUp
      <3>4. Done(t, c, P)
        BY <3>1
      <3> HIDE DEF c
      <3> QED
        BY <1>2, <2>1, <3>2, <3>3, <3>4 DEF Does
    <2>3. CASE ~b.owned[i.key]
      <3>1. Done(t, b, {}) /\ Stays(b, b)
        BY <1>5, <2>3 DEF Release, Stays
      <3> QED
        BY <1>2, <1>3, <3>1 DEF Does
    <2> QED
      BY <2>2, <2>3
  <1>6. CASE Resize(t, b, i)
    <2>1. i.cap \in Sizes /\ kind[t] = "import"
      BY <1>2, <1>3, <1>6 DEF Resize, Items, Claims, Releases, Resizes, Suits
    <2> DEFINE d == [b EXCEPT !.cap = i.cap]
    <2>2. PICK P \in NextUp(d) : Done(t, Promote(d, P), P)
      BY <1>6 DEF Resize
    <2> DEFINE c == Promote(d, P)
    <2>3. c \in Slot /\ Proper(c) /\ Refits(b, c)
      BY <1>2, <1>3, <2>1, ResizeRefits
    <2>4. P \in SUBSET Keys
      BY PeopleFinite DEF NextUp
    <2>5. Done(t, c, P)
      BY <2>2
    <2> HIDE DEF c, d
    <2> QED
      BY <1>2, <2>1, <2>3, <2>4, <2>5 DEF Does
  <1> QED
    BY <1>1, <1>4, <1>5, <1>6

LEMMA FaithfulStep ==
  ASSUME Booking, Planned, Faithful, [Next]_vars, Expiring = {}
  PROVE  Faithful'
  <1>1. TypeOK
    BY DEF Booking, Shape
  <1>2. \A u \in Requests : \A s \in held[u] : s \in Slots
    BY <1>1 DEF TypeOK
  <1>3. ASSUME NEW t \in Requests, book' = book,
               \A u \in Requests \ {t} : /\ pc'[u] = pc[u] /\ kind'[u] = kind[u]
                                         /\ todo'[u] = todo[u] /\ held'[u] = held[u]
                                         /\ draft'[u] = draft[u] /\ began'[u] = began[u],
               \A s \in held'[t] :
                  Proper(draft'[t][s]) /\ Does(kind'[t], s, book[s], draft'[t][s], began'[t]),
               pc'[t] \in {"lock", "work"} => Suited(t)'
        PROVE  Faithful'
    <2>1. \A u \in Requests : \A s \in held'[u] :
             Proper(draft'[u][s]) /\ Does(kind'[u], s, book'[s], draft'[u][s], began'[u])
      BY <1>3 DEF Faithful
    <2>2. \A u \in Requests : pc'[u] \in {"lock", "work"} => Suited(u)'
      BY <1>3 DEF Faithful, Suited
    <2>3. \A s \in Slots : Proper(book'[s])
      BY <1>3 DEF Faithful
    <2> QED
      BY <2>1, <2>2, <2>3 DEF Faithful
  <1>4. ASSUME NEW t \in Requests, Arrive(t) PROVE Faithful'
    <2>1. PICK what \in Kinds : \E items :
            Begin(t, what, items) /\ \A i \in DOMAIN items : Suits(what, items[i])
      BY <1>4, ArriveSuits
    <2>2. PICK items : Begin(t, what, items) /\ \A i \in DOMAIN items : Suits(what, items[i])
      BY <2>1
    <2>3. held[t] = {}
      BY <2>2 DEF Begin, Planned
    <2>4. /\ book' = book /\ held' = held /\ draft' = draft
          /\ kind'[t] = what /\ todo'[t] = items
          /\ \A u \in Requests \ {t} : /\ pc'[u] = pc[u] /\ kind'[u] = kind[u]
                                       /\ todo'[u] = todo[u] /\ began'[u] = began[u]
      BY <1>1, <2>2 DEF Begin, TypeOK
    <2>5. Suited(t)'
      BY <2>2, <2>4 DEF Suited
    <2> QED
      BY <1>3, <2>3, <2>4, <2>5
  <1>5. ASSUME NEW t \in Requests, LockSlot(t) PROVE Faithful'
    <2> DEFINE h == Here(t)
    <2>1. h \in Slots
      BY <1>5, ItemType DEF LockSlot, Booking
    <2>2. /\ book' = book /\ held'[t] = held[t] \cup {h} /\ draft'[t][h] = book[h]
          /\ \A s \in Slots \ {h} : draft'[t][s] = draft[t][s]
          /\ pc[t] = "lock" /\ kind'[t] = kind[t] /\ todo'[t] = todo[t] /\ began' = began
          /\ \A u \in Requests \ {t} : /\ pc'[u] = pc[u] /\ kind'[u] = kind[u]
                                       /\ todo'[u] = todo[u] /\ held'[u] = held[u]
                                       /\ draft'[u] = draft[u]
      BY <1>1, <1>5, <2>1 DEF LockSlot, TypeOK
    <2> HIDE DEF h
    <2>3. ASSUME NEW s \in held'[t]
          PROVE  Proper(draft'[t][s]) /\ Does(kind'[t], s, book[s], draft'[t][s], began'[t])
      <3>1. CASE s = h
        BY <2>1, <2>2, <3>1 DEF Faithful, Does, Stays
      <3>2. CASE s # h
        BY <1>2, <2>2, <3>2 DEF Faithful
      <3> QED
        BY <3>1, <3>2
    <2>4. Suited(t)'
      BY <2>2 DEF Faithful, Suited
    <2> QED
      BY <1>3, <2>2, <2>3, <2>4
  <1>6. ASSUME NEW t \in Requests, Work(t) PROVE Faithful'
    <2>1. pc[t] = "work" /\ Suited(t)
      BY <1>6 DEF Work, Faithful
    <2>2. todo[t] \in Seq(Items) /\ todo[t] # <<>>
      BY <2>1 DEF Booking, Shape, TypeOK, Busy
    <2>3. Item(t) = todo[t][1] /\ DOMAIN todo[t] = 1 .. Len(todo[t]) /\ Len(todo[t]) \in Nat \ {0}
      BY <2>2, EmptySeq, LenProperties DEF Item
    <2>4. Suits(kind[t], Item(t)) /\ Here(t) \in Slots /\ Proper(book[Here(t)])
      BY <2>1, <2>3, ItemType DEF Suited, Faithful, Booking
    <2>5. CASE \E how \in {"full", "clash"} : Fails(t, how)
      <3>1. /\ pc'[t] \in {"full", "clash"} /\ UNCHANGED <<book, held, draft, kind, began>>
            /\ \A u \in Requests \ {t} : pc'[u] = pc[u] /\ todo'[u] = todo[u]
        BY <1>1, <2>5 DEF Fails, TypeOK
      <3>2. \A s \in held'[t] : Proper(draft'[t][s]) /\ Does(kind'[t], s, book[s], draft'[t][s], began'[t])
        BY <3>1 DEF Faithful
      <3> QED
        BY <1>3, <3>1, <3>2
    <2>6. ASSUME NEW c \in Slot, NEW P \in SUBSET Keys, Done(t, c, P), Proper(c),
                 Does(kind[t], Here(t), book[Here(t)], c, began[t])
          PROVE  Faithful'
      <3>1. /\ Here(t) \in held[t] /\ UNCHANGED <<book, held, kind>>
            /\ draft'[t][Here(t)] = c
            /\ \A s \in Slots \ {Here(t)} : draft'[t][s] = draft[t][s]
            /\ \A u \in Requests \ {t} : draft'[u] = draft[u] /\ pc'[u] = pc[u] /\ todo'[u] = todo[u]
            /\ todo'[t] = Tail(todo[t])
        BY <2>1, <2>6, DoneFrame
      <3>7. began' = began
        BY <2>6 DEF Done
      <3>2. ASSUME NEW s \in held'[t]
            PROVE  Proper(draft'[t][s]) /\ Does(kind'[t], s, book[s], draft'[t][s], began'[t])
        <4>1. CASE s = Here(t)
          BY <2>6, <3>1, <3>7, <4>1
        <4>2. CASE s # Here(t)
          BY <1>2, <3>1, <3>7, <4>2 DEF Faithful
        <4> QED
          BY <4>1, <4>2
      <3>3. /\ Tail(todo[t]) \in Seq(Items) /\ Len(Tail(todo[t])) = Len(todo[t]) - 1
            /\ \A i \in 1 .. Len(Tail(todo[t])) : Tail(todo[t])[i] = todo[t][i + 1]
        BY <2>2, HeadTailProperties
      <3>4. DOMAIN todo'[t] = 1 .. Len(todo[t]) - 1
        BY <3>1, <3>3, LenProperties
      <3>5. \A i \in DOMAIN todo'[t] : Suits(kind[t], todo'[t][i])
        BY <2>1, <2>3, <3>1, <3>3, <3>4 DEF Suited
      <3>6. Suited(t)'
        BY <3>1, <3>5 DEF Suited
      <3> QED
        BY <1>3, <3>1, <3>2, <3>6, <3>7
    <2> QED
      BY <1>6, <2>4, <2>5, <2>6, WorkDoes
  <1>7. ASSUME NEW t \in Requests, Commit(t) PROVE Faithful'
    <2>1. \A s \in Slots : book'[s] = IF s \in held[t] THEN draft[t][s] ELSE book[s]
      BY <1>7 DEF Commit
    <2>2. /\ held'[t] = {} /\ pc'[t] = "notify" /\ kind' = kind /\ todo' = todo
          /\ \A u \in Requests \ {t} : /\ held'[u] = held[u] /\ draft'[u] = draft[u]
                                       /\ pc'[u] = pc[u] /\ began'[u] = began[u]
      BY <1>1, <1>7 DEF Commit, TypeOK
    <2>3. \A u \in Requests \ {t} : \A s \in held[u] : book'[s] = book[s]
      BY <1>2, <2>1 DEF Booking, Locks
    <2>4. \A s \in Slots : Proper(book'[s])
      BY <2>1 DEF Faithful
    <2>5. \A u \in Requests : \A s \in held'[u] :
             Proper(draft'[u][s]) /\ Does(kind'[u], s, book'[s], draft'[u][s], began'[u])
      BY <2>2, <2>3 DEF Faithful
    <2>6. \A u \in Requests : pc'[u] \in {"lock", "work"} => Suited(u)'
      BY <2>2 DEF Faithful, Suited
    <2> QED
      BY <2>4, <2>5, <2>6 DEF Faithful
  <1>8. ASSUME NEW t \in Requests, Leave(t), book' = book PROVE Faithful'
    <2>1. /\ held'[t] = {} /\ pc'[t] = "idle" /\ kind' = kind
          /\ \A u \in Requests \ {t} : /\ held'[u] = held[u] /\ draft'[u] = draft[u]
                                       /\ pc'[u] = pc[u] /\ todo'[u] = todo[u]
                                       /\ began'[u] = began[u]
      BY <1>1, <1>8 DEF Leave, TypeOK
    <2> QED
      BY <1>3, <1>8, <2>1
  <1>9. ASSUME NEW t \in Requests,
               Rollback(t) \/ Abandon(t) \/ DeadlockVictim(t) \/ NotifyPromoted(t)
        PROVE  Faithful'
    BY <1>8, <1>9 DEF Rollback, Abandon, DeadlockVictim, NotifyPromoted
  <1>10. CASE UNCHANGED vars
    BY <1>10 DEF vars, Faithful, Suited
  <1> QED
    BY <1>4, <1>5, <1>6, <1>7, <1>9, <1>10 DEF Next

\* SlotBook counts with an instance of FiniteSets of its own.
LEMMA SameCount ==
  ASSUME NEW S
  PROVE  Abstract!Cardinality(S) = Cardinality(S)
  BY DEF Cardinality, Abstract!Cardinality

LEMMA SlotBookInit == Init => Abstract!Init
  <1> SUFFICES ASSUME Init PROVE Abstract!Init
    OBVIOUS
  <1>1. [s \in Slots |-> book[s].cap] = FirstSize
    BY SlotsAssumption DEF Init, EmptySlot
  <1>2. \A s \in Slots : Active(book[s]) = {} /\ Waiting(book[s]) = {}
    BY DEF Init, EmptySlot, Active, Waiting
  <1>3. ASSUME NEW s \in Slots PROVE [k \in Waiting(book[s]) |-> book[s].since[k]] = <<>>
    BY <1>2
  <1>4. clock = 0 /\ {began[t] : t \in Requests} \ {0} = {}
    BY DEF Init
  <1> QED
    BY <1>1, <1>2, <1>3, <1>4 DEF Abstract!Init

\* What a slot does, read as a step of SlotBook.
LEMMA SlotBookStep ==
  ASSUME NEW s \in Slots, NEW n
  PROVE  /\ Stays(book[s], book'[s]) => Abstract!Same(s)
         /\ Enters(s, book[s], book'[s], n) => Abstract!Joins(s, n)
         /\ Exits(book[s], book'[s]) => Abstract!Leaves(s)
         /\ Refits(book[s], book'[s]) => Abstract!Resized(s)
  <1> USE DEF Queue
  <1>1. Stays(book[s], book'[s]) => Abstract!Same(s)
    BY DEF Stays, Abstract!Same, Abstract!Becomes
  <1>2. Enters(s, book[s], book'[s], n) => Abstract!Joins(s, n)
    BY SameCount DEF Enters, Abstract!Joins, Abstract!Becomes, Taken
  <1>3. ASSUME NEW m, NEW in, NEW q, Advances(m, in, q, book'[s])
        PROVE  Abstract!MovesUp(s, m, in, q)
    BY <1>3, SameCount DEF Advances, Abstract!MovesUp, Abstract!Becomes
  <1>4. Exits(book[s], book'[s]) => Abstract!Leaves(s)
    BY <1>3 DEF Exits, Abstract!Leaves
  <1>5. Refits(book[s], book'[s]) => Abstract!Resized(s)
    BY <1>3 DEF Refits, Abstract!Resized
  <1> QED
    BY <1>1, <1>2, <1>4, <1>5

\* A transaction that ends hands its ticket in.
LEMMA TicketHandedIn ==
  ASSUME Booking, Ages, NEW t \in Requests, began[t] # 0, began' = [began EXCEPT ![t] = 0]
  PROVE  /\ began[t] \in {began[u] : u \in Requests} \ {0}
         /\ {began'[u] : u \in Requests} \ {0}
               = ({began[u] : u \in Requests} \ {0}) \ {began[t]}
  <1>1. began \in [Requests -> Nat]
    BY DEF Booking, Shape, TypeOK
  <1>2. began'[t] = 0 /\ \A u \in Requests \ {t} : began'[u] = began[u]
    BY <1>1
  <1>3. \A u \in Requests \ {t} : began[u] # began[t]
    BY DEF Ages
  <1> QED
    BY <1>2, <1>3

LEMMA CommitIsAStep ==
  ASSUME Booking, Ages, Faithful, NEW t \in Requests, Commit(t)
  PROVE  Abstract!Next
  <1>1. \A s \in Slots : book'[s] = IF s \in held[t] THEN draft[t][s] ELSE book[s]
    BY DEF Commit
  <1> PICK n : n = began[t]
    OBVIOUS
  <1>2. \A s \in Slots : Does(kind[t], s, book[s], book'[s], n)
    BY <1>1 DEF Faithful, Does, Stays
  <1>3. kind[t] \in Kinds
    BY DEF Booking, Shape, TypeOK
  <1>4. \/ \A s \in Slots : Stays(book[s], book'[s]) \/ Enters(s, book[s], book'[s], n)
        \/ \A s \in Slots : Stays(book[s], book'[s]) \/ Exits(book[s], book'[s])
        \/ \A s \in Slots : Stays(book[s], book'[s]) \/ Refits(book[s], book'[s])
    <2>1. CASE kind[t] \in {"take", "signup"}
      BY <1>2, <2>1 DEF Does
    <2>2. CASE kind[t] = "release"
      BY <1>2, <2>2 DEF Does
    <2>3. CASE kind[t] = "import"
      BY <1>2, <2>3 DEF Does
    <2> QED
      BY <1>3, <2>1, <2>2, <2>3 DEF Kinds
  <1>5. \/ \A s \in Slots : Abstract!Same(s) \/ Abstract!Joins(s, n)
        \/ \A s \in Slots : Abstract!Same(s) \/ Abstract!Leaves(s)
        \/ \A s \in Slots : Abstract!Same(s) \/ Abstract!Resized(s)
    BY <1>4, SlotBookStep
  <1>6. clock' = clock /\ began' = [began EXCEPT ![t] = 0] /\ began[t] # 0
    BY DEF Commit, Ages
  <1>7. Abstract!Ends(n)
    BY <1>5, <1>6, TicketHandedIn DEF Abstract!Ends
  <1>8. n \in {began[u] : u \in Requests} \ {0}
    BY <1>6, TicketHandedIn
  <1> QED
    BY <1>7, <1>8 DEF Abstract!Next

LEMMA RefinesStep ==
  ASSUME Booking, Ages, Faithful, [Next]_vars, Expiring = {}
  PROVE  [Abstract!Next]_(Abstract!bookVars)
  <1>1. ASSUME NEW t \in Requests, Commit(t) PROVE Abstract!Next
    BY <1>1, CommitIsAStep
  <1>2. ASSUME UNCHANGED <<book, clock, began>> PROVE UNCHANGED Abstract!bookVars
    BY <1>2 DEF Abstract!bookVars
  <1>3. ASSUME NEW t \in Requests, LockSlot(t) \/ Work(t) PROVE UNCHANGED <<book, clock, began>>
    <2>1. CASE LockSlot(t)
      BY <2>1 DEF LockSlot
    <2>2. CASE Work(t)
      BY <2>2, WorkChanges DEF Fails, Done
    <2> QED
      BY <1>3, <2>1, <2>2
  <1>4. ASSUME NEW t \in Requests, Arrive(t) PROVE Abstract!Next
    <2>1. PICK what, items : Begin(t, what, items)
      BY <1>4 DEF Arrive, TakeSlot, PublicSignup, ReleaseSlot, ImportEventSlots
    <2>2. began \in [Requests -> Nat] /\ clock \in Nat
      BY DEF Booking, Shape, TypeOK
    <2>3. /\ book' = book /\ clock' = clock + 1 /\ began'[t] = clock + 1
          /\ \A u \in Requests \ {t} : began'[u] = began[u]
          /\ began[t] = 0
      BY <2>1, <2>2 DEF Begin, Ages
    <2>4. {began'[u] : u \in Requests} \ {0}
             = ({began[u] : u \in Requests} \ {0}) \cup {clock + 1}
      BY <2>2, <2>3
    <2>5. Abstract!Draws
      BY <2>3, <2>4 DEF Abstract!Draws
    <2> QED
      BY <2>5 DEF Abstract!Next
  <1>5. ASSUME NEW t \in Requests,
               Rollback(t) \/ Abandon(t) \/ DeadlockVictim(t) \/ NotifyPromoted(t)
        PROVE  Abstract!Next \/ UNCHANGED <<book, clock, began>>
    <2>1. book' = book /\ clock' = clock /\ began' = [began EXCEPT ![t] = 0]
      BY <1>5 DEF Rollback, Abandon, DeadlockVictim, NotifyPromoted, Leave
    <2>2. CASE began[t] = 0
      <3>1. began' = began
        BY <2>1, <2>2 DEF Booking, Shape, TypeOK
      <3> QED
        BY <2>1, <3>1
    <2>3. CASE began[t] # 0
      <3>1. \A s \in Slots : Abstract!Same(s)
        BY <2>1 DEF Abstract!Same, Abstract!Becomes
      <3> PICK n : n = began[t]
        OBVIOUS
      <3>2. Abstract!Ends(n)
        BY <2>1, <2>3, <3>1, TicketHandedIn DEF Abstract!Ends
      <3>3. n \in {began[u] : u \in Requests} \ {0}
        BY <2>1, <2>3, TicketHandedIn
      <3> QED
        BY <3>2, <3>3 DEF Abstract!Next
    <2> QED
      BY <2>2, <2>3
  <1>6. CASE UNCHANGED vars
    BY <1>2, <1>6 DEF vars
  <1> QED
    BY <1>1, <1>2, <1>3, <1>4, <1>5, <1>6 DEF Next

\* For any slots, people and concurrent requests, and while the purge deletes
\* nobody, the locked transactions of lib/slots implement SlotBook: each commit
\* is one indivisible step in which every slot it touched seated its newcomer
\* or put it on the waitlist under the ticket its request drew when it began,
\* or let somebody go, or changed its size, and seated the lowest tickets; and
\* every other step of a request, a rollback or a crash included, changes no slot.
THEOREM RequestsAreAtomic == ASSUME Expiring = {} PROVE Spec => ImplementsSlotBook
  <1>1. Init => Ages
    BY SlotsAssumption DEF Init, Ages, Spent, EmptySlot
  <1>2. Spec => []Booking
    BY BookingInit, BookingStep, PTL DEF Spec
  <1>3. Booking /\ Booking' /\ Ages /\ [Next]_vars => Ages'
    BY AgesStep
  <1>4. Booking /\ Planned /\ [Next]_vars => Planned'
    BY PlannedStep
  <1>5. Booking /\ Planned /\ Faithful /\ [Next]_vars => Faithful'
    BY FaithfulStep
  <1>6. Booking /\ Ages /\ Faithful /\ [Next]_vars => [Abstract!Next]_(Abstract!bookVars)
    BY RefinesStep
  <1> QED
    BY <1>1, <1>2, <1>3, <1>4, <1>5, <1>6, PlannedInit, FaithfulInit, SlotBookInit, PTL
       DEF Spec, ImplementsSlotBook, Abstract!Spec

-----------------------------------------------------------------------------
(* Requests go on.  What fairness needs beside it: whoever steps comes      *)
(* nearer to its end, and while a request is under way somebody can step.   *)

\* Steps a request has left, if it meets no abort: a lock and a work for each
\* item, then the commit and the mail.
Left(t) ==
    CASE pc[t] = "idle" -> 0
      [] pc[t] \in {"notify", "full", "clash"} -> 1
      [] pc[t] = "commit" -> 2
      [] pc[t] = "work" -> 2 * Len(todo[t]) + 1
      [] pc[t] = "lock" -> 2 * Len(todo[t]) + 2

\* No step of anybody sends a request back: it comes nearer to its end, or
\* stays where it is with what it holds and has to do.
RequestsOnlyAdvance ==
    [][\A t \in Requests :
          pc[t] # "idle" =>
              \/ Left(t)' < Left(t)
              \/ pc'[t] = pc[t] /\ todo'[t] = todo[t] /\ held'[t] = held[t]]_vars

\* The next step of a request is open to it: nobody has the lock it wants, and
\* promote() finds whom to promote.
Goes(t) ==
    \/ pc[t] \in {"full", "clash", "commit", "notify"}
    \/ pc[t] = "lock" /\ \A u \in Requests : ~Waits(t, u)
    \/ pc[t] = "work" /\ LET b == draft[t][Here(t)]
                             i == Item(t)
                         IN \/ i.act = "claim"
                            \/ i.act = "release" /\ (b.owned[i.key] => NextUp(DropRow(b, i.key)) # {})
                            \/ i.act = "resize" /\ NextUp([b EXCEPT !.cap = i.cap]) # {}

\* While a request is under way somebody can go on, or Postgres sees a circle
\* of waiters to break; without an import there is no circle.
SomebodyGoesOn ==
    (\E t \in Requests : pc[t] # "idle") =>
        \E t \in Requests :
            \/ Goes(t)
            \/ Stuck(t) /\ \E u \in Requests : pc[u] # "idle" /\ kind[u] = "import"

LEMMA AdvanceStep ==
  ASSUME Booking, [Next]_vars, NEW t \in Requests, pc[t] # "idle"
  PROVE  \/ Left(t)' < Left(t)
         \/ pc'[t] = pc[t] /\ todo'[t] = todo[t] /\ held'[t] = held[t]
  <1>1. TypeOK /\ todo[t] \in Seq(Items) /\ Len(todo[t]) \in Nat
    BY LenProperties DEF Booking, Shape, TypeOK
  <1>2. ASSUME NEW u \in Requests, Arrive(u)
        PROVE  pc'[t] = pc[t] /\ todo'[t] = todo[t] /\ held'[t] = held[t]
    <2>1. pc[u] = "idle" /\ held' = held
          /\ \E x : pc' = [pc EXCEPT ![u] = "lock"] /\ todo' = [todo EXCEPT ![u] = x]
      BY <1>2 DEF Arrive, TakeSlot, PublicSignup, ReleaseSlot, ImportEventSlots, Begin
    <2> QED
      BY <1>1, <2>1 DEF TypeOK
  <1>3. ASSUME NEW u \in Requests, LockSlot(u)
        PROVE  \/ Left(t)' < Left(t)
               \/ pc'[t] = pc[t] /\ todo'[t] = todo[t] /\ held'[t] = held[t]
    <2>1. CASE u = t
      <3>1. pc[t] = "lock" /\ pc'[t] = "work" /\ todo'[t] = todo[t]
        BY <1>1, <1>3, <2>1 DEF LockSlot, TypeOK
      <3>2. Left(t) = 2 * Len(todo[t]) + 2 /\ Left(t)' = 2 * Len(todo[t]) + 1
        BY <3>1 DEF Left
      <3> QED
        BY <1>1, <3>2
    <2> QED
      BY <1>1, <1>3, <2>1 DEF LockSlot, TypeOK
  <1>4. ASSUME NEW u \in Requests, Work(u)
        PROVE  \/ Left(t)' < Left(t)
               \/ pc'[t] = pc[t] /\ todo'[t] = todo[t] /\ held'[t] = held[t]
    <2>1. pc[u] = "work"
      BY <1>4 DEF Work
    <2>2. ASSUME NEW how \in {"full", "clash"}, Fails(u, how)
          PROVE  \/ Left(t)' < Left(t)
                 \/ pc'[t] = pc[t] /\ todo'[t] = todo[t] /\ held'[t] = held[t]
      <3>1. CASE u = t
        <4>1. pc[t] = "work" /\ pc'[t] = how /\ how \in {"full", "clash"}
          BY <1>1, <2>1, <2>2, <3>1 DEF Fails, TypeOK
        <4>2. todo[t] # <<>>
          BY <4>1 DEF Booking, Shape, Busy
        <4>3. Left(t) = 2 * Len(todo[t]) + 1 /\ Left(t)' = 1
          BY <4>1 DEF Left
        <4>4. Len(todo[t]) > 0
          BY <1>1, <4>2, EmptySeq
        <4> QED
          BY <1>1, <4>3, <4>4
      <3> QED
        BY <1>1, <2>2, <3>1 DEF Fails, TypeOK
    <2>3. ASSUME NEW c \in Slot, NEW P \in SUBSET Keys, Done(u, c, P)
          PROVE  \/ Left(t)' < Left(t)
                 \/ pc'[t] = pc[t] /\ todo'[t] = todo[t] /\ held'[t] = held[t]
      <3>1. CASE u = t
        <4>1. todo[t] # <<>> /\ todo'[t] = Tail(todo[t])
              /\ pc'[t] = IF Len(todo[t]) = 1 THEN "commit" ELSE "lock"
          BY <1>1, <2>1, <2>3, <3>1 DEF Done, TypeOK, Booking, Shape, Busy
        <4>2. Len(todo[t]) > 0 /\ Len(todo'[t]) = Len(todo[t]) - 1
          BY <1>1, <4>1, EmptySeq, HeadTailProperties
        <4>3. Left(t) = 2 * Len(todo[t]) + 1
          BY <2>1, <3>1 DEF Left
        <4>4. Left(t)' = IF Len(todo[t]) = 1 THEN 2 ELSE 2 * Len(todo'[t]) + 2
          BY <4>1 DEF Left
        <4> QED
          BY <1>1, <4>2, <4>3, <4>4
      <3> QED
        BY <2>1, <2>3, <3>1, DoneFrame
    <2> QED
      BY <1>4, <2>2, <2>3, WorkChanges
  <1>5. ASSUME NEW u \in Requests, Commit(u)
        PROVE  \/ Left(t)' < Left(t)
               \/ pc'[t] = pc[t] /\ todo'[t] = todo[t] /\ held'[t] = held[t]
    <2>1. CASE u = t
      <3>1. pc[t] = "commit" /\ pc'[t] = "notify"
        BY <1>1, <1>5, <2>1 DEF Commit, TypeOK
      <3>2. Left(t) = 2 /\ Left(t)' = 1
        BY <3>1 DEF Left
      <3> QED
        BY <3>2
    <2> QED
      BY <1>1, <1>5, <2>1 DEF Commit, TypeOK
  <1>6. ASSUME NEW u \in Requests, Leave(u)
        PROVE  \/ Left(t)' < Left(t)
               \/ pc'[t] = pc[t] /\ todo'[t] = todo[t] /\ held'[t] = held[t]
    <2>1. CASE u = t
      <3>1. pc'[t] = "idle" /\ pc[t] \in Stages \ {"idle"}
        BY <1>1, <1>6, <2>1 DEF Leave, TypeOK
      <3>2. Left(t)' = 0
        BY <3>1 DEF Left
      <3>3. Left(t) \in {1, 2, 2 * Len(todo[t]) + 1, 2 * Len(todo[t]) + 2}
        BY <3>1 DEF Left, Stages
      <3> QED
        BY <1>1, <3>2, <3>3
    <2> QED
      BY <1>1, <1>6, <2>1 DEF Leave, TypeOK
  <1>7. ASSUME NEW k \in Expiring, PurgeScout(k)
        PROVE  pc'[t] = pc[t] /\ todo'[t] = todo[t] /\ held'[t] = held[t]
    BY <1>7 DEF PurgeScout
  <1>8. CASE UNCHANGED vars
    BY <1>8 DEF vars
  <1> QED
    BY <1>2, <1>3, <1>4, <1>5, <1>6, <1>7, <1>8
       DEF Next, Rollback, Abandon, DeadlockVictim, NotifyPromoted

\* For any number of requests and slots, no step of anybody sends a request
\* back: a step of its own brings it nearer to its end, one of another leaves
\* it where it is.  With the bound on Left, it has finitely many steps to go.
THEOREM RequestsAdvance == Spec => RequestsOnlyAdvance
  <1>1. Spec => []Booking
    BY BookingInit, BookingStep, PTL DEF Spec
  <1>2. Booking /\ [Next]_vars
          => [\A t \in Requests :
                 pc[t] # "idle" =>
                     \/ Left(t)' < Left(t)
                     \/ pc'[t] = pc[t] /\ todo'[t] = todo[t] /\ held'[t] = held[t]]_vars
    BY AdvanceStep
  <1> QED
    BY <1>1, <1>2, PTL DEF Spec, RequestsOnlyAdvance

\* Of some waiting rows, one is the oldest.
LEMMA OneEldest ==
  ASSUME NEW b \in Slot, NEW R \in SUBSET Waiting(b), R # {}
  PROVE  \E j \in R : \A i \in R : ~Older(b, i, j)
  <1> DEFINE Elder(j) == {i \in R : Older(b, i, j)}
             M == {Elder(j) : j \in R}
  <1>1. M \subseteq SUBSET Keys /\ M # {}
    BY DEF Waiting
  <1>2. IsWellFoundedOn(StrictSubsetOrdering(Keys), SUBSET Keys)
    BY KeysFinite, FS_StrictSubsetOrderingWellFounded, FS_FiniteSubsetsOfFinite
  <1> HIDE DEF M
  <1>3. PICK x \in M : \A y \in M : ~(<<y, x>> \in StrictSubsetOrdering(Keys))
    BY <1>1, <1>2, WFMin
  <1>4. PICK j \in R : x = Elder(j)
    BY DEF M
  <1>5. ASSUME NEW i \in R, Older(b, i, j) PROVE FALSE
    <2>1. \A k \in R : b.since[k] \in Nat
      BY DEF Waiting, Slot
    <2>2. /\ \A k \in R : Older(b, k, i) => Older(b, k, j)
          /\ ~Older(b, i, i)
      BY <1>5, <2>1 DEF Older
    <2>3. Elder(i) \subseteq Elder(j) /\ i \in Elder(j) /\ i \notin Elder(i)
      BY <1>5, <2>2
    <2>4. Elder(i) \in M /\ Elder(j) \in M
      BY <1>5 DEF M
    <2> HIDE DEF Elder
    <2>5. <<Elder(i), Elder(j)>> \in StrictSubsetOrdering(Keys)
      BY <1>1, <2>3, <2>4 DEF StrictSubsetOrdering
    <2> QED
      BY <1>3, <1>4, <2>4, <2>5
  <1> QED
    BY <1>5

\* The rows that may be promoted together with nobody older left waiting.
Eldest(b, P) == \A k \in P, j \in Waiting(b) \ P : ~Older(b, j, k)

\* promote() always finds its rows: a largest set of eldest rows that fits is
\* as large as it should be, or the oldest of the others would fit too.
LEMMA SomeoneNextUp ==
  ASSUME NEW b \in Slot
  PROVE  NextUp(b) # {}
  <1> DEFINE W == Waiting(b)
             n == IF Cardinality(W) <= Open(b) THEN Cardinality(W) ELSE Open(b)
             Good == {P \in SUBSET W : Cardinality(P) <= n /\ Eldest(b, P)}
             Rest == {W \ P : P \in Good}
  <1>1. IsFiniteSet(W) /\ Cardinality(W) \in Nat /\ Taken(b) \in Nat /\ b.cap \in Nat
    BY KeysFinite, PeopleFinite, FS_Subset, FS_CardinalityType DEF Waiting, Slot, Taken, Active
  <1>2. n \in Nat /\ n <= Cardinality(W)
    BY <1>1 DEF Open, Full
  <1>3. \A P \in SUBSET W : IsFiniteSet(P) /\ Cardinality(P) \in Nat
    BY <1>1, FS_Subset, FS_CardinalityType
  <1> HIDE DEF n
  <1>4. {} \in Good
    BY <1>2, FS_EmptySet DEF Eldest
  <1>5. Rest \subseteq SUBSET W /\ Rest # {}
    BY <1>4
  <1>6. IsWellFoundedOn(StrictSubsetOrdering(W), SUBSET W)
    BY <1>1, FS_StrictSubsetOrderingWellFounded, FS_FiniteSubsetsOfFinite
  <1> HIDE DEF Rest
  <1>7. PICK x \in Rest : \A y \in Rest : ~(<<y, x>> \in StrictSubsetOrdering(W))
    BY <1>5, <1>6, WFMin
  <1>8. PICK P \in Good : x = W \ P
    BY DEF Rest
  <1>9. ASSUME Cardinality(P) # n PROVE FALSE
    <2>1. Cardinality(P) < n /\ W \ P # {}
      BY <1>2, <1>3, <1>8, <1>9
    <2>2. PICK j \in W \ P : \A i \in W \ P : ~Older(b, i, j)
      BY <2>1, OneEldest
    <2> DEFINE Q == P \cup {j}
    <2>3. Cardinality(Q) = Cardinality(P) + 1 /\ Q \in SUBSET W
      BY <1>3, <1>8, <2>2, FS_AddElement
    <2>4. Eldest(b, Q)
      BY <1>8, <2>2 DEF Eldest
    <2>5. Cardinality(Q) <= n
      BY <1>2, <1>3, <1>8, <2>1, <2>3
    <2>6. W \ Q \in Rest
      BY <2>3, <2>4, <2>5 DEF Rest
    <2>7. <<W \ Q, W \ P>> \in StrictSubsetOrdering(W)
      BY <2>2 DEF StrictSubsetOrdering
    <2> QED
      BY <1>7, <1>8, <2>6, <2>7
  <1>10. P \in NextUp(b)
    BY <1>8, <1>9 DEF NextUp, Eldest, n
  <1> QED
    BY <1>10

LEMMA WorkerGoes ==
  ASSUME Booking, NEW t \in Requests, pc[t] = "work"
  PROVE  Goes(t)
  <1> DEFINE b == draft[t][Here(t)]
             i == Item(t)
  <1>1. i \in Items /\ b \in Slot
    BY ItemType DEF Booking, Shape, TypeOK
  <1> HIDE DEF b, i
  <1>2. CASE i \in Claims
    BY <1>2 DEF Goes, Claims, b, i
  <1>3. CASE i \in Releases
    <2>1. i.act = "release" /\ DropRow(b, i.key) \in Slot
      BY <1>1, <1>3, DropRowType DEF Releases
    <2> QED
      BY <2>1, SomeoneNextUp DEF Goes, b, i
  <1>4. CASE i \in Resizes
    <2>1. i.act = "resize" /\ i.cap \in Nat
      BY <1>4, SlotsAssumption DEF Resizes
    <2>2. [b EXCEPT !.cap = i.cap] \in Slot
      BY <1>1, <2>1 DEF Slot
    <2> QED
      BY <2>1, <2>2, SomeoneNextUp DEF Goes, b, i
  <1> QED
    BY <1>1, <1>2, <1>3, <1>4 DEF Items

LEMMA NobodyWedged ==
  ASSUME Booking, Planned
  PROVE  SomebodyGoesOn
  <1> DEFINE S == {t \in Requests : pc[t] # "idle"}
  <1> SUFFICES ASSUME S # {}, \A t \in Requests : ~Goes(t)
               PROVE  \E t \in Requests :
                         Stuck(t) /\ \E u \in Requests : pc[u] # "idle" /\ kind[u] = "import"
    BY DEF SomebodyGoesOn
  <1>1. \A t \in S : pc[t] = "lock"
    <2> SUFFICES ASSUME NEW t \in S, pc[t] # "lock" PROVE FALSE
      OBVIOUS
    <2>1. pc[t] \in Stages /\ pc[t] # "idle"
      BY DEF Booking, Shape, TypeOK
    <2>2. pc[t] # "work"
      BY WorkerGoes
    <2> QED
      BY <2>1, <2>2 DEF Goes, Stages
  <1>2. ASSUME NEW t \in S PROVE \E u \in S : Waits(t, u)
    <2>1. PICK u \in Requests : Waits(t, u)
      BY <1>1, <1>2 DEF Goes
    <2>2. held[u] # {}
      BY <2>1 DEF Waits
    <2> QED
      BY <2>1, <2>2 DEF Planned
  <1>3. \A t \in S : Stuck(t)
    BY <1>2 DEF Stuck
  <1>4. \E u \in S : kind[u] = "import"
    <2> SUFFICES ASSUME \A u \in S : kind[u] # "import" PROVE FALSE
      OBVIOUS
    <2>1. S \in SUBSET {t \in Requests : kind[t] # "import"}
      OBVIOUS
    <2> HIDE DEF S
    <2> QED
      BY <1>2, <2>1, NoCircle DEF SignupsNeverDeadlock
  <1> QED
    BY <1>3, <1>4

\* For any number of requests and slots, purges included: while a request is
\* under way some request can take its next step, or an import and the requests
\* it waits for wait in a circle, which Postgres breaks.
THEOREM NoRequestIsWedged == Spec => []SomebodyGoesOn
  <1>1. Spec => []Booking
    BY BookingInit, BookingStep, PTL DEF Spec
  <1>2. Booking /\ Planned /\ [Next]_vars => Planned'
    BY PlannedStep
  <1>3. Booking /\ Planned => SomebodyGoesOn
    BY NobodyWedged
  <1> QED
    BY <1>1, <1>2, <1>3, PlannedInit, PTL DEF Spec
-----------------------------------------------------------------------------
(* Whom the unique index turns away (slots_conflict.cfg).  submitPublicSignup *)
(* takes the index's refusal for a lost race with the same details.           *)

\* A public sign-up is refused by the index only over a committed row that a
\* login owns: two families, or two clicks, with the same details never meet
\* there, since the lock lets the second one find the row of the first.
OnlyLoginsRefuse ==
    [][\A t \in Requests :
          kind[t] = "signup" /\ pc[t] # "clash" /\ pc'[t] = "clash"
          => Item(t).key \in Logins /\ book[Here(t)].owned[Item(t).key]]_vars

OwnedByLogins(b) == \A k \in Keys : b.owned[k] => k \in Logins

Honest(what, i) == i.act = "claim" =>
    (i.user => i.key \in Logins) /\ (what = "signup" => i.idem /\ ~i.user)

Owners ==
    /\ \A s \in Slots : OwnedByLogins(book[s])
    /\ \A t \in Requests : \A s \in Slots : OwnedByLogins(draft[t][s])
    /\ \A t \in Requests : \A n \in DOMAIN todo[t] : Honest(kind[t], todo[t][n])

LEMMA ArriveHonest ==
  ASSUME NEW t \in Requests, Arrive(t)
  PROVE  \E what \in Kinds : \E items :
            Begin(t, what, items) /\ \A n \in DOMAIN items : Honest(what, items[n])
  <1>1. CASE TakeSlot(t)
    <2>1. PICK s \in Slots, k \in Adults, u \in BOOLEAN :
            /\ u => k \in Logins
            /\ Begin(t, "take", <<[act |-> "claim", slot |-> s, key |-> k, user |-> u, idem |-> u]>>)
      BY <1>1 DEF TakeSlot
    <2> QED
      BY <2>1 DEF Honest, Kinds
  <1>2. CASE PublicSignup(t)
    <2>1. PICK S \in (SUBSET Slots) \ {{}}, scout \in Scouts : \E q \in IdOrder(S) :
            Begin(t, "signup", [i \in DOMAIN q |-> SignupItem(q[i], scout)])
      BY <1>2 DEF PublicSignup
    <2>2. PICK q \in IdOrder(S) :
            Begin(t, "signup", [i \in DOMAIN q |-> SignupItem(q[i], scout)])
      BY <2>1
    <2> DEFINE items == [i \in DOMAIN q |-> SignupItem(q[i], scout)]
    <2>3. \A n \in DOMAIN items : items[n].idem /\ ~items[n].user
      BY DEF SignupItem
    <2>4. Begin(t, "signup", items)
      BY <2>2
    <2> HIDE DEF items
    <2> QED
      BY <2>3, <2>4 DEF Honest, Kinds
  <1>3. CASE ReleaseSlot(t)
    <2>1. PICK s \in Slots, k \in Logins :
            Begin(t, "release", <<[act |-> "release", slot |-> s, key |-> k]>>)
      BY <1>3 DEF ReleaseSlot
    <2> QED
      BY <2>1 DEF Honest, Kinds
  <1>4. CASE ImportEventSlots(t)
    <2>1. PICK S \in (SUBSET Slots) \ {{}} : \E q \in Orders(S), size \in [S -> Sizes] :
            Begin(t, "import",
              [i \in DOMAIN q |-> [act |-> "resize", slot |-> q[i], cap |-> size[q[i]]]])
      BY <1>4 DEF ImportEventSlots
    <2>2. PICK q \in Orders(S), size \in [S -> Sizes] :
            Begin(t, "import",
              [i \in DOMAIN q |-> [act |-> "resize", slot |-> q[i], cap |-> size[q[i]]]])
      BY <2>1
    <2> DEFINE items == [i \in DOMAIN q |-> [act |-> "resize", slot |-> q[i], cap |-> size[q[i]]]]
    <2>3. \A n \in DOMAIN items : items[n].act = "resize"
      OBVIOUS
    <2>4. Begin(t, "import", items)
      BY <2>2
    <2> HIDE DEF items
    <2> QED
      BY <2>3, <2>4 DEF Honest, Kinds
  <1> QED
    BY <1>1, <1>2, <1>3, <1>4 DEF Arrive

\* An item gives a row to a login, or keeps the owners it finds.
LEMMA WorkOwners ==
  ASSUME Shape, Owners, NEW t \in Requests, Work(t)
  PROVE  \/ \E how \in {"full", "clash"} : Fails(t, how)
         \/ \E c \in Slot, P \in SUBSET Keys : Done(t, c, P) /\ OwnedByLogins(c)
  <1> DEFINE b == draft[t][Here(t)]
             i == Item(t)
  <1>1. pc[t] = "work" /\ (ClaimSlot(t, b, i) \/ Release(t, b, i) \/ Resize(t, b, i))
    BY DEF Work
  <1>2. i \in Items /\ Here(t) \in Slots /\ b \in Slot /\ began[t] \in Nat /\ OwnedByLogins(b)
    BY <1>1, ItemType DEF Shape, TypeOK, Owners
  <1>3. Honest(kind[t], i)
    <2>1. todo[t] \in Seq(Items) /\ todo[t] # <<>>
      BY <1>1 DEF Shape, TypeOK, Busy
    <2>2. 1 \in DOMAIN todo[t] /\ i = todo[t][1]
      BY <2>1, EmptySeq DEF Item
    <2> QED
      BY <2>2 DEF Owners
  <1> HIDE DEF b, i
  <1>4. CASE ClaimSlot(t, b, i)
    <2>1. i.key \in Keys /\ i.user \in BOOLEAN /\ (i.user => i.key \in Logins)
      BY <1>2, <1>3, <1>4 DEF ClaimSlot, Items, Claims, Releases, Resizes, Honest
    <2>2. CASE ClaimAgain(t, b, i)
      <3> DEFINE c == [b EXCEPT !.owned[i.key] = @ \/ i.user]
      <3>1. c \in Slot /\ OwnedByLogins(c)
        BY <1>2, <2>1 DEF Slot, OwnedByLogins
      <3>2. Done(t, c, {})
        BY <2>2 DEF ClaimAgain
      <3> QED
        BY <3>1, <3>2
    <2>3. CASE ClaimSeat(t, b, i)
      <3> DEFINE c == PutRow(b, i.key, IF Full(b) THEN "waiting" ELSE "active", i.user, began[t])
      <3>1. c \in Slot
        BY <1>2, <2>1, PutRowType
      <3>2. OwnedByLogins(c)
        BY <1>2, <2>1 DEF OwnedByLogins, PutRow, Slot
      <3>3. Done(t, c, {})
        BY <2>3 DEF ClaimSeat
      <3> QED
        BY <3>1, <3>2, <3>3
    <2> QED
      BY <1>4, <2>2, <2>3 DEF ClaimSlot, ClaimFull, ClaimClash
  <1>5. ASSUME NEW d \in Slot, OwnedByLogins(d), NEW P \in NextUp(d), Done(t, Promote(d, P), P)
        PROVE  \E c \in Slot, Q \in SUBSET Keys : Done(t, c, Q) /\ OwnedByLogins(c)
    <2>1. Promote(d, P) \in Slot /\ P \in SUBSET Keys
      BY PromoteType, PeopleFinite DEF NextUp
    <2>2. OwnedByLogins(Promote(d, P))
      BY <1>5 DEF OwnedByLogins, Promote, Slot
    <2> QED
      BY <1>5, <2>1, <2>2
  <1>6. CASE Release(t, b, i)
    <2>1. i.key \in Keys
      BY <1>2, <1>6 DEF Release, Items, Claims, Releases, Resizes
    <2>2. DropRow(b, i.key) \in Slot /\ OwnedByLogins(DropRow(b, i.key))
      <3>1. DropRow(b, i.key) \in Slot
        BY <1>2, <2>1, DropRowType
      <3>2. \A k \in Keys : DropRow(b, i.key).owned[k] => b.owned[k]
        BY <1>2, <2>1 DEF DropRow, Slot
      <3> QED
        BY <1>2, <3>1, <3>2 DEF OwnedByLogins
    <2>3. CASE b.owned[i.key]
      <3> DEFINE d == DropRow(b, i.key)
      <3>1. PICK P \in NextUp(d) : Done(t, Promote(d, P), P)
        BY <1>6, <2>3 DEF Release
      <3>2. d \in Slot /\ OwnedByLogins(d)
        BY <2>2
      <3> HIDE DEF d
      <3> QED
        BY <1>5, <3>1, <3>2
    <2>4. CASE ~b.owned[i.key]
      <3>1. Done(t, b, {})
        BY <1>6, <2>4 DEF Release
      <3> QED
        BY <1>2, <3>1
    <2> QED
      BY <2>3, <2>4
  <1>7. CASE Resize(t, b, i)
    <2>1. i.cap \in Nat
      BY <1>2, <1>7, SlotsAssumption DEF Resize, Items, Claims, Releases, Resizes
    <2>2. [b EXCEPT !.cap = i.cap] \in Slot /\ OwnedByLogins([b EXCEPT !.cap = i.cap])
      BY <1>2, <2>1 DEF Slot, OwnedByLogins
    <2> QED
      BY <1>5, <1>7, <2>2 DEF Resize
  <1> QED
    BY <1>1, <1>4, <1>6, <1>7

LEMMA OwnersStep ==
  ASSUME Booking, Owners, [Next]_vars
  PROVE  Owners'
  <1>1. TypeOK /\ Shape
    BY DEF Booking, Shape
  <1>2. \A s \in Slots : OwnedByLogins(EmptySlot(s))
    BY DEF OwnedByLogins, EmptySlot
  <1>3. ASSUME NEW t \in Requests, Arrive(t) PROVE Owners'
    <2>0. PICK what \in Kinds :
             \E items : Begin(t, what, items) /\ \A n \in DOMAIN items : Honest(what, items[n])
      BY <1>3, ArriveHonest
    <2>1. PICK items : Begin(t, what, items) /\ \A n \in DOMAIN items : Honest(what, items[n])
      BY <2>0
    <2>2. /\ UNCHANGED <<book, draft>> /\ todo'[t] = items /\ kind'[t] = what
          /\ \A u \in Requests \ {t} : todo'[u] = todo[u] /\ kind'[u] = kind[u]
      BY <1>1, <2>1 DEF Begin, TypeOK
    <2>3. \A u \in Requests : \A n \in DOMAIN todo'[u] : Honest(kind'[u], todo'[u][n])
      BY <2>1, <2>2 DEF Owners
    <2> QED
      BY <2>2, <2>3 DEF Owners, OwnedByLogins, Honest
  <1>4. ASSUME NEW t \in Requests, LockSlot(t) PROVE Owners'
    <2>1. UNCHANGED <<book, kind, todo>>
      BY <1>4 DEF LockSlot
    <2>2. \A u \in Requests : \A s \in Slots : draft'[u][s] \in {draft[u][s], book[s]}
      BY <1>1, <1>4 DEF LockSlot, TypeOK
    <2> QED
      BY <2>1, <2>2 DEF Owners, OwnedByLogins, Honest
  <1>5. ASSUME NEW t \in Requests, Work(t) PROVE Owners'
    <2>1. CASE \E how \in {"full", "clash"} : Fails(t, how)
      BY <2>1 DEF Fails, Owners, OwnedByLogins, Honest
    <2>2. ASSUME NEW c \in Slot, NEW P \in SUBSET Keys, Done(t, c, P), OwnedByLogins(c)
          PROVE  Owners'
      <3>1. /\ Here(t) \in Slots /\ UNCHANGED <<book, kind>>
            /\ draft'[t][Here(t)] = c
            /\ \A s \in Slots \ {Here(t)} : draft'[t][s] = draft[t][s]
            /\ \A u \in Requests \ {t} : draft'[u] = draft[u] /\ todo'[u] = todo[u]
            /\ todo'[t] = Tail(todo[t])
        BY <1>5, <2>2, DoneFrame DEF Work
      <3>2. \A u \in Requests : \A s \in Slots : OwnedByLogins(draft'[u][s])
        <4>1. \A s \in Slots : OwnedByLogins(draft'[t][s])
          BY <2>2, <3>1 DEF Owners
        <4> QED
          BY <3>1, <4>1 DEF Owners
      <3>3. \A n \in DOMAIN todo'[t] : Honest(kind[t], todo'[t][n])
        <4>1. todo[t] \in Seq(Items) /\ todo[t] # <<>>
          BY <1>1, <1>5 DEF Shape, TypeOK, Busy, Work
        <4>2. \A n \in DOMAIN Tail(todo[t]) : n + 1 \in DOMAIN todo[t] /\ Tail(todo[t])[n] = todo[t][n + 1]
          BY <4>1
        <4> QED
          BY <3>1, <4>2 DEF Owners
      <3>4. \A u \in Requests : \A n \in DOMAIN todo'[u] : Honest(kind'[u], todo'[u][n])
        BY <3>1, <3>3 DEF Owners
      <3> QED
        BY <3>1, <3>2, <3>4 DEF Owners, OwnedByLogins, Honest
    <2> QED
      BY <1>1, <1>5, <2>1, <2>2, WorkOwners
  <1>6. ASSUME NEW t \in Requests, Commit(t) PROVE Owners'
    <2>1. UNCHANGED <<kind, todo>> /\ \A s \in Slots : book'[s] \in {draft[t][s], book[s]}
      BY <1>6 DEF Commit
    <2>2. \A u \in Requests : \A s \in Slots : draft'[u][s] \in {draft[u][s], EmptySlot(s)}
      BY <1>1, <1>6 DEF Commit, TypeOK
    <2>3. \A u \in Requests : \A s \in Slots : OwnedByLogins(draft'[u][s])
      BY <1>2, <2>2 DEF Owners
    <2>4. \A s \in Slots : OwnedByLogins(book'[s])
      BY <2>1 DEF Owners
    <2> QED
      BY <2>1, <2>3, <2>4 DEF Owners, OwnedByLogins, Honest
  <1>7. ASSUME NEW t \in Requests, Leave(t), book' = book PROVE Owners'
    <2>1. /\ \A u \in Requests : \A s \in Slots : draft'[u][s] \in {draft[u][s], EmptySlot(s)}
          /\ kind' = kind /\ todo'[t] = <<>> /\ \A u \in Requests \ {t} : todo'[u] = todo[u]
      BY <1>1, <1>7 DEF Leave, TypeOK
    <2>2. \A u \in Requests : \A s \in Slots : OwnedByLogins(draft'[u][s])
      BY <1>2, <2>1 DEF Owners
    <2>3. \A u \in Requests : \A n \in DOMAIN todo'[u] : Honest(kind'[u], todo'[u][n])
      BY <2>1 DEF Owners
    <2> QED
      BY <1>7, <2>2, <2>3 DEF Owners, OwnedByLogins, Honest
  <1>8. ASSUME NEW t \in Requests,
               Rollback(t) \/ Abandon(t) \/ DeadlockVictim(t) \/ NotifyPromoted(t)
        PROVE  Owners'
    BY <1>7, <1>8 DEF Rollback, Abandon, DeadlockVictim, NotifyPromoted
  <1>9. ASSUME NEW k \in Expiring, PurgeScout(k) PROVE Owners'
    <2>1. k \in Keys /\ UNCHANGED <<kind, todo>>
      BY <1>9, SlotsAssumption DEF PurgeScout
    <2>2. ASSUME NEW b \in Slot, OwnedByLogins(b) PROVE OwnedByLogins(DropRow(b, k))
      BY <2>1, <2>2 DEF OwnedByLogins, DropRow, Slot
    <2>3. \A s \in Slots : book'[s] = DropRow(book[s], k) \/ book'[s] = book[s]
      BY <1>9 DEF PurgeScout
    <2>4. \A u \in Requests : \A s \in Slots :
             draft'[u][s] = DropRow(draft[u][s], k) \/ draft'[u][s] = draft[u][s]
      BY <1>9 DEF PurgeScout
    <2>5. \A s \in Slots : OwnedByLogins(book'[s])
      BY <1>1, <2>2, <2>3 DEF Owners, TypeOK
    <2>6. \A u \in Requests : \A s \in Slots : OwnedByLogins(draft'[u][s])
      BY <1>1, <2>2, <2>4 DEF Owners, TypeOK
    <2> QED
      BY <2>1, <2>5, <2>6 DEF Owners, OwnedByLogins, Honest
  <1>10. CASE UNCHANGED vars
    BY <1>10 DEF vars, Owners, OwnedByLogins, Honest
  <1> QED
    BY <1>3, <1>4, <1>5, <1>6, <1>8, <1>9, <1>10 DEF Next

LEMMA RefusedStep ==
  ASSUME Booking, Owners, [Next]_vars,
         NEW t \in Requests, kind[t] = "signup", pc[t] # "clash", pc'[t] = "clash"
  PROVE  Item(t).key \in Logins /\ book[Here(t)].owned[Item(t).key]
  <1>1. TypeOK /\ Shape
    BY DEF Booking, Shape
  <1>2. Work(t)
    <2>1. ASSUME NEW u \in Requests, NEW st \in Stages \ {"clash"}, pc' = [pc EXCEPT ![u] = st]
          PROVE  FALSE
      BY <1>1, <2>1 DEF TypeOK
    <2>2. ASSUME NEW u \in Requests, Arrive(u) PROVE FALSE
      BY <2>1, <2>2 DEF Arrive, TakeSlot, PublicSignup, ReleaseSlot, ImportEventSlots, Begin, Stages
    <2>3. ASSUME NEW u \in Requests,
                 LockSlot(u) \/ Commit(u) \/ Rollback(u) \/ NotifyPromoted(u)
                   \/ Abandon(u) \/ DeadlockVictim(u)
          PROVE  FALSE
      BY <2>1, <2>3 DEF LockSlot, Commit, Rollback, NotifyPromoted, Abandon, DeadlockVictim,
                        Leave, Stages
    <2>4. ASSUME NEW u \in Requests \ {t}, Work(u) PROVE FALSE
      <3>1. CASE \E how \in {"full", "clash"} : Fails(u, how)
        BY <1>1, <3>1 DEF Fails, TypeOK
      <3>2. CASE \E c \in Slot, P \in SUBSET Keys : Done(u, c, P)
        BY <1>1, <3>2 DEF Done, TypeOK
      <3> QED
        BY <1>1, <2>4, <3>1, <3>2, WorkOwners
    <2>5. pc' # pc
      OBVIOUS
    <2> QED
      BY <2>2, <2>3, <2>4, <2>5 DEF Next, vars, PurgeScout
  <1> DEFINE b == draft[t][Here(t)]
             i == Item(t)
  <1>3. pc[t] = "work" /\ (ClaimSlot(t, b, i) \/ Release(t, b, i) \/ Resize(t, b, i))
    BY <1>2 DEF Work
  <1>4. i \in Items /\ Here(t) \in Slots /\ b = book[Here(t)] /\ OwnedByLogins(b)
    BY <1>1, <1>3, ItemType DEF Booking, WorksOnHeld, Owners
  <1>5. Honest(kind[t], i)
    <2>1. todo[t] \in Seq(Items) /\ todo[t] # <<>>
      BY <1>1, <1>3 DEF Shape, TypeOK, Busy
    <2>2. 1 \in DOMAIN todo[t] /\ i = todo[t][1]
      BY <2>1, EmptySeq DEF Item
    <2> QED
      BY <2>2 DEF Owners
  <1> HIDE DEF b, i
  <1>6. ASSUME NEW c, NEW P, Done(t, c, P) PROVE FALSE
    BY <1>1, <1>6 DEF Done, TypeOK
  <1>7. ClaimClash(t, b, i) /\ i.act = "claim"
    BY <1>1, <1>3, <1>6 DEF ClaimSlot, ClaimAgain, ClaimSeat, ClaimFull, Release, Resize, Fails, TypeOK
  <1>8. i.key \in Keys /\ b.seat[i.key] # "none" /\ ~IsMine(b, i)
    BY <1>4, <1>5, <1>7 DEF ClaimClash, Honest, Items, Claims, Releases, Resizes
  <1> QED
    BY <1>4, <1>8 DEF IsMine, OwnedByLogins, i

\* For any slots, people and requests, a public sign-up that the unique index
\* refuses has met a row that a login owns, which a retry does not find either
\* (slots_conflict.cfg): a guest is never refused over a guest's row.
THEOREM OnlyLoginsRefuseSignups == Spec => OnlyLoginsRefuse
  <1>1. Init => Booking /\ Owners
    BY BookingInit DEF Init, Owners, OwnedByLogins, EmptySlot
  <1>2. Booking /\ Owners /\ [Next]_vars => (Booking /\ Owners)'
    BY BookingStep, OwnersStep
  <1>3. ASSUME Booking, Owners, [Next]_vars
        PROVE  [\A t \in Requests :
                   kind[t] = "signup" /\ pc[t] # "clash" /\ pc'[t] = "clash"
                   => Item(t).key \in Logins /\ book[Here(t)].owned[Item(t).key]]_vars
    BY <1>3, RefusedStep
  <1> QED
    BY <1>1, <1>2, <1>3, PTL DEF Spec, OnlyLoginsRefuse
=============================================================================
