---------------------------- MODULE SalesProofs -----------------------------
(***************************************************************************)
(* Sales, for any orders, handlers, amounts and number of requests: types, *)
(* one deposit for each order, whole and single reversals, cached balances *)
(* that match their rows, the refinement of Treasury, and the one way in   *)
(* which a cancelled order keeps its money.                                *)
(***************************************************************************)
EXTENDS Sales, FiniteSetTheorems, TLAPS

LEMMA JobFields ==
    ASSUME NEW j \in Job, NEW o \in Orders, NEW want \in Statuses,
           NEW seen \in Statuses \cup {"none"}, NEW posted \in BOOLEAN,
           NEW plan \in SUBSET Row, NEW by \in {"leader", "checkout", "intent", "booth"}
    PROVE  /\ [j EXCEPT !.order = o, !.want = want, !.seen = seen] \in Job
           /\ [j EXCEPT !.order = o, !.want = want, !.by = by] \in Job
           /\ [j EXCEPT !.order = o, !.seen = seen, !.want = want] \in Job
           /\ [j EXCEPT !.order = o, !.want = want, !.by = by, !.seen = seen] \in Job
           /\ [j EXCEPT !.order = o, !.plan = plan] \in Job
           /\ [j EXCEPT !.seen = seen, !.posted = posted, !.plan = plan] \in Job
           /\ [j EXCEPT !.want = want] \in Job
  BY DEF Job

LEMMA NoJobType == NoJob \in Job
  BY SalesAssumption DEF NoJob, Job, Statuses

LEMMA RowJob ==
    ASSUME NEW o \in Orders, NEW plan \in SUBSET Row
    PROVE  /\ [NoJob EXCEPT !.order = o, !.plan = plan] \in Job
           /\ [NoJob EXCEPT !.order = o, !.plan = plan].plan = plan
  BY NoJobType DEF Job

-----------------------------------------------------------------------------
(* The rows of one transaction, and what they come to. *)

LEMMA NewRowsType ==
    ASSUME NEW o \in Orders, NEW K \in SUBSET Kinds, entries \in Nat
    PROVE  /\ NewRows(o, K) \subseteq Row /\ IsFiniteSet(NewRows(o, K))
           /\ \A r \in NewRows(o, K) : r.order = o /\ r.kind \in K /\ r.batch = entries + 1
  <1>1. /\ NewRows(o, K) \subseteq Row
        /\ \A r \in NewRows(o, K) : r.order = o /\ r.kind \in K /\ r.batch = entries + 1
    BY DEF NewRows, Row
  <1>2. IsFiniteSet(Kinds) /\ IsFiniteSet(K)
    <2>1. Kinds = (({"deposit"} \cup {"out"}) \cup {"in"}) \cup {"credit"}
      BY DEF Kinds
    <2>2. IsFiniteSet(Kinds)
      BY <2>1, FS_Singleton, FS_Union
    <2> QED
      BY <2>2, FS_Subset
  <1>3. DEFINE f == [k \in K |-> [order |-> o, kind |-> k, batch |-> entries + 1]]
  <1>4. f \in Surjection(K, NewRows(o, K))
    BY DEF Surjection, NewRows
  <1> QED
    BY <1>1, <1>2, <1>4, FS_Surjection

LEMMA CountType ==
    ASSUME NEW S, IsFiniteSet(S)
    PROVE  Count(S) \in [Kinds -> Nat]
  <1>1. ASSUME NEW k \in Kinds PROVE Cardinality({r \in S : r.kind = k}) \in Nat
    BY FS_Subset, FS_CardinalityType
  <1> QED
    BY <1>1 DEF Count

LEMMA CountUnion ==
    ASSUME NEW S, NEW T, IsFiniteSet(S), IsFiniteSet(T), S \cap T = {}
    PROVE  \A k \in Kinds : Count(S \cup T)[k] = Count(S)[k] + Count(T)[k]
  <1> TAKE k \in Kinds
  <1> DEFINE A == {r \in S : r.kind = k}
             B == {r \in T : r.kind = k}
  <1>1. IsFiniteSet(A) /\ IsFiniteSet(B)
    BY FS_Subset
  <1>2. Cardinality(A) \in Nat /\ Cardinality(B) \in Nat
    BY <1>1, FS_CardinalityType
  <1>3. {r \in S \cup T : r.kind = k} = A \cup B /\ A \cap B = {}
    OBVIOUS
  <1>4. Cardinality(A \cap B) = 0
    BY <1>3, FS_EmptySet
  <1>5. Cardinality(A \cup B) = Cardinality(A) + Cardinality(B) - Cardinality(A \cap B)
    <2> HIDE DEF A, B
    <2> QED
      BY <1>1, FS_Union
  <1>6. Cardinality(A \cup B) = Cardinality(A) + Cardinality(B)
    <2> HIDE DEF A, B
    <2> QED
      BY <1>2, <1>4, <1>5
  <1> QED
    BY <1>3, <1>6 DEF Count

\* How many reversals of each kind there are.
BackCount(B) == [k \in Kinds |-> Cardinality({b \in B : b.row.kind = k})]

LEMMA BackCountType ==
    ASSUME NEW S, IsFiniteSet(S)
    PROVE  BackCount(S) \in [Kinds -> Nat]
  <1>1. ASSUME NEW k \in Kinds PROVE Cardinality({b \in S : b.row.kind = k}) \in Nat
    BY FS_Subset, FS_CardinalityType
  <1> QED
    BY <1>1 DEF BackCount

LEMMA BackCountUnion ==
    ASSUME NEW S, NEW T, IsFiniteSet(S), IsFiniteSet(T), S \cap T = {}
    PROVE  \A k \in Kinds : BackCount(S \cup T)[k] = BackCount(S)[k] + BackCount(T)[k]
  <1> TAKE k \in Kinds
  <1> DEFINE A == {b \in S : b.row.kind = k}
             B == {b \in T : b.row.kind = k}
  <1>1. IsFiniteSet(A) /\ IsFiniteSet(B)
    BY FS_Subset
  <1>2. Cardinality(A) \in Nat /\ Cardinality(B) \in Nat
    BY <1>1, FS_CardinalityType
  <1>3. {b \in S \cup T : b.row.kind = k} = A \cup B /\ A \cap B = {}
    OBVIOUS
  <1>4. Cardinality(A \cap B) = 0
    BY <1>3, FS_EmptySet
  <1>5. Cardinality(A \cup B) = Cardinality(A) + Cardinality(B) - Cardinality(A \cap B)
    <2> HIDE DEF A, B
    <2> QED
      BY <1>1, FS_Union
  <1>6. Cardinality(A \cup B) = Cardinality(A) + Cardinality(B)
    <2> HIDE DEF A, B
    <2> QED
      BY <1>2, <1>4, <1>5
  <1> QED
    BY <1>3, <1>6 DEF BackCount

NewBacks(T, n, hand) == [row : T, batch : {n}, hand : {hand}]

\* One reversal for each row taken back.
LEMMA NewBacksCount ==
    ASSUME NEW T, IsFiniteSet(T), NEW n, NEW hand
    PROVE  /\ IsFiniteSet(NewBacks(T, n, hand))
           /\ BackCount(NewBacks(T, n, hand)) = Count(T)
  <1>1. ASSUME NEW S, IsFiniteSet(S)
        PROVE  /\ IsFiniteSet(NewBacks(S, n, hand))
               /\ Cardinality(NewBacks(S, n, hand)) = Cardinality(S)
    <2> DEFINE f == [r \in S |-> [row |-> r, batch |-> n, hand |-> hand]]
    <2>1. f \in [S -> NewBacks(S, n, hand)]
      BY DEF NewBacks
    <2>2. ASSUME NEW r \in S, NEW q \in S, f[r] = f[q] PROVE r = q
      <3>1. f[r].row = r /\ f[q].row = q
        OBVIOUS
      <3> QED
        BY <2>2, <3>1
    <2>3. \A b \in NewBacks(S, n, hand) : \E r \in S : f[r] = b
      BY DEF NewBacks
    <2> HIDE DEF f
    <2>4. f \in Bijection(S, NewBacks(S, n, hand))
      <3>1. f \in Injection(S, NewBacks(S, n, hand))
        BY <2>1, <2>2, Zenon DEF Injection, IsInjective
      <3>2. f \in Surjection(S, NewBacks(S, n, hand))
        BY <2>1, <2>3, Zenon DEF Surjection
      <3> QED
        BY <3>1, <3>2, Zenon DEF Bijection
    <2> QED
      BY <1>1, <2>4, FS_Bijection DEF ExistsBijection
  <1>2. ASSUME NEW k \in Kinds
        PROVE  Cardinality({b \in NewBacks(T, n, hand) : b.row.kind = k})
                 = Cardinality({r \in T : r.kind = k})
    <2>1. {b \in NewBacks(T, n, hand) : b.row.kind = k}
            = NewBacks({r \in T : r.kind = k}, n, hand)
      BY DEF NewBacks
    <2>2. IsFiniteSet({r \in T : r.kind = k})
      BY FS_Subset
    <2> QED
      BY <1>1, <2>1, <2>2
  <1> QED
    BY <1>1, <1>2 DEF BackCount, Count

LEMMA ValueSum ==
    ASSUME NEW m \in [Kinds -> Nat], NEW n \in [Kinds -> Nat], NEW p \in [Kinds -> Nat],
           \A k \in Kinds : p[k] = m[k] + n[k], NEW x \in Books
    PROVE  /\ Value(m, x) \in Int /\ Value(n, x) \in Int
           /\ Value(p, x) = Value(m, x) + Value(n, x)
  <1>1. Gross \in Int /\ Share \in Int
    BY SalesAssumption
  <1>2. \A k \in Kinds : m[k] \in Int /\ n[k] \in Int /\ p[k] = m[k] + n[k]
    OBVIOUS
  <1>3. /\ m["deposit"] \in Int /\ m["out"] \in Int /\ m["in"] \in Int /\ m["credit"] \in Int
        /\ n["deposit"] \in Int /\ n["out"] \in Int /\ n["in"] \in Int /\ n["credit"] \in Int
    BY DEF Kinds
  <1>4. /\ p["deposit"] = m["deposit"] + n["deposit"] /\ p["out"] = m["out"] + n["out"]
        /\ p["in"] = m["in"] + n["in"] /\ p["credit"] = m["credit"] + n["credit"]
    BY DEF Kinds
  <1>5. CASE x = "campaign"
    <2> DEFINE a == m["deposit"]
               b == m["out"]
               c == n["deposit"]
               d == n["out"]
    <2>1. a \in Int /\ b \in Int /\ c \in Int /\ d \in Int
      BY <1>3
    <2>2. Value(m, x) = Gross * a - Share * b /\ Value(n, x) = Gross * c - Share * d
      BY <1>5 DEF Value
    <2>3. Value(p, x) = Gross * (a + c) - Share * (b + d)
      BY <1>4, <1>5 DEF Value
    <2> HIDE DEF a, b, c, d
    <2>4. Gross * a - Share * b \in Int /\ Gross * c - Share * d \in Int
      BY <1>1, <2>1
    <2>5. Gross * (a + c) - Share * (b + d) = (Gross * a - Share * b) + (Gross * c - Share * d)
      BY <1>1, <2>1
    <2> QED
      BY <2>2, <2>3, <2>4, <2>5, Zenon
  <1>6. CASE x = "scouts"
    <2> DEFINE a == m["in"]
               b == m["credit"]
               c == n["in"]
               d == n["credit"]
    <2>1. a \in Int /\ b \in Int /\ c \in Int /\ d \in Int
      BY <1>3
    <2>2. Value(m, x) = Share * (a + b) /\ Value(n, x) = Share * (c + d)
      BY <1>6 DEF Value
    <2>3. Value(p, x) = Share * ((a + c) + (b + d))
      BY <1>4, <1>6 DEF Value
    <2> HIDE DEF a, b, c, d
    <2>4. Share * (a + b) \in Int /\ Share * (c + d) \in Int
      BY <1>1, <2>1
    <2>5. Share * ((a + c) + (b + d)) = (Share * (a + b)) + (Share * (c + d))
      BY <1>1, <2>1
    <2> QED
      BY <2>2, <2>3, <2>4, <2>5, Zenon
  <1>7. CASE x = "member"
    <2> DEFINE a == m["credit"]
               c == n["credit"]
    <2>1. a \in Int /\ c \in Int
      BY <1>3
    <2>2. Value(m, x) = Share * a /\ Value(n, x) = Share * c
      BY <1>7 DEF Value
    <2>3. Value(p, x) = Share * (a + c)
      BY <1>4, <1>7 DEF Value
    <2> HIDE DEF a, c
    <2>4. Share * a \in Int /\ Share * c \in Int
      BY <1>1, <2>1
    <2>5. Share * (a + c) = (Share * a) + (Share * c)
      BY <1>1, <2>1
    <2> QED
      BY <2>2, <2>3, <2>4, <2>5, Zenon
  <1> QED
    BY <1>5, <1>6, <1>7 DEF Books
-----------------------------------------------------------------------------
(* The ledger.  Rows are numbered by their transaction, so a new row is new; *)
(* a repair that nothing overtook has the right sum.                         *)

Numbered == /\ \A r \in rows : r.batch <= entries
            /\ \A b \in backs : b.row \in rows /\ b.batch <= entries

Summed == audit.at = "summed" /\ ~audit.moved => audit.sum = Actual(audit.book)

LedgerType ==
    /\ rows \subseteq Row /\ IsFiniteSet(rows)
    /\ backs \subseteq Back /\ IsFiniteSet(backs)
    /\ bal \in [Books -> Int]
    /\ audit \in [at : {"idle", "read", "summed"}, book : Books, cached : Int,
                  sum : Int, moved : BOOLEAN]
    /\ overtaken \in BOOLEAN /\ entries \in Nat

Ledger == LedgerType /\ Numbered /\ Summed /\ ReversedOnce /\ CachesMatch

LEMMA ActualType ==
    ASSUME LedgerType, NEW x \in Books
    PROVE  Actual(x) \in Int
  <1> DEFINE zero == [k \in Kinds |-> 0]
  <1>1. Count(rows) \in [Kinds -> Nat] /\ BackCount(backs) \in [Kinds -> Nat]
    BY CountType, BackCountType DEF LedgerType
  <1>2. zero \in [Kinds -> Nat]
    OBVIOUS
  <1>3. \A k \in Kinds : Count(rows)[k] = Count(rows)[k] + zero[k]
                       /\ BackCount(backs)[k] = BackCount(backs)[k] + zero[k]
    BY <1>1
  <1> HIDE DEF zero
  <1>4. Value(Count(rows), x) \in Int /\ Value(BackCount(backs), x) \in Int
    BY <1>1, <1>2, <1>3, ValueSum
  <1> QED
    BY <1>4 DEF Actual, BackCount

\* A transaction moves a balance as it moves its rows' sum.
LEMMA PostLedger ==
    ASSUME Ledger, NEW S \in SUBSET Row, IsFiniteSet(S),
           \A r \in S : r.batch = entries + 1,
           NEW T \in SUBSET rows, \A r \in T : Reversible(r),
           NEW hand \in BOOLEAN, Post(S, T, hand)
    PROVE  /\ Ledger'
           /\ rows' = rows \cup S
           /\ Standing' \subseteq (Standing \ T) \cup S
  <1> DEFINE new == NewBacks(T, entries + 1, hand)
  <1>1. /\ rows' = rows \cup S /\ backs' = backs \cup new
        /\ entries' = entries + 1 /\ overtaken' = overtaken
        /\ bal' = [x \in Books |-> bal[x] + Moves(S, x) - Moves(T, x)]
        /\ audit' = [audit EXCEPT !.moved = audit.at = "summed"]
    BY DEF Post, NewBacks
  <1>2. IsFiniteSet(T) /\ IsFiniteSet(rows) /\ IsFiniteSet(backs)
    BY FS_Subset DEF Ledger, LedgerType
  <1>3. IsFiniteSet(new) /\ BackCount(new) = Count(T)
    BY <1>2, NewBacksCount
  <1>4. new \subseteq Back /\ \A b \in new : b.row \in T /\ b.batch = entries + 1
    BY DEF NewBacks, Back, Ledger, LedgerType
  <1>5. rows \cap S = {} /\ backs \cap new = {}
    <2>1. \A r \in rows : r.batch <= entries /\ r.batch \in Nat
      BY DEF Ledger, LedgerType, Numbered, Row
    <2>2. \A b \in backs : b.batch <= entries /\ b.batch \in Nat
      BY DEF Ledger, LedgerType, Numbered, Back
    <2>3. entries \in Nat
      BY DEF Ledger, LedgerType
    <2> QED
      BY <1>4, <2>1, <2>2, <2>3
  <1>6. Count(S) \in [Kinds -> Nat] /\ Count(T) \in [Kinds -> Nat]
        /\ Count(rows) \in [Kinds -> Nat] /\ BackCount(backs) \in [Kinds -> Nat]
    BY <1>2, CountType, BackCountType
  <1>7. IsFiniteSet(rows') /\ IsFiniteSet(backs')
    BY <1>1, <1>2, <1>3, FS_Union
  <1>8. ASSUME NEW x \in Books
        PROVE  /\ Moves(S, x) \in Int /\ Moves(T, x) \in Int
               /\ Actual(x)' = Actual(x) + Moves(S, x) - Moves(T, x)
    <2> HIDE DEF new
    <2>1. Count(rows') \in [Kinds -> Nat] /\ BackCount(backs') \in [Kinds -> Nat]
      BY <1>7, CountType, BackCountType
    <2>2. \A k \in Kinds : Count(rows')[k] = Count(rows)[k] + Count(S)[k]
      BY <1>1, <1>2, <1>5, CountUnion
    <2>3. \A k \in Kinds : BackCount(backs')[k] = BackCount(backs)[k] + Count(T)[k]
      BY <1>1, <1>2, <1>3, <1>5, BackCountUnion
    <2>4. /\ Value(Count(rows), x) \in Int /\ Value(Count(S), x) \in Int
          /\ Value(Count(rows'), x) = Value(Count(rows), x) + Value(Count(S), x)
      BY <1>6, <2>1, <2>2, ValueSum
    <2>5. /\ Value(BackCount(backs), x) \in Int /\ Value(Count(T), x) \in Int
          /\ Value(BackCount(backs'), x) = Value(BackCount(backs), x) + Value(Count(T), x)
      BY <1>6, <2>1, <2>3, ValueSum
    <2>6. /\ Actual(x) = Value(Count(rows), x) - Value(BackCount(backs), x)
          /\ Actual(x)' = Value(Count(rows'), x) - Value(BackCount(backs'), x)
      BY DEF Actual, BackCount, Count, Value
    <2> QED
      BY <2>4, <2>5, <2>6 DEF Moves
  <1>9. LedgerType'
    <2>1. rows' \subseteq Row /\ backs' \subseteq Back
      BY <1>1, <1>4 DEF Ledger, LedgerType
    <2>2. bal' \in [Books -> Int]
      BY <1>1, <1>8 DEF Ledger, LedgerType
    <2>3. /\ overtaken' \in BOOLEAN /\ entries' \in Nat
          /\ audit' \in [at : {"idle", "read", "summed"}, book : Books, cached : Int,
                         sum : Int, moved : BOOLEAN]
      <3>1. overtaken' \in BOOLEAN /\ entries' \in Nat
        BY <1>1 DEF Ledger, LedgerType
      <3>2. (audit.at = "summed") \in BOOLEAN
        OBVIOUS
      <3>3. audit' \in [at : {"idle", "read", "summed"}, book : Books, cached : Int,
                        sum : Int, moved : BOOLEAN]
        BY <1>1, <3>2 DEF Ledger, LedgerType
      <3> QED
        BY <3>1, <3>3
    <2> QED
      BY <1>7, <2>1, <2>2, <2>3 DEF LedgerType
  <1>10. Numbered'
    BY <1>1, <1>4 DEF Numbered, Ledger, LedgerType, Row, Back
  <1>11. Summed'
    BY <1>1 DEF Summed, Ledger, LedgerType
  <1>12. ReversedOnce'
    <2>1. \A b \in backs : b.row \notin T
      BY DEF Reversible, Reversed
    <2>2. \A b, c \in new : b.row = c.row => b = c
      BY DEF NewBacks
    <2> QED
      BY <1>1, <1>4, <2>1, <2>2 DEF ReversedOnce, Ledger
  <1>13. CachesMatch'
    <2> SUFFICES ASSUME ~overtaken', NEW x \in Books
                 PROVE  bal'[x] = Actual(x)'
      BY DEF CachesMatch
    <2>1. bal[x] = Actual(x)
      BY <1>1 DEF CachesMatch, Ledger
    <2> QED
      BY <1>1, <1>8, <2>1
  <1>14. Standing' \subseteq (Standing \ T) \cup S
    <2>1. \A r \in T : \E b \in new : b.row = r
      <3>1. ASSUME NEW r \in T
            PROVE  \E b \in new : b.row = r
        <4>1. [row |-> r, batch |-> entries + 1, hand |-> hand] \in new
          BY DEF NewBacks
        <4> QED
          BY <4>1
      <3> QED
        BY <3>1
    <2> QED
      BY <1>1, <2>1 DEF Standing, Reversed
  <1> QED
    BY <1>1, <1>9, <1>10, <1>11, <1>12, <1>13, <1>14 DEF Ledger
-----------------------------------------------------------------------------
LEMMA SameLedger ==
    ASSUME Ledger, UNCHANGED bookVars
    PROVE  Ledger' /\ Standing' = Standing
  BY DEF bookVars, Ledger, LedgerType, Numbered, Summed, ReversedOnce, CachesMatch,
         Actual, Count, Value, Standing, Reversed

LEMMA ReadBalanceLedger ==
    ASSUME Ledger, NEW x \in Books, ReadBalance(x)
    PROVE  Ledger'
  <1>1. audit' = [at |-> "read", book |-> x, cached |-> bal[x], sum |-> 0, moved |-> FALSE]
    BY DEF ReadBalance, Audit, NoAudit
  <1>2. UNCHANGED <<rows, backs, bal, overtaken, entries>>
    BY DEF ReadBalance, Audit
  <1>3. \A y : Actual(y)' = Actual(y)
    BY <1>2 DEF Actual, Count, Value
  <1>4. LedgerType'
    BY <1>1, <1>2 DEF Ledger, LedgerType
  <1>5. Numbered' /\ ReversedOnce'
    BY <1>2 DEF Ledger, Numbered, ReversedOnce
  <1>6. Summed' /\ CachesMatch'
    BY <1>1, <1>2, <1>3 DEF Ledger, Summed, CachesMatch
  <1> QED
    BY <1>4, <1>5, <1>6 DEF Ledger

LEMMA SumRowsLedger ==
    ASSUME Ledger, SumRows
    PROVE  Ledger'
  <1>1. UNCHANGED <<rows, backs, bal, overtaken, entries>>
    BY DEF SumRows, Audit
  <1>2. audit.book \in Books
    BY DEF Ledger, LedgerType
  <1>3. Actual(audit.book) \in Int
    BY <1>2, ActualType DEF Ledger
  <1>4. \/ audit' = NoAudit
        \/ audit' = [audit EXCEPT !.at = "summed", !.sum = Actual(audit.book)]
    BY DEF SumRows, Audit
  <1>5. /\ audit'.at = "summed" => audit'.sum = Actual(audit'.book)
        /\ audit' \in [at : {"idle", "read", "summed"}, book : Books, cached : Int,
                       sum : Int, moved : BOOLEAN]
    <2>1. CASE audit' = NoAudit
      BY <2>1 DEF NoAudit, Books
    <2>2. CASE audit' = [audit EXCEPT !.at = "summed", !.sum = Actual(audit.book)]
      <3> DEFINE n == Actual(audit.book)
      <3>1. n \in Int /\ audit' = [audit EXCEPT !.at = "summed", !.sum = n]
        BY <1>3, <2>2
      <3> HIDE DEF n
      <3>2. /\ audit'.sum = n /\ audit'.book = audit.book
            /\ audit' \in [at : {"idle", "read", "summed"}, book : Books, cached : Int,
                           sum : Int, moved : BOOLEAN]
        BY <3>1 DEF Ledger, LedgerType
      <3> QED
        BY <3>2 DEF n
    <2> QED
      BY <1>4, <2>1, <2>2
  <1>6. \A x : Actual(x)' = Actual(x)
    BY <1>1 DEF Actual, Count, Value
  <1> QED
    BY <1>1, <1>5, <1>6 DEF Ledger, LedgerType, Numbered, Summed, ReversedOnce, CachesMatch

\* The repair writes the sum it took: right unless it was overtaken.
LEMMA FixBalanceLedger ==
    ASSUME Ledger, FixBalance
    PROVE  Ledger'
  <1>1. /\ UNCHANGED <<rows, backs, entries>> /\ audit' = NoAudit
        /\ bal' = [bal EXCEPT ![audit.book] = audit.sum]
        /\ overtaken' = (overtaken \/ audit.moved) /\ audit.at = "summed"
    BY DEF FixBalance, Audit
  <1>2. \A x : Actual(x)' = Actual(x)
    BY <1>1 DEF Actual, Count, Value
  <1>3. CachesMatch'
    BY <1>1, <1>2 DEF CachesMatch, Summed, Ledger, LedgerType
  <1> QED
    BY <1>1, <1>3 DEF Ledger, LedgerType, Numbered, Summed, ReversedOnce, NoAudit, Books

-----------------------------------------------------------------------------
(* The types of everything else. *)

OrderType ==
    /\ status \in [Orders -> Statuses \cup {"none"}]
    /\ deposit \in [Orders -> BOOLEAN] /\ handed \in [Orders -> BOOLEAN]
    /\ unpaid \subseteq Online
    /\ events \in [Orders -> SUBSET {"checkout", "intent"}]
    /\ pc \in [Handlers -> Stages]
    /\ job \in [Handlers -> Job]
    /\ asked \in Nat

\* Where a request goes, and with what, is typed when its new job is.
LEMMA PcJobType ==
    ASSUME OrderType, NEW h \in Handlers, NEW stage \in Stages, NEW j \in Job,
           pc' = [pc EXCEPT ![h] = stage], job' = [job EXCEPT ![h] = j]
    PROVE  pc' \in [Handlers -> Stages] /\ job' \in [Handlers -> Job]
  BY DEF OrderType

LEMMA EndsType ==
    ASSUME OrderType, NEW h \in Handlers, Ends(h)
    PROVE  pc' \in [Handlers -> Stages] /\ job' \in [Handlers -> Job]
  BY NoJobType DEF OrderType, Ends, Stages

LEMMA GoesType ==
    ASSUME OrderType, NEW h \in Handlers, NEW stage \in Stages, Goes(h, stage)
    PROVE  pc' \in [Handlers -> Stages] /\ job' \in [Handlers -> Job]
  BY DEF OrderType, Goes

LEMMA RequestType ==
    ASSUME OrderType, NEW h \in Handlers, NEW stage \in Stages, NEW j \in Job,
           Request(h, stage, j), handed' = handed, deposit' = deposit,
           status' \in [Orders -> Statuses \cup {"none"}]
    PROVE  OrderType'
  BY DEF Request, Begin, OrderType, stripeVars
-----------------------------------------------------------------------------
LEMMA OrderTypeStep ==
    ASSUME OrderType, rows \subseteq Row, [Next]_vars
    PROVE  OrderType'
  <1> USE DEF OrderType
  <1>1. ASSUME NEW o \in Orders, PlaceOrder(o) \/ BuyerPays(o) PROVE OrderType'
    BY <1>1, SalesAssumption DEF PlaceOrder, BuyerPays, orderVars, Statuses
  <1>2. ASSUME NEW h \in Handlers, NEW o \in Orders, CreateOrder(h, o) PROVE OrderType'
    <2> DEFINE j == [NoJob EXCEPT !.order = o, !.want = "paid",
                               !.by = IF o \in Booths THEN "booth" ELSE "leader"]
    <2>1. j \in Job
      BY NoJobType, JobFields, SalesAssumption DEF Statuses
    <2>2. status' \in [Orders -> Statuses \cup {"none"}]
      BY <1>2 DEF CreateOrder, Statuses
    <2>3. Request(h, "settle", j) /\ handed' = handed /\ deposit' = deposit
      BY <1>2 DEF CreateOrder
    <2> HIDE DEF j
    <2> QED
      BY <2>1, <2>2, <2>3, RequestType DEF Stages
  <1>3. ASSUME NEW h \in Handlers, NEW o \in Orders, NEW want \in Wanted,
               UpdateOrderStatus(h, o, want)
        PROVE  OrderType'
    <2> DEFINE j == [NoJob EXCEPT !.order = o, !.want = want, !.seen = status[o]]
    <2>1. j \in Job
      BY NoJobType, JobFields, SalesAssumption DEF Statuses, Wanted
    <2>2. PICK stage \in {"settle", "unsettle", "update"} : Request(h, stage, j)
      BY <1>3 DEF UpdateOrderStatus
    <2>3. UNCHANGED orderVars
      BY <1>3 DEF UpdateOrderStatus
    <2> HIDE DEF j
    <2> QED
      BY <2>1, <2>2, <2>3, RequestType DEF Stages, orderVars
  <1>4. ASSUME NEW h \in Handlers, NEW o \in Orders, NEW all \in BOOLEAN,
               SetItemDelivered(h, o, all)
        PROVE  OrderType'
    <2> DEFINE j == [NoJob EXCEPT !.order = o, !.seen = status[o],
                                  !.want = IF all THEN "delivered" ELSE "placed"]
    <2>1. j \in Job
      BY NoJobType, JobFields, SalesAssumption DEF Statuses
    <2>2. Request(h, "item", j) /\ UNCHANGED orderVars
      BY <1>4 DEF SetItemDelivered
    <2> HIDE DEF j
    <2> QED
      BY <2>1, <2>2, RequestType DEF Stages, orderVars
  <1>5. ASSUME NEW h \in Handlers, NEW r \in Standing, ReverseRow(h, r) PROVE OrderType'
    <2> DEFINE j == [NoJob EXCEPT !.order = r.order, !.plan = {r}]
    <2>1. r \in Row /\ r.order \in Orders /\ {r} \in SUBSET Row
      BY DEF Standing, Row
    <2>2. j \in Job
      BY <2>1, RowJob
    <2>3. Request(h, "reverse", j) /\ UNCHANGED orderVars
      BY <1>5 DEF ReverseRow
    <2> HIDE DEF j
    <2> QED
      BY <2>2, <2>3, RequestType DEF Stages, orderVars
  <1>6. ASSUME NEW h \in Handlers, NEW o \in Orders, NEW e \in events[o], Webhook(h, o, e)
        PROVE  OrderType'
    <2> DEFINE j == [NoJob EXCEPT !.order = o, !.want = "paid", !.by = e, !.seen = status[o]]
    <2>1. j \in Job
      BY NoJobType, JobFields DEF Statuses
    <2>2. pc' \in [Handlers -> Stages] /\ job' \in [Handlers -> Job]
      <3>1. CASE Paid(status[o])
        BY <1>6, <3>1 DEF Webhook
      <3>2. CASE ~Paid(status[o])
        <4>1. Begin(h, "settle", j)
          BY <1>6, <3>2 DEF Webhook
        <4> HIDE DEF j
        <4> QED
          BY <2>1, <4>1, PcJobType DEF Begin, Stages
      <3> QED
        BY <3>1, <3>2
    <2> HIDE DEF j
    <2>3. events' \in [Orders -> SUBSET {"checkout", "intent"}]
      BY <1>6 DEF Webhook
    <2> QED
      BY <1>6, <2>2, <2>3 DEF Webhook, orderVars
  <1>7. ASSUME NEW h \in Handlers, LockOrder(h) PROVE OrderType'
    <2> DEFINE o == job[h].order
               p == IF pc[h] = "settle" THEN {} ELSE {r \in Standing : r.order = o /\ Tied(r)}
               j == [job[h] EXCEPT !.seen = status[o], !.posted = deposit[o], !.plan = p]
    <2>1. o \in Orders /\ job[h] \in Job
      BY DEF Job
    <2>2. p \in SUBSET Row
      BY DEF Standing
    <2>3. j \in Job
      <3> HIDE DEF o, p
      <3>1. status[o] \in Statuses \cup {"none"} /\ deposit[o] \in BOOLEAN
        BY <2>1
      <3> QED
        BY <2>1, <2>2, <3>1 DEF Job
    <2>4. job' = [job EXCEPT ![h] = j]
      BY <1>7 DEF LockOrder
    <2>5. job' \in [Handlers -> Job]
      <3> HIDE DEF j
      <3> QED
        BY <2>3, <2>4
    <2> HIDE DEF o, p, j
    <2> QED
      BY <1>7, <2>5 DEF LockOrder, orderVars, stripeVars, Stages
  <1>8. ASSUME NEW h \in Handlers, Settle(h) PROVE OrderType'
    <2>1. job[h].order \in Orders
      BY DEF Job
    <2>2. pc' \in [Handlers -> Stages] /\ job' \in [Handlers -> Job]
      BY <1>8, EndsType, GoesType DEF Settle, Stages
    <2>3. status' \in [Orders -> Statuses \cup {"none"}] /\ deposit' \in [Orders -> BOOLEAN]
      BY <1>8 DEF Settle, Statuses
    <2>4. events' \in [Orders -> SUBSET {"checkout", "intent"}] /\ unpaid' = unpaid
      BY <1>8, <2>1 DEF Settle, Answers
    <2> QED
      BY <1>8, <2>2, <2>3, <2>4 DEF Settle
  <1>9. ASSUME NEW h \in Handlers, Unsettle(h) PROVE OrderType'
    <2>1. job[h].want \in Statuses
      BY DEF Job
    <2>2. pc' \in [Handlers -> Stages] /\ job' \in [Handlers -> Job]
      BY <1>9, EndsType DEF Unsettle
    <2>3. status' \in [Orders -> Statuses \cup {"none"}] /\ deposit' \in [Orders -> BOOLEAN]
      BY <1>9, <2>1 DEF Unsettle
    <2> QED
      BY <1>9, <2>2, <2>3 DEF Unsettle, stripeVars
  <1>10. ASSUME NEW h \in Handlers, PlainUpdate(h) PROVE OrderType'
    <2>1. job[h].want \in Statuses
      BY DEF Job
    <2>2. pc' \in [Handlers -> Stages] /\ job' \in [Handlers -> Job]
      BY <1>10, EndsType DEF PlainUpdate
    <2> QED
      BY <1>10, <2>1, <2>2 DEF PlainUpdate, stripeVars
  <1>11. ASSUME NEW h \in Handlers, WriteItem(h) PROVE OrderType'
    <2>1. pc' \in [Handlers -> Stages] /\ job' \in [Handlers -> Job]
      BY <1>11, GoesType DEF WriteItem, Stages
    <2> QED
      BY <1>11, <2>1 DEF WriteItem, stripeVars
  <1>12. ASSUME NEW h \in Handlers, CheckItems(h) PROVE OrderType'
    <2>1. [job[h] EXCEPT !.want = "delivered"] \in Job
      BY DEF Job, Statuses
    <2>2. pc' \in [Handlers -> Stages] /\ job' \in [Handlers -> Job]
      <3>1. CASE handed[job[h].order] /\ job[h].seen = "paid"
        BY <1>12, <2>1, <3>1 DEF CheckItems, Stages
      <3>2. CASE ~(handed[job[h].order] /\ job[h].seen = "paid")
        BY <1>12, <3>2, EndsType DEF CheckItems
      <3> QED
        BY <3>1, <3>2
    <2> QED
      BY <1>12, <2>2 DEF CheckItems, stripeVars, orderVars
  <1>13. ASSUME NEW h \in Handlers, Reverse(h) \/ BoothCredit(h) \/ Crash(h)
         PROVE  OrderType'
    <2>1. pc' \in [Handlers -> Stages] /\ job' \in [Handlers -> Job]
      BY <1>13, EndsType DEF Reverse, BoothCredit, Crash
    <2> QED
      BY <1>13, <2>1 DEF Reverse, BoothCredit, Crash, stripeVars, orderVars
  <1>14. ASSUME NEW h \in Handlers, BoothTransfer(h) PROVE OrderType'
    <2>1. pc' \in [Handlers -> Stages] /\ job' \in [Handlers -> Job]
      BY <1>14, GoesType DEF BoothTransfer, Stages
    <2> QED
      BY <1>14, <2>1 DEF BoothTransfer, stripeVars, orderVars
  <1>15. ASSUME (\E x \in Books : ReadBalance(x)) \/ SumRows \/ FixBalance
         PROVE  OrderType'
    <2>1. UNCHANGED <<status, deposit, handed, unpaid, events, pc, job>>
      BY <1>15 DEF ReadBalance, SumRows, FixBalance, Audit, stripeVars, orderVars
    <2>2. asked' \in {asked, asked + 1}
      BY <1>15 DEF ReadBalance, SumRows, FixBalance
    <2> QED
      BY <2>1, <2>2
  <1>16. CASE UNCHANGED vars
    BY <1>16 DEF vars
  <1> QED
    BY <1>1, <1>2, <1>3, <1>4, <1>5, <1>6, <1>7, <1>8, <1>9, <1>10, <1>11, <1>12,
       <1>13, <1>14, <1>15, <1>16 DEF Next
-----------------------------------------------------------------------------
(* What a transaction on an order may rely on while it holds the order.      *)

Holding(h) == pc[h] \in {"settling", "unsettling"}

Plans == \A h \in Handlers : job[h].plan \subseteq rows

OneHolder == \A g, h \in Handlers :
    Holding(g) /\ Holding(h) /\ job[g].order = job[h].order => g = h

\* What it read of the order still holds.
Current == \A h \in Handlers : Holding(h) =>
    job[h].seen = status[job[h].order] /\ job[h].posted = deposit[job[h].order]

\* A cancellation has found every row it must take back, and no other.
Covers == \A h \in Handlers : pc[h] = "unsettling" =>
    /\ \A r \in job[h].plan : r.order = job[h].order
    /\ \A r \in Standing :
          r.order = job[h].order /\ (r.kind = "deposit" \/ r.order \notin Booths)
          => r \in job[h].plan

\* An order with a request or a payment under way exists; booths' legs are booths'.
Exists == \A h \in Handlers :
    /\ pc[h] \in {"settle", "unsettle", "settling", "unsettling"}
          => status[job[h].order] # "none"
    /\ pc[h] \in {"legs", "credit"} => job[h].order \in Booths

Paying == \A o \in Orders : o \in unpaid \/ events[o] # {} => status[o] # "none"

Turns == OneHolder /\ Current /\ Covers /\ Exists

\* Only the requests of H go on, no order they hold changes, only rows of S come.
Untouched(H, S) ==
    /\ \A g \in Handlers \ H : pc'[g] = pc[g] /\ job'[g] = job[g]
    /\ \A h \in H : /\ pc'[h] \notin {"settling", "unsettling"}
                    /\ pc'[h] \in {"settle", "unsettle"} => status'[job'[h].order] # "none"
                    /\ pc'[h] \in {"legs", "credit"} => job'[h].order \in Booths
    /\ Standing' \subseteq Standing \cup S
    /\ \A g \in Handlers \ H : Holding(g) =>
          /\ status'[job[g].order] = status[job[g].order]
          /\ deposit'[job[g].order] = deposit[job[g].order]
          /\ \A r \in S : r.order = job[g].order => r.kind # "deposit" /\ r.order \in Booths
    /\ \A o \in Orders : status[o] # "none" => status'[o] # "none"

LEMMA QuietTurns ==
    ASSUME OrderType, OrderType', Turns, NEW H \in SUBSET Handlers, NEW S, Untouched(H, S)
    PROVE  Turns'
  <1> USE DEF Untouched
  <1>1. \A h \in Handlers : Holding(h)' => h \notin H /\ Holding(h) /\ job'[h] = job[h]
    BY DEF Holding
  <1>2. \A h \in Handlers : job[h].order \in Orders
    BY DEF OrderType, Job
  <1>3. OneHolder'
    BY <1>1 DEF OneHolder, Turns
  <1>4. Current'
    BY <1>1 DEF Current, Turns
  <1>5. Covers'
    <2> SUFFICES ASSUME NEW h \in Handlers, pc'[h] = "unsettling"
                 PROVE  /\ \A r \in job'[h].plan : r.order = job'[h].order
                        /\ \A r \in Standing' :
                             r.order = job'[h].order /\ (r.kind = "deposit" \/ r.order \notin Booths)
                             => r \in job'[h].plan
      BY DEF Covers
    <2>1. h \notin H /\ pc[h] = "unsettling" /\ job'[h] = job[h] /\ Holding(h)
      BY <1>1 DEF Holding
    <2> QED
      BY <2>1 DEF Covers, Turns
  <1>6. Exists'
    BY <1>2 DEF Exists, Turns
  <1> QED
    BY <1>3, <1>4, <1>5, <1>6 DEF Turns

LEMMA LockTurns ==
    ASSUME OrderType, Ledger, Turns, NEW h \in Handlers, LockOrder(h)
    PROVE  Turns'
  <1> DEFINE o == job[h].order
             p == IF pc[h] = "settle" THEN {} ELSE {r \in Standing : r.order = o /\ Tied(r)}
  <1>1. /\ pc[h] \in {"settle", "unsettle"} /\ Free(h, o)
        /\ UNCHANGED orderVars /\ UNCHANGED bookVars
        /\ pc' = [pc EXCEPT ![h] = IF pc[h] = "settle" THEN "settling" ELSE "unsettling"]
        /\ job' = [job EXCEPT ![h] = [job[h] EXCEPT !.seen = status[o], !.posted = deposit[o],
                                                   !.plan = p]]
    BY DEF LockOrder, OrderType
  <1>2. /\ \A g \in Handlers \ {h} : pc'[g] = pc[g] /\ job'[g] = job[g]
        /\ job'[h].order = o /\ job'[h].seen = status[o] /\ job'[h].posted = deposit[o]
        /\ job'[h].plan = p
        /\ pc'[h] = IF pc[h] = "settle" THEN "settling" ELSE "unsettling"
    <2>1. job[h] \in Job
      BY DEF OrderType
    <2> DEFINE j == [job[h] EXCEPT !.seen = status[o], !.posted = deposit[o], !.plan = p]
    <2>2. job'[h] = j /\ \A g \in Handlers \ {h} : job'[g] = job[g]
      <3> HIDE DEF j
      <3> QED
        BY <1>1 DEF OrderType, j
    <2>3. /\ \A g \in Handlers \ {h} : pc'[g] = pc[g]
          /\ pc'[h] = IF pc[h] = "settle" THEN "settling" ELSE "unsettling"
      BY <1>1 DEF OrderType
    <2>4. job[h].order = o
      OBVIOUS
    <2> HIDE DEF o, p
    <2>5. j.order = o /\ j.seen = status[o] /\ j.posted = deposit[o] /\ j.plan = p
      BY <2>1, <2>4 DEF Job
    <2> HIDE DEF j
    <2> QED
      BY <2>2, <2>3, <2>5
  <1>3. \A g \in Handlers \ {h} : ~(Holding(g) /\ job[g].order = o)
    BY <1>1 DEF Free, Holds, Holding
  <1>4. Standing' = Standing /\ status' = status /\ deposit' = deposit
    BY <1>1, SameLedger DEF orderVars
  <1>5. OneHolder'
    <2> HIDE DEF o, p
    <2> QED
      BY <1>2, <1>3 DEF OneHolder, Holding, Turns
  <1>6. Current'
    <2> HIDE DEF o, p
    <2> QED
      BY <1>2, <1>4 DEF Current, Holding, Turns
  <1>7. Covers'
    <2>1. ASSUME pc'[h] = "unsettling"
          PROVE  /\ \A r \in p : r.order = o
                 /\ \A r \in Standing : r.order = o /\ (r.kind = "deposit" \/ r.order \notin Booths)
                       => r \in p
      BY <1>1, <1>2, <2>1 DEF Tied
    <2> HIDE DEF o, p
    <2> QED
      BY <1>2, <1>4, <2>1 DEF Covers, Turns
  <1>8. Exists'
    <2>1. status[o] # "none"
      BY <1>1 DEF Exists, Turns
    <2> HIDE DEF o, p
    <2> QED
      BY <1>2, <1>4, <2>1 DEF Exists, Turns
  <1> QED
    BY <1>5, <1>6, <1>7, <1>8 DEF Turns
-----------------------------------------------------------------------------
(* The invariant, and what a step does to it. *)

\* A standing deposit is known to its order.
Posted == \A r \in Standing : r.kind = "deposit" => deposit[r.order]

Deposits == Posted /\ OneDeposit /\ WholeOrNone

Money == OrderType /\ Ledger /\ Plans /\ Turns /\ Paying /\ Deposits

LEMMA MoneyInit == Init => Money
  <1> SUFFICES ASSUME Init PROVE Money
    OBVIOUS
  <1> USE DEF Init
  <1>1. OrderType
    BY NoJobType, SalesAssumption DEF OrderType, Statuses, Stages
  <1>2. Standing = {}
    BY DEF Standing
  <1>3. LedgerType
    <2>1. IsFiniteSet({})
      BY FS_EmptySet
    <2>2. /\ bal \in [Books -> Int] /\ overtaken \in BOOLEAN /\ entries \in Nat
          /\ audit \in [at : {"idle", "read", "summed"}, book : Books, cached : Int,
                        sum : Int, moved : BOOLEAN]
      <3>1. bal = [x \in Books |-> 0] /\ overtaken = FALSE /\ entries = 0 /\ audit = NoAudit
        OBVIOUS
      <3>2. bal \in [Books -> Int]
        BY ONLY <3>1
      <3>3. overtaken \in BOOLEAN /\ entries \in Nat
        BY ONLY <3>1
      <3>4. NoAudit \in [at : {"idle", "read", "summed"}, book : Books, cached : Int,
                         sum : Int, moved : BOOLEAN]
        BY ONLY DEF NoAudit, Books
      <3> QED
        BY ONLY <3>1, <3>2, <3>3, <3>4
    <2>3. rows = {} /\ backs = {}
      OBVIOUS
    <2>4. IsFiniteSet(rows) /\ IsFiniteSet(backs) /\ rows \subseteq Row /\ backs \subseteq Back
      BY ONLY <2>1, <2>3
    <2> QED
      BY ONLY <2>2, <2>4 DEF LedgerType
  <1>4. Ledger
    <2> DEFINE zero == [k \in Kinds |-> 0]
    <2>1. Count(rows) = zero /\ BackCount(backs) = zero
      BY FS_EmptySet DEF Count, BackCount
    <2>2. \A x \in Books : Actual(x) = Value(zero, x) - Value(zero, x)
      BY <2>1 DEF Actual, BackCount
    <2>3. \A x \in Books : Value(zero, x) \in Int
      <3>1. zero \in [Kinds -> Nat] /\ \A k \in Kinds : zero[k] = zero[k] + zero[k]
        OBVIOUS
      <3> QED
        BY <3>1, ValueSum
    <2> HIDE DEF zero
    <2>4. \A x \in Books : Actual(x) = 0
      BY <2>2, <2>3
    <2> QED
      BY <1>3, <2>4 DEF Ledger, Numbered, Summed, NoAudit, ReversedOnce, CachesMatch
  <1>5. Plans /\ Turns /\ Paying /\ Deposits
    BY <1>2 DEF Plans, NoJob, Turns, OneHolder, Current, Covers, Exists, Holding, Paying,
                Deposits, Posted, OneDeposit, WholeOrNone
  <1> QED
    BY <1>1, <1>4, <1>5 DEF Money

\* The ledger, the deposits and the orders' locks stay as they are.
LEMMA SameDeposits ==
    ASSUME Money, UNCHANGED <<rows, backs, deposit>>
    PROVE  Deposits' /\ Standing' = Standing
  BY DEF Money, Deposits, Posted, OneDeposit, WholeOrNone, Standing, Reversed

LEMMA PlaceMoney ==
    ASSUME Money, OrderType', NEW o \in Orders, PlaceOrder(o) \/ BuyerPays(o)
    PROVE  Money'
  <1>1. /\ UNCHANGED bookVars /\ UNCHANGED <<deposit, pc, job>>
        /\ \A q \in Orders : status[q] # "none" => status'[q] = status[q]
    BY DEF PlaceOrder, BuyerPays, orderVars, Money, OrderType
  <1>2. Ledger' /\ Deposits' /\ Standing' = Standing
    BY <1>1, SameLedger, SameDeposits DEF Money, bookVars
  <1>3. Plans'
    BY <1>1 DEF Plans, Money, bookVars
  <1>4. Turns'
    <2>1. \A g \in Handlers : Holding(g) => status[job[g].order] # "none"
                                          /\ job[g].order \in Orders
      BY DEF Money, Turns, Exists, Holding, OrderType, Job
    <2>2. Untouched({}, {})
      BY <1>1, <1>2, <2>1 DEF Untouched
    <2> QED
      BY <2>2, QuietTurns DEF Money
  <1>5. Paying'
    BY DEF Money, Paying, PlaceOrder, BuyerPays, OrderType, orderVars
  <1> QED
    BY <1>2, <1>3, <1>4, <1>5 DEF Money

\* A request that begins, with what it has read.
LEMMA BeginMoney ==
    ASSUME Money, OrderType', NEW h \in Handlers, NEW stage \in Stages, NEW j \in Job,
           Begin(h, stage, j), UNCHANGED bookVars, UNCHANGED <<deposit, unpaid, events>>,
           stage \in {"settle", "unsettle", "update", "item", "reverse"},
           j.plan \subseteq rows, status'[j.order] # "none",
           \A q \in Orders : status[q] # "none" => status'[q] = status[q]
    PROVE  Money'
  <1>1. /\ \A g \in Handlers \ {h} : pc'[g] = pc[g] /\ job'[g] = job[g]
        /\ pc'[h] = stage /\ job'[h] = j
    BY DEF Begin, Money, OrderType
  <1>2. Ledger' /\ Deposits' /\ Standing' = Standing
    BY SameLedger, SameDeposits DEF Money, bookVars
  <1>3. Plans'
    BY <1>1 DEF Plans, Money, bookVars
  <1>4. Turns'
    <2>1. \A g \in Handlers : Holding(g) => status[job[g].order] # "none"
                                          /\ job[g].order \in Orders
      BY DEF Money, Turns, Exists, Holding, OrderType, Job
    <2>2. Untouched({h}, {})
      BY <1>1, <1>2, <2>1 DEF Untouched
    <2> QED
      BY <2>2, QuietTurns DEF Money
  <1>5. Paying'
    BY DEF Money, Paying
  <1> QED
    BY <1>2, <1>3, <1>4, <1>5 DEF Money
-----------------------------------------------------------------------------
\* One handler goes on, and neither the books nor a locked order change.
LEMMA QuietMoney ==
    ASSUME Money, OrderType', NEW h \in Handlers,
           \A g \in Handlers \ {h} : pc'[g] = pc[g] /\ job'[g] = job[g],
           pc'[h] \in {"idle", "update", "check"}, job'[h].plan \subseteq rows,
           UNCHANGED bookVars, UNCHANGED <<deposit, unpaid>>,
           \A q \in Orders : events'[q] \subseteq events[q],
           \A g \in Handlers \ {h} : Holding(g) =>
               status'[job[g].order] = status[job[g].order],
           \A q \in Orders : status[q] # "none" => status'[q] # "none"
    PROVE  Money'
  <1>1. Ledger' /\ Deposits' /\ Standing' = Standing
    BY SameLedger, SameDeposits DEF Money, bookVars
  <1>2. Plans'
    BY DEF Plans, Money, bookVars
  <1>3. Turns'
    <2>1. Untouched({h}, {})
      BY <1>1 DEF Untouched
    <2> QED
      BY <2>1, QuietTurns DEF Money
  <1>4. Paying'
    BY DEF Money, Paying
  <1> QED
    BY <1>1, <1>2, <1>3, <1>4 DEF Money

LEMMA LockMoney ==
    ASSUME Money, OrderType', NEW h \in Handlers, LockOrder(h)
    PROVE  Money'
  <1>1. UNCHANGED bookVars /\ UNCHANGED <<status, deposit, unpaid, events>>
    BY DEF LockOrder, orderVars, stripeVars
  <1>2. Ledger' /\ Deposits' /\ Turns'
    BY <1>1, SameLedger, SameDeposits, LockTurns DEF Money, bookVars
  <1>3. Plans'
    <2> DEFINE p == IF pc[h] = "settle" THEN {}
                    ELSE {r \in Standing : r.order = job[h].order /\ Tied(r)}
    <2>1. p \subseteq rows
      BY DEF Standing
    <2>2. job' = [job EXCEPT ![h] = [job[h] EXCEPT !.seen = status[job[h].order],
                                         !.posted = deposit[job[h].order], !.plan = p]]
      BY DEF LockOrder, Money, OrderType
    <2> HIDE DEF p
    <2>3. job[h] \in Job
      BY DEF Money, OrderType
    <2>4. job'[h].plan = p
      BY <2>2, <2>3 DEF Money, OrderType, Job
    <2> QED
      BY <1>1, <2>1, <2>2, <2>4 DEF Plans, Money, OrderType, bookVars
  <1>4. Paying'
    BY <1>1 DEF Money, Paying
  <1> QED
    BY <1>2, <1>3, <1>4 DEF Money

\* A settlement that posts finds no deposit of its order standing.
LEMMA SettleMoney ==
    ASSUME Money, OrderType', NEW h \in Handlers, Settle(h)
    PROVE  Money'
  <1> DEFINE o == job[h].order
             S == NewRows(o, SettledKinds(o))
  <1>1. o \in Orders /\ Holding(h) /\ job[h] \in Job /\ status[o] # "none"
    BY DEF Money, OrderType, Job, Settle, Holding, Turns, Exists
  <1>2. /\ \A g \in Handlers \ {h} : pc'[g] = pc[g] /\ job'[g] = job[g]
        /\ pc'[h] \in {"idle", "legs"} /\ job'[h].plan \in {job[h].plan, {}}
        /\ pc'[h] = "legs" => job'[h] = job[h] /\ o \in Booths
    BY DEF Settle, Ends, Goes, Money, OrderType, NoJob
  <1>3. \A g \in Handlers \ {h} : Holding(g) => job[g].order # o
    BY <1>1 DEF Money, Turns, OneHolder
  <1>4. /\ \A q \in Orders : events'[q] \subseteq events[q]
        /\ unpaid' = unpaid
    BY <1>1 DEF Settle, Answers, Money, OrderType
  <1>5. CASE ~MaySettle(job[h])
    <2>1. UNCHANGED <<status, deposit>> /\ UNCHANGED bookVars
      BY <1>5 DEF Settle
    <2>2. Ledger' /\ Deposits' /\ Standing' = Standing
      BY <2>1, SameLedger, SameDeposits DEF Money, bookVars
    <2>3. Plans'
      BY <1>2, <2>1 DEF Plans, Money, bookVars
    <2>4. Turns'
      <3>1. Untouched({h}, {})
        BY <1>2, <2>1, <2>2 DEF Untouched
      <3> QED
        BY <3>1, QuietTurns DEF Money
    <2>5. Paying'
      BY <1>4, <2>1 DEF Money, Paying
    <2> QED
      BY <2>2, <2>3, <2>4, <2>5 DEF Money
  <1>6. CASE MaySettle(job[h])
    <2>1. /\ Post(S, {}, FALSE)
          /\ status' = [status EXCEPT ![o] = "paid"] /\ deposit' = [deposit EXCEPT ![o] = TRUE]
      BY <1>6 DEF Settle
    <2>2. /\ S \subseteq Row /\ IsFiniteSet(S)
          /\ \A r \in S : r.order = o /\ r.batch = entries + 1
      <3>1. SettledKinds(o) \in SUBSET Kinds /\ entries \in Nat
        BY DEF SettledKinds, Kinds, Money, Ledger, LedgerType
      <3> QED
        BY <1>1, <3>1, NewRowsType
    <2>3. \A r, q \in S : r.kind = q.kind => r = q
      BY DEF NewRows
    <2> HIDE DEF S, o
    <2>4. /\ Ledger' /\ rows' = rows \cup S /\ Standing' \subseteq Standing \cup S
      BY <2>1, <2>2, PostLedger DEF Money
    <2>5. backs' = backs
      BY <2>1 DEF Post
    <2>6. Plans'
      BY <1>2, <2>4 DEF Plans, Money
    <2>7. Turns'
      <3>1. \A g \in Handlers : job[g].order \in Orders
        BY DEF Money, OrderType, Job
      <3>2. Untouched({h}, S)
        BY <1>1, <1>2, <1>3, <2>1, <2>2, <2>4, <3>1 DEF Untouched, Money, OrderType, o
      <3> QED
        BY <3>2, QuietTurns DEF Money
    <2>8. Paying'
      BY <1>1, <1>4, <2>1 DEF Money, Paying, OrderType
    <2>9. deposit[o] = FALSE
      BY <1>1, <1>6 DEF MaySettle, Money, Turns, Current, o
    <2>10. Posted' /\ OneDeposit'
      <3>1. \A r \in Standing : r.kind = "deposit" => r.order # o
        BY <2>9 DEF Money, Deposits, Posted
      <3>2. \A r \in Standing : r.order \in Orders
        BY DEF Standing, Money, Ledger, LedgerType, Row
      <3> QED
        BY <1>1, <2>1, <2>2, <2>3, <2>4, <3>1, <3>2
           DEF Posted, OneDeposit, Money, Deposits, OrderType
    <2>11. WholeOrNone'
      <3>1. \A b \in backs : b.row.batch # entries + 1
        BY DEF Money, Ledger, LedgerType, Numbered, Row
      <3> QED
        BY <2>2, <2>4, <2>5, <3>1 DEF WholeOrNone, Money, Deposits
    <2> QED
      BY <2>4, <2>6, <2>7, <2>8, <2>10, <2>11 DEF Money, Deposits
  <1> QED
    BY <1>5, <1>6
-----------------------------------------------------------------------------
\* A cancellation takes back all its order's rows, for nothing came between.
LEMMA UnsettleMoney ==
    ASSUME Money, OrderType', NEW h \in Handlers, Unsettle(h)
    PROVE  Money'
  <1> DEFINE o == job[h].order
             T == job[h].plan
  <1>1. o \in Orders /\ Holding(h) /\ job[h] \in Job /\ job[h].want \in Statuses
    BY DEF Money, OrderType, Job, Unsettle, Holding
  <1>2. /\ \A g \in Handlers \ {h} : pc'[g] = pc[g] /\ job'[g] = job[g]
        /\ pc'[h] = "idle" /\ job'[h].plan = {}
    BY DEF Unsettle, Ends, Money, OrderType, NoJob
  <1>3. UNCHANGED <<unpaid, events>>
    BY DEF Unsettle, stripeVars
  <1>4. CASE ~\A r \in T : Reversible(r)
    <2>1. UNCHANGED <<status, deposit>> /\ UNCHANGED bookVars
      BY <1>4 DEF Unsettle
    <2> QED
      BY <1>2, <1>3, <2>1, QuietMoney
  <1>5. CASE \A r \in T : Reversible(r)
    <2>1. /\ Post({}, T, FALSE)
          /\ status' = [status EXCEPT ![o] = job[h].want]
          /\ deposit' = [deposit EXCEPT ![o] = FALSE]
      BY <1>5 DEF Unsettle
    <2>2. T \in SUBSET rows
      BY DEF Money, Plans
    <2>3. /\ \A r \in T : r.order = o
          /\ \A r \in Standing : r.order = o /\ (r.kind = "deposit" \/ r.order \notin Booths) => r \in T
      BY DEF Money, Turns, Covers, Unsettle
    <2>4. \A g \in Handlers \ {h} : Holding(g) => job[g].order # o
      BY <1>1 DEF Money, Turns, OneHolder
    <2>5. /\ backs' = backs \cup [row : T, batch : {entries + 1}, hand : {FALSE}]
      BY <2>1 DEF Post
    <2> HIDE DEF T, o
    <2>6. /\ Ledger' /\ rows' = rows /\ Standing' \subseteq Standing \ T
      <3> DEFINE none == {}
      <3>1. none \in SUBSET Row /\ IsFiniteSet(none) /\ \A r \in none : r.batch = entries + 1
        BY FS_EmptySet
      <3>2. Post(none, T, FALSE) /\ \A r \in T : Reversible(r)
        BY <1>5, <2>1 DEF T
      <3> HIDE DEF none
      <3>3. Ledger' /\ rows' = rows \cup none /\ Standing' \subseteq (Standing \ T) \cup none
        BY <2>2, <3>1, <3>2, PostLedger DEF Money
      <3> QED
        BY <3>3 DEF none
    <2>7. Plans'
      BY <1>2, <2>6 DEF Plans, Money
    <2>8. \A q \in Orders : status[q] # "none" => status'[q] # "none"
      BY <1>1, <2>1 DEF Money, OrderType, Statuses
    <2>9. Turns'
      <3>1. \A g \in Handlers : job[g].order \in Orders
        BY DEF Money, OrderType, Job
      <3>2. Untouched({h}, {})
        BY <1>1, <1>2, <2>1, <2>4, <2>6, <2>8, <3>1 DEF Untouched, Money, OrderType
      <3> QED
        BY <3>2, QuietTurns DEF Money
    <2>10. Paying'
      BY <1>3, <2>8 DEF Money, Paying
    <2>11. Posted' /\ OneDeposit'
      <3>1. \A r \in Standing' : r.kind = "deposit" => r.order # o
        BY <2>3, <2>6
      <3>2. \A r \in Standing : r.order \in Orders
        BY DEF Standing, Money, Ledger, LedgerType, Row
      <3> QED
        BY <1>1, <2>1, <2>6, <3>1, <3>2 DEF Posted, OneDeposit, Money, Deposits, OrderType
    <2>12. WholeOrNone'
      <3> SUFFICES ASSUME NEW b \in backs', NEW r \in Standing', ~b.hand,
                          r.order = b.row.order, r.batch = b.row.batch
                   PROVE  r.order \in Booths
        BY DEF WholeOrNone
      <3>1. CASE b \in backs
        BY <2>6, <3>1 DEF WholeOrNone, Money, Deposits
      <3>2. CASE b.row \in T
        BY <2>3, <2>6, <3>2
      <3> QED
        BY <2>5, <3>1, <3>2
    <2> QED
      BY <2>6, <2>7, <2>9, <2>10, <2>11, <2>12 DEF Money, Deposits
  <1> QED
    BY <1>4, <1>5

\* The treasurer's own reversal.
LEMMA ReverseMoney ==
    ASSUME Money, OrderType', NEW h \in Handlers, Reverse(h)
    PROVE  Money'
  <1> DEFINE T == job[h].plan
  <1>1. /\ \A g \in Handlers \ {h} : pc'[g] = pc[g] /\ job'[g] = job[g]
        /\ pc'[h] = "idle" /\ job'[h].plan = {}
    BY DEF Reverse, Ends, Money, OrderType, NoJob
  <1>2. UNCHANGED <<unpaid, events, status, deposit>>
    BY DEF Reverse, stripeVars, orderVars
  <1>3. CASE ~\A r \in T : Reversible(r)
    <2>1. UNCHANGED bookVars
      BY <1>3 DEF Reverse
    <2> QED
      BY <1>1, <1>2, <2>1, QuietMoney
  <1>4. CASE \A r \in T : Reversible(r)
    <2>1. Post({}, T, TRUE)
      BY <1>4 DEF Reverse
    <2>2. T \in SUBSET rows
      BY DEF Money, Plans
    <2>3. /\ backs' = backs \cup [row : T, batch : {entries + 1}, hand : {TRUE}]
      BY <2>1 DEF Post
    <2> HIDE DEF T
    <2>4. /\ Ledger' /\ rows' = rows /\ Standing' \subseteq Standing \ T
      <3> DEFINE none == {}
      <3>1. none \in SUBSET Row /\ IsFiniteSet(none) /\ \A r \in none : r.batch = entries + 1
        BY FS_EmptySet
      <3>2. Post(none, T, TRUE) /\ \A r \in T : Reversible(r)
        BY <1>4, <2>1 DEF T
      <3> HIDE DEF none
      <3>3. Ledger' /\ rows' = rows \cup none /\ Standing' \subseteq (Standing \ T) \cup none
        BY <2>2, <3>1, <3>2, PostLedger DEF Money
      <3> QED
        BY <3>3 DEF none
    <2>5. Plans'
      BY <1>1, <2>4 DEF Plans, Money
    <2>6. Turns'
      <3>1. Untouched({h}, {})
        BY <1>1, <1>2, <2>4 DEF Untouched
      <3> QED
        BY <3>1, QuietTurns DEF Money
    <2>7. Paying'
      BY <1>2 DEF Money, Paying
    <2>8. Posted' /\ OneDeposit'
      BY <1>2, <2>4 DEF Posted, OneDeposit, Money, Deposits
    <2>9. WholeOrNone'
      BY <2>3, <2>4 DEF WholeOrNone, Money, Deposits
    <2> QED
      BY <2>4, <2>5, <2>6, <2>7, <2>8, <2>9 DEF Money, Deposits
  <1> QED
    BY <1>3, <1>4

\* A booth's legs and credit are no deposit, and of no order but a booth's.
LEMMA BoothMoney ==
    ASSUME Money, OrderType', NEW h \in Handlers, BoothTransfer(h) \/ BoothCredit(h)
    PROVE  Money'
  <1> DEFINE o == job[h].order
  <1>1. o \in Booths /\ o \in Orders
    BY DEF BoothTransfer, BoothCredit, Money, Turns, Exists, OrderType, Job
  <1>2. /\ \A g \in Handlers \ {h} : pc'[g] = pc[g] /\ job'[g] = job[g]
        /\ pc'[h] \in {"idle", "credit"} /\ job'[h].plan \in {job[h].plan, {}}
        /\ pc'[h] = "credit" => job'[h].order = o
    <2>1. CASE BoothTransfer(h)
      BY <2>1 DEF BoothTransfer, Goes, Money, OrderType
    <2>2. CASE BoothCredit(h)
      BY <2>2 DEF BoothCredit, Ends, Money, OrderType, NoJob
    <2> QED
      BY <2>1, <2>2
  <1>3. UNCHANGED <<unpaid, events, status, deposit>>
    BY DEF BoothTransfer, BoothCredit, stripeVars, orderVars
  <1>4. PICK K \in {{"out", "in"}, {"credit"}} : Post(NewRows(o, K), {}, FALSE)
    BY DEF BoothTransfer, BoothCredit
  <1> DEFINE S == NewRows(o, K)
  <1>5. /\ S \subseteq Row /\ IsFiniteSet(S)
        /\ \A r \in S : r.order = o /\ r.batch = entries + 1 /\ r.kind # "deposit"
    <2>1. K \in SUBSET Kinds /\ "deposit" \notin K /\ entries \in Nat
      BY DEF Kinds, Money, Ledger, LedgerType
    <2> QED
      BY <1>1, <2>1, NewRowsType
  <1>6. Post(S, {}, FALSE) /\ backs' = backs
    BY <1>4 DEF Post
  <1> HIDE DEF S, o
  <1>7. /\ Ledger' /\ rows' = rows \cup S /\ Standing' \subseteq Standing \cup S
    BY <1>5, <1>6, PostLedger DEF Money
  <1>8. Plans'
    BY <1>2, <1>7 DEF Plans, Money
  <1>9. Turns'
    <2>1. Untouched({h}, S)
      BY <1>1, <1>2, <1>3, <1>5, <1>7 DEF Untouched
    <2> QED
      BY <2>1, QuietTurns DEF Money
  <1>10. Paying'
    BY <1>3 DEF Money, Paying
  <1>11. Posted' /\ OneDeposit'
    BY <1>3, <1>5, <1>7 DEF Posted, OneDeposit, Money, Deposits
  <1>12. WholeOrNone'
    <2>1. \A b \in backs : b.row.batch # entries + 1
      BY DEF Money, Ledger, LedgerType, Numbered, Row
    <2> QED
      BY <1>5, <1>6, <1>7, <2>1 DEF WholeOrNone, Money, Deposits
  <1> QED
    BY <1>7, <1>8, <1>9, <1>10, <1>11, <1>12 DEF Money, Deposits
-----------------------------------------------------------------------------
LEMMA AuditMoney ==
    ASSUME Money, OrderType', (\E x \in Books : ReadBalance(x)) \/ SumRows \/ FixBalance
    PROVE  Money'
  <1>1. UNCHANGED <<rows, backs, status, deposit, unpaid, events, pc, job>>
    BY DEF ReadBalance, SumRows, FixBalance, Audit, stripeVars, orderVars
  <1>2. Ledger'
    BY ReadBalanceLedger, SumRowsLedger, FixBalanceLedger DEF Money
  <1>3. Deposits' /\ Standing' = Standing
    BY <1>1, SameDeposits
  <1>4. Turns'
    <2>1. Untouched({}, {})
      BY <1>1, <1>3 DEF Untouched
    <2> QED
      BY <2>1, QuietTurns DEF Money
  <1>5. Plans' /\ Paying'
    BY <1>1 DEF Money, Plans, Paying
  <1> QED
    BY <1>2, <1>3, <1>4, <1>5 DEF Money

LEMMA MoneyStep == Money /\ [Next]_vars => Money'
  <1> SUFFICES ASSUME Money, [Next]_vars PROVE Money'
    OBVIOUS
  <1>0. OrderType'
    BY OrderTypeStep DEF Money, Ledger, LedgerType
  <1>1. ASSUME NEW o \in Orders, PlaceOrder(o) \/ BuyerPays(o) PROVE Money'
    BY <1>0, <1>1, PlaceMoney
  <1>2. ASSUME NEW h \in Handlers, NEW o \in Orders, CreateOrder(h, o) PROVE Money'
    <2> DEFINE j == [NoJob EXCEPT !.order = o, !.want = "paid",
                               !.by = IF o \in Booths THEN "booth" ELSE "leader"]
    <2>1. j \in Job /\ j.order = o /\ j.plan = {}
      BY NoJobType, JobFields, SalesAssumption DEF Statuses, NoJob
    <2>2. Begin(h, "settle", j) /\ UNCHANGED bookVars /\ UNCHANGED <<deposit, unpaid, events>>
      BY <1>2 DEF CreateOrder, Request, stripeVars
    <2>3. /\ status'[o] # "none"
          /\ \A q \in Orders : status[q] # "none" => status'[q] = status[q]
      BY <1>2 DEF CreateOrder, Money, OrderType
    <2> HIDE DEF j
    <2> QED
      BY <1>0, <2>1, <2>2, <2>3, BeginMoney DEF Stages
  <1>3. ASSUME NEW h \in Handlers, NEW o \in Orders, NEW want \in Wanted,
               UpdateOrderStatus(h, o, want)
        PROVE  Money'
    <2> DEFINE j == [NoJob EXCEPT !.order = o, !.want = want, !.seen = status[o]]
    <2>1. j \in Job /\ j.order = o /\ j.plan = {}
      <3>1. want \in Statuses /\ status[o] \in Statuses \cup {"none"}
        BY DEF Wanted, Statuses, Money, OrderType
      <3>2. j \in Job
        BY <3>1, NoJobType, JobFields
      <3> QED
        BY <3>2, NoJobType DEF NoJob, Job
    <2>2. PICK stage \in {"settle", "unsettle", "update"} : Request(h, stage, j)
      BY <1>3 DEF UpdateOrderStatus
    <2>3. UNCHANGED orderVars /\ status[o] # "none"
      BY <1>3 DEF UpdateOrderStatus
    <2> HIDE DEF j
    <2> QED
      BY <1>0, <2>1, <2>2, <2>3, BeginMoney DEF Stages, Request, orderVars, stripeVars
  <1>4. ASSUME NEW h \in Handlers, NEW o \in Orders, NEW all \in BOOLEAN,
               SetItemDelivered(h, o, all)
        PROVE  Money'
    <2> DEFINE j == [NoJob EXCEPT !.order = o, !.seen = status[o],
                                  !.want = IF all THEN "delivered" ELSE "placed"]
    <2>1. j \in Job /\ j.order = o /\ j.plan = {}
      BY NoJobType, JobFields, SalesAssumption DEF Statuses, NoJob, Money, OrderType
    <2>2. Request(h, "item", j) /\ UNCHANGED orderVars /\ status[o] # "none"
      BY <1>4 DEF SetItemDelivered
    <2> HIDE DEF j
    <2> QED
      BY <1>0, <2>1, <2>2, BeginMoney DEF Stages, Request, orderVars, stripeVars
  <1>5. ASSUME NEW h \in Handlers, NEW r \in Standing, ReverseRow(h, r) PROVE Money'
    <2>1. r \in rows /\ r \in Row /\ r.order \in Orders
      BY DEF Standing, Money, Ledger, LedgerType, Row
    <2> DEFINE j == [NoJob EXCEPT !.order = r.order, !.plan = {r}]
    <2>2. j \in Job /\ j.plan = {r}
      BY <2>1, RowJob
    <2>3. Begin(h, "reverse", j)
      BY <1>5 DEF ReverseRow, Request
    <2>4. UNCHANGED bookVars /\ UNCHANGED <<status, deposit, unpaid, events>>
      BY <1>5 DEF ReverseRow, Request, orderVars, stripeVars
    <2> HIDE DEF j
    <2>5. /\ \A g \in Handlers \ {h} : pc'[g] = pc[g] /\ job'[g] = job[g]
          /\ pc'[h] = "reverse" /\ job'[h] = j
      BY <2>3 DEF Begin, Money, OrderType
    <2>6. Ledger' /\ Deposits' /\ Standing' = Standing
      BY <2>4, SameLedger, SameDeposits DEF Money, bookVars
    <2>7. Plans' /\ Paying'
      BY <2>1, <2>2, <2>4, <2>5 DEF Plans, Paying, Money, bookVars
    <2>8. Turns'
      <3>1. Untouched({h}, {})
        BY <2>4, <2>5, <2>6 DEF Untouched
      <3> QED
        BY <1>0, <3>1, QuietTurns DEF Money
    <2> QED
      BY <1>0, <2>6, <2>7, <2>8 DEF Money
  <1>6. ASSUME NEW h \in Handlers, NEW o \in Orders, NEW e \in events[o], Webhook(h, o, e)
        PROVE  Money'
    <2>1. UNCHANGED bookVars /\ UNCHANGED <<status, deposit, unpaid>> /\ pc[h] = "idle"
          /\ e \in {"checkout", "intent"} /\ status[o] # "none"
      BY <1>6 DEF Webhook, orderVars, Money, OrderType, Paying
    <2>2. CASE Paid(status[o])
      <3>1. UNCHANGED <<pc, job>> /\ events' = [events EXCEPT ![o] = @ \ {e}]
        BY <1>6, <2>2 DEF Webhook
      <3>2. /\ pc'[h] = "idle" /\ job'[h].plan \subseteq rows
        BY <2>1, <3>1 DEF Money, Plans
      <3> QED
        BY <1>0, <2>1, <3>1, <3>2, QuietMoney DEF Money, OrderType
    <2>3. CASE ~Paid(status[o])
      <3> DEFINE j == [NoJob EXCEPT !.order = o, !.want = "paid", !.by = e, !.seen = status[o]]
      <3>1. j \in Job /\ j.order = o /\ j.plan = {}
        BY <2>1, NoJobType, JobFields DEF Statuses, NoJob, Money, OrderType
      <3>2. Begin(h, "settle", j) /\ UNCHANGED events
        BY <1>6, <2>3 DEF Webhook
      <3> HIDE DEF j
      <3> QED
        BY <1>0, <2>1, <3>1, <3>2, BeginMoney DEF Stages
    <2> QED
      BY <2>2, <2>3
  <1>7. ASSUME NEW h \in Handlers,
               LockOrder(h) \/ Settle(h) \/ Unsettle(h) \/ Reverse(h)
                 \/ BoothTransfer(h) \/ BoothCredit(h)
        PROVE  Money'
    BY <1>0, <1>7, LockMoney, SettleMoney, UnsettleMoney, ReverseMoney, BoothMoney
  <1>8. ASSUME NEW h \in Handlers, PlainUpdate(h) PROVE Money'
    <2> DEFINE o == job[h].order
    <2>1. o \in Orders /\ job[h].want \in Statuses
      BY DEF Money, OrderType, Job
    <2>2. /\ \A g \in Handlers \ {h} : pc'[g] = pc[g] /\ job'[g] = job[g]
          /\ pc'[h] = "idle" /\ job'[h].plan = {}
      BY <1>8 DEF PlainUpdate, Ends, Money, OrderType, NoJob
    <2>3. /\ UNCHANGED bookVars /\ UNCHANGED <<deposit, unpaid, events>>
          /\ status' = [status EXCEPT ![o] = job[h].want]
      BY <1>8 DEF PlainUpdate, stripeVars
    <2>4. \A g \in Handlers \ {h} : Holding(g) => job[g].order # o
      BY <1>8 DEF PlainUpdate, Free, Holds, Holding
    <2>5. \A g \in Handlers : job[g].order \in Orders
      BY DEF Money, OrderType, Job
    <2>6. /\ \A g \in Handlers \ {h} : Holding(g) => status'[job[g].order] = status[job[g].order]
          /\ \A q \in Orders : status[q] # "none" => status'[q] # "none"
      <3> HIDE DEF o
      <3> QED
        BY <2>1, <2>3, <2>4, <2>5 DEF Money, OrderType, Statuses
    <2> HIDE DEF o
    <2> QED
      BY <1>0, <2>2, <2>3, <2>6, QuietMoney
  <1>9. ASSUME NEW h \in Handlers, WriteItem(h) \/ CheckItems(h) \/ Crash(h) PROVE Money'
    <2>1. /\ \A g \in Handlers \ {h} : pc'[g] = pc[g] /\ job'[g] = job[g]
          /\ pc'[h] \in {"idle", "update", "check"} /\ job'[h].plan \in {job[h].plan, {}}
      <3>1. CASE WriteItem(h) \/ Crash(h)
        BY <3>1 DEF WriteItem, Crash, Ends, Goes, Money, OrderType, NoJob
      <3>2. CASE CheckItems(h)
        <4>1. job[h] \in Job
          BY DEF Money, OrderType
        <4>2. [job[h] EXCEPT !.want = "delivered"].plan = job[h].plan
          BY <4>1 DEF Job
        <4> DEFINE j == [job[h] EXCEPT !.want = "delivered"]
        <4> HIDE DEF j
        <4>3. \/ pc' = [pc EXCEPT ![h] = "update"] /\ job' = [job EXCEPT ![h] = j]
              \/ Ends(h)
          BY <3>2 DEF CheckItems, Money, OrderType, j
        <4>4. CASE Ends(h)
          BY <4>4 DEF Ends, Money, OrderType, NoJob
        <4>5. CASE pc' = [pc EXCEPT ![h] = "update"] /\ job' = [job EXCEPT ![h] = j]
          BY <4>2, <4>5 DEF Money, OrderType, j
        <4> QED
          BY <4>3, <4>4, <4>5
      <3> QED
        BY <1>9, <3>1, <3>2
    <2>2. UNCHANGED bookVars /\ UNCHANGED <<status, deposit, unpaid, events>>
      BY <1>9 DEF WriteItem, CheckItems, Crash, orderVars, stripeVars
    <2>3. job'[h].plan \subseteq rows
      BY <2>1 DEF Money, Plans
    <2> QED
      BY <1>0, <2>1, <2>2, <2>3, QuietMoney
  <1>10. ASSUME (\E x \in Books : ReadBalance(x)) \/ SumRows \/ FixBalance PROVE Money'
    BY <1>0, <1>10, AuditMoney
  <1>11. CASE UNCHANGED vars
    <2>1. Ledger' /\ Deposits' /\ Standing' = Standing
      BY <1>11, SameLedger, SameDeposits DEF Money, vars, bookVars
    <2>2. Turns'
      <3>1. Untouched({}, {})
        BY <1>11, <2>1 DEF Untouched, vars
      <3> QED
        BY <1>0, <3>1, QuietTurns DEF Money
    <2> QED
      BY <1>0, <1>11, <2>1, <2>2 DEF Money, vars, Plans, Paying
  <1> QED
    BY <1>1, <1>2, <1>3, <1>4, <1>5, <1>6, <1>7, <1>8, <1>9, <1>10, <1>11 DEF Next

LEMMA MoneyAlways == Spec => []Money
  BY MoneyInit, MoneyStep, PTL DEF Spec

-----------------------------------------------------------------------------
(* The theorems. *)

\* Every variable keeps its type: postings, reversals and repairs included.
THEOREM TypeCorrect == Spec => []TypeOK
  <1>1. Money => TypeOK
    BY DEF Money, OrderType, Ledger, LedgerType, TypeOK
  <1> QED
    BY <1>1, MoneyAlways, PTL

\* Any number of Stripe events, leaders' pages and cancellations post at most
\* one standing deposit for an order.
THEOREM NeverTwiceOnTheBooks == Spec => []OneDeposit
  <1>1. Money => OneDeposit
    BY DEF Money, Deposits
  <1> QED
    BY <1>1, MoneyAlways, PTL

\* A row is taken back at most once.
THEOREM NeverReversedTwice == Spec => []ReversedOnce
  <1>1. Money => ReversedOnce
    BY DEF Money, Ledger
  <1> QED
    BY <1>1, MoneyAlways, PTL

\* A cancellation takes back the whole of a settlement.
THEOREM CancelledWhole == Spec => []WholeOrNone
  <1>1. Money => WholeOrNone
    BY DEF Money, Deposits
  <1> QED
    BY <1>1, MoneyAlways, PTL

\* The cached balances are the sums of their rows, until a repair is overtaken.
THEOREM BalancesMatchRows == Spec => []CachesMatch
  <1>1. Money => CachesMatch
    BY DEF Money, Ledger
  <1> QED
    BY <1>1, MoneyAlways, PTL

LEMMA NotRevivedStep ==
    ASSUME Money, [Next]_vars, NEW o \in Orders, NEW h \in Handlers,
           status[o] = "cancelled", status'[o] # "cancelled",
           pc[h] = "settling", pc'[h] # "settling", job[h].order = o
    PROVE  ~ByStripe(job[h])
  <1>1. job[h].seen = "cancelled"
    BY DEF Money, Turns, Current, Holding
  <1>2. CASE Settle(h)
    BY <1>1, <1>2 DEF Settle, MaySettle
  <1>3. CASE ~Settle(h)
    <2>1. pc[h] = "settling" /\ pc'[h] # pc[h] /\ status' # status
      OBVIOUS
    <2>4. status' # status /\ pc' # pc
      BY <2>1
    <2>5. PICK g \in Handlers : \/ \E q \in Orders : CreateOrder(g, q)
                               \/ Settle(g) \/ Unsettle(g) \/ PlainUpdate(g)
      BY <2>4 DEF Next, vars, PlaceOrder, BuyerPays, UpdateOrderStatus, SetItemDelivered,
                  Webhook, ReverseRow, LockOrder, WriteItem, CheckItems, Reverse,
                  BoothTransfer, BoothCredit, Crash, ReadBalance, SumRows, FixBalance,
                  Audit, orderVars
    <2>6. pc[g] \in {"idle", "settling", "unsettling", "update"} /\ (g = h => Settle(h))
      BY <2>1, <2>5 DEF CreateOrder, Request, Begin, Settle, Unsettle, PlainUpdate
    <2>7. \E st \in Stages : pc' = [pc EXCEPT ![g] = st]
      BY <2>5 DEF CreateOrder, Request, Begin, Settle, Unsettle, PlainUpdate, Ends, Goes, Stages
    <2> QED
      BY <1>3, <2>1, <2>6, <2>7 DEF Money, OrderType
  <1> QED
    BY <1>2, <1>3

\* Stripe never brings a cancelled order back, whatever it had read of it.
THEOREM StripeRevivesNothing == Spec => NotRevived
  <1>1. ASSUME Money, [Next]_vars
        PROVE  [\A o \in Orders, h \in Handlers :
                    status[o] = "cancelled" /\ status'[o] # "cancelled"
                        /\ pc[h] = "settling" /\ pc'[h] # "settling" /\ job[h].order = o
                    => ~ByStripe(job[h])]_vars
    BY <1>1, NotRevivedStep
  <1> QED
    BY <1>1, MoneyAlways, PTL DEF Spec, NotRevived

-----------------------------------------------------------------------------
(* The books as a treasurer reads them.  A part of an order's proceeds has   *)
(* at most one row that stands, so the parts on the books tell the balances. *)

Single == \A r, s \in Standing : r.order = s.order /\ r.kind = s.kind => r = s

LEMMA SameCount ==
    ASSUME NEW S
    PROVE  Abstract!Cardinality(S) = Cardinality(S)
  BY DEF Cardinality, Abstract!Cardinality

\* As many standing rows of a kind as orders with that part on the books.
LEMMA OrdersOn ==
    ASSUME Ledger, Single, NEW k \in Kinds
    PROVE  Count(Standing)[k] = Cardinality({o \in Orders : k \in OnBooks(o)})
  <1> DEFINE A == {r \in Standing : r.kind = k}
             B == {o \in Orders : k \in OnBooks(o)}
             f == [r \in A |-> r.order]
  <1>1. IsFiniteSet(A)
    BY FS_Subset DEF Standing, Ledger, LedgerType
  <1>2. f \in [A -> B]
    BY DEF OnBooks, Standing, Ledger, LedgerType, Row
  <1>3. ASSUME NEW r \in A, NEW q \in A, f[r] = f[q] PROVE r = q
    BY <1>3 DEF Single
  <1>4. \A o \in B : \E r \in A : f[r] = o
    BY DEF OnBooks
  <1>5. Count(Standing)[k] = Cardinality(A)
    BY DEF Count
  <1> HIDE DEF f, A
  <1>6. f \in Bijection(A, B)
    <2>1. f \in Injection(A, B)
      BY <1>2, <1>3, Zenon DEF Injection, IsInjective
    <2>2. f \in Surjection(A, B)
      BY <1>2, <1>4, Zenon DEF Surjection
    <2> QED
      BY <2>1, <2>2, Zenon DEF Bijection
  <1> QED
    BY <1>1, <1>5, <1>6, FS_Bijection DEF ExistsBijection

\* As many reversals of a kind as rows that were taken back.
LEMMA ReversalsOf ==
    ASSUME Ledger
    PROVE  IsFiniteSet(Reversed) /\ Count(Reversed) = BackCount(backs)
  <1>1. Reversed \subseteq rows /\ IsFiniteSet(Reversed)
    BY FS_Subset DEF Reversed, Ledger, LedgerType, Numbered
  <1>2. ASSUME NEW k \in Kinds
        PROVE  Cardinality({r \in Reversed : r.kind = k})
                 = Cardinality({b \in backs : b.row.kind = k})
    <2> DEFINE A == {b \in backs : b.row.kind = k}
               B == {r \in Reversed : r.kind = k}
               f == [b \in A |-> b.row]
    <2>1. IsFiniteSet(A)
      BY FS_Subset DEF Ledger, LedgerType
    <2>2. f \in [A -> B]
      BY DEF Reversed
    <2>3. ASSUME NEW b \in A, NEW c \in A, f[b] = f[c] PROVE b = c
      BY <2>3 DEF Ledger, ReversedOnce
    <2>4. \A r \in B : \E b \in A : f[b] = r
      BY DEF Reversed
    <2> HIDE DEF f, A, B
    <2>5. f \in Bijection(A, B)
      <3>1. f \in Injection(A, B)
        BY <2>2, <2>3, Zenon DEF Injection, IsInjective
      <3>2. f \in Surjection(A, B)
        BY <2>2, <2>4, Zenon DEF Surjection
      <3> QED
        BY <3>1, <3>2, Zenon DEF Bijection
    <2> QED
      BY <2>1, <2>5, FS_Bijection DEF ExistsBijection, A, B
  <1> QED
    BY <1>1, <1>2 DEF Count, BackCount

\* Rows less reversals is what stands.
LEMMA SumIsStanding ==
    ASSUME Ledger, NEW x \in Books
    PROVE  Actual(x) = Value(Count(Standing), x)
  <1>1. /\ rows = Standing \cup Reversed /\ Standing \cap Reversed = {}
        /\ IsFiniteSet(Standing) /\ IsFiniteSet(Reversed)
    <2>1. Reversed \subseteq rows
      BY DEF Reversed, Ledger, Numbered
    <2> QED
      BY <2>1, FS_Subset DEF Standing, Ledger, LedgerType
  <1>2. /\ \A k \in Kinds : Count(rows)[k] = Count(Standing)[k] + Count(Reversed)[k]
        /\ Count(rows) \in [Kinds -> Nat] /\ Count(Standing) \in [Kinds -> Nat]
        /\ Count(Reversed) \in [Kinds -> Nat]
    <2>1. IsFiniteSet(rows)
      BY DEF Ledger, LedgerType
    <2>2. \A k \in Kinds : Count(Standing \cup Reversed)[k]
                          = Count(Standing)[k] + Count(Reversed)[k]
      BY <1>1, CountUnion
    <2>3. Count(Standing \cup Reversed) = Count(rows)
      BY <1>1
    <2> QED
      BY <1>1, <2>1, <2>2, <2>3, CountType
  <1>3. /\ Value(Count(rows), x) = Value(Count(Standing), x) + Value(Count(Reversed), x)
        /\ Value(Count(Standing), x) \in Int /\ Value(Count(Reversed), x) \in Int
    BY <1>2, ValueSum
  <1>4. Actual(x) = Value(Count(rows), x) - Value(Count(Reversed), x)
    BY ReversalsOf DEF Actual, BackCount
  <1> QED
    BY <1>3, <1>4

\* With no repair overtaken, the balances are what the parts on the books are worth.
Matches == ~overtaken => bal = Abstract!Worth

LEMMA BooksMatch ==
    ASSUME Ledger, Single
    PROVE  Matches
  <1> SUFFICES ASSUME ~overtaken PROVE bal = Abstract!Worth
    BY DEF Matches
  <1>1. \A k \in Kinds : Abstract!On(k) = Count(Standing)[k]
    <2> TAKE k \in Kinds
    <2>1. {o \in Orders : k \in [q \in Orders |-> OnBooks(q)][o]} = {o \in Orders : k \in OnBooks(o)}
      OBVIOUS
    <2> QED
      BY <2>1, OrdersOn, SameCount DEF Abstract!On
  <1> DEFINE n == Count(Standing)
  <1>2. Abstract!Worth = [campaign |-> Gross * n["deposit"] - Share * n["out"],
                          scouts   |-> Share * (n["in"] + n["credit"]),
                          member   |-> Share * n["credit"]]
    BY <1>1 DEF Abstract!Worth, Kinds
  <1>3. \A x \in Books : bal[x] = Value(n, x)
    BY SumIsStanding DEF Ledger, CachesMatch
  <1> HIDE DEF n
  <1>4. /\ bal["campaign"] = Gross * n["deposit"] - Share * n["out"]
        /\ bal["scouts"] = Share * (n["in"] + n["credit"])
        /\ bal["member"] = Share * n["credit"]
    BY <1>3 DEF Value, Books
  <1>5. bal = [x \in Books |-> bal[x]]
    BY DEF Ledger, LedgerType
  <1> QED
    BY <1>2, <1>4, <1>5 DEF Books
-----------------------------------------------------------------------------
(* What the refinement needs of the rows and of the requests.                *)

\* The rows of an order that is no booth's stand only while it says it is paid.
Backed == \A r \in Standing : r.order \notin Booths => deposit[r.order]

Known == \A r \in Standing : status[r.order] # "none"

\* A booth's sum is being entered.
InHand(h) == job[h].by = "booth"

Apart == \A g, h \in Handlers : InHand(g) /\ InHand(h) /\ job[g].order = job[h].order => g = h

\* A treasurer's reversal has one row in hand, a cancellation all the rows tied to
\* its order; and no part that a booth's request has still to enter stands already.
Loyal(h) ==
    /\ pc[h] = "reverse" => \E r \in rows : job[h].plan = {r}
    /\ pc[h] = "unsettling" =>
          /\ \A r \in job[h].plan : Tied(r)
          /\ \A r \in Standing : r.order = job[h].order /\ Tied(r) => r \in job[h].plan
    /\ pc[h] \in {"legs", "credit"} => InHand(h) /\ job[h].order \in Split
    /\ InHand(h) =>
          /\ pc[h] \in {"settle", "settling", "legs", "credit"}
          /\ job[h].order \in Booths /\ status[job[h].order] # "none"
          /\ \A r \in Standing : r.order = job[h].order =>
                r.kind = "deposit" \/ (pc[h] = "credit" /\ r.kind \in {"out", "in"})

Booked == Single /\ Backed /\ Known /\ Apart /\ \A h \in Handlers : Loyal(h)

\* The requests outside H stand still, and no row that is new to them comes.
Aside(H, S) ==
    /\ \A g \in Handlers \ H : pc'[g] = pc[g] /\ job'[g] = job[g]
    /\ rows \subseteq rows' /\ Standing' \subseteq Standing \cup S
    /\ \A o \in Orders : status[o] # "none" => status'[o] # "none"
    /\ \A g \in Handlers \ H : \A r \in S : r.order = job[g].order =>
          (Holding(g) => ~Tied(r)) /\ (InHand(g) => r.kind = "deposit")

LEMMA OthersLoyal ==
    ASSUME OrderType, NEW H, NEW S, Aside(H, S), NEW g \in Handlers \ H, Loyal(g)
    PROVE  Loyal(g)'
  <1>1. pc'[g] = pc[g] /\ job'[g] = job[g] /\ job[g].order \in Orders
    BY DEF Aside, OrderType, Job
  <1>2. pc'[g] = "reverse" => \E r \in rows' : job'[g].plan = {r}
    BY <1>1 DEF Loyal, Aside
  <1>3. ASSUME pc'[g] = "unsettling"
        PROVE  /\ \A r \in job'[g].plan : Tied(r)
               /\ \A r \in Standing' : r.order = job'[g].order /\ Tied(r) => r \in job'[g].plan
    BY <1>1, <1>3 DEF Loyal, Aside, Holding
  <1>4. pc'[g] \in {"legs", "credit"} => InHand(g)' /\ job'[g].order \in Split
    BY <1>1 DEF Loyal, InHand
  <1>5. ASSUME InHand(g)'
        PROVE  /\ pc'[g] \in {"settle", "settling", "legs", "credit"}
               /\ job'[g].order \in Booths /\ status'[job'[g].order] # "none"
               /\ \A r \in Standing' : r.order = job'[g].order =>
                     r.kind = "deposit" \/ (pc'[g] = "credit" /\ r.kind \in {"out", "in"})
    BY <1>1, <1>5 DEF Loyal, Aside, InHand
  <1> QED
    BY <1>2, <1>3, <1>4, <1>5 DEF Loyal, Tied

\* No row comes or goes, and only h goes on.
LEMMA OneGoesOn ==
    ASSUME Money, Booked, NEW H \in SUBSET Handlers, Aside(H, {}), UNCHANGED <<rows, backs, deposit>>,
           \A h \in H : Loyal(h)', Apart'
    PROVE  Booked' /\ \A o \in Orders : OnBooks(o)' = OnBooks(o)
  <1>1. Standing' = Standing
    BY SameDeposits
  <1>2. \A r \in Standing : r.order \in Orders
    BY DEF Standing, Money, Ledger, LedgerType, Row
  <1>3. Single' /\ Backed' /\ Known'
    BY <1>1, <1>2 DEF Booked, Single, Backed, Known, Aside
  <1>4. \A h \in Handlers : Loyal(h)'
    BY OthersLoyal DEF Booked, Money
  <1> QED
    BY <1>1, <1>3, <1>4 DEF Booked, OnBooks

\* A step of h that enters no booth's sum, and neither cancels nor splits.
LEMMA QuietBooked ==
    ASSUME Money, Booked, NEW h \in Handlers, Aside({h}, {}), UNCHANGED <<rows, backs, deposit>>,
           job'[h].by # "booth", pc'[h] \notin {"legs", "credit", "unsettling"},
           pc'[h] = "reverse" => \E r \in rows : job'[h].plan = {r}
    PROVE  Booked' /\ \A o \in Orders : OnBooks(o)' = OnBooks(o)
  <1>1. Loyal(h)'
    BY DEF Loyal, InHand
  <1>2. Apart'
    BY DEF Apart, InHand, Booked, Aside
  <1> QED
    BY <1>1, <1>2, OneGoesOn
-----------------------------------------------------------------------------
(* What a posting does to the parts on the books.                            *)

LEMMA PostStands ==
    ASSUME Ledger, NEW S \in SUBSET Row, \A r \in S : r.batch = entries + 1,
           NEW T \in SUBSET rows, NEW hand \in BOOLEAN, Post(S, T, hand)
    PROVE  rows' = rows \cup S /\ Standing' = (Standing \ T) \cup S
  <1>1. /\ rows' = rows \cup S
        /\ backs' = backs \cup [row : T, batch : {entries + 1}, hand : {hand}]
    BY DEF Post
  <1>2. \A r \in rows : r \notin S
    BY DEF Ledger, LedgerType, Numbered, Row
  <1>3. Reversed \subseteq rows
    BY DEF Reversed, Ledger, Numbered
  <1>4. Reversed' = Reversed \cup T
    <2>1. \A b \in [row : T, batch : {entries + 1}, hand : {hand}] : b.row \in T
      OBVIOUS
    <2>2. \A r \in T : \E b \in [row : T, batch : {entries + 1}, hand : {hand}] : b.row = r
      <3> TAKE r \in T
      <3>1. [row |-> r, batch |-> entries + 1, hand |-> hand]
              \in [row : T, batch : {entries + 1}, hand : {hand}]
        OBVIOUS
      <3> QED
        BY <3>1
    <2> QED
      BY <1>1, <2>1, <2>2 DEF Reversed
  <1> QED
    BY <1>1, <1>2, <1>3, <1>4 DEF Standing

\* New rows of one order are new parts of its proceeds ...
LEMMA PartsEnter ==
    ASSUME NEW o \in Orders, NEW K, Standing' = Standing \cup NewRows(o, K)
    PROVE  /\ OnBooks(o)' = OnBooks(o) \cup K
           /\ \A q \in Orders \ {o} : OnBooks(q)' = OnBooks(q)
  <1>1. \A r \in NewRows(o, K) : r.order = o /\ r.kind \in K
    BY DEF NewRows
  <1>2. \A k \in K : \E r \in NewRows(o, K) : r.kind = k
    <2> TAKE k \in K
    <2>1. [order |-> o, kind |-> k, batch |-> entries + 1] \in NewRows(o, K)
      BY DEF NewRows
    <2> QED
      BY <2>1
  <1> QED
    BY <1>1, <1>2 DEF OnBooks

\* ... and rows that are taken back take theirs, when no other row has it.
LEMMA PartsLeave ==
    ASSUME NEW o \in Orders, NEW T \in SUBSET Standing, NEW K, Standing' = Standing \ T,
           \A r \in T : r.order = o /\ r.kind \in K,
           \A r \in Standing : r.order = o /\ r.kind \in K => r \in T
    PROVE  /\ OnBooks(o)' = OnBooks(o) \ K
           /\ \A q \in Orders \ {o} : OnBooks(q)' = OnBooks(q)
  BY DEF OnBooks

Moved(o, S) ==
    /\ OnBooks(o)' = S
    /\ \A q \in Orders \ {o} : OnBooks(q)' = OnBooks(q)

LEMMA MovedIsExcept ==
    ASSUME NEW o \in Orders, NEW S, Moved(o, S)
    PROVE  [q \in Orders |-> OnBooks(q)'] = [[q \in Orders |-> OnBooks(q)] EXCEPT ![o] = S]
  BY DEF Moved

\* What a step of the model is in Treasury's terms.
Entry ==
    \/ \E o \in Orders : \/ Abstract!Settles(o) \/ Abstract!Cancels(o)
                         \/ Abstract!Shares(o) \/ Abstract!TakesBack(o)
    \/ \A o \in Orders : OnBooks(o)' = OnBooks(o)

LEMMA EnterIsAStep ==
    ASSUME NEW o \in Orders, NEW K, OnBooks(o) \cap K = {}, Moved(o, OnBooks(o) \cup K)
    PROVE  Abstract!Enters(o, K)
  BY MovedIsExcept DEF Abstract!Enters

LEMMA LeaveIsAStep ==
    ASSUME NEW o \in Orders, NEW K, Moved(o, OnBooks(o) \ K)
    PROVE  Abstract!Leaves(o, K)
  BY MovedIsExcept DEF Abstract!Leaves

\* No part of an order's proceeds is entered that already stands.
LEMMA EnterSingle ==
    ASSUME Single, NEW o, NEW K, OnBooks(o) \cap K = {}, Standing' = Standing \cup NewRows(o, K)
    PROVE  Single'
  <1>1. /\ \A r \in NewRows(o, K) : r.order = o /\ r.kind \in K
        /\ \A r, s \in NewRows(o, K) : r.kind = s.kind => r = s
    BY DEF NewRows
  <1>2. \A r \in Standing : r.order = o => r.kind \notin K
    BY DEF OnBooks
  <1> QED
    BY <1>1, <1>2 DEF Single
-----------------------------------------------------------------------------
(* Each step of a request, in Treasury's terms.                              *)

LEMMA SettleBooks ==
    ASSUME Money, Booked, NEW h \in Handlers, Settle(h)
    PROVE  Booked' /\ Entry
  <1>0. PICK o \in Orders : o = job[h].order
    BY DEF Money, OrderType, Job
  <1> DEFINE K == SettledKinds(o)
             S == NewRows(o, K)
  <1>1. /\ Holding(h) /\ status[o] # "none" /\ pc[h] = "settling"
        /\ Loyal(h)
    BY <1>0 DEF Settle, Holding, Money, Turns, Exists, Booked
  <1>2. /\ \A g \in Handlers \ {h} : pc'[g] = pc[g] /\ job'[g] = job[g]
        /\ \/ pc'[h] = "idle" /\ job'[h].by = "leader"
           \/ pc'[h] = "legs" /\ job'[h] = job[h] /\ o \in Booths \cap Split /\ InHand(h)
    BY <1>0 DEF Settle, Ends, Goes, Money, OrderType, NoJob, InHand
  <1>3. Apart'
    BY <1>2 DEF Apart, Booked, InHand
  <1>4. CASE ~MaySettle(job[h])
    <2>1. UNCHANGED <<status, deposit>> /\ UNCHANGED <<rows, backs>>
      BY <1>4 DEF Settle, bookVars
    <2>2. Standing' = Standing
      BY <2>1, SameDeposits
    <2>3. Aside({h}, {})
      BY <1>2, <2>1, <2>2 DEF Aside
    <2>4. Loyal(h)'
      BY <1>0, <1>1, <1>2, <2>1, <2>2 DEF Loyal, InHand
    <2> QED
      BY <1>3, <2>1, <2>3, <2>4, OneGoesOn DEF Entry
  <1>5. CASE MaySettle(job[h])
    <2>1. /\ Post(S, {}, FALSE)
          /\ status' = [status EXCEPT ![o] = "paid"] /\ deposit' = [deposit EXCEPT ![o] = TRUE]
      BY <1>0, <1>5 DEF Settle
    <2>2. /\ S \in SUBSET Row /\ \A r \in S : r.order = o /\ r.kind \in K /\ r.batch = entries + 1
      <3>1. K \in SUBSET Kinds /\ entries \in Nat
        BY DEF SettledKinds, Kinds, Money, Ledger, LedgerType
      <3> QED
        BY <1>1, <3>1, NewRowsType
    <2>3. deposit[o] = FALSE
      BY <1>0, <1>1, <1>5 DEF MaySettle, Money, Turns, Current
    <2>4. OnBooks(o) \cap K = {}
      <3>1. CASE o \in Booths
        <4>1. \A r \in Standing : r.order = o => r.kind # "deposit"
          BY <2>3 DEF Money, Deposits, Posted
        <4> QED
          BY <3>1, <4>1 DEF OnBooks, SettledKinds
      <3>2. CASE o \notin Booths
        BY <2>3, <3>2 DEF OnBooks, Booked, Backed
      <3> QED
        BY <3>1, <3>2
    <2>5. o \in Booths => K = {"deposit"}
      BY DEF SettledKinds
    <2> HIDE DEF K
    <2>6. rows' = rows \cup S /\ Standing' = Standing \cup S
      <3> DEFINE none == {}
      <3>1. none \in SUBSET rows /\ Post(S, none, FALSE)
        BY <2>1
      <3> HIDE DEF S, none
      <3>2. rows' = rows \cup S /\ Standing' = (Standing \ none) \cup S
        BY <2>2, <3>1, PostStands DEF Money
      <3> QED
        BY <3>2 DEF none
    <2>7. \A r \in Standing : r.order \in Orders
      BY DEF Standing, Money, Ledger, LedgerType, Row
    <2>8. Single'
      BY <2>4, <2>6, EnterSingle DEF Booked
    <2> HIDE DEF S
    <2>9. Backed' /\ Known'
      BY <1>1, <2>1, <2>2, <2>6, <2>7 DEF Backed, Known, Booked, Money, OrderType
    <2>10. Aside({h}, S)
      <3>1. ASSUME NEW g \in Handlers \ {h}, NEW r \in S, r.order = job[g].order
            PROVE  ~Holding(g) /\ (InHand(g) => r.kind = "deposit")
        <4>1. ~Holding(g)
          BY <1>0, <1>1, <2>2, <3>1 DEF Money, Turns, OneHolder
        <4>2. InHand(g) => o \in Booths
          BY <1>0, <2>2, <3>1 DEF Booked, Loyal
        <4> QED
          BY <2>2, <2>5, <4>1, <4>2
      <3> QED
        BY <1>1, <1>2, <2>1, <2>6, <3>1 DEF Aside, Money, OrderType
    <2>11. Loyal(h)'
      <3>1. CASE pc'[h] = "idle" /\ job'[h].by = "leader"
        BY <3>1 DEF Loyal, InHand
      <3>2. CASE pc'[h] = "legs" /\ job'[h] = job[h] /\ o \in Booths \cap Split /\ InHand(h)
        <4>1. status'[o] # "none"
          BY <1>1, <2>1 DEF Money, OrderType
        <4>2. \A r \in Standing' : r.order = o => r.kind = "deposit"
          BY <1>0, <1>1, <2>2, <2>5, <2>6, <3>2 DEF Loyal
        <4> QED
          BY <1>0, <3>2, <4>1, <4>2 DEF Loyal, InHand
      <3> QED
        BY <1>2, <3>1, <3>2
    <2>12. Entry
      <3>1. Moved(o, OnBooks(o) \cup K)
        BY <1>1, <2>6, PartsEnter DEF Moved, S
      <3>2. Abstract!Enters(o, K)
        BY <1>1, <2>4, <3>1, EnterIsAStep
      <3>3. K = Abstract!Whole(o)
        BY DEF K, SettledKinds, Kinds, Abstract!Whole, Abstract!Parts, Abstract!Legs
      <3> QED
        BY <1>1, <3>2, <3>3 DEF Entry, Abstract!Settles
    <2> QED
      BY <1>3, <2>8, <2>9, <2>10, <2>11, <2>12, OthersLoyal DEF Booked, Money
  <1> QED
    BY <1>4, <1>5

\* A posting that only takes back leaves every order's other parts.
LEMMA TakenBack ==
    ASSUME Money, Booked, NEW h \in Handlers, pc'[h] = "idle", job'[h] = NoJob,
           \A g \in Handlers \ {h} : pc'[g] = pc[g] /\ job'[g] = job[g],
           rows' = rows, Standing' \subseteq Standing, Backed',
           \A q \in Orders : status[q] # "none" => status'[q] # "none"
    PROVE  Booked'
  <1>1. \A r \in Standing : r.order \in Orders
    BY DEF Standing, Money, Ledger, LedgerType, Row
  <1>2. Single' /\ Known'
    BY <1>1 DEF Booked, Single, Known
  <1>3. Loyal(h)' /\ Apart'
    BY DEF Loyal, InHand, NoJob, Apart, Booked
  <1>4. Aside({h}, {})
    BY DEF Aside
  <1> QED
    BY <1>2, <1>3, <1>4, OthersLoyal DEF Booked, Money

LEMMA UnsettleBooks ==
    ASSUME Money, Booked, NEW h \in Handlers, Unsettle(h)
    PROVE  Booked' /\ Entry
  <1>0. PICK o \in Orders : o = job[h].order
    BY DEF Money, OrderType, Job
  <1> DEFINE T == job[h].plan
  <1>1. pc[h] = "unsettling" /\ job[h].want \in Statuses /\ Loyal(h)
    BY DEF Money, OrderType, Job, Unsettle, Booked
  <1>2. /\ \A g \in Handlers \ {h} : pc'[g] = pc[g] /\ job'[g] = job[g]
        /\ pc'[h] = "idle" /\ job'[h] = NoJob
    BY DEF Unsettle, Ends, Money, OrderType
  <1>3. CASE ~\A r \in T : Reversible(r)
    <2>1. UNCHANGED <<status, deposit>> /\ UNCHANGED <<rows, backs>>
      BY <1>3 DEF Unsettle, bookVars
    <2>2. Aside({h}, {})
      BY <1>2, <2>1, SameDeposits DEF Aside
    <2> QED
      BY <1>2, <2>1, <2>2, QuietBooked DEF Entry, NoJob
  <1>4. CASE \A r \in T : Reversible(r)
    <2>1. /\ Post({}, T, FALSE)
          /\ status' = [status EXCEPT ![o] = job[h].want]
          /\ deposit' = [deposit EXCEPT ![o] = FALSE]
      BY <1>0, <1>4 DEF Unsettle
    <2>2. T \in SUBSET rows /\ T \in SUBSET Standing
      BY <1>4 DEF Money, Plans, Standing, Reversible
    <2>3. /\ \A r \in T : r.order = o /\ Tied(r)
          /\ \A r \in Standing : r.order = o /\ Tied(r) => r \in T
      BY <1>0, <1>1 DEF Money, Turns, Covers, Loyal
    <2> HIDE DEF T
    <2>4. rows' = rows /\ Standing' = Standing \ T
      <3> DEFINE none == {}
      <3>1. none \in SUBSET Row /\ \A r \in none : r.batch = entries + 1
        OBVIOUS
      <3>2. Post(none, T, FALSE)
        BY <2>1
      <3> HIDE DEF none
      <3>3. rows' = rows \cup none /\ Standing' = (Standing \ T) \cup none
        BY <2>2, <3>1, <3>2, PostStands DEF Money
      <3> QED
        BY <3>3 DEF none
    <2>5. Backed'
      <3>1. \A r \in Standing' : r.order \in Orders /\ (r.order = o => r.order \in Booths)
        BY <2>3, <2>4 DEF Standing, Money, Ledger, LedgerType, Row, Tied
      <3> QED
        BY <2>1, <2>4, <3>1 DEF Backed, Booked, Money, OrderType
    <2>6. \A q \in Orders : status[q] # "none" => status'[q] # "none"
      BY <1>1, <2>1 DEF Money, OrderType, Statuses
    <2>7. Booked'
      BY <1>2, <2>4, <2>5, <2>6, TakenBack
    <2>8. Entry
      <3> DEFINE K == IF o \in Booths THEN {"deposit", "credit"} ELSE Kinds
      <3>1. \A r \in Standing : r.kind \in Kinds
        BY DEF Standing, Money, Ledger, LedgerType, Row
      <3>2. /\ \A r \in T : r.order = o /\ r.kind \in K
            /\ \A r \in Standing : r.order = o /\ r.kind \in K => r \in T
        BY <2>2, <2>3, <3>1 DEF Tied
      <3>3. K = IF o \in Booths THEN Abstract!Parts \ Abstract!Legs ELSE Abstract!Parts
        BY DEF Kinds, Abstract!Parts, Abstract!Legs
      <3> HIDE DEF K
      <3>4. Moved(o, OnBooks(o) \ K)
        BY <1>1, <2>2, <2>4, <3>2, PartsLeave DEF Moved
      <3>5. Abstract!Leaves(o, K)
        BY <1>1, <3>4, LeaveIsAStep
      <3> QED
        BY <1>1, <3>3, <3>5 DEF Entry, Abstract!Cancels
    <2> QED
      BY <2>7, <2>8
  <1> QED
    BY <1>3, <1>4

LEMMA ReverseBooks ==
    ASSUME Money, Booked, NEW h \in Handlers, Reverse(h)
    PROVE  Booked' /\ Entry
  <1>1. PICK r \in rows : job[h].plan = {r}
    BY DEF Reverse, Booked, Loyal
  <1>2. /\ \A g \in Handlers \ {h} : pc'[g] = pc[g] /\ job'[g] = job[g]
        /\ pc'[h] = "idle" /\ job'[h] = NoJob
        /\ UNCHANGED <<status, deposit>>
    BY DEF Reverse, Ends, Money, OrderType, orderVars
  <1>3. CASE ~Reversible(r)
    <2>1. UNCHANGED <<rows, backs>>
      BY <1>1, <1>3 DEF Reverse, bookVars
    <2>2. Aside({h}, {})
      BY <1>2, <2>1, SameDeposits DEF Aside
    <2> QED
      BY <1>2, <2>1, <2>2, QuietBooked DEF Entry, NoJob
  <1>4. CASE Reversible(r)
    <2> DEFINE none == {}
               T == {r}
               o == r.order
               K == {r.kind}
    <2>1. Post(none, T, TRUE) /\ none \in SUBSET Row /\ \A q \in none : q.batch = entries + 1
      BY <1>1, <1>4 DEF Reverse
    <2>2. T \in SUBSET rows /\ T \in SUBSET Standing /\ o \in Orders
      BY <1>4 DEF Standing, Reversible, Money, Ledger, LedgerType, Row
    <2>3. /\ \A q \in T : q.order = o /\ q.kind \in K
          /\ \A q \in Standing : q.order = o /\ q.kind \in K => q \in T
      BY <2>2 DEF Booked, Single
    <2>4. K \subseteq OnBooks(o) /\ r.kind \in K /\ K = {r.kind}
      BY <2>2 DEF OnBooks
    <2> HIDE DEF none, T, o, K
    <2>5. rows' = rows \cup none /\ Standing' = (Standing \ T) \cup none
      BY <2>1, <2>2, PostStands DEF Money
    <2>6. rows' = rows /\ Standing' = Standing \ T
      BY <2>5 DEF none
    <2>7. Backed'
      BY <1>2, <2>6 DEF Backed, Booked
    <2>8. Booked'
      BY <1>2, <2>6, <2>7, TakenBack
    <2>9. Moved(o, OnBooks(o) \ K)
      BY <2>2, <2>3, <2>6, PartsLeave DEF Moved
    <2>10. Abstract!Leaves(o, K)
      BY <2>2, <2>9, LeaveIsAStep
    <2>11. Abstract!TakesBack(o)
      BY <2>2, <2>4, <2>10 DEF Abstract!TakesBack
    <2> QED
      BY <2>2, <2>8, <2>11 DEF Entry
  <1> QED
    BY <1>3, <1>4

\* The two halves of a booth's split, each entered once.
LEMMA BoothBooks ==
    ASSUME Money, Booked, NEW h \in Handlers, BoothTransfer(h) \/ BoothCredit(h)
    PROVE  Booked' /\ Entry
  <1>0. PICK o \in Orders : o = job[h].order
    BY DEF Money, OrderType, Job
  <1> DEFINE K == IF pc[h] = "legs" THEN {"out", "in"} ELSE {"credit"}
             S == NewRows(o, K)
             none == {}
  <1>1. /\ pc[h] \in {"legs", "credit"} /\ Loyal(h) /\ InHand(h) /\ o \in Booths \cap Split
        /\ status[o] # "none"
        /\ \A q \in Standing : q.order = o => q.kind = "deposit"
                                  \/ (pc[h] = "credit" /\ q.kind \in {"out", "in"})
    BY <1>0 DEF BoothTransfer, BoothCredit, Booked, Loyal
  <1>2. /\ \A g \in Handlers \ {h} : pc'[g] = pc[g] /\ job'[g] = job[g]
        /\ UNCHANGED <<status, deposit>>
        /\ \/ pc[h] = "legs" /\ pc'[h] = "credit" /\ job'[h] = job[h]
           \/ pc[h] = "credit" /\ pc'[h] = "idle" /\ job'[h] = NoJob /\ Free(h, o)
    <2>1. CASE BoothTransfer(h)
      BY <1>0, <2>1 DEF BoothTransfer, Goes, Money, OrderType, orderVars
    <2>2. CASE BoothCredit(h)
      BY <1>0, <2>2 DEF BoothCredit, Ends, Money, OrderType, orderVars
    <2> QED
      BY <2>1, <2>2
  <1>3. Post(S, none, FALSE) /\ none \in SUBSET rows
    BY <1>0 DEF BoothTransfer, BoothCredit
  <1>4. S \in SUBSET Row /\ \A q \in S : q.order = o /\ q.kind \in K /\ q.batch = entries + 1
    <2>1. K \in SUBSET Kinds /\ entries \in Nat
      BY DEF Kinds, Money, Ledger, LedgerType
    <2> QED
      BY <2>1, NewRowsType
  <1>5. OnBooks(o) \cap K = {}
    BY <1>1 DEF OnBooks
  <1>6. /\ K = {"out", "in"} \/ K = {"credit"}
        /\ pc[h] = "legs" => K = {"out", "in"}
        /\ pc[h] = "credit" => K = {"credit"}
    OBVIOUS
  <1> HIDE DEF K
  <1>7. rows' = rows \cup S /\ Standing' = Standing \cup S
    <2> HIDE DEF S, none
    <2>1. rows' = rows \cup S /\ Standing' = (Standing \ none) \cup S
      BY <1>3, <1>4, PostStands DEF Money
    <2> QED
      BY <2>1 DEF none
  <1>8. Single'
    BY <1>5, <1>7, EnterSingle DEF Booked
  <1>9. Entry
    <2>1. Moved(o, OnBooks(o) \cup K)
      BY <1>7, PartsEnter DEF Moved
    <2>2. Abstract!Enters(o, K)
      BY <1>5, <2>1, EnterIsAStep
    <2>3. Abstract!Shares(o)
      BY <1>1, <1>6, <2>2 DEF Abstract!Shares, Abstract!Legs
    <2> QED
      BY <2>3 DEF Entry
  <1> HIDE DEF S, none
  <1>10. Backed' /\ Known'
    BY <1>1, <1>2, <1>4, <1>7 DEF Backed, Known, Booked
  <1>11. Apart'
    BY <1>2 DEF Apart, Booked, InHand, NoJob
  <1>12. Aside({h}, S)
    <2>1. ASSUME NEW g \in Handlers \ {h}, NEW q \in S, q.order = job[g].order
          PROVE  (Holding(g) => ~Tied(q)) /\ ~InHand(g)
      <3>1. ~InHand(g)
        BY <1>0, <1>1, <1>4, <2>1 DEF Booked, Apart
      <3>2. CASE pc[h] = "legs"
        BY <1>1, <1>4, <1>6, <3>1, <3>2 DEF Tied
      <3>3. CASE pc[h] = "credit"
        BY <1>2, <1>4, <2>1, <3>1, <3>3 DEF Free, Holds, Holding
      <3> QED
        BY <1>1, <3>2, <3>3
    <2> QED
      BY <1>2, <1>7, <2>1 DEF Aside
  <1>13. Loyal(h)'
    <2>1. CASE pc[h] = "legs" /\ pc'[h] = "credit" /\ job'[h] = job[h]
      <3>1. \A q \in Standing' : q.order = o => q.kind \in {"deposit", "out", "in"}
        BY <1>1, <1>4, <1>6, <1>7, <2>1
      <3> QED
        BY <1>0, <1>1, <1>2, <2>1, <3>1 DEF Loyal, InHand
    <2>2. CASE pc'[h] = "idle" /\ job'[h] = NoJob
      BY <2>2 DEF Loyal, InHand, NoJob
    <2> QED
      BY <1>2, <2>1, <2>2
  <1> QED
    BY <1>8, <1>9, <1>10, <1>11, <1>12, <1>13, OthersLoyal DEF Booked, Money

LEMMA LockBooks ==
    ASSUME Money, Booked, NEW h \in Handlers, LockOrder(h)
    PROVE  Booked' /\ Entry
  <1>0. PICK o \in Orders : o = job[h].order
    BY DEF Money, OrderType, Job
  <1> DEFINE p == IF pc[h] = "settle" THEN {} ELSE {r \in Standing : r.order = o /\ Tied(r)}
             j == [job[h] EXCEPT !.seen = status[o], !.posted = deposit[o], !.plan = p]
  <1>1. /\ pc[h] \in {"settle", "unsettle"} /\ Loyal(h)
        /\ UNCHANGED <<status, deposit, rows, backs>>
        /\ pc' = [pc EXCEPT ![h] = IF pc[h] = "settle" THEN "settling" ELSE "unsettling"]
        /\ job' = [job EXCEPT ![h] = j]
    BY <1>0 DEF LockOrder, Money, OrderType, orderVars, bookVars, Booked
  <1>2. job[h] \in Job
    BY DEF Money, OrderType
  <1>3. j.order = o /\ j.by = job[h].by /\ j.plan = p
    <2> HIDE DEF p
    <2> QED
      BY <1>0, <1>2 DEF Job
  <1>4. pc[h] = "unsettle" => p = {r \in Standing : r.order = o /\ Tied(r)}
    OBVIOUS
  <1> HIDE DEF p, j
  <1>5. /\ \A g \in Handlers \ {h} : pc'[g] = pc[g] /\ job'[g] = job[g]
        /\ pc'[h] = (IF pc[h] = "settle" THEN "settling" ELSE "unsettling") /\ job'[h] = j
    BY <1>1 DEF Money, OrderType
  <1>6. Standing' = Standing
    BY <1>1, SameDeposits
  <1>7. Aside({h}, {})
    BY <1>1, <1>5, <1>6 DEF Aside
  <1>8. Apart'
    BY <1>0, <1>3, <1>5 DEF Apart, InHand, Booked
  <1>9. Loyal(h)'
    <2>1. CASE pc[h] = "settle"
      BY <1>0, <1>1, <1>3, <1>5, <1>6, <2>1 DEF Loyal, InHand
    <2>2. CASE pc[h] = "unsettle"
      BY <1>0, <1>1, <1>3, <1>4, <1>5, <1>6, <2>2 DEF Loyal, InHand, Tied
    <2> QED
      BY <1>1, <2>1, <2>2
  <1> QED
    BY <1>1, <1>7, <1>8, <1>9, OneGoesOn DEF Entry

LEMMA BeginBooks ==
    ASSUME Money, Booked, NEW h \in Handlers, NEW stage \in Stages, NEW j \in Job,
           Begin(h, stage, j), UNCHANGED <<rows, backs, deposit>>,
           stage \in {"settle", "unsettle", "update", "item", "reverse"}, j.by # "booth",
           stage = "reverse" => \E r \in rows : j.plan = {r},
           \A q \in Orders : status[q] # "none" => status'[q] # "none"
    PROVE  Booked' /\ Entry
  <1>1. /\ \A g \in Handlers \ {h} : pc'[g] = pc[g] /\ job'[g] = job[g]
        /\ pc'[h] = stage /\ job'[h] = j
    BY DEF Begin, Money, OrderType
  <1>2. Aside({h}, {})
    BY <1>1, SameDeposits DEF Aside
  <1> QED
    BY <1>1, <1>2, QuietBooked DEF Entry

LEMMA CreateBooks ==
    ASSUME Money, Booked, NEW h \in Handlers, NEW o \in Orders, CreateOrder(h, o)
    PROVE  Booked' /\ Entry
  <1> DEFINE by == IF o \in Booths THEN "booth" ELSE "leader"
             j == [NoJob EXCEPT !.order = o, !.want = "paid", !.by = by]
  <1>1. j \in Job /\ j.order = o /\ j.by = by /\ by \in {"leader", "booth"}
    BY NoJobType, JobFields DEF Statuses, NoJob
  <1>2. /\ Begin(h, "settle", j) /\ UNCHANGED <<rows, backs, deposit>> /\ status[o] = "none"
        /\ \A q \in Orders : status[q] # "none" => status'[q] # "none"
        /\ status'[o] = "placed"
    BY DEF CreateOrder, Request, bookVars, Money, OrderType
  <1>3. by = "booth" => o \in Booths
    OBVIOUS
  <1> HIDE DEF j, by
  <1>4. CASE by = "leader"
    BY <1>1, <1>2, <1>4, BeginBooks DEF Stages
  <1>5. CASE by = "booth"
    <2>1. /\ \A g \in Handlers \ {h} : pc'[g] = pc[g] /\ job'[g] = job[g]
          /\ pc'[h] = "settle" /\ job'[h] = j
      BY <1>2 DEF Begin, Money, OrderType
    <2>2. Standing' = Standing
      BY <1>2, SameDeposits
    <2>3. Aside({h}, {})
      BY <1>2, <2>1, <2>2 DEF Aside
    <2>4. \A r \in Standing : r.order # o
      BY <1>2 DEF Booked, Known
    <2>5. Loyal(h)'
      BY <1>1, <1>2, <1>3, <1>5, <2>1, <2>2, <2>4 DEF Loyal, InHand
    <2>6. \A g \in Handlers \ {h} : InHand(g) => job[g].order # o
      BY <1>2 DEF Booked, Loyal
    <2>7. Apart'
      BY <1>1, <2>1, <2>6 DEF Apart, InHand, Booked
    <2> QED
      BY <1>2, <2>3, <2>5, <2>7, OneGoesOn DEF Entry
  <1> QED
    BY <1>1, <1>4, <1>5

\* A request that goes on, or ends, without a posting.
LEMMA GoOnBooks ==
    ASSUME Money, Booked, NEW h \in Handlers,
           PlainUpdate(h) \/ WriteItem(h) \/ CheckItems(h) \/ Crash(h)
    PROVE  Booked' /\ Entry
  <1>1. UNCHANGED <<rows, backs, deposit>>
    BY DEF PlainUpdate, WriteItem, CheckItems, Crash, bookVars, orderVars
  <1>2. /\ \A g \in Handlers \ {h} : pc'[g] = pc[g] /\ job'[g] = job[g]
        /\ job'[h].by # "booth" /\ pc'[h] \in {"idle", "check", "update"}
    <2>1. CASE PlainUpdate(h) \/ Crash(h)
      BY <2>1 DEF PlainUpdate, Crash, Ends, Money, OrderType, NoJob
    <2>2. CASE WriteItem(h)
      BY <2>2 DEF WriteItem, Goes, Money, OrderType, Booked, Loyal, InHand
    <2>3. CASE CheckItems(h)
      <3> DEFINE j == [job[h] EXCEPT !.want = "delivered"]
      <3>1. j.by = job[h].by /\ job[h].by # "booth"
        BY <2>3 DEF CheckItems, Booked, Loyal, InHand, Money, OrderType, Job
      <3>2. \/ pc' = [pc EXCEPT ![h] = "update"] /\ job' = [job EXCEPT ![h] = j]
            \/ Ends(h)
        BY <2>3 DEF CheckItems, Money, OrderType
      <3> HIDE DEF j
      <3>3. CASE Ends(h)
        BY <3>3 DEF Ends, Money, OrderType, NoJob
      <3>4. CASE pc' = [pc EXCEPT ![h] = "update"] /\ job' = [job EXCEPT ![h] = j]
        BY <3>1, <3>4 DEF Money, OrderType
      <3> QED
        BY <3>2, <3>3, <3>4
    <2> QED
      BY <2>1, <2>2, <2>3
  <1>3. \A q \in Orders : status[q] # "none" => status'[q] # "none"
    BY DEF PlainUpdate, WriteItem, CheckItems, Crash, orderVars, Money, OrderType, Job, Statuses
  <1>4. Aside({h}, {})
    BY <1>1, <1>2, <1>3, SameDeposits DEF Aside
  <1> QED
    BY <1>1, <1>2, <1>4, QuietBooked DEF Entry

\* An order comes in, Stripe is paid, a balance is looked at: no request goes on.
LEMMA NobodyBooks ==
    ASSUME Money, Booked, UNCHANGED <<rows, backs, deposit, pc, job>>,
           \A q \in Orders : status[q] # "none" => status'[q] # "none"
    PROVE  Booked' /\ Entry
  <1>1. Aside({}, {})
    BY SameDeposits DEF Aside
  <1>2. Apart'
    BY DEF Apart, InHand, Booked
  <1> QED
    BY <1>1, <1>2, OneGoesOn DEF Entry

LEMMA BookedStep == Money /\ Booked /\ [Next]_vars => Booked' /\ Entry
  <1> SUFFICES ASSUME Money, Booked, [Next]_vars PROVE Booked' /\ Entry
    OBVIOUS
  <1>1. ASSUME NEW o \in Orders, PlaceOrder(o) \/ BuyerPays(o) PROVE Booked' /\ Entry
    BY <1>1, NobodyBooks DEF PlaceOrder, BuyerPays, orderVars, bookVars, Money, OrderType
  <1>2. ASSUME NEW h \in Handlers, NEW o \in Orders, CreateOrder(h, o) PROVE Booked' /\ Entry
    BY <1>2, CreateBooks
  <1>3. ASSUME NEW h \in Handlers, NEW o \in Orders, NEW want \in Wanted,
               UpdateOrderStatus(h, o, want)
        PROVE  Booked' /\ Entry
    <2> DEFINE j == [NoJob EXCEPT !.order = o, !.want = want, !.seen = status[o]]
    <2>1. j \in Job /\ j.by = "leader"
      <3>1. want \in Statuses /\ status[o] \in Statuses \cup {"none"}
        BY DEF Wanted, Statuses, Money, OrderType
      <3>2. j \in Job
        BY <3>1, NoJobType, JobFields
      <3> QED
        BY <3>2, NoJobType DEF NoJob, Job
    <2>2. PICK stage \in {"settle", "unsettle", "update"} : Request(h, stage, j)
      BY <1>3 DEF UpdateOrderStatus
    <2>3. UNCHANGED orderVars
      BY <1>3 DEF UpdateOrderStatus
    <2> HIDE DEF j
    <2> QED
      BY <2>1, <2>2, <2>3, BeginBooks DEF Stages, Request, orderVars, bookVars
  <1>4. ASSUME NEW h \in Handlers, NEW o \in Orders, NEW all \in BOOLEAN,
               SetItemDelivered(h, o, all)
        PROVE  Booked' /\ Entry
    <2> DEFINE j == [NoJob EXCEPT !.order = o, !.seen = status[o],
                                  !.want = IF all THEN "delivered" ELSE "placed"]
    <2>1. j \in Job /\ j.by = "leader"
      BY NoJobType, JobFields DEF Statuses, NoJob, Money, OrderType
    <2>2. Request(h, "item", j) /\ UNCHANGED orderVars
      BY <1>4 DEF SetItemDelivered
    <2> HIDE DEF j
    <2> QED
      BY <2>1, <2>2, BeginBooks DEF Stages, Request, orderVars, bookVars
  <1>5. ASSUME NEW h \in Handlers, NEW r \in Standing, ReverseRow(h, r) PROVE Booked' /\ Entry
    <2>1. r \in rows /\ r \in Row /\ r.order \in Orders
      BY DEF Standing, Money, Ledger, LedgerType, Row
    <2> DEFINE j == [NoJob EXCEPT !.order = r.order, !.plan = {r}]
    <2>2. j \in Job /\ j.plan = {r}
      BY <2>1, RowJob
    <2>3. j.by = "leader"
      BY DEF NoJob
    <2>4. Begin(h, "reverse", j) /\ UNCHANGED orderVars /\ UNCHANGED bookVars
      BY <1>5 DEF ReverseRow, Request
    <2> HIDE DEF j
    <2> QED
      BY <2>1, <2>2, <2>3, <2>4, BeginBooks DEF Stages, orderVars, bookVars
  <1>6. ASSUME NEW h \in Handlers, NEW o \in Orders, NEW e \in events[o], Webhook(h, o, e)
        PROVE  Booked' /\ Entry
    <2>1. UNCHANGED bookVars /\ UNCHANGED orderVars /\ e \in {"checkout", "intent"}
      BY <1>6 DEF Webhook, Money, OrderType
    <2>2. CASE Paid(status[o])
      BY <1>6, <2>1, <2>2, NobodyBooks DEF Webhook, bookVars, orderVars
    <2>3. CASE ~Paid(status[o])
      <3> DEFINE j == [NoJob EXCEPT !.order = o, !.want = "paid", !.by = e, !.seen = status[o]]
      <3>1. j \in Job
        <4>1. status[o] \in Statuses \cup {"none"} /\ "paid" \in Statuses
          BY DEF Statuses, Money, OrderType
        <4> QED
          BY <2>1, <4>1, NoJobType, JobFields
      <3>3. j.by = e
        BY DEF NoJob
      <3>2. Begin(h, "settle", j)
        BY <1>6, <2>3 DEF Webhook
      <3> HIDE DEF j
      <3> QED
        BY <2>1, <3>1, <3>2, <3>3, BeginBooks DEF Stages, orderVars, bookVars
    <2> QED
      BY <2>2, <2>3
  <1>7. ASSUME NEW h \in Handlers,
               \/ LockOrder(h) \/ Settle(h) \/ Unsettle(h) \/ Reverse(h)
               \/ BoothTransfer(h) \/ BoothCredit(h)
               \/ PlainUpdate(h) \/ WriteItem(h) \/ CheckItems(h) \/ Crash(h)
        PROVE  Booked' /\ Entry
    BY <1>7, LockBooks, SettleBooks, UnsettleBooks, ReverseBooks, BoothBooks, GoOnBooks
  <1>8. ASSUME (\E x \in Books : ReadBalance(x)) \/ SumRows \/ FixBalance PROVE Booked' /\ Entry
    BY <1>8, NobodyBooks DEF ReadBalance, SumRows, FixBalance, Audit, orderVars
  <1>9. CASE UNCHANGED vars
    BY <1>9, NobodyBooks DEF vars
  <1> QED
    BY <1>1, <1>2, <1>3, <1>4, <1>5, <1>6, <1>7, <1>8, <1>9 DEF Next

LEMMA BookedInit == Init => Booked
  BY DEF Init, Booked, Single, Backed, Known, Apart, InHand, Loyal, NoJob, Standing

\* The balances of a ledger with nothing on it are all zero.
LEMMA TreasuryInit == Init => Abstract!Init
  <1> SUFFICES ASSUME Init PROVE Abstract!Init
    OBVIOUS
  <1>1. [o \in Orders |-> OnBooks(o)] = [o \in Orders |-> {}]
    BY DEF Init, Standing, OnBooks
  <1>2. Matches
    BY MoneyInit, BookedInit, BooksMatch DEF Money, Booked
  <1> QED
    BY <1>1, <1>2 DEF Matches, Init, Abstract!Init

\* A repair can be overtaken; a step that posts cannot make that undone.
LEMMA LapseStays == [Next]_vars => (overtaken => overtaken')
  <1> SUFFICES ASSUME [Next]_vars, overtaken PROVE overtaken'
    OBVIOUS
  <1> USE DEF bookVars
  <1>1. ASSUME NEW o \in Orders, PlaceOrder(o) \/ BuyerPays(o) PROVE overtaken'
    BY <1>1 DEF PlaceOrder, BuyerPays
  <1>2. ASSUME NEW h \in Handlers, NEW stage, NEW j, Request(h, stage, j) PROVE overtaken'
    BY <1>2 DEF Request
  <1>3. ASSUME NEW h \in Handlers, NEW o \in Orders,
               \/ CreateOrder(h, o) \/ \E want \in Wanted : UpdateOrderStatus(h, o, want)
               \/ \E all \in BOOLEAN : SetItemDelivered(h, o, all)
        PROVE  overtaken'
    BY <1>2, <1>3, Zenon DEF CreateOrder, UpdateOrderStatus, SetItemDelivered
  <1>4. ASSUME NEW h \in Handlers, NEW r, ReverseRow(h, r) PROVE overtaken'
    BY <1>2, <1>4 DEF ReverseRow
  <1>5. ASSUME NEW h \in Handlers, NEW o, NEW e, Webhook(h, o, e) PROVE overtaken'
    BY <1>5 DEF Webhook
  <1>6. ASSUME NEW S, NEW T, NEW hand, Post(S, T, hand) PROVE overtaken'
    BY <1>6 DEF Post
  <1>7. ASSUME NEW h \in Handlers,
               Settle(h) \/ Unsettle(h) \/ Reverse(h) \/ BoothTransfer(h) \/ BoothCredit(h)
        PROVE  overtaken'
    BY <1>6, <1>7 DEF Settle, Unsettle, Reverse, BoothTransfer, BoothCredit
  <1>8. ASSUME NEW h \in Handlers,
               \/ LockOrder(h) \/ PlainUpdate(h) \/ WriteItem(h) \/ CheckItems(h) \/ Crash(h)
        PROVE  overtaken'
    BY <1>8 DEF LockOrder, PlainUpdate, WriteItem, CheckItems, Crash
  <1>9. ASSUME (\E x \in Books : ReadBalance(x)) \/ SumRows \/ FixBalance PROVE overtaken'
    BY <1>9 DEF ReadBalance, SumRows, FixBalance
  <1>10. CASE UNCHANGED vars
    BY <1>10 DEF vars
  <1> QED
    BY <1>1, <1>3, <1>4, <1>5, <1>7, <1>8, <1>9, <1>10 DEF Next

\* For any orders, handlers and amounts, the rows, their reversals and the cached
\* balances implement Treasury: every step of a settlement, a cancellation, a stale
\* page, a repeated Stripe event, a treasurer's reversal or a repair brings one
\* order's proceeds onto the books whole, or takes away what stands of them, or
\* changes nothing, and until a repair is overtaken the balances move with them.
THEOREM BooksAreOneLedger == Spec => ImplementsTreasury
  <1>1. Spec => [](Money /\ Booked)
    <2>1. Init => Money /\ Booked
      BY MoneyInit, BookedInit
    <2>2. Money /\ Booked /\ [Next]_vars => (Money /\ Booked)'
      BY MoneyStep, BookedStep
    <2> QED
      BY <2>1, <2>2, PTL DEF Spec
  <1>2. Money /\ Booked => Matches
    BY BooksMatch DEF Money, Booked
  <1>3. ASSUME Money, Booked, [Next]_vars, Matches'
        PROVE  [Abstract!Next]_(Abstract!treasuryVars)
    <2>1. Entry /\ (overtaken => overtaken')
      BY <1>3, BookedStep, LapseStays
    <2>2. overtaken' \/ bal' = Abstract!Worth'
      BY <1>3 DEF Matches
    <2>3. ASSUME \A o \in Orders : OnBooks(o)' = OnBooks(o)
          PROVE  [o \in Orders |-> OnBooks(o)]' = [o \in Orders |-> OnBooks(o)]
      BY <2>3
    <2> QED
      BY <2>1, <2>2, <2>3 DEF Entry, Abstract!Next
  <1> QED
    BY <1>1, <1>2, <1>3, TreasuryInit, PTL DEF Spec, ImplementsTreasury, Abstract!Spec
-----------------------------------------------------------------------------
(* Where CancelledOffBooks fails: the run sales_cancel shows a cancelled     *)
(* order whose money the ledger still counts.                                *)

\* The order is cancelled, and its deposit stands.
Escaped(o) == status[o] = "cancelled" /\ \E r \in Standing : r.kind = "deposit" /\ r.order = o

\* A page that read the order before it was paid writes its cancellation after
\* the settlement, with no look at depositTransactionId.
CancelsUnread(h, o) ==
    /\ pc[h] = "update" /\ pc'[h] = "idle"
    /\ job[h].order = o /\ job[h].want = "cancelled" /\ ~Paid(job[h].seen)
    /\ deposit[o]

\* The plain status write is the only step that leaves money behind a cancelled
\* order: no settlement, unsettlement, webhook, reversal, booth or crash does.
OnlyUnreadCancels ==
    [][\A o \in Orders : ~Escaped(o) /\ Escaped(o)' => \E h \in Handlers : CancelsUnread(h, o)]_vars

\* A page writes a cancellation plainly only if it read the order as not paid.
ReadUnpaid == \A h \in Handlers :
    pc[h] = "update" /\ job[h].want = "cancelled" => ~Paid(job[h].seen)

LEMMA ReadUnpaidStep == OrderType /\ ReadUnpaid /\ [Next]_vars => ReadUnpaid'
  <1> SUFFICES ASSUME OrderType, ReadUnpaid, [Next]_vars,
                      NEW h \in Handlers, pc'[h] = "update", job'[h].want = "cancelled"
               PROVE  ~Paid(job'[h].seen)
    BY DEF ReadUnpaid
  <1> USE DEF OrderType
  <1>1. ASSUME NEW g \in Handlers, NEW stage \in Stages, NEW j \in Job, Begin(g, stage, j),
               stage = "update" /\ j.want = "cancelled" => ~Paid(j.seen)
        PROVE  ~Paid(job'[h].seen)
    <2>1. CASE g = h
      BY <1>1, <2>1 DEF Begin
    <2>2. CASE g # h
      BY <1>1, <2>2 DEF Begin, ReadUnpaid
    <2> QED
      BY <2>1, <2>2
  <1>2. ASSUME NEW g \in Handlers, NEW o \in Orders,
               CreateOrder(g, o) \/ \E all \in BOOLEAN : SetItemDelivered(g, o, all)
        PROVE  ~Paid(job'[h].seen)
    <2>1. PICK stage \in {"settle", "item"}, j \in Job : Begin(g, stage, j)
      <3>1. CASE CreateOrder(g, o)
        <4>1. [NoJob EXCEPT !.order = o, !.want = "paid",
                 !.by = IF o \in Booths THEN "booth" ELSE "leader"] \in Job
          BY NoJobType, JobFields DEF Statuses
        <4> QED
          BY <3>1, <4>1 DEF CreateOrder, Request
      <3>2. ASSUME NEW all \in BOOLEAN, SetItemDelivered(g, o, all)
            PROVE  \E stage \in {"settle", "item"}, j \in Job : Begin(g, stage, j)
        <4>1. [NoJob EXCEPT !.order = o, !.seen = status[o],
                 !.want = IF all THEN "delivered" ELSE "placed"] \in Job
          BY NoJobType, JobFields DEF Statuses
        <4> QED
          BY <3>2, <4>1 DEF SetItemDelivered, Request
      <3> QED
        BY <1>2, <3>1, <3>2
    <2> QED
      BY <1>1, <2>1 DEF Stages
  <1>3. ASSUME NEW g \in Handlers, NEW o \in Orders, NEW want \in Wanted,
               UpdateOrderStatus(g, o, want)
        PROVE  ~Paid(job'[h].seen)
    <2> DEFINE j == [NoJob EXCEPT !.order = o, !.want = want, !.seen = status[o]]
    <2>1. j \in Job /\ j.want = want /\ j.seen = status[o]
      <3>1. want \in Statuses /\ status[o] \in Statuses \cup {"none"}
        BY DEF Wanted, Statuses
      <3>2. j \in Job
        BY <3>1, NoJobType, JobFields
      <3> QED
        BY <3>2, NoJobType DEF NoJob, Job
    <2>2. PICK stage \in {"settle", "unsettle", "update"} :
             /\ Request(g, stage, j)
             /\ stage = "update" => (want \in {"cancelled", "placed"} => ~Paid(status[o]))
      BY <1>3 DEF UpdateOrderStatus
    <2> HIDE DEF j
    <2> QED
      BY <1>1, <2>1, <2>2 DEF Stages, Request
  <1>4. ASSUME NEW g \in Handlers, NEW r \in Standing, ReverseRow(g, r) PROVE ~Paid(job'[h].seen)
    BY <1>4 DEF ReverseRow, Request, Begin, ReadUnpaid
  <1>5. ASSUME NEW g \in Handlers, NEW o \in Orders, NEW e, Webhook(g, o, e)
        PROVE  ~Paid(job'[h].seen)
    <2>1. \/ UNCHANGED <<pc, job>>
          \/ \E j : pc' = [pc EXCEPT ![g] = "settle"] /\ job' = [job EXCEPT ![g] = j]
      BY <1>5 DEF Webhook, Begin
    <2> QED
      BY <2>1 DEF ReadUnpaid
  <1>6. ASSUME NEW g \in Handlers, NEW st \in Stages \ {"update"}, pc' = [pc EXCEPT ![g] = st],
               \E j : job' = [job EXCEPT ![g] = j]
        PROVE  ~Paid(job'[h].seen)
    BY <1>6 DEF ReadUnpaid
  <1>7. ASSUME NEW g \in Handlers,
               \/ LockOrder(g) \/ Settle(g) \/ Unsettle(g) \/ PlainUpdate(g) \/ WriteItem(g)
               \/ Reverse(g) \/ BoothTransfer(g) \/ BoothCredit(g) \/ Crash(g)
        PROVE  ~Paid(job'[h].seen)
    <2>1. CASE LockOrder(g)
      <3>1. \E j : job' = [job EXCEPT ![g] = j]
        BY <2>1 DEF LockOrder
      <3>2. \E st \in Stages \ {"update"} : pc' = [pc EXCEPT ![g] = st]
        BY <2>1 DEF LockOrder, Stages
      <3> QED
        BY <1>6, <3>1, <3>2
    <2>2. ASSUME Ends(g) PROVE ~Paid(job'[h].seen)
      BY <2>2, <1>6 DEF Ends, Stages
    <2>3. ASSUME NEW st \in {"legs", "check", "credit"}, Goes(g, st) PROVE ~Paid(job'[h].seen)
      BY <2>3 DEF Goes, ReadUnpaid
    <2> QED
      BY <1>7, <2>1, <2>2, <2>3
         DEF Settle, Unsettle, PlainUpdate, WriteItem, Reverse, BoothTransfer, BoothCredit, Crash
  <1>8. ASSUME NEW g \in Handlers, CheckItems(g) PROVE ~Paid(job'[h].seen)
    <2>1. CASE Ends(g)
      BY <2>1, <1>6 DEF Ends, Stages
    <2>2. CASE ~Ends(g)
      <3> DEFINE j == [job[g] EXCEPT !.want = "delivered"]
      <3>1. j.want = "delivered"
        BY DEF Job
      <3>2. pc' = [pc EXCEPT ![g] = "update"] /\ job' = [job EXCEPT ![g] = j]
        BY <1>8, <2>2 DEF CheckItems
      <3> HIDE DEF j
      <3> QED
        BY <3>1, <3>2 DEF ReadUnpaid
    <2> QED
      BY <2>1, <2>2
  <1>9. CASE UNCHANGED <<pc, job>>
    BY <1>9 DEF ReadUnpaid
  <1> QED
    BY <1>2, <1>3, <1>4, <1>5, <1>7, <1>8, <1>9
       DEF Next, vars, PlaceOrder, BuyerPays, ReadBalance, SumRows, FixBalance, Audit

\* New rows of any kind but a deposit leave no order's money behind.
LEMMA SharesEscapeNothing ==
    ASSUME Money, NEW o \in Orders, NEW K \in SUBSET (Kinds \ {"deposit"}), NEW q \in Orders,
           Post(NewRows(q, K), {}, FALSE), status' = status, ~Escaped(o)
    PROVE  ~Escaped(o)'
  <1> DEFINE none == {}
             S == NewRows(q, K)
  <1>1. S \in SUBSET Row /\ \A r \in S : r.kind # "deposit" /\ r.batch = entries + 1
    BY NewRowsType DEF Money, Ledger, LedgerType
  <1>2. Post(S, none, FALSE) /\ none \in SUBSET rows
    OBVIOUS
  <1> HIDE DEF none, S
  <1>3. Standing' = (Standing \ none) \cup S
    BY <1>1, <1>2, PostStands DEF Money
  <1> QED
    BY <1>1, <1>3 DEF Escaped

\* Reversals take rows away, and bring none.
LEMMA ReversalsEscapeNothing ==
    ASSUME Money, NEW T \in SUBSET rows, NEW hand \in BOOLEAN, Post({}, T, hand)
    PROVE  Standing' = Standing \ T
  <1> DEFINE none == {}
  <1>1. none \in SUBSET Row /\ (\A r \in none : r.batch = entries + 1) /\ Post(none, T, hand)
    OBVIOUS
  <1> HIDE DEF none
  <1>2. Standing' = (Standing \ T) \cup none
    BY <1>1, PostStands DEF Money
  <1> QED
    BY <1>2 DEF none

LEMMA SettleEscapesNothing ==
    ASSUME Money, NEW o \in Orders, NEW h \in Handlers, Settle(h), ~Escaped(o)
    PROVE  ~Escaped(o)'
  <1>0. PICK q \in Orders : q = job[h].order
    BY DEF Money, OrderType, Job
  <1>1. CASE ~MaySettle(job[h])
    <2>1. UNCHANGED <<status, deposit, rows, backs>>
      BY <1>1 DEF Settle, bookVars
    <2> QED
      BY <2>1, SameDeposits DEF Escaped
  <1>2. CASE MaySettle(job[h])
    <2> DEFINE none == {}
               S == NewRows(q, SettledKinds(q))
    <2>1. Post(S, none, FALSE) /\ status' = [status EXCEPT ![q] = "paid"] /\ none \in SUBSET rows
      BY <1>0, <1>2 DEF Settle
    <2>2. S \in SUBSET Row /\ \A r \in S : r.order = q /\ r.batch = entries + 1
      <3>1. SettledKinds(q) \in SUBSET Kinds
        BY DEF SettledKinds, Kinds
      <3> QED
        BY <3>1, NewRowsType DEF Money, Ledger, LedgerType
    <2> HIDE DEF none, S
    <2>3. Standing' = (Standing \ none) \cup S
      BY <2>1, <2>2, PostStands DEF Money
    <2> QED
      BY <2>1, <2>2, <2>3 DEF Escaped, Money, OrderType
  <1> QED
    BY <1>1, <1>2

\* A cancellation under the lock takes the deposit with it: it planned it.
LEMMA UnsettleEscapesNothing ==
    ASSUME Money, NEW o \in Orders, NEW h \in Handlers, Unsettle(h), ~Escaped(o)
    PROVE  ~Escaped(o)'
  <1>1. CASE ~\A r \in job[h].plan : Reversible(r)
    <2>1. UNCHANGED <<status, deposit, rows, backs>>
      BY <1>1 DEF Unsettle, bookVars
    <2> QED
      BY <2>1, SameDeposits DEF Escaped
  <1>2. CASE \A r \in job[h].plan : Reversible(r)
    <2> DEFINE T == job[h].plan
    <2>1. /\ Post({}, T, FALSE) /\ T \in SUBSET rows
          /\ status' = [status EXCEPT ![job[h].order] = job[h].want]
      BY <1>2 DEF Unsettle, Money, Plans
    <2>2. \A r \in Standing : r.order = job[h].order /\ r.kind = "deposit" => r \in T
      BY DEF Money, Turns, Covers, Unsettle
    <2> HIDE DEF T
    <2>3. Standing' = Standing \ T
      BY <2>1, ReversalsEscapeNothing
    <2> QED
      BY <2>1, <2>2, <2>3 DEF Escaped, Money, OrderType
  <1> QED
    BY <1>1, <1>2

LEMMA UnreadStep ==
    ASSUME Money, Known, ReadUnpaid, [Next]_vars, NEW o \in Orders, ~Escaped(o), Escaped(o)'
    PROVE  \E h \in Handlers : CancelsUnread(h, o)
  <1>1. ASSUME UNCHANGED <<status, rows, backs>> PROVE FALSE
    BY <1>1 DEF Escaped, Standing, Reversed
  <1>2. ASSUME NEW q \in Orders, status[q] = "none", status' = [status EXCEPT ![q] = "placed"]
        PROVE  status[o] = "cancelled" /\ (UNCHANGED <<rows, backs>> => FALSE)
    BY <1>2, <1>1 DEF Escaped, Standing, Reversed, Money, OrderType
  <1>3. ASSUME NEW q \in Orders, PlaceOrder(q) PROVE FALSE
    BY <1>2, <1>3 DEF PlaceOrder, bookVars
  <1>4. ASSUME NEW q \in Orders, BuyerPays(q) PROVE FALSE
    BY <1>1, <1>4 DEF BuyerPays, bookVars, orderVars
  <1>5. ASSUME NEW h \in Handlers, NEW q \in Orders, CreateOrder(h, q) PROVE FALSE
    BY <1>2, <1>5 DEF CreateOrder, Request, bookVars
  <1>6. ASSUME NEW h \in Handlers, NEW q \in Orders,
               \/ \E want \in Wanted : UpdateOrderStatus(h, q, want)
               \/ \E all \in BOOLEAN : SetItemDelivered(h, q, all)
        PROVE  FALSE
    <2>1. UNCHANGED orderVars /\ \E stage, j : Request(h, stage, j)
      BY <1>6, Zenon DEF UpdateOrderStatus, SetItemDelivered
    <2> QED
      BY <1>1, <2>1 DEF Request, bookVars, orderVars
  <1>7. ASSUME NEW h \in Handlers, NEW q, NEW e, Webhook(h, q, e) PROVE FALSE
    BY <1>1, <1>7 DEF Webhook, bookVars, orderVars
  <1>8. ASSUME NEW h \in Handlers, NEW r, ReverseRow(h, r) PROVE FALSE
    BY <1>1, <1>8 DEF ReverseRow, Request, bookVars, orderVars
  <1>9. ASSUME NEW h \in Handlers, LockOrder(h) \/ WriteItem(h) \/ CheckItems(h) \/ Crash(h)
        PROVE  FALSE
    BY <1>1, <1>9 DEF LockOrder, WriteItem, CheckItems, Crash, bookVars, orderVars
  <1>10. ASSUME NEW h \in Handlers, Reverse(h) PROVE FALSE
    <2>1. CASE UNCHANGED bookVars
      BY <1>1, <1>10, <2>1 DEF Reverse, bookVars, orderVars
    <2>2. CASE Post({}, job[h].plan, TRUE)
      <3>1. Standing' = Standing \ job[h].plan
        BY <2>2, ReversalsEscapeNothing DEF Money, Plans
      <3> QED
        BY <1>10, <3>1 DEF Reverse, orderVars, Escaped
    <2> QED
      BY <1>10, <2>1, <2>2 DEF Reverse
  <1>11. ASSUME NEW h \in Handlers, BoothTransfer(h) \/ BoothCredit(h) PROVE FALSE
    <2>1. job[h].order \in Orders
      BY DEF Money, OrderType, Job
    <2>2. /\ {"out", "in"} \in SUBSET (Kinds \ {"deposit"})
          /\ {"credit"} \in SUBSET (Kinds \ {"deposit"})
      BY DEF Kinds
    <2> QED
      BY <1>11, <2>1, <2>2, SharesEscapeNothing DEF BoothTransfer, BoothCredit, orderVars
  <1>12. ASSUME NEW h \in Handlers, Settle(h) \/ Unsettle(h) PROVE FALSE
    BY <1>12, SettleEscapesNothing, UnsettleEscapesNothing
  <1>13. ASSUME NEW h \in Handlers, PlainUpdate(h) PROVE CancelsUnread(h, o)
    <2>1. /\ status' = [status EXCEPT ![job[h].order] = job[h].want]
          /\ pc[h] = "update" /\ pc'[h] = "idle" /\ Standing' = Standing
      BY <1>13 DEF PlainUpdate, Ends, bookVars, Standing, Reversed, Money, OrderType
    <2>2. job[h].order = o /\ job[h].want = "cancelled"
      BY <2>1 DEF Escaped, Money, OrderType
    <2>3. deposit[o]
      BY <2>1 DEF Escaped, Money, Deposits, Posted
    <2> QED
      BY <2>1, <2>2, <2>3 DEF CancelsUnread, ReadUnpaid
  <1>14. ASSUME (\E x \in Books : ReadBalance(x)) \/ SumRows \/ FixBalance PROVE FALSE
    BY <1>1, <1>14 DEF ReadBalance, SumRows, FixBalance, Audit, orderVars
  <1>15. CASE UNCHANGED vars
    BY <1>1, <1>15 DEF vars
  <1> QED
    BY <1>3, <1>4, <1>5, <1>6, <1>7, <1>8, <1>9, <1>10, <1>11, <1>12, <1>13, <1>14, <1>15
       DEF Next

\* Money stands behind a cancelled order only by the plain status write of a
\* page that read the order before its settlement (sales_cancel): the fault is
\* there and in no other path, for any number of orders and of requests.
THEOREM OnlyAnUnreadCancelEscapes == Spec => OnlyUnreadCancels
  <1> DEFINE IInv == Money /\ Booked /\ ReadUnpaid
  <1>1. Init => IInv
    BY MoneyInit, BookedInit DEF Init, ReadUnpaid
  <1>2. IInv /\ [Next]_vars => IInv'
    BY MoneyStep, BookedStep, ReadUnpaidStep DEF Money
  <1>3. ASSUME IInv, [Next]_vars
        PROVE  [\A o \in Orders : ~Escaped(o) /\ Escaped(o)'
                    => \E h \in Handlers : CancelsUnread(h, o)]_vars
    BY <1>3, UnreadStep DEF Booked
  <1> QED
    BY <1>1, <1>2, <1>3, PTL DEF Spec, OnlyUnreadCancels
=============================================================================
