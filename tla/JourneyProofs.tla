--------------------------- MODULE JourneyProofs ---------------------------
(***************************************************************************)
(* Journey, for any ids, keys, requests and bounds: the fields keep their  *)
(* types, the photo an entry points at is in storage, only what uploads    *)
(* and imports made beside other calls passes the limit, and by how much,  *)
(* calls one after the other that all succeed leave no file behind, and    *)
(* replace no photo.                                                       *)
(***************************************************************************)
EXTENDS Journey, FiniteSetTheorems, FunctionTheorems, TLAPS

\* The stages of a batch in its transaction, with the trail's lock.
Held == {"check", "find", "delete", "put", "count", "commit"}

\* Of the calls only j's changes.
Only(j) ==
    /\ call' \in [Requests -> Call]
    /\ \A h \in Requests \ {j} : call'[h] = call[h]

\* It goes to a stage, with the same request.
GoesTo(j, stage) ==
    /\ Only(j) /\ call'[j].stage = stage
    /\ call'[j].who = call[j].who /\ call'[j].import = call[j].import
    /\ call'[j].put = call[j].put /\ call'[j].drop = call[j].drop

\* And what it has read, stored and changed.
Kept(j) ==
    /\ call'[j].bare = call[j].bare /\ call'[j].key = call[j].key
    /\ call'[j].make = call[j].make /\ call'[j].del = call[j].del /\ call'[j].dead = call[j].dead

\* It has no photo, no rows and no files in hand.
Bare(j) ==
    /\ call'[j].key = [i \in Ids |-> NoKey]
    /\ call'[j].make = {} /\ call'[j].del = {} /\ call'[j].dead = {}

LEMMA IdleType ==
  /\ Idle \in Call /\ Idle.stage = "idle" /\ Idle.key = [i \in Ids |-> NoKey]
  /\ Idle.make = {} /\ Idle.del = {} /\ Idle.dead = {}
  BY DEF Idle, Call, Stages, Roles

LEMMA GoesOnly ==
  ASSUME TypeOK, NEW j \in Requests, NEW stage \in Stages, Goes(j, stage)
  PROVE  GoesTo(j, stage) /\ Kept(j)
  BY DEF TypeOK, Goes, GoesTo, Kept, Only, Call

LEMMA EndsOnly ==
  ASSUME TypeOK, NEW j \in Requests, Ends(j)
  PROVE  Only(j) /\ call'[j] = Idle /\ Bare(j)
  BY IdleType DEF TypeOK, Ends, Only, Bare

\* Everything but the calls and the lock stays as it is.
Steady == UNCHANGED <<entries, file, by, late, stored, used, gone, alone, met, calls, mishaps>>

\* A call begins.
BeginsWith(j, stage) ==
    /\ Only(j) /\ Bare(j) /\ call[j] = Idle /\ call'[j].stage = stage
    /\ UNCHANGED <<entries, file, by, late, stored, used, gone, lock, mishaps>>
    /\ calls' = calls + 1 /\ alone' = (alone /\ Busy = {})
    /\ met' = IF Busy = {} THEN met \ {j} ELSE met \cup Busy \cup {j}

LEMMA BeginsOnly ==
  ASSUME TypeOK, NEW j \in Requests, NEW work \in Call, Begins(j, work),
         work.key = [i \in Ids |-> NoKey], work.make = {}, work.del = {}, work.dead = {}
  PROVE  BeginsWith(j, work.stage) /\ call'[j] = work
  BY DEF TypeOK, Begins, BeginsWith, Only, Bare, rows

LEMMA BatchOnly ==
  ASSUME TypeOK, NEW j \in Requests, NEW who \in Roles, NEW put \in SUBSET Ids,
         NEW drop \in SUBSET Ids, Batch(j, who, put, drop)
  PROVE  BeginsWith(j, "lock")
  <1> DEFINE work == [Idle EXCEPT !.stage = "lock", !.who = who, !.put = put, !.drop = drop]
  <1>1. work \in Call
    BY DEF Idle, Call, Stages, Roles
  <1>2. /\ work.stage = "lock" /\ work.key = [i \in Ids |-> NoKey]
        /\ work.make = {} /\ work.del = {} /\ work.dead = {}
    BY DEF Idle
  <1>3. Begins(j, work)
    BY DEF Batch
  <1> HIDE DEF work
  <1> QED
    BY <1>1, <1>2, <1>3, BeginsOnly

LEMMA UploadOnly ==
  ASSUME TypeOK, NEW j \in Requests, NEW who \in Roles, NEW id \in Ids, Upload(j, who, id)
  PROVE  BeginsWith(j, "look") /\ ~call'[j].import /\ call'[j].put = {id} /\ call'[j].bare = {id}
  <1> DEFINE work == [Idle EXCEPT !.stage = "look", !.who = who, !.put = {id}, !.bare = {id}]
  <1>1. work \in Call
    BY DEF Idle, Call, Stages, Roles
  <1>2. /\ work.stage = "look" /\ work.put = {id} /\ work.bare = {id} /\ ~work.import
        /\ work.key = [i \in Ids |-> NoKey] /\ work.make = {} /\ work.del = {} /\ work.dead = {}
    BY DEF Idle
  <1>3. Begins(j, work)
    BY DEF Upload
  <1> HIDE DEF work
  <1> QED
    BY <1>1, <1>2, <1>3, BeginsOnly

LEMMA ImportOnly ==
  ASSUME TypeOK, NEW j \in Requests, NEW ids \in SUBSET Ids, ImportTrail(j, ids)
  PROVE  BeginsWith(j, "look") /\ call'[j].import
  <1> DEFINE work == [Idle EXCEPT !.stage = "look", !.import = TRUE, !.put = ids]
  <1>1. work \in Call
    BY DEF Idle, Call, Stages, Roles
  <1>2. /\ work.stage = "look" /\ work.import
        /\ work.key = [i \in Ids |-> NoKey] /\ work.make = {} /\ work.del = {} /\ work.dead = {}
    BY DEF Idle
  <1>3. Begins(j, work)
    BY DEF ImportTrail
  <1> HIDE DEF work
  <1> QED
    BY <1>1, <1>2, <1>3, BeginsOnly

\* An upload is for one entry.
LEMMA StartsOnly ==
  ASSUME TypeOK, NEW j \in Requests, Starts(j)
  PROVE  \/ BeginsWith(j, "lock")
         \/ BeginsWith(j, "look") /\ call'[j].import
         \/ /\ BeginsWith(j, "look") /\ ~call'[j].import
            /\ \E i \in Ids : call'[j].put = {i} /\ call'[j].bare = {i}
  <1>1. CASE \E who \in Roles, put \in SUBSET Ids, drop \in SUBSET Ids : Batch(j, who, put, drop)
    BY <1>1, BatchOnly
  <1>2. CASE \E who \in Roles, id \in Ids : Upload(j, who, id)
    BY <1>2, UploadOnly
  <1>3. CASE \E ids \in SUBSET Ids : ImportTrail(j, ids)
    BY <1>3, ImportOnly
  <1> QED
    BY <1>1, <1>2, <1>3 DEF Starts

LEMMA CheckOnly ==
  ASSUME TypeOK, NEW j \in Requests, Lock(j) \/ Check(j)
  PROVE  /\ Only(j) /\ Steady /\ call[j].stage \in {"lock", "check"}
         /\ \/ call'[j] = Idle /\ Bare(j)
            \/ \E stage \in {"check", "find"} : GoesTo(j, stage) /\ Kept(j)
  <1>1. Steady /\ call[j].stage \in {"lock", "check"}
    BY DEF Lock, Check, Steady, rows
  <1>2. {"check", "find"} \subseteq Stages
    BY DEF Stages
  <1>3. Ends(j) \/ \E stage \in {"check", "find"} : Goes(j, stage)
    BY DEF Lock, Check, Fails
  <1> QED
    BY <1>1, <1>2, <1>3, EndsOnly, GoesOnly DEF GoesTo

LEMMA FindOnly ==
  ASSUME TypeOK, NEW j \in Requests, Find(j)
  PROVE  /\ GoesTo(j, "delete") /\ Steady /\ lock' = lock /\ call[j].stage = "find"
         /\ call'[j].dead = Photos(j) /\ call'[j].bare = call[j].bare /\ call'[j].key = call[j].key
         /\ call'[j].make = call[j].make /\ call'[j].del = call[j].del
  <1>1. Photos(j) \in SUBSET Keys
    BY DEF TypeOK, Photos, Removed
  <1> QED
    BY <1>1 DEF TypeOK, Find, GoesTo, Only, Call, Stages, Steady, rows

LEMMA DeleteOnly ==
  ASSUME TypeOK, NEW j \in Requests, Delete(j)
  PROVE  /\ GoesTo(j, "put") /\ Steady /\ lock' = lock /\ call[j].stage = "delete"
         /\ call'[j].del = Removed(j) /\ call'[j].bare = call[j].bare /\ call'[j].key = call[j].key
         /\ call'[j].make = call[j].make /\ call'[j].dead = call[j].dead
  <1>1. Removed(j) \in SUBSET Ids
    BY DEF TypeOK, Removed
  <1> QED
    BY <1>1 DEF TypeOK, Delete, GoesTo, Only, Call, Stages, Steady, rows

LEMMA PutOnly ==
  ASSUME TypeOK, NEW j \in Requests, Put(j)
  PROVE  /\ GoesTo(j, "count") /\ Steady /\ lock' = lock /\ call[j].stage = "put"
         /\ call'[j].make = call[j].put \ (entries \ call[j].del)
         /\ call'[j].bare = call[j].bare /\ call'[j].key = call[j].key
         /\ call'[j].del = call[j].del /\ call'[j].dead = call[j].dead
  <1>1. call[j].put \ (entries \ call[j].del) \in SUBSET Ids
    BY DEF TypeOK, Call
  <1> QED
    BY <1>1 DEF TypeOK, Put, GoesTo, Only, Call, Stages, Steady, rows

LEMMA CountOnly ==
  ASSUME TypeOK, NEW j \in Requests, Count(j)
  PROVE  /\ Only(j) /\ Steady /\ call[j].stage = "count"
         /\ \/ call'[j] = Idle /\ Bare(j)
            \/ GoesTo(j, "commit") /\ Kept(j) /\ ~TooMany(j)
  BY EndsOnly, GoesOnly DEF Count, Fails, Steady, rows, GoesTo, Stages

\* What a commit does to the rows.
LEMMA CommitOnly ==
  ASSUME TypeOK, NEW j \in Requests, Commit(j)
  PROVE  /\ Only(j) /\ call[j].stage = "commit" /\ lock' = Nobody /\ call'[j].stage \notin Held
         /\ UNCHANGED <<stored, used, gone, alone, met, calls, mishaps>>
         /\ \/ gone /\ call'[j] = Idle /\ Bare(j) /\ UNCHANGED <<entries, file, by, late>>
            \/ /\ ~gone /\ GoesTo(j, "purge") /\ Kept(j) /\ entries' = After(j)
               /\ file' = [i \in Ids |-> IF i \in call[j].del \cup call[j].make THEN NoKey ELSE file[i]]
               /\ by' = [i \in Ids |-> IF i \in call[j].make THEN call[j].who
                                       ELSE IF i \in call[j].del THEN "parent" ELSE by[i]]
               /\ late' = late \ call[j].del
  <1>1. CASE gone
    BY <1>1, EndsOnly, IdleType DEF Commit, rows, Held
  <1>2. CASE ~gone
    <2>1. Goes(j, "purge") /\ "purge" \in Stages
      BY <1>2 DEF Commit, Stages
    <2>2. GoesTo(j, "purge") /\ Kept(j)
      BY <2>1, GoesOnly
    <2> QED
      BY <1>2, <2>2 DEF Commit, GoesTo, Held
  <1> QED
    BY <1>1, <1>2

LEMMA PurgeOnly ==
  ASSUME TypeOK, NEW j \in Requests, Purge(j)
  PROVE  /\ Only(j) /\ call[j].stage = "purge" /\ call'[j] = Idle /\ Bare(j)
         /\ UNCHANGED <<entries, file, by, late, used, gone, lock, alone, met, calls>>
         /\ \E left \in SUBSET call[j].dead :
              /\ stored' = stored \ (call[j].dead \ left)
              /\ mishaps' = IF left = {} THEN mishaps ELSE mishaps + 1
  BY EndsOnly DEF Purge, rows

\* An upload looks at its entry and goes on, or ends.
LEMMA LookOnly ==
  ASSUME TypeOK, NEW j \in Requests, Look(j)
  PROVE  /\ Only(j) /\ call[j].stage = "look" /\ ~call[j].import /\ Steady /\ lock' = lock
         /\ \/ call'[j] = Idle /\ Bare(j)
            \/ /\ GoesTo(j, "room") /\ Kept(j)
               /\ \A i \in call[j].put \cap entries : file[i] = NoKey
  BY EndsOnly, GoesOnly DEF Look, Steady, rows, GoesTo, Stages

LEMMA Counted ==
  ASSUME TypeOK
  PROVE  /\ IsFiniteSet(entries) /\ Cardinality(entries) \in Nat
         /\ IsFiniteSet(Requests) /\ Cardinality(Requests) \in Nat
         /\ \A S \in SUBSET Ids : IsFiniteSet(S) /\ Cardinality(S) \in Nat
  BY FS_Subset, FS_CardinalityType, JourneyAssumption DEF TypeOK

LEMMA RoomOnly ==
  ASSUME TypeOK, NEW j \in Requests, Room(j)
  PROVE  /\ Only(j) /\ call[j].stage = "room" /\ Steady /\ lock' = lock
         /\ \/ call'[j] = Idle /\ Bare(j)
            \/ Cardinality(entries) < Cap /\ GoesTo(j, "store") /\ Kept(j)
  <1>1. call[j].stage = "room" /\ Steady /\ lock' = lock /\ "store" \in Stages
    BY DEF Room, Steady, rows, Stages
  <1>2. Cardinality(entries) \in Nat /\ Cap \in Nat
    BY Counted, JourneyAssumption
  <1>3. CASE Ends(j)
    BY <1>1, <1>3, EndsOnly
  <1>4. CASE ~Ends(j)
    BY <1>1, <1>2, <1>4, GoesOnly DEF Room, GoesTo
  <1> QED
    BY <1>3, <1>4

\* An import takes the entries that are not there, and goes on, or ends.
LEMMA LookImportOnly ==
  ASSUME TypeOK, NEW j \in Requests, LookImport(j)
  PROVE  /\ Only(j) /\ call[j].stage = "look" /\ call[j].import /\ Steady /\ lock' = lock
         /\ \/ call'[j] = Idle /\ Bare(j)
            \/ /\ call'[j].stage \in {"store", "write"} /\ call'[j].import
               /\ call'[j].put = call[j].put \ entries /\ call'[j].bare \subseteq call'[j].put
               /\ Cardinality(entries) + Cardinality(call[j].put \ entries) <= Cap
               /\ call'[j].key = call[j].key /\ call'[j].make = call[j].make
               /\ call'[j].del = call[j].del /\ call'[j].dead = call[j].dead
  <1> DEFINE fresh == call[j].put \ entries
  <1>1. call[j].stage = "look" /\ call[j].import /\ Steady /\ lock' = lock
    BY DEF LookImport, Steady, rows
  <1>2. fresh \in SUBSET Ids
    BY DEF TypeOK, Call
  <1>3. CASE fresh = {} \/ Cardinality(entries) + Cardinality(fresh) > Cap
    BY <1>1, <1>3, EndsOnly DEF LookImport
  <1>4. CASE ~(fresh = {} \/ Cardinality(entries) + Cardinality(fresh) > Cap)
    <2>1. PICK photos \in SUBSET fresh :
            call' = [call EXCEPT ![j].put = fresh, ![j].bare = photos,
                                 ![j].stage = IF photos = {} THEN "write" ELSE "store"]
      BY <1>4 DEF LookImport
    <2> DEFINE stage == IF photos = {} THEN "write" ELSE "store"
    <2>2. stage \in Stages /\ stage \in {"store", "write"}
      BY DEF Stages
    <2>3. call' = [call EXCEPT ![j] = [call[j] EXCEPT !.put = fresh, !.bare = photos, !.stage = stage]]
      BY <2>1 DEF TypeOK
    <2>4. call[j] \in Call
      BY DEF TypeOK
    <2>5. Cardinality(entries) + Cardinality(fresh) <= Cap
      BY <1>2, <1>4, Counted, JourneyAssumption
    <2>6. photos \in SUBSET Ids
      BY <1>2
    <2> HIDE DEF stage, fresh
    <2>7. [call[j] EXCEPT !.put = fresh, !.bare = photos, !.stage = stage] \in Call
      BY <1>2, <2>2, <2>4, <2>6 DEF Call
    <2>8. /\ call'[j] = [call[j] EXCEPT !.put = fresh, !.bare = photos, !.stage = stage]
          /\ call' \in [Requests -> Call] /\ \A h \in Requests \ {j} : call'[h] = call[h]
      BY <2>3, <2>7 DEF TypeOK
    <2>9. /\ call'[j].stage = stage /\ call'[j].import = call[j].import
          /\ call'[j].put = fresh /\ call'[j].bare = photos
          /\ call'[j].key = call[j].key /\ call'[j].make = call[j].make
          /\ call'[j].del = call[j].del /\ call'[j].dead = call[j].dead
      BY <2>4, <2>8 DEF Call
    <2> QED
      BY <1>1, <2>1, <2>2, <2>5, <2>8, <2>9 DEF Only, fresh
  <1> QED
    BY <1>3, <1>4

\* A photo is stored, under a key that is new.
LEMMA StoreOnly ==
  ASSUME TypeOK, NEW j \in Requests, Store(j)
  PROVE  /\ call[j].stage = "store"
         /\ UNCHANGED <<entries, file, by, late, gone, lock, alone, met, calls, mishaps>>
         /\ \E i \in call[j].bare, k \in Keys \ used, stage \in {"store", "write"} :
              /\ used' = used \cup {k} /\ stored' = stored \cup {k}
              /\ GoesTo(j, stage) /\ call'[j].bare = call[j].bare \ {i}
              /\ call'[j].key = [call[j].key EXCEPT ![i] = k]
              /\ call'[j].make = call[j].make /\ call'[j].del = call[j].del /\ call'[j].dead = call[j].dead
  <1>1. PICK i \in call[j].bare, k \in Keys \ used :
          /\ used' = used \cup {k} /\ stored' = stored \cup FileOf(k)
          /\ call' = [call EXCEPT ![j].key[i] = k, ![j].bare = @ \ {i},
                                  ![j].stage = IF call[j].bare = {i} THEN "write" ELSE "store"]
    BY DEF Store
  <1> DEFINE stage == IF call[j].bare = {i} THEN "write" ELSE "store"
  <1> DEFINE key == [call[j].key EXCEPT ![i] = k]
  <1> DEFINE work == [call[j] EXCEPT !.key = key, !.bare = call[j].bare \ {i}, !.stage = stage]
  <1>2. call[j] \in Call /\ i \in Ids
    BY DEF TypeOK, Call
  <1>3. stage \in Stages /\ stage \in {"store", "write"} /\ key \in [Ids -> Keys \cup {NoKey}]
    BY <1>2 DEF Call, Stages
  <1>4. call' = [call EXCEPT ![j] = work]
    BY <1>1, <1>2 DEF TypeOK, Call
  <1> HIDE DEF stage, key
  <1>5. work \in Call
    BY <1>2, <1>3 DEF Call
  <1>6. /\ work.stage = stage /\ work.key = key /\ work.bare = call[j].bare \ {i}
        /\ work.who = call[j].who /\ work.import = call[j].import /\ work.put = call[j].put
        /\ work.drop = call[j].drop /\ work.make = call[j].make /\ work.del = call[j].del
        /\ work.dead = call[j].dead
    BY <1>2 DEF Call
  <1> HIDE DEF work
  <1>7. GoesTo(j, stage) /\ call'[j] = work
    BY <1>4, <1>5, <1>6 DEF TypeOK, GoesTo, Only
  <1>8. /\ call[j].stage = "store"
        /\ UNCHANGED <<entries, file, by, late, gone, lock, alone, met, calls, mishaps>>
    BY DEF Store, rows
  <1> QED
    BY <1>1, <1>3, <1>6, <1>7, <1>8 DEF FileOf, key

\* What a write does to the rows: an import leaves those that are there.
LEMMA WriteOnly ==
  ASSUME TypeOK, NEW j \in Requests, Write(j)
  PROVE  /\ Only(j) /\ call[j].stage = "write" /\ call'[j] = Idle /\ Bare(j)
         /\ ~gone /\ \A i \in call[j].put : ~Touched(i)
         /\ UNCHANGED <<stored, used, gone, lock, alone, met, calls, mishaps>>
         /\ entries' = entries \cup call[j].put
         /\ late' = late \cup (IF j \in met THEN call[j].put \ entries ELSE {})
         /\ by' \in [Ids -> Roles] /\ \A i \in entries : by'[i] = by[i]
         /\ \E over \in {call[j].put, call[j].put \ entries} :
              /\ over = call[j].put \/ call[j].import
              /\ file' = [i \in Ids |-> IF i \in over THEN call[j].key[i] ELSE file[i]]
  <1>1. /\ Ends(j) /\ ~gone /\ call[j].stage = "write" /\ \A i \in call[j].put : ~Touched(i)
        /\ late' = late \cup (IF j \in met THEN call[j].put \ entries ELSE {})
        /\ UNCHANGED <<stored, used, gone, lock, alone, met, calls, mishaps>>
    BY DEF Write
  <1>2. call[j].who \in Roles /\ call[j].put \subseteq Ids /\ by \in [Ids -> Roles] /\ entries \subseteq Ids
    BY DEF TypeOK, Call
  <1>3. CASE WriteRow(j)
    BY <1>1, <1>2, <1>3, EndsOnly DEF WriteRow
  <1>4. CASE WriteRows(j)
    <2>1. /\ entries' = entries \cup call[j].put /\ call[j].import
          /\ file' = [i \in Ids |-> IF i \in call[j].put \ entries THEN call[j].key[i] ELSE file[i]]
      BY <1>4 DEF WriteRows
    <2>2. by' \in [Ids -> Roles] /\ \A i \in entries : by'[i] = by[i]
      <3>1. PICK role \in [call[j].put \ entries -> Roles] :
              by' = [i \in Ids |-> IF i \in call[j].put \ entries THEN role[i] ELSE by[i]]
        BY <1>4 DEF WriteRows
      <3> QED
        BY <1>2, <3>1
    <2> QED
      BY <1>1, <2>1, <2>2, EndsOnly
  <1> QED
    BY <1>3, <1>4 DEF Write

\* A call that breaks off ends, or goes on to delete the files it has stored.
LEMMA BreaksOnly ==
  ASSUME TypeOK, NEW j \in Requests, Breaks(j)
  PROVE  /\ Only(j) /\ call[j].stage \in {"store", "write"} /\ lock' = lock
         /\ UNCHANGED <<entries, file, by, late, stored, used, gone, lock, alone, met, calls>>
         /\ (mishaps' = mishaps /\ gone) \/ mishaps' = mishaps + 1
         /\ \/ call'[j] = Idle /\ Bare(j)
            \/ /\ call'[j].stage = "purge" /\ call'[j].dead = StoredBy(j)
               /\ call'[j].key = [i \in Ids |-> NoKey] /\ call'[j].make = {} /\ call'[j].del = {}
  <1>1. /\ call[j].stage \in {"store", "write"}
        /\ UNCHANGED <<entries, file, by, late, stored, used, gone, lock, alone, met, calls>>
        /\ (mishaps' = mishaps /\ gone) \/ mishaps' = mishaps + 1
    BY DEF Breaks, rows
  <1>2. CASE call[j].import /\ StoredBy(j) # {}
    <2> DEFINE work == [Idle EXCEPT !.stage = "purge", !.dead = StoredBy(j)]
    <2>1. StoredBy(j) \in SUBSET Keys
      BY DEF TypeOK, Call, StoredBy
    <2>2. work \in Call
      BY <2>1 DEF Idle, Call, Stages, Roles
    <2>3. /\ work.stage = "purge" /\ work.dead = StoredBy(j) /\ work.key = [i \in Ids |-> NoKey]
          /\ work.make = {} /\ work.del = {}
      BY DEF Idle
    <2>4. call' = [call EXCEPT ![j] = work]
      BY <1>2 DEF Breaks
    <2> HIDE DEF work
    <2> QED
      BY <1>1, <2>2, <2>3, <2>4 DEF TypeOK, Only
  <1>3. CASE ~(call[j].import /\ StoredBy(j) # {})
    BY <1>1, <1>3, EndsOnly DEF Breaks
  <1> QED
    BY <1>2, <1>3

LEMMA DiesOnly ==
  ASSUME TypeOK, NEW j \in Requests, Dies(j)
  PROVE  /\ Only(j) /\ call'[j] = Idle /\ Bare(j)
         /\ UNCHANGED <<entries, file, by, late, stored, used, gone, alone, met, calls>>
         /\ mishaps' = mishaps + 1 /\ lock' = IF lock = j THEN Nobody ELSE lock
  BY EndsOnly DEF Dies, rows

-----------------------------------------------------------------------------
\* Types.  A call takes the lock, gives it back, or leaves it alone.
LockOf(j) ==
    \/ lock' = lock /\ (call'[j].stage \in Held <=> call[j].stage \in Held)
    \/ lock = Nobody /\ lock' = j /\ call'[j].stage \in Held
    \/ lock = j /\ lock' = Nobody /\ call'[j].stage \notin Held

RowsType ==
    /\ entries \subseteq Ids /\ file \in [Ids -> Keys \cup {NoKey}] /\ by \in [Ids -> Roles]
    /\ late \subseteq entries /\ stored \subseteq used /\ used \subseteq Keys /\ gone \in BOOLEAN
    /\ alone \in BOOLEAN /\ met \subseteq Requests /\ calls \in Nat /\ mishaps \in Nat

LEMMA CallType ==
  ASSUME TypeOK, NEW j \in Requests, Only(j), LockOf(j), RowsType'
  PROVE  TypeOK'
  <1>1. lock' \in Requests \cup {Nobody} /\ call' \in [Requests -> Call]
    BY DEF TypeOK, LockOf, Only
  <1>2. j # Nobody /\ (lock = j <=> call[j].stage \in Held)
    BY JourneyAssumption DEF TypeOK, Held
  <1>3. ASSUME NEW h \in Requests
        PROVE  lock' = h <=> call'[h].stage \in Held
    <2>1. CASE h = j
      BY <1>2, <2>1 DEF LockOf
    <2>2. CASE h # j
      <3>1. call'[h] = call[h] /\ h # Nobody
        BY <2>2, JourneyAssumption DEF Only
      <3>2. lock = h <=> call[h].stage \in Held
        BY DEF TypeOK, Held
      <3> QED
        BY <2>2, <3>1, <3>2 DEF LockOf
    <2> QED
      BY <2>1, <2>2
  <1> QED
    BY <1>1, <1>3 DEF TypeOK, RowsType, Held

LEMMA TypeRows ==
  ASSUME TypeOK
  PROVE  RowsType /\ \A j \in Requests : (lock = j <=> call[j].stage \in Held) /\ call[j] \in Call
  BY DEF TypeOK, RowsType, Held

LEMMA SteadyType ==
  ASSUME TypeOK, Steady
  PROVE  RowsType'
  BY DEF TypeOK, RowsType, Steady

\* A step that only moves the call on, or ends it.
LEMMA StepsType ==
  ASSUME TypeOK, NEW j \in Requests, Steady, Only(j), LockOf(j)
  PROVE  TypeOK'
  BY SteadyType, CallType

LEMMA InitType ==
  ASSUME Init
  PROVE  TypeOK
  BY IdleType, JourneyAssumption DEF Init, TypeOK, Roles

LEMMA StartsType ==
  ASSUME TypeOK, NEW j \in Requests, Starts(j)
  PROVE  TypeOK'
  <1>1. PICK stage \in {"lock", "look"} : BeginsWith(j, stage)
    BY StartsOnly
  <1>2. Only(j) /\ LockOf(j)
    BY <1>1, IdleType DEF BeginsWith, LockOf, Held
  <1>3. RowsType'
    BY <1>1 DEF TypeOK, RowsType, BeginsWith, Busy
  <1> QED
    BY <1>2, <1>3, CallType

LEMMA BatchType ==
  ASSUME TypeOK, NEW j \in Requests,
         Lock(j) \/ Check(j) \/ Find(j) \/ Delete(j) \/ Put(j) \/ Count(j)
  PROVE  TypeOK'
  <1>0. call[j].stage \in Held => lock = j
    BY TypeRows
  <1>1. CASE Lock(j)
    <2>1. Only(j) /\ Steady
      BY <1>1, CheckOnly
    <2>2. LockOf(j)
      BY <1>1, EndsOnly, GoesOnly, IdleType DEF Lock, LockOf, GoesTo, Held, Stages
    <2> QED
      BY <2>1, <2>2, StepsType
  <1>2. CASE Check(j)
    <2>1. Only(j) /\ Steady /\ call[j].stage = "check"
      BY <1>2, CheckOnly DEF Check
    <2>2. LockOf(j)
      BY <1>0, <1>2, <2>1, EndsOnly, GoesOnly, IdleType DEF Check, Fails, LockOf, GoesTo, Held, Stages
    <2> QED
      BY <2>1, <2>2, StepsType
  <1>3. CASE Find(j) \/ Delete(j) \/ Put(j)
    <2>1. Only(j) /\ Steady /\ LockOf(j)
      BY <1>3, FindOnly, DeleteOnly, PutOnly DEF LockOf, GoesTo, Held
    <2> QED
      BY <2>1, StepsType
  <1>4. CASE Count(j)
    <2>1. Only(j) /\ Steady /\ call[j].stage = "count"
      BY <1>4, CountOnly
    <2>2. LockOf(j)
      BY <1>0, <1>4, <2>1, EndsOnly, GoesOnly, IdleType DEF Count, Fails, LockOf, GoesTo, Held, Stages
    <2> QED
      BY <2>1, <2>2, StepsType
  <1> QED
    BY <1>1, <1>2, <1>3, <1>4

LEMMA CommitType ==
  ASSUME TypeOK, NEW j \in Requests, Commit(j)
  PROVE  TypeOK'
  <1>1. Only(j) /\ LockOf(j)
    BY CommitOnly, TypeRows DEF LockOf, Held
  <1>2. call[j].make \subseteq Ids /\ call[j].who \in Roles
    BY DEF TypeOK, Call
  <1>3. RowsType'
    <2>1. CASE gone
      BY <2>1, CommitOnly DEF TypeOK, RowsType
    <2>2. CASE ~gone
      <3>1. entries' \subseteq Ids /\ file' \in [Ids -> Keys \cup {NoKey}] /\ late' \subseteq entries'
        BY <1>2, <2>2, CommitOnly DEF TypeOK, After
      <3>2. by' \in [Ids -> Roles]
        BY <1>2, <2>2, CommitOnly DEF TypeOK, Roles
      <3> QED
        BY <3>1, <3>2, CommitOnly DEF TypeOK, RowsType
    <2> QED
      BY <2>1, <2>2
  <1> QED
    BY <1>1, <1>3, CallType

LEMMA PurgeType ==
  ASSUME TypeOK, NEW j \in Requests, Purge(j)
  PROVE  TypeOK'
  <1>1. Only(j) /\ LockOf(j)
    BY PurgeOnly, IdleType DEF LockOf, Held
  <1>2. RowsType'
    BY PurgeOnly DEF TypeOK, RowsType
  <1> QED
    BY <1>1, <1>2, CallType

LEMMA UploadType ==
  ASSUME TypeOK, NEW j \in Requests,
         Look(j) \/ Room(j) \/ LookImport(j) \/ Store(j) \/ Write(j) \/ Breaks(j)
  PROVE  TypeOK'
  <1>1. CASE Look(j) \/ Room(j) \/ LookImport(j)
    <2>1. LockOf(j) /\ Only(j) /\ Steady
      BY <1>1, LookOnly, RoomOnly, LookImportOnly, IdleType DEF LockOf, GoesTo, Held
    <2> QED
      BY <2>1, StepsType
  <1>2. CASE Store(j)
    <2>1. LockOf(j) /\ Only(j)
      BY <1>2, StoreOnly DEF LockOf, GoesTo, Held
    <2>2. RowsType'
      BY <1>2, StoreOnly DEF TypeOK, RowsType
    <2> QED
      BY <2>1, <2>2, CallType
  <1>3. CASE Write(j)
    <2>1. LockOf(j) /\ Only(j)
      BY <1>3, WriteOnly, IdleType DEF LockOf, Held
    <2>2. call[j].put \subseteq Ids /\ call[j].key \in [Ids -> Keys \cup {NoKey}]
      BY DEF TypeOK, Call
    <2>3. entries' \subseteq Ids /\ late' \subseteq entries' /\ file' \in [Ids -> Keys \cup {NoKey}]
      BY <1>3, <2>2, WriteOnly DEF TypeOK
    <2>4. RowsType'
      BY <1>3, <2>3, WriteOnly DEF TypeOK, RowsType
    <2> QED
      BY <2>1, <2>4, CallType
  <1>4. CASE Breaks(j)
    <2>1. LockOf(j) /\ Only(j)
      BY <1>4, BreaksOnly, IdleType DEF LockOf, Held
    <2>2. RowsType'
      BY <1>4, BreaksOnly DEF TypeOK, RowsType
    <2> QED
      BY <2>1, <2>2, CallType
  <1> QED
    BY <1>1, <1>2, <1>3, <1>4

LEMMA DeleteScoutType ==
  ASSUME TypeOK, DeleteScout
  PROVE  TypeOK'
  BY DEF TypeOK, DeleteScout, Roles

LEMMA DiesType ==
  ASSUME TypeOK, NEW j \in Requests, Dies(j)
  PROVE  TypeOK'
  <1>1. Only(j) /\ LockOf(j)
    BY DiesOnly, IdleType, TypeRows DEF LockOf, Held
  <1>2. RowsType'
    BY DiesOnly DEF TypeOK, RowsType
  <1> QED
    BY <1>1, <1>2, CallType

LEMMA StepType ==
  ASSUME TypeOK, [Next]_vars
  PROVE  TypeOK'
  <1>1. CASE UNCHANGED vars
    BY <1>1 DEF vars, TypeOK
  <1>2. CASE Next
    BY <1>2, StartsType, BatchType, CommitType, PurgeType, UploadType, DeleteScoutType, DiesType
       DEF Next, Steps
  <1> QED
    BY <1>1, <1>2

\* The fields keep their types, and the trail's lock is held by the one batch
\* that is in its transaction (applyEntries, the trail's advisory lock).
THEOREM TypeCorrect == Spec => []TypeOK
  BY InitType, StepType, PTL DEF Spec

-----------------------------------------------------------------------------
\* An upload is for one entry; a call has keys for photos it has stored, of
\* entries it puts.
Upright(j) ==
    /\ call[j].stage \in {"look", "room", "store", "write"} /\ ~call[j].import =>
         \E i \in Ids : call[j].put = {i}
    /\ call[j].stage = "look" /\ ~call[j].import => call[j].bare \subseteq call[j].put
    /\ call[j].stage = "room" => ~call[j].import
    /\ call[j].stage \in {"room", "store"} => call[j].bare \subseteq call[j].put

Shaped == \A j \in Requests : Upright(j)

LEMMA ShapedMoves ==
  ASSUME Shaped, NEW j \in Requests, Only(j), Upright(j)'
  PROVE  Shaped'
  BY DEF Shaped, Only, Upright

LEMMA StepShaped ==
  ASSUME TypeOK, Shaped, [Next]_vars
  PROVE  Shaped'
  <1>1. CASE UNCHANGED vars \/ DeleteScout
    BY <1>1 DEF vars, DeleteScout, Shaped, Upright
  <1>2. ASSUME NEW j \in Requests, Starts(j)
        PROVE  Shaped'
    <2>1. Only(j) /\ Upright(j)'
      BY <1>2, StartsOnly DEF BeginsWith, Upright
    <2> QED
      BY <2>1, ShapedMoves
  <1>3. ASSUME NEW j \in Requests, Only(j), call'[j].stage \notin {"look", "room", "store", "write"}
        PROVE  Shaped'
    BY <1>3, ShapedMoves DEF Upright
  <1>4. ASSUME NEW j \in Requests, Lock(j) \/ Check(j) \/ Find(j) \/ Delete(j) \/ Put(j) \/ Count(j)
        PROVE  Shaped'
    BY <1>3, <1>4, CheckOnly, FindOnly, DeleteOnly, PutOnly, CountOnly, IdleType DEF GoesTo
  <1>5. ASSUME NEW j \in Requests, Commit(j) \/ Purge(j) \/ Write(j) \/ Breaks(j) \/ Dies(j)
        PROVE  Shaped'
    BY <1>3, <1>5, CommitOnly, PurgeOnly, WriteOnly, BreaksOnly, DiesOnly, IdleType DEF GoesTo
  <1>6. ASSUME NEW j \in Requests, Look(j) \/ Room(j) \/ LookImport(j) \/ Store(j)
        PROVE  Shaped'
    <2>1. Only(j)
      BY <1>6, LookOnly, RoomOnly, LookImportOnly, StoreOnly DEF GoesTo
    <2>2. CASE call'[j] = Idle
      BY <1>3, <2>1, <2>2, IdleType
    <2>3. Upright(j)
      BY DEF Shaped
    <2>4. CASE call'[j] # Idle /\ (Look(j) \/ Room(j))
      <3>1. \/ call[j].stage = "look" /\ ~call[j].import /\ call'[j].stage = "room"
            \/ call[j].stage = "room" /\ call'[j].stage = "store"
        <4>1. CASE Look(j)
          BY <2>4, <4>1, LookOnly DEF GoesTo
        <4>2. CASE Room(j)
          BY <2>4, <4>2, RoomOnly DEF GoesTo
        <4> QED
          BY <2>4, <4>1, <4>2
      <3>2. /\ call'[j].put = call[j].put /\ call'[j].bare = call[j].bare
            /\ call'[j].import = call[j].import
        BY <2>4, LookOnly, RoomOnly DEF GoesTo, Kept
      <3>3. Upright(j)'
        BY <2>3, <3>1, <3>2 DEF Upright
      <3> QED
        BY <2>1, <3>3, ShapedMoves
    <2>5. CASE call'[j] # Idle /\ LookImport(j)
      BY <2>1, <2>5, LookImportOnly, ShapedMoves DEF Upright
    <2>6. CASE Store(j)
      <3>1. /\ call[j].stage = "store" /\ call'[j].stage \in {"store", "write"}
            /\ call'[j].put = call[j].put /\ call'[j].bare \subseteq call[j].bare
            /\ call'[j].import = call[j].import
        BY <2>6, StoreOnly DEF GoesTo
      <3> QED
        BY <2>1, <2>3, <3>1, ShapedMoves DEF Upright
    <2> QED
      BY <1>6, <2>2, <2>4, <2>5, <2>6
  <1> QED
    BY <1>1, <1>2, <1>4, <1>5, <1>6 DEF Next, Steps

Typed == TypeOK /\ Shaped

LEMMA InitTyped ==
  ASSUME Init
  PROVE  Typed
  <1>1. \A j \in Requests : call[j].stage = "idle"
    BY IdleType DEF Init
  <1> QED
    BY <1>1, InitType DEF Typed, Shaped, Upright

LEMMA StepTyped ==
  ASSUME Typed, [Next]_vars
  PROVE  Typed'
  BY StepType, StepShaped DEF Typed

-----------------------------------------------------------------------------
\* Photos.  Every file in use has one owner: an entry, a call about to write
\* its rows, or a list of files to delete, which may hold a row's file only
\* until the commit that removes the row.
OwnFiles ==
    /\ \A i \in Ids : i \notin entries => file[i] = NoKey
    /\ \A i, e \in Ids : file[i] = file[e] /\ file[i] # NoKey => i = e
    /\ \A i \in Ids : file[i] # NoKey => file[i] \in stored

OwnPhoto(j, i) ==
    /\ call[j].stage \in {"store", "write"} /\ i \in call[j].put \ call[j].bare
    /\ call[j].key[i] \in stored /\ \A e \in Ids : file[e] # call[j].key[i]
    /\ \A h \in Requests : call[j].key[i] \notin call[h].dead
    /\ \A h \in Requests, e \in Ids : call[h].key[e] = call[j].key[i] => h = j /\ e = i

OwnKey(j) == \A i \in Ids : call[j].key[i] # NoKey => OwnPhoto(j, i)

OwnDead(j) ==
    /\ call[j].dead \subseteq used
    /\ call[j].dead # {} => call[j].stage \in {"delete", "put", "count", "commit", "purge"}
    /\ \A i \in Ids : file[i] \in call[j].dead =>
         \/ call[j].stage = "delete" /\ i \in Removed(j)
         \/ call[j].stage \in {"put", "count", "commit"} /\ i \in call[j].del

Files == OwnFiles /\ \A j \in Requests : OwnKey(j) /\ OwnDead(j)

LEMMA FilesInit ==
  ASSUME Init
  PROVE  Files
  BY IdleType DEF Init, Files, OwnFiles, OwnKey, OwnDead

\* The rows and the files stay.
SameFiles == UNCHANGED <<entries, file, by, stored, used, gone>>

\* The list of files to delete is empty, or stays while the transaction goes on.
DeadStays(j) ==
    \/ call'[j].dead = {}
    \/ /\ call'[j].dead = call[j].dead /\ call'[j].del = call[j].del
       /\ call[j].stage \in {"put", "count"} /\ call'[j].stage \in {"put", "count", "commit"}

NoKeys(j) == call[j].key = [i \in Ids |-> NoKey]

\* A call that does not move keeps what it owns, when no key comes into use.
LEMMA OthersOwn ==
  ASSUME Typed, Files, NEW j \in Requests, NEW h \in Requests \ {j}, Only(j),
         stored \subseteq stored', used \subseteq used',
         \A e \in Ids : call'[j].key[e] \in {NoKey, call[j].key[e]} \cup (Keys \ used),
         call'[j].dead \cap StoredBy(h) = {},
         \A e \in Ids : file'[e] \in {NoKey, file[e], call[j].key[e]},
         \A e \in Removed(h) : e \in Removed(h)'
  PROVE  OwnKey(h)' /\ OwnDead(h)'
  <1>1. call'[h] = call[h] /\ \A g \in Requests \ {j} : call'[g] = call[g]
    BY DEF Only
  <1>2. stored \subseteq used
    BY DEF Typed, TypeOK
  <1>3. ASSUME NEW i \in Ids, call[h].key[i] # NoKey
        PROVE  OwnPhoto(h, i)'
    <2>1. OwnPhoto(h, i)
      BY <1>3 DEF Files, OwnKey
    <2>2. call[h].key[i] \in used
      BY <1>2, <2>1 DEF OwnPhoto
    <2>3. \A e \in Ids : file'[e] # call[h].key[i]
      BY <1>3, <2>1 DEF OwnPhoto
    <2>4. \A g \in Requests : call[h].key[i] \notin call'[g].dead
      <3>1. call[h].key[i] \notin call'[j].dead
        BY <1>3 DEF StoredBy
      <3> QED
        BY <1>1, <2>1, <3>1 DEF OwnPhoto
    <2>5. \A g \in Requests, e \in Ids : call'[g].key[e] = call[h].key[i] => g = h /\ e = i
      <3>1. \A e \in Ids : call'[j].key[e] # call[h].key[i]
        BY <1>3, <2>1, <2>2 DEF OwnPhoto
      <3> QED
        BY <1>1, <2>1, <3>1 DEF OwnPhoto
    <2> QED
      BY <1>1, <2>1, <2>3, <2>4, <2>5 DEF OwnPhoto
  <1>4. ASSUME NEW i \in Ids, file'[i] \in call[h].dead
        PROVE  file[i] \in call[h].dead
    <2>1. NoKey \notin call[h].dead
      BY JourneyAssumption DEF Typed, TypeOK, Call
    <2>2. call[j].key[i] # NoKey => call[j].key[i] \notin call[h].dead
      BY DEF Files, OwnKey, OwnPhoto
    <2> QED
      BY <1>4, <2>1, <2>2
  <1>5. OwnDead(h)
    BY DEF Files
  <1> QED
    BY <1>1, <1>3, <1>4, <1>5 DEF OwnKey, OwnDead

LEMMA SameRemoved ==
  ASSUME NEW h \in Requests, UNCHANGED <<entries, by>>,
         call'[h].who = call[h].who, call'[h].drop = call[h].drop
  PROVE  Removed(h)' = Removed(h)
  BY DEF Removed, Own

LEMMA FilesQuiet ==
  ASSUME Typed, Files, NEW j \in Requests, Only(j), SameFiles, NoKeys(j)', DeadStays(j)
  PROVE  Files'
  <1>1. OwnFiles'
    BY DEF Files, OwnFiles, SameFiles
  <1>2. OwnKey(j)'
    BY DEF NoKeys, OwnKey
  <1>3. OwnDead(j)'
    BY DEF Files, OwnDead, SameFiles, DeadStays
  <1>4. ASSUME NEW h \in Requests \ {j}
        PROVE  OwnKey(h)' /\ OwnDead(h)'
    <2>1. call'[j].dead \cap StoredBy(h) = {}
      <3>1. call'[j].dead \subseteq call[j].dead
        BY DEF DeadStays
      <3>2. \A i \in Ids : call[h].key[i] # NoKey => call[h].key[i] \notin call[j].dead
        BY DEF Files, OwnKey, OwnPhoto
      <3> QED
        BY <3>1, <3>2 DEF StoredBy
    <2>2. Removed(h)' = Removed(h)
      BY SameRemoved DEF Only, SameFiles
    <2> QED
      BY <2>1, <2>2, OthersOwn DEF SameFiles, NoKeys
  <1> QED
    BY <1>1, <1>2, <1>3, <1>4 DEF Files

\* Only an upload or an import that has stored a photo has a key.
LEMMA NoKeysElsewhere ==
  ASSUME Typed, Files, NEW j \in Requests, call[j].stage \notin {"store", "write"}
  PROVE  NoKeys(j) /\ StoredBy(j) = {}
  <1>1. \A i \in Ids : call[j].key[i] = NoKey
    BY DEF Files, OwnKey, OwnPhoto
  <1>2. call[j].key \in [Ids -> Keys \cup {NoKey}]
    BY DEF Typed, TypeOK, Call
  <1> QED
    BY <1>1, <1>2 DEF NoKeys, StoredBy

LEMMA FilesFind ==
  ASSUME Typed, Files, NEW j \in Requests, Find(j)
  PROVE  Files'
  <1>1. /\ GoesTo(j, "delete") /\ call[j].stage = "find" /\ call'[j].dead = Photos(j)
        /\ call'[j].key = call[j].key /\ SameFiles /\ Only(j)
    BY FindOnly DEF Typed, Steady, SameFiles, GoesTo
  <1>2. OwnFiles'
    BY <1>1 DEF Files, OwnFiles, SameFiles
  <1>3. NoKeys(j) /\ NoKeys(j)'
    BY <1>1, NoKeysElsewhere DEF NoKeys
  <1>4. \A k \in Photos(j) : k # NoKey /\ \E e \in Ids : e \in Removed(j) /\ file[e] = k
    BY DEF Photos, Removed, Typed, TypeOK
  <1>5. OwnKey(j)'
    BY <1>3 DEF NoKeys, OwnKey
  <1>6. OwnDead(j)'
    <2>1. Photos(j) \subseteq used
      BY <1>4 DEF Files, OwnFiles, Typed, TypeOK
    <2>2. \A i \in Ids : file[i] \in Photos(j) => i \in Removed(j)
      BY <1>4 DEF Files, OwnFiles
    <2>3. Removed(j)' = Removed(j)
      BY <1>1, SameRemoved DEF GoesTo, SameFiles
    <2> QED
      BY <1>1, <2>1, <2>2, <2>3 DEF GoesTo, OwnDead, SameFiles
  <1>7. ASSUME NEW h \in Requests \ {j}
        PROVE  OwnKey(h)' /\ OwnDead(h)'
    <2>1. call'[j].dead \cap StoredBy(h) = {}
      BY <1>1, <1>4 DEF StoredBy, Files, OwnKey, OwnPhoto
    <2>2. Removed(h)' = Removed(h)
      BY <1>1, SameRemoved DEF Only, SameFiles
    <2> QED
      BY <1>1, <1>3, <2>1, <2>2, OthersOwn DEF SameFiles, NoKeys
  <1> QED
    BY <1>2, <1>5, <1>6, <1>7 DEF Files

LEMMA FilesDelete ==
  ASSUME Typed, Files, NEW j \in Requests, Delete(j)
  PROVE  Files'
  <1>1. /\ GoesTo(j, "put") /\ call[j].stage = "delete" /\ SameFiles /\ Only(j)
        /\ call'[j].del = Removed(j) /\ call'[j].key = call[j].key /\ call'[j].dead = call[j].dead
    BY DeleteOnly DEF Typed, Steady, SameFiles, GoesTo
  <1>2. OwnFiles'
    BY <1>1 DEF Files, OwnFiles, SameFiles
  <1>3. NoKeys(j) /\ NoKeys(j)'
    BY <1>1, NoKeysElsewhere DEF NoKeys
  <1>4. OwnKey(j)'
    BY <1>3 DEF NoKeys, OwnKey
  <1>5. OwnDead(j)'
    BY <1>1 DEF GoesTo, Files, OwnDead, SameFiles
  <1>6. ASSUME NEW h \in Requests \ {j}
        PROVE  OwnKey(h)' /\ OwnDead(h)'
    <2>1. call'[j].dead \cap StoredBy(h) = {}
      BY <1>1 DEF StoredBy, Files, OwnKey, OwnPhoto
    <2>2. Removed(h)' = Removed(h)
      BY <1>1, SameRemoved DEF Only, SameFiles
    <2> QED
      BY <1>1, <1>3, <2>1, <2>2, OthersOwn DEF SameFiles, NoKeys
  <1> QED
    BY <1>2, <1>4, <1>5, <1>6 DEF Files

LEMMA FilesCommit ==
  ASSUME Typed, Files, NEW j \in Requests, Commit(j)
  PROVE  Files'
  <1>1. CASE gone
    <2>1. Only(j) /\ SameFiles /\ NoKeys(j)' /\ DeadStays(j)
      BY <1>1, CommitOnly DEF Typed, SameFiles, DeadStays, NoKeys, Bare
    <2> QED
      BY <2>1, FilesQuiet
  <1>2. CASE ~gone
    <2>1. /\ GoesTo(j, "purge") /\ Kept(j) /\ Only(j) /\ entries' = After(j) /\ call[j].stage = "commit"
          /\ file' = [i \in Ids |-> IF i \in call[j].del \cup call[j].make THEN NoKey ELSE file[i]]
          /\ UNCHANGED <<stored, used, gone>>
      BY <1>2, CommitOnly DEF Typed, GoesTo
    <2>2. \A i \in Ids : file'[i] = IF i \in call[j].del \cup call[j].make THEN NoKey ELSE file[i]
      BY <2>1
    <2>3. OwnFiles'
      <3>1. \A i \in Ids : i \notin entries' => file'[i] = NoKey
        BY <2>1, <2>2 DEF After, Files, OwnFiles
      <3>2. \A i, e \in Ids : file'[i] = file'[e] /\ file'[i] # NoKey => i = e
        BY <2>2 DEF Files, OwnFiles
      <3>3. \A i \in Ids : file'[i] # NoKey => file'[i] \in stored'
        BY <2>1, <2>2 DEF Files, OwnFiles
      <3> QED
        BY <3>1, <3>2, <3>3 DEF OwnFiles
    <2>4. NoKeys(j) /\ NoKeys(j)'
      BY <2>1, NoKeysElsewhere DEF NoKeys, Kept
    <2>5. OwnKey(j)'
      BY <2>4 DEF NoKeys, OwnKey
    <2>6. OwnDead(j)'
      <3>1. ASSUME NEW i \in Ids, file'[i] \in call[j].dead
            PROVE  FALSE
        <4>1. file'[i] # NoKey
          <5>1. call[j].dead \subseteq Keys
            BY DEF Typed, TypeOK, Call
          <5> QED
            BY <3>1, <5>1, JourneyAssumption
        <4>2. file'[i] = file[i] /\ i \notin call[j].del
          BY <2>2, <4>1
        <4> QED
          BY <2>1, <3>1, <4>2 DEF Files, OwnDead
      <3> QED
        BY <2>1, <3>1 DEF GoesTo, Kept, Files, OwnDead
    <2>7. ASSUME NEW h \in Requests \ {j}
          PROVE  OwnKey(h)' /\ OwnDead(h)'
      <3>1. call'[j].dead \cap StoredBy(h) = {}
        BY <2>1 DEF Kept, StoredBy, Files, OwnKey, OwnPhoto
      <3>2. call[h].stage \notin Held /\ call'[h] = call[h]
        <4>1. lock = j /\ lock # h
          BY <2>1, TypeRows DEF Typed, Held
        <4> QED
          BY <2>1, <4>1, TypeRows DEF Typed, Only
      <3>3. OwnKey(h)'
        <4>1. ASSUME NEW i \in Ids, call[h].key[i] # NoKey
              PROVE  OwnPhoto(h, i)'
          <5>1. OwnPhoto(h, i)
            BY <4>1 DEF Files, OwnKey
          <5>2. \A e \in Ids : file'[e] # call[h].key[i]
            BY <2>2, <4>1, <5>1 DEF OwnPhoto
          <5>3. \A g \in Requests : call'[g].key = call[g].key /\ call'[g].dead = call[g].dead
            BY <2>1 DEF Kept, Only
          <5> QED
            BY <2>1, <3>2, <5>1, <5>2, <5>3 DEF OwnPhoto
        <4> QED
          BY <3>2, <4>1 DEF OwnKey
      <3>4. OwnDead(h)'
        <4>1. \A i \in Ids : file'[i] \in call[h].dead => file[i] \in call[h].dead
          <5>1. NoKey \notin call[h].dead
            BY JourneyAssumption DEF Typed, TypeOK, Call
          <5> QED
            BY <2>2, <5>1
        <4>2. OwnDead(h) /\ call[h].stage \notin {"delete", "put", "count", "commit"}
          BY <3>2 DEF Files, Held
        <4> QED
          BY <2>1, <3>2, <4>1, <4>2 DEF OwnDead
      <3> QED
        BY <3>3, <3>4
    <2> QED
      BY <2>3, <2>5, <2>6, <2>7 DEF Files
  <1> QED
    BY <1>1, <1>2

LEMMA FilesPurge ==
  ASSUME Typed, Files, NEW j \in Requests, Purge(j)
  PROVE  Files'
  <1>1. /\ Only(j) /\ call[j].stage = "purge" /\ call'[j] = Idle /\ Bare(j)
        /\ UNCHANGED <<entries, file, by, used, gone>>
    BY PurgeOnly DEF Typed
  <1>2. PICK left \in SUBSET call[j].dead : stored' = stored \ (call[j].dead \ left)
    BY PurgeOnly DEF Typed
  <1>3. \A i \in Ids : file[i] \notin call[j].dead
    BY <1>1 DEF Files, OwnDead
  <1>4. OwnFiles'
    BY <1>1, <1>2, <1>3 DEF Files, OwnFiles
  <1>5. OwnKey(j)' /\ OwnDead(j)'
    BY <1>1 DEF Bare, OwnKey, OwnDead
  <1>6. ASSUME NEW h \in Requests \ {j}
        PROVE  OwnKey(h)' /\ OwnDead(h)'
    <2>1. call'[h] = call[h] /\ Removed(h)' = Removed(h)
      BY <1>1, SameRemoved DEF Only
    <2>2. OwnDead(h)'
      BY <1>1, <2>1 DEF Files, OwnDead
    <2>3. ASSUME NEW i \in Ids, call[h].key[i] # NoKey
          PROVE  OwnPhoto(h, i)'
      <3>1. OwnPhoto(h, i)
        BY <2>3 DEF Files, OwnKey
      <3>2. \A g \in Requests : call'[g].dead \subseteq call[g].dead
        BY <1>1 DEF Only, Bare
      <3>3. \A g \in Requests, e \in Ids : call'[g].key[e] \in {call[g].key[e], NoKey}
        BY <1>1 DEF Only, Bare
      <3> QED
        BY <1>1, <1>2, <2>1, <2>3, <3>1, <3>2, <3>3 DEF OwnPhoto
    <2> QED
      BY <2>1, <2>2, <2>3 DEF OwnKey
  <1> QED
    BY <1>4, <1>5, <1>6 DEF Files

LEMMA FilesStore ==
  ASSUME Typed, Files, NEW j \in Requests, Store(j)
  PROVE  Files'
  <1>1. call[j].stage = "store" /\ UNCHANGED <<entries, file, by, gone>>
    BY StoreOnly DEF Typed
  <1>2. PICK i \in call[j].bare, k \in Keys \ used, stage \in {"store", "write"} :
          /\ used' = used \cup {k} /\ stored' = stored \cup {k}
          /\ GoesTo(j, stage) /\ call'[j].bare = call[j].bare \ {i}
          /\ call'[j].key = [call[j].key EXCEPT ![i] = k]
          /\ call'[j].make = call[j].make /\ call'[j].del = call[j].del /\ call'[j].dead = call[j].dead
    <2>1. TypeOK
      BY DEF Typed
    <2> QED
      BY <2>1, StoreOnly
  <1>3. /\ call[j].key \in [Ids -> Keys \cup {NoKey}] /\ call[j].put \subseteq Ids
        /\ i \in call[j].put /\ k # NoKey /\ stored \subseteq used
    <2>1. call[j] \in Call /\ stored \subseteq used
      BY DEF Typed, TypeOK
    <2>2. Upright(j)
      BY DEF Typed, Shaped
    <2>3. i \in call[j].put
      BY <1>1, <2>2 DEF Upright
    <2> QED
      BY <2>1, <2>3, JourneyAssumption DEF Call
  <1>4. \A e \in Ids : call'[j].key[e] = IF e = i THEN k ELSE call[j].key[e]
    BY <1>2, <1>3
  <1>5. call[j].dead = {} /\ Only(j)
    BY <1>1, <1>2 DEF Files, OwnDead, GoesTo
  <1>6. OwnFiles'
    BY <1>1, <1>2 DEF Files, OwnFiles
  <1>7. OwnDead(j)'
    BY <1>2, <1>5 DEF OwnDead
  <1>8. \A h \in Requests : call'[h].dead = call[h].dead
    BY <1>2, <1>5 DEF Only
  <1>9. \A e \in Ids : file[e] # k
    BY <1>3 DEF Files, OwnFiles
  <1>10. \A h \in Requests : k \notin call[h].dead /\ \A e \in Ids : call[h].key[e] # k
    BY <1>3 DEF Files, OwnKey, OwnPhoto, OwnDead
  <1>11. OwnKey(j)'
    <2> SUFFICES ASSUME NEW e \in Ids, call'[j].key[e] # NoKey
                 PROVE  OwnPhoto(j, e)'
      BY DEF OwnKey
    <2>1. CASE e = i
      <3>1. call'[j].key[e] = k
        BY <1>4, <2>1
      <3>2. \A h \in Requests, d \in Ids : call'[h].key[d] = k => h = j /\ d = i
        BY <1>4, <1>5, <1>10 DEF Only
      <3> QED
        BY <1>1, <1>2, <1>3, <1>8, <1>9, <1>10, <2>1, <3>1, <3>2 DEF GoesTo, OwnPhoto
    <2>2. CASE e # i
      <3>1. call'[j].key[e] = call[j].key[e] /\ call[j].key[e] # NoKey
        BY <1>4, <2>2
      <3>2. OwnPhoto(j, e)
        BY <3>1 DEF Files, OwnKey
      <3>3. \A h \in Requests, d \in Ids : call'[h].key[d] = call[j].key[e] => h = j /\ d = e
        BY <1>4, <1>5, <1>10, <3>2 DEF Only, OwnPhoto
      <3> QED
        BY <1>1, <1>2, <1>8, <3>1, <3>2, <3>3 DEF GoesTo, OwnPhoto
    <2> QED
      BY <2>1, <2>2
  <1>12. ASSUME NEW h \in Requests \ {j}
         PROVE  OwnKey(h)' /\ OwnDead(h)'
    <2>1. Removed(h)' = Removed(h)
      BY <1>1, <1>5, SameRemoved DEF Only
    <2>2. \A e \in Ids : call'[j].key[e] \in {NoKey, call[j].key[e]} \cup (Keys \ used)
      BY <1>4
    <2>3. \A e \in Ids : file'[e] \in {NoKey, file[e], call[j].key[e]}
      BY <1>1
    <2>4. stored \subseteq stored' /\ used \subseteq used' /\ call'[j].dead \cap StoredBy(h) = {}
      BY <1>2, <1>5
    <2> QED
      BY <1>5, <2>1, <2>2, <2>3, <2>4, OthersOwn
  <1> QED
    BY <1>6, <1>7, <1>11, <1>12 DEF Files

LEMMA FilesWrite ==
  ASSUME Typed, Files, NEW j \in Requests, Write(j)
  PROVE  Files'
  <1>1. /\ Only(j) /\ call[j].stage = "write" /\ call'[j] = Idle /\ Bare(j)
        /\ UNCHANGED <<stored, used, gone>> /\ entries' = entries \cup call[j].put
        /\ \A i \in entries : by'[i] = by[i]
    BY WriteOnly DEF Typed
  <1>2. PICK over \in {call[j].put, call[j].put \ entries} :
          file' = [i \in Ids |-> IF i \in over THEN call[j].key[i] ELSE file[i]]
    BY WriteOnly DEF Typed
  <1>3. over \subseteq call[j].put /\ over \subseteq Ids
    BY DEF Typed, TypeOK, Call
  <1>4. \A i \in Ids : file'[i] = IF i \in over THEN call[j].key[i] ELSE file[i]
    BY <1>2
  <1>5. \A i \in Ids : call[j].key[i] # NoKey => OwnPhoto(j, i)
    BY DEF Files, OwnKey
  <1>6. OwnFiles'
    <2>1. \A i \in Ids : i \notin entries' => file'[i] = NoKey
      BY <1>1, <1>3, <1>4 DEF Files, OwnFiles
    <2>2. \A i, e \in Ids : file'[i] = file'[e] /\ file'[i] # NoKey => i = e
      BY <1>4, <1>5 DEF Files, OwnFiles, OwnPhoto
    <2>3. \A i \in Ids : file'[i] # NoKey => file'[i] \in stored'
      BY <1>1, <1>4, <1>5 DEF Files, OwnFiles, OwnPhoto
    <2> QED
      BY <2>1, <2>2, <2>3 DEF OwnFiles
  <1>7. OwnKey(j)' /\ OwnDead(j)'
    BY <1>1 DEF Bare, OwnKey, OwnDead
  <1>8. ASSUME NEW h \in Requests \ {j}
        PROVE  OwnKey(h)' /\ OwnDead(h)'
    <2>1. \A e \in Removed(h) : e \in Removed(h)'
      BY <1>1 DEF Removed, Own, Only
    <2>2. \A e \in Ids : file'[e] \in {NoKey, file[e], call[j].key[e]}
      BY <1>4
    <2>3. \A e \in Ids : call'[j].key[e] = NoKey
      BY <1>1 DEF Bare
    <2>4. stored \subseteq stored' /\ used \subseteq used' /\ call'[j].dead \cap StoredBy(h) = {}
      BY <1>1 DEF Bare
    <2> QED
      BY <1>1, <2>1, <2>2, <2>3, <2>4, OthersOwn
  <1> QED
    BY <1>6, <1>7, <1>8 DEF Files

LEMMA FilesBreaks ==
  ASSUME Typed, Files, NEW j \in Requests, Breaks(j)
  PROVE  Files'
  <1>1. SameFiles /\ Only(j) /\ call[j].stage \in {"store", "write"}
    BY BreaksOnly DEF Typed, SameFiles
  <1>2. CASE call'[j] = Idle /\ Bare(j)
    BY <1>1, <1>2, FilesQuiet DEF DeadStays, NoKeys, Bare
  <1>3. CASE ~(call'[j] = Idle /\ Bare(j))
    <2>1. call'[j].stage = "purge" /\ call'[j].dead = StoredBy(j) /\ NoKeys(j)'
      BY <1>3, BreaksOnly DEF Typed, NoKeys
    <2>2. OwnFiles'
      BY <1>1 DEF Files, OwnFiles, SameFiles
    <2>3. OwnKey(j)'
      BY <2>1 DEF NoKeys, OwnKey
    <2>4. \A k \in StoredBy(j) : \E i \in Ids : k = call[j].key[i] /\ OwnPhoto(j, i)
      BY DEF StoredBy, Files, OwnKey
    <2>5. OwnDead(j)'
      <3>1. StoredBy(j) \subseteq used'
        BY <1>1, <2>4 DEF OwnPhoto, SameFiles, Typed, TypeOK
      <3>2. \A i \in Ids : file'[i] \notin StoredBy(j)
        BY <1>1, <2>4 DEF OwnPhoto, SameFiles
      <3> QED
        BY <2>1, <3>1, <3>2 DEF OwnDead
    <2>6. ASSUME NEW h \in Requests \ {j}
          PROVE  OwnKey(h)' /\ OwnDead(h)'
      <3>1. call'[j].dead \cap StoredBy(h) = {}
        BY <2>1, <2>4 DEF OwnPhoto, StoredBy
      <3>2. Removed(h)' = Removed(h)
        BY <1>1, SameRemoved DEF Only, SameFiles
      <3> QED
        BY <1>1, <2>1, <3>1, <3>2, OthersOwn DEF SameFiles, NoKeys
    <2> QED
      BY <2>2, <2>3, <2>5, <2>6 DEF Files
  <1> QED
    BY <1>2, <1>3

LEMMA FilesDeleteScout ==
  ASSUME Typed, Files, DeleteScout
  PROVE  Files'
  <1>1. file' = [i \in Ids |-> NoKey] /\ UNCHANGED <<stored, used, call>>
    BY DEF DeleteScout
  <1>2. \A h \in Requests : NoKey \notin call[h].dead
    BY JourneyAssumption DEF Typed, TypeOK, Call
  <1>3. OwnFiles'
    BY <1>1 DEF OwnFiles
  <1>4. ASSUME NEW h \in Requests
        PROVE  OwnKey(h)' /\ OwnDead(h)'
    <2>1. OwnKey(h)'
      BY <1>1 DEF Files, OwnKey, OwnPhoto
    <2>2. OwnDead(h)'
      BY <1>1, <1>2 DEF Files, OwnDead
    <2> QED
      BY <2>1, <2>2
  <1> QED
    BY <1>3, <1>4 DEF Files

LEMMA StepFiles ==
  ASSUME Typed, Files, [Next]_vars
  PROVE  Files'
  <1>1. CASE UNCHANGED vars
    <2>1. SameFiles /\ call' = call
      BY <1>1 DEF vars, SameFiles
    <2> QED
      BY <2>1 DEF SameFiles, Files, OwnFiles, OwnKey, OwnPhoto, OwnDead, Removed, Own
  <1>2. ASSUME NEW j \in Requests, Starts(j)
        PROVE  Files'
    <2>1. Only(j) /\ SameFiles /\ NoKeys(j)' /\ DeadStays(j)
      BY <1>2, StartsOnly DEF Typed, BeginsWith, Bare, SameFiles, NoKeys, DeadStays
    <2> QED
      BY <2>1, FilesQuiet
  <1>3. ASSUME NEW j \in Requests, Only(j), SameFiles, call'[j] = Idle /\ Bare(j)
        PROVE  Files'
    BY <1>3, FilesQuiet DEF Bare, NoKeys, DeadStays
  <1>4. ASSUME NEW j \in Requests, Only(j), SameFiles, call'[j].key = call[j].key,
               call[j].stage \in {"lock", "check", "look", "room"}, call'[j].dead = call[j].dead
        PROVE  Files'
    <2>1. NoKeys(j) /\ call[j].dead = {}
      BY <1>4, NoKeysElsewhere DEF Files, OwnDead
    <2> QED
      BY <1>4, <2>1, FilesQuiet DEF NoKeys, DeadStays
  <1>5. ASSUME NEW j \in Requests, Lock(j) \/ Check(j)
        PROVE  Files'
    BY <1>3, <1>4, <1>5, CheckOnly DEF Typed, Steady, SameFiles, GoesTo, Kept
  <1>6. ASSUME NEW j \in Requests, Put(j) \/ Count(j)
        PROVE  Files'
    <2>1. Only(j) /\ SameFiles /\ call[j].stage \in {"put", "count"}
      BY <1>6, PutOnly, CountOnly DEF Typed, Steady, SameFiles, GoesTo
    <2>2. NoKeys(j)
      BY <2>1, NoKeysElsewhere
    <2>3. CASE call'[j] = Idle /\ Bare(j)
      BY <1>3, <2>1, <2>3
    <2>4. CASE ~(call'[j] = Idle /\ Bare(j))
      <3>1. /\ call'[j].stage \in {"count", "commit"} /\ call'[j].key = call[j].key
            /\ call'[j].dead = call[j].dead /\ call'[j].del = call[j].del
        BY <1>6, <2>4, PutOnly, CountOnly DEF Typed, GoesTo, Kept
      <3> QED
        BY <2>1, <2>2, <3>1, FilesQuiet DEF NoKeys, DeadStays
    <2> QED
      BY <2>3, <2>4
  <1>7. ASSUME NEW j \in Requests, Look(j) \/ Room(j) \/ LookImport(j)
        PROVE  Files'
    BY <1>3, <1>4, <1>7, LookOnly, RoomOnly, LookImportOnly DEF Typed, Steady, SameFiles, GoesTo, Kept
  <1>8. ASSUME NEW j \in Requests, Dies(j)
        PROVE  Files'
    BY <1>3, <1>8, DiesOnly DEF Typed, SameFiles
  <1> QED
    BY <1>1, <1>2, <1>5, <1>6, <1>7, <1>8, FilesFind, FilesDelete, FilesCommit, FilesPurge, FilesStore,
       FilesWrite, FilesBreaks, FilesDeleteScout DEF Next, Steps

\* An entry's photo can be read: its file is in storage, whatever batch, upload
\* or import was retried, overlapped or died half way (addPhotoEntry and
\* importTrail put the file before the row, applyEntries deletes it after the
\* commit).
THEOREM PhotosReadable == Spec => []PhotoReadable
  <1>1. Init => Typed /\ Files
    BY InitTyped, FilesInit
  <1>2. Typed /\ Files /\ [Next]_vars => (Typed /\ Files)'
    BY StepTyped, StepFiles
  <1>3. Typed /\ Files => PhotoReadable
    BY DEF Typed, TypeOK, Files, OwnFiles, PhotoReadable
  <1> QED
    BY <1>1, <1>2, <1>3, PTL DEF Spec

-----------------------------------------------------------------------------
\* A batch deletes rows that are there, and makes rows that are not.
Rowed(j) ==
    /\ call[j].stage \in {"put", "count", "commit"} /\ ~gone => call[j].del \subseteq entries
    /\ call[j].stage \in {"count", "commit"} => call[j].make \cap entries \subseteq call[j].del

Rowing == \A j \in Requests : Rowed(j)

LEMMA RowingMoves ==
  ASSUME Rowing, NEW j \in Requests, Only(j), UNCHANGED <<entries, gone>>, Rowed(j)'
  PROVE  Rowing'
  <1> SUFFICES ASSUME NEW h \in Requests, h # j
               PROVE  Rowed(h)'
    BY DEF Rowing
  <1> QED
    BY DEF Only, Rowing, Rowed

\* A call that is not about to commit has no row to make or delete yet.
LEMMA RowedElsewhere ==
  ASSUME NEW j \in Requests, call'[j].stage \notin {"put", "count", "commit"}
  PROVE  Rowed(j)'
  BY DEF Rowed

LEMMA RowsWrite ==
  ASSUME Typed, Rowing, NEW j \in Requests, Write(j)
  PROVE  Rowing'
  <1>1. /\ Only(j) /\ call'[j] = Idle /\ gone' = gone /\ entries' = entries \cup call[j].put
        /\ \A i \in call[j].put : ~Touched(i)
    BY WriteOnly DEF Typed
  <1> SUFFICES ASSUME NEW h \in Requests
               PROVE  Rowed(h)'
    BY DEF Rowing
  <1>2. CASE h = j
    BY <1>1, <1>2, IdleType, RowedElsewhere
  <1>3. CASE h # j
    <2>1. call'[h] = call[h]
      BY <1>1, <1>3 DEF Only
    <2>2. call[h].stage \in {"count", "commit"} => call[j].put \cap call[h].make = {}
      BY <1>1 DEF Touched
    <2> QED
      BY <1>1, <2>1, <2>2 DEF Rowing, Rowed
  <1> QED
    BY <1>2, <1>3

LEMMA RowsCommit ==
  ASSUME Typed, Rowing, NEW j \in Requests, Commit(j)
  PROVE  Rowing'
  <1>1. Only(j) /\ call[j].stage = "commit" /\ call'[j].stage \notin Held
    BY CommitOnly DEF Typed
  <1>2. \A h \in Requests : call'[h].stage \notin {"put", "count", "commit"}
    <2>1. \A h \in Requests \ {j} : call[h].stage \notin Held
      BY <1>1, TypeRows DEF Typed, Held
    <2> QED
      BY <1>1, <2>1 DEF Only, Held
  <1> QED
    BY <1>2, RowedElsewhere DEF Rowing

LEMMA StepRowing ==
  ASSUME Typed, Rowing, [Next]_vars
  PROVE  Rowing'
  <1>1. CASE UNCHANGED vars
    BY <1>1 DEF vars, Rowing, Rowed
  <1>2. CASE DeleteScout
    BY <1>2 DEF DeleteScout, Rowing, Rowed
  <1>3. ASSUME NEW j \in Requests, Only(j), UNCHANGED <<entries, gone>>,
               call'[j].stage \notin {"put", "count", "commit"}
        PROVE  Rowing'
    BY <1>3, RowedElsewhere, RowingMoves
  <1>4. ASSUME NEW j \in Requests, Starts(j)
        PROVE  Rowing'
    BY <1>3, <1>4, StartsOnly DEF Typed, BeginsWith
  <1>5. ASSUME NEW j \in Requests, Lock(j) \/ Check(j) \/ Find(j)
        PROVE  Rowing'
    BY <1>3, <1>5, CheckOnly, FindOnly, IdleType DEF Typed, GoesTo, Steady
  <1>6. ASSUME NEW j \in Requests, Delete(j)
        PROVE  Rowing'
    <2>1. /\ Only(j) /\ UNCHANGED <<entries, gone>> /\ call'[j].stage = "put"
          /\ call'[j].del \subseteq entries
      BY <1>6, DeleteOnly DEF Typed, Removed, GoesTo, Steady
    <2> QED
      BY <2>1, RowingMoves DEF Rowed
  <1>7. ASSUME NEW j \in Requests, Put(j)
        PROVE  Rowing'
    <2>1. /\ GoesTo(j, "count") /\ call[j].stage = "put" /\ call'[j].del = call[j].del
          /\ call'[j].make = call[j].put \ (entries \ call[j].del) /\ UNCHANGED <<entries, gone>>
      BY <1>7, PutOnly DEF Typed, Steady
    <2>2. Rowed(j)'
      BY <2>1 DEF GoesTo, Rowing, Rowed
    <2> QED
      BY <2>1, <2>2, RowingMoves DEF GoesTo
  <1>8. ASSUME NEW j \in Requests, Count(j)
        PROVE  Rowing'
    <2>1. Only(j) /\ UNCHANGED <<entries, gone>> /\ call[j].stage = "count"
      BY <1>8, CountOnly DEF Typed, Steady
    <2>2. CASE call'[j] = Idle
      BY <1>3, <2>1, <2>2, IdleType
    <2>3. CASE call'[j] # Idle
      <3>1. GoesTo(j, "commit") /\ Kept(j)
        BY <1>8, <2>3, CountOnly DEF Typed
      <3>2. Rowed(j)'
        BY <2>1, <3>1 DEF GoesTo, Kept, Rowing, Rowed
      <3> QED
        BY <2>1, <3>2, RowingMoves
    <2> QED
      BY <2>2, <2>3
  <1>9. ASSUME NEW j \in Requests, Look(j) \/ Room(j) \/ LookImport(j)
        PROVE  Rowing'
    BY <1>3, <1>9, LookOnly, RoomOnly, LookImportOnly, IdleType DEF Typed, GoesTo, Steady
  <1>10. ASSUME NEW j \in Requests, Purge(j) \/ Store(j) \/ Breaks(j) \/ Dies(j)
         PROVE  Rowing'
    BY <1>3, <1>10, PurgeOnly, StoreOnly, BreaksOnly, DiesOnly, IdleType DEF Typed, GoesTo
  <1> QED
    BY <1>1, <1>2, <1>4, <1>5, <1>6, <1>7, <1>8, <1>9, <1>10, RowsWrite, RowsCommit DEF Next, Steps

LEMMA InitRowing ==
  ASSUME Init
  PROVE  Rowing
  BY IdleType DEF Init, Rowing, Rowed

-----------------------------------------------------------------------------
\* The limit.  Two calls under way at once have both met; a batch that has
\* counted, and a call that has met nobody since it counted, will keep it.
Beside == \A g, h \in Busy : g # h => g \in met

Counts(j) ==
    /\ call[j].stage = "commit" /\ ~gone =>
         Cardinality(After(j) \ (late \ call[j].del)) <= Cap
    /\ call[j].stage \in {"store", "write"} /\ j \notin met =>
         Cardinality(entries \cup call[j].put) <= Cap

Near == NearCap /\ Beside /\ \A j \in Requests : Counts(j)

\* A call that moves on or ends, while the rows stay.
LEMMA NearMoves ==
  ASSUME Near, NEW j \in Requests, Only(j), UNCHANGED <<entries, late, gone, met>>,
         call[j].stage # "idle" \/ call'[j].stage = "idle", Counts(j)'
  PROVE  Near'
  <1>1. NearCap'
    BY DEF Near, NearCap
  <1>2. Beside'
    <2>1. Busy' \subseteq Busy
      BY DEF Busy, Only
    <2> QED
      BY <2>1 DEF Near, Beside
  <1>3. ASSUME NEW h \in Requests, h # j
        PROVE  Counts(h)'
    BY <1>3 DEF Near, Only, Counts, After
  <1> QED
    BY <1>1, <1>2, <1>3 DEF Near

LEMMA NearStarts ==
  ASSUME Typed, Near, NEW j \in Requests, Starts(j)
  PROVE  Near'
  <1>1. PICK stage \in {"lock", "look"} : BeginsWith(j, stage)
    BY StartsOnly DEF Typed
  <1>2. /\ Only(j) /\ call[j] = Idle /\ call'[j].stage \in {"lock", "look"}
        /\ UNCHANGED <<entries, late, gone>>
        /\ met' = IF Busy = {} THEN met \ {j} ELSE met \cup Busy \cup {j}
    BY <1>1 DEF BeginsWith
  <1>3. NearCap'
    BY <1>2 DEF Near, NearCap
  <1>4. Busy' = Busy \cup {j}
    BY <1>2 DEF Busy, Only
  <1>5. Beside'
    BY <1>2, <1>4 DEF Beside
  <1>6. ASSUME NEW h \in Requests
        PROVE  Counts(h)'
    <2>1. CASE h = j
      BY <1>2, <2>1 DEF Counts
    <2>2. CASE h # j
      <3>1. call'[h] = call[h]
        BY <1>2, <2>2 DEF Only
      <3>2. call[h].stage \in {"store", "write"} => h \in met'
        BY <1>2 DEF Busy
      <3> QED
        BY <1>2, <3>1, <3>2 DEF Near, Counts, After
    <2> QED
      BY <2>1, <2>2
  <1> QED
    BY <1>3, <1>5, <1>6 DEF Near

\* A part of what fits the limit fits it.
LEMMA PartFits ==
  ASSUME TypeOK, NEW S \in SUBSET Ids, NEW T \in SUBSET S, Cardinality(S) <= Cap
  PROVE  Cardinality(T) <= Cap
  <1>1. IsFiniteSet(S)
    BY Counted
  <1>2. Cardinality(T) <= Cardinality(S) /\ T \in SUBSET Ids
    BY <1>1, FS_Subset
  <1>3. Cardinality(S) \in Nat /\ Cardinality(T) \in Nat /\ Cap \in Nat
    BY <1>2, Counted, JourneyAssumption
  <1> QED
    BY <1>2, <1>3

LEMMA NearCount ==
  ASSUME Typed, Near, NEW j \in Requests, Count(j)
  PROVE  Near'
  <1>1. /\ Only(j) /\ UNCHANGED <<entries, late, gone, met>> /\ call[j].stage = "count"
    BY CountOnly DEF Typed, Steady
  <1>2. Counts(j)'
    <2>1. CASE call'[j] = Idle
      BY <2>1, IdleType DEF Counts
    <2>2. CASE call'[j] # Idle
      <3>1. GoesTo(j, "commit") /\ Kept(j) /\ ~TooMany(j)
        BY <2>2, CountOnly DEF Typed
      <3>2. After(j) \in SUBSET Ids
        BY DEF Typed, TypeOK, Call, After
      <3>3. Cardinality(After(j)) <= Cap
        BY <3>1, <3>2, Counted, JourneyAssumption DEF Typed, TooMany
      <3>4. Cardinality(After(j) \ (late \ call[j].del)) <= Cap
        BY <3>2, <3>3, PartFits DEF Typed
      <3>5. After(j)' = After(j)
        BY <1>1, <3>1 DEF Kept, After
      <3> QED
        BY <1>1, <3>1, <3>4, <3>5 DEF GoesTo, Kept, Counts
    <2> QED
      BY <2>1, <2>2
  <1> QED
    BY <1>1, <1>2, NearMoves

\* The room an upload or an import has found.
LEMMA RoomFits ==
  ASSUME Typed, NEW j \in Requests, Room(j) \/ LookImport(j), call'[j] # Idle
  PROVE  /\ call'[j].stage \in {"store", "write"}
         /\ Cardinality(entries \cup call'[j].put) <= Cap
  <1>1. IsFiniteSet(entries) /\ Cardinality(entries) \in Nat /\ Cap \in Nat
    BY Counted, JourneyAssumption DEF Typed
  <1>2. CASE Room(j)
    <2>1. Cardinality(entries) < Cap /\ call'[j].stage = "store" /\ call'[j].put = call[j].put
      BY <1>2, RoomOnly DEF Typed, GoesTo
    <2>2. PICK i \in Ids : call[j].put = {i}
      BY <1>2, RoomOnly DEF Typed, Shaped, Upright
    <2>3. Cardinality(entries \cup {i}) \in {Cardinality(entries), Cardinality(entries) + 1}
      BY <1>1, FS_AddElement
    <2>4. Cardinality(entries \cup {i}) <= Cap
      BY <1>1, <2>1, <2>3
    <2> QED
      BY <2>1, <2>2, <2>4
  <1>3. CASE LookImport(j)
    <2> DEFINE fresh == call[j].put \ entries
    <2>1. /\ call'[j].stage \in {"store", "write"} /\ call'[j].put = fresh
          /\ Cardinality(entries) + Cardinality(fresh) <= Cap
      BY <1>3, LookImportOnly DEF Typed
    <2>2. fresh \in SUBSET Ids
      BY DEF Typed, TypeOK, Call
    <2>3. IsFiniteSet(fresh) /\ Cardinality(fresh) \in Nat
      BY <2>2, Counted DEF Typed
    <2>4. entries \cap fresh = {}
      OBVIOUS
    <2> HIDE DEF fresh
    <2>5. Cardinality(entries \cup fresh)
            = Cardinality(entries) + Cardinality(fresh) - Cardinality(entries \cap fresh)
      BY <1>1, <2>3, FS_Union
    <2>6. Cardinality(entries \cap fresh) = 0
      BY <2>4, FS_EmptySet
    <2>7. Cardinality(entries \cup fresh) <= Cap
      BY <1>1, <2>1, <2>3, <2>5, <2>6
    <2> QED
      BY <2>1, <2>7
  <1> QED
    BY <1>2, <1>3

LEMMA NearRoom ==
  ASSUME Typed, Near, NEW j \in Requests, Room(j) \/ LookImport(j)
  PROVE  Near'
  <1>1. /\ Only(j) /\ UNCHANGED <<entries, late, gone, met>> /\ call[j].stage \in {"room", "look"}
    BY RoomOnly, LookImportOnly DEF Typed, Steady
  <1>2. Counts(j)'
    <2>1. CASE call'[j] = Idle
      BY <2>1, IdleType DEF Counts
    <2>2. CASE call'[j] # Idle
      BY <1>1, <2>2, RoomFits DEF Counts
    <2> QED
      BY <2>1, <2>2
  <1> QED
    BY <1>1, <1>2, NearMoves

LEMMA NearCommit ==
  ASSUME Typed, Near, NEW j \in Requests, Commit(j)
  PROVE  Near'
  <1>1. /\ Only(j) /\ call[j].stage = "commit" /\ call'[j].stage \in {"idle", "purge"}
        /\ UNCHANGED <<gone, met>>
    BY CommitOnly, IdleType DEF Typed, GoesTo
  <1>2. CASE gone
    <2>1. UNCHANGED <<entries, late>>
      BY <1>2, CommitOnly DEF Typed
    <2> QED
      BY <1>1, <2>1, NearMoves DEF Counts
  <1>3. CASE ~gone
    <2>1. entries' = After(j) /\ late' = late \ call[j].del
      BY <1>3, CommitOnly DEF Typed
    <2>2. NearCap'
      BY <1>1, <1>3, <2>1 DEF Near, Counts, NearCap
    <2>3. Beside'
      <3>1. Busy' \subseteq Busy
        BY <1>1 DEF Busy, Only
      <3> QED
        BY <1>1, <3>1 DEF Near, Beside
    <2>4. ASSUME NEW h \in Requests
          PROVE  Counts(h)'
      <3>1. CASE h = j
        BY <1>1, <3>1 DEF Counts
      <3>2. CASE h # j
        <4>1. call'[h] = call[h] /\ call[h].stage # "commit"
          <5>1. lock = j /\ lock # h
            BY <1>1, <3>2, TypeRows DEF Typed, Held
          <5> QED
            BY <1>1, <3>2, <5>1, TypeRows DEF Typed, Held, Only
        <4>2. call[h].stage \in {"store", "write"} => h \in met
          BY <1>1, <3>2 DEF Near, Beside, Busy
        <4> QED
          BY <1>1, <4>1, <4>2 DEF Counts
      <3> QED
        BY <3>1, <3>2
    <2> QED
      BY <2>2, <2>3, <2>4 DEF Near
  <1> QED
    BY <1>2, <1>3

\* What is written beside another call is late; what is written alone fits.
LEMMA NearWrite ==
  ASSUME Typed, Rowing, Near, NEW j \in Requests, Write(j)
  PROVE  Near'
  <1>1. /\ Only(j) /\ call[j].stage = "write" /\ call'[j].stage = "idle" /\ UNCHANGED <<gone, met>>
        /\ entries' = entries \cup call[j].put
        /\ late' = late \cup (IF j \in met THEN call[j].put \ entries ELSE {})
        /\ ~gone /\ \A i \in call[j].put : ~Touched(i)
    BY WriteOnly, IdleType DEF Typed
  <1>2. entries' \subseteq Ids /\ entries \subseteq Ids /\ late \subseteq entries
    BY <1>1 DEF Typed, TypeOK, Call
  <1>3. NearCap'
    <2>1. CASE j \in met
      <3>1. entries' \ late' = entries \ late
        BY <1>1, <1>2, <2>1
      <3> QED
        BY <3>1 DEF Near, NearCap
    <2>2. CASE j \notin met
      <3>1. Cardinality(entries') <= Cap
        BY <1>1, <2>2 DEF Near, Counts
      <3> QED
        BY <1>2, <3>1, PartFits DEF Typed, NearCap
    <2> QED
      BY <2>1, <2>2
  <1>4. Beside'
    <2>1. Busy' \subseteq Busy
      BY <1>1 DEF Busy, Only
    <2> QED
      BY <1>1, <2>1 DEF Near, Beside
  <1>5. ASSUME NEW h \in Requests
        PROVE  Counts(h)'
    <2>1. CASE h = j
      BY <1>1, <2>1 DEF Counts
    <2>2. CASE h # j
      <3>1. call'[h] = call[h] /\ (call[h].stage # "idle" => h \in met /\ j \in met)
        BY <1>1, <2>2 DEF Only, Near, Beside, Busy
      <3>2. ASSUME call[h].stage = "commit"
            PROVE  Cardinality(After(h)' \ (late' \ call[h].del)) <= Cap
        <4>1. call[h].del \subseteq entries
          BY <1>1, <3>2 DEF Rowing, Rowed
        <4>2. After(h) \ (late \ call[h].del) \in SUBSET Ids
          BY DEF Typed, TypeOK, Call, After
        <4>3. After(h)' \ (late' \ call[h].del) \subseteq After(h) \ (late \ call[h].del)
          BY <1>1, <3>1, <3>2, <4>1 DEF After
        <4>4. Cardinality(After(h) \ (late \ call[h].del)) <= Cap
          BY <1>1, <3>2 DEF Near, Counts
        <4> QED
          BY <4>2, <4>3, <4>4, PartFits DEF Typed
      <3> QED
        BY <1>1, <3>1, <3>2 DEF Counts
    <2> QED
      BY <2>1, <2>2
  <1> QED
    BY <1>3, <1>4, <1>5 DEF Near

LEMMA NearDeleteScout ==
  ASSUME Typed, Near, DeleteScout
  PROVE  Near'
  <1>1. entries' = {} /\ late' = {} /\ gone' = TRUE /\ UNCHANGED <<call, met>>
    BY DEF DeleteScout
  <1>2. Cardinality({}) = 0 /\ Cap \in Nat
    BY FS_EmptySet, JourneyAssumption
  <1>3. NearCap'
    BY <1>1, <1>2 DEF NearCap
  <1>4. Beside'
    BY <1>1 DEF Near, Beside, Busy
  <1>5. ASSUME NEW h \in Requests
        PROVE  Counts(h)'
    <2>1. entries \cup call[h].put \in SUBSET Ids
      BY DEF Typed, TypeOK, Call
    <2>2. Cardinality(entries \cup call[h].put) <= Cap => Cardinality(call[h].put) <= Cap
      BY <2>1, PartFits DEF Typed
    <2>3. entries' \cup call'[h].put = call[h].put
      BY <1>1
    <2> QED
      BY <1>1, <2>2, <2>3 DEF Near, Counts
  <1> QED
    BY <1>3, <1>4, <1>5 DEF Near

LEMMA NearStore ==
  ASSUME Typed, Near, NEW j \in Requests, Store(j)
  PROVE  Near'
  <1>1. /\ Only(j) /\ UNCHANGED <<entries, late, gone, met>> /\ call[j].stage = "store"
        /\ call'[j].stage \in {"store", "write"} /\ call'[j].put = call[j].put
    BY StoreOnly DEF Typed, GoesTo
  <1>2. Counts(j)'
    BY <1>1 DEF Near, Counts
  <1> QED
    BY <1>1, <1>2, NearMoves

LEMMA InitNear ==
  ASSUME Init
  PROVE  Near
  <1>1. entries \ late = {} /\ \A j \in Requests : call[j].stage = "idle"
    BY IdleType DEF Init
  <1>2. Cardinality({}) = 0 /\ Cap \in Nat
    BY FS_EmptySet, JourneyAssumption
  <1> QED
    BY <1>1, <1>2 DEF Near, NearCap, Beside, Busy, Counts

LEMMA StepNear ==
  ASSUME Typed, Rowing, Near, [Next]_vars
  PROVE  Near'
  <1>1. CASE UNCHANGED vars
    BY <1>1 DEF vars, Near, NearCap, Beside, Busy, Counts, After
  <1>2. ASSUME NEW j \in Requests, Only(j), UNCHANGED <<entries, late, gone, met>>,
               call[j].stage # "idle" \/ call'[j].stage = "idle",
               call'[j].stage \notin {"commit", "store", "write"}
        PROVE  Near'
    BY <1>2, NearMoves DEF Counts
  <1>3. ASSUME NEW j \in Requests, Lock(j) \/ Check(j) \/ Find(j) \/ Delete(j) \/ Put(j)
        PROVE  Near'
    BY <1>2, <1>3, CheckOnly, FindOnly, DeleteOnly, PutOnly, IdleType DEF Typed, GoesTo, Steady
  <1>4. ASSUME NEW j \in Requests, Look(j) \/ Purge(j) \/ Breaks(j) \/ Dies(j)
        PROVE  Near'
    BY <1>2, <1>4, LookOnly, PurgeOnly, BreaksOnly, DiesOnly, IdleType DEF Typed, GoesTo, Steady
  <1> QED
    BY <1>1, <1>3, <1>4, NearStarts, NearCount, NearRoom, NearCommit, NearWrite, NearStore,
       NearDeleteScout DEF Next, Steps

\* For any limit, and any number of requests, ids and entries in a file: what
\* batches make, and what uploads and imports make with no other call beside
\* them, never passes MAX_ENTRIES_PER_SCOUT.  Only what addPhotoEntry and
\* importTrail wrote beside another call can, as they count without the lock.
THEOREM LimitNearlyKept == Spec => []NearCap
  <1>1. Init => Typed /\ Rowing /\ Near
    BY InitTyped, InitRowing, InitNear
  <1>2. Typed /\ Rowing /\ Near /\ [Next]_vars => (Typed /\ Rowing /\ Near)'
    BY StepTyped, StepRowing, StepNear
  <1>3. Near => NearCap
    BY DEF Near
  <1> QED
    BY <1>1, <1>2, <1>3, PTL DEF Spec

-----------------------------------------------------------------------------
\* No strays.  With one call at a time and nothing failing, what storage holds
\* beyond the entries' photos is what the one call has in hand.
Photographs == {file[i] : i \in entries} \ {NoKey}

InHand(j) == IF call[j].stage = "purge" THEN call[j].dead
             ELSE IF call[j].stage \in {"store", "write"} THEN StoredBy(j)
             ELSE {}

\* No row that an upload or an import is to write has a photo, and an import's
\* rows are not there yet.
Clear(j) ==
    call[j].stage \in {"room", "store", "write"} =>
      \A i \in call[j].put \cap entries : ~call[j].import /\ file[i] = NoKey

\* And a batch's list names the photos of the rows that it removes.
Sound(j) ==
    /\ stored = Photographs \cup InHand(j) /\ Clear(j)
    /\ call[j].stage = "delete" => call[j].dead = Photos(j)
    /\ call[j].stage \in {"put", "count", "commit"} =>
         call[j].dead = {file[i] : i \in call[j].del} \ {NoKey}

Undisturbed == alone /\ mishaps = 0 /\ ~gone

Tidy == Undisturbed =>
    /\ Busy = {} => stored = Photographs
    /\ \A j \in Busy : Sound(j) /\ Busy = {j}

LEMMA TidyInit ==
  ASSUME Init
  PROVE  Tidy
  BY IdleType DEF Init, Tidy, Busy, Photographs

\* The call that moves is the only one, before and after.
LEMMA TidyMoves ==
  ASSUME Tidy, NEW j \in Requests, Only(j),
         Undisturbed' => Undisturbed,
         call[j].stage # "idle" \/ (Undisturbed' => Busy = {}),
         Undisturbed' => (IF call'[j].stage = "idle" THEN stored' = Photographs' ELSE Sound(j)')
  PROVE  Tidy'
  <1> SUFFICES ASSUME Undisturbed'
               PROVE  (Busy = {} => stored = Photographs)' /\ \A h \in Busy' : Sound(h)' /\ Busy' = {h}
    BY DEF Tidy
  <1>1. Busy \subseteq {j}
    BY DEF Tidy, Busy
  <1>2. Busy' = IF call'[j].stage = "idle" THEN {} ELSE {j}
    BY <1>1 DEF Busy, Only
  <1> QED
    BY <1>2

\* The rows and the files stay, and the call goes on with what it has in hand.
LEMMA SoundGoes ==
  ASSUME NEW j \in Requests, Sound(j), UNCHANGED <<entries, file, by, stored>>,
         NEW stage \in Stages, GoesTo(j, stage), InHand(j)' = InHand(j), Clear(j)',
         stage = "delete" => call'[j].dead = Photos(j),
         stage \in {"put", "count", "commit"} =>
           call'[j].dead = {file[i] : i \in call'[j].del} \ {NoKey}
  PROVE  Sound(j)'
  <1>1. Photographs' = Photographs
    BY DEF Photographs
  <1>2. call'[j].stage = stage /\ call'[j].drop = call[j].drop /\ call'[j].who = call[j].who
    BY DEF GoesTo
  <1>3. Photos(j)' = Photos(j)
    <2>1. Removed(j)' = Removed(j)
      BY <1>2, SameRemoved
    <2> QED
      BY <2>1 DEF Photos
  <1> QED
    BY <1>1, <1>2, <1>3 DEF Sound

\* A batch has nothing in hand until its commit.
LEMMA NothingYet ==
  ASSUME NEW j \in Requests, NEW stage \in Stages \ {"purge", "room", "store", "write"}, GoesTo(j, stage),
         call[j].stage \notin {"purge", "store", "write"}
  PROVE  Clear(j)' /\ InHand(j)' = InHand(j)
  BY DEF GoesTo, Clear, InHand

LEMMA SoundFind ==
  ASSUME Typed, NEW j \in Requests, Sound(j), Find(j)
  PROVE  Sound(j)'
  <1>1. /\ UNCHANGED <<entries, file, by, stored>> /\ GoesTo(j, "delete") /\ call[j].stage = "find"
        /\ call'[j].dead = Photos(j) /\ "delete" \in Stages \ {"purge", "room", "store", "write"}
    BY FindOnly DEF Typed, Steady, Stages
  <1>2. Clear(j)' /\ InHand(j)' = InHand(j)
    BY <1>1, NothingYet
  <1> QED
    BY <1>1, <1>2, SoundGoes

LEMMA SoundDelete ==
  ASSUME Typed, NEW j \in Requests, Sound(j), Delete(j)
  PROVE  Sound(j)'
  <1>1. /\ UNCHANGED <<entries, file, by, stored>> /\ GoesTo(j, "put") /\ call[j].stage = "delete"
        /\ "put" \in Stages \ {"purge", "room", "store", "write"}
    BY DeleteOnly DEF Typed, Steady, Stages
  <1>2. call'[j].dead = {file[i] : i \in call'[j].del} \ {NoKey}
    BY DeleteOnly DEF Typed, Sound, Photos
  <1>3. Clear(j)' /\ InHand(j)' = InHand(j)
    BY <1>1, NothingYet
  <1> QED
    BY <1>1, <1>2, <1>3, SoundGoes

LEMMA SoundPut ==
  ASSUME Typed, NEW j \in Requests, Sound(j), Put(j)
  PROVE  Sound(j)'
  <1>1. /\ UNCHANGED <<entries, file, by, stored>> /\ GoesTo(j, "count") /\ call[j].stage = "put"
        /\ "count" \in Stages \ {"purge", "room", "store", "write"}
    BY PutOnly DEF Typed, Steady, Stages
  <1>2. call'[j].dead = {file[i] : i \in call'[j].del} \ {NoKey}
    BY PutOnly DEF Typed, Sound
  <1>3. Clear(j)' /\ InHand(j)' = InHand(j)
    BY <1>1, NothingYet
  <1> QED
    BY <1>1, <1>2, <1>3, SoundGoes

\* The rows that go take their photos to the list; the rows made have none.
LEMMA SoundCommit ==
  ASSUME Typed, Rowing, NEW j \in Requests, Sound(j), Commit(j), ~gone
  PROVE  Sound(j)' /\ call'[j].stage = "purge"
  <1>1. /\ call[j].stage = "commit" /\ GoesTo(j, "purge") /\ Kept(j) /\ entries' = After(j)
        /\ file' = [i \in Ids |-> IF i \in call[j].del \cup call[j].make THEN NoKey ELSE file[i]]
        /\ stored' = stored
    BY CommitOnly DEF Typed
  <1>2. call[j].del \subseteq entries /\ call[j].make \cap entries \subseteq call[j].del
        /\ entries \subseteq Ids /\ call[j].make \subseteq Ids
    BY <1>1 DEF Rowing, Rowed, Typed, TypeOK, Call
  <1>3. \A i \in entries \ call[j].del : i \in entries' /\ file'[i] = file[i]
    BY <1>1, <1>2 DEF After
  <1>4. \A i \in entries' : file'[i] # NoKey => i \in entries \ call[j].del /\ file'[i] = file[i]
    BY <1>1, <1>2 DEF After
  <1>5. Photographs' = {file[i] : i \in entries \ call[j].del} \ {NoKey}
    BY <1>3, <1>4 DEF Photographs
  <1>6. call'[j].dead = {file[i] : i \in call[j].del} \ {NoKey}
    BY <1>1 DEF Sound, Kept
  <1>7. stored = Photographs
    BY <1>1 DEF Sound, InHand
  <1>8. Photographs = Photographs' \cup call'[j].dead
    BY <1>2, <1>5, <1>6 DEF Photographs
  <1> QED
    BY <1>1, <1>7, <1>8 DEF Sound, Clear, InHand, GoesTo

\* What is deleted is no entry's photo.
LEMMA TidyPurge ==
  ASSUME Typed, Files, NEW j \in Requests, Sound(j), Purge(j), mishaps = 0, mishaps' = 0
  PROVE  stored' = Photographs'
  <1>1. call[j].stage = "purge" /\ UNCHANGED <<entries, file>>
    BY PurgeOnly DEF Typed
  <1>2. stored' = stored \ call[j].dead
    <2>1. PICK left \in SUBSET call[j].dead :
            /\ stored' = stored \ (call[j].dead \ left)
            /\ mishaps' = IF left = {} THEN mishaps ELSE mishaps + 1
      BY PurgeOnly DEF Typed
    <2>2. left = {}
      BY <2>1
    <2> QED
      BY <2>1, <2>2
  <1>3. Photographs' = Photographs
    BY <1>1 DEF Photographs
  <1>4. \A i \in Ids : file[i] \notin call[j].dead
    BY <1>1 DEF Files, OwnDead
  <1>5. Photographs \cap call[j].dead = {}
    BY <1>4 DEF Photographs, Typed, TypeOK
  <1>6. stored = Photographs \cup call[j].dead
    BY <1>1 DEF Sound, InHand
  <1> QED
    BY <1>2, <1>3, <1>5, <1>6

LEMMA SoundLook ==
  ASSUME Typed, Files, NEW j \in Requests, Sound(j), Look(j) \/ Room(j) \/ LookImport(j)
  PROVE  IF call'[j].stage = "idle" THEN stored' = Photographs' ELSE Sound(j)'
  <1>1. UNCHANGED <<entries, file, by, stored>> /\ call[j].stage \in {"look", "room"}
    BY LookOnly, RoomOnly, LookImportOnly DEF Typed, Steady
  <1>2. stored = Photographs /\ Photographs' = Photographs
    BY <1>1 DEF Sound, InHand, Photographs
  <1>3. CASE call'[j] = Idle
    BY <1>1, <1>2, <1>3, IdleType
  <1>4. CASE call'[j] # Idle
    <2>1. call'[j].stage \in {"room", "store", "write"} /\ call'[j].key = call[j].key
      BY <1>4, LookOnly, RoomOnly, LookImportOnly DEF Typed, GoesTo, Kept
    <2>2. StoredBy(j)' = {}
      <3>1. StoredBy(j) = {}
        BY <1>1, NoKeysElsewhere
      <3> QED
        BY <2>1, <3>1 DEF StoredBy
    <2>3. Clear(j)'
      <3>1. CASE Look(j)
        BY <1>1, <1>4, <3>1, LookOnly DEF Typed, GoesTo, Clear
      <3>2. CASE Room(j)
        BY <1>1, <1>4, <3>2, RoomOnly DEF Typed, GoesTo, Sound, Clear
      <3>3. CASE LookImport(j)
        BY <1>1, <1>4, <3>3, LookImportOnly DEF Typed, Clear
      <3> QED
        BY <3>1, <3>2, <3>3
    <2> QED
      BY <1>1, <1>2, <2>1, <2>2, <2>3 DEF Sound, InHand
  <1> QED
    BY <1>3, <1>4

LEMMA SoundStore ==
  ASSUME Typed, Files, NEW j \in Requests, Sound(j), Store(j)
  PROVE  Sound(j)' /\ call'[j].stage # "idle"
  <1>1. UNCHANGED <<entries, file>> /\ call[j].stage = "store"
    BY StoreOnly DEF Typed
  <1>2. PICK i \in call[j].bare, k \in Keys \ used, stage \in {"store", "write"} :
          /\ used' = used \cup {k} /\ stored' = stored \cup {k}
          /\ GoesTo(j, stage) /\ call'[j].bare = call[j].bare \ {i}
          /\ call'[j].key = [call[j].key EXCEPT ![i] = k]
          /\ call'[j].make = call[j].make /\ call'[j].del = call[j].del /\ call'[j].dead = call[j].dead
    <2>1. TypeOK
      BY DEF Typed
    <2> QED
      BY <2>1, StoreOnly
  <1>3. call[j].key \in [Ids -> Keys \cup {NoKey}] /\ i \in Ids /\ k # NoKey
    BY JourneyAssumption DEF Typed, TypeOK, Call
  <1>4. call[j].key[i] = NoKey
    BY <1>3 DEF Files, OwnKey, OwnPhoto
  <1>5. \A e \in Ids : call'[j].key[e] = IF e = i THEN k ELSE call[j].key[e]
    BY <1>2, <1>3
  <1>6. StoredBy(j)' = StoredBy(j) \cup {k}
    <2>1. StoredBy(j)' = {call'[j].key[e] : e \in Ids} \ {NoKey}
      BY DEF StoredBy
    <2> QED
      BY <1>3, <1>4, <1>5, <2>1 DEF StoredBy
  <1>7. stored = Photographs \cup StoredBy(j) /\ Photographs' = Photographs
    BY <1>1 DEF Sound, InHand, Photographs
  <1>8. call'[j].stage = stage /\ Clear(j)'
    BY <1>1, <1>2 DEF GoesTo, Sound, Clear
  <1> QED
    BY <1>2, <1>6, <1>7, <1>8 DEF Sound, InHand

\* The rows take the files; a photo they had would be left behind.
LEMMA TidyWrite ==
  ASSUME Typed, Files, NEW j \in Requests, Sound(j), Write(j)
  PROVE  stored' = Photographs'
  <1>1. call[j].stage = "write" /\ stored' = stored /\ entries' = entries \cup call[j].put
    BY WriteOnly DEF Typed
  <1>2. PICK over \in {call[j].put, call[j].put \ entries} :
          /\ over = call[j].put \/ call[j].import
          /\ file' = [i \in Ids |-> IF i \in over THEN call[j].key[i] ELSE file[i]]
    BY WriteOnly DEF Typed
  <1>3. call[j].put \subseteq Ids /\ entries \subseteq Ids
    BY DEF Typed, TypeOK, Call
  <1>4. \A i \in call[j].put \cap entries : ~call[j].import /\ file[i] = NoKey
    BY <1>1 DEF Sound, Clear
  <1>5. over = call[j].put
    BY <1>2, <1>4
  <1>6. \A i \in Ids : file'[i] = IF i \in call[j].put THEN call[j].key[i] ELSE file[i]
    BY <1>2, <1>5
  <1>7. \A i \in Ids : call[j].key[i] # NoKey => i \in call[j].put
    BY DEF Files, OwnKey, OwnPhoto
  <1>8. Photographs' = Photographs \cup StoredBy(j)
    <2>1. ASSUME NEW k \in Photographs'
          PROVE  k \in Photographs \cup StoredBy(j)
      BY <1>1, <1>3, <1>6, <2>1 DEF Photographs, StoredBy
    <2>2. ASSUME NEW k \in Photographs
          PROVE  k \in Photographs'
      BY <1>1, <1>3, <1>4, <1>6, <2>2 DEF Photographs
    <2>3. ASSUME NEW k \in StoredBy(j)
          PROVE  k \in Photographs'
      BY <1>1, <1>3, <1>6, <1>7, <2>3 DEF Photographs, StoredBy
    <2> QED
      BY <2>1, <2>2, <2>3
  <1> QED
    BY <1>1, <1>8 DEF Sound, InHand

\* A check, a count or a lock that ends the batch leaves the files as they are.
LEMMA SoundChecks ==
  ASSUME Typed, NEW j \in Requests, Sound(j), Lock(j) \/ Check(j) \/ Count(j)
  PROVE  IF call'[j].stage = "idle" THEN stored' = Photographs' ELSE Sound(j)'
  <1>1. UNCHANGED <<entries, file, by, stored>> /\ call[j].stage \in {"lock", "check", "count"}
    BY CheckOnly, CountOnly DEF Typed, Steady
  <1>2. stored = Photographs /\ Photographs' = Photographs
    BY <1>1 DEF Sound, InHand, Photographs
  <1>3. CASE call'[j] = Idle
    BY <1>1, <1>2, <1>3, IdleType
  <1>4. CASE call'[j] # Idle
    <2>1. PICK stage \in {"check", "find", "commit"} :
            GoesTo(j, stage) /\ Kept(j) /\ (stage = "commit" => call[j].stage = "count")
      BY <1>4, CheckOnly, CountOnly DEF Typed
    <2>2. stage \in Stages \ {"purge", "room", "store", "write"}
      BY DEF Stages
    <2>3. Clear(j)' /\ InHand(j)' = InHand(j)
      BY <1>1, <2>1, <2>2, NothingYet
    <2>4. stage = "commit" => call'[j].dead = {file[i] : i \in call'[j].del} \ {NoKey}
      BY <2>1 DEF Sound, Kept
    <2> QED
      BY <1>1, <2>1, <2>2, <2>3, <2>4, SoundGoes DEF GoesTo
  <1> QED
    BY <1>3, <1>4

\* Only a call under way steps, and it changes no other; the history stays.
LEMMA StepsOnly ==
  ASSUME Typed, NEW j \in Requests, Steps(j)
  PROVE  /\ Only(j) /\ call[j].stage # "idle" /\ UNCHANGED <<alone, gone>>
         /\ mishaps' = mishaps \/ mishaps' = mishaps + 1
  <1>1. UNCHANGED <<alone, gone>> /\ call[j].stage # "idle"
    BY DEF Steps, Lock, Check, Find, Delete, Put, Count, Commit, Purge,
           Look, Room, LookImport, Store, Write, Breaks
  <1>2. mishaps' = mishaps \/ mishaps' = mishaps + 1
    BY DEF Steps, Lock, Check, Find, Delete, Put, Count, Commit, Purge,
           Look, Room, LookImport, Store, Write, Breaks
  <1>3. Only(j)
    BY CheckOnly, FindOnly, DeleteOnly, PutOnly, CountOnly, CommitOnly, PurgeOnly, LookOnly,
       RoomOnly, LookImportOnly, StoreOnly, WriteOnly, BreaksOnly DEF Typed, Steps, GoesTo
  <1> QED
    BY <1>1, <1>2, <1>3

LEMMA StepTidy ==
  ASSUME Typed, Files, Rowing, Tidy, [Next]_vars
  PROVE  Tidy'
  <1>1. CASE UNCHANGED vars
    BY <1>1 DEF vars, Tidy, Undisturbed, Busy, Photographs, Sound, Clear, InHand, StoredBy,
                Photos, Removed, Own
  <1>2. CASE DeleteScout
    BY <1>2 DEF DeleteScout, Tidy, Undisturbed
  <1>3. ASSUME NEW j \in Requests, Dies(j)
        PROVE  Tidy'
    <2>1. mishaps' = mishaps + 1 /\ mishaps \in Nat
      BY <1>3 DEF Dies, Typed, TypeOK
    <2> QED
      BY <2>1 DEF Tidy, Undisturbed
  <1>4. ASSUME NEW j \in Requests, Starts(j)
        PROVE  Tidy'
    <2>1. /\ Only(j) /\ call[j] = Idle /\ call'[j].stage \in {"lock", "look"}
          /\ UNCHANGED <<entries, file, by, stored, used, gone, mishaps>>
          /\ alone' = (alone /\ Busy = {})
      BY <1>4, StartsOnly DEF Typed, BeginsWith
    <2>2. Undisturbed' => Undisturbed /\ Busy = {}
      BY <2>1 DEF Undisturbed
    <2>3. Photographs' = Photographs
      BY <2>1 DEF Photographs
    <2>4. Undisturbed' => Sound(j)'
      BY <2>1, <2>2, <2>3 DEF Tidy, Sound, Clear, InHand
    <2> QED
      BY <2>1, <2>2, <2>4, TidyMoves
  <1>5. ASSUME NEW j \in Requests, Steps(j)
        PROVE  Tidy'
    <2>1. /\ Only(j) /\ call[j].stage # "idle" /\ UNCHANGED <<alone, gone>>
          /\ mishaps' = 0 => mishaps = 0
      BY <1>5, StepsOnly DEF Typed, TypeOK
    <2>2. Undisturbed' => Undisturbed
      BY <2>1 DEF Undisturbed
    <2>3. ASSUME Undisturbed'
          PROVE  IF call'[j].stage = "idle" THEN stored' = Photographs' ELSE Sound(j)'
      <3>1. Sound(j) /\ ~gone /\ mishaps = 0 /\ mishaps' = 0
        BY <2>1, <2>2, <2>3 DEF Tidy, Busy, Undisturbed
      <3>2. CASE Lock(j) \/ Check(j) \/ Count(j) \/ Look(j) \/ Room(j) \/ LookImport(j)
        BY <3>1, <3>2, SoundChecks, SoundLook
      <3>3. CASE Find(j) \/ Delete(j) \/ Put(j) \/ Commit(j) \/ Store(j)
        <4>1. Sound(j)'
          BY <3>1, <3>3, SoundFind, SoundDelete, SoundPut, SoundCommit, SoundStore
        <4>2. call'[j].stage # "idle"
          BY <3>1, <3>3, FindOnly, DeleteOnly, PutOnly, SoundCommit, SoundStore DEF Typed, GoesTo
        <4> QED
          BY <4>1, <4>2
      <3>4. CASE Purge(j) \/ Write(j)
        BY <3>1, <3>4, TidyPurge, TidyWrite, PurgeOnly, WriteOnly, IdleType DEF Typed
      <3>5. CASE Breaks(j)
        BY <3>1, <3>5, BreaksOnly DEF Typed
      <3> QED
        BY <1>5, <3>2, <3>3, <3>4, <3>5 DEF Steps
    <2> QED
      BY <2>1, <2>2, <2>3, TidyMoves
  <1> QED
    BY <1>1, <1>2, <1>3, <1>4, <1>5 DEF Next

\* While calls come one after the other and nothing fails, every file in
\* storage is some entry's photo (applyEntries deletes what it removed,
\* addPhotoEntry and importTrail store what they then point a row at).
THEOREM NothingLeftBehind == Spec => []NoStrays
  <1>1. Init => Typed /\ Files /\ Rowing /\ Tidy
    BY InitTyped, FilesInit, InitRowing, TidyInit
  <1>2. Typed /\ Files /\ Rowing /\ Tidy /\ [Next]_vars => (Typed /\ Files /\ Rowing /\ Tidy)'
    BY StepTyped, StepFiles, StepRowing, StepTidy
  <1>3. Tidy => NoStrays
    BY DEF Tidy, NoStrays, Undisturbed, Photographs
  <1> QED
    BY <1>1, <1>2, <1>3, PTL DEF Spec

-----------------------------------------------------------------------------
\* What the finding journey_first needs is two calls at once: with one call at
\* a time, an entry's photo is never replaced by another.
FirstUploadKeptAlone ==
    [][\A i \in entries \cap entries' :
          alone' /\ file[i] # NoKey => file'[i] \in {file[i], NoKey}]_vars

\* A call about to write, alone, has found no photo.
Fresh == alone =>
    /\ \A g, h \in Busy : g = h
    /\ \A j \in Requests : Clear(j)

\* The one call that moves keeps it so.
LEMMA FreshMoves ==
  ASSUME Fresh, NEW j \in Requests, Only(j),
         alone' => alone /\ (call[j].stage # "idle" \/ Busy = {}), alone' => Clear(j)'
  PROVE  Fresh'
  <1> SUFFICES ASSUME alone' PROVE Fresh'
    BY DEF Fresh
  <1>1. Busy \subseteq {j}
    BY DEF Fresh, Busy
  <1>2. \A h \in Requests \ {j} : call'[h].stage = "idle"
    BY <1>1 DEF Busy, Only
  <1> QED
    BY <1>2 DEF Fresh, Busy, Clear

LEMMA FreshStep ==
  ASSUME Typed, Fresh, [Next]_vars
  PROVE  Fresh'
  <1>1. CASE UNCHANGED vars
    BY <1>1 DEF vars, Fresh, Busy, Clear
  <1>2. CASE DeleteScout
    BY <1>2 DEF DeleteScout, Fresh, Busy, Clear
  <1>3. ASSUME NEW j \in Requests, Dies(j)
        PROVE  Fresh'
    <2>1. Only(j) /\ call'[j] = Idle /\ alone' = alone /\ UNCHANGED <<entries, file>>
      BY <1>3, DiesOnly DEF Typed
    <2>2. CASE call[j].stage # "idle"
      BY <2>1, <2>2, IdleType, FreshMoves DEF Clear
    <2>3. CASE call[j].stage = "idle"
      <3>1. \A h \in Requests : call'[h].stage = call[h].stage /\ (h # j => call'[h] = call[h])
        BY <2>1, <2>3, IdleType DEF Only
      <3> QED
        BY <2>1, <2>3, <3>1 DEF Fresh, Busy, Clear
    <2> QED
      BY <2>2, <2>3
  <1>4. ASSUME NEW j \in Requests, Starts(j)
        PROVE  Fresh'
    <2>1. Only(j) /\ call'[j].stage \in {"lock", "look"} /\ alone' = (alone /\ Busy = {})
      BY <1>4, StartsOnly DEF Typed, BeginsWith
    <2> QED
      BY <2>1, FreshMoves DEF Clear
  <1>5. ASSUME NEW j \in Requests, Steps(j)
        PROVE  Fresh'
    <2>1. Only(j) /\ alone' = alone /\ call[j].stage # "idle"
      BY <1>5, StepsOnly
    <2>2. CASE Look(j) \/ Room(j) \/ LookImport(j)
      <3>1. UNCHANGED <<entries, file>>
        BY <2>2, LookOnly, RoomOnly, LookImportOnly DEF Typed, Steady
      <3>2. CASE call'[j] = Idle
        BY <2>1, <3>2, IdleType, FreshMoves DEF Clear
      <3>3. CASE call'[j] # Idle
        <4>1. alone => Clear(j)'
          <5>1. CASE Look(j)
            BY <3>1, <3>3, <5>1, LookOnly DEF Typed, GoesTo, Clear
          <5>2. CASE Room(j)
            BY <3>1, <3>3, <5>2, RoomOnly DEF Typed, GoesTo, Fresh, Clear
          <5>3. CASE LookImport(j)
            BY <3>1, <3>3, <5>3, LookImportOnly DEF Typed, Clear
          <5> QED
            BY <2>2, <5>1, <5>2, <5>3
        <4> QED
          BY <2>1, <4>1, FreshMoves
      <3> QED
        BY <3>2, <3>3
    <2>3. CASE Store(j)
      <3>1. UNCHANGED <<entries, file>> /\ call[j].stage = "store"
            /\ call'[j].put = call[j].put /\ call'[j].import = call[j].import
        BY <2>3, StoreOnly DEF Typed, GoesTo
      <3>2. alone => Clear(j)'
        BY <3>1 DEF Fresh, Clear
      <3> QED
        BY <2>1, <3>2, FreshMoves
    <2>4. CASE ~(Look(j) \/ Room(j) \/ LookImport(j) \/ Store(j))
      <3>1. call'[j].stage \notin {"room", "store", "write"}
        BY <1>5, <2>4, CheckOnly, FindOnly, DeleteOnly, PutOnly, CountOnly, CommitOnly, PurgeOnly,
           WriteOnly, BreaksOnly, IdleType DEF Typed, Steps, GoesTo
      <3> QED
        BY <2>1, <3>1, FreshMoves DEF Clear
    <2> QED
      BY <2>2, <2>3, <2>4
  <1> QED
    BY <1>1, <1>2, <1>3, <1>4, <1>5 DEF Next

LEMMA FreshKeeps ==
  ASSUME Typed, Fresh, [Next]_vars, alone', NEW i \in entries \cap entries', file[i] # NoKey
  PROVE  file'[i] \in {file[i], NoKey}
  <1>1. i \in Ids /\ file \in [Ids -> Keys \cup {NoKey}]
    BY DEF Typed, TypeOK
  <1>2. ASSUME NEW j \in Requests, Write(j)
        PROVE  file'[i] = file[i]
    <2>1. alone /\ call[j].stage = "write"
      BY <1>2, WriteOnly DEF Typed
    <2>2. PICK over \in {call[j].put, call[j].put \ entries} :
            file' = [e \in Ids |-> IF e \in over THEN call[j].key[e] ELSE file[e]]
      BY <1>2, WriteOnly DEF Typed
    <2>3. i \notin call[j].put
      BY <2>1 DEF Fresh, Clear
    <2> QED
      BY <1>1, <2>2, <2>3
  <1>3. ASSUME NEW j \in Requests, Commit(j)
        PROVE  file'[i] \in {file[i], NoKey}
    BY <1>1, <1>3 DEF Commit, rows
  <1>4. CASE DeleteScout
    BY <1>1, <1>4 DEF DeleteScout
  <1>5. ASSUME NEW j \in Requests,
               \/ Starts(j) \/ Dies(j)
               \/ Lock(j) \/ Check(j) \/ Find(j) \/ Delete(j) \/ Put(j) \/ Count(j) \/ Purge(j)
               \/ Look(j) \/ Room(j) \/ LookImport(j) \/ Store(j) \/ Breaks(j)
        PROVE  file' = file
    BY <1>5, StartsOnly DEF Typed, BeginsWith, Dies, Lock, Check, Find, Delete, Put, Count, Purge,
       Look, Room, LookImport, Store, Breaks, rows
  <1>6. CASE UNCHANGED vars
    BY <1>6 DEF vars
  <1> QED
    BY <1>2, <1>3, <1>4, <1>5, <1>6 DEF Next, Steps

\* For any entries, files and requests: the first upload of an entry's photo is
\* kept as long as calls come one at a time, deaths and retries included.  So
\* journey_first's counterexample must overlap two calls, as it does.
THEOREM FirstUploadKeptIfAlone == Spec => FirstUploadKeptAlone
  <1>1. Init => Typed /\ Fresh
    BY InitTyped, IdleType DEF Init, Fresh, Busy, Clear
  <1>2. Typed /\ Fresh /\ [Next]_vars => (Typed /\ Fresh)'
    BY StepTyped, FreshStep
  <1>3. Typed /\ Fresh /\ [Next]_vars
          => [\A i \in entries \cap entries' :
                 alone' /\ file[i] # NoKey => file'[i] \in {file[i], NoKey}]_vars
    BY FreshKeeps
  <1> QED
    BY <1>1, <1>2, <1>3, PTL DEF Spec, FirstUploadKeptAlone

-----------------------------------------------------------------------------
\* How far the limit can be passed.  The entries, with those that calls under
\* way have found room for, can be shared out among the requests, at most a
\* full trail to each: whoever finds room takes all the entries there are.
Bounds == [j \in Requests |-> IF call[j].stage \in {"store", "write"} THEN call[j].put ELSE {}]

Share(S, g, j) == {i \in S : g[i] = j}

Houses(S, B) == \E g \in [S -> Requests] : \A j \in Requests :
    Cardinality(Share(S, g, j) \cup B[j]) <= Cap

Housed ==
    /\ Houses(entries, Bounds)
    /\ \A j \in Requests : call[j].stage = "commit" /\ ~gone =>
         Houses(After(j), Bounds) /\ Cardinality(call[j].make) <= Cap

LEMMA BoundsType ==
  ASSUME TypeOK
  PROVE  Bounds \in [Requests -> SUBSET Ids]
  BY DEF TypeOK, Call, Bounds

LEMMA PartHoused ==
  ASSUME TypeOK, NEW S \in SUBSET Ids, NEW T \in SUBSET S,
         NEW B \in [Requests -> SUBSET Ids], NEW C \in [Requests -> SUBSET Ids],
         \A j \in Requests : C[j] \subseteq B[j], Houses(S, B)
  PROVE  Houses(T, C)
  <1>1. PICK g \in [S -> Requests] : \A j \in Requests : Cardinality(Share(S, g, j) \cup B[j]) <= Cap
    BY DEF Houses
  <1> DEFINE f == [i \in T |-> g[i]]
  <1>2. f \in [T -> Requests]
    OBVIOUS
  <1>3. ASSUME NEW j \in Requests
        PROVE  Cardinality(Share(T, f, j) \cup C[j]) <= Cap
    <2>1. Share(T, f, j) \cup C[j] \subseteq Share(S, g, j) \cup B[j]
      BY DEF Share
    <2>2. Share(S, g, j) \cup B[j] \in SUBSET Ids
      BY DEF Share
    <2> QED
      BY <1>1, <2>1, <2>2, PartFits
  <1> QED
    BY <1>2, <1>3 DEF Houses

\* What a call has found room for becomes its share.
LEMMA WrittenHoused ==
  ASSUME TypeOK, NEW S \in SUBSET Ids, NEW B \in [Requests -> SUBSET Ids], NEW j \in Requests,
         Houses(S, B)
  PROVE  Houses(S \cup B[j], [B EXCEPT ![j] = {}])
  <1>1. PICK g \in [S -> Requests] : \A h \in Requests : Cardinality(Share(S, g, h) \cup B[h]) <= Cap
    BY DEF Houses
  <1> DEFINE T == S \cup B[j]
             C == [B EXCEPT ![j] = {}]
             f == [i \in T |-> IF i \in S THEN g[i] ELSE j]
  <1>2. f \in [T -> Requests]
    OBVIOUS
  <1>3. ASSUME NEW h \in Requests
        PROVE  Cardinality(Share(T, f, h) \cup C[h]) <= Cap
    <2>1. Share(T, f, h) \cup C[h] \subseteq Share(S, g, h) \cup B[h]
      BY DEF Share
    <2>2. Share(S, g, h) \cup B[h] \in SUBSET Ids
      BY DEF Share
    <2> HIDE DEF f, T, C
    <2> QED
      BY <1>1, <2>1, <2>2, PartFits
  <1> QED
    BY <1>2, <1>3 DEF Houses

\* A call that finds room takes all there is; what a batch makes, it houses.
LEMMA RoomHoused ==
  ASSUME TypeOK, NEW S \in SUBSET Ids, NEW B \in [Requests -> SUBSET Ids], Houses(S, B),
         NEW E \in SUBSET Ids, NEW D \in SUBSET Ids, NEW M \in SUBSET Ids,
         NEW h \in Requests, NEW b \in Requests, M = {} \/ (b # h /\ B[b] = {}),
         Cardinality(E \cup D) <= Cap, Cardinality(M) <= Cap,
         NEW T \in SUBSET (E \cup M)
  PROVE  Houses(T, [B EXCEPT ![h] = D])
  <1>1. PICK g \in [S -> Requests] : \A j \in Requests : Cardinality(Share(S, g, j) \cup B[j]) <= Cap
    BY DEF Houses
  <1> DEFINE C == [B EXCEPT ![h] = D]
             f == [i \in T |-> IF i \in E THEN h ELSE b]
  <1>2. f \in [T -> Requests]
    OBVIOUS
  <1>3. ASSUME NEW j \in Requests
        PROVE  Cardinality(Share(T, f, j) \cup C[j]) <= Cap
    <2>1. CASE j = h
      <3>1. Share(T, f, j) \cup C[j] \subseteq E \cup D
        BY <2>1 DEF Share
      <3> HIDE DEF f, C
      <3> QED
        BY <3>1, PartFits
    <2>2. CASE j # h /\ j = b /\ M # {}
      <3>1. C[j] = {}
        BY <2>2
      <3>2. \A i \in T : f[i] = j => i \in M
        BY <2>2
      <3>3. Share(T, f, j) \cup C[j] \subseteq M
        BY <3>1, <3>2 DEF Share
      <3> HIDE DEF f, C
      <3> QED
        BY <3>3, PartFits
    <2>3. CASE j # h /\ (j # b \/ M = {})
      <3>1. C[j] = B[j] /\ \A i \in T : f[i] # j
        BY <2>3
      <3>2. Share(S, g, j) \cup B[j] \in SUBSET Ids /\ Cardinality(Share(S, g, j) \cup B[j]) <= Cap
        BY <1>1 DEF Share
      <3> HIDE DEF f, C
      <3> DEFINE X == Share(S, g, j) \cup B[j]
                 Y == Share(T, f, j) \cup C[j]
      <3>3. X \in SUBSET Ids /\ Cardinality(X) <= Cap /\ Y \in SUBSET X
        BY <3>1, <3>2 DEF Share
      <3>4. Cardinality(Y) <= Cap
        <4> HIDE DEF X, Y
        <4> QED
          BY <3>3, PartFits
      <3> QED
        BY <3>4
    <2> QED
      BY <2>1, <2>2, <2>3
  <1> QED
    BY <1>2, <1>3 DEF Houses

\* At most a full trail for each request.
LEMMA HousedCount ==
  ASSUME TypeOK, NEW B \in [Requests -> SUBSET Ids], Houses(entries, B)
  PROVE  Overrun
  <1> DEFINE Places == 1 .. Cap
  <1>1. PICK g \in [entries -> Requests] :
          \A j \in Requests : Cardinality(Share(entries, g, j) \cup B[j]) <= Cap
    BY DEF Houses
  <1>2. entries \in SUBSET Ids /\ Cap \in Nat
    BY JourneyAssumption DEF TypeOK
  <1>3. ASSUME NEW j \in Requests
        PROVE  \E b \in [Share(entries, g, j) -> Places] : IsInjective(b)
    <2> DEFINE F == Share(entries, g, j)
    <2>1. F \in SUBSET Ids /\ F \cup B[j] \in SUBSET Ids /\ F \subseteq F \cup B[j]
      BY <1>2 DEF Share
    <2>2. Cardinality(F) <= Cap
      BY <1>1, <2>1, PartFits
    <2>3. IsFiniteSet(F) /\ Cardinality(F) \in Nat
      BY <2>1, Counted
    <2> HIDE DEF F
    <2>4. ExistsBijection(1 .. Cardinality(F), F)
      BY <2>3, FS_CardinalityType
    <2>5. ExistsBijection(F, 1 .. Cardinality(F))
      BY <2>4, Fun_ExistsBijSymmetric
    <2>6. PICK b \in [F -> 1 .. Cardinality(F)] : IsInjective(b)
      BY <2>5 DEF ExistsBijection, Bijection, Injection
    <2>7. b \in [F -> Places]
      BY <1>2, <2>2, <2>3, <2>6
    <2> QED
      BY <2>6, <2>7 DEF F
  <1> DEFINE place(j) == CHOOSE b \in [Share(entries, g, j) -> Places] : IsInjective(b)
             m == [i \in entries |-> <<g[i], place(g[i])[i]>>]
  <1>4. \A j \in Requests : place(j) \in [Share(entries, g, j) -> Places] /\ IsInjective(place(j))
    BY <1>3
  <1> HIDE DEF place
  <1>5. \A i \in entries : g[i] \in Requests /\ i \in Share(entries, g, g[i])
    BY DEF Share
  <1>6. m \in [entries -> Requests \X Places]
    BY <1>4, <1>5
  <1>7. ASSUME NEW a \in entries, NEW c \in entries, m[a] = m[c]
        PROVE  a = c
    <2>1. g[a] = g[c] /\ place(g[a])[a] = place(g[a])[c]
      BY <1>7
    <2>2. a \in Share(entries, g, g[a]) /\ c \in Share(entries, g, g[a])
      BY <1>5, <2>1
    <2> QED
      BY <1>4, <1>5, <2>1, <2>2 DEF IsInjective
  <1>8. m \in Injection(entries, Requests \X Places)
    BY <1>6, <1>7 DEF Injection, IsInjective
  <1>9. IsFiniteSet(Requests) /\ IsFiniteSet(Places) /\ Cardinality(Places) = Cap
    BY <1>2, FS_Interval, JourneyAssumption
  <1> HIDE DEF m, Places
  <1>10. /\ IsFiniteSet(Requests \X Places)
         /\ Cardinality(Requests \X Places) = Cardinality(Requests) * Cap
    BY <1>9, FS_Product
  <1>11. Cardinality(entries) <= Cardinality(Requests \X Places)
    BY <1>8, <1>10, FS_Injection
  <1> QED
    BY <1>10, <1>11 DEF Overrun

\* What calls have found room for, when only one of them moves.
LEMMA BoundsOnly ==
  ASSUME TypeOK, NEW j \in Requests, Only(j)
  PROVE  /\ Bounds \in [Requests -> SUBSET Ids] /\ Bounds' \in [Requests -> SUBSET Ids]
         /\ Bounds' = [Bounds EXCEPT ![j] = Bounds'[j]]
         /\ \A h \in Requests \ {j} : call'[h] = call[h]
  BY DEF TypeOK, Call, Bounds, Only

\* A call that moves on or ends, finds no new room, and is not about to commit.
LEMMA HousedMoves ==
  ASSUME Typed, Housed, NEW j \in Requests, Only(j), UNCHANGED <<entries, gone>>,
         Bounds'[j] \subseteq Bounds[j], call'[j].stage # "commit"
  PROVE  Housed'
  <1>1. /\ Bounds \in [Requests -> SUBSET Ids] /\ Bounds' \in [Requests -> SUBSET Ids]
        /\ \A h \in Requests : Bounds'[h] \subseteq Bounds[h]
    BY BoundsOnly DEF Typed
  <1>2. entries \in SUBSET Ids /\ \A h \in Requests : After(h) \in SUBSET Ids
    BY DEF Typed, TypeOK, Call, After
  <1>3. Houses(entries, Bounds')
    BY <1>1, <1>2, PartHoused DEF Typed, Housed
  <1>4. ASSUME NEW h \in Requests, call'[h].stage = "commit", ~gone'
        PROVE  Houses(After(h)', Bounds') /\ Cardinality(call'[h].make) <= Cap
    <2>1. call'[h] = call[h] /\ After(h)' = After(h) /\ ~gone
      BY <1>4 DEF Only, After
    <2>2. Houses(After(h), Bounds) /\ Cardinality(call[h].make) <= Cap
      BY <1>4, <2>1 DEF Housed
    <2>3. Houses(After(h), Bounds')
      BY <1>1, <1>2, <2>2, PartHoused DEF Typed
    <2> QED
      BY <2>1, <2>2, <2>3
  <1> QED
    BY <1>3, <1>4 DEF Housed

LEMMA HousedCounts ==
  ASSUME Typed, Housed, NEW j \in Requests, Count(j)
  PROVE  Housed'
  <1>1. Only(j) /\ UNCHANGED <<entries, gone>> /\ call[j].stage = "count"
    BY CountOnly DEF Typed, Steady
  <1>2. CASE call'[j] = Idle
    BY <1>1, <1>2, IdleType, HousedMoves DEF Bounds
  <1>3. CASE call'[j] # Idle
    <2>1. GoesTo(j, "commit") /\ Kept(j) /\ ~TooMany(j)
      BY <1>3, CountOnly DEF Typed
    <2>2. Bounds \in [Requests -> SUBSET Ids] /\ Bounds' = Bounds /\ Bounds = [Bounds EXCEPT ![j] = {}]
      BY <1>1, <2>1, BoundsOnly DEF Typed, Bounds, GoesTo
    <2>3. entries \in SUBSET Ids /\ After(j) \in SUBSET Ids /\ call[j].make \in SUBSET After(j)
      BY DEF Typed, TypeOK, Call, After
    <2>4. Cardinality(After(j)) <= Cap
      BY <2>1, <2>3, Counted, JourneyAssumption DEF Typed, TooMany
    <2>5. Cardinality(call[j].make) <= Cap
      BY <2>3, <2>4, PartFits DEF Typed
    <2>6. Cardinality({}) <= Cap
      BY FS_EmptySet, JourneyAssumption
    <2>7. Houses(entries, Bounds)
      BY DEF Housed
    <2>8. After(j) \cup {} = After(j)
      OBVIOUS
    <2>9. Houses(After(j), [Bounds EXCEPT ![j] = {}])
      BY <2>2, <2>3, <2>4, <2>6, <2>7, <2>8, RoomHoused DEF Typed
    <2>10. ASSUME NEW h \in Requests, call'[h].stage = "commit", ~gone'
           PROVE  Houses(After(h)', Bounds') /\ Cardinality(call'[h].make) <= Cap
      <3>1. CASE h = j
        BY <1>1, <2>1, <2>2, <2>5, <2>9, <3>1 DEF Kept, After
      <3>2. CASE h # j
        BY <1>1, <2>2, <2>10, <3>2 DEF Only, Housed, After
      <3> QED
        BY <3>1, <3>2
    <2> QED
      BY <1>1, <2>2, <2>7, <2>10 DEF Housed
  <1> QED
    BY <1>2, <1>3

LEMMA HousedCommit ==
  ASSUME Typed, Housed, NEW j \in Requests, Commit(j)
  PROVE  Housed'
  <1>1. Only(j) /\ call[j].stage = "commit" /\ call'[j].stage \in {"idle", "purge"} /\ gone' = gone
    BY CommitOnly, IdleType DEF Typed, GoesTo
  <1>2. CASE gone
    <2>1. entries' = entries
      BY <1>2, CommitOnly DEF Typed
    <2> QED
      BY <1>1, <2>1, HousedMoves DEF Bounds
  <1>3. CASE ~gone
    <2>1. entries' = After(j)
      BY <1>3, CommitOnly DEF Typed
    <2>2. Bounds' = Bounds
      BY <1>1 DEF Only, Bounds
    <2>3. \A h \in Requests : call'[h].stage # "commit"
      <3>1. \A h \in Requests \ {j} : call[h].stage # "commit"
        BY <1>1, TypeRows DEF Typed, Held
      <3> QED
        BY <1>1, <3>1 DEF Only
    <2> QED
      BY <1>1, <1>3, <2>1, <2>2, <2>3 DEF Housed
  <1> QED
    BY <1>2, <1>3

\* An upload or an import has found room.
LEMMA HousedRoom ==
  ASSUME Typed, Housed, NEW j \in Requests, Room(j) \/ LookImport(j)
  PROVE  Housed'
  <1>1. Only(j) /\ UNCHANGED <<entries, gone>> /\ call[j].stage \in {"room", "look"}
    BY RoomOnly, LookImportOnly DEF Typed, Steady
  <1>2. CASE call'[j] = Idle
    BY <1>1, <1>2, IdleType, HousedMoves DEF Bounds
  <1>3. CASE call'[j] # Idle
    <2> DEFINE D == call'[j].put
    <2>1. call'[j].stage \in {"store", "write"} /\ Cardinality(entries \cup D) <= Cap
      BY <1>3, RoomFits
    <2>2. D \in SUBSET Ids /\ Bounds'[j] = D
      BY <1>1, <2>1 DEF Only, Call, Bounds
    <2> HIDE DEF D
    <2>3. Bounds \in [Requests -> SUBSET Ids] /\ Bounds' = [Bounds EXCEPT ![j] = D]
      BY <1>1, <2>2, BoundsOnly DEF Typed
    <2>4. entries \in SUBSET Ids /\ Houses(entries, Bounds)
      BY DEF Typed, TypeOK, Housed
    <2>5. ASSUME NEW M \in SUBSET Ids, NEW b \in Requests, M = {} \/ (b # j /\ Bounds[b] = {}),
                 Cardinality(M) <= Cap, NEW T \in SUBSET (entries \cup M)
          PROVE  Houses(T, Bounds')
      <3>1. Houses(T, [Bounds EXCEPT ![j] = D])
        <4>1. TypeOK /\ Bounds \in [Requests -> SUBSET Ids] /\ entries \in SUBSET Ids /\ D \in SUBSET Ids
          BY <2>2, <2>3, <2>4 DEF Typed
        <4>2. Houses(entries, Bounds) /\ Cardinality(entries \cup D) <= Cap
          BY <2>1, <2>4
        <4> QED
          BY <4>1, <4>2, <2>5, RoomHoused
      <3> QED
        BY <2>3, <3>1
    <2>6. Cardinality({}) <= Cap /\ {} \in SUBSET Ids /\ entries \in SUBSET (entries \cup {})
      BY FS_EmptySet, JourneyAssumption
    <2>7. Houses(entries, Bounds')
      BY <2>5, <2>6
    <2>8. ASSUME NEW h \in Requests, call'[h].stage = "commit", ~gone'
          PROVE  Houses(After(h)', Bounds') /\ Cardinality(call'[h].make) <= Cap
      <3>1. h # j /\ call'[h] = call[h] /\ After(h)' = After(h) /\ ~gone
        BY <1>1, <2>1, <2>8 DEF Only, After
      <3>2. Cardinality(call[h].make) <= Cap /\ Bounds[h] = {}
        BY <2>8, <3>1 DEF Housed, Bounds
      <3>3. call[h].make \in SUBSET Ids /\ After(h) \in SUBSET (entries \cup call[h].make)
        BY DEF Typed, TypeOK, Call, After
      <3>4. Houses(After(h), Bounds')
        BY <2>5, <3>1, <3>2, <3>3
      <3> QED
        BY <3>1, <3>2, <3>4
    <2> QED
      BY <1>1, <2>7, <2>8 DEF Housed
  <1> QED
    BY <1>2, <1>3

LEMMA HousedWrite ==
  ASSUME Typed, Housed, NEW j \in Requests, Write(j)
  PROVE  Housed'
  <1> DEFINE put == call[j].put
  <1>1. /\ Only(j) /\ call[j].stage = "write" /\ call'[j].stage = "idle" /\ gone' = gone
        /\ entries' = entries \cup put
    BY WriteOnly, IdleType DEF Typed
  <1>2. /\ Bounds \in [Requests -> SUBSET Ids] /\ Bounds[j] = put
        /\ Bounds' \in [Requests -> SUBSET Ids] /\ Bounds' = [Bounds EXCEPT ![j] = {}]
    <2>1. Bounds[j] = put /\ Bounds'[j] = {}
      BY <1>1 DEF Bounds
    <2> QED
      BY <1>1, <2>1, BoundsOnly DEF Typed
  <1>3. entries \in SUBSET Ids /\ put \in SUBSET Ids /\ \A h \in Requests : After(h) \in SUBSET Ids
    BY DEF Typed, TypeOK, Call, After
  <1> HIDE DEF put
  <1>4. Houses(entries', Bounds')
    <2>1. Houses(entries, Bounds)
      BY DEF Housed
    <2> QED
      BY <1>1, <1>2, <1>3, <2>1, WrittenHoused DEF Typed
  <1>5. ASSUME NEW h \in Requests, call'[h].stage = "commit", ~gone'
        PROVE  Houses(After(h)', Bounds') /\ Cardinality(call'[h].make) <= Cap
    <2>1. call'[h] = call[h] /\ ~gone
      BY <1>1, <1>5 DEF Only
    <2>2. Houses(After(h), Bounds) /\ Cardinality(call[h].make) <= Cap
      BY <1>5, <2>1 DEF Housed
    <2>3. Houses(After(h) \cup put, Bounds')
      BY <1>2, <1>3, <2>2, WrittenHoused DEF Typed
    <2>4. After(h)' \in SUBSET (After(h) \cup put) /\ After(h) \cup put \in SUBSET Ids
      BY <1>1, <1>3, <2>1 DEF After
    <2>5. Houses(After(h)', Bounds')
      BY <1>2, <2>3, <2>4, PartHoused DEF Typed
    <2> QED
      BY <2>1, <2>2, <2>5
  <1> QED
    BY <1>4, <1>5 DEF Housed

LEMMA HousedDeleteScout ==
  ASSUME Typed, Housed, DeleteScout
  PROVE  Housed'
  <1>1. entries' = {} /\ gone' = TRUE /\ Bounds' = Bounds
    BY DEF DeleteScout, Bounds
  <1>2. Houses(entries, Bounds) /\ entries \in SUBSET Ids /\ {} \in SUBSET entries
    BY DEF Typed, TypeOK, Housed
  <1>3. Houses({}, Bounds)
    BY <1>2, BoundsType, PartHoused DEF Typed
  <1> QED
    BY <1>1, <1>3 DEF Housed

LEMMA InitHoused ==
  ASSUME Init
  PROVE  Housed
  <1>1. entries = {} /\ \A j \in Requests : call[j].stage = "idle" /\ Bounds[j] = {}
    BY IdleType DEF Init, Bounds
  <1>2. Cardinality({}) <= Cap
    BY FS_EmptySet, JourneyAssumption
  <1> DEFINE g == [i \in {} |-> CHOOSE j \in Requests : TRUE]
  <1>3. g \in [entries -> Requests]
    BY <1>1
  <1>4. \A j \in Requests : Share(entries, g, j) \cup Bounds[j] = {}
    BY <1>1 DEF Share
  <1> QED
    BY <1>1, <1>2, <1>3, <1>4 DEF Housed, Houses

LEMMA StepHoused ==
  ASSUME Typed, Housed, [Next]_vars
  PROVE  Housed'
  <1>1. CASE UNCHANGED vars
    <2>1. UNCHANGED <<entries, gone, call>> /\ Bounds' = Bounds /\ \A j \in Requests : After(j)' = After(j)
      BY <1>1 DEF vars, Bounds, After
    <2> QED
      BY <2>1 DEF Housed
  <1>2. ASSUME NEW j \in Requests, Only(j), UNCHANGED <<entries, gone>>,
               call'[j].stage \notin {"commit", "store", "write"}
        PROVE  Housed'
    BY <1>2, HousedMoves DEF Bounds
  <1>3. ASSUME NEW j \in Requests, Starts(j)
        PROVE  Housed'
    BY <1>2, <1>3, StartsOnly DEF Typed, BeginsWith
  <1>4. ASSUME NEW j \in Requests, Lock(j) \/ Check(j) \/ Find(j) \/ Delete(j) \/ Put(j)
        PROVE  Housed'
    BY <1>2, <1>4, CheckOnly, FindOnly, DeleteOnly, PutOnly, IdleType DEF Typed, GoesTo, Steady
  <1>5. ASSUME NEW j \in Requests, Look(j) \/ Purge(j) \/ Breaks(j) \/ Dies(j)
        PROVE  Housed'
    BY <1>2, <1>5, LookOnly, PurgeOnly, BreaksOnly, DiesOnly, IdleType DEF Typed, GoesTo, Steady
  <1>6. ASSUME NEW j \in Requests, Store(j)
        PROVE  Housed'
    <2>1. /\ Only(j) /\ UNCHANGED <<entries, gone>> /\ call[j].stage = "store"
          /\ call'[j].stage \in {"store", "write"} /\ call'[j].put = call[j].put
      BY <1>6, StoreOnly DEF Typed, GoesTo
    <2> QED
      BY <2>1, HousedMoves DEF Bounds
  <1> QED
    BY <1>1, <1>3, <1>4, <1>5, <1>6, HousedCounts, HousedRoom, HousedCommit, HousedWrite,
       HousedDeleteScout DEF Next, Steps

\* Whatever files, uploads and batches overlap, fail and are retried, the trail
\* holds at most MAX_ENTRIES_PER_SCOUT entries for each request that
\* addPhotoEntry, importTrail and applyEntries handle at the same time, however
\* many calls there have been.
THEOREM OverrunBounded == Spec => []Overrun
  <1>1. Init => Typed /\ Housed
    BY InitTyped, InitHoused
  <1>2. Typed /\ Housed /\ [Next]_vars => (Typed /\ Housed)'
    BY StepTyped, StepHoused
  <1>3. Typed /\ Housed => Overrun
    BY BoundsType, HousedCount DEF Typed, Housed
  <1> QED
    BY <1>1, <1>2, <1>3, PTL DEF Spec
=============================================================================
