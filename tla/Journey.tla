------------------------------ MODULE Journey ------------------------------
(***************************************************************************)
(* The entries of one scout's trail (src/src/lib/journey/entries.ts): the  *)
(* rows, the photo files they point at, and the calls that change them.  A *)
(* batch of edits runs in a transaction under the trail's advisory lock; a *)
(* photo upload and an import (trail-file.ts) take neither, and store the  *)
(* file before they write the row.  A device sends a call again when it    *)
(* hears nothing.  A statement that fails has changed nothing.             *)
(***************************************************************************)
EXTENDS Integers, FiniteSets

CONSTANTS
    Ids,         \* the ids devices give their entries
    Keys,        \* the keys of photo files
    Requests,    \* requests handled at the same time
    Cap,         \* MAX_ENTRIES_PER_SCOUT, also the most entries of a trail file
    MaxChanges,  \* MAX_ENTRY_CHANGES: the most that a batch puts, or removes
    NoKey,       \* stands for no photo
    Nobody,      \* stands for no request
    MaxCalls,    \* bound: calls
    MaxMishaps   \* bound: calls that die or break off, files that are not deleted

ASSUME JourneyAssumption ==
    /\ IsFiniteSet(Ids) /\ IsFiniteSet(Requests)
    /\ NoKey \notin Keys /\ Nobody \notin Requests
    /\ Cap \in Nat \ {0} /\ MaxChanges \in Nat /\ MaxCalls \in Nat /\ MaxMishaps \in Nat

VARIABLES
    entries,  \* the trail's entries, by id
    file,     \* the photo each points at
    by,       \* whose entry it is
    stored,   \* the files in storage
    used,     \* keys drawn so far
    gone,     \* the trail was deleted
    lock,     \* the request that holds the trail's lock
    call,     \* what each request is doing
    late,     \* history: the entries that uploads and imports made beside other calls
    alone,    \* history: no two calls have been under way at once
    met,      \* history: requests whose call has been under way beside another
    calls,    \* calls so far
    mishaps   \* calls that died or broke off, files that were not deleted

rows == <<entries, file, by, late>>
vars == <<entries, file, by, late, stored, used, gone, lock, call, alone, met, calls, mishaps>>

Roles  == {"parent", "scout"}
Stages == {"idle", "lock", "check", "find", "delete", "put", "count", "commit", "purge",
           "look", "room", "store", "write"}

\* import: the call imports a trail file; put, drop: the entries a call puts
\* and removes; bare: those whose photo is still to store; key: the photos it
\* has stored; make, del: rows the batch's transaction has made and deleted;
\* dead: files to delete.
Call == [stage : Stages, who : Roles, import : BOOLEAN, put : SUBSET Ids, drop : SUBSET Ids,
         bare : SUBSET Ids, key : [Ids -> Keys \cup {NoKey}],
         make : SUBSET Ids, del : SUBSET Ids, dead : SUBSET Keys]
Idle == [stage |-> "idle", who |-> "parent", import |-> FALSE, put |-> {}, drop |-> {},
         bare |-> {}, key |-> [i \in Ids |-> NoKey], make |-> {}, del |-> {}, dead |-> {}]

TypeOK ==
    /\ entries \subseteq Ids /\ file \in [Ids -> Keys \cup {NoKey}] /\ by \in [Ids -> Roles]
    /\ late \subseteq entries /\ stored \subseteq used /\ used \subseteq Keys /\ gone \in BOOLEAN
    /\ lock \in Requests \cup {Nobody} /\ call \in [Requests -> Call]
    /\ \A j \in Requests : lock = j <=>
         call[j].stage \in {"check", "find", "delete", "put", "count", "commit"}
    /\ alone \in BOOLEAN /\ met \subseteq Requests /\ calls \in Nat /\ mishaps \in Nat

Init ==
    /\ entries = {} /\ file = [i \in Ids |-> NoKey] /\ by = [i \in Ids |-> "parent"]
    /\ late = {} /\ stored = {} /\ used = {} /\ gone = FALSE /\ lock = Nobody
    /\ call = [j \in Requests |-> Idle] /\ alone = TRUE /\ met = {} /\ calls = 0 /\ mishaps = 0

-----------------------------------------------------------------------------
Busy == {j \in Requests : call[j].stage # "idle"}

Begins(j, work) ==
    /\ call[j] = Idle /\ ~gone
    /\ calls < MaxCalls /\ calls' = calls + 1
    /\ alone' = (alone /\ Busy = {})
    /\ met' = IF Busy = {} THEN met \ {j} ELSE met \cup Busy \cup {j}
    /\ call' = [call EXCEPT ![j] = work]
    /\ UNCHANGED <<stored, used, gone, lock, mishaps>> /\ UNCHANGED rows

Goes(j, stage) == call' = [call EXCEPT ![j].stage = stage]
Ends(j) == call' = [call EXCEPT ![j] = Idle]

\* Fault: a refused batch keeps the lock.
Refused(j) == Ends(j) /\ UNCHANGED lock

\* The transaction is undone, and its lock released.
Fails(j) == Ends(j) /\ lock' = Nobody

\* A scout's device may change its own entries only.
Own(j, i) == call[j].who = "parent" \/ by[i] = "scout"

-----------------------------------------------------------------------------
\* applyEntries: entries put, entries removed, or both.
Batch(j, who, put, drop) ==
    /\ put \cup drop # {} /\ Cardinality(put) <= MaxChanges /\ Cardinality(drop) <= MaxChanges
    /\ Begins(j, [Idle EXCEPT !.stage = "lock", !.who = who, !.put = put, !.drop = drop])

Lock(j) ==
    /\ call[j].stage = "lock" /\ lock = Nobody
    /\ IF gone THEN Ends(j) /\ UNCHANGED lock ELSE Goes(j, "check") /\ lock' = j
    /\ UNCHANGED <<stored, used, gone, alone, met, calls, mishaps>> /\ UNCHANGED rows

\* Somebody else's entry among those put: the whole batch is refused.
Check(j) ==
    /\ call[j].stage = "check"
    /\ IF \E i \in call[j].put \cap entries : ~Own(j, i) THEN Fails(j)
       ELSE Goes(j, "find") /\ UNCHANGED lock
    /\ UNCHANGED <<stored, used, gone, alone, met, calls, mishaps>> /\ UNCHANGED rows

\* The entries that the batch removes, as the tables stand.
Removed(j) == {i \in call[j].drop \cap entries : Own(j, i)}

\* Fault: the removed entries' photos are not noted.
NoPhotos(j) == {}

Photos(j) == {file[i] : i \in Removed(j)} \ {NoKey}

Find(j) ==
    /\ call[j].stage = "find"
    /\ call' = [call EXCEPT ![j].stage = "delete", ![j].dead = Photos(j)]
    /\ UNCHANGED <<stored, used, gone, lock, alone, met, calls, mishaps>> /\ UNCHANGED rows

Delete(j) ==
    /\ call[j].stage = "delete"
    /\ call' = [call EXCEPT ![j].stage = "put", ![j].del = Removed(j)]
    /\ UNCHANGED <<stored, used, gone, lock, alone, met, calls, mishaps>> /\ UNCHANGED rows

\* The upserts: an entry that is there keeps its photo and its owner.
Put(j) ==
    /\ call[j].stage = "put"
    /\ call' = [call EXCEPT ![j].stage = "count",
                            ![j].make = call[j].put \ (entries \ call[j].del)]
    /\ UNCHANGED <<stored, used, gone, lock, alone, met, calls, mishaps>> /\ UNCHANGED rows

After(j) == (entries \ call[j].del) \cup call[j].make

\* Fault: a batch is not counted.
Uncounted(j) == FALSE

TooMany(j) == Cardinality(After(j)) > Cap

Count(j) ==
    /\ call[j].stage = "count"
    /\ IF TooMany(j) THEN Fails(j) ELSE Goes(j, "commit") /\ UNCHANGED lock
    /\ UNCHANGED <<stored, used, gone, alone, met, calls, mishaps>> /\ UNCHANGED rows

\* The trail's row, updated in the same transaction, is gone: all is undone.
Commit(j) ==
    /\ call[j].stage = "commit"
    /\ lock' = Nobody
    /\ IF gone THEN Ends(j) /\ UNCHANGED rows
       ELSE /\ entries' = After(j)
            /\ file' = [i \in Ids |-> IF i \in call[j].del \cup call[j].make THEN NoKey ELSE file[i]]
            /\ by' = [i \in Ids |-> IF i \in call[j].make THEN call[j].who
                                    ELSE IF i \in call[j].del THEN "parent" ELSE by[i]]
            /\ late' = late \ call[j].del
            /\ Goes(j, "purge")
    /\ UNCHANGED <<stored, used, gone, alone, met, calls, mishaps>>

\* The files to delete; one that cannot be is left, and the error swallowed.
Purge(j) ==
    /\ call[j].stage = "purge"
    /\ \E left \in SUBSET call[j].dead :
        /\ left # {} => mishaps < MaxMishaps
        /\ mishaps' = IF left = {} THEN mishaps ELSE mishaps + 1
        /\ stored' = stored \ (call[j].dead \ left)
    /\ Ends(j)
    /\ UNCHANGED <<used, gone, lock, alone, met, calls>> /\ UNCHANGED rows

-----------------------------------------------------------------------------
\* addPhotoEntry.
Upload(j, who, id) ==
    Begins(j, [Idle EXCEPT !.stage = "look", !.who = who, !.put = {id}, !.bare = {id}])

\* importTrail: a whole file of entries, with photos or without.
ImportTrail(j, ids) ==
    /\ Cardinality(ids) <= Cap
    /\ Begins(j, [Idle EXCEPT !.stage = "look", !.import = TRUE, !.put = ids])

\* An entry of somebody else is refused, one with a photo is kept.
Look(j) ==
    /\ call[j].stage = "look" /\ ~call[j].import
    /\ IF \E i \in call[j].put \cap entries : ~Own(j, i) \/ file[i] # NoKey
       THEN Ends(j) ELSE Goes(j, "room")
    /\ UNCHANGED <<stored, used, gone, lock, alone, met, calls, mishaps>> /\ UNCHANGED rows

Room(j) ==
    /\ call[j].stage = "room"
    /\ IF Cardinality(entries) >= Cap THEN Ends(j) ELSE Goes(j, "store")
    /\ UNCHANGED <<stored, used, gone, lock, alone, met, calls, mishaps>> /\ UNCHANGED rows

\* The import takes the entries that are not there yet, and counts them once for
\* the whole file, without the lock; some of them have photos.
LookImport(j) ==
    LET fresh == call[j].put \ entries IN
    /\ call[j].stage = "look" /\ call[j].import
    /\ IF fresh = {} \/ Cardinality(entries) + Cardinality(fresh) > Cap THEN Ends(j)
       ELSE \E photos \in SUBSET fresh :
              call' = [call EXCEPT ![j].put = fresh, ![j].bare = photos,
                                   ![j].stage = IF photos = {} THEN "write" ELSE "store"]
    /\ UNCHANGED <<stored, used, gone, lock, alone, met, calls, mishaps>> /\ UNCHANGED rows

\* Fault: the row is written before the file is stored.
Nothing(k) == {}

FileOf(k) == {k}

\* One photo is stored, under a key drawn for it.
Store(j) ==
    /\ call[j].stage = "store"
    /\ \E i \in call[j].bare, k \in Keys \ used :
        /\ used' = used \cup {k} /\ stored' = stored \cup FileOf(k)
        /\ call' = [call EXCEPT ![j].key[i] = k, ![j].bare = @ \ {i},
                                ![j].stage = IF call[j].bare = {i} THEN "write" ELSE "store"]
    /\ UNCHANGED <<gone, lock, alone, met, calls, mishaps>> /\ UNCHANGED rows

\* A row a transaction has changed is locked until it ends.
Touched(i) == \E j \in Requests :
    /\ call[j].stage \in {"put", "count", "commit"}
    /\ i \in call[j].del \cup call[j].make \/ (call[j].stage # "put" /\ i \in call[j].put)

\* The upload's row, made or replaced.
WriteRow(j) ==
    /\ ~call[j].import
    /\ entries' = entries \cup call[j].put
    /\ file' = [i \in Ids |-> IF i \in call[j].put THEN call[j].key[i] ELSE file[i]]
    /\ by' = [i \in Ids |-> IF i \in call[j].put \ entries THEN call[j].who ELSE by[i]]

\* The import's rows, all those that are not there by now, as the file's roles say.
WriteRows(j) ==
    LET new == call[j].put \ entries IN
    /\ call[j].import
    /\ entries' = entries \cup new
    /\ file' = [i \in Ids |-> IF i \in new THEN call[j].key[i] ELSE file[i]]
    /\ \E role \in [new -> Roles] : by' = [i \in Ids |-> IF i \in new THEN role[i] ELSE by[i]]

Write(j) ==
    /\ call[j].stage = "write" /\ ~gone /\ \A i \in call[j].put : ~Touched(i)
    /\ WriteRow(j) \/ WriteRows(j)
    /\ late' = late \cup (IF j \in met THEN call[j].put \ entries ELSE {})
    /\ Ends(j)
    /\ UNCHANGED <<stored, used, gone, lock, alone, met, calls, mishaps>>

StoredBy(j) == {call[j].key[i] : i \in Ids} \ {NoKey}

\* A photo cannot be stored, or the rows not be written, always so without the
\* trail: the import then deletes the files it has stored.
Breaks(j) ==
    /\ call[j].stage \in {"store", "write"}
    /\ \/ call[j].stage = "write" /\ gone /\ UNCHANGED mishaps
       \/ mishaps < MaxMishaps /\ mishaps' = mishaps + 1
    /\ IF call[j].import /\ StoredBy(j) # {}
       THEN call' = [call EXCEPT ![j] = [Idle EXCEPT !.stage = "purge", !.dead = StoredBy(j)]]
       ELSE Ends(j)
    /\ UNCHANGED <<stored, used, gone, lock, alone, met, calls>> /\ UNCHANGED rows

-----------------------------------------------------------------------------
\* deleteScout: the rows go with the trail, the files stay.
DeleteScout ==
    /\ ~gone /\ \A i \in Ids : ~Touched(i)
    /\ gone' = TRUE /\ entries' = {} /\ late' = {}
    /\ file' = [i \in Ids |-> NoKey] /\ by' = [i \in Ids |-> "parent"]
    /\ UNCHANGED <<stored, used, lock, call, alone, met, calls, mishaps>>

\* The process dies: a transaction is undone, its lock released.
Dies(j) ==
    /\ call[j] # Idle /\ mishaps < MaxMishaps
    /\ mishaps' = mishaps + 1
    /\ lock' = IF lock = j THEN Nobody ELSE lock
    /\ Ends(j)
    /\ UNCHANGED <<stored, used, gone, alone, met, calls>> /\ UNCHANGED rows

-----------------------------------------------------------------------------
Starts(j) ==
    \/ \E who \in Roles, put \in SUBSET Ids, drop \in SUBSET Ids : Batch(j, who, put, drop)
    \/ \E who \in Roles, id \in Ids : Upload(j, who, id)
    \/ \E ids \in SUBSET Ids : ImportTrail(j, ids)

Steps(j) ==
    \/ Lock(j) \/ Check(j) \/ Find(j) \/ Delete(j) \/ Put(j) \/ Count(j) \/ Commit(j) \/ Purge(j)
    \/ Look(j) \/ Room(j) \/ LookImport(j) \/ Store(j) \/ Write(j) \/ Breaks(j)

Next ==
    \/ \E j \in Requests : Starts(j) \/ Steps(j) \/ Dies(j)
    \/ DeleteScout

Spec == Init /\ [][Next]_vars

-----------------------------------------------------------------------------
\* An entry's photo can be read: its file is in storage, whatever batch or
\* upload was retried or died half way (put before the row, del after the
\* commit).
PhotoReadable == \A i \in entries : file[i] # NoKey => file[i] \in stored

\* Uploads and imports count the entries without the lock, an import once for a
\* whole file.  So the limit can be passed, but only by entries they made beside
\* another call: the rest keep it, and a batch counts right whatever overlaps.
NearCap == Cardinality(entries \ late) <= Cap

\* How far it can be passed: by one full trail for each further request that
\* addPhotoEntry or importTrail handles at the same time.
Overrun == Cardinality(entries) <= Cardinality(Requests) * Cap

\* While calls come one after the other and nothing fails, every file in
\* storage is some entry's photo: nothing a family removed stays behind.
NoStrays ==
    alone /\ mishaps = 0 /\ ~gone /\ Busy = {} => stored = {file[i] : i \in entries} \ {NoKey}

\* "Already uploaded (a retry): keep the first upload." (addPhotoEntry): an
\* entry's photo is never replaced while the entry stays.
FirstUploadKept == [][\A i \in entries \cap entries' :
    file[i] # NoKey => file'[i] \in {file[i], NoKey}]_vars
=============================================================================
