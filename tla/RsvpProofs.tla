----------------------------- MODULE RsvpProofs -----------------------------
(***************************************************************************)
(* Rsvp, for any people, headcount, guests and number of requests: the     *)
(* fields keep their types, counted answers never pass the headcount by    *)
(* more than negative guests gave back, a member's one standing charge     *)
(* follows the final answer, and one kind of overlap and one kind of       *)
(* number are the only ways past the headcount.                            *)
(***************************************************************************)
EXTENDS Rsvp, FiniteSetTheorems, TLAPS

\* What settlements under their advisory locks keep.
Posting(h) == pc[h] = "post"

Ledger ==
    /\ OneCharge
    /\ \A p \in People : 0 \notin standing[p]
    /\ \A g, h \in Handlers : Posting(g) /\ Posting(h) /\ job[g].who = job[h].who => g = h
    /\ \A h \in Handlers : Posting(h) /\ job[h].charge = 0 => standing[job[h].who] = {}

Books == TypeOK /\ Ledger

\* A step of h leaves the event and the other requests alone.
Only(h) ==
    /\ UNCHANGED eventVars
    /\ pc' \in [Handlers -> Stages] /\ job' \in [Handlers -> Job]
    /\ \A g \in Handlers \ {h} : pc'[g] = pc[g] /\ job'[g] = job[g]

LEMMA GuestsType == Guests \subseteq Int /\ 0 \in Guests /\ \A via \in Ways : Brings(via) \subseteq Guests
  <1>1. \A g \in Typed : g \in Int /\ -MaxTyped <= g /\ g <= MaxTyped
    BY RsvpAssumption
  <1>2. \A g \in 0 .. MaxGuests : g \in Int
    BY RsvpAssumption
  <1>3. 0 \in 0 .. MaxGuests
    BY RsvpAssumption
  <1> QED
    BY <1>1, <1>2, <1>3 DEF Guests, Brings

LEMMA NoJobType == NoJob \in Job
  BY GuestsType, RsvpAssumption DEF NoJob, Job, Ways, Responses

\* Of a set with at most one number, the newest is that number.
LEMMA NewestOfOne ==
  ASSUME NEW S, S \subseteq Nat, \A c, d \in S : c = d
  PROVE  Newest(S) \in Nat /\ (S # {} => S = {Newest(S)})
  <1>1. CASE S = {}
    BY <1>1 DEF Newest
  <1>2. CASE S # {}
    <2>1. PICK c \in S : TRUE
      BY <1>2
    <2>2. S = {c} /\ c \in Nat
      BY <2>1
    <2>3. \A d \in S : d <= c
      BY <2>2
    <2>4. Newest(S) \in S
      BY <1>2, <2>1, <2>3 DEF Newest
    <2> QED
      BY <2>2, <2>4
  <1> QED
    BY <1>1, <1>2

LEMMA ReadsOnly ==
  ASSUME TypeOK, NEW h \in Handlers, NEW stage \in Stages, NEW j \in Job, Reads(h, stage, j),
         UNCHANGED eventVars
  PROVE  Only(h) /\ pc'[h] = stage /\ job'[h] = j
  BY DEF Reads, Goes, Only, TypeOK

LEMMA EndsOnly ==
  ASSUME TypeOK, NEW h \in Handlers, Ends(h), UNCHANGED eventVars
  PROVE  Only(h) /\ pc'[h] = "idle" /\ job'[h] = NoJob
  BY NoJobType DEF Ends, Goes, Only, TypeOK, Stages

LEMMA GoesOnly ==
  ASSUME TypeOK, NEW h \in Handlers, NEW stage \in Stages, Goes(h, stage), UNCHANGED job,
         UNCHANGED eventVars
  PROVE  Only(h) /\ pc'[h] = stage /\ job'[h] = job[h]
  BY DEF Goes, Only, TypeOK

LEMMA FoundType ==
  ASSUME TypeOK, NEW j \in Job, NEW hit \in BOOLEAN
  PROVE  /\ Found(j, hit) \in Job
         /\ Found(j, hit).who = j.who /\ Found(j, hit).via = j.via
         /\ Found(j, hit).resp = j.resp /\ Found(j, hit).found = hit
  <1>1. rows[j.who].guests \in Guests
    BY DEF TypeOK, Row, Job
  <1>2. 0 \in Guests
    BY GuestsType
  <1>3. (IF ~j.kept THEN j.guests ELSE IF hit THEN rows[j.who].guests ELSE 0) \in Guests
    BY <1>1, <1>2 DEF Job
  <1> QED
    BY <1>3 DEF Found, Job

-----------------------------------------------------------------------------
(* What the rows r take for the people P. *)

SpotsIn(r, P) == {s \in P \X (0 .. Span) : r[s[1]].resp = "yes" /\ s[2] <= r[s[1]].guests}
OwedIn(r, P)  == {s \in P \X (1 .. Span) : r[s[1]].resp = "yes" /\ s[2] <= -(1 + r[s[1]].guests)}
TakenIn(r, P) == Cardinality(SpotsIn(r, P)) - Cardinality(OwedIn(r, P))

LEMMA TakenIs == \A P : Taken(P) = TakenIn(rows, P) /\ Owed(P) = OwedIn(rows, P)
  BY DEF Taken, Spots, Owed, TakenIn, SpotsIn, OwedIn

LEMMA SpotsFinite ==
  ASSUME NEW r, NEW P, P \subseteq People
  PROVE  /\ IsFiniteSet(SpotsIn(r, P)) /\ Cardinality(SpotsIn(r, P)) \in Nat
         /\ IsFiniteSet(OwedIn(r, P)) /\ Cardinality(OwedIn(r, P)) \in Nat
         /\ TakenIn(r, P) \in Int
  <1>1. IsFiniteSet(P)
    BY RsvpAssumption, FS_Subset
  <1>2. Span \in Nat
    BY RsvpAssumption DEF Span
  <1>3. IsFiniteSet(0 .. Span) /\ IsFiniteSet(1 .. Span)
    BY <1>2, FS_Interval
  <1>4. IsFiniteSet(P \X (0 .. Span)) /\ IsFiniteSet(P \X (1 .. Span))
    BY <1>1, <1>3, FS_Product
  <1>5. /\ SpotsIn(r, P) \in SUBSET (P \X (0 .. Span))
        /\ OwedIn(r, P) \in SUBSET (P \X (1 .. Span))
    BY DEF SpotsIn, OwedIn
  <1>6. IsFiniteSet(SpotsIn(r, P)) /\ IsFiniteSet(OwedIn(r, P))
    BY <1>4, <1>5, FS_Subset
  <1> QED
    BY <1>6, FS_CardinalityType DEF TakenIn

-----------------------------------------------------------------------------
(* The requests that only read, each described by where it goes. *)

LEMMA AnswerOnly ==
  ASSUME TypeOK, NEW h \in Handlers, NEW p \in People, NEW via \in Ways,
         NEW resp \in Responses, NEW g \in Brings(via), NEW kept \in BOOLEAN,
         Answer(h, p, via, resp, g, kept)
  PROVE  /\ Only(h) /\ pc[h] = "idle" /\ asked' \in Nat
         /\ pc'[h] \in {"find", "claim"}
         /\ job'[h].via = "guest" => pc'[h] = "claim" /\ ~job'[h].found
         /\ UNCHANGED <<rows, standing, astray, swollen, slack, entries>>
  <1> DEFINE j == [NoJob EXCEPT !.who = p, !.via = via, !.resp = resp, !.guests = g, !.kept = kept]
  <1>1. j \in Job /\ j.via = via /\ j.found = FALSE
    BY GuestsType DEF NoJob, Job, Ways, Responses
  <1>2. Reads(h, IF via = "guest" THEN "claim" ELSE "find", j) /\ UNCHANGED eventVars
    BY DEF Answer, countVars
  <1> HIDE DEF j
  <1>3. Only(h) /\ pc'[h] = (IF via = "guest" THEN "claim" ELSE "find") /\ job'[h] = j
    BY <1>1, <1>2, ReadsOnly DEF Stages
  <1> QED
    BY <1>1, <1>3 DEF Answer, countVars, TypeOK

LEMMA FindOnly ==
  ASSUME TypeOK, NEW h \in Handlers, Find(h)
  PROVE  /\ Only(h) /\ pc[h] = "find" /\ pc'[h] \in {"adopt", "claim"}
         /\ job'[h].via = job[h].via
         /\ UNCHANGED <<rows, standing, astray, swollen, slack, entries, asked>>
  <1> DEFINE j == job[h]
             hit == IF j.via = "link" THEN rows[j.who].resp # "none" ELSE rows[j.who].owned
  <1>1. j \in Job /\ hit \in BOOLEAN
    BY DEF TypeOK, Job, Row
  <1>2. Found(j, hit) \in Job /\ Found(j, hit).via = j.via
    BY <1>1, FoundType
  <1>3. /\ Reads(h, IF j.via = "api" /\ ~hit THEN "adopt" ELSE "claim", Found(j, hit))
        /\ UNCHANGED eventVars
    BY DEF Find, countVars
  <1> HIDE DEF hit, j
  <1>4. /\ Only(h) /\ job'[h] = Found(j, hit)
        /\ pc'[h] = IF j.via = "api" /\ ~hit THEN "adopt" ELSE "claim"
    BY <1>2, <1>3, ReadsOnly DEF Stages
  <1> QED
    BY <1>2, <1>4 DEF Find, countVars, j

LEMMA AdoptOnly ==
  ASSUME TypeOK, NEW h \in Handlers, Adopt(h)
  PROVE  /\ Only(h) /\ pc[h] = "adopt" /\ pc'[h] = "claim"
         /\ job'[h].via = job[h].via
         /\ UNCHANGED <<rows, standing, astray, swollen, slack, entries, asked>>
  <1> DEFINE j == job[h]
             hit == rows[j.who].resp # "none" /\ ~rows[j.who].owned
  <1>1. j \in Job /\ hit \in BOOLEAN
    BY DEF TypeOK
  <1>2. Found(j, hit) \in Job /\ Found(j, hit).via = j.via
    BY <1>1, FoundType
  <1>3. Reads(h, "claim", Found(j, hit)) /\ UNCHANGED eventVars
    BY DEF Adopt, countVars
  <1> HIDE DEF hit, j
  <1>4. Only(h) /\ job'[h] = Found(j, hit) /\ pc'[h] = "claim"
    BY <1>2, <1>3, ReadsOnly DEF Stages
  <1> QED
    BY <1>2, <1>4 DEF Adopt, countVars, j

LEMMA ClaimOnly ==
  ASSUME TypeOK, NEW h \in Handlers, Claim(h)
  PROVE  /\ Only(h) /\ pc[h] = "claim"
         /\ \/ pc'[h] = "idle" /\ job'[h] = NoJob
            \/ /\ pc'[h] = "write" /\ job'[h] = job[h]
               /\ job[h].resp = "yes" => EventFree(h) /\ Fits(job[h])
         /\ UNCHANGED <<rows, standing, astray, swollen, slack, entries, asked>>
  <1>1. CASE Ends(h)
    BY <1>1, EndsOnly DEF Claim, countVars
  <1>2. CASE Goes(h, "write") /\ UNCHANGED job /\ ~(job[h].resp = "yes" /\ ~Fits(job[h]))
    BY <1>2, GoesOnly DEF Claim, countVars, Stages
  <1> QED
    BY <1>1, <1>2 DEF Claim, countVars

LEMMA FailOnly ==
  ASSUME TypeOK, NEW h \in Handlers, Fail(h)
  PROVE  /\ Only(h) /\ pc'[h] = "idle" /\ job'[h] = NoJob
         /\ astray' = IF pc[h] \in {"settle", "post"} THEN astray \cup {job[h].who} ELSE astray
         /\ UNCHANGED <<rows, standing, swollen, slack, entries, asked>>
  BY EndsOnly DEF Fail, countVars

LEMMA WrittenType ==
  ASSUME TypeOK, NEW j \in Job
  PROVE  /\ Written(j) \in Row /\ Written(j).resp = j.resp
         /\ Written(j).linked = (rows[j.who].linked \/ (j.via # "guest" /\ j.who \in Members))
  <1>1. rows[j.who] \in Row
    BY DEF TypeOK, Job
  <1>2. /\ j.resp \in Responses /\ j.guests \in Guests
        /\ rows[j.who].guests \in Guests
        /\ rows[j.who].owned \in BOOLEAN /\ rows[j.who].linked \in BOOLEAN
    BY <1>1 DEF Job, Row
  <1>3. (IF j.kept /\ j.found THEN rows[j.who].guests ELSE j.guests) \in Guests
    BY <1>2
  <1>4. Written(j).linked = (rows[j.who].linked \/ (j.via # "guest" /\ j.who \in Members))
    BY DEF Written
  <1> QED
    BY <1>2, <1>3, <1>4 DEF Written, Row

LEMMA WriteOnly ==
  ASSUME TypeOK, NEW h \in Handlers, Write(h)
  PROVE  /\ Only(h) /\ pc[h] = "write"
         /\ UNCHANGED <<standing, astray, entries, asked>>
         /\ \/ /\ job[h].found \/ rows[job[h].who].resp = "none"
               /\ rows' = [rows EXCEPT ![job[h].who] = Written(job[h])]
               /\ swollen' = (swollen \/ (job[h].resp = "yes"
                                          /\ Written(job[h]).guests # job[h].guests))
               /\ slack' = slack + IF job[h].resp = "yes" THEN 0
                                   ELSE Cardinality(Owed({job[h].who}))
               /\ IF Settles(job[h])
                  THEN pc'[h] = "settle" /\ job'[h].who = job[h].who /\ job'[h].via = "web"
                  ELSE pc'[h] = "idle"
            \/ /\ pc'[h] = "idle" \/ (pc'[h] = "find" /\ job'[h].via = "api")
               /\ UNCHANGED <<rows, swollen, slack>>
  <1> DEFINE j == job[h]
  <1>1. j \in Job
    BY DEF TypeOK
  <1>2. CASE j.found \/ rows[j.who].resp = "none"
    <2>1. CASE Settles(j)
      <3>1. Reads(h, "settle", Charging(j)) /\ UNCHANGED eventVars
        BY <1>2, <2>1 DEF Write, countVars
      <3>2. /\ Charging(j) \in Job /\ Charging(j).who = j.who /\ Charging(j).via = "web"
        BY <1>1, NoJobType DEF Charging, NoJob, Job
      <3>3. Only(h) /\ pc'[h] = "settle" /\ job'[h] = Charging(j)
        BY <3>1, <3>2, ReadsOnly DEF Stages
      <3> QED
        BY <1>2, <2>1, <3>2, <3>3 DEF Write, countVars
    <2>2. CASE ~Settles(j)
      <3>1. Ends(h) /\ UNCHANGED eventVars
        BY <1>2, <2>2 DEF Write, countVars
      <3>2. Only(h) /\ pc'[h] = "idle"
        BY <3>1, EndsOnly
      <3> QED
        BY <1>2, <2>2, <3>2 DEF Write, countVars
    <2> QED
      BY <2>1, <2>2
  <1>3. CASE ~(j.found \/ rows[j.who].resp = "none")
    <2>1. CASE j.via = "api" /\ ~j.again
      <3> DEFINE k == [j EXCEPT !.again = TRUE]
      <3>1. k \in Job /\ k.via = "api"
        BY <1>1, <2>1 DEF Job
      <3>2. Reads(h, "find", k) /\ UNCHANGED eventVars
        BY <1>3, <2>1 DEF Write, countVars
      <3> HIDE DEF k
      <3>3. Only(h) /\ pc'[h] = "find" /\ job'[h] = k
        BY <3>1, <3>2, ReadsOnly DEF Stages
      <3> QED
        BY <1>3, <3>1, <3>3 DEF Write, countVars
    <2>2. CASE ~(j.via = "api" /\ ~j.again)
      <3>1. Ends(h) /\ UNCHANGED eventVars
        BY <1>3, <2>2 DEF Write, countVars
      <3>2. Only(h) /\ pc'[h] = "idle"
        BY <3>1, EndsOnly
      <3> QED
        BY <1>3, <3>2 DEF Write, countVars
    <2> QED
      BY <2>1, <2>2
  <1> QED
    BY <1>2, <1>3

\* A settlement reads the newest of at most one charge.
LEMMA LookOnly ==
  ASSUME Books, NEW h \in Handlers, Look(h)
  PROVE  /\ Only(h) /\ pc[h] = "settle" /\ pc'[h] = "post" /\ ChargeFree(h)
         /\ job'[h].who = job[h].who /\ job'[h].going = Going(job[h])
         /\ job'[h].charge = Newest(standing[job[h].who])
         /\ astray' = astray \ {job[h].who}
         /\ UNCHANGED <<rows, standing, swollen, slack, entries, asked>>
  <1> DEFINE j == job[h]
             k == [j EXCEPT !.going = Going(j), !.charge = Newest(standing[j.who])]
  <1>1. j \in Job /\ j.who \in People
    BY DEF Books, TypeOK, Job
  <1>2. Newest(standing[j.who]) \in Nat
    <2>1. standing[j.who] \subseteq Nat
      BY <1>1 DEF Books, TypeOK
    <2>2. \A c, d \in standing[j.who] : c = d
      BY <1>1 DEF Books, Ledger, OneCharge
    <2> QED
      BY <2>1, <2>2, NewestOfOne
  <1>3. Going(j) \in BOOLEAN
    BY DEF Going
  <1>4. /\ k \in Job /\ k.who = j.who /\ k.going = Going(j)
        /\ k.charge = Newest(standing[j.who])
    BY <1>1, <1>2, <1>3 DEF Job
  <1>5. Reads(h, "post", k) /\ UNCHANGED eventVars
    BY DEF Look, countVars
  <1> HIDE DEF k
  <1>6. Only(h) /\ pc'[h] = "post" /\ job'[h] = k
    BY <1>4, <1>5, ReadsOnly DEF Stages, Books
  <1> QED
    BY <1>4, <1>6 DEF Look, countVars

LEMMA PostOnly ==
  ASSUME TypeOK, NEW h \in Handlers, Post(h)
  PROVE  /\ Only(h) /\ pc[h] = "post" /\ pc'[h] = "idle" /\ entries' \in Nat
         /\ standing' \in [People -> SUBSET Nat]
         /\ \A p \in People \ {job[h].who} : standing'[p] = standing[p]
         /\ standing'[job[h].who] =
              IF job[h].going
              THEN IF job[h].charge = 0 THEN standing[job[h].who] \cup {entries + 1}
                                        ELSE standing[job[h].who]
              ELSE standing[job[h].who] \ {job[h].charge}
         /\ UNCHANGED <<rows, astray, swollen, slack, asked>>
  <1>1. Only(h) /\ pc[h] = "post" /\ pc'[h] = "idle" /\ UNCHANGED <<rows, astray, swollen, slack, asked>>
    BY EndsOnly DEF Post, countVars
  <1>2. job[h].who \in People /\ standing[job[h].who] \in SUBSET Nat /\ entries \in Nat
    BY DEF TypeOK, Job
  <1>3. CASE job[h].going /\ job[h].charge = 0
    BY <1>1, <1>2, <1>3 DEF Post, countVars, TypeOK
  <1>4. CASE job[h].going /\ job[h].charge # 0
    BY <1>1, <1>2, <1>4 DEF Post, countVars, TypeOK
  <1>5. CASE ~job[h].going
    BY <1>1, <1>2, <1>5 DEF Post, countVars, TypeOK
  <1> QED
    BY <1>3, <1>4, <1>5

-----------------------------------------------------------------------------
(* Types, and the locks of the settlements. *)

LEMMA BooksInit == Init => Books
  <1> SUFFICES ASSUME Init PROVE Books
    OBVIOUS
  <1>1. NoRow \in Row
    BY GuestsType DEF NoRow, Row
  <1>2. TypeOK
    BY <1>1, NoJobType, RsvpAssumption DEF Init, TypeOK, Stages
  <1>3. Ledger
    BY DEF Init, Ledger, OneCharge, Posting
  <1> QED
    BY <1>2, <1>3 DEF Books

\* A step that posts nothing and waits for no lock of a settlement.
LEMMA QuietBooks ==
  ASSUME Books, NEW h \in Handlers, Only(h), pc'[h] # "post", standing' = standing,
         rows' \in [People -> Row], astray' \subseteq People, swollen' \in BOOLEAN, slack' \in Nat,
         entries' \in Nat, asked' \in Nat
  PROVE  Books'
  <1>1. TypeOK'
    BY DEF Books, TypeOK, Only, eventVars
  <1>2. \A g \in Handlers : Posting(g)' => g # h /\ Posting(g) /\ job'[g] = job[g]
    BY DEF Posting, Only
  <1>3. Ledger'
    BY <1>2 DEF Books, Ledger, OneCharge
  <1> QED
    BY <1>1, <1>3 DEF Books

LEMMA WriteBooks ==
  ASSUME Books, NEW h \in Handlers, Write(h)
  PROVE  Books'
  <1>1. job[h] \in Job
    BY DEF Books, TypeOK
  <1>2. Written(job[h]) \in Row
    BY <1>1, WrittenType DEF Books
  <1>3. rows' \in [People -> Row] /\ swollen' \in BOOLEAN /\ slack' \in Nat
    <2>1. Cardinality(Owed({job[h].who})) \in Nat
      BY <1>1, TakenIs, SpotsFinite DEF Job
    <2>2. slack' \in Nat
      BY <2>1, WriteOnly DEF Books, TypeOK
    <2> QED
      BY <1>2, <2>2, WriteOnly DEF Books, TypeOK
  <1>4. /\ Only(h) /\ pc'[h] # "post"
        /\ UNCHANGED <<standing, astray, entries, asked>>
    BY WriteOnly DEF Books
  <1> QED
    BY <1>3, <1>4, QuietBooks DEF Books, TypeOK

LEMMA LookBooks ==
  ASSUME Books, NEW h \in Handlers, Look(h)
  PROVE  Books'
  <1> DEFINE p == job[h].who
  <1>1. /\ Only(h) /\ pc'[h] = "post" /\ ChargeFree(h) /\ job'[h].who = p
        /\ job'[h].charge = Newest(standing[p]) /\ astray' = astray \ {p}
        /\ UNCHANGED <<rows, standing, swollen, slack, entries, asked>>
    BY LookOnly
  <1>2. p \in People
    BY DEF Books, TypeOK, Job
  <1>3. TypeOK'
    BY <1>1 DEF Books, TypeOK, Only, eventVars
  <1>4. \A g \in Handlers \ {h} : Posting(g)' =>
           Posting(g) /\ job'[g] = job[g] /\ job[g].who # p
    BY <1>1 DEF Posting, Only, ChargeFree
  <1>5. Newest(standing[p]) = 0 => standing[p] = {}
    <2>1. standing[p] \subseteq Nat
      BY <1>2 DEF Books, TypeOK
    <2>2. \A c, d \in standing[p] : c = d
      BY <1>2 DEF Books, Ledger, OneCharge
    <2>3. standing[p] # {} => Newest(standing[p]) \in standing[p]
      BY <2>1, <2>2, NewestOfOne
    <2> QED
      BY <1>2, <2>3 DEF Books, Ledger
  <1> HIDE DEF p
  <1>6. OneCharge' /\ \A q \in People : 0 \notin standing'[q]
    BY <1>1 DEF Books, Ledger, OneCharge
  <1>7. \A f, g \in Handlers : Posting(f)' /\ Posting(g)' /\ job'[f].who = job'[g].who => f = g
    BY <1>1, <1>4 DEF Books, Ledger
  <1>8. \A g \in Handlers : Posting(g)' /\ job'[g].charge = 0 => standing'[job'[g].who] = {}
    BY <1>1, <1>4, <1>5 DEF Books, Ledger
  <1> QED
    BY <1>3, <1>6, <1>7, <1>8 DEF Books, Ledger

LEMMA PostBooks ==
  ASSUME Books, NEW h \in Handlers, Post(h)
  PROVE  Books'
  <1> DEFINE p == job[h].who
  <1>1. /\ Only(h) /\ Posting(h) /\ pc'[h] = "idle" /\ entries' \in Nat
        /\ standing' \in [People -> SUBSET Nat]
        /\ \A q \in People \ {p} : standing'[q] = standing[q]
        /\ UNCHANGED <<rows, astray, swollen, slack, asked>>
    BY PostOnly DEF Books, Posting
  <1>2. p \in People /\ entries \in Nat
    BY DEF Books, TypeOK, Job
  <1>3. TypeOK'
    BY <1>1 DEF Books, TypeOK, Only, eventVars
  <1>4. \/ standing[p] = {} /\ standing'[p] \subseteq {entries + 1}
        \/ standing'[p] \subseteq standing[p]
    BY <1>1, PostOnly DEF Books, Ledger
  <1>5. 0 \notin standing'[p] /\ \A c, d \in standing'[p] : c = d
    <2>1. 0 \notin standing[p] /\ \A c, d \in standing[p] : c = d
      BY <1>2 DEF Books, Ledger, OneCharge
    <2> QED
      BY <1>2, <1>4, <2>1
  <1>6. \A g \in Handlers : Posting(g)' =>
           g # h /\ Posting(g) /\ job'[g] = job[g] /\ job[g].who \in People \ {p}
    BY <1>1 DEF Posting, Only, Books, Ledger, TypeOK, Job
  <1> HIDE DEF p
  <1>7. OneCharge' /\ \A q \in People : 0 \notin standing'[q]
    BY <1>1, <1>5 DEF Books, Ledger, OneCharge
  <1>8. \A f, g \in Handlers : Posting(f)' /\ Posting(g)' /\ job'[f].who = job'[g].who => f = g
    BY <1>6 DEF Books, Ledger
  <1>9. \A g \in Handlers : Posting(g)' /\ job'[g].charge = 0 => standing'[job'[g].who] = {}
    BY <1>1, <1>6 DEF Books, Ledger
  <1> QED
    BY <1>3, <1>7, <1>8, <1>9 DEF Books, Ledger

LEMMA WaiveBooks ==
  ASSUME Books, NEW p \in People, Waive(p)
  PROVE  Books'
  <1>1. /\ UNCHANGED <<rows, pc, job, swollen, slack, entries>> /\ UNCHANGED eventVars
        /\ asked' \in Nat /\ astray' \subseteq People
    BY DEF Waive, countVars, Books, TypeOK
  <1>2. standing' \in [People -> SUBSET Nat] /\ \A q \in People : standing'[q] \subseteq standing[q]
    BY DEF Waive, countVars, Books, TypeOK
  <1>3. TypeOK'
    BY <1>1, <1>2 DEF Books, TypeOK, eventVars
  <1>4. \A g \in Handlers : job[g].who \in People
    BY DEF Books, TypeOK, Job
  <1>5. Ledger'
    BY <1>1, <1>2, <1>4 DEF Books, Ledger, OneCharge, Posting
  <1> QED
    BY <1>3, <1>5 DEF Books

LEMMA EditBooks ==
  ASSUME Books, NEW c \in Capacities, EditEvent(c)
  PROVE  Books'
  <1>1. UNCHANGED <<rows, standing, pc, job, astray, swollen, entries>> /\ slack' = 0
    BY DEF EditEvent
  <1>2. Taken(People) \in Int
    BY TakenIs, SpotsFinite
  <1>3. capacity' \in Nat /\ ceiling' \in Nat /\ asked' \in Nat
    BY <1>2, RsvpAssumption DEF EditEvent, Books, TypeOK
  <1>4. TypeOK'
    BY <1>1, <1>3 DEF Books, TypeOK
  <1>5. Ledger'
    BY <1>1 DEF Books, Ledger, OneCharge, Posting
  <1> QED
    BY <1>4, <1>5 DEF Books

LEMMA BooksStep == Books /\ [Next]_vars => Books'
  <1> SUFFICES ASSUME Books, [Next]_vars PROVE Books'
    OBVIOUS
  <1>1. TypeOK
    BY DEF Books
  <1>2. CASE UNCHANGED vars
    <2>1. TypeOK'
      BY <1>1, <1>2 DEF vars, TypeOK
    <2>2. Ledger'
      BY <1>2 DEF vars, Books, Ledger, OneCharge, Posting
    <2> QED
      BY <2>1, <2>2 DEF Books
  <1>3. ASSUME NEW h \in Handlers, NEW p \in People, NEW via \in Ways, NEW resp \in Responses,
               NEW g \in Brings(via), NEW kept \in BOOLEAN, Answer(h, p, via, resp, g, kept)
        PROVE  Books'
    <2>1. /\ Only(h) /\ asked' \in Nat /\ pc'[h] # "post"
          /\ UNCHANGED <<rows, standing, astray, swollen, slack, entries>>
      BY <1>1, <1>3, AnswerOnly
    <2> QED
      BY <1>1, <2>1, QuietBooks DEF TypeOK
  <1>4. ASSUME NEW h \in Handlers, Find(h) \/ Adopt(h)
        PROVE  Books'
    BY <1>1, <1>4, FindOnly, AdoptOnly, QuietBooks DEF TypeOK
  <1>5. ASSUME NEW h \in Handlers, Claim(h)
        PROVE  Books'
    BY <1>1, <1>5, ClaimOnly, QuietBooks DEF TypeOK
  <1>6. ASSUME NEW h \in Handlers, Fail(h)
        PROVE  Books'
    <2>1. astray' \subseteq People
      BY <1>1, <1>6, FailOnly DEF TypeOK, Job
    <2> QED
      BY <1>1, <1>6, <2>1, FailOnly, QuietBooks DEF TypeOK
  <1> QED
    BY <1>2, <1>3, <1>4, <1>5, <1>6, WriteBooks, LookBooks, PostBooks, WaiveBooks, EditBooks
    DEF Next

\* Types: every reachable state of the answers and their charges is well typed.
THEOREM TypeCorrect == Spec => []TypeOK
  <1>1. Books => TypeOK
    BY DEF Books
  <1> QED
    BY BooksInit, BooksStep, <1>1, PTL DEF Spec

\* However settlements overlap, fail or meet a reversal by hand, no two charges
\* of one member stand (pg_advisory_xact_lock in settleEventChargeForRsvp).
THEOREM ChargedOnce == Spec => []OneCharge
  <1>1. Books => OneCharge
    BY DEF Books, Ledger
  <1> QED
    BY BooksInit, BooksStep, <1>1, PTL DEF Spec

-----------------------------------------------------------------------------
(* The headcount. *)

Others(p) == People \ {p}

\* A request that finds its row, or makes the first, can write what it counted.
Writable(h) == job[h].found \/ rows[job[h].who].resp = "none"

\* The locked event has one holder, whose counted answer still fits.
Fitted ==
    /\ TakenIn(rows, People) <= ceiling + slack
    /\ \A h \in Handlers : Holding(h) /\ Writable(h) =>
          TakenIn(rows, Others(job[h].who)) + 1 + job[h].guests <= ceiling + slack

Headcount ==
    /\ \A g, h \in Handlers : Holding(g) /\ Holding(h) => g = h
    /\ capacity <= ceiling
    /\ capacity > 0 /\ ~swollen => Fitted

\* The size of two disjoint parts.
LEMMA SplitSize ==
  ASSUME NEW S, NEW T, IsFiniteSet(S), IsFiniteSet(T)
  PROVE  /\ Cardinality(S \cup T) <= Cardinality(S) + Cardinality(T)
         /\ S \cap T = {} => Cardinality(S \cup T) = Cardinality(S) + Cardinality(T)
  <1>1. S \cap T \in SUBSET S
    OBVIOUS
  <1>2. IsFiniteSet(S \cap T)
    BY <1>1, FS_Subset
  <1>3. /\ Cardinality(S) \in Nat /\ Cardinality(T) \in Nat /\ Cardinality(S \cap T) \in Nat
    BY <1>2, FS_CardinalityType
  <1>4. Cardinality(S \cup T) = Cardinality(S) + Cardinality(T) - Cardinality(S \cap T)
    BY FS_Union
  <1>5. S \cap T = {} => Cardinality(S \cap T) = 0
    BY FS_EmptySet
  <1> QED
    BY <1>3, <1>4, <1>5

\* A person's spots and the others' are all there are.
LEMMA TakenSplit ==
  ASSUME NEW r, NEW p \in People
  PROVE  TakenIn(r, People) = TakenIn(r, Others(p)) + TakenIn(r, {p})
  <1>1. /\ IsFiniteSet(SpotsIn(r, Others(p))) /\ IsFiniteSet(SpotsIn(r, {p}))
        /\ IsFiniteSet(OwedIn(r, Others(p))) /\ IsFiniteSet(OwedIn(r, {p}))
        /\ Cardinality(SpotsIn(r, Others(p))) \in Nat /\ Cardinality(SpotsIn(r, {p})) \in Nat
        /\ Cardinality(OwedIn(r, Others(p))) \in Nat /\ Cardinality(OwedIn(r, {p})) \in Nat
    BY SpotsFinite DEF Others
  <1>2. /\ SpotsIn(r, People) = SpotsIn(r, Others(p)) \cup SpotsIn(r, {p})
        /\ SpotsIn(r, Others(p)) \cap SpotsIn(r, {p}) = {}
    BY DEF SpotsIn, Others
  <1>3. /\ OwedIn(r, People) = OwedIn(r, Others(p)) \cup OwedIn(r, {p})
        /\ OwedIn(r, Others(p)) \cap OwedIn(r, {p}) = {}
    BY DEF OwedIn, Others
  <1>4. Cardinality(SpotsIn(r, People))
          = Cardinality(SpotsIn(r, Others(p))) + Cardinality(SpotsIn(r, {p}))
    BY <1>1, <1>2, SplitSize
  <1>5. Cardinality(OwedIn(r, People))
          = Cardinality(OwedIn(r, Others(p))) + Cardinality(OwedIn(r, {p}))
    BY <1>1, <1>3, SplitSize
  <1> QED
    BY <1>1, <1>4, <1>5 DEF TakenIn

\* The size of one person's places.
LEMMA PlacesOfOne ==
  ASSUME NEW p, NEW m \in Int, NEW n \in Int, m <= n + 1
  PROVE  IsFiniteSet({p} \X (m .. n)) /\ Cardinality({p} \X (m .. n)) = n + 1 - m
  <1>1. IsFiniteSet({p}) /\ Cardinality({p}) = 1
    BY FS_Singleton
  <1>2. IsFiniteSet(m .. n) /\ Cardinality(m .. n) = n + 1 - m
    <2>1. CASE m <= n
      BY <2>1, FS_Interval
    <2>2. CASE m = n + 1
      <3>1. m .. n = {}
        BY <2>2
      <3> QED
        BY <2>2, <3>1, FS_EmptySet
    <2> QED
      BY <2>1, <2>2
  <1> DEFINE k == Cardinality(m .. n)
  <1>3. /\ IsFiniteSet({p} \X (m .. n))
        /\ Cardinality({p} \X (m .. n)) = Cardinality({p}) * k
    BY <1>1, <1>2, FS_Product
  <1>4. k = n + 1 - m /\ k \in Int
    BY <1>2
  <1> HIDE DEF k
  <1>5. 1 * k = k
    BY <1>4
  <1> QED
    BY <1>1, <1>3, <1>4, <1>5

\* One person takes a spot, and one for each guest; fewer than no guests give
\* spots back.
LEMMA TakenOne ==
  ASSUME NEW r, NEW p \in People, r[p].resp = "yes", r[p].guests \in Guests
  PROVE  TakenIn(r, {p}) <= 1 + r[p].guests
  <1> DEFINE g == r[p].guests
             n == -(1 + g)
  <1>1. g \in Int /\ n \in Int /\ n <= Span /\ Span \in Nat
    <2>1. \A k \in Typed : k \in Int /\ -MaxTyped <= k
      BY RsvpAssumption
    <2>2. \A k \in 0 .. MaxGuests : k \in Int /\ 0 <= k
      BY RsvpAssumption
    <2>3. g \in Typed \/ g \in 0 .. MaxGuests
      BY DEF Guests
    <2> HIDE DEF g
    <2>4. g \in Int /\ -MaxTyped <= g
      <3> HIDE DEF n
      <3>1. MaxTyped \in Nat
        BY RsvpAssumption
      <3>2. CASE g \in Typed
        BY <2>1, <3>2
      <3>3. CASE g \in 0 .. MaxGuests
        <4>1. g \in Int /\ 0 <= g
          BY <2>2, <3>3
        <4> QED
          BY <3>1, <4>1
      <3> QED
        BY <2>3, <3>2, <3>3
    <2> QED
      BY <2>4, RsvpAssumption DEF Span
  <1>2. /\ IsFiniteSet(SpotsIn(r, {p})) /\ Cardinality(SpotsIn(r, {p})) \in Nat
        /\ IsFiniteSet(OwedIn(r, {p})) /\ Cardinality(OwedIn(r, {p})) \in Nat
    BY SpotsFinite
  <1>3. SpotsIn(r, {p}) \in SUBSET ({p} \X (0 .. g))
    <2> SUFFICES ASSUME NEW s \in SpotsIn(r, {p}) PROVE s \in {p} \X (0 .. g)
      OBVIOUS
    <2>1. s \in {p} \X (0 .. Span) /\ s[2] <= r[s[1]].guests
      BY DEF SpotsIn
    <2>2. s[1] = p /\ s[2] \in 0 .. g /\ s = <<s[1], s[2]>>
      BY <1>1, <2>1
    <2> QED
      BY <2>2
  <1>4. {p} \X (1 .. n) \in SUBSET OwedIn(r, {p})
    BY <1>1 DEF OwedIn
  <1> HIDE DEF n, g
  <1>5. CASE g >= -1
    <2>1. /\ IsFiniteSet({p} \X (0 .. g)) /\ Cardinality({p} \X (0 .. g)) = g + 1 - 0
      <3>1. 0 <= g + 1
        BY <1>1, <1>5
      <3> QED
        BY <1>1, <3>1, 0 \in Int, PlacesOfOne, Zenon
    <2>2. Cardinality(SpotsIn(r, {p})) <= Cardinality({p} \X (0 .. g))
      BY <1>3, <2>1, FS_Subset
    <2>3. TakenIn(r, {p}) <= 1 + g
      BY <1>1, <1>2, <2>1, <2>2 DEF TakenIn
    <2> QED
      BY <2>3 DEF g
  <1>6. CASE g < -1
    <2>1. n = -(1 + g)
      BY DEF n
    <2>2. 1 <= n + 1
      BY <1>1, <1>6, <2>1
    <2>3. /\ IsFiniteSet({p} \X (1 .. n)) /\ Cardinality({p} \X (1 .. n)) = n + 1 - 1
      BY <1>1, <2>2, 1 \in Int, PlacesOfOne, Zenon
    <2>4. Cardinality({p} \X (1 .. n)) <= Cardinality(OwedIn(r, {p}))
      BY <1>2, <1>4, FS_Subset
    <2>5. SpotsIn(r, {p}) = {}
      <3>1. 0 .. g = {}
        BY <1>1, <1>6
      <3> QED
        BY <1>3, <3>1
    <2>6. Cardinality(SpotsIn(r, {p})) = 0
      BY <2>5, FS_EmptySet
    <2>7. TakenIn(r, {p}) <= 1 + g
      BY <1>1, <1>2, <2>1, <2>3, <2>4, <2>6 DEF TakenIn
    <2> QED
      BY <2>7 DEF g
  <1> QED
    BY <1>1, <1>5, <1>6

\* Who has not answered takes nothing.
LEMMA TakenNone ==
  ASSUME NEW r, NEW p \in People, r[p].resp # "yes"
  PROVE  TakenIn(r, {p}) = 0
  <1>1. SpotsIn(r, {p}) = {} /\ OwedIn(r, {p}) = {}
    BY DEF SpotsIn, OwedIn
  <1> QED
    BY <1>1, FS_EmptySet DEF TakenIn

\* A row that is not a yes adds no spot but those its person had given back.
LEMMA TakenShrinks ==
  ASSUME NEW r \in [People -> Row], NEW p \in People, NEW row, row.resp # "yes",
         NEW P, P \subseteq People
  PROVE  TakenIn([r EXCEPT ![p] = row], P) <= TakenIn(r, P) + Cardinality(OwedIn(r, {p}))
  <1> DEFINE q == [r EXCEPT ![p] = row]
  <1>1. SpotsIn(q, P) \in SUBSET SpotsIn(r, P)
    BY DEF SpotsIn
  <1>2. OwedIn(r, P) \in SUBSET (OwedIn(q, P) \cup OwedIn(r, {p}))
    BY DEF OwedIn
  <1> HIDE DEF q
  <1>3. /\ IsFiniteSet(SpotsIn(r, P)) /\ IsFiniteSet(OwedIn(q, P)) /\ IsFiniteSet(OwedIn(r, {p}))
        /\ Cardinality(SpotsIn(r, P)) \in Nat /\ Cardinality(SpotsIn(q, P)) \in Nat
        /\ Cardinality(OwedIn(r, P)) \in Nat /\ Cardinality(OwedIn(q, P)) \in Nat
        /\ Cardinality(OwedIn(r, {p})) \in Nat
    BY SpotsFinite
  <1>4. Cardinality(SpotsIn(q, P)) <= Cardinality(SpotsIn(r, P))
    BY <1>1, <1>3, FS_Subset
  <1>5. /\ IsFiniteSet(OwedIn(q, P) \cup OwedIn(r, {p}))
        /\ Cardinality(OwedIn(q, P) \cup OwedIn(r, {p})) \in Nat
    BY <1>3, FS_Union, FS_CardinalityType
  <1>6. Cardinality(OwedIn(r, P)) <= Cardinality(OwedIn(q, P) \cup OwedIn(r, {p}))
    BY <1>2, <1>5, FS_Subset
  <1>7. Cardinality(OwedIn(q, P) \cup OwedIn(r, {p}))
          <= Cardinality(OwedIn(q, P)) + Cardinality(OwedIn(r, {p}))
    BY <1>3, SplitSize
  <1>8. TakenIn(q, P) <= TakenIn(r, P) + Cardinality(OwedIn(r, {p}))
    BY <1>3, <1>4, <1>5, <1>6, <1>7 DEF TakenIn
  <1> QED
    BY <1>8 DEF q

\* A person's row changes nothing of the others' spots.
LEMMA OthersKeep ==
  ASSUME NEW r \in [People -> Row], NEW p \in People, NEW row
  PROVE  TakenIn([r EXCEPT ![p] = row], Others(p)) = TakenIn(r, Others(p))
  <1>1. /\ SpotsIn([r EXCEPT ![p] = row], Others(p)) = SpotsIn(r, Others(p))
        /\ OwedIn([r EXCEPT ![p] = row], Others(p)) = OwedIn(r, Others(p))
    BY DEF SpotsIn, OwedIn, Others
  <1> QED
    BY <1>1 DEF TakenIn

LEMMA HeadcountInit == Init => Headcount
  <1> SUFFICES ASSUME Init PROVE Headcount
    OBVIOUS
  <1>1. \A h \in Handlers : ~Holding(h)
    BY DEF Init, Holding
  <1>2. SpotsIn(rows, People) = {} /\ OwedIn(rows, People) = {}
    BY DEF Init, NoRow, SpotsIn, OwedIn
  <1>3. TakenIn(rows, People) = 0
    BY <1>2, FS_EmptySet DEF TakenIn
  <1>4. capacity \in Nat /\ ceiling = capacity /\ slack = 0
    BY RsvpAssumption DEF Init
  <1> QED
    BY <1>1, <1>3, <1>4 DEF Headcount, Fitted

\* A step that neither writes a row nor takes the event's lock.
LEMMA QuietHeadcount ==
  ASSUME Headcount, NEW h \in Handlers, Only(h), ~Holding(h)', UNCHANGED <<rows, swollen, slack>>
  PROVE  Headcount'
  <1>1. \A g \in Handlers : Holding(g)' => Holding(g) /\ job'[g] = job[g]
    BY DEF Holding, Only
  <1> QED
    BY <1>1 DEF Headcount, Fitted, Writable, Only, eventVars

\* A yes that fits still fits beside the others' spots alone.
LEMMA FitsBeside ==
  ASSUME TypeOK, capacity > 0, capacity <= ceiling, TakenIn(rows, People) <= ceiling + slack,
         NEW j \in Job, Fits(j), j.found \/ rows[j.who].resp = "none"
  PROVE  TakenIn(rows, Others(j.who)) + 1 + j.guests <= ceiling + slack
  <1>1. /\ j.who \in People /\ j.guests \in Int /\ capacity \in Nat /\ ceiling \in Nat
        /\ slack \in Nat
    BY GuestsType DEF TypeOK, Job
  <1>2. /\ TakenIn(rows, People) = TakenIn(rows, Others(j.who)) + TakenIn(rows, {j.who})
        /\ TakenIn(rows, Others(j.who)) \in Int /\ TakenIn(rows, {j.who}) \in Int
    BY <1>1, TakenSplit, SpotsFinite DEF Others
  <1>3. SpotsIn(rows, {}) = {} /\ OwedIn(rows, {}) = {}
    BY DEF SpotsIn, OwedIn
  <1>4. TakenIn(rows, {}) = 0
    BY <1>3, FS_EmptySet DEF TakenIn
  <1>5. \/ 1 + j.guests <= TakenIn(rows, Own(j))
        \/ TakenIn(rows, People \ Own(j)) + 1 + j.guests <= capacity
    BY <1>1, TakenIs DEF Fits
  <1>6. CASE j.found
    <2>1. Own(j) = {j.who} /\ People \ Own(j) = Others(j.who)
      BY <1>6 DEF Own, Others
    <2>2. \/ 1 + j.guests <= TakenIn(rows, {j.who})
          \/ TakenIn(rows, Others(j.who)) + 1 + j.guests <= capacity
      BY <1>5, <2>1
    <2> QED
      BY <1>1, <1>2, <2>2
  <1>7. CASE ~j.found
    <2>1. Own(j) = {} /\ People \ Own(j) = People
      BY <1>7 DEF Own
    <2>2. \/ 1 + j.guests <= 0
          \/ TakenIn(rows, People) + 1 + j.guests <= capacity
      BY <1>4, <1>5, <2>1
    <2>3. TakenIn(rows, {j.who}) = 0
      BY <1>1, <1>7, TakenNone
    <2> QED
      BY <1>1, <1>2, <2>2, <2>3
  <1> QED
    BY <1>6, <1>7

LEMMA ClaimHeadcount ==
  ASSUME TypeOK, Headcount, NEW h \in Handlers, Claim(h)
  PROVE  Headcount'
  <1>1. Only(h) /\ UNCHANGED <<rows, swollen, slack>>
    BY ClaimOnly
  <1>2. CASE ~Holding(h)'
    BY <1>1, <1>2, QuietHeadcount
  <1>3. CASE Holding(h)'
    <2>1. job'[h] = job[h] /\ EventFree(h) /\ Fits(job[h]) /\ job[h] \in Job
      BY <1>3, ClaimOnly DEF Holding, NoJob, TypeOK
    <2>2. \A g \in Handlers \ {h} : ~Holding(g)'
      BY <1>1, <2>1 DEF EventFree, Holding, Only
    <2>3. ASSUME capacity > 0, TakenIn(rows, People) <= ceiling + slack, Writable(h)
          PROVE  TakenIn(rows, Others(job[h].who)) + 1 + job[h].guests <= ceiling + slack
      BY <2>1, <2>3, FitsBeside DEF Headcount, Writable
    <2>4. Writable(h)' = Writable(h)
      BY <1>1, <2>1 DEF Writable
    <2> QED
      BY <1>1, <2>1, <2>2, <2>3, <2>4 DEF Headcount, Fitted, eventVars, Only
  <1> QED
    BY <1>2, <1>3

\* The yes that was counted is written: its person takes what was counted.
LEMMA YesFits ==
  ASSUME NEW r \in [People -> Row], NEW p \in People, NEW row \in Row, NEW c \in Int,
         row.resp = "yes", TakenIn(r, Others(p)) + 1 + row.guests <= c
  PROVE  TakenIn([r EXCEPT ![p] = row], People) <= c
  <1> DEFINE q == [r EXCEPT ![p] = row]
  <1>1. q[p] = row /\ row.guests \in Guests /\ row.guests \in Int
    BY GuestsType DEF Row
  <1>2. TakenIn(q, Others(p)) = TakenIn(r, Others(p))
    BY OthersKeep
  <1> HIDE DEF q
  <1>3. TakenIn(q, {p}) <= 1 + row.guests
    <2>1. q[p].guests = row.guests /\ q[p].resp = "yes"
      BY <1>1
    <2>2. TakenIn(q, {p}) <= 1 + q[p].guests
      BY <1>1, <2>1, TakenOne
    <2> QED
      BY <2>1, <2>2
  <1>4. TakenIn(q, People) = TakenIn(q, Others(p)) + TakenIn(q, {p})
    BY TakenSplit
  <1>5. TakenIn(q, Others(p)) \in Int /\ TakenIn(q, {p}) \in Int
    BY SpotsFinite DEF Others
  <1>6. TakenIn(q, People) <= c
    BY <1>1, <1>2, <1>3, <1>4, <1>5
  <1> QED
    BY <1>6 DEF q

\* No spot is added but n of those given back, and nobody takes the lock: what
\* fitted still fits with n more.
LEMMA ShrinkFits ==
  ASSUME TypeOK, Fitted, NEW h \in Handlers, Only(h), ~Holding(h)', NEW n \in Nat, slack' = slack + n,
         \A p \in People : rows'[p].resp = "none" => rows[p].resp = "none",
         \A P : P \subseteq People => TakenIn(rows', P) <= TakenIn(rows, P) + n
  PROVE  Fitted'
  <1> ceiling \in Nat /\ ceiling' = ceiling /\ slack \in Nat
    BY DEF TypeOK, Only, eventVars
  <1>1. \A P : P \subseteq People => TakenIn(rows, P) \in Int /\ TakenIn(rows', P) \in Int
    BY SpotsFinite
  <1>2. TakenIn(rows', People) <= ceiling + slack'
    <2>1. TakenIn(rows, People) <= ceiling + slack
      BY DEF Fitted
    <2>2. /\ TakenIn(rows', People) <= TakenIn(rows, People) + n
          /\ TakenIn(rows, People) \in Int /\ TakenIn(rows', People) \in Int
      BY <1>1
    <2> QED
      BY <2>1, <2>2
  <1>3. ASSUME NEW g \in Handlers, Holding(g)', Writable(g)'
        PROVE  TakenIn(rows', Others(job'[g].who)) + 1 + job'[g].guests <= ceiling + slack'
    <2>1. Holding(g) /\ job'[g] = job[g] /\ job[g].who \in People
      BY <1>3 DEF Holding, Only, TypeOK, Job
    <2>2. TakenIn(rows, Others(job[g].who)) + 1 + job[g].guests <= ceiling + slack
      BY <1>3, <2>1 DEF Fitted, Writable
    <2>3. Others(job[g].who) \subseteq People /\ job[g].guests \in Int
      BY GuestsType DEF Others, TypeOK, Job
    <2>4. /\ TakenIn(rows', Others(job[g].who)) <= TakenIn(rows, Others(job[g].who)) + n
          /\ TakenIn(rows, Others(job[g].who)) \in Int
          /\ TakenIn(rows', Others(job[g].who)) \in Int
      BY <1>1, <2>3
    <2>5. TakenIn(rows', Others(job[g].who)) + 1 + job[g].guests <= ceiling + slack'
      BY <2>2, <2>3, <2>4
    <2> QED
      BY <2>1, <2>5
  <1> QED
    BY <1>2, <1>3 DEF Fitted

LEMMA WriteHeadcount ==
  ASSUME TypeOK, Headcount, NEW h \in Handlers, Write(h)
  PROVE  Headcount'
  <1> DEFINE j == job[h]
  <1>1. Only(h) /\ pc[h] = "write" /\ ~Holding(h)'
    BY WriteOnly DEF Holding
  <1>2. j \in Job /\ j.who \in People /\ Written(j) \in Row /\ Written(j).resp = j.resp
    BY WrittenType DEF TypeOK, Job
  <1>3. \A g \in Handlers : Holding(g)' => g # h /\ Holding(g) /\ job'[g] = job[g]
    BY <1>1 DEF Holding, Only
  <1>4. /\ \A f, g \in Handlers : Holding(f)' /\ Holding(g)' => f = g
        /\ capacity' = capacity /\ ceiling' = ceiling /\ capacity' <= ceiling'
        /\ ceiling \in Nat
    BY <1>1, <1>3 DEF Headcount, Only, eventVars, TypeOK
  <1>5. CASE UNCHANGED <<rows, swollen, slack>>
    BY <1>1, <1>5, QuietHeadcount
  <1>6. CASE /\ Writable(h)
             /\ rows' = [rows EXCEPT ![j.who] = Written(j)]
             /\ swollen' = (swollen \/ (j.resp = "yes" /\ Written(j).guests # j.guests))
             /\ slack' = slack + IF j.resp = "yes" THEN 0 ELSE Cardinality(Owed({j.who}))
    <2>1. SUFFICES ASSUME capacity > 0, ~swollen' PROVE Fitted'
      BY <1>4 DEF Headcount
    <2>2. Fitted /\ (j.resp = "yes" => Written(j).guests = j.guests)
      BY <1>6, <2>1 DEF Headcount
    <2>3. CASE j.resp = "yes"
      <3>1. \A g \in Handlers : ~Holding(g)'
        BY <1>1, <1>3, <2>3 DEF Headcount, Holding
      <3>2. TakenIn(rows, Others(j.who)) + 1 + Written(j).guests <= ceiling + slack
        BY <1>1, <1>6, <2>2, <2>3 DEF Fitted, Holding
      <3>3. slack' = slack /\ ceiling + slack \in Int
        BY <1>4, <1>6, <2>3 DEF TypeOK
      <3>4. TakenIn(rows', People) <= ceiling + slack
        BY <1>2, <1>6, <2>3, <3>2, <3>3, YesFits DEF TypeOK
      <3> QED
        BY <1>4, <3>1, <3>3, <3>4 DEF Fitted
    <2>4. CASE j.resp # "yes"
      <3> DEFINE n == Cardinality(Owed({j.who}))
      <3>1. n = Cardinality(OwedIn(rows, {j.who})) /\ n \in Nat /\ slack' = slack + n
        BY <1>2, <1>6, <2>4, TakenIs, SpotsFinite
      <3> HIDE DEF n
      <3>2. \A P : P \subseteq People => TakenIn(rows', P) <= TakenIn(rows, P) + n
        BY <1>2, <1>6, <2>4, <3>1, TakenShrinks DEF TypeOK
      <3>3. \A p \in People : rows'[p].resp = "none" => rows[p].resp = "none"
        BY <1>2, <1>6 DEF TypeOK, Job, Responses
      <3> QED
        BY <1>1, <2>2, <3>1, <3>2, <3>3, ShrinkFits
    <2> QED
      BY <2>3, <2>4
  <1> QED
    BY <1>5, <1>6, WriteOnly DEF Writable

LEMMA HeadcountStep == Books /\ Headcount /\ [Next]_vars => Headcount'
  <1> SUFFICES ASSUME Books, Headcount, [Next]_vars PROVE Headcount'
    OBVIOUS
  <1>1. TypeOK
    BY DEF Books
  <1>2. CASE UNCHANGED vars
    BY <1>2 DEF vars, Headcount, Fitted, Holding, Writable
  <1>3. ASSUME NEW h \in Handlers, NEW p \in People, NEW via \in Ways, NEW resp \in Responses,
               NEW g \in Brings(via), NEW kept \in BOOLEAN, Answer(h, p, via, resp, g, kept)
        PROVE  Headcount'
    <2>1. Only(h) /\ pc'[h] # "write" /\ UNCHANGED <<rows, swollen, slack>>
      BY <1>1, <1>3, AnswerOnly
    <2> QED
      BY <2>1, QuietHeadcount DEF Holding
  <1>4. ASSUME NEW h \in Handlers, Find(h) \/ Adopt(h) \/ Look(h) \/ Post(h) \/ Fail(h)
        PROVE  Headcount'
    <2>1. Only(h) /\ pc'[h] # "write" /\ UNCHANGED <<rows, swollen, slack>>
      <3>1. CASE Find(h)
        BY <1>1, <3>1, FindOnly
      <3>2. CASE Adopt(h)
        BY <1>1, <3>2, AdoptOnly
      <3>3. CASE Look(h)
        BY <3>3, LookOnly
      <3>4. CASE Post(h)
        BY <1>1, <3>4, PostOnly
      <3>5. CASE Fail(h)
        BY <1>1, <3>5, FailOnly
      <3> QED
        BY <1>4, <3>1, <3>2, <3>3, <3>4, <3>5
    <2> QED
      BY <2>1, QuietHeadcount DEF Holding
  <1>5. ASSUME NEW p \in People, Waive(p)
        PROVE  Headcount'
    BY <1>5 DEF Waive, countVars, Headcount, Fitted, Holding, Writable, eventVars
  <1>6. ASSUME NEW c \in Capacities, EditEvent(c)
        PROVE  Headcount'
    <2>1. \A h \in Handlers : ~Holding(h)'
      BY <1>6 DEF EditEvent, Holding
    <2>2. TakenIn(rows, People) \in Int /\ c \in Nat
      BY SpotsFinite, RsvpAssumption
    <2>3. capacity' = c /\ ceiling' = IF c < TakenIn(rows, People)
                                     THEN TakenIn(rows, People) ELSE c
      BY <1>6, TakenIs DEF EditEvent
    <2>4. slack' = 0 /\ rows' = rows
      BY <1>6 DEF EditEvent
    <2>5. capacity' <= ceiling' /\ TakenIn(rows', People) <= ceiling' + slack'
      BY <2>2, <2>3, <2>4
    <2> QED
      BY <2>1, <2>5 DEF Headcount, Fitted
  <1> QED
    BY <1>1, <1>2, <1>3, <1>4, <1>5, <1>6, ClaimHeadcount, WriteHeadcount DEF Next

\* For any number of requests on any path and any numbers typed, an event's
\* headcount holds for counted answers, up to the spots that yes answers with
\* fewer than -1 guests gave back: for the rest the lock of assertRsvpFits, held
\* to the commit, suffices.
THEOREM HeadcountKept == Spec => []SpotsKept
  <1>1. Headcount => SpotsKept
    BY TakenIs DEF Headcount, Fitted, SpotsKept
  <1> QED
    BY BooksInit, BooksStep, HeadcountInit, HeadcountStep, <1>1, PTL DEF Spec

-----------------------------------------------------------------------------
(* The charge follows the answer. *)

Attends(p) == rows[p].resp = "yes" /\ rows[p].linked

\* A visitor's answer never finds a row, so it writes only a new one.
Visitors ==
    /\ \A h \in Handlers : pc[h] # "idle" /\ job[h].via = "guest" =>
          pc[h] \in {"claim", "write"} /\ ~job[h].found
    /\ \A p \in People : rows[p].resp = "none" => ~rows[p].linked

Settling(h, p) == pc[h] = "settle" /\ job[h].who = p
Settled(p) == p \notin astray /\ \A h \in Handlers : ~Settling(h, p)

\* With no settlement still to look, the one that has looked saw what is so,
\* and without one the ledger agrees with the answer.
Follows ==
    \A p \in Members : Settled(p) =>
       /\ \A h \in Handlers : Posting(h) /\ job[h].who = p =>
             /\ job[h].going = Attends(p)
             /\ job[h].charge # 0 => standing[p] = {job[h].charge}
       /\ (\A h \in Handlers : ~(Posting(h) /\ job[h].who = p)) =>
             (standing[p] # {} <=> Attends(p))

Charges == Visitors /\ Follows

LEMMA ChargesInit == Init => Charges
  BY RsvpAssumption
  DEF Init, Charges, Visitors, Follows, Attends, Posting, NoRow

\* A step of h that is no settlement, and leaves what the members owe as it is.
LEMMA QuietFollows ==
  ASSUME Follows, NEW h \in Handlers, Only(h), pc[h] \notin {"settle", "post"},
         pc'[h] # "post", UNCHANGED <<standing, astray>>,
         \A p \in Members : Settled(p)' => Attends(p)' = Attends(p)
  PROVE  Follows'
  <1> SUFFICES ASSUME NEW p \in Members, Settled(p)'
               PROVE  /\ \A g \in Handlers : (Posting(g) /\ job[g].who = p)' =>
                            /\ job'[g].going = Attends(p)'
                            /\ job'[g].charge # 0 => standing'[p] = {job'[g].charge}
                      /\ (\A g \in Handlers : ~(Posting(g) /\ job[g].who = p)') =>
                            (standing'[p] # {} <=> Attends(p)')
    BY DEF Follows
  <1>1. \A g \in Handlers : Posting(g)' <=> Posting(g)
    BY DEF Posting, Only
  <1>2. \A g \in Handlers : Posting(g) => job'[g] = job[g]
    BY DEF Posting, Only
  <1>3. Settled(p)
    BY DEF Settled, Settling, Only
  <1>4. Attends(p)' = Attends(p)
    OBVIOUS
  <1> QED
    BY <1>1, <1>2, <1>3, <1>4 DEF Follows

LEMMA WriteCharges ==
  ASSUME TypeOK, Charges, NEW h \in Handlers, Write(h)
  PROVE  Charges'
  <1> DEFINE j == job[h]
  <1>1. Only(h) /\ pc[h] = "write" /\ UNCHANGED <<standing, astray>>
    BY WriteOnly
  <1>2. /\ j \in Job /\ j.who \in People /\ Written(j).resp \in Responses
        /\ Written(j).linked = (rows[j.who].linked \/ (j.via # "guest" /\ j.who \in Members))
        /\ Written(j).resp = j.resp
    BY WrittenType DEF TypeOK, Job
  <1>3. CASE UNCHANGED rows /\ (pc'[h] = "idle" \/ (pc'[h] = "find" /\ job'[h].via = "api"))
    <2>1. Visitors'
      BY <1>1, <1>3 DEF Charges, Visitors, Only
    <2>2. \A p : Attends(p)' = Attends(p)
      BY <1>3 DEF Attends
    <2>3. Follows'
      BY <1>1, <1>3, <2>2, QuietFollows DEF Charges
    <2> QED
      BY <2>1, <2>3 DEF Charges
  <1>4. CASE /\ j.found \/ rows[j.who].resp = "none"
             /\ rows' = [rows EXCEPT ![j.who] = Written(j)]
             /\ IF Settles(j)
                THEN pc'[h] = "settle" /\ job'[h].who = j.who /\ job'[h].via = "web"
                ELSE pc'[h] = "idle"
    <2>1. rows'[j.who] = Written(j) /\ \A p \in People \ {j.who} : rows'[p] = rows[p]
      BY <1>2, <1>4 DEF TypeOK
    <2>2. \A p \in People : rows'[p].resp = "none" => ~rows'[p].linked
      BY <1>2, <2>1 DEF Responses, Charges, Visitors
    <2>3. Visitors'
      BY <1>1, <1>4, <2>2 DEF Charges, Visitors, Only, Settles
    <2>4. ASSUME NEW p \in Members, Settled(p)'
          PROVE  Attends(p)' = Attends(p)
      <3>1. p \in People
        BY RsvpAssumption
      <3>2. CASE p # j.who
        BY <2>1, <3>1, <3>2 DEF Attends
      <3>3. CASE p = j.who
        <4>1. j.via = "guest"
          BY <1>4, <2>4, <3>3 DEF Settled, Settling, Settles
        <4>2. rows[p].resp = "none" /\ ~rows[p].linked
          BY <1>1, <1>4, <3>1, <3>3, <4>1 DEF Charges, Visitors
        <4>3. ~rows'[p].linked
          BY <1>2, <2>1, <3>3, <4>1, <4>2
        <4> QED
          BY <4>2, <4>3 DEF Attends
      <3> QED
        BY <3>2, <3>3
    <2>5. Follows'
      BY <1>1, <1>4, <2>4, QuietFollows DEF Charges
    <2> QED
      BY <2>3, <2>5 DEF Charges
  <1> QED
    BY <1>3, <1>4, WriteOnly

LEMMA LookCharges ==
  ASSUME Books, Charges, NEW h \in Handlers, Look(h)
  PROVE  Charges'
  <1> DEFINE q == job[h].who
  <1>1. /\ Only(h) /\ pc[h] = "settle" /\ pc'[h] = "post" /\ ChargeFree(h)
        /\ job'[h].who = q /\ job'[h].going = Going(job[h])
        /\ job'[h].charge = Newest(standing[q]) /\ astray' = astray \ {q}
        /\ UNCHANGED <<rows, standing>>
    BY LookOnly
  <1>2. q \in People /\ standing[q] \subseteq Nat /\ \A c, d \in standing[q] : c = d
    BY DEF Books, TypeOK, Job, Ledger, OneCharge
  <1>3. standing[q] # {} => standing[q] = {Newest(standing[q])}
    BY <1>2, NewestOfOne
  <1>4. standing[q] = {} => Newest(standing[q]) = 0
    BY DEF Newest
  <1>5. Going(job[h]) = Attends(q)
    BY DEF Going, Attends
  <1>6. \A p : Attends(p)' = Attends(p)
    BY <1>1 DEF Attends
  <1> HIDE DEF q
  <1>7. Visitors'
    <2>1. pc[h] # "idle" /\ pc[h] \notin {"claim", "write"}
      BY <1>1
    <2>2. job[h].via # "guest" /\ job'[h].via = job[h].via
      BY <2>1 DEF Look, countVars, Reads, Charges, Visitors, Books, TypeOK
    <2> QED
      BY <1>1, <2>2 DEF Charges, Visitors, Only
  <1>8. Follows'
    <2> SUFFICES ASSUME NEW p \in Members, Settled(p)'
                 PROVE  /\ \A g \in Handlers : (Posting(g) /\ job[g].who = p)' =>
                              /\ job'[g].going = Attends(p)'
                              /\ job'[g].charge # 0 => standing'[p] = {job'[g].charge}
                        /\ (\A g \in Handlers : ~(Posting(g) /\ job[g].who = p)') =>
                              (standing'[p] # {} <=> Attends(p)')
      BY DEF Follows
    <2>1. \A g \in Handlers \ {h} : Posting(g)' => Posting(g) /\ job'[g] = job[g] /\ job[g].who # q
      BY <1>1 DEF Posting, Only, ChargeFree, q
    <2>2. CASE p = q
      BY <1>1, <1>3, <1>4, <1>5, <1>6, <2>1, <2>2 DEF Posting
    <2>3. CASE p # q
      <3>1. Settled(p)
        BY <1>1, <2>3 DEF Settled, Settling, Only, q
      <3>2. \A g \in Handlers : (Posting(g) /\ job[g].who = p)' <=> Posting(g) /\ job[g].who = p
        BY <1>1, <2>3 DEF Posting, Only, q
      <3> QED
        BY <1>1, <1>6, <2>1, <2>3, <3>1, <3>2 DEF Charges, Follows
    <2> QED
      BY <2>2, <2>3
  <1> QED
    BY <1>7, <1>8 DEF Charges

LEMMA PostCharges ==
  ASSUME Books, Charges, NEW h \in Handlers, Post(h)
  PROVE  Charges'
  <1> DEFINE q == job[h].who
  <1>1. /\ Only(h) /\ Posting(h) /\ pc'[h] = "idle" /\ UNCHANGED <<rows, astray>>
        /\ \A p \in People \ {q} : standing'[p] = standing[p]
    BY PostOnly DEF Books, Posting
  <1>2. standing'[q] = IF job[h].going
                       THEN IF job[h].charge = 0 THEN standing[q] \cup {entries + 1}
                                                 ELSE standing[q]
                       ELSE standing[q] \ {job[h].charge}
    BY PostOnly DEF Books
  <1>3. q \in People
    BY DEF Books, TypeOK, Job
  <1>4. \A p : Attends(p)' = Attends(p)
    BY <1>1 DEF Attends
  <1>5. Visitors'
    BY <1>1 DEF Charges, Visitors, Only
  <1>6. Follows'
    <2> SUFFICES ASSUME NEW p \in Members, Settled(p)'
                 PROVE  /\ \A g \in Handlers : (Posting(g) /\ job[g].who = p)' =>
                              /\ job'[g].going = Attends(p)'
                              /\ job'[g].charge # 0 => standing'[p] = {job'[g].charge}
                        /\ (\A g \in Handlers : ~(Posting(g) /\ job[g].who = p)') =>
                              (standing'[p] # {} <=> Attends(p)')
      BY DEF Follows
    <2>1. p \in People
      BY RsvpAssumption
    <2>2. Settled(p)
      BY <1>1 DEF Settled, Settling, Only, Posting
    <2>3. \A g \in Handlers : Posting(g)' => g # h /\ Posting(g) /\ job'[g] = job[g]
                                          /\ job[g].who # q
      BY <1>1 DEF Posting, Only, Books, Ledger
    <2>4. CASE p = q
      <3>1. \A g \in Handlers : ~(Posting(g)' /\ job'[g].who = p)
        BY <2>3, <2>4
      <3>2. /\ job[h].going = Attends(p)
            /\ job[h].charge # 0 => standing[p] = {job[h].charge}
            /\ job[h].charge = 0 => standing[p] = {}
        BY <1>1, <2>2, <2>4 DEF Charges, Follows, Books, Ledger
      <3>3. standing'[p] # {} <=> Attends(p)
        BY <1>2, <2>4, <3>2
      <3> QED
        BY <1>4, <3>1, <3>3
    <2>5. CASE p # q
      <3>1. \A g \in Handlers : (Posting(g) /\ job[g].who = p)' <=> Posting(g) /\ job[g].who = p
        BY <1>1, <2>3, <2>5 DEF Posting, Only
      <3>2. standing'[p] = standing[p]
        BY <1>1, <2>1, <2>5
      <3> HIDE DEF q
      <3> QED
        BY <1>4, <2>2, <2>3, <3>1, <3>2 DEF Charges, Follows
    <2> QED
      BY <2>4, <2>5
  <1> QED
    BY <1>5, <1>6 DEF Charges

LEMMA FailCharges ==
  ASSUME Books, Charges, NEW h \in Handlers, Fail(h)
  PROVE  Charges'
  <1>1. /\ Only(h) /\ pc'[h] = "idle" /\ UNCHANGED <<rows, standing>>
        /\ astray' = IF pc[h] \in {"settle", "post"} THEN astray \cup {job[h].who} ELSE astray
    BY FailOnly DEF Books
  <1>2. Visitors'
    BY <1>1 DEF Charges, Visitors, Only
  <1>3. ASSUME NEW p \in Members, Settled(p)'
        PROVE  /\ Settled(p)
               /\ \A g \in Handlers : (Posting(g) /\ job[g].who = p)' =>
                     Posting(g) /\ job[g].who = p /\ job'[g] = job[g]
               /\ \A g \in Handlers : Posting(g) /\ job[g].who = p =>
                     (Posting(g) /\ job[g].who = p)'
    BY <1>1, <1>3 DEF Settled, Settling, Posting, Only
  <1>4. \A p : Attends(p)' = Attends(p)
    BY <1>1 DEF Attends
  <1>5. Follows'
    BY <1>1, <1>3, <1>4 DEF Charges, Follows
  <1> QED
    BY <1>2, <1>5 DEF Charges

LEMMA WaiveCharges ==
  ASSUME Books, Charges, NEW q \in People, Waive(q)
  PROVE  Charges'
  <1>1. /\ UNCHANGED <<rows, pc, job>> /\ astray' = astray \cup {q}
        /\ \A p \in People \ {q} : standing'[p] = standing[p]
    BY DEF Waive, countVars, Books, TypeOK
  <1>2. Visitors'
    BY <1>1 DEF Charges, Visitors
  <1>3. ASSUME NEW p \in Members, Settled(p)'
        PROVE  Settled(p) /\ standing'[p] = standing[p]
    BY <1>1, <1>3, RsvpAssumption DEF Settled, Settling
  <1>4. (\A p : Attends(p)' = Attends(p)) /\ (\A g \in Handlers : Posting(g)' <=> Posting(g))
    BY <1>1 DEF Attends, Posting
  <1>5. Follows'
    BY <1>1, <1>3, <1>4 DEF Charges, Follows
  <1> QED
    BY <1>2, <1>5 DEF Charges

LEMMA ChargesStep == Books /\ Charges /\ [Next]_vars => Charges'
  <1> SUFFICES ASSUME Books, Charges, [Next]_vars PROVE Charges'
    OBVIOUS
  <1>1. TypeOK
    BY DEF Books
  <1>2. CASE UNCHANGED vars
    <2>1. Visitors'
      BY <1>2 DEF vars, Charges, Visitors
    <2>2. Follows'
      BY <1>2 DEF vars, Charges, Follows, Settled, Settling, Posting, Attends
    <2> QED
      BY <2>1, <2>2 DEF Charges
  <1>3. ASSUME UNCHANGED rows
        PROVE  \A p : Attends(p)' = Attends(p)
    BY <1>3 DEF Attends
  <1>4. ASSUME NEW h \in Handlers, NEW p \in People, NEW via \in Ways, NEW resp \in Responses,
               NEW g \in Brings(via), NEW kept \in BOOLEAN, Answer(h, p, via, resp, g, kept)
        PROVE  Charges'
    <2>1. /\ Only(h) /\ pc[h] = "idle" /\ pc'[h] \in {"find", "claim"}
          /\ job'[h].via = "guest" => pc'[h] = "claim" /\ ~job'[h].found
          /\ UNCHANGED <<rows, standing, astray>>
      BY <1>1, <1>4, AnswerOnly
    <2>2. Visitors'
      BY <2>1 DEF Charges, Visitors, Only
    <2> QED
      BY <1>3, <2>1, <2>2, QuietFollows DEF Charges
  <1>5. ASSUME NEW h \in Handlers, Find(h) \/ Adopt(h)
        PROVE  Charges'
    <2>1. /\ Only(h) /\ pc[h] \in {"find", "adopt"} /\ pc'[h] \in {"adopt", "claim"}
          /\ job'[h].via = job[h].via /\ UNCHANGED <<rows, standing, astray>>
      <3>1. CASE Find(h)
        BY <1>1, <3>1, FindOnly
      <3>2. CASE Adopt(h)
        BY <1>1, <3>2, AdoptOnly
      <3> QED
        BY <1>5, <3>1, <3>2
    <2>2. Visitors'
      BY <2>1 DEF Charges, Visitors, Only
    <2> QED
      BY <1>3, <2>1, <2>2, QuietFollows DEF Charges
  <1>6. ASSUME NEW h \in Handlers, Claim(h)
        PROVE  Charges'
    <2>1. /\ Only(h) /\ pc[h] = "claim" /\ UNCHANGED <<rows, standing, astray>>
          /\ pc'[h] = "idle" \/ (pc'[h] = "write" /\ job'[h] = job[h])
      BY <1>1, <1>6, ClaimOnly
    <2>2. Visitors'
      BY <2>1 DEF Charges, Visitors, Only
    <2> QED
      BY <1>3, <2>1, <2>2, QuietFollows DEF Charges
  <1>7. ASSUME NEW c \in Capacities, EditEvent(c)
        PROVE  Charges'
    <2>1. UNCHANGED <<rows, standing, pc, job, astray>>
      BY <1>7 DEF EditEvent
    <2>2. Visitors'
      BY <2>1 DEF Charges, Visitors
    <2>3. Follows'
      BY <2>1 DEF Charges, Follows, Settled, Settling, Posting, Attends
    <2> QED
      BY <2>2, <2>3 DEF Charges
  <1> QED
    BY <1>1, <1>2, <1>4, <1>5, <1>6, <1>7, WriteCharges, LookCharges, PostCharges,
       FailCharges, WaiveCharges DEF Next

\* Whatever the order of answers, settlements, failures and reversals by hand,
\* a member with none of them pending is charged exactly if the answer is yes.
THEOREM ChargeFollowsAnswer == Spec => []ChargeFollows
  <1>1. Charges => ChargeFollows
    BY DEF Charges, Follows, ChargeFollows, Settled, Settling, Posting, Attends
  <1> QED
    BY BooksInit, BooksStep, ChargesInit, ChargesStep, <1>1, PTL DEF Spec

-----------------------------------------------------------------------------
(* Whose answer can pass the headcount (the run rsvp_stale).                 *)

Answering(h) == pc[h] \in {"find", "adopt", "claim", "write"}

\* No answer that leaves the guests out is under way with another answer of the
\* same person; any others may overlap, and so may edits, settlements and deaths.
KeptApart ==
    \A g, h \in Handlers :
        g # h /\ Answering(g) /\ Answering(h) /\ job[h].kept => job[g].who # job[h].who

\* A yes is written as it was counted: the guests that an answer keeps are still
\* those it has read.
AsCounted ==
    /\ ~swollen
    /\ \A h \in Handlers :
          job[h].kept /\ job[h].found /\ pc[h] \in {"claim", "write"}
          => job[h].guests = rows[job[h].who].guests

\* A request that writes nothing, and has read what it keeps.
LEMMA QuietCounted ==
  ASSUME AsCounted, NEW h \in Handlers, Only(h), UNCHANGED <<rows, swollen, slack>>,
         job'[h].kept /\ job'[h].found /\ pc'[h] \in {"claim", "write"}
            => job'[h].guests = rows[job'[h].who].guests
  PROVE  AsCounted'
  BY DEF AsCounted, Only

\* What Found reads of the row is what the row has.
LEMMA FoundCounts ==
  ASSUME TypeOK, NEW j \in Job, NEW hit \in BOOLEAN
  PROVE  LET k == Found(j, hit)
         IN  k.kept /\ k.found => k.guests = rows[k.who].guests
  <1>1. /\ Found(j, hit).found = hit /\ Found(j, hit).kept = j.kept
        /\ Found(j, hit).who = j.who
        /\ Found(j, hit).guests = IF ~j.kept THEN j.guests ELSE IF hit THEN rows[j.who].guests ELSE 0
    BY DEF Found, Job
  <1> QED
    BY <1>1

LEMMA WriteCounted ==
  ASSUME TypeOK, KeptApart, AsCounted, NEW h \in Handlers, Write(h)
  PROVE  AsCounted'
  <1>1. Only(h) /\ pc[h] = "write" /\ pc'[h] \notin {"claim", "write"}
    BY WriteOnly
  <1>2. CASE UNCHANGED <<rows, swollen, slack>>
    BY <1>1, <1>2, QuietCounted
  <1>3. CASE ~UNCHANGED <<rows, swollen, slack>>
    <2>1. /\ rows' = [rows EXCEPT ![job[h].who] = Written(job[h])]
          /\ swollen' = (swollen \/ (job[h].resp = "yes"
                                     /\ Written(job[h]).guests # job[h].guests))
      BY <1>3, WriteOnly
    <2>2. Written(job[h]).guests = IF job[h].kept /\ job[h].found
                                   THEN rows[job[h].who].guests ELSE job[h].guests
      BY DEF Written
    <2>3. ~swollen'
      BY <1>1, <2>1, <2>2 DEF AsCounted
    <2>4. ASSUME NEW g \in Handlers, job'[g].kept, job'[g].found, pc'[g] \in {"claim", "write"}
          PROVE  job'[g].guests = rows'[job'[g].who].guests
      <3>1. g # h /\ pc'[g] = pc[g] /\ job'[g] = job[g]
        BY <1>1, <2>4 DEF Only
      <3>2. job[g].who # job[h].who /\ job[g].who \in People
        BY <1>1, <2>4, <3>1 DEF KeptApart, Answering, TypeOK, Job
      <3>3. rows'[job[g].who] = rows[job[g].who]
        BY <2>1, <3>2 DEF TypeOK
      <3> QED
        BY <2>4, <3>1, <3>3 DEF AsCounted
    <2> QED
      BY <2>3, <2>4 DEF AsCounted
  <1> QED
    BY <1>2, <1>3

LEMMA CountedStep == Books /\ KeptApart /\ AsCounted /\ [Next]_vars => AsCounted'
  <1> SUFFICES ASSUME Books, KeptApart, AsCounted, [Next]_vars PROVE AsCounted'
    OBVIOUS
  <1>1. TypeOK
    BY DEF Books
  <1>2. ASSUME NEW h \in Handlers, NEW p \in People, NEW via \in Ways, NEW resp \in Responses,
               NEW g \in Brings(via), NEW kept \in BOOLEAN, Answer(h, p, via, resp, g, kept)
        PROVE  AsCounted'
    <2> DEFINE j == [NoJob EXCEPT !.who = p, !.via = via, !.resp = resp, !.guests = g, !.kept = kept]
    <2>1. j.found = FALSE
      BY DEF NoJob
    <2>2. Only(h) /\ UNCHANGED <<rows, swollen, slack>> /\ job' = [job EXCEPT ![h] = j]
      BY <1>1, <1>2, AnswerOnly DEF Answer, countVars, Reads
    <2> HIDE DEF j
    <2> QED
      BY <1>1, <2>1, <2>2, QuietCounted DEF TypeOK
  <1>3. ASSUME NEW h \in Handlers, Find(h) PROVE AsCounted'
    <2> DEFINE j == job[h]
               hit == IF j.via = "link" THEN rows[j.who].resp # "none" ELSE rows[j.who].owned
    <2>1. j \in Job /\ hit \in BOOLEAN
      BY <1>1 DEF TypeOK, Job, Row
    <2>2. job' = [job EXCEPT ![h] = Found(j, hit)]
      BY <1>3 DEF Find, countVars, Reads
    <2> HIDE DEF j, hit
    <2>3. job'[h] = Found(j, hit)
      BY <1>1, <2>2 DEF TypeOK
    <2> QED
      BY <1>1, <1>3, <2>1, <2>3, FindOnly, FoundCounts, QuietCounted
  <1>4. ASSUME NEW h \in Handlers, Adopt(h) PROVE AsCounted'
    <2> DEFINE j == job[h]
               hit == rows[j.who].resp # "none" /\ ~rows[j.who].owned
    <2>1. j \in Job /\ hit \in BOOLEAN
      BY <1>1 DEF TypeOK
    <2>2. job' = [job EXCEPT ![h] = Found(j, hit)]
      BY <1>4 DEF Adopt, countVars, Reads
    <2> HIDE DEF j, hit
    <2>3. job'[h] = Found(j, hit)
      BY <1>1, <2>2 DEF TypeOK
    <2> QED
      BY <1>1, <1>4, <2>1, <2>3, AdoptOnly, FoundCounts, QuietCounted
  <1>5. ASSUME NEW h \in Handlers, Claim(h) PROVE AsCounted'
    <2>1. Only(h) /\ pc[h] = "claim" /\ UNCHANGED <<rows, swollen, slack>>
      BY <1>1, <1>5, ClaimOnly
    <2>2. CASE pc'[h] = "idle"
      BY <2>1, <2>2, QuietCounted
    <2>3. CASE job'[h] = job[h]
      BY <2>1, <2>3, QuietCounted DEF AsCounted
    <2> QED
      BY <1>1, <1>5, <2>2, <2>3, ClaimOnly
  <1>6. ASSUME NEW h \in Handlers, Write(h) PROVE AsCounted'
    BY <1>1, <1>6, WriteCounted
  <1>7. ASSUME NEW h \in Handlers, Look(h) \/ Post(h) \/ Fail(h) PROVE AsCounted'
    <2>1. Only(h) /\ pc'[h] \notin {"claim", "write"} /\ UNCHANGED <<rows, swollen, slack>>
      <3>1. CASE Look(h)
        BY <3>1, LookOnly
      <3>2. CASE Post(h)
        BY <1>1, <3>2, PostOnly
      <3>3. CASE Fail(h)
        BY <1>1, <3>3, FailOnly
      <3> QED
        BY <1>7, <3>1, <3>2, <3>3
    <2> QED
      BY <2>1, QuietCounted
  <1>8. ASSUME NEW p \in People, Waive(p) PROVE AsCounted'
    BY <1>8 DEF Waive, countVars, AsCounted
  <1>9. ASSUME NEW c \in Capacities, EditEvent(c) PROVE AsCounted'
    BY <1>9 DEF EditEvent, AsCounted
  <1>10. CASE UNCHANGED vars
    BY <1>10 DEF vars, AsCounted
  <1> QED
    BY <1>2, <1>3, <1>4, <1>5, <1>6, <1>7, <1>8, <1>9, <1>10 DEF Next

\* Nobody's yes has fewer than -1 guests.
NobodyOwes == Owed(People) = {}

Tight == slack = 0

LEMMA SlackStep == Books /\ NobodyOwes /\ Tight /\ [Next]_vars => Tight'
  <1> SUFFICES ASSUME Books, NobodyOwes, slack = 0, [Next]_vars PROVE slack' = 0
    BY DEF Tight
  <1>1. ASSUME NEW h \in Handlers, Write(h) PROVE slack' = 0
    <2>1. job[h].who \in People
      BY DEF Books, TypeOK, Job
    <2>2. Owed({job[h].who}) = {}
      BY <2>1 DEF NobodyOwes, Owed
    <2>3. Cardinality(Owed({job[h].who})) = 0
      BY <2>2, FS_EmptySet
    <2> QED
      BY <1>1, <2>3, WriteOnly DEF Books
  <1>2. ASSUME NEW h \in Handlers,
               Find(h) \/ Adopt(h) \/ Claim(h) \/ Look(h) \/ Post(h) \/ Fail(h)
        PROVE  slack' = 0
    BY <1>2 DEF Find, Adopt, Claim, Look, Post, Fail, countVars
  <1>3. CASE UNCHANGED vars
    BY <1>3 DEF vars
  <1> QED
    BY <1>1, <1>2, <1>3 DEF Next, Answer, Waive, EditEvent, countVars

\* For any people, requests and edits, every answer keeps the headcount unless
\* one that leaves the guests out overlaps another answer of the same person,
\* or a yes has fewer than -1 guests: these two, which rsvp_stale and
\* rsvp_negative show, are the only ways past it.
THEOREM OnlyTwoWaysPast == Spec /\ []KeptApart /\ []NobodyOwes => []FirmCapacity
  <1>1. Init => AsCounted /\ Tight
    BY DEF Init, AsCounted, NoJob, Tight
  <1>2. Books /\ Headcount /\ AsCounted /\ Tight => FirmCapacity
    <2> SUFFICES ASSUME Books, Headcount, AsCounted, slack = 0, capacity > 0
                 PROVE  Taken(People) <= ceiling
      BY DEF FirmCapacity, Tight
    <2>1. TakenIn(rows, People) <= ceiling + slack
      BY DEF Headcount, Fitted, AsCounted
    <2>2. ceiling + slack = ceiling
      BY DEF Books, TypeOK
    <2> QED
      BY <2>1, <2>2, TakenIs
  <1> QED
    BY BooksInit, BooksStep, HeadcountInit, HeadcountStep, CountedStep, SlackStep,
       <1>1, <1>2, PTL DEF Spec
=============================================================================
