------------------------------ MODULE SlotBook ------------------------------
(***************************************************************************)
(* What a sign-up slot promises, with no locks, transactions or rows: a    *)
(* set of seated people, and a queue of waiting ones who hold tickets.  A  *)
(* request draws a ticket when it begins, and later changes any number of  *)
(* slots in one indivisible step, or none.                                 *)
(***************************************************************************)
EXTENDS Naturals, FiniteSets

CONSTANTS Slots, Keys, Waitlisted, Sizes, FirstSize

VARIABLES
    room,      \* seats of a slot
    seated,    \* who has one
    queue,     \* a function from the people waiting to their tickets
    issued,    \* tickets drawn so far
    open       \* tickets of the requests that have not ended

bookVars == <<room, seated, queue, issued, open>>

Init ==
    /\ room = FirstSize
    /\ seated = [s \in Slots |-> {}]
    /\ queue = [s \in Slots |-> <<>>]
    /\ issued = 0
    /\ open = {}

Draws ==
    /\ issued' = issued + 1
    /\ open' = open \cup {issued + 1}
    /\ UNCHANGED <<room, seated, queue>>

Becomes(s, n, in, q) == room'[s] = n /\ seated'[s] = in /\ queue'[s] = q

Only(q, P) == [k \in P |-> q[k]]

\* The lowest tickets sit down while there is room.
MovesUp(s, n, in, q) ==
    \E P \in SUBSET DOMAIN q :
        /\ P = {} \/ Cardinality(in \cup P) <= n
        /\ P = DOMAIN q \/ Cardinality(in \cup P) >= n
        /\ \A k \in P, j \in (DOMAIN q) \ P : q[k] <= q[j]
        /\ Becomes(s, n, in \cup P, Only(q, (DOMAIN q) \ P))

\* A newcomer sits down, or waits under the ticket of the request.
Joins(s, ticket) ==
    \E k \in Keys \ (seated[s] \cup DOMAIN queue[s]) :
        IF Cardinality(seated[s]) < room[s]
        THEN Becomes(s, room[s], seated[s] \cup {k}, queue[s])
        ELSE /\ s \in Waitlisted
             /\ Becomes(s, room[s], seated[s],
                    [j \in (DOMAIN queue[s]) \cup {k} |->
                        IF j = k THEN ticket ELSE queue[s][j]])

Leaves(s) ==
    \E k \in seated[s] \cup DOMAIN queue[s] :
        MovesUp(s, room[s], seated[s] \ {k}, Only(queue[s], (DOMAIN queue[s]) \ {k}))

Resized(s) == \E n \in Sizes : MovesUp(s, n, seated[s], queue[s])

Same(s) == Becomes(s, room[s], seated[s], queue[s])

\* The request with this ticket ends: with its work done, or with nothing done.
Ends(ticket) ==
    /\ \/ \A s \in Slots : Same(s) \/ Joins(s, ticket)
       \/ \A s \in Slots : Same(s) \/ Leaves(s)
       \/ \A s \in Slots : Same(s) \/ Resized(s)
    /\ DOMAIN room' = Slots /\ DOMAIN seated' = Slots /\ DOMAIN queue' = Slots
    /\ open' = open \ {ticket}
    /\ UNCHANGED issued

Next == Draws \/ \E ticket \in open : Ends(ticket)

Spec == Init /\ [][Next]_bookVars
=============================================================================
