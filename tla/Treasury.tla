------------------------------ MODULE Treasury ------------------------------
(***************************************************************************)
(* What the treasury promises about the orders of a campaign, with no      *)
(* rows, reversals, locks or stale pages: the parts of each order's        *)
(* proceeds that are on the books, and the balances they add up to.  The   *)
(* proceeds come on whole and go off whole, in one step each; only a       *)
(* booth's share is entered apart from its sum, and only the treasurer     *)
(* takes a part back by itself.                                            *)
(***************************************************************************)
EXTENDS Integers, FiniteSets

CONSTANTS Orders, Booths, Split, Gross, Share

VARIABLES
    money,     \* the parts of an order's proceeds that are on the books
    balance,   \* of the campaign fund, the scouts' fund and the member
    lapsed     \* a repair has written an old sum over a balance

treasuryVars == <<money, balance, lapsed>>

Legs  == {"out", "in"}
Parts == Legs \cup {"deposit", "credit"}

Whole(o) == IF o \in Split \ Booths THEN Parts ELSE {"deposit"}

\* How many orders have a part on the books.
On(k) == Cardinality({o \in Orders : k \in money[o]})

Worth == [campaign |-> Gross * On("deposit") - Share * On("out"),
          scouts   |-> Share * (On("in") + On("credit")),
          member   |-> Share * On("credit")]

Init ==
    /\ money = [o \in Orders |-> {}]
    /\ balance = Worth
    /\ lapsed = FALSE

Enters(o, S) ==
    /\ money[o] \cap S = {}
    /\ money' = [money EXCEPT ![o] = @ \cup S]

Leaves(o, S) == money' = [money EXCEPT ![o] = @ \ S]

Settles(o) == Enters(o, Whole(o))

\* A booth's transfer carries no order, and is left behind.
Cancels(o) == Leaves(o, IF o \in Booths THEN Parts \ Legs ELSE Parts)

Shares(o) == o \in Booths \cap Split /\ (Enters(o, Legs) \/ Enters(o, {"credit"}))

TakesBack(o) == \E k \in money[o] : Leaves(o, {k})

\* Whatever moves, the balances move with it, until a repair is overtaken.
Next ==
    /\ \/ \E o \in Orders : Settles(o) \/ Cancels(o) \/ Shares(o) \/ TakesBack(o)
       \/ UNCHANGED money
    /\ lapsed => lapsed'
    /\ lapsed' \/ balance' = Worth'

Spec == Init /\ [][Next]_treasuryVars
=============================================================================
