------------------------- MODULE PointOrderContract -------------------------
(***************************************************************************)
(* What a purchase with points promises, without handlers, transactions or  *)
(* locks: an order (an exchange, a gifticon redemption) takes the points of *)
(* its user at once, and is then either completed, or undone with the       *)
(* points given back, once.                                                 *)
(***************************************************************************)
EXTENDS Integers, FiniteSets, Functions

CONSTANTS Users, Orders, LegalAmounts, InitialPoints, None

VARIABLES
  balance,  \* the points of each user
  deal      \* deal[o]: what has become of order o

contractVars == <<balance, deal>>

NoDeal == [state |-> "none", user |-> None, amount |-> 0]

ContractInit ==
  /\ balance = [u \in Users |-> InitialPoints]
  /\ deal = [o \in Orders |-> NoDeal]

Ask(u, o, a) ==
  /\ deal[o] = NoDeal
  /\ balance[u] >= a
  /\ balance' = [balance EXCEPT ![u] = @ - a]
  /\ deal' = [deal EXCEPT ![o] = [state |-> "open", user |-> u, amount |-> a]]

Complete(o) ==
  /\ deal[o].state = "open"
  /\ deal' = [deal EXCEPT ![o].state = "completed"]
  /\ UNCHANGED balance

Undo(o) ==
  /\ deal[o].state = "open"
  /\ deal' = [deal EXCEPT ![o].state = "undone"]
  /\ balance' = [balance EXCEPT ![deal[o].user] = @ + deal[o].amount]

ContractNext ==
  \E o \in Orders :
    \/ \E u \in Users, a \in LegalAmounts : Ask(u, o, a)
    \/ Complete(o)
    \/ Undo(o)

ContractSpec == ContractInit /\ [][ContractNext]_contractVars

-----------------------------------------------------------------------------
\* The orders that hold points of u, and what they hold.
HeldBy(u) == {o \in Orders : deal[o].user = u /\ deal[o].state # "undone"}

Held(u) == SumFunctionOnSet([o \in Orders |-> deal[o].amount], HeldBy(u))

\* Points are neither made nor lost: what a user has, and what the open and
\* completed orders hold of it, is what the user began with.
Conserved == \A u \in Users : balance[u] + Held(u) = InitialPoints

\* What makes it inductive: at any time a user has made finitely many orders.
Deal == [state: {"open", "completed", "undone"}, user: Users, amount: Nat]

ContractInv ==
  /\ balance \in [Users -> Int]
  /\ \A o \in Orders : deal[o] \in Deal \cup {NoDeal}
  /\ \A u \in Users : IsFiniteSet(HeldBy(u))
  /\ Conserved
=============================================================================
