----------------------------- MODULE Reconciler -----------------------------
(***************************************************************************)
(* What the switch plugin promises: whatever the database asks for, one    *)
(* reconfiguration makes the switching hardware carry every tree's VLANs   *)
(* exactly, and open no interface wider than the database says.  On a tree *)
(* that is not Exact it may leave an interface closed.                     *)
(***************************************************************************)
CONSTANTS Tree,     \* the CIST and the MSTIs
          Exact,    \* the trees on which no interface is left closed
          Vlan, Intf,
          State,    \* the states of an interface on a tree
          Closed,   \* the states in which an interface passes nothing
          Any       \* the database does not say

VARIABLES wantVlans, wantState, \* what the database asks for
          haveVlans, haveState  \* what the hardware does

want == <<wantVlans, wantState>>
have == <<haveVlans, haveState>>

Allowed(t, x) ==
  IF wantState[t][x] = Any THEN State
  ELSE {wantState[t][x]} \cup (IF t \in Exact THEN {} ELSE Closed)

Obeys == /\ haveVlans = wantVlans
         /\ \A t \in Tree, x \in Intf : haveState[t][x] \in Allowed(t, x)

WantOK == /\ wantVlans \in [Tree -> SUBSET Vlan]
          /\ wantState \in [Tree -> [Intf -> State \cup {Any}]]
HaveOK == /\ haveVlans \in [Tree -> SUBSET Vlan]
          /\ haveState \in [Tree -> [Intf -> State]]

Init == WantOK /\ HaveOK

Change == WantOK' /\ UNCHANGED have

Reconcile == HaveOK' /\ Obeys' /\ UNCHANGED want

Next == Change \/ Reconcile

Spec == Init /\ [][Next]_<<want, have>>
=============================================================================
