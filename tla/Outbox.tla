-------------------------------- MODULE Outbox --------------------------------
(***************************************************************************)
(* What the message queue promises about the order of text messages: a     *)
(* message leaves only while it is the oldest one stored for its           *)
(* recipient.  Several messages to one recipient may be out at once, the   *)
(* order is that of their departure.  A message may be stored late, after  *)
(* a younger one left; the outbox records which were.                      *)
(***************************************************************************)
EXTENDS Naturals, TLAPS

CONSTANTS
    Item,       \* messages
    Dest        \* the recipient of every message

VARIABLES
    box,        \* stored messages
    rank,       \* the time a message was dated, as a position
    out,        \* messages on their way
    late        \* messages stored after a younger one

Before(o, m) == Dest[o] = Dest[m] /\ rank[o] < rank[m]

Init ==
    /\ box = {}
    /\ rank = [m \in Item |-> 0]
    /\ out = {}
    /\ late = {}

\* A message is dated before it is stored.
Date(m) ==
    /\ m \notin box \union out
    /\ rank'[m] \in Nat
    /\ rank' = [rank EXCEPT ![m] = rank'[m]]
    /\ UNCHANGED <<box, out, late>>

Submit(m) ==
    /\ m \notin box \union out
    /\ box' = box \union {m}
    /\ late' \in {late, late \union {m}}
    /\ (\E o \in out : Before(m, o)) => m \in late'
    /\ UNCHANGED <<rank, out>>

Leave(m) ==
    /\ m \in box
    /\ ~\E o \in box : Before(o, m)
    /\ out' = out \union {m}
    /\ UNCHANGED <<box, rank, late>>

\* Messages are deleted, arrive, are lost or wait again.
Settle ==
    /\ box' \subseteq box
    /\ out' \subseteq out
    /\ UNCHANGED <<rank, late>>

Next ==
    \/ \E m \in Item : Date(m) \/ Submit(m) \/ Leave(m)
    \/ Settle

vars == <<box, rank, out, late>>

Spec == Init /\ [][Next]_vars

TypeOK ==
    /\ box \subseteq Item
    /\ rank \in [Item -> Nat]
    /\ out \subseteq Item
    /\ late \subseteq Item

\* No message is out while an older one waits, except those stored late.
InOrder == \A m \in out, o \in box : Before(o, m) => o \in late

-----------------------------------------------------------------------------
LEMMA InitInOrder == Init => TypeOK /\ InOrder
BY DEF Init, TypeOK, InOrder

LEMMA StepInOrder == TypeOK /\ InOrder /\ [Next]_vars => TypeOK' /\ InOrder'
<1> SUFFICES ASSUME TypeOK, InOrder, [Next]_vars PROVE TypeOK' /\ InOrder'
    OBVIOUS
<1>1. ASSUME NEW m \in Item, Date(m) PROVE TypeOK' /\ InOrder'
    <2>1. TypeOK'
        BY <1>1 DEF Date, TypeOK
    <2>2. \A o \in box \union out : rank'[o] = rank[o]
        BY <1>1 DEF Date, TypeOK
    <2> QED BY <1>1, <2>1, <2>2 DEF Date, InOrder, Before
<1>2. ASSUME NEW m \in Item, Submit(m) PROVE TypeOK' /\ InOrder'
    <2>1. TypeOK'
        BY <1>2 DEF Submit, TypeOK
    <2> QED BY <1>2, <2>1 DEF Submit, InOrder, Before
<1>3. ASSUME NEW m \in Item, Leave(m) PROVE TypeOK' /\ InOrder'
    <2>1. TypeOK'
        BY <1>3 DEF Leave, TypeOK
    <2> QED BY <1>3, <2>1 DEF Leave, InOrder, Before
<1>4. CASE Settle
    BY <1>4 DEF Settle, TypeOK, InOrder, Before
<1>5. CASE UNCHANGED vars
    BY <1>5 DEF vars, TypeOK, InOrder, Before
<1> QED BY <1>1, <1>2, <1>3, <1>4, <1>5 DEF Next

\* Whatever is stored, leaves and settles, messages to one recipient leave in the
\* order of their dates, but for those stored late.
THEOREM LeaveInOrder == Spec => []InOrder
BY InitInOrder, StepInOrder, PTL DEF Spec
=============================================================================
