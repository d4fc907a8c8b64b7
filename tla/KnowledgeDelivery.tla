-------------------------- MODULE KnowledgeDelivery --------------------------
(***************************************************************************)
(* What the sediment writer and its publisher promise about an accepted    *)
(* knowledge event, with receipts, barrier, processes and crashes left     *)
(* out: work is accepted while its intake window is open, and once the     *)
(* window is closed it is delivered to the canonical branch or visibly     *)
(* refused, the events of a merge together and once.                       *)
(***************************************************************************)
EXTENDS FiniteSets

CONSTANTS
    Items,        \* publication work, one L1 event each
    Windows,      \* intake windows
    WindowOf,     \* [Items -> Windows]
    GroupOf       \* [Items -> SUBSET Items], the merge an item belongs to

VARIABLES
    open,         \* windows whose intake is pending
    accepted,     \* events durable in canonical L1
    delivered,    \* events in the tree of the canonical branch
    refused       \* work that failed for good

deliveryVars == <<open, accepted, delivered, refused>>

Settled == delivered \cup refused
Closed(i) == WindowOf[i] \notin open
Deliverable(i) == Closed(i) /\ GroupOf[i] \subseteq accepted

Init ==
    /\ open = Windows
    /\ accepted = {}
    /\ delivered = {}
    /\ refused = {}

Accept ==
    /\ \E i \in Items \ accepted : accepted' = accepted \cup {i}
    /\ UNCHANGED <<open, delivered, refused>>

Close ==
    /\ \E w \in open : open' = open \ {w}
    /\ UNCHANGED <<accepted, delivered, refused>>

Deliver ==
    /\ \E work \in SUBSET (accepted \ Settled) :
          /\ work # {}
          /\ \A i \in work : Closed(i) /\ GroupOf[i] \subseteq work
          /\ delivered' = delivered \cup work
    /\ UNCHANGED <<open, accepted, refused>>

Refuse ==
    /\ \E i \in Items \ Settled :
          Closed(i) /\ refused' = refused \cup {i}
    /\ UNCHANGED <<open, accepted, delivered>>

Next == Accept \/ Close \/ Deliver \/ Refuse

(* Deliverable work is settled in the end.                                  *)
Delivery == \A i \in Items : Deliverable(i) ~> i \in Settled

Spec == Init /\ [][Next]_deliveryVars
=============================================================================
