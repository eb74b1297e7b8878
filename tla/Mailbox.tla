------------------------------ MODULE Mailbox -------------------------------
(***************************************************************************)
(* What a device should be able to expect of the pending messages the      *)
(* gateway keeps for it (the table pend_msgs): messages reach it in the    *)
(* order they were posted, and a message is retired only after the device  *)
(* has received it.  Retiring a content retires every row that holds it.   *)
(***************************************************************************)
EXTENDS Naturals, Sequences

CONSTANT Msgs   \* message contents

VARIABLES posted,     \* the rows, in the order they were inserted
          retired,    \* the indices of the rows that are done with
          received    \* the contents the device has received

vars == <<posted, retired, received>>

Pending == DOMAIN posted \ retired

Oldest(i) == i \in Pending /\ \A j \in Pending : i <= j

Init ==
  /\ posted = <<>>
  /\ retired = {}
  /\ received = {}

Post(m) ==
  /\ posted' = Append(posted, m)
  /\ UNCHANGED <<retired, received>>

Deliver ==
  /\ \E i \in Pending : Oldest(i) /\ received' = received \cup {posted[i]}
  /\ UNCHANGED <<posted, retired>>

Retire ==
  /\ \E i \in Pending :
       /\ Oldest(i)
       /\ posted[i] \in received
       /\ retired' = retired \cup {j \in DOMAIN posted : posted[j] = posted[i]}
  /\ UNCHANGED <<posted, received>>

Next == (\E m \in Msgs : Post(m)) \/ Deliver \/ Retire

Spec == Init /\ [][Next]_vars
=============================================================================
