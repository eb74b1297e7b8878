------------------------- MODULE PendDeliveryProofs -------------------------
(***************************************************************************)
(* Proofs about PendDelivery for any contents, threads, retries and        *)
(* bounds, in three parts.  When rows come back oldest first, a handler    *)
(* that stops early has had its row retired, whatever the device and the   *)
(* network do.  When moreover the device acknowledges each content once    *)
(* and the network duplicates no acknowledgement, there is never more than *)
(* one acknowledgement on its way, it is the oldest row's, and the table   *)
(* implements the mailbox.  And with one thread no handler stops early.    *)
(***************************************************************************)
EXTENDS PendDelivery, FiniteSetTheorems, TLAPS

Oldest(i) == i \in Unacked /\ \A j \in Unacked : i <= j

(* The row a PEND_REQ handler sends stays first until it is retired. *)
RowHeld ==
  \A t \in Threads :
    pc[t] \in {"PendSend", "PendPoll"} => row[t] \in acked \/ Oldest(row[t])

RetiredWhenStopped ==
  \A t \in Threads : received_ack[t] => pc[t] = "free" /\ row[t] \in acked

OrderedInv == TypeOK /\ RowHeld /\ RetiredWhenStopped

-----------------------------------------------------------------------------
(* Types. *)

LEMMA InitType == Init => TypeOK
<1> SUFFICES ASSUME Init PROVE TypeOK
  OBVIOUS
<1>1. TableType
  BY DEF Init, TableType
<1>2. NetworkType
  BY PendDeliveryAssumption DEF Init, NetworkType
<1>3. ThreadType
  BY PendDeliveryAssumption DEF Init, ThreadType, Steps
<1>4. FaultType
  BY PendDeliveryAssumption DEF Init, FaultType
<1> QED
  BY <1>1, <1>2, <1>3, <1>4 DEF TypeOK

(* The table only grows: rows are appended, and acknowledgements stay.     *)
TableGrows ==
  /\ rows' = rows \/ \E m \in Msgs : rows' = Append(rows, m)
  /\ acked \subseteq acked'
  /\ acked' \subseteq DOMAIN rows'

LEMMA TableStep == TypeOK /\ [Next]_vars => TableGrows
<1> SUFFICES ASSUME TypeOK, [Next]_vars PROVE TableGrows
  OBVIOUS
<1> USE DEF TypeOK, TableType, TableGrows
<1>1. ASSUME NEW m \in Msgs, Insert(m) PROVE TableGrows
  BY <1>1 DEF Insert
<1>2. ASSUME NEW t \in Threads, StatUpdate(t) PROVE TableGrows
  BY <1>2 DEF StatUpdate, RowsUpdated
<1>3. ASSUME UNCHANGED table PROVE TableGrows
  BY <1>3 DEF table
<1>4. \/ \E m \in Msgs : Insert(m)
      \/ \E t \in Threads : StatUpdate(t)
      \/ UNCHANGED table
  BY DEF Next, vars, table, Environment, Handler, DeviceReceives, LoseMessage,
     DeviceRequests, LoseRequest, LoseAck, DuplicateAck, ReceiveRequest, ReceiveAck,
     Start, PendReqSelect, PendSend, PendPoll, StatSelect, Free, Crash
<1> QED
  BY <1>1, <1>2, <1>3, <1>4

LEMMA GrowingTable ==
  ASSUME TableType, TableGrows
  PROVE  /\ TableType'
         /\ DOMAIN rows \subseteq DOMAIN rows'
         /\ \A i \in DOMAIN rows : rows'[i] = rows[i]
         /\ \A i \in DOMAIN rows, j \in DOMAIN rows' \ DOMAIN rows : i < j
<1>1. CASE rows' = rows
  BY <1>1 DEF TableType, TableGrows
<1>2. ASSUME NEW m \in Msgs, rows' = Append(rows, m) 
      PROVE  /\ TableType'
             /\ DOMAIN rows \subseteq DOMAIN rows'
             /\ \A i \in DOMAIN rows : rows'[i] = rows[i]
             /\ \A i \in DOMAIN rows, j \in DOMAIN rows' \ DOMAIN rows : i < j
  BY <1>2 DEF TableType, TableGrows
<1> QED
  BY <1>1, <1>2 DEF TableGrows

LEMMA NetworkStep == TypeOK /\ [Next]_vars => NetworkType'
<1> SUFFICES ASSUME TypeOK, [Next]_vars PROVE NetworkType'
  OBVIOUS
<1> RequestCap \in Nat /\ NetCap \in Nat
  BY PendDeliveryAssumption
<1> USE DEF TypeOK, NetworkType
<1>1. CASE \/ DeviceRequests \/ LoseRequest \/ LoseAck \/ DuplicateAck
           \/ ReceiveRequest \/ ReceiveAck
  <2>1. UNCHANGED <<downlink, received>>
    BY <1>1 DEF DeviceRequests, LoseRequest, LoseAck, DuplicateAck, ReceiveRequest, ReceiveAck
  <2>2. requests' \in 0 .. RequestCap
    BY <1>1 DEF DeviceRequests, LoseRequest, LoseAck, DuplicateAck, ReceiveRequest, ReceiveAck
  <2>3. acks' \in 0 .. NetCap
    BY <1>1 DEF DeviceRequests, LoseRequest, LoseAck, DuplicateAck, ReceiveRequest, ReceiveAck
  <2> QED
    BY <2>1, <2>2, <2>3
<1>2. ASSUME NEW m \in Msgs, DeviceReceives(m) \/ LoseMessage(m) PROVE NetworkType'
  BY <1>2 DEF DeviceReceives, LoseMessage
<1>3. ASSUME NEW t \in Threads, PendSend(t) PROVE NetworkType'
  <2>1. pc[t] \in {"PendSend", "PendPoll", "StatUpdate"}
    BY <1>3 DEF PendSend
  <2>2. rows[row[t]] \in Msgs
    BY <2>1 DEF TableType, ThreadType
  <2> QED
    BY <1>3, <2>2 DEF PendSend
<1>4. CASE UNCHANGED <<requests, acks, downlink, received>>
  BY <1>4
<1>5. \/ DeviceRequests \/ LoseRequest \/ LoseAck \/ DuplicateAck
      \/ ReceiveRequest \/ ReceiveAck
      \/ \E m \in Msgs : DeviceReceives(m) \/ LoseMessage(m)
      \/ \E t \in Threads : PendSend(t)
      \/ UNCHANGED <<requests, acks, downlink, received>>
  BY DEF Next, vars, network, Environment, Handler, Insert, Start, PendReqSelect, PendPoll,
     StatSelect, StatUpdate, Free, Crash
<1> QED
  BY <1>1, <1>2, <1>3, <1>4, <1>5

LEMMA FaultStep == TypeOK /\ [Next]_vars => FaultType'
<1> SUFFICES ASSUME TypeOK, [Next]_vars PROVE FaultType'
  OBVIOUS
<1> MaxDuplicates \in Nat /\ MaxDbFailures \in Nat /\ MaxCrashes \in Nat
  BY PendDeliveryAssumption
<1> USE DEF TypeOK, FaultType
<1>1. CASE DuplicateAck \/ Crash
  BY <1>1 DEF DuplicateAck, Crash
<1>2. CASE /\ UNCHANGED duplicates /\ UNCHANGED crashes
           /\ UNCHANGED db_failures \/ \E ok \in BOOLEAN : QueryOutcome(ok)
  BY <1>2 DEF QueryOutcome
<1>3. CASE UNCHANGED faults
  BY <1>3 DEF faults
<1>4. \/ DuplicateAck \/ Crash
      \/ /\ UNCHANGED duplicates /\ UNCHANGED crashes
         /\ UNCHANGED db_failures \/ \E ok \in BOOLEAN : QueryOutcome(ok)
      \/ UNCHANGED faults
  BY DEF Next, vars, faults, Environment, Handler, Insert, DeviceReceives, LoseMessage,
     DeviceRequests, LoseRequest, LoseAck, ReceiveRequest, ReceiveAck, Start,
     PendReqSelect, PendSend, PendPoll, StatSelect, StatUpdate, Free
<1> QED
  BY <1>1, <1>2, <1>3, <1>4

(* What a step of one thread does to that thread; the others keep theirs.  *)
LEMMA ThreadStep == TypeOK /\ [Next]_vars => ThreadType'
<1> SUFFICES ASSUME TypeOK, [Next]_vars PROVE ThreadType'
  OBVIOUS
<1> PEND_SEND_RETRIES_MAX \in Nat
  BY PendDeliveryAssumption
<1> USE DEF TypeOK, ThreadType
<1>1. /\ DOMAIN rows \subseteq DOMAIN rows'
      /\ FirstRows \subseteq DOMAIN rows
      /\ DOMAIN rows \subseteq Nat
  BY TableStep, GrowingTable DEF FirstRows, Unacked, TableType
<1>2. CASE ReceiveRequest \/ ReceiveAck
  <2>1. waiting' \in Seq(Kinds)
    <3>1. PICK kind \in Kinds : waiting' = Append(waiting, kind)
      BY <1>2, Zenon DEF ReceiveRequest, ReceiveAck, Kinds
    <3> QED
      BY <3>1
  <2>2. UNCHANGED <<pc, row, retries, received_ack>>
    BY <1>2, Zenon DEF ReceiveRequest, ReceiveAck, locals
  <2> QED
    BY <1>1, <2>1, <2>2
<1>3. ASSUME NEW t \in Threads, Start(t) PROVE ThreadType'
  BY <1>1, <1>3 DEF Start, Steps, Kinds, locals, table
<1>4. ASSUME NEW t \in Threads, PendReqSelect(t) PROVE ThreadType'
  <2>1. CASE /\ pc' = [pc EXCEPT ![t] = "free"]
             /\ UNCHANGED <<row, retries>>
    BY <1>1, <1>4, <2>1 DEF PendReqSelect, Steps
  <2>2. ASSUME NEW i \in FirstRows,
               row' = [row EXCEPT ![t] = i],
               retries' = [retries EXCEPT ![t] = PEND_SEND_RETRIES_MAX],
               pc' = [pc EXCEPT ![t] = "PendSend"]
        PROVE  ThreadType'
    BY <1>1, <1>4, <2>2 DEF PendReqSelect, Steps
  <2> QED
    BY <1>4, <2>1, <2>2 DEF PendReqSelect
<1>5. ASSUME NEW t \in Threads, PendSend(t) PROVE ThreadType'
  BY <1>1, <1>5 DEF PendSend, Steps, locals, table
<1>6. ASSUME NEW t \in Threads, PendPoll(t) PROVE ThreadType'
  <2>1. PICK gone \in BOOLEAN :
          /\ received_ack' = [received_ack EXCEPT ![t] = gone]
          /\ \/ /\ MayRetry(t)
                /\ retries' = [retries EXCEPT ![t] = @ - 1]
                /\ pc' = [pc EXCEPT ![t] = "PendSend"]
             \/ /\ pc' = [pc EXCEPT ![t] = "free"]
                /\ UNCHANGED retries
    BY <1>6, Zenon DEF PendPoll
  <2>2. received_ack' \in [Threads -> BOOLEAN]
    BY <2>1, Zenon
  <2>3. retries' \in [Threads -> 0 .. PEND_SEND_RETRIES_MAX]
    <3>1. CASE MayRetry(t) /\ retries' = [retries EXCEPT ![t] = @ - 1]
      BY <3>1 DEF MayRetry
    <3>2. CASE UNCHANGED retries
      BY <3>2
    <3> QED
      BY <2>1, <3>1, <3>2
  <2>6. pc' \in [Threads -> Steps]
    BY <2>1 DEF Steps
  <2>4. UNCHANGED <<waiting, row>> /\ pc[t] = "PendPoll"
    BY <1>6 DEF PendPoll
  <2>5. \A u \in Threads :
          pc'[u] \in {"PendSend", "PendPoll", "StatUpdate"} => row[u] \in DOMAIN rows
    BY <2>1, <2>4
  <2> QED
    BY <1>1, <2>2, <2>3, <2>4, <2>5, <2>6
<1>7. ASSUME NEW t \in Threads, StatSelect(t) PROVE ThreadType'
  BY <1>1, <1>7 DEF StatSelect, Steps, table
<1>8. ASSUME NEW t \in Threads, StatUpdate(t) PROVE ThreadType'
  BY <1>1, <1>8 DEF StatUpdate, Steps, locals
<1>9. ASSUME NEW t \in Threads, Free(t) PROVE ThreadType'
  BY <1>1, <1>9 DEF Free, Steps, table
<1>10. CASE Crash
  BY <1>1, <1>10 DEF Crash, Steps, table
<1>11. CASE UNCHANGED <<waiting, pc, row, retries, received_ack>>
  BY <1>1, <1>11
<1>12. \/ ReceiveRequest \/ ReceiveAck
       \/ \E t \in Threads : Handler(t)
       \/ Crash
       \/ UNCHANGED <<waiting, pc, row, retries, received_ack>>
  BY DEF Next, vars, locals, Environment, Insert, DeviceReceives, LoseMessage,
     DeviceRequests, LoseRequest, LoseAck, DuplicateAck
<1> QED
  BY <1>2, <1>3, <1>4, <1>5, <1>6, <1>7, <1>8, <1>9, <1>10, <1>11, <1>12 DEF Handler

LEMMA TypeStep == TypeOK /\ [Next]_vars => TypeOK'
<1>1. TypeOK /\ [Next]_vars => TableType'
  BY TableStep, GrowingTable DEF TypeOK
<1> QED
  BY <1>1, NetworkStep, ThreadStep, FaultStep DEF TypeOK

(* The shapes of the program's variables, under any interleaving.          *)
THEOREM TypeCorrect == Spec => []TypeOK
<1> QED
  BY InitType, TypeStep, PTL DEF Spec

-----------------------------------------------------------------------------
(* A row that is first stays first until it is retired.                    *)
LEMMA OldestStays ==
  ASSUME TypeOK, [Next]_vars, NEW i, Oldest(i)
  PROVE  i \in acked' \/ Oldest(i)'
<1>1. TableGrows /\ TableType
  BY TableStep DEF TypeOK
<1>2. /\ acked \subseteq acked'
      /\ DOMAIN rows \subseteq DOMAIN rows'
      /\ DOMAIN rows' \subseteq Nat
      /\ \A k \in DOMAIN rows, j \in DOMAIN rows' \ DOMAIN rows : k < j
  BY <1>1, GrowingTable DEF TableGrows, TableType
<1>3. i \in DOMAIN rows
  BY DEF Oldest, Unacked
<1>4. ASSUME i \notin acked', NEW j \in Unacked' PROVE i <= j
  BY <1>2, <1>3, <1>4 DEF Oldest, Unacked
<1> QED
  BY <1>2, <1>3, <1>4 DEF Oldest, Unacked

(* With an ordered scan the first row of a SELECT is the oldest.           *)
LEMMA FirstIsOldest ==
  ASSUME OrderedScan
  PROVE  \A i : i \in FirstRows <=> Oldest(i)
  BY DEF FirstRows, Oldest

LEMMA RowHeldStep ==
  ASSUME OrderedScan, TypeOK, RowHeld, [Next]_vars
  PROVE  RowHeld'
<1> SUFFICES ASSUME NEW t \in Threads, pc'[t] \in {"PendSend", "PendPoll"}
             PROVE  (row[t] \in acked \/ Oldest(row[t]))'
  BY DEF RowHeld
<1>1. ASSUME pc[t] \in {"PendSend", "PendPoll"}, row'[t] = row[t]
      PROVE  (row[t] \in acked \/ Oldest(row[t]))'
  <2>1. PICK i : i = row[t]
    OBVIOUS
  <2>2. i \in acked \/ Oldest(i)
    BY <1>1, <2>1 DEF RowHeld
  <2>3. i \in acked' \/ Oldest(i)'
    BY <2>2, TableStep, OldestStays DEF TableGrows
  <2>4. row'[t] = i
    BY <1>1, <2>1
  <2> QED
    BY <2>3, <2>4 DEF Oldest
<1>2. ASSUME UNCHANGED table, row'[t] \in FirstRows
      PROVE  (row[t] \in acked \/ Oldest(row[t]))'
  <2>1. Oldest(row'[t])
    BY <1>2, FirstIsOldest
  <2> QED
    BY <1>2, <2>1 DEF table, Oldest, Unacked
<1>3. \/ /\ pc[t] \in {"PendSend", "PendPoll"}
         /\ row'[t] = row[t]
      \/ UNCHANGED table /\ row'[t] \in FirstRows
  <2> USE DEF TypeOK, ThreadType
  <2>1. ASSUME NEW u \in Threads, Start(u) PROVE <1>3
    BY <2>1 DEF Start, locals
  <2>2. ASSUME NEW u \in Threads, PendReqSelect(u) PROVE <1>3
    BY <2>2 DEF PendReqSelect
  <2>3. ASSUME NEW u \in Threads, PendSend(u) PROVE <1>3
    BY <2>3 DEF PendSend, locals
  <2>4. ASSUME NEW u \in Threads, PendPoll(u) PROVE <1>3
    BY <2>4 DEF PendPoll
  <2>5. ASSUME NEW u \in Threads, StatSelect(u) PROVE <1>3
    BY <2>5 DEF StatSelect
  <2>6. ASSUME NEW u \in Threads, StatUpdate(u) PROVE <1>3
    BY <2>6 DEF StatUpdate, locals
  <2>7. ASSUME NEW u \in Threads, Free(u) PROVE <1>3
    BY <2>7 DEF Free
  <2>8. CASE Crash
    BY <2>8 DEF Crash
  <2>9. CASE UNCHANGED <<pc, row>>
    BY <2>9
  <2>10. \/ \E u \in Threads : Handler(u)
         \/ Crash
         \/ UNCHANGED <<pc, row>>
    BY DEF Next, vars, locals, Environment, Insert, DeviceReceives, LoseMessage,
       DeviceRequests, LoseRequest, LoseAck, DuplicateAck, ReceiveRequest, ReceiveAck
  <2> QED
    BY <2>1, <2>2, <2>3, <2>4, <2>5, <2>6, <2>7, <2>8, <2>9, <2>10 DEF Handler
<1> QED
  BY <1>1, <1>2, <1>3

(* The poll of thread u finds the first row changed only if u's row has    *)
(* been retired: as long as it has not, it IS the first row.               *)
LEMMA PollMeansRetired ==
  ASSUME OrderedScan, TypeOK, RowHeld, NEW u \in Threads, NEW ok \in BOOLEAN,
         pc[u] = "PendPoll", PollSays(u, ok, TRUE)
  PROVE  row[u] \in acked
<1>1. CASE row[u] \in acked
  BY <1>1
<1>2. CASE Oldest(row[u])
  <2>1. row[u] \in FirstRows
    BY <1>2, FirstIsOldest
  <2>2. ASSUME NEW i \in FirstRows PROVE rows[i] = rows[row[u]]
    <3>1. Oldest(i) /\ Unacked \subseteq Nat
      BY FirstIsOldest DEF TypeOK, TableType, Unacked
    <3>2. i \in Nat /\ row[u] \in Nat
      BY <1>2, <3>1 DEF Oldest
    <3>3. i <= row[u] /\ row[u] <= i
      BY <1>2, <3>1 DEF Oldest
    <3> QED
      BY <3>2, <3>3
  <2>3. \A i \in FirstRows : ~SeenAcked(u, i)
    BY <2>2 DEF SeenAcked
  <2>4. ok
    BY <2>3, Zenon DEF PollSays
  <2> QED
    BY <2>1, <2>3, <2>4, Zenon DEF PollSays
<1> QED
  BY <1>1, <1>2 DEF RowHeld

LEMMA RetiredWhenStoppedStep ==
  ASSUME OrderedScan, TypeOK, RowHeld, RetiredWhenStopped, [Next]_vars
  PROVE  RetiredWhenStopped'
<1> USE DEF TypeOK, ThreadType
<1> SUFFICES ASSUME NEW t \in Threads, received_ack'[t]
             PROVE  pc'[t] = "free" /\ row'[t] \in acked'
  BY DEF RetiredWhenStopped
<1>1. acked \subseteq acked'
  BY TableStep DEF TableGrows
<1>2. received_ack[t] => pc[t] = "free" /\ row[t] \in acked
  BY DEF RetiredWhenStopped
<1>3. ASSUME NEW u \in Threads, u # t,
             /\ \E x : pc' = [pc EXCEPT ![u] = x]
             /\ row' = row \/ \E x : row' = [row EXCEPT ![u] = x]
             /\ received_ack' = received_ack \/ \E x : received_ack' = [received_ack EXCEPT ![u] = x]
      PROVE  pc'[t] = "free" /\ row'[t] \in acked'
  <2>1. pc'[t] = pc[t] /\ row'[t] = row[t]
    BY <1>3
  <2>2. received_ack'[t] = received_ack[t]
    BY <1>3, Zenon
  <2> QED
    BY <1>1, <1>2, <2>1, <2>2
<1>4. ASSUME NEW u \in Threads, Handler(u), u # t
      PROVE  pc'[t] = "free" /\ row'[t] \in acked'
  <2>1. \E x : pc' = [pc EXCEPT ![u] = x]
    BY <1>4, Zenon DEF Handler, Start, PendReqSelect, PendSend, PendPoll, StatSelect, StatUpdate, Free
  <2>2. row' = row \/ \E x : row' = [row EXCEPT ![u] = x]
    BY <1>4, Zenon DEF Handler, Start, PendReqSelect, PendSend, PendPoll, StatSelect, StatUpdate, Free, locals
  <2>3. received_ack' = received_ack \/ \E x : received_ack' = [received_ack EXCEPT ![u] = x]
    BY <1>4, Zenon DEF Handler, Start, PendReqSelect, PendSend, PendPoll, StatSelect, StatUpdate, Free, locals
  <2> QED
    BY <1>3, <1>4, <2>1, <2>2, <2>3
<1>5. ASSUME PendPoll(t)
      PROVE  pc'[t] = "free" /\ row'[t] \in acked'
  <2>1. PICK ok \in BOOLEAN, gone \in BOOLEAN :
          /\ PollSays(t, ok, gone)
          /\ received_ack' = [received_ack EXCEPT ![t] = gone]
          /\ gone => pc' = [pc EXCEPT ![t] = "free"]
    BY <1>5, Zenon DEF PendPoll
  <2>2. gone = TRUE
    BY <2>1, Zenon
  <2>3. row[t] \in acked
    BY <1>5, <2>1, <2>2, PollMeansRetired, Zenon DEF PendPoll
  <2>4. row' = row
    BY <1>5 DEF PendPoll
  <2>5. pc' = [pc EXCEPT ![t] = "free"]
    BY <2>1, <2>2
  <2> QED
    BY <1>1, <2>3, <2>4, <2>5
<1>6. ASSUME \/ Start(t) \/ PendReqSelect(t) \/ PendSend(t) \/ StatSelect(t) \/ StatUpdate(t)
      PROVE  FALSE
  <2>1. pc[t] # "free"
    BY <1>6 DEF Start, PendReqSelect, PendSend, StatSelect, StatUpdate
  <2>2. received_ack' = received_ack
    BY <1>6, Zenon DEF Start, PendReqSelect, PendSend, StatSelect, StatUpdate, locals
  <2> QED
    BY <1>2, <2>1, <2>2
<1>7. ASSUME Free(t) \/ Crash PROVE FALSE
  BY <1>7, Zenon DEF Free, Crash
<1>8. ASSUME UNCHANGED <<pc, row, received_ack>>
      PROVE  pc'[t] = "free" /\ row'[t] \in acked'
  BY <1>1, <1>2, <1>8
<1>9. \/ \E u \in Threads : Handler(u)
      \/ Crash
      \/ UNCHANGED <<pc, row, received_ack>>
  BY Zenon DEF Next, vars, locals, Environment, Insert, DeviceReceives, LoseMessage,
     DeviceRequests, LoseRequest, LoseAck, DuplicateAck, ReceiveRequest, ReceiveAck
<1> QED
  BY <1>4, <1>5, <1>6, <1>7, <1>8, <1>9 DEF Handler

LEMMA InitOrderedInv == Init => OrderedInv
<1>1. ASSUME Init PROVE RowHeld
  BY <1>1 DEF Init, RowHeld
<1>2. ASSUME Init PROVE RetiredWhenStopped
  BY <1>2, Zenon DEF Init, RetiredWhenStopped
<1> QED
  BY <1>1, <1>2, InitType DEF OrderedInv

LEMMA OrderedInvHolds ==
  ASSUME OrderedScan
  PROVE  Spec => []OrderedInv
<1>1. OrderedInv /\ [Next]_vars => OrderedInv'
  BY TypeStep, RowHeldStep, RetiredWhenStoppedStep DEF OrderedInv
<1> QED
  BY <1>1, InitOrderedInv, PTL DEF Spec

(* When a SELECT returns the oldest row first, a PEND_REQ handler that     *)
(* sets received_ack has had the row it sent retired, whatever the device, *)
(* the network, failing queries and restarts do.                           *)
THEOREM EarlyStopIsRetirement ==
  ASSUME OrderedScan
  PROVE  Spec => []EarlyStopMeansRetired
<1>1. OrderedInv => EarlyStopMeansRetired
  BY DEF OrderedInv, RetiredWhenStopped, EarlyStopMeansRetired
<1> QED
  BY <1>1, OrderedInvHolds, PTL

-----------------------------------------------------------------------------
(* A pool of one thread: nobody can retire the row while it is sent.       *)

Lone == \A s, u \in Threads : s = u

LoneInv ==
  \A t \in Threads :
    /\ ~received_ack[t]
    /\ pc[t] \in {"PendSend", "PendPoll"} => row[t] \notin acked

LEMMA LoneInvStep ==
  ASSUME OrderedScan, Lone, OrderedInv, LoneInv, [Next]_vars
  PROVE  LoneInv'
<1> USE DEF LoneInv, OrderedInv, TypeOK, ThreadType
<1>1. ASSUME UNCHANGED <<acked, pc, row, received_ack>> PROVE LoneInv'
  BY <1>1
<1>2. ASSUME NEW t \in Threads, Handler(t) PROVE LoneInv'
  <2>1. \A u \in Threads : u = t
    BY DEF Lone
  <2>2. CASE Start(t)
    BY <2>1, <2>2 DEF Start, locals
  <2>3. CASE PendReqSelect(t)
    <3>1. acked' = acked /\ received_ack' = received_ack
      BY <2>3 DEF PendReqSelect, table
    <3>2. pc'[t] \in {"PendSend", "PendPoll"} => row'[t] \in FirstRows
      BY <2>3 DEF PendReqSelect
    <3> QED
      BY <2>1, <3>1, <3>2 DEF FirstRows, Unacked
  <2>4. CASE PendSend(t)
    BY <2>1, <2>4 DEF PendSend, locals, table
  <2>5. CASE PendPoll(t)
    <3>1. PICK ok \in BOOLEAN, gone \in BOOLEAN :
            /\ PollSays(t, ok, gone)
            /\ received_ack' = [received_ack EXCEPT ![t] = gone]
      BY <2>5 DEF PendPoll
    <3>2. pc[t] = "PendPoll" /\ row' = row /\ acked' = acked
      BY <2>5 DEF PendPoll, table
    <3>3. ~gone
      BY <3>1, <3>2, PollMeansRetired
    <3> QED
      BY <2>1, <3>1, <3>2, <3>3
  <2>6. CASE StatSelect(t)
    BY <2>1, <2>6 DEF StatSelect, table
  <2>7. CASE StatUpdate(t)
    BY <2>1, <2>7 DEF StatUpdate, locals
  <2>8. CASE Free(t)
    BY <2>1, <2>8 DEF Free, table
  <2> QED
    BY <1>2, <2>2, <2>3, <2>4, <2>5, <2>6, <2>7, <2>8 DEF Handler
<1>3. CASE Crash
  BY <1>3 DEF Crash
<1>4. \/ \E t \in Threads : Handler(t)
      \/ Crash
      \/ UNCHANGED <<acked, pc, row, received_ack>>
  BY DEF Next, vars, table, locals, Environment, Insert, DeviceReceives, LoseMessage,
     DeviceRequests, LoseRequest, LoseAck, DuplicateAck, ReceiveRequest, ReceiveAck
<1> QED
  BY <1>1, <1>2, <1>3, <1>4

(* With a pool of one thread no PEND_REQ handler sees its acknowledgement, *)
(* however many retries it has: it sends all its copies.                   *)
THEOREM LoneThreadSendsAll ==
  ASSUME OrderedScan
  PROVE  Spec => []LoneThreadNeverSeesAck
<1>1. CASE Cardinality(Threads) = 1
  <2>1. Lone
    BY <1>1, FS_Singleton, PendDeliveryAssumption DEF Lone
  <2>2. Init => LoneInv
    BY DEF Init, LoneInv
  <2>3. OrderedInv /\ LoneInv /\ [Next]_vars => LoneInv'
    BY <2>1, LoneInvStep
  <2>4. LoneInv => LoneThreadNeverSeesAck
    BY DEF LoneInv, LoneThreadNeverSeesAck
  <2> QED
    BY <2>2, <2>3, <2>4, OrderedInvHolds, PTL DEF Spec
<1>2. CASE Cardinality(Threads) # 1
  <2>1. LoneThreadNeverSeesAck
    BY <1>2 DEF LoneThreadNeverSeesAck
  <2>2. [](Cardinality(Threads) # 1 => LoneThreadNeverSeesAck)
    <3>1. Cardinality(Threads) # 1 => LoneThreadNeverSeesAck
      BY DEF LoneThreadNeverSeesAck
    <3> QED
      BY <3>1, PTL
  <2> QED
    BY <1>2, <2>2, PTL
<1> QED
  BY <1>1, <1>2

-----------------------------------------------------------------------------
(* A device that acknowledges each content once, on a network that does    *)
(* not duplicate its acknowledgements.                                     *)
OncePerContent == OrderedScan /\ ~AckEveryCopy /\ MaxDuplicates = 0

StatWaiting == \E i \in DOMAIN waiting : waiting[i] = "STAT"

StatThread(t) == pc[t] \in {"StatSelect", "StatUpdate"}

(* An acknowledgement is on the network, in the queue or being handled,    *)
(* and there is only one.                                                  *)
OneAck ==
  /\ acks <= 1
  /\ acks > 0 => ~StatWaiting /\ \A t \in Threads : ~StatThread(t)
  /\ \A i, j \in DOMAIN waiting : waiting[i] = "STAT" /\ waiting[j] = "STAT" => i = j
  /\ StatWaiting => \A t \in Threads : ~StatThread(t)
  /\ \A t, u \in Threads : StatThread(t) /\ StatThread(u) => t = u

AckOutstanding == acks > 0 \/ StatWaiting \/ \E t \in Threads : StatThread(t)

OldestReceived == \E i \in Unacked : Oldest(i) /\ rows[i] \in received

AckIsOldests == AckOutstanding => OldestReceived

UpdateHoldsOldest ==
  \A t \in Threads : pc[t] = "StatUpdate" => Oldest(row[t])

AckedReceived == \A i \in acked : rows[i] \in received

InFlightIsOldest ==
  \A m \in Msgs : downlink[m] > 0 =>
     m \in received \/ \E i \in Unacked : Oldest(i) /\ rows[i] = m

OnceInv ==
  /\ OrderedInv
  /\ OneAck
  /\ AckIsOldests
  /\ UpdateHoldsOldest
  /\ AckedReceived
  /\ InFlightIsOldest

LEMMA InitOnceInv == Init => OnceInv
<1> SUFFICES ASSUME Init PROVE OnceInv
  OBVIOUS
<1>1. OneAck /\ ~AckOutstanding
  BY DEF Init, OneAck, AckOutstanding, StatWaiting, StatThread
<1>2. UpdateHoldsOldest /\ AckedReceived /\ InFlightIsOldest
  BY DEF Init, UpdateHoldsOldest, AckedReceived, InFlightIsOldest
<1> QED
  BY <1>1, <1>2, InitOrderedInv DEF OnceInv, AckIsOldests

LEMMA OldestUnique ==
  ASSUME TypeOK, NEW i, NEW j, Oldest(i), Oldest(j)
  PROVE  i = j
<1>1. Unacked \subseteq Nat
  BY DEF TypeOK, TableType, Unacked
<1>2. i \in Nat /\ j \in Nat
  BY <1>1 DEF Oldest
<1>3. i <= j /\ j <= i
  BY DEF Oldest
<1> QED
  BY <1>2, <1>3

(* The first copy of a message can only be the oldest row's, and then no   *)
(* acknowledgement is outstanding.                                         *)
LEMMA FirstCopy ==
  ASSUME OnceInv, NEW m \in Msgs, downlink[m] > 0, m \notin received
  PROVE  /\ \E i \in Unacked : Oldest(i) /\ rows[i] = m
         /\ ~AckOutstanding
<1>1. PICK i \in Unacked : Oldest(i) /\ rows[i] = m
  BY DEF OnceInv, InFlightIsOldest
<1>2. ASSUME AckOutstanding PROVE FALSE
  <2>1. PICK j \in Unacked : Oldest(j) /\ rows[j] \in received
    BY <1>2 DEF OnceInv, AckIsOldests, OldestReceived
  <2>2. i = j
    BY <1>1, <2>1, OldestUnique DEF OnceInv, OrderedInv
  <2> QED
    BY <1>1, <2>1, <2>2
<1> QED
  BY <1>1, <1>2

LEMMA OneAckStep ==
  ASSUME OncePerContent, OnceInv, [Next]_vars
  PROVE  OneAck'
<1> USE DEF StatThread, StatWaiting
<1>1. /\ acks \in Nat /\ waiting \in Seq(Kinds) /\ pc \in [Threads -> Steps]
      /\ duplicates \in Nat /\ duplicates <= 0
  BY DEF OnceInv, OrderedInv, TypeOK, NetworkType, ThreadType, FaultType, OncePerContent
<1>2. OneAck
  BY DEF OnceInv
<1>3. ASSUME NEW m \in Msgs, DeviceReceives(m) PROVE OneAck'
  <2>1. UNCHANGED <<waiting, pc>>
    BY <1>3 DEF DeviceReceives
  <2>2. CASE acks' = acks
    BY <1>2, <2>1, <2>2 DEF OneAck
  <2>3. CASE acks' = acks + 1 /\ m \notin received
    <3>1. ~AckOutstanding
      BY <1>3, <2>3, FirstCopy DEF DeviceReceives
    <3> QED
      BY <1>1, <1>2, <2>1, <2>3, <3>1 DEF OneAck, AckOutstanding
  <2> QED
    BY <1>3, <2>2, <2>3 DEF DeviceReceives, OncePerContent
<1>4. CASE LoseAck
  BY <1>1, <1>2, <1>4 DEF OneAck, LoseAck
<1>5. CASE DuplicateAck
  BY <1>1, <1>5 DEF DuplicateAck, OncePerContent
<1>6. CASE ReceiveRequest
  BY <1>1, <1>2, <1>6 DEF OneAck, ReceiveRequest
<1>7. CASE ReceiveAck
  BY <1>1, <1>2, <1>7 DEF OneAck, ReceiveAck
<1>8. ASSUME NEW t \in Threads, Start(t) PROVE OneAck'
  <2>1. /\ acks' = acks
        /\ 1 \in DOMAIN waiting /\ Head(waiting) = waiting[1]
        /\ \A i \in DOMAIN waiting' :
             i # 0 /\ i + 1 \in DOMAIN waiting /\ waiting'[i] = waiting[i + 1] /\ i \in Nat
    BY <1>1, <1>8 DEF Start, network
  <2>2. \A u \in Threads : u # t => (StatThread(u)' <=> StatThread(u))
    BY <1>1, <1>8 DEF Start
  <2>3. CASE waiting[1] = "STAT"
    <3>1. /\ acks = 0 /\ \A u \in Threads : ~StatThread(u)
      BY <1>1, <1>2, <2>1, <2>3 DEF OneAck
    <3>2. \A i \in DOMAIN waiting' : waiting'[i] # "STAT"
      BY <1>2, <2>1, <2>3 DEF OneAck
    <3> QED
      BY <2>1, <2>2, <3>1, <3>2 DEF OneAck
  <2>4. CASE waiting[1] # "STAT"
    <3>1. waiting[1] = "PEND_REQ"
      BY <1>1, <2>1, <2>4 DEF Kinds
    <3>2. ~StatThread(t)'
      BY <1>1, <1>8, <2>1, <3>1 DEF Start
    <3>3. StatWaiting' => StatWaiting
      BY <2>1
    <3>4. \A i, j \in DOMAIN waiting' : waiting'[i] = "STAT" /\ waiting'[j] = "STAT" => i = j
      BY <1>2, <2>1 DEF OneAck
    <3> QED
      BY <1>2, <2>1, <2>2, <3>2, <3>3, <3>4 DEF OneAck
  <2> QED
    BY <2>3, <2>4
<1>9. ASSUME NEW t \in Threads,
             \/ PendReqSelect(t) \/ PendSend(t) \/ PendPoll(t) \/ StatSelect(t)
             \/ StatUpdate(t) \/ Free(t)
      PROVE  OneAck'
  <2>1. UNCHANGED <<acks, waiting>>
    BY <1>9 DEF PendReqSelect, PendSend, PendPoll, StatSelect, StatUpdate, Free, network
  <2>2. \A u \in Threads : StatThread(u)' => StatThread(u)
    BY <1>1, <1>9 DEF PendReqSelect, PendSend, PendPoll, StatSelect, StatUpdate, Free
  <2> QED
    BY <1>2, <2>1, <2>2 DEF OneAck
<1>10. CASE Crash
  BY <1>1, <1>2, <1>10 DEF OneAck, Crash, network
<1>11. CASE UNCHANGED <<acks, waiting, pc>>
  BY <1>2, <1>11 DEF OneAck
<1>12. \/ \E m \in Msgs : DeviceReceives(m)
       \/ LoseAck \/ DuplicateAck \/ ReceiveRequest \/ ReceiveAck
       \/ \E t \in Threads : Handler(t)
       \/ Crash
       \/ UNCHANGED <<acks, waiting, pc>>
  BY DEF Next, vars, network, Environment, Insert, LoseMessage, DeviceRequests, LoseRequest
<1> QED
  BY <1>3, <1>4, <1>5, <1>6, <1>7, <1>8, <1>9, <1>10, <1>11, <1>12 DEF Handler

LEMMA ReceivedGrows == TypeOK /\ [Next]_vars => received \subseteq received'
<1> SUFFICES ASSUME TypeOK, [Next]_vars PROVE received \subseteq received'
  OBVIOUS
<1>1. received' = received \/ \E m : received' = received \cup {m}
  BY Zenon DEF Next, vars, Environment, Handler, Insert, DeviceReceives, LoseMessage,
     DeviceRequests, LoseRequest, LoseAck, DuplicateAck, ReceiveRequest, ReceiveAck, Start,
     PendReqSelect, PendSend, PendPoll, StatSelect, StatUpdate, Free, Crash
<1> QED
  BY <1>1

(* Only a StatUpdate changes which rows are acknowledged, and it consumes  *)
(* the only acknowledgement there is.                                      *)
LEMMA AckedStep ==
  ASSUME OnceInv, [Next]_vars, acked' # acked
  PROVE  /\ \E t \in Threads : StatUpdate(t)
         /\ acks = 0 /\ ~StatWaiting
         /\ \A u \in Threads : pc'[u] \notin {"StatSelect", "StatUpdate"}
         /\ UNCHANGED <<acks, waiting, rows, received, downlink>>
<1>1. PICK t \in Threads : StatUpdate(t)
  BY Zenon DEF Next, vars, table, Environment, Handler, Insert, DeviceReceives, LoseMessage,
     DeviceRequests, LoseRequest, LoseAck, DuplicateAck, ReceiveRequest, ReceiveAck, Start,
     PendReqSelect, PendSend, PendPoll, StatSelect, Free, Crash
<1>2. StatThread(t) /\ pc' = [pc EXCEPT ![t] = "free"]
  BY <1>1 DEF StatUpdate, StatThread
<1>3. pc \in [Threads -> Steps] /\ acks \in Nat
  BY DEF OnceInv, OrderedInv, TypeOK, ThreadType, NetworkType
<1>4. acks = 0 /\ ~StatWaiting
  BY <1>2, <1>3 DEF OnceInv, OneAck
<1>5. \A u \in Threads : u # t => ~StatThread(u)
  BY <1>2 DEF OnceInv, OneAck
<1>6. \A u \in Threads : pc'[u] \notin {"StatSelect", "StatUpdate"}
  BY <1>2, <1>3, <1>5 DEF StatThread
<1>7. UNCHANGED <<acks, waiting, rows, received, downlink>>
  BY <1>1 DEF StatUpdate, network
<1> QED
  BY <1>1, <1>4, <1>6, <1>7

(* While no row is retired, the oldest row and what is known of it stay.   *)
LEMMA OldestReceivedStays ==
  ASSUME TypeOK, [Next]_vars, acked' = acked, NEW i \in Unacked, Oldest(i)
  PROVE  /\ i \in Unacked' /\ Oldest(i)'
         /\ rows'[i] = rows[i]
<1>1. i \in DOMAIN rows /\ i \notin acked'
  BY DEF Unacked
<1>2. Oldest(i)'
  BY <1>1, OldestStays
<1>3. rows'[i] = rows[i]
  BY <1>1, TableStep, GrowingTable DEF TypeOK
<1> QED
  BY <1>2, <1>3 DEF Oldest

LEMMA AckIsOldestsStep ==
  ASSUME OncePerContent, OnceInv, [Next]_vars
  PROVE  AckIsOldests'
<1> SUFFICES ASSUME AckOutstanding' PROVE OldestReceived'
  BY DEF AckIsOldests
<1>1. TypeOK
  BY DEF OnceInv, OrderedInv
<1>2. acked' = acked
  BY AckedStep DEF AckOutstanding, StatWaiting, StatThread
<1>3. ASSUME AckOutstanding PROVE OldestReceived'
  <2>1. PICK i \in Unacked : Oldest(i) /\ rows[i] \in received
    BY <1>3 DEF OnceInv, AckIsOldests, OldestReceived
  <2>2. i \in Unacked' /\ Oldest(i)' /\ rows'[i] \in received'
    BY <1>1, <1>2, <2>1, OldestReceivedStays, ReceivedGrows
  <2> QED
    BY <2>2 DEF OldestReceived
<1>4. ASSUME NEW m \in Msgs, DeviceReceives(m), m \notin received PROVE OldestReceived'
  <2>1. PICK i \in Unacked : Oldest(i) /\ rows[i] = m
    BY <1>4, FirstCopy DEF DeviceReceives
  <2>2. i \in Unacked' /\ Oldest(i)' /\ rows'[i] = m
    BY <1>1, <1>2, <2>1, OldestReceivedStays
  <2>3. m \in received'
    BY <1>4 DEF DeviceReceives
  <2> QED
    BY <2>2, <2>3 DEF OldestReceived
<1>5. AckOutstanding \/ \E m \in Msgs : DeviceReceives(m) /\ m \notin received
  <2> SUFFICES ASSUME ~AckOutstanding,
                      \A m \in Msgs : ~(DeviceReceives(m) /\ m \notin received)
               PROVE  FALSE
    OBVIOUS
  <2>1. /\ acks = 0 /\ waiting \in Seq(Kinds) /\ pc \in [Threads -> Steps]
        /\ \A i \in DOMAIN waiting : waiting[i] # "STAT"
        /\ \A t \in Threads : pc[t] \notin {"StatSelect", "StatUpdate"}
    BY <1>1 DEF AckOutstanding, StatWaiting, StatThread, TypeOK, NetworkType, ThreadType
  <2> USE DEF AckOutstanding, StatWaiting, StatThread
  <2>2. ASSUME NEW m \in Msgs, DeviceReceives(m) PROVE FALSE
    BY <2>1, <2>2 DEF DeviceReceives, OncePerContent
  <2>3. CASE LoseAck \/ DuplicateAck \/ ReceiveAck
    BY <2>1, <2>3 DEF LoseAck, DuplicateAck, ReceiveAck
  <2>4. CASE ReceiveRequest
    BY <2>1, <2>4 DEF ReceiveRequest
  <2>5. ASSUME NEW t \in Threads, Start(t) PROVE FALSE
    <3>1. /\ acks' = acks
          /\ 1 \in DOMAIN waiting /\ Head(waiting) = waiting[1]
          /\ \A i \in DOMAIN waiting' :
               i + 1 \in DOMAIN waiting /\ waiting'[i] = waiting[i + 1]
      BY <2>1, <2>5 DEF Start, network
    <3>2. waiting[1] = "PEND_REQ"
      BY <2>1, <3>1 DEF Kinds
    <3>3. pc' = [pc EXCEPT ![t] = "PendReqSelect"]
      BY <2>5, <3>1, <3>2 DEF Start
    <3> QED
      BY <2>1, <3>1, <3>3
  <2>6. ASSUME NEW t \in Threads,
               \/ PendReqSelect(t) \/ PendSend(t) \/ PendPoll(t) \/ StatSelect(t)
               \/ StatUpdate(t) \/ Free(t)
        PROVE  FALSE
    <3>1. UNCHANGED <<acks, waiting>>
      BY <2>6 DEF PendReqSelect, PendSend, PendPoll, StatSelect, StatUpdate, Free, network
    <3>2. \A u \in Threads : pc'[u] \notin {"StatSelect", "StatUpdate"}
      BY <2>1, <2>6 DEF PendReqSelect, PendSend, PendPoll, StatSelect, StatUpdate, Free
    <3> QED
      BY <2>1, <3>1, <3>2
  <2>7. CASE Crash
    BY <2>1, <2>7 DEF Crash, network
  <2>8. CASE UNCHANGED <<acks, waiting, pc>>
    BY <2>1, <2>8
  <2>9. \/ \E m \in Msgs : DeviceReceives(m)
        \/ LoseAck \/ DuplicateAck \/ ReceiveRequest \/ ReceiveAck
        \/ \E t \in Threads : Handler(t)
        \/ Crash
        \/ UNCHANGED <<acks, waiting, pc>>
    BY DEF Next, vars, network, Environment, Insert, LoseMessage, DeviceRequests, LoseRequest
  <2> QED
    BY <2>2, <2>3, <2>4, <2>5, <2>6, <2>7, <2>8, <2>9 DEF Handler
<1> QED
  BY <1>3, <1>4, <1>5

LEMMA UpdateHoldsOldestStep ==
  ASSUME OncePerContent, OnceInv, [Next]_vars
  PROVE  UpdateHoldsOldest'
<1> SUFFICES ASSUME NEW t \in Threads, pc'[t] = "StatUpdate"
             PROVE  Oldest(row[t])'
  BY DEF UpdateHoldsOldest
<1>1. TypeOK /\ pc \in [Threads -> Steps] /\ row \in [Threads -> Nat]
  BY DEF OnceInv, OrderedInv, TypeOK, ThreadType
<1>2. acked' = acked
  BY AckedStep
<1>3. ASSUME pc[t] = "StatUpdate", row'[t] = row[t] PROVE Oldest(row[t])'
  <2>1. PICK i \in Unacked : i = row[t] /\ Oldest(i)
    BY <1>3 DEF OnceInv, UpdateHoldsOldest, Oldest
  <2>2. Oldest(i)'
    BY <1>1, <1>2, <2>1, OldestReceivedStays
  <2>3. row'[t] = i
    BY <1>3, <2>1
  <2> QED
    BY <2>2, <2>3 DEF Oldest
<1>4. ASSUME UNCHANGED table, row'[t] \in FirstRows PROVE Oldest(row[t])'
  <2>1. Oldest(row'[t])
    BY <1>4, FirstIsOldest DEF OncePerContent
  <2> QED
    BY <1>4, <2>1 DEF table, Oldest, Unacked
<1>5. \/ pc[t] = "StatUpdate" /\ row'[t] = row[t]
      \/ UNCHANGED table /\ row'[t] \in FirstRows
  <2>1. ASSUME NEW u \in Threads, Start(u) PROVE <1>5
    BY <1>1, <2>1 DEF Start, locals
  <2>2. ASSUME NEW u \in Threads, PendReqSelect(u) PROVE <1>5
    BY <1>1, <2>2 DEF PendReqSelect
  <2>3. ASSUME NEW u \in Threads, PendSend(u) PROVE <1>5
    BY <1>1, <2>3 DEF PendSend, locals
  <2>4. ASSUME NEW u \in Threads, PendPoll(u) PROVE <1>5
    BY <1>1, <2>4 DEF PendPoll
  <2>5. ASSUME NEW u \in Threads, StatSelect(u) PROVE <1>5
    BY <1>1, <2>5 DEF StatSelect
  <2>6. ASSUME NEW u \in Threads, StatUpdate(u) PROVE <1>5
    BY <1>1, <2>6 DEF StatUpdate, locals
  <2>7. ASSUME NEW u \in Threads, Free(u) PROVE <1>5
    BY <1>1, <2>7 DEF Free
  <2>8. CASE Crash
    BY <1>1, <2>8 DEF Crash
  <2>9. CASE UNCHANGED <<pc, row>>
    BY <2>9
  <2>10. \/ \E u \in Threads : Handler(u)
         \/ Crash
         \/ UNCHANGED <<pc, row>>
    BY DEF Next, vars, locals, Environment, Insert, DeviceReceives, LoseMessage,
       DeviceRequests, LoseRequest, LoseAck, DuplicateAck, ReceiveRequest, ReceiveAck
  <2> QED
    BY <2>1, <2>2, <2>3, <2>4, <2>5, <2>6, <2>7, <2>8, <2>9, <2>10 DEF Handler
<1> QED
  BY <1>3, <1>4, <1>5

(* The row a STAT handler is about to retire is the oldest one, and the    *)
(* device has received its content.                                        *)
LEMMA UpdatesReceived ==
  ASSUME OnceInv, NEW t \in Threads, pc[t] = "StatUpdate"
  PROVE  Oldest(row[t]) /\ row[t] \in Unacked /\ rows[row[t]] \in received
<1>1. Oldest(row[t]) /\ AckOutstanding
  BY DEF OnceInv, UpdateHoldsOldest, AckOutstanding, StatThread
<1>2. PICK i \in Unacked : Oldest(i) /\ rows[i] \in received
  BY <1>1 DEF OnceInv, AckIsOldests, OldestReceived
<1>3. i = row[t]
  BY <1>1, <1>2, OldestUnique DEF OnceInv, OrderedInv
<1> QED
  BY <1>1, <1>2, <1>3

LEMMA AckedReceivedStep ==
  ASSUME OncePerContent, OnceInv, [Next]_vars
  PROVE  AckedReceived'
<1> SUFFICES ASSUME NEW i \in acked' PROVE rows'[i] \in received'
  BY DEF AckedReceived
<1>1. TypeOK
  BY DEF OnceInv, OrderedInv
<1>2. CASE i \in acked
  <2>1. rows[i] \in received /\ i \in DOMAIN rows
    BY <1>1, <1>2 DEF OnceInv, AckedReceived, TypeOK, TableType
  <2>2. rows'[i] = rows[i]
    BY <1>1, <2>1, TableStep, GrowingTable DEF TypeOK
  <2> QED
    BY <1>1, <2>1, <2>2, ReceivedGrows
<1>3. CASE i \notin acked
  <2>1. PICK t \in Threads : StatUpdate(t)
    BY <1>3, AckedStep
  <2>2. rows' = rows /\ received' = received
    BY <1>3, AckedStep
  <2>3. rows[i] = rows[row[t]]
    BY <1>3, <2>1 DEF StatUpdate, RowsUpdated
  <2>4. rows[row[t]] \in received
    BY <2>1, UpdatesReceived DEF StatUpdate
  <2> QED
    BY <2>2, <2>3, <2>4
<1> QED
  BY <1>2, <1>3

LEMMA InFlightStep ==
  ASSUME OncePerContent, OnceInv, [Next]_vars
  PROVE  InFlightIsOldest'
<1> SUFFICES ASSUME NEW m \in Msgs, downlink'[m] > 0
             PROVE  m \in received' \/ \E i \in Unacked' : Oldest(i)' /\ rows'[i] = m
  BY DEF InFlightIsOldest
<1>1. TypeOK /\ downlink \in [Msgs -> 0 .. NetCap]
  BY DEF OnceInv, OrderedInv, TypeOK, NetworkType
<1>2. ASSUME m \in received PROVE m \in received'
  BY <1>1, <1>2, ReceivedGrows
<1>3. ASSUME NEW i \in Unacked, Oldest(i), rows[i] = m
      PROVE  m \in received' \/ \E j \in Unacked' : Oldest(j)' /\ rows'[j] = m
  <2>1. rows'[i] = m
    BY <1>1, <1>3, TableStep, GrowingTable DEF TypeOK, Unacked
  <2>2. CASE i \in acked'
    BY <2>1, <2>2, AckedReceivedStep DEF AckedReceived
  <2>3. CASE Oldest(i)'
    BY <2>1, <2>3 DEF Oldest
  <2> QED
    BY <1>1, <1>3, <2>2, <2>3, OldestStays
<1>4. ASSUME downlink[m] > 0
      PROVE  m \in received' \/ \E i \in Unacked' : Oldest(i)' /\ rows'[i] = m
  BY <1>2, <1>3, <1>4 DEF OnceInv, InFlightIsOldest
<1>5. ASSUME NEW t \in Threads, PendSend(t), m = rows[row[t]]
      PROVE  m \in received' \/ \E i \in Unacked' : Oldest(i)' /\ rows'[i] = m
  <2>1. row[t] \in acked \/ Oldest(row[t])
    BY <1>5 DEF PendSend, OnceInv, OrderedInv, RowHeld
  <2>2. CASE row[t] \in acked
    BY <1>2, <1>5, <2>2 DEF OnceInv, AckedReceived
  <2>3. CASE Oldest(row[t])
    BY <1>3, <1>5, <2>3 DEF Oldest
  <2> QED
    BY <2>1, <2>2, <2>3
<1>6. downlink[m] > 0 \/ \E t \in Threads : PendSend(t) /\ m = rows[row[t]]
  <2>1. ASSUME NEW t \in Threads, PendSend(t) PROVE <1>6
    BY <1>1, <2>1 DEF PendSend
  <2>2. ASSUME NEW k \in Msgs, DeviceReceives(k) \/ LoseMessage(k) PROVE <1>6
    BY <1>1, <2>2 DEF DeviceReceives, LoseMessage
  <2>3. CASE UNCHANGED downlink
    BY <2>3
  <2>4. \/ \E t \in Threads : PendSend(t)
        \/ \E k \in Msgs : DeviceReceives(k) \/ LoseMessage(k)
        \/ UNCHANGED downlink
    BY DEF Next, vars, network, Environment, Handler, Insert, DeviceRequests, LoseRequest,
       LoseAck, DuplicateAck, ReceiveRequest, ReceiveAck, Start, PendReqSelect, PendPoll,
       StatSelect, StatUpdate, Free, Crash
  <2> QED
    BY <2>1, <2>2, <2>3, <2>4
<1> QED
  BY <1>4, <1>5, <1>6

LEMMA OnceInvHolds ==
  ASSUME OncePerContent
  PROVE  Spec => []OnceInv
<1>1. OnceInv /\ [Next]_vars => OrderedInv'
  BY TypeStep, RowHeldStep, RetiredWhenStoppedStep DEF OnceInv, OrderedInv, OncePerContent
<1>2. OnceInv /\ [Next]_vars => OnceInv'
  BY <1>1, OneAckStep, AckIsOldestsStep, UpdateHoldsOldestStep, AckedReceivedStep,
     InFlightStep DEF OnceInv
<1> QED
  BY <1>2, InitOnceInv, PTL DEF Spec

(* "send the msg until ack is received" (gateway.c:355) is what the code   *)
(* does for a device that acknowledges each content once, on a network     *)
(* that duplicates no acknowledgement, when rows come back oldest first.   *)
THEOREM StopsOnlyOnDelivery ==
  ASSUME OncePerContent
  PROVE  Spec => []StopsOnDelivery
<1>1. OnceInv => StopsOnDelivery
  BY DEF OnceInv, OrderedInv, RetiredWhenStopped, AckedReceived, StopsOnDelivery
<1> QED
  BY <1>1, OnceInvHolds, PTL

-----------------------------------------------------------------------------
LEMMA StepRefines ==
  ASSUME OncePerContent, OnceInv, [Next]_vars
  PROVE  [Box!Next]_(Box!vars)
<1>1. ASSUME NEW m \in Msgs, Insert(m) PROVE Box!Post(m)
  BY <1>1 DEF Insert, Box!Post
<1>2. ASSUME NEW m \in Msgs, DeviceReceives(m), m \notin received PROVE Box!Deliver
  <2>1. PICK i \in Unacked : Oldest(i) /\ rows[i] = m
    BY <1>2, FirstCopy DEF DeviceReceives
  <2>2. i \in Box!Pending /\ Box!Oldest(i)
    BY <2>1 DEF Box!Pending, Box!Oldest, Oldest, Unacked
  <2>3. received' = received \cup {m} /\ UNCHANGED <<rows, acked>>
    BY <1>2 DEF DeviceReceives, table
  <2> QED
    BY <2>1, <2>2, <2>3 DEF Box!Deliver
<1>3. ASSUME NEW t \in Threads, StatUpdate(t), acked' # acked PROVE Box!Retire
  <2>1. Oldest(row[t]) /\ row[t] \in Unacked /\ rows[row[t]] \in received
    BY <1>3, UpdatesReceived DEF StatUpdate
  <2>2. row[t] \in Box!Pending /\ Box!Oldest(row[t])
    BY <2>1 DEF Box!Pending, Box!Oldest, Oldest, Unacked
  <2>3. acked' = acked \cup {j \in DOMAIN rows : rows[j] = rows[row[t]]}
    BY <1>3 DEF StatUpdate, RowsUpdated
  <2>4. UNCHANGED <<rows, received>>
    BY <1>3, AckedStep
  <2> QED
    BY <2>1, <2>2, <2>3, <2>4 DEF Box!Retire
<1>4. \/ \E m \in Msgs : Insert(m)
      \/ \E m \in Msgs : DeviceReceives(m) /\ m \notin received
      \/ \E t \in Threads : StatUpdate(t) /\ acked' # acked
      \/ UNCHANGED <<rows, acked, received>>
  <2>1. ASSUME NEW m \in Msgs, DeviceReceives(m), m \in received
        PROVE  UNCHANGED <<rows, acked, received>>
    BY <2>1 DEF DeviceReceives, table
  <2>2. ASSUME NEW t \in Threads, StatUpdate(t), acked' = acked
        PROVE  UNCHANGED <<rows, acked, received>>
    BY <2>2 DEF StatUpdate
  <2>3. \/ \E m \in Msgs : Insert(m) \/ DeviceReceives(m)
        \/ \E t \in Threads : StatUpdate(t)
        \/ UNCHANGED <<rows, acked, received>>
    BY DEF Next, vars, table, Environment, Handler, LoseMessage, DeviceRequests, LoseRequest,
       LoseAck, DuplicateAck, ReceiveRequest, ReceiveAck, Start, PendReqSelect, PendSend,
       PendPoll, StatSelect, Free, Crash
  <2> QED
    BY <2>1, <2>2, <2>3
<1> QED
  BY <1>1, <1>2, <1>3, <1>4 DEF Box!Next, Box!vars

(* Under the same assumptions the table and the device implement the       *)
(* mailbox: nothing is retired that was not received, and in order.        *)
THEOREM Refinement ==
  ASSUME OncePerContent
  PROVE  Spec => ImplementsMailbox
<1>1. Init => Box!Init
  BY DEF Init, Box!Init
<1> QED
  BY <1>1, StepRefines, OnceInvHolds, PTL DEF Spec, ImplementsMailbox, Box!Spec
=============================================================================
