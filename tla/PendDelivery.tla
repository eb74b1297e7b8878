---------------------------- MODULE PendDelivery ----------------------------
(***************************************************************************)
(* Delivery of the messages pending for one device, through the branches   *)
(* PEND_REQ and STAT of process_packet in src/gateway.c, run by the        *)
(* threads of the task queue, the table pend_msgs shared with the platform *)
(* and the datagrams between gateway and device.                           *)
(*                                                                         *)
(* The code takes `mutex' for one query at a time and releases it before   *)
(* it looks at the result: each query is one action, and anything may      *)
(* happen between two of them.  The table survives the gateway; requests   *)
(* queued or being handled do not (the service is killed with SIGKILL).    *)
(*                                                                         *)
(* The task queue appears as TaskPool promises it (TaskQueue!Refinement):  *)
(* requests start in arrival order, each on a thread of its own.           *)
(* The device and the platform are outside the repository.                 *)
(***************************************************************************)
EXTENDS Integers, Sequences, FiniteSets

CONSTANTS
  Msgs,                   \* contents of messages that fit msg_cont (CodecExchange has the limit)
  CutOff,                 \* those whose UPDATE does not fit db_query[200] (gateway.c:394)
  Threads,                \* as many as thread_pool_size
  PEND_SEND_RETRIES_MAX,  \* gateway.c:28
  OrderedScan,            \* does a SELECT without ORDER BY return the oldest row first?
  AckEveryCopy,           \* does the device acknowledge every copy, or each content once?
  MaxRows,                \* bound on the rows the platform inserts
  RequestCap,             \* bound on the requests in flight
  NetCap,                 \* acknowledgements, or copies, in flight; one more is dropped
  MaxWaiting,             \* bound on requests of one kind waiting in the task queue
  MaxDuplicates,          \* bound on acknowledgements the network duplicates
  MaxDbFailures,          \* bound on failing queries
  MaxCrashes,             \* bound on deaths of the gateway
  MaxFaults               \* bound on duplicates, failures and deaths together

ASSUME PendDeliveryAssumption ==
  /\ CutOff \subseteq Msgs
  /\ IsFiniteSet(Threads) /\ Threads # {}
  /\ PEND_SEND_RETRIES_MAX \in Nat
  /\ OrderedScan \in BOOLEAN /\ AckEveryCopy \in BOOLEAN
  /\ {MaxRows, RequestCap, NetCap, MaxWaiting, MaxDuplicates, MaxDbFailures, MaxCrashes,
      MaxFaults} \subseteq Nat

VARIABLES
  rows,          \* pend_msgs: the contents, in the order they were inserted
  acked,         \* pend_msgs: the indices of the rows with ack = True
  requests,      \* PEND_REQ datagrams on their way to the gateway
  acks,          \* STAT/ACK datagrams on their way to the gateway
  downlink,      \* PEND_SEND datagrams on their way to the device, by content
  received,      \* contents the device has received
  waiting,       \* kinds of the requests waiting in the task queue
  pc,            \* the next step of each thread in process_packet
  row,           \* index of the row whose content a thread holds (msg_cont, db_query)
  retries,       \* pend_send_retries
  received_ack,  \* received_ack
  duplicates, db_failures, crashes   \* how often each has happened

table   == <<rows, acked>>
network == <<requests, acks, downlink>>
locals  == <<row, retries, received_ack>>
faults  == <<duplicates, db_failures, crashes>>
vars == <<rows, acked, requests, acks, downlink, received, waiting, pc,
          row, retries, received_ack, duplicates, db_failures, crashes>>

Kinds == {"PEND_REQ", "STAT"}

Steps == {"idle", "PendReqSelect", "PendSend", "PendPoll", "StatSelect",
          "StatUpdate", "free"}

Unacked == DOMAIN rows \ acked

FirstRows_AckedToo ==
  {i \in DOMAIN rows : OrderedScan => \A j \in DOMAIN rows : i <= j}

(* The rows that may come first in SELECT * FROM pend_msgs WHERE ... AND   *)
(* ack = False.                                                            *)
FirstRows == {i \in Unacked : OrderedScan => \A j \in Unacked : i <= j}

Init ==
  /\ rows = <<>>
  /\ acked = {}
  /\ requests = 0
  /\ acks = 0
  /\ downlink = [m \in Msgs |-> 0]
  /\ received = {}
  /\ waiting = <<>>
  /\ pc = [t \in Threads |-> "idle"]
  /\ row = [t \in Threads |-> 0]
  /\ retries = [t \in Threads |-> 0]
  /\ received_ack = [t \in Threads |-> FALSE]
  /\ duplicates = 0
  /\ db_failures = 0
  /\ crashes = 0

FaultsLeft == duplicates + db_failures + crashes < MaxFaults

-----------------------------------------------------------------------------
(* The platform, the device and the network. *)

Insert(m) ==
  /\ Len(rows) < MaxRows
  /\ rows' = Append(rows, m)
  /\ UNCHANGED <<acked, network, received, waiting, pc, locals, faults>>

DeviceRequests ==
  /\ requests < RequestCap
  /\ requests' = requests + 1
  /\ UNCHANGED <<table, acks, downlink, received, waiting, pc, locals, faults>>

(* The acknowledgement is a STAT packet: it does not say of what. *)
DeviceReceives(m) ==
  /\ downlink[m] > 0
  /\ downlink' = [downlink EXCEPT ![m] = @ - 1]
  /\ received' = received \cup {m}
  /\ acks' = IF (AckEveryCopy \/ m \notin received) /\ acks < NetCap
             THEN acks + 1
             ELSE acks
  /\ UNCHANGED <<table, requests, waiting, pc, locals, faults>>

LoseRequest ==
  /\ requests > 0
  /\ requests' = requests - 1
  /\ UNCHANGED <<table, acks, downlink, received, waiting, pc, locals, faults>>

LoseAck ==
  /\ acks > 0
  /\ acks' = acks - 1
  /\ UNCHANGED <<table, requests, downlink, received, waiting, pc, locals, faults>>

LoseMessage(m) ==
  /\ downlink[m] > 0
  /\ downlink' = [downlink EXCEPT ![m] = @ - 1]
  /\ UNCHANGED <<table, requests, acks, received, waiting, pc, locals, faults>>

DuplicateAck ==
  /\ duplicates < MaxDuplicates /\ FaultsLeft
  /\ acks \in 1 .. NetCap - 1
  /\ acks' = acks + 1
  /\ duplicates' = duplicates + 1
  /\ UNCHANGED <<table, requests, downlink, received, waiting, pc, locals,
                 db_failures, crashes>>

-----------------------------------------------------------------------------
(* main: a datagram becomes a request in the task queue; a free thread     *)
(* takes the oldest one.                                                   *)

(* A bound of the model: the queue of the code takes every request.        *)
RoomFor(kind) == Cardinality({i \in DOMAIN waiting : waiting[i] = kind}) < MaxWaiting

ReceiveRequest ==
  /\ requests > 0
  /\ RoomFor("PEND_REQ")
  /\ requests' = requests - 1
  /\ waiting' = Append(waiting, "PEND_REQ")
  /\ UNCHANGED <<table, acks, downlink, received, pc, locals, faults>>

ReceiveAck ==
  /\ acks > 0
  /\ RoomFor("STAT")
  /\ acks' = acks - 1
  /\ waiting' = Append(waiting, "STAT")
  /\ UNCHANGED <<table, requests, downlink, received, pc, locals, faults>>

Start(t) ==
  /\ pc[t] = "idle"
  /\ waiting # <<>>
  /\ waiting' = Tail(waiting)
  /\ pc' = [pc EXCEPT ![t] =
              IF Head(waiting) = "PEND_REQ" THEN "PendReqSelect" ELSE "StatSelect"]
  /\ UNCHANGED <<table, network, received, locals, faults>>

-----------------------------------------------------------------------------
(* process_packet, branch PEND_REQ. *)

(* A query may fail whatever it asks; the table is then as it was. *)
QueryOutcome(ok) ==
  IF ok THEN UNCHANGED db_failures
  ELSE db_failures < MaxDbFailures /\ FaultsLeft /\ db_failures' = db_failures + 1

(* No row, or no answer, is replied to with STAT/NACK and ends the request. *)
PendReqSelect(t) ==
  /\ pc[t] = "PendReqSelect"
  /\ \E ok \in BOOLEAN :
       /\ QueryOutcome(ok)
       /\ IF ok /\ FirstRows # {}
          THEN /\ \E i \in FirstRows : row' = [row EXCEPT ![t] = i]
               /\ retries' = [retries EXCEPT ![t] = PEND_SEND_RETRIES_MAX]
               /\ pc' = [pc EXCEPT ![t] = "PendSend"]
          ELSE /\ pc' = [pc EXCEPT ![t] = "free"]
               /\ UNCHANGED <<row, retries>>
  /\ UNCHANGED <<table, network, received, waiting, received_ack, duplicates, crashes>>

(* send_gcom_ch and the 300 ms of sleep. *)
PendSend(t) ==
  /\ pc[t] = "PendSend"
  /\ downlink' = [downlink EXCEPT ![rows[row[t]]] = IF @ < NetCap THEN @ + 1 ELSE @]
  /\ pc' = [pc EXCEPT ![t] = "PendPoll"]
  /\ UNCHANGED <<table, requests, acks, received, waiting, locals, faults>>

SeenAcked_AnyAck(t, i) == acked # {}

(* The code takes its message for acknowledged when the first row is gone  *)
(* or holds another content; it never looks at the row it sent.            *)
SeenAcked(t, i) == rows[i] # rows[row[t]]

PollSays_ErrorIsNoRow(t, ok, gone) ==
  IF ok /\ FirstRows # {}
  THEN \E i \in FirstRows : gone = SeenAcked(t, i)
  ELSE gone

PollSays(t, ok, gone) ==
  IF ok /\ FirstRows # {}
  THEN \E i \in FirstRows : gone = SeenAcked(t, i)
  ELSE gone = ok

MayRetry_Always(t) == TRUE

MayRetry(t) == retries[t] > 0

PendPoll(t) ==
  /\ pc[t] = "PendPoll"
  /\ \E ok, gone \in BOOLEAN :
       /\ QueryOutcome(ok)
       /\ PollSays(t, ok, gone)
       /\ received_ack' = [received_ack EXCEPT ![t] = gone]
       /\ IF ~gone /\ MayRetry(t)
          THEN /\ retries' = [retries EXCEPT ![t] = @ - 1]
               /\ pc' = [pc EXCEPT ![t] = "PendSend"]
          ELSE /\ pc' = [pc EXCEPT ![t] = "free"]
               /\ UNCHANGED retries
  /\ UNCHANGED <<table, network, received, waiting, row, duplicates, crashes>>

-----------------------------------------------------------------------------
(* process_packet, branch STAT with status ACK. *)

StatSelect(t) ==
  /\ pc[t] = "StatSelect"
  /\ \E ok \in BOOLEAN :
       /\ QueryOutcome(ok)
       /\ IF ok /\ FirstRows # {}
          THEN /\ \E i \in FirstRows : row' = [row EXCEPT ![t] = i]
               /\ pc' = [pc EXCEPT ![t] = "StatUpdate"]
          ELSE /\ pc' = [pc EXCEPT ![t] = "free"]
               /\ UNCHANGED row
  /\ UNCHANGED <<table, network, received, waiting, retries, received_ack,
                 duplicates, crashes>>

RowsUpdated_AnyContent(t) == DOMAIN rows

(* UPDATE pend_msgs SET ack = True ... AND msg = '%s': every row with the  *)
(* content that was first when it was selected.                            *)
RowsUpdated(t) == {i \in DOMAIN rows : rows[i] = rows[row[t]]}

(* snprintf cuts the UPDATE of a long content off inside the quotes, and    *)
(* the database refuses it: the acknowledgement is used up for nothing.    *)
UpdateFits(t) == rows[row[t]] \notin CutOff

StatUpdate(t) ==
  /\ pc[t] = "StatUpdate"
  /\ \/ /\ UpdateFits(t)
        /\ \E ok \in BOOLEAN :
             /\ QueryOutcome(ok)
             /\ acked' = IF ok THEN acked \cup RowsUpdated(t) ELSE acked
     \/ ~UpdateFits(t) /\ UNCHANGED <<acked, db_failures>>
  /\ pc' = [pc EXCEPT ![t] = "free"]
  /\ UNCHANGED <<rows, network, received, waiting, locals, duplicates, crashes>>

(* free(req): the thread is done with its request. *)
Free(t) ==
  /\ pc[t] = "free"
  /\ pc' = [pc EXCEPT ![t] = "idle"]
  /\ row' = [row EXCEPT ![t] = 0]
  /\ retries' = [retries EXCEPT ![t] = 0]
  /\ received_ack' = [received_ack EXCEPT ![t] = FALSE]
  /\ UNCHANGED <<table, network, received, waiting, faults>>

(* The gateway is killed and started again. *)
Crash ==
  /\ crashes < MaxCrashes /\ FaultsLeft
  /\ crashes' = crashes + 1
  /\ waiting' = <<>>
  /\ pc' = [t \in Threads |-> "idle"]
  /\ row' = [t \in Threads |-> 0]
  /\ retries' = [t \in Threads |-> 0]
  /\ received_ack' = [t \in Threads |-> FALSE]
  /\ UNCHANGED <<table, network, received, duplicates, db_failures>>

-----------------------------------------------------------------------------
Environment ==
  \/ \E m \in Msgs : Insert(m) \/ DeviceReceives(m) \/ LoseMessage(m)
  \/ DeviceRequests
  \/ LoseRequest
  \/ LoseAck
  \/ DuplicateAck

Handler(t) ==
  \/ Start(t)
  \/ PendReqSelect(t)
  \/ PendSend(t)
  \/ PendPoll(t)
  \/ StatSelect(t)
  \/ StatUpdate(t)
  \/ Free(t)

Next ==
  \/ Environment
  \/ ReceiveRequest
  \/ ReceiveAck
  \/ \E t \in Threads : Handler(t)
  \/ Crash

Spec == Init /\ [][Next]_vars

(* Threads run; a device that wants its messages keeps asking; a datagram  *)
(* sent again and again gets through.  Nothing else is assumed: datagrams  *)
(* may be lost for ever, queries fail MaxDbFailures times and the gateway  *)
(* die MaxCrashes times, whenever it hurts.                                *)
FairSpec ==
  /\ Spec
  /\ \A t \in Threads : WF_vars(Handler(t))
  /\ WF_vars(DeviceRequests)
  /\ SF_vars(ReceiveRequest)
  /\ SF_vars(ReceiveAck)
  /\ \A m \in Msgs : SF_vars(DeviceReceives(m))

-----------------------------------------------------------------------------
TableType ==
  /\ rows \in Seq(Msgs)
  /\ acked \in SUBSET DOMAIN rows

NetworkType ==
  /\ requests \in 0 .. RequestCap
  /\ acks \in 0 .. NetCap
  /\ downlink \in [Msgs -> 0 .. NetCap]
  /\ received \in SUBSET Msgs

(* A thread that sends, polls or updates holds the index of a row.         *)
ThreadType ==
  /\ waiting \in Seq(Kinds)
  /\ pc \in [Threads -> Steps]
  /\ row \in [Threads -> Nat]
  /\ \A t \in Threads :
       pc[t] \in {"PendSend", "PendPoll", "StatUpdate"} => row[t] \in DOMAIN rows
  /\ retries \in [Threads -> 0 .. PEND_SEND_RETRIES_MAX]
  /\ received_ack \in [Threads -> BOOLEAN]

FaultType ==
  /\ duplicates \in 0 .. MaxDuplicates
  /\ db_failures \in 0 .. MaxDbFailures
  /\ crashes \in 0 .. MaxCrashes

TypeOK == TableType /\ NetworkType /\ ThreadType /\ FaultType

(* "send the msg until ack is received" (gateway.c:355): a handler that    *)
(* stops because received_ack is set has had its message delivered.        *)
StopsOnDelivery ==
  \A t \in Threads : received_ack[t] => rows[row[t]] \in received

(* received_ack is set from the FIRST unacknowledged row, not from the row *)
(* that was sent: as long as rows come back oldest first it nevertheless   *)
(* means that the row sent has been retired.                               *)
EarlyStopMeansRetired ==
  \A t \in Threads : received_ack[t] => row[t] \in acked

(* The handler of a PEND_REQ holds its thread while it waits for the       *)
(* acknowledgement, which needs a thread too: with a pool of one the wait  *)
(* never succeeds and all the copies are sent.                             *)
LoneThreadNeverSeesAck ==
  Cardinality(Threads) = 1 => \A t \in Threads : ~received_ack[t]

(* The table and the device implement the mailbox: in order, and retired   *)
(* only when received.                                                     *)
Box == INSTANCE Mailbox WITH posted <- rows, retired <- acked

ImplementsMailbox == Box!Spec

(* A row can be retired when neither it nor a row before it is too long    *)
(* for the UPDATE: a row that is too long stays first for ever and blocks  *)
(* the ones behind it (CodecExchange!AcknowledgedIsRetired has the limit). *)
Retirable(i) == i \in DOMAIN rows /\ \A j \in 1 .. i : rows[j] \notin CutOff

(* A device that keeps asking and acknowledges what it gets empties its    *)
(* mailbox as far as the first row that is too long: every row before that *)
(* one is eventually retired, whatever is lost or fails on the way.        *)
EveryRowRetired ==
  \A i \in 1 .. MaxRows : Retirable(i) ~> i \in acked
=============================================================================
