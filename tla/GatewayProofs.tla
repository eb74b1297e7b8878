---------------------------- MODULE GatewayProofs ----------------------------
(***************************************************************************)
(* Proofs about Gateway for any requests, devices, packet types and        *)
(* bounds: the safety invariants that the runs check, from one inductive   *)
(* invariant in nine parts.                                                *)
(***************************************************************************)
EXTENDS Gateway, FiniteSetTheorems, SequenceTheorems, TLAPS

(* A request in the queue is one that was received; a thread works only on *)
(* requests it has taken.                                                  *)
WaitingInv ==
  \A i \in DOMAIN waiting : kind[waiting[i]] \notin {"none", "EMPTY"}

Taken(r) ==
  /\ pc[r] # "none" => r \in running \cup completed
  /\ kind[r] = "none" => pc[r] = "none"
  /\ kind[r] = "freed" => r \in completed

AfterStore == {"select", "select_query", "ack", "ack_pend"}
DataLabels == {"count", "count_add", "insert", "insert_query"} \cup AfterStore
PendLabels == {"pend_select", "pend_select_query", "pend_send", "pend_poll", "pend_poll_query"}

(* What the place of a thread in process_packet says of its packet.        *)
Decided(r) ==
  /\ pc[r] \in {"callback", "callback_query", "decode"} => kind[r] \in QueuedKinds
  /\ pc[r] \in DataLabels => kind[r] = "DATA_SEND"
  /\ pc[r] \in PendLabels => kind[r] = "PEND_REQ"

(* What its reply and the database have to do with each other.             *)
Replied(r) ==
  /\ pc[r] \in {"none", "callback", "callback_query", "decode"} => reply[r] = "none"
  /\ pc[r] \in AfterStore => r \in stored
  /\ reply[r] \in {"ACK", "ACK_PEND"} => r \in stored
  /\ reply[r] = "NACK" => pc[r] = "free"

(* The results it has to clear, or will never clear.                       *)
Keeping == {"decode", "select", "error", "ack", "ack_pend", "pend_send", "stat_update", "clear"}

NeverCleared(r) ==
  kind[r] = "PEND_REQ" /\ (pc[r] = "nack" \/ (pc[r] = "free" /\ reply[r] = "NACK"))

Kept(r) == IF pc[r] \in Keeping \/ NeverCleared(r) THEN 1 ELSE 0

RequestInv(r) == Taken(r) /\ Decided(r) /\ Replied(r) /\ uncleared[r] = Kept(r)

RequestsInv == \A r \in Requests : RequestInv(r)

(* Nobody dies, and main leaves its loop, without a reason.                *)
Errors == receive_errors + db_failures + strangers

(* A packet without a time, one of an unregistered device, and an error to *)
(* be printed.                                                             *)
Suspect(r) ==
  \/ kind[r] \in {"SHORT", "UNFILLED"}
  \/ pc[r] \in {"short", "error"}
  \/ dev[r] = Phantom /\ kind[r] \notin {"none", "EMPTY", "freed"}

ErrorInv ==
  /\ main_pc \in {"leaving", "closing", "finished"} => ~working
  /\ main_pc = "recv_error" => receive_errors > 0
  /\ \A r \in Requests : Suspect(r) => Errors > 0
  /\ main_pc = "crashed" => Errors > 0 \/ "mutex" \in raced \/ ~working

(* Main initialises a mutex once, and destroys one when it leaves.         *)
MutexInv ==
  /\ main_pc = "mutex_init" => mutex # "orphaned"
  /\ main_pc \in {"mutex_init", "gw_stat_mutex_init"} => gw_stat_mutex # "orphaned"
  /\ mutex = "destroyed" => main_pc \in {"closing", "finished", "crashed"} /\ ~working

(* Whoever is in PQexec holds the mutex, unless main has initialised it    *)
(* again, or destroyed it.                                                 *)
Sound == "mutex" \notin raced /\ mutex # "destroyed"

ConnInv ==
  /\ \A r \in Requests : pc[r] \in QueryingLabels => r \in querying
  /\ mgr_pc = "update_query" => Manager \in querying
  /\ Sound =>
       /\ mutex = "free" => querying = {}
       /\ \A x, y \in querying : x = y

(* The list of message counts and its mutex.                               *)
Initialising == main_pc \in {"mutex_init", "gw_stat_mutex_init", "list_init"}

OnePerDevice(list) == \A i, j \in DOMAIN list : list[i].dev = list[j].dev => i = j

ListInv ==
  /\ Initialising => stat_list = <<>> /\ waiting = <<>> /\ running = {}
  /\ OnePerDevice(stat_list)
  /\ mgr_pc \in {"flush", "format", "sigwait"} => buf.log = <<>>

StatExclusive ==
  /\ gw_stat_mutex = "free" => ~MgrHolds /\ \A r \in Requests : pc[r] # "count_add"
  /\ MgrHolds => \A r \in Requests : pc[r] # "count_add"
  /\ \A r, s \in Requests : pc[r] = "count_add" /\ pc[s] = "count_add" => r = s

Conserved ==
  \A d \in AllDevices : counted[d] = Num(stat_list, d) + InHand(d) + reported[d] + dropped[d]

StatInv ==
  "gw_stat_mutex" \notin raced =>
    /\ StatExclusive
    /\ mgr_pc = "reset" => buf.log = stat_list
    /\ Conserved

(* A mutex that is held is in the hands of a thread inside.                *)
HeldInv ==
  /\ Sound => mutex = "free" \/ InsideConn # {}
  /\ "gw_stat_mutex" \notin raced => gw_stat_mutex = "free" \/ InsideStat # {}

IInv ==
  /\ TypeOK /\ WaitingInv /\ RequestsInv /\ ErrorInv /\ MutexInv /\ ConnInv /\ ListInv
  /\ StatInv /\ HeldInv

-----------------------------------------------------------------------------
(* The labels of the threads. *)

LEMMA LabelFacts ==
  /\ QueryLabels = {"callback", "insert", "select", "pend_select", "pend_poll",
                    "stat_select", "stat_update"}
  /\ QueryingLabels = {"callback_query", "insert_query", "select_query", "pend_select_query",
                       "pend_poll_query", "stat_select_query", "stat_update_query"}
  /\ InQuery["callback"] = "callback_query" /\ InQuery["insert"] = "insert_query"
  /\ InQuery["select"] = "select_query" /\ InQuery["pend_select"] = "pend_select_query"
  /\ InQuery["pend_poll"] = "pend_poll_query" /\ InQuery["stat_select"] = "stat_select_query"
  /\ InQuery["stat_update"] = "stat_update_query"
  BY DEF QueryingLabels, QueryLabels, InQuery

LEMMA AllLabels ==
  Labels = {"none", "decode", "short", "nack", "send_utc", "count", "count_add", "ack", "ack_pend",
            "pend_send", "error", "clear", "free", "done"} \cup QueryLabels \cup QueryingLabels
  BY DEF Labels, QueryingLabels

LEMMA BranchFacts ==
  ASSUME NEW k \in QueuedKinds, NEW label \in Branch(k)
  PROVE  /\ label \in Labels
         /\ label \in {"count", "send_utc", "pend_select", "stat_select", "nack", "free", "short"}
         /\ label = "count" => k = "DATA_SEND"
         /\ label = "pend_select" => k = "PEND_REQ"
         /\ label = "short" => k \in {"SHORT", "UNFILLED"}
         /\ label \in {"nack", "free"} => k # "PEND_REQ"
<1>1. k \in {"DATA_SEND", "TIME_REQ", "PEND_REQ", "STAT", "UNKNOWN", "BAD", "SHORT",
           "UNFILLED"}
  BY DEF QueuedKinds, DecodedKinds, Kinds
<1>2. \/ k = "DATA_SEND" /\ label = "count"
      \/ k = "TIME_REQ" /\ label = "send_utc"
      \/ k = "PEND_REQ" /\ label = "pend_select"
      \/ k = "STAT" /\ label \in {"stat_select", "free"}
      \/ k = "UNKNOWN" /\ label = "nack"
      \/ k = "BAD" /\ label = "free"
      \/ k \in {"SHORT", "UNFILLED"} /\ label = "short"
  BY <1>1 DEF Branch
<1> QED
  BY <1>2, LabelFacts, AllLabels

LEMMA DecodedFacts ==
  ASSUME RequestType, NEW r \in Requests, kind[r] \in QueuedKinds,
         NEW ok \in BOOLEAN, NEW rows \in BOOLEAN, NEW packet \in Decoded(r, ok, rows)
  PROVE  /\ packet.kind \in QueuedKinds /\ packet.dev \in AllDevices
         /\ dev[r] = Phantom => packet.dev = Phantom
         /\ ok /\ rows => packet.kind = kind[r] /\ packet.dev = dev[r]
<1>1. dev[r] \in AllDevices /\ Phantom \in AllDevices /\ DecodedKinds \subseteq QueuedKinds
  BY DEF RequestType, AllDevices, QueuedKinds
<1>2. CASE SecureFilled(ok, rows) \/ kind[r] = "UNFILLED"
  <2>1. Decoded(r, ok, rows) = {[kind |-> kind[r], dev |-> dev[r]]}
    BY <1>2, Zenon DEF Decoded
  <2> QED
    BY <1>1, <2>1
<1>3. CASE ~(SecureFilled(ok, rows) \/ kind[r] = "UNFILLED")
  <2>1. Decoded(r, ok, rows)
          = [kind : DecodedKinds, dev : IF dev[r] = Phantom THEN {Phantom} ELSE AllDevices]
    BY <1>3, Zenon DEF Decoded
  <2>2. packet.kind \in DecodedKinds /\ packet.dev \in IF dev[r] = Phantom THEN {Phantom} ELSE AllDevices
    BY <2>1
  <2> QED
    BY <1>1, <1>3, <2>2 DEF SecureFilled
<1> QED
  BY <1>2, <1>3

(* What a registered device sends, and what knowing no device leads to.    *)
LEMMA KindFacts ==
  /\ Sent \subseteq QueuedKinds /\ Senders \subseteq AllDevices
  /\ {"none", "EMPTY", "freed"} \cap QueuedKinds = {}
  /\ "UNFILLED" \in QueuedKinds
  BY GatewayAssumption DEF QueuedKinds, DecodedKinds, Kinds, AllDevices

-----------------------------------------------------------------------------
(* A thread disturbs nothing of another's.                                 *)
LEMMA OthersKeep ==
  ASSUME RequestType, PoolType, NEW r \in Requests, Locking(r) \/ Working(r),
         NEW s \in Requests, s # r
  PROVE  /\ pc'[s] = pc[s] /\ kind'[s] = kind[s] /\ dev'[s] = dev[s]
         /\ uncleared'[s] = uncleared[s] /\ reply'[s] = reply[s]
         /\ s \in stored <=> s \in stored'
         /\ s \in running <=> s \in running'
         /\ s \in completed <=> s \in completed'
<1> USE DEF RequestType, PoolType, packetVars, threadVars, poolVars, Goto
<1>1. CASE Locking(r)
  BY <1>1 DEF Locking, Query, CountLock, PQclear
<1>2. CASE CallbackReturns(r) \/ Decode(r)
  BY <1>2 DEF CallbackReturns, Decode, Keep, PQclear
<1>3. CASE \/ ShortPayload(r) \/ SendNack(r) \/ send_utc(r) \/ CountAdd(r)
  BY <1>3 DEF ShortPayload, SendNack, send_utc, CountAdd, requestVars
<1>4. CASE \/ InsertReturns(r) \/ PrintError(r) \/ ClearResult(r) \/ SelectReturns(r)
           \/ Acknowledge(r)
  BY <1>4 DEF InsertReturns, PrintError, ClearResult, SelectReturns, Acknowledge, Keep, PQclear
<1>5. CASE \/ PendSelectReturns(r) \/ PendSend(r) \/ PendPollReturns(r)
  BY <1>5 DEF PendSelectReturns, PendSend, PendPollReturns, Resend, Keep, PQclear
<1>6. CASE \/ StatSelectReturns(r) \/ StatUpdateReturns(r)
  BY <1>6 DEF StatSelectReturns, StatUpdateReturns, Keep
<1>7. CASE Free(r)
  BY <1>7 DEF Free, Pool!Complete
<1> QED
  BY <1>1, <1>2, <1>3, <1>4, <1>5, <1>6, <1>7 DEF Working

-----------------------------------------------------------------------------
(* Types. *)

LEMMA InitType == Init => TypeOK
<1> SUFFICES ASSUME Init PROVE TypeOK
  OBVIOUS
<1> USE GatewayAssumption DEF Init
<1>1. MainType
  BY DEF MainType
<1>2. PoolType
  BY DEF PoolType, Pool!Init
<1>3. RequestType
  BY DEF RequestType, Labels, AllDevices
<1>4. LockType
  BY DEF LockType
<1>5. ReportType
  <2>1. <<>> \in Reports
    BY DEF Reports
  <2>2. Unwritten \in [written : BOOLEAN, log : Reports]
    BY <2>1, Zenon DEF Unwritten
  <2> QED
    BY <2>1, <2>2, Zenon DEF ReportType
<1>6. CountType
  BY DEF CountType
<1> QED
  BY <1>1, <1>2, <1>3, <1>4, <1>5, <1>6 DEF TypeOK

LEMMA MainTypeStep == TypeOK /\ [Next]_vars => MainType'
<1> SUFFICES ASSUME MainType, [Next]_vars PROVE MainType'
  BY DEF TypeOK
<1> USE DEF MainType
<1>1. CASE \/ MutexInit \/ GwStatMutexInit \/ gw_stat_linked_list_init \/ ReceiveError
           \/ PQfinish \/ pthread_mutex_destroy \/ ctrc_handler \/ QueryFinished \/ ConnCorrupted
  BY <1>1 DEF MutexInit, GwStatMutexInit, gw_stat_linked_list_init, ReceiveError,
     PQfinish, pthread_mutex_destroy, ctrc_handler, QueryFinished, ConnCorrupted
<1>2. ASSUME NEW r \in Requests, NEW k, NEW d,
             \/ Receive(r, k, d) \/ ReceiveEmpty(r) \/ EnqueueUnfilled(r) \/ ShortPayload(r)
             \/ PrintError(r)
      PROVE  MainType'
  BY <1>2 DEF Receive, ReceiveEmpty, EnqueueUnfilled, ShortPayload, PrintError, LoopOrLeave
<1>3. CASE UNCHANGED mainVars
  BY <1>3 DEF mainVars
<1>4. ASSUME Start \/ FlushLock \/ UpdateQuery \/ gateway_mngr
      PROVE  UNCHANGED mainVars
  BY <1>4 DEF Start, FlushLock, UpdateQuery, gateway_mngr, FlushFormat,
     FlushReset, UpdateReturns, sigwait
<1>5. ASSUME NEW r \in Requests, Locking(r) \/ Working(r)
      PROVE  UNCHANGED mainVars \/ ShortPayload(r) \/ PrintError(r)
  BY <1>5 DEF Locking, Working, Query, CountLock, CallbackReturns, Decode, SendNack, send_utc,
     CountAdd, InsertReturns, PrintError, ClearResult, SelectReturns, Acknowledge, PendSelectReturns, PendSend,
     PendPollReturns, Resend, StatSelectReturns, StatUpdateReturns, Free
<1> QED
  BY <1>1, <1>2, <1>3, <1>4, <1>5 DEF Next, MainThread, vars

(* What happens to the queue of requests. *)
LEMMA PoolSteps ==
  ASSUME [Next]_vars
  PROVE  \/ UNCHANGED poolVars
         \/ \E r \in Requests : Pool!Submit(r)
         \/ Start
         \/ \E r \in Requests : Free(r)
<1>1. ASSUME MainThread PROVE UNCHANGED poolVars \/ \E r \in Requests : Pool!Submit(r)
  BY <1>1 DEF MainThread, MutexInit, GwStatMutexInit, gw_stat_linked_list_init, ReceiveError,
     PQfinish, pthread_mutex_destroy, Receive, ReceiveEmpty, EnqueueUnfilled
<1>2. ASSUME \/ ctrc_handler \/ QueryFinished \/ ConnCorrupted \/ FlushLock \/ UpdateQuery
             \/ gateway_mngr
      PROVE  UNCHANGED poolVars
  BY <1>2 DEF ctrc_handler, QueryFinished, ConnCorrupted, FlushLock, UpdateQuery, gateway_mngr,
     FlushFormat, FlushReset, UpdateReturns, sigwait
<1>3. ASSUME NEW r \in Requests, Locking(r) \/ Working(r)
      PROVE  UNCHANGED poolVars \/ Free(r)
  BY <1>3 DEF Locking, Working, Query, CountLock, CallbackReturns, Decode, ShortPayload, SendNack,
     send_utc, CountAdd, InsertReturns, PrintError, ClearResult, SelectReturns, Acknowledge, PendSelectReturns,
     PendSend, PendPollReturns, Resend, StatSelectReturns, StatUpdateReturns
<1> QED
  BY <1>1, <1>2, <1>3 DEF Next, vars

LEMMA PoolTypeStep == TypeOK /\ [Next]_vars => PoolType'
<1> SUFFICES ASSUME PoolType, [Next]_vars PROVE PoolType'
  BY DEF TypeOK
<1> USE DEF PoolType
<1>1. CASE UNCHANGED poolVars
  BY <1>1 DEF poolVars
<1>2. ASSUME NEW r \in Requests, Pool!Submit(r) PROVE PoolType'
  BY <1>2 DEF Pool!Submit
<1>3. CASE Start
  BY <1>3, HeadTailProperties DEF Start, Pool!Start
<1>4. ASSUME NEW r \in Requests, Free(r) PROVE PoolType'
  BY <1>4 DEF Free, Pool!Complete
<1> QED
  BY <1>1, <1>2, <1>3, <1>4, PoolSteps

(* A thread of process_packet moves between the labels. *)
LEMMA WorkingRequestType ==
  ASSUME TypeOK, NEW r \in Requests, RequestInv(r), Locking(r) \/ Working(r)
  PROVE  RequestType'
<1> USE LabelFacts, AllLabels DEF TypeOK, RequestType, packetVars, threadVars, Goto
<1>0. pc[r] \in Keeping => uncleared[r] = 1
  BY DEF RequestInv, Kept
<1> USE DEF Keeping
<1>1. CASE Query(r)
  <2>1. uncleared' \in [Requests -> Nat]
    BY <1>0, <1>1 DEF Query, PQclear
  <2>2. pc' \in [Requests -> Labels]
    BY <1>1 DEF Query
  <2>3. UNCHANGED <<kind, dev, retries, stored, reply>>
    BY <1>1 DEF Query
  <2> QED
    BY <2>1, <2>2, <2>3
<1>2. CASE CountLock(r)
  BY <1>2 DEF CountLock
<1>3. CASE CallbackReturns(r)
  <2>1. kind[r] \in QueuedKinds
    BY <1>3 DEF CallbackReturns, At, RequestInv, Decided
  <2>2. PICK ok \in BOOLEAN, rows \in BOOLEAN : \E packet \in Decoded(r, ok, rows) :
          /\ kind' = [kind EXCEPT ![r] = packet.kind]
          /\ dev' = [dev EXCEPT ![r] = packet.dev]
    BY <1>3 DEF CallbackReturns
  <2>3. PICK packet \in Decoded(r, ok, rows) :
          /\ kind' = [kind EXCEPT ![r] = packet.kind]
          /\ dev' = [dev EXCEPT ![r] = packet.dev]
    BY <2>2
  <2>4. packet.kind \in QueuedKinds /\ packet.dev \in AllDevices
    BY <2>1, DecodedFacts
  <2>5. /\ UNCHANGED <<retries, stored, reply>>
        /\ pc' \in [Requests -> Labels] /\ uncleared' \in [Requests -> Nat]
    BY <1>3 DEF CallbackReturns, Keep
  <2> QED
    BY <2>3, <2>4, <2>5
<1>4. CASE Decode(r)
  <2>1. kind[r] \in QueuedKinds
    BY <1>4 DEF Decode, At, RequestInv, Decided
  <2>2. PICK label \in Branch(kind[r]) : pc' = [pc EXCEPT ![r] = label]
    BY <1>4 DEF Decode
  <2>3. label \in Labels
    BY <2>1, BranchFacts
  <2>4. uncleared' \in [Requests -> Nat]
    BY <1>0, <1>4 DEF Decode, At, PQclear
  <2>5. UNCHANGED <<kind, dev, retries, stored, reply>>
    BY <1>4 DEF Decode
  <2> QED
    BY <2>2, <2>3, <2>4, <2>5
<1>5. CASE \/ ShortPayload(r) \/ SendNack(r) \/ send_utc(r) \/ CountAdd(r) \/ PrintError(r)
  BY <1>5 DEF ShortPayload, SendNack, send_utc, CountAdd, PrintError, requestVars
<1>6. CASE InsertReturns(r)
  <2>1. \A ok \in BOOLEAN : AfterInsert(ok) \in Labels
    BY DEF AfterInsert
  <2> QED
    BY <1>6, <2>1 DEF InsertReturns, Keep
<1>7. CASE ClearResult(r)
  <2>1. uncleared' \in [Requests -> Nat]
    BY <1>0, <1>7 DEF ClearResult, At, PQclear
  <2> QED
    BY <1>7, <2>1 DEF ClearResult
<1>8. CASE SelectReturns(r)
  BY <1>8 DEF SelectReturns, Keep
<1>9. CASE Acknowledge(r)
  <2>1. uncleared' \in [Requests -> Nat]
    BY <1>0, <1>9 DEF Acknowledge, At, PQclear
  <2> QED
    BY <1>9, <2>1 DEF Acknowledge
<1>10. CASE PendSelectReturns(r)
  BY <1>10, GatewayAssumption DEF PendSelectReturns, Keep
<1>11. CASE PendSend(r)
  <2>1. uncleared' \in [Requests -> Nat]
    BY <1>0, <1>11 DEF PendSend, At, PQclear
  <2> QED
    BY <1>11, <2>1 DEF PendSend
<1>12. CASE PendPollReturns(r)
  BY <1>12, GatewayAssumption DEF PendPollReturns, Resend, Keep
<1>13. CASE \/ StatSelectReturns(r) \/ StatUpdateReturns(r)
  BY <1>13 DEF StatSelectReturns, StatUpdateReturns, Keep
<1>14. CASE Free(r)
  BY <1>14 DEF Free, AllDevices
<1> QED
  BY <1>1, <1>2, <1>3, <1>4, <1>5, <1>6, <1>7, <1>8, <1>9, <1>10, <1>11, <1>12, <1>13, <1>14
  DEF Locking, Working

(* What else touches the requests. *)
LEMMA OtherSteps ==
  ASSUME [Next]_vars
  PROVE  \/ \E r \in Requests : Locking(r) \/ Working(r)
         \/ Start
         \/ \E r \in Requests, k \in Sent, d \in Senders : Receive(r, k, d)
         \/ \E r \in Requests : ReceiveEmpty(r) \/ EnqueueUnfilled(r)
         \/ UNCHANGED <<poolVars, requestVars, stored, reply>>
<1>1. ASSUME \/ MutexInit \/ GwStatMutexInit \/ gw_stat_linked_list_init \/ ReceiveError
             \/ PQfinish \/ pthread_mutex_destroy
      PROVE  UNCHANGED <<poolVars, requestVars, stored, reply>>
  BY <1>1 DEF MutexInit, GwStatMutexInit, gw_stat_linked_list_init, ReceiveError,
     PQfinish, pthread_mutex_destroy
<1>2. ASSUME \/ ctrc_handler \/ QueryFinished \/ ConnCorrupted \/ FlushLock \/ UpdateQuery
             \/ gateway_mngr
      PROVE  UNCHANGED <<poolVars, requestVars, stored, reply>>
  BY <1>2 DEF ctrc_handler, QueryFinished, ConnCorrupted, FlushLock, UpdateQuery, gateway_mngr,
     FlushFormat, FlushReset, UpdateReturns, sigwait
<1> QED
  BY <1>1, <1>2 DEF Next, MainThread, vars

LEMMA RequestTypeStep == TypeOK /\ RequestsInv /\ [Next]_vars => RequestType'
<1> SUFFICES ASSUME TypeOK, RequestsInv, [Next]_vars PROVE RequestType'
  OBVIOUS
<1>1. ASSUME NEW r \in Requests, Locking(r) \/ Working(r) PROVE RequestType'
  BY <1>1, WorkingRequestType DEF RequestsInv
<1> USE DEF TypeOK, RequestType, threadVars, packetVars
<1>2. CASE Start
  <2>1. pc' = [pc EXCEPT ![Head(waiting)] = "callback"]
    BY <1>2 DEF Start, Goto
  <2> QED
    BY <1>2, <2>1, AllLabels, LabelFacts DEF Start
<1>3. ASSUME NEW r \in Requests, NEW k \in Sent, NEW d \in Senders, Receive(r, k, d)
      PROVE  RequestType'
  BY <1>3, KindFacts DEF Receive
<1>4. ASSUME NEW r \in Requests, ReceiveEmpty(r) \/ EnqueueUnfilled(r) PROVE RequestType'
  BY <1>4, KindFacts DEF ReceiveEmpty, EnqueueUnfilled, AllDevices
<1>5. CASE UNCHANGED <<poolVars, requestVars, stored, reply>>
  BY <1>5 DEF requestVars
<1> QED
  BY <1>1, <1>2, <1>3, <1>4, <1>5, OtherSteps

(* What happens to the two mutexes. *)
LEMMA LockSteps ==
  ASSUME [Next]_vars
  PROVE  \/ UNCHANGED lockVars
         \/ MutexInit \/ GwStatMutexInit \/ pthread_mutex_destroy
         \/ \E r \in Requests : Locking(r)
         \/ \E r \in Requests : UnlockConn(r) /\ pc[r] \in QueryingLabels
         \/ \E r \in Requests : CountAdd(r)
         \/ FlushLock \/ FlushFormat \/ FlushReset \/ UpdateQuery \/ UpdateReturns
<1>1. ASSUME MainThread
      PROVE  UNCHANGED lockVars \/ MutexInit \/ GwStatMutexInit \/ pthread_mutex_destroy
  BY <1>1 DEF MainThread, gw_stat_linked_list_init, ReceiveError,
     PQfinish, Receive, ReceiveEmpty, EnqueueUnfilled
<1>2. ASSUME \/ ctrc_handler \/ Start \/ QueryFinished \/ ConnCorrupted \/ sigwait
      PROVE  UNCHANGED lockVars
  BY <1>2 DEF ctrc_handler, Start, QueryFinished, ConnCorrupted, sigwait
<1>3. ASSUME NEW r \in Requests, Working(r)
      PROVE  \/ UNCHANGED lockVars
             \/ UnlockConn(r) /\ pc[r] \in QueryingLabels
             \/ CountAdd(r)
  BY <1>3, LabelFacts DEF Working, CallbackReturns, Decode, ShortPayload, SendNack, send_utc,
     InsertReturns, PrintError, ClearResult, SelectReturns, Acknowledge, PendSelectReturns,
     PendSend, PendPollReturns, Resend, StatSelectReturns, StatUpdateReturns, Free, At
<1> QED
  BY <1>1, <1>2, <1>3 DEF Next, vars, gateway_mngr

LEMMA LockTypeStep == TypeOK /\ [Next]_vars => LockType'
<1> SUFFICES ASSUME LockType, [Next]_vars PROVE LockType'
  BY DEF TypeOK
<1> USE DEF LockType
<1>1. CASE UNCHANGED lockVars
  BY <1>1 DEF lockVars
<1>2. CASE MutexInit \/ GwStatMutexInit \/ pthread_mutex_destroy
  BY <1>2 DEF MutexInit, GwStatMutexInit, Initialised, pthread_mutex_destroy
<1>3. ASSUME NEW r \in Requests,
             Locking(r) \/ UnlockConn(r) \/ CountAdd(r)
      PROVE  LockType'
  BY <1>3 DEF Locking, Query, CountLock, LockConn, LockStat, UnlockConn, CountAdd, UnlockStat
<1>4. CASE FlushLock \/ FlushFormat \/ FlushReset \/ UpdateQuery \/ UpdateReturns
  BY <1>4 DEF FlushLock, FlushFormat, FlushReset, UpdateQuery, UpdateReturns, LockConn,
     LockStat, UnlockConn, UnlockStat, lockVars
<1> QED
  BY <1>1, <1>2, <1>3, <1>4, LockSteps

(* What happens to the list and to the report made of it. *)
LEMMA ReportSteps ==
  ASSUME [Next]_vars
  PROVE  \/ UNCHANGED <<stat_list, managerVars, counted>>
         \/ gw_stat_linked_list_init
         \/ \E r \in Requests : CountAdd(r)
         \/ FlushLock \/ UpdateQuery \/ gateway_mngr
<1>1. ASSUME MainThread
      PROVE  UNCHANGED <<stat_list, managerVars, counted>> \/ gw_stat_linked_list_init
  BY <1>1 DEF MainThread, MutexInit, GwStatMutexInit, ReceiveError,
     PQfinish, pthread_mutex_destroy, Receive, ReceiveEmpty, EnqueueUnfilled, countVars
<1>2. ASSUME \/ ctrc_handler \/ Start \/ QueryFinished \/ ConnCorrupted
      PROVE  UNCHANGED <<stat_list, managerVars, counted>>
  BY <1>2 DEF ctrc_handler, Start, QueryFinished, ConnCorrupted, countVars
<1>3. ASSUME NEW r \in Requests, Locking(r) \/ Working(r)
      PROVE  UNCHANGED <<stat_list, managerVars, counted>> \/ CountAdd(r)
  BY <1>3 DEF Working, Locking, Query, CountLock, CallbackReturns, Decode, ShortPayload, SendNack,
     send_utc, InsertReturns, PrintError, ClearResult, SelectReturns, Acknowledge, PendSelectReturns,
     PendSend, PendPollReturns, Resend, StatSelectReturns, StatUpdateReturns, Free, countVars
<1> QED
  BY <1>1, <1>2, <1>3 DEF Next, vars, countVars

-----------------------------------------------------------------------------
(* Num looks an entry up. *)
LEMMA NumOfEntry ==
  ASSUME NEW list \in Reports, OnePerDevice(list), NEW i \in DOMAIN list
  PROVE  Num(list, list[i].dev) = list[i].num
<1> DEFINE found == CHOOSE j \in DOMAIN list : list[j].dev = list[i].dev
<1>1. found \in DOMAIN list /\ list[found].dev = list[i].dev
  OBVIOUS
<1>2. found = i
  BY <1>1 DEF OnePerDevice
<1> QED
  BY <1>2 DEF Num

LEMMA EntryType ==
  ASSUME NEW list \in Reports, NEW i \in DOMAIN list
  PROVE  /\ list[i] \in [dev : AllDevices, num : Nat \ {0}]
         /\ list[i].num \in Nat
<1>1. i \in 1 .. Len(list)
  BY DEF Reports
<1>2. list[i] \in [dev : AllDevices, num : Nat \ {0}]
  BY <1>1, ElementOfSeq DEF Reports
<1> QED
  BY <1>2

LEMMA NumOfNone ==
  ASSUME NEW list, NEW d, \A i \in DOMAIN list : list[i].dev # d
  PROVE  Num(list, d) = 0
  BY DEF Num

LEMMA NumType ==
  ASSUME NEW list \in Reports, NEW d
  PROVE  Num(list, d) \in Nat
<1>1. CASE \E i \in DOMAIN list : list[i].dev = d
  <2> DEFINE found == CHOOSE j \in DOMAIN list : list[j].dev = d
  <2>1. found \in DOMAIN list
    BY <1>1
  <2>2. list[found].num \in Nat
    BY <2>1, EntryType
  <2> QED
    BY <1>1, <2>2 DEF Num
<1> QED
  BY <1>1 DEF Num

(* gw_stat_linked_list_add counts one message of its device, and keeps one *)
(* entry for each.                                                         *)
LEMMA AddCounts ==
  ASSUME stat_list \in Reports, OnePerDevice(stat_list), NEW d \in AllDevices,
         gw_stat_linked_list_add(d)
  PROVE  /\ stat_list' \in Reports
         /\ OnePerDevice(stat_list')
         /\ \A e : Num(stat_list', e) = Num(stat_list, e) + (IF e = d THEN 1 ELSE 0)
<1> USE DEF Reports
<1>1. CASE Entry(d) # {}
  <2> DEFINE more(i) == IF i \in Entry(d) THEN [stat_list[i] EXCEPT !.num = @ + 1]
                                          ELSE stat_list[i]
  <2>1. stat_list' = [i \in DOMAIN stat_list |-> more(i)]
    BY <1>1 DEF gw_stat_linked_list_add
  <2>2. \A i \in DOMAIN stat_list : stat_list[i] \in [dev : AllDevices, num : Nat \ {0}]
    BY EntryType
  <2>3. \A i \in DOMAIN stat_list :
          /\ more(i) \in [dev : AllDevices, num : Nat \ {0}]
          /\ more(i).dev = stat_list[i].dev
          /\ more(i).num = stat_list[i].num + (IF stat_list[i].dev = d THEN 1 ELSE 0)
    BY <2>2 DEF Entry
  <2> HIDE DEF more
  <2>4. DOMAIN stat_list' = DOMAIN stat_list /\ DOMAIN stat_list = 1 .. Len(stat_list)
    BY <2>1
  <2>5. \A i \in DOMAIN stat_list :
          /\ stat_list'[i].dev = stat_list[i].dev
          /\ stat_list'[i].num = stat_list[i].num + (IF stat_list[i].dev = d THEN 1 ELSE 0)
    BY <2>1, <2>3
  <2>6. stat_list' \in Reports
    BY <2>1, <2>3, <2>4
  <2>7. OnePerDevice(stat_list')
    BY <2>4, <2>5 DEF OnePerDevice
  <2>8. ASSUME NEW e
        PROVE  Num(stat_list', e) = Num(stat_list, e) + (IF e = d THEN 1 ELSE 0)
    <3>1. CASE \E i \in DOMAIN stat_list : stat_list[i].dev = e
      <4>1. PICK i \in DOMAIN stat_list : stat_list[i].dev = e
        BY <3>1
      <4>2. Num(stat_list, e) = stat_list[i].num
        BY <4>1, NumOfEntry
      <4>3. Num(stat_list', e) = stat_list'[i].num
        BY <4>1, <2>4, <2>5, <2>6, <2>7, NumOfEntry
      <4> QED
        BY <4>1, <4>2, <4>3, <2>5
    <3>2. CASE \A i \in DOMAIN stat_list : stat_list[i].dev # e
      <4>1. e # d
        BY <1>1, <3>2 DEF Entry
      <4>2. Num(stat_list, e) = 0 /\ Num(stat_list', e) = 0
        BY <3>2, <2>4, <2>5, NumOfNone
      <4> QED
        BY <4>1, <4>2
    <3> QED
      BY <3>1, <3>2
  <2> QED
    BY <2>6, <2>7, <2>8
<1>2. CASE Entry(d) = {}
  <2> DEFINE entry == [dev |-> d, num |-> 1]
  <2>1. stat_list' = <<entry>> \o stat_list
    BY <1>2 DEF gw_stat_linked_list_add
  <2>2. /\ entry \in [dev : AllDevices, num : Nat \ {0}]
        /\ entry.dev = d /\ entry.num = 1
    OBVIOUS
  <2>3. \A i \in DOMAIN stat_list : stat_list[i].dev # d
    BY <1>2 DEF Entry
  <2> HIDE DEF entry
  <2>4. /\ stat_list' \in Reports
        /\ DOMAIN stat_list' = 1 .. Len(stat_list) + 1
        /\ DOMAIN stat_list = 1 .. Len(stat_list) /\ Len(stat_list) \in Nat
        /\ stat_list'[1] = entry
        /\ \A i \in DOMAIN stat_list : stat_list'[i + 1] = stat_list[i]
    BY <2>1, <2>2
  <2>5. \A i \in DOMAIN stat_list' :
          i = 1 \/ (i - 1 \in DOMAIN stat_list /\ stat_list'[i] = stat_list[i - 1])
    <3> SUFFICES ASSUME NEW i \in DOMAIN stat_list', i # 1
                 PROVE  i - 1 \in DOMAIN stat_list /\ stat_list'[i] = stat_list[i - 1]
      OBVIOUS
    <3>1. i - 1 \in DOMAIN stat_list /\ (i - 1) + 1 = i
      BY <2>4
    <3>2. stat_list'[(i - 1) + 1] = stat_list[i - 1]
      BY <2>4, <3>1
    <3> QED
      BY <3>1, <3>2
  <2>6. OnePerDevice(stat_list')
    <3> SUFFICES ASSUME NEW i \in DOMAIN stat_list', NEW j \in DOMAIN stat_list',
                        stat_list'[i].dev = stat_list'[j].dev
                 PROVE  i = j
      BY DEF OnePerDevice
    <3>1. CASE i = 1 /\ j = 1
      BY <3>1
    <3>2. CASE i = 1 /\ j # 1
      BY <3>2, <2>2, <2>3, <2>4, <2>5
    <3>3. CASE i # 1 /\ j = 1
      BY <3>3, <2>2, <2>3, <2>4, <2>5
    <3>4. CASE i # 1 /\ j # 1
      <4>1. i - 1 = j - 1
        BY <3>4, <2>5 DEF OnePerDevice
      <4> QED
        BY <4>1, <2>4
    <3> QED
      BY <3>1, <3>2, <3>3, <3>4
  <2>7. ASSUME NEW e
        PROVE  Num(stat_list', e) = Num(stat_list, e) + (IF e = d THEN 1 ELSE 0)
    <3>1. CASE e = d
      <4>1. Num(stat_list, e) = 0
        BY <3>1, <2>3, NumOfNone
      <4>2. Num(stat_list', e) = 1
        <5>1. 1 \in DOMAIN stat_list'
          BY <2>4
        <5> QED
          BY <5>1, <3>1, <2>2, <2>4, <2>6, NumOfEntry
      <4> QED
        BY <3>1, <4>1, <4>2
    <3>2. CASE e # d /\ \E i \in DOMAIN stat_list : stat_list[i].dev = e
      <4>1. PICK i \in DOMAIN stat_list : stat_list[i].dev = e
        BY <3>2
      <4>2. Num(stat_list, e) = stat_list[i].num
        BY <4>1, NumOfEntry
      <4>3. i + 1 \in DOMAIN stat_list' /\ stat_list'[i + 1] = stat_list[i]
        BY <2>4
      <4>4. Num(stat_list', e) = stat_list[i].num
        BY <4>1, <4>3, <2>4, <2>6, NumOfEntry
      <4>5. stat_list[i].num \in Nat
        BY EntryType
      <4> QED
        BY <3>2, <4>2, <4>4, <4>5
    <3>3. CASE e # d /\ \A i \in DOMAIN stat_list : stat_list[i].dev # e
      <4>1. \A i \in DOMAIN stat_list' : stat_list'[i].dev # e
        BY <3>3, <2>2, <2>4, <2>5
      <4> QED
        BY <3>3, <4>1, NumOfNone
    <3> QED
      BY <3>1, <3>2, <3>3
  <2> QED
    BY <2>4, <2>6, <2>7
<1> QED
  BY <1>1, <1>2

LEMMA ReportTypeStep == TypeOK /\ ListInv /\ [Next]_vars => ReportType'
<1> SUFFICES ASSUME TypeOK, ListInv, [Next]_vars PROVE ReportType'
  OBVIOUS
<1> USE DEF ReportType, TypeOK
<1>1. <<>> \in Reports
  BY DEF Reports
<1>2. CASE UNCHANGED <<stat_list, managerVars, counted>>
  BY <1>2 DEF managerVars
<1>3. CASE gw_stat_linked_list_init
  BY <1>1, <1>3 DEF gw_stat_linked_list_init, managerVars
<1>4. ASSUME NEW r \in Requests, CountAdd(r) PROVE ReportType'
  <2>1. stat_list' \in Reports
    BY <1>4, AddCounts DEF CountAdd, RequestType, ListInv
  <2> QED
    BY <1>4, <2>1 DEF CountAdd, managerVars
<1>5. CASE FlushLock \/ UpdateQuery
  BY <1>5 DEF FlushLock, UpdateQuery
<1>6. CASE FlushFormat
  <2>1. Written(stat_list) \in [written : BOOLEAN, log : Reports]
    BY Zenon DEF Written
  <2> QED
    BY <1>6, <2>1 DEF FlushFormat
<1>7. CASE FlushReset
  BY <1>1, <1>7 DEF FlushReset
<1>8. CASE UpdateReturns
  <2>1. Written(<<>>) \in [written : BOOLEAN, log : Reports]
    BY <1>1, Zenon DEF Written
  <2> QED
    BY <1>8, <2>1 DEF UpdateReturns
<1>9. CASE sigwait
  BY <1>9 DEF sigwait
<1> QED
  BY <1>2, <1>3, <1>4, <1>5, <1>6, <1>7, <1>8, <1>9, ReportSteps DEF gateway_mngr

(* What happens to the counters. *)
LEMMA CountSteps ==
  ASSUME [Next]_vars
  PROVE  \/ UNCHANGED <<countVars, reported, dropped>>
         \/ ReceiveError
         \/ \E r \in Requests, k \in Sent, d \in Senders : Receive(r, k, d)
         \/ UpdateReturns
         \/ \E r \in Requests : CountAdd(r)
         \/ /\ \E ok \in BOOLEAN : QueryOutcome(ok)
            /\ UNCHANGED <<receive_errors, strangers, counted, reported, dropped>>
<1> USE DEF countVars, managerVars
<1>1. ASSUME MainThread
      PROVE  \/ UNCHANGED <<countVars, reported, dropped>> \/ ReceiveError
             \/ \E r \in Requests, k \in Sent, d \in Senders : Receive(r, k, d)
  BY <1>1 DEF MainThread, MutexInit, GwStatMutexInit, gw_stat_linked_list_init,
     PQfinish, pthread_mutex_destroy, ReceiveEmpty, EnqueueUnfilled
<1>2. ASSUME \/ ctrc_handler \/ Start \/ QueryFinished \/ ConnCorrupted \/ FlushLock
             \/ UpdateQuery \/ FlushFormat \/ FlushReset \/ sigwait
      PROVE  UNCHANGED <<countVars, reported, dropped>>
  BY <1>2 DEF ctrc_handler, Start, QueryFinished, ConnCorrupted, FlushLock, UpdateQuery,
     FlushFormat, FlushReset, sigwait
<1>3. ASSUME NEW r \in Requests,
             \/ Locking(r) \/ Decode(r) \/ ShortPayload(r) \/ SendNack(r) \/ send_utc(r)
             \/ PrintError(r) \/ ClearResult(r) \/ Acknowledge(r) \/ PendSend(r) \/ Free(r)
      PROVE  UNCHANGED <<countVars, reported, dropped>>
  BY <1>3 DEF Locking, Query, CountLock, Decode, ShortPayload, SendNack, send_utc, PrintError,
     ClearResult, Acknowledge, PendSend, Free
<1>4. ASSUME NEW r \in Requests,
             \/ CallbackReturns(r) \/ InsertReturns(r) \/ SelectReturns(r)
             \/ PendSelectReturns(r) \/ PendPollReturns(r) \/ StatSelectReturns(r)
             \/ StatUpdateReturns(r)
      PROVE  /\ \E ok \in BOOLEAN : QueryOutcome(ok)
             /\ UNCHANGED <<receive_errors, strangers, counted, reported, dropped>>
  <2>1. UNCHANGED <<receive_errors, strangers, counted, reported, dropped>>
    BY <1>4 DEF CallbackReturns, InsertReturns, SelectReturns, PendSelectReturns,
       PendPollReturns, Resend, StatSelectReturns, StatUpdateReturns
  <2>2. CASE InsertReturns(r)
    BY <2>2 DEF InsertReturns, QueryOutcome
  <2> QED
    BY <1>4, <2>1, <2>2 DEF CallbackReturns, SelectReturns, PendSelectReturns,
       PendPollReturns, Resend, StatSelectReturns, StatUpdateReturns
<1> QED
  BY <1>1, <1>2, <1>3, <1>4 DEF Next, Working, gateway_mngr, vars

LEMMA CountTypeStep == TypeOK /\ [Next]_vars => CountType'
<1> SUFFICES ASSUME TypeOK, [Next]_vars PROVE CountType'
  OBVIOUS
<1> USE GatewayAssumption DEF CountType, TypeOK
<1>1. CASE UNCHANGED <<countVars, reported, dropped>>
  BY <1>1 DEF countVars
<1>2. CASE ReceiveError
  BY <1>2 DEF ReceiveError, FailureLeft, managerVars
<1>3. CASE UpdateReturns
  <2>1. \A d \in AllDevices : Num(buf.log, d) \in Nat
    BY NumType DEF ReportType
  <2>2. /\ AddReport(reported) \in [AllDevices -> Nat]
        /\ AddReport(dropped) \in [AllDevices -> Nat]
    BY <2>1 DEF AddReport
  <2> QED
    BY <1>3, <2>2 DEF UpdateReturns, QueryOutcome, FailureLeft
<1>4. ASSUME NEW r \in Requests, CountAdd(r) PROVE CountType'
  BY <1>4 DEF CountAdd, managerVars, RequestType
<1>5. CASE /\ \E ok \in BOOLEAN : QueryOutcome(ok)
           /\ UNCHANGED <<receive_errors, strangers, counted, reported, dropped>>
  BY <1>5 DEF QueryOutcome, FailureLeft
<1>6. ASSUME NEW r \in Requests, NEW k, NEW d, Receive(r, k, d) PROVE CountType'
  BY <1>6 DEF Receive, FailureLeft, managerVars
<1> QED
  BY <1>1, <1>2, <1>3, <1>4, <1>5, <1>6, CountSteps

LEMMA TypeStep == IInv /\ [Next]_vars => TypeOK'
  BY MainTypeStep, PoolTypeStep, RequestTypeStep, LockTypeStep, ReportTypeStep, CountTypeStep
  DEF IInv, TypeOK

-----------------------------------------------------------------------------
(* Requests. *)

LEMMA WaitingStep == IInv /\ [Next]_vars => WaitingInv'
<1> SUFFICES ASSUME TypeOK, RequestsInv, WaitingInv, [Next]_vars PROVE WaitingInv'
  BY DEF IInv
<1> USE DEF WaitingInv, TypeOK, PoolType, RequestType
<1>1. ASSUME NEW r \in Requests, Locking(r) \/ Working(r) PROVE WaitingInv'
  <2>1. waiting' = waiting
    BY <1>1 DEF Locking, Working, Query, CountLock, CallbackReturns, Decode, ShortPayload, SendNack,
       send_utc, CountAdd, InsertReturns, PrintError, ClearResult, SelectReturns, Acknowledge, PendSelectReturns,
       PendSend, PendPollReturns, Resend, StatSelectReturns, StatUpdateReturns, Free, poolVars,
       Pool!Complete
  <2>2. kind' = kind \/ kind'[r] \notin {"none", "EMPTY"}
    <3>1. CASE CallbackReturns(r)
      <4>1. kind[r] \in QueuedKinds
        BY <3>1 DEF CallbackReturns, At, RequestsInv, RequestInv, Decided
      <4>2. PICK ok \in BOOLEAN, rows \in BOOLEAN : \E packet \in Decoded(r, ok, rows) :
              kind' = [kind EXCEPT ![r] = packet.kind]
        BY <3>1 DEF CallbackReturns
      <4>3. kind'[r] \in QueuedKinds
        BY <4>1, <4>2, DecodedFacts
      <4> QED
        BY <4>3, KindFacts
    <3>2. CASE Free(r)
      BY <3>2 DEF Free
    <3>3. CASE ~CallbackReturns(r) /\ ~Free(r)
      BY <1>1, <3>3 DEF Locking, Working, Query, CountLock, Decode, ShortPayload, SendNack,
         send_utc, CountAdd, InsertReturns, PrintError, ClearResult, SelectReturns, Acknowledge, PendSelectReturns,
         PendSend, PendPollReturns, Resend, StatSelectReturns, StatUpdateReturns, packetVars,
         requestVars
    <3> QED
      BY <3>1, <3>2, <3>3
  <2>3. ASSUME NEW s \in Requests, s # r PROVE kind'[s] = kind[s]
    BY <1>1, <2>3, OthersKeep
  <2> QED
    BY <2>1, <2>2, <2>3
<1>2. CASE Start
  <2>1. waiting # <<>> /\ waiting' = Tail(waiting) /\ kind' = kind
    BY <1>2 DEF Start, Pool!Start, packetVars
  <2>2. \A i \in DOMAIN waiting' : i + 1 \in DOMAIN waiting /\ waiting'[i] = waiting[i + 1]
    BY <2>1
  <2> QED
    BY <2>1, <2>2
<1>3. ASSUME NEW r \in Requests, NEW k \in QueuedKinds,
             Pool!Submit(r), kind' = [kind EXCEPT ![r] = k]
      PROVE  WaitingInv'
  <2>1. waiting' = Append(waiting, r)
    BY <1>3 DEF Pool!Submit
  <2>2. k \notin {"none", "EMPTY"}
    BY KindFacts
  <2>3. kind'[r] = k /\ \A s \in Requests : s # r => kind'[s] = kind[s]
    BY <1>3
  <2>4. \A i \in DOMAIN waiting' :
          waiting'[i] = r \/ (i \in DOMAIN waiting /\ waiting'[i] = waiting[i])
    <3>1. /\ Len(waiting') = Len(waiting) + 1 /\ Len(waiting) \in Nat
          /\ DOMAIN waiting = 1 .. Len(waiting) /\ DOMAIN waiting' = 1 .. Len(waiting')
          /\ \A i \in 1 .. Len(waiting) : waiting'[i] = waiting[i]
          /\ waiting'[Len(waiting) + 1] = r
      BY <2>1, AppendProperties
    <3> QED
      BY <3>1
  <2>5. \A i \in DOMAIN waiting : waiting[i] \in Requests
    OBVIOUS
  <2> QED
    BY <2>2, <2>3, <2>4, <2>5
<1>4. ASSUME NEW r \in Requests, NEW k \in Sent, NEW d \in Senders, Receive(r, k, d)
      PROVE  WaitingInv'
  BY <1>3, <1>4, KindFacts DEF Receive
<1>5. ASSUME NEW r \in Requests, ReceiveEmpty(r) PROVE WaitingInv'
  <2>1. kind[r] = "none" /\ waiting' = waiting
    BY <1>5 DEF ReceiveEmpty, Fresh, poolVars
  <2>2. \A s \in Requests : s # r => kind'[s] = kind[s]
    BY <1>5 DEF ReceiveEmpty
  <2> QED
    BY <2>1, <2>2
<1>6. ASSUME NEW r \in Requests, EnqueueUnfilled(r) PROVE WaitingInv'
  BY <1>3, <1>6, KindFacts DEF EnqueueUnfilled
<1>7. CASE UNCHANGED <<poolVars, requestVars, stored, reply>>
  BY <1>7 DEF poolVars, requestVars, packetVars
<1> QED
  BY <1>1, <1>2, <1>4, <1>5, <1>6, <1>7, OtherSteps

(* What a thread does to its own request. *)
LEMMA WorkingRequestInv ==
  ASSUME TypeOK, NEW r \in Requests, RequestInv(r), Locking(r) \/ Working(r)
  PROVE  RequestInv(r)'
<1> USE LabelFacts DEF TypeOK, RequestType, PoolType, packetVars, threadVars, poolVars, Goto,
        At, RequestInv, Taken, Decided, Replied, Kept, Keeping, NeverCleared, DataLabels,
        PendLabels, AfterStore, Keep, PQclear
<1>1. CASE Query(r)
  <2>1. /\ UNCHANGED <<running, completed, kind, reply, stored>> /\ r \in running
        /\ pc[r] \in QueryLabels /\ pc'[r] = InQuery[pc[r]]
    BY <1>1 DEF Query
  <2>2. uncleared'[r] = 0
    BY <1>1 DEF Query
  <2> QED
    BY <2>1, <2>2
<1>2. CASE CountLock(r)
  BY <1>2 DEF CountLock
<1>3. CASE CallbackReturns(r)
  <2>1. /\ kind[r] \in QueuedKinds /\ pc[r] = "callback_query" /\ pc'[r] = "decode"
        /\ UNCHANGED <<running, completed, reply, stored>> /\ r \in running
        /\ uncleared[r] = 0 /\ uncleared'[r] = 1
    BY <1>3 DEF CallbackReturns
  <2>2. PICK ok \in BOOLEAN, rows \in BOOLEAN : \E packet \in Decoded(r, ok, rows) :
          kind' = [kind EXCEPT ![r] = packet.kind]
    BY <1>3 DEF CallbackReturns
  <2>3. kind'[r] \in QueuedKinds
    BY <2>1, <2>2, DecodedFacts
  <2> QED
    BY <2>1, <2>3, KindFacts
<1>4. CASE Decode(r)
  <2>1. /\ kind[r] \in QueuedKinds /\ pc[r] = "decode" /\ reply[r] = "none"
        /\ UNCHANGED <<running, completed, kind, reply, stored>> /\ r \in running
        /\ uncleared[r] = 1 /\ uncleared'[r] = 0
    BY <1>4 DEF Decode
  <2>2. PICK label \in Branch(kind[r]) : pc' = [pc EXCEPT ![r] = label]
    BY <1>4 DEF Decode
  <2>3. /\ pc'[r] = label
        /\ label \in {"count", "send_utc", "pend_select", "stat_select", "nack", "free", "short"}
        /\ label = "count" => kind[r] = "DATA_SEND"
        /\ label = "pend_select" => kind[r] = "PEND_REQ"
        /\ label \in {"nack", "free"} => kind[r] # "PEND_REQ"
    BY <2>1, <2>2, BranchFacts
  <2> QED
    BY <2>1, <2>3, KindFacts
<1>5. CASE ShortPayload(r)
  BY <1>5 DEF ShortPayload, requestVars
<1>6. CASE SendNack(r)
  BY <1>6 DEF SendNack
<1>7. CASE send_utc(r)
  BY <1>7 DEF send_utc
<1>8. CASE CountAdd(r)
  BY <1>8 DEF CountAdd
<1>9. CASE InsertReturns(r)
  <2>1. PICK ok \in BOOLEAN :
          /\ stored' = IF ok THEN stored \cup {r} ELSE stored
          /\ pc' = [pc EXCEPT ![r] = AfterInsert(ok)]
    BY <1>9 DEF InsertReturns
  <2>2. /\ r \in stored => r \in stored'
        /\ pc'[r] = "error" \/ (pc'[r] = "select" /\ r \in stored')
    BY <2>1 DEF AfterInsert
  <2>3. /\ UNCHANGED <<running, completed, kind, reply>>
        /\ r \in running /\ pc[r] = "insert_query"
        /\ uncleared[r] = 0 /\ uncleared'[r] = 1
    BY <1>9 DEF InsertReturns
  <2> QED
    BY <2>2, <2>3
<1>10. CASE PrintError(r)
  BY <1>10 DEF PrintError
<1>11. CASE ClearResult(r)
  BY <1>11 DEF ClearResult
<1>12. CASE SelectReturns(r)
  BY <1>12 DEF SelectReturns
<1>13. CASE Acknowledge(r)
  <2>1. /\ UNCHANGED <<running, completed, kind, stored>> /\ r \in running
        /\ pc[r] \in {"ack", "ack_pend"} /\ pc'[r] = "free"
        /\ reply'[r] \in {"ACK", "ACK_PEND"}
        /\ uncleared[r] = 1 /\ uncleared'[r] = 0
    BY <1>13 DEF Acknowledge
  <2> QED
    BY <2>1
<1>14. CASE PendSelectReturns(r)
  <2>1. /\ UNCHANGED <<running, completed, kind, stored, reply>> /\ r \in running
        /\ pc[r] = "pend_select_query" /\ pc'[r] \in {"pend_send", "nack"}
        /\ uncleared[r] = 0 /\ uncleared'[r] = 1
    BY <1>14 DEF PendSelectReturns
  <2> QED
    BY <2>1
<1>15. CASE PendSend(r)
  <2>1. /\ UNCHANGED <<running, completed, kind, stored>> /\ r \in running
        /\ pc[r] = "pend_send" /\ pc'[r] = "pend_poll" /\ reply'[r] = "PEND_SEND"
        /\ uncleared[r] = 1 /\ uncleared'[r] = 0
    BY <1>15 DEF PendSend
  <2> QED
    BY <2>1
<1>16. CASE PendPollReturns(r)
  <2>1. /\ UNCHANGED <<running, completed, kind, stored, reply>> /\ r \in running
        /\ pc[r] = "pend_poll_query" /\ pc'[r] \in {"pend_send", "clear"}
        /\ uncleared[r] = 0 /\ uncleared'[r] = 1
    BY <1>16 DEF PendPollReturns, Resend
  <2> QED
    BY <2>1
<1>17. CASE StatSelectReturns(r) \/ StatUpdateReturns(r)
  <2>1. /\ UNCHANGED <<running, completed, kind, stored, reply>> /\ r \in running
        /\ pc[r] \in {"stat_select_query", "stat_update_query"}
        /\ pc'[r] \in {"stat_update", "clear", "error"}
        /\ uncleared[r] = 0 /\ uncleared'[r] = 1
    BY <1>17 DEF StatSelectReturns, StatUpdateReturns
  <2> QED
    BY <2>1
<1>18. CASE Free(r)
  BY <1>18 DEF Free, Pool!Complete
<1> QED
  BY <1>1, <1>2, <1>3, <1>4, <1>5, <1>6, <1>7, <1>8, <1>9, <1>10, <1>11, <1>12, <1>13,
     <1>14, <1>15, <1>16, <1>17, <1>18 DEF Locking, Working

LEMMA RequestsStep == IInv /\ [Next]_vars => RequestsInv'
<1> SUFFICES ASSUME TypeOK, RequestsInv, WaitingInv, [Next]_vars, NEW s \in Requests
             PROVE  RequestInv(s)'
  BY DEF IInv, RequestsInv
<1> USE DEF TypeOK, RequestType, PoolType
<1>1. RequestInv(s)
  BY DEF RequestsInv
<1>2. ASSUME NEW r \in Requests, Locking(r) \/ Working(r) PROVE RequestInv(s)'
  <2>1. CASE s = r
    BY <1>1, <1>2, <2>1, WorkingRequestInv
  <2>2. CASE s # r
    BY <1>1, <1>2, <2>2, OthersKeep
       DEF RequestInv, Taken, Decided, Replied, Kept, NeverCleared
  <2> QED
    BY <2>1, <2>2
<1> USE DEF RequestInv, Taken, Decided, Replied, Kept, Keeping, NeverCleared, DataLabels,
            PendLabels, AfterStore
<1>3. CASE Start
  <2> DEFINE h == Head(waiting)
  <2>1. /\ waiting # <<>> /\ h \notin running \cup completed
        /\ pc' = [pc EXCEPT ![h] = "callback"]
        /\ running' = running \cup {h}
        /\ UNCHANGED <<completed, kind, uncleared, reply, stored>>
    BY <1>3 DEF Start, Pool!Start, Goto, packetVars, threadVars
  <2>2. h \in Requests /\ h = waiting[1] /\ 1 \in DOMAIN waiting
    BY <2>1
  <2>3. kind[h] \notin {"none", "EMPTY"}
    BY <2>2 DEF WaitingInv
  <2>4. RequestInv(h)
    BY <2>2 DEF RequestsInv
  <2>5. pc[h] = "none" /\ kind[h] # "freed"
    BY <2>1, <2>4
  <2>6. kind[h] \in QueuedKinds
    BY <2>2, <2>3, <2>5
  <2>7. CASE s = h
    BY <1>1, <2>1, <2>2, <2>3, <2>5, <2>6, <2>7
  <2>8. CASE s # h
    BY <1>1, <2>1, <2>8
  <2> QED
    BY <2>7, <2>8
<1>4. ASSUME NEW r \in Requests, NEW k, kind' = [kind EXCEPT ![r] = k],
             k \notin {"none", "freed"}, pc[r] = "none",
             UNCHANGED <<pc, uncleared, reply, stored, running, completed>>
      PROVE  RequestInv(s)'
  BY <1>1, <1>4
<1>5. ASSUME NEW r \in Requests, ~Pool!Known(r) PROVE pc[r] = "none"
  <2>1. r \notin running \cup completed
    BY <1>5 DEF Pool!Known
  <2> QED
    BY <2>1 DEF RequestsInv
<1> HIDE DEF RequestInv, Taken, Decided, Replied, Kept, Keeping, NeverCleared, DataLabels,
             PendLabels, AfterStore
<1>6. ASSUME NEW r \in Requests, NEW k \in Sent, NEW d \in Senders, Receive(r, k, d)
      PROVE  RequestInv(s)'
  <2>1. k \notin {"none", "freed"}
    BY KindFacts
  <2>2. /\ ~Pool!Known(r) /\ kind' = [kind EXCEPT ![r] = k]
        /\ UNCHANGED <<pc, uncleared, reply, stored, running, completed>>
    BY <1>6 DEF Receive, Pool!Submit, threadVars
  <2> QED
    BY <1>4, <1>5, <2>1, <2>2
<1>7. ASSUME NEW r \in Requests, ReceiveEmpty(r) PROVE RequestInv(s)'
  <2>1. /\ kind[r] = "none" /\ kind' = [kind EXCEPT ![r] = "EMPTY"]
        /\ UNCHANGED <<pc, uncleared, reply, stored, running, completed>>
    BY <1>7 DEF ReceiveEmpty, Fresh, threadVars, poolVars
  <2>2. pc[r] = "none"
    BY <2>1 DEF RequestsInv, RequestInv, Taken
  <2>3. PICK k : k = "EMPTY"
    OBVIOUS
  <2>4. k \notin {"none", "freed"} /\ kind' = [kind EXCEPT ![r] = k]
    BY <2>1, <2>3
  <2> QED
    BY <1>4, <2>1, <2>2, <2>4
<1>8. ASSUME NEW r \in Requests, EnqueueUnfilled(r) PROVE RequestInv(s)'
  <2>1. /\ ~Pool!Known(r) /\ kind' = [kind EXCEPT ![r] = "UNFILLED"]
        /\ UNCHANGED <<pc, uncleared, reply, stored, running, completed>>
    BY <1>8 DEF EnqueueUnfilled, Pool!Submit, threadVars
  <2>2. PICK k : k = "UNFILLED"
    OBVIOUS
  <2>3. k \notin {"none", "freed"} /\ kind' = [kind EXCEPT ![r] = k]
    BY <2>1, <2>2
  <2> QED
    BY <1>4, <1>5, <2>1, <2>3
<1>9. CASE UNCHANGED <<poolVars, requestVars, stored, reply>>
  BY <1>1, <1>9 DEF poolVars, requestVars, packetVars, threadVars, RequestInv, Taken, Decided,
     Replied, Kept, NeverCleared
<1> QED
  BY <1>2, <1>3, <1>6, <1>7, <1>8, <1>9, OtherSteps

-----------------------------------------------------------------------------
(* Errors. *)

LEMMA MainSteps ==
  ASSUME [Next]_vars
  PROVE  \/ UNCHANGED mainVars
         \/ MutexInit \/ GwStatMutexInit \/ gw_stat_linked_list_init
         \/ ctrc_handler \/ pthread_mutex_destroy \/ PQfinish \/ QueryFinished \/ ConnCorrupted
         \/ ReceiveError
         \/ /\ main_pc \in {"recvfrom", "recv_error"}
            /\ LoopOrLeave /\ UNCHANGED working
         \/ \E r \in Requests : ShortPayload(r) \/ PrintError(r)
<1>1. ASSUME NEW r \in Requests, NEW k, NEW d,
             Receive(r, k, d) \/ ReceiveEmpty(r) \/ EnqueueUnfilled(r)
      PROVE  main_pc \in {"recvfrom", "recv_error"} /\ LoopOrLeave /\ UNCHANGED working
  BY <1>1 DEF Receive, ReceiveEmpty, EnqueueUnfilled
<1>2. ASSUME Start \/ gateway_mngr
      PROVE  UNCHANGED mainVars
  BY <1>2 DEF Start, FlushLock, UpdateQuery, gateway_mngr, FlushFormat,
     FlushReset, UpdateReturns, sigwait
<1>3. ASSUME NEW r \in Requests, Locking(r) \/ Working(r)
      PROVE  UNCHANGED mainVars \/ ShortPayload(r) \/ PrintError(r)
  BY <1>3 DEF Locking, Working, Query, CountLock, CallbackReturns, Decode, SendNack, send_utc,
     CountAdd, InsertReturns, ClearResult, SelectReturns, Acknowledge, PendSelectReturns, PendSend,
     PendPollReturns, Resend, StatSelectReturns, StatUpdateReturns, Free
<1>4. UNCHANGED vars => UNCHANGED mainVars
  BY DEF vars
<1> QED
  BY <1>1, <1>2, <1>3, <1>4 DEF Next, MainThread

LEMMA ErrorsGrow ==
  ASSUME TypeOK, [Next]_vars
  PROVE  /\ Errors \in Nat /\ Errors' \in Nat /\ Errors' >= Errors
         /\ receive_errors \in Nat /\ receive_errors' \in Nat
         /\ receive_errors' >= receive_errors
<1> USE GatewayAssumption DEF TypeOK, CountType, Errors
<1>1. CASE UNCHANGED <<countVars, reported, dropped>>
  BY <1>1 DEF countVars
<1>2. CASE ReceiveError
  BY <1>2 DEF ReceiveError
<1>3. CASE UpdateReturns
  BY <1>3 DEF UpdateReturns, QueryOutcome
<1>4. ASSUME NEW r \in Requests, CountAdd(r)
      PROVE  UNCHANGED <<db_failures, receive_errors, strangers>>
  BY <1>4 DEF CountAdd
<1>5. CASE /\ \E ok \in BOOLEAN : QueryOutcome(ok)
           /\ UNCHANGED <<receive_errors, strangers, counted, reported, dropped>>
  BY <1>5 DEF QueryOutcome
<1>6. ASSUME NEW r, NEW k, NEW d, Receive(r, k, d)
      PROVE  /\ UNCHANGED <<db_failures, receive_errors>>
             /\ strangers' = strangers \/ strangers' = strangers + 1
  BY <1>6 DEF Receive
<1> QED
  BY <1>1, <1>2, <1>3, <1>4, <1>5, <1>6, CountSteps

(* A thread is in trouble by an error only, or by a stranger.              *)
LEMMA WorkingSuspect ==
  ASSUME TypeOK, NEW r \in Requests, RequestInv(r), Locking(r) \/ Working(r), Suspect(r)',
         CountType'
  PROVE  Suspect(r) \/ Errors' > 0
<1> USE DEF TypeOK, RequestType, At, Goto
<1>0. ASSUME db_failures' = db_failures + 1, UNCHANGED <<receive_errors, strangers>>
      PROVE  Errors' > 0
  BY <1>0, GatewayAssumption DEF CountType, Errors
<1>1. CASE CallbackReturns(r)
  <2>1. /\ kind[r] \in QueuedKinds /\ pc[r] = "callback_query" /\ pc'[r] = "decode"
        /\ UNCHANGED <<receive_errors, strangers>>
    BY <1>1 DEF CallbackReturns, RequestInv, Decided
  <2>2. PICK ok \in BOOLEAN, rows \in BOOLEAN :
          /\ QueryOutcome(ok)
          /\ dev[r] \in Devices => rows
          /\ \E packet \in Decoded(r, ok, rows) :
               /\ kind' = [kind EXCEPT ![r] = packet.kind]
               /\ dev' = [dev EXCEPT ![r] = packet.dev]
    BY <1>1 DEF CallbackReturns
  <2>3. PICK packet \in Decoded(r, ok, rows) :
          /\ kind' = [kind EXCEPT ![r] = packet.kind]
          /\ dev' = [dev EXCEPT ![r] = packet.dev]
    BY <2>2
  <2>4. CASE ~ok
    BY <1>0, <2>1, <2>2, <2>4 DEF QueryOutcome
  <2>5. CASE ok /\ rows
    <3>1. kind'[r] = kind[r] /\ dev'[r] = dev[r]
      BY <2>1, <2>3, <2>5, DecodedFacts
    <3> QED
      BY <2>1, <3>1 DEF Suspect
  <2>6. CASE dev[r] = Phantom
    BY <2>1, <2>6, KindFacts DEF Suspect
  <2> QED
    BY <2>2, <2>4, <2>5, <2>6 DEF AllDevices
<1>2. CASE Decode(r)
  <2>1. /\ kind[r] \in QueuedKinds /\ pc[r] = "decode" /\ UNCHANGED <<kind, dev>>
    BY <1>2 DEF Decode, RequestInv, Decided, packetVars
  <2>2. PICK label \in Branch(kind[r]) : pc' = [pc EXCEPT ![r] = label]
    BY <1>2 DEF Decode
  <2>3. pc'[r] # "error" /\ (pc'[r] = "short" => kind[r] \in {"SHORT", "UNFILLED"})
    BY <2>1, <2>2, BranchFacts
  <2> QED
    BY <2>1, <2>3 DEF Suspect
<1>3. CASE InsertReturns(r)
  <2>1. PICK ok \in BOOLEAN :
          /\ dev[r] = Phantom => ~ok
          /\ IF dev[r] = Phantom THEN UNCHANGED db_failures ELSE QueryOutcome(ok)
          /\ pc' = [pc EXCEPT ![r] = AfterInsert(ok)]
    BY <1>3 DEF InsertReturns
  <2>2. /\ UNCHANGED <<kind, dev, receive_errors, strangers>> /\ pc[r] = "insert_query"
    BY <1>3 DEF InsertReturns, packetVars
  <2>3. CASE dev[r] = Phantom
    BY <2>2, <2>3, KindFacts DEF Suspect, RequestInv, Decided, DataLabels
  <2>4. CASE dev[r] # Phantom /\ ~ok
    BY <1>0, <2>1, <2>2, <2>4 DEF QueryOutcome
  <2>5. CASE dev[r] # Phantom /\ ok
    <3>1. pc'[r] = "select"
      BY <2>1, <2>5 DEF AfterInsert
    <3> QED
      BY <2>2, <3>1 DEF Suspect
  <2> QED
    BY <2>3, <2>4, <2>5
<1>4. CASE StatUpdateReturns(r)
  <2>1. PICK ok \in BOOLEAN :
          QueryOutcome(ok) /\ pc' = [pc EXCEPT ![r] = IF ok THEN "clear" ELSE "error"]
    BY <1>4 DEF StatUpdateReturns
  <2>2. UNCHANGED <<kind, dev, receive_errors, strangers>>
    BY <1>4 DEF StatUpdateReturns, packetVars
  <2>3. CASE ~ok
    BY <1>0, <2>1, <2>2, <2>3 DEF QueryOutcome
  <2>4. CASE ok
    <3>1. pc'[r] = "clear"
      BY <2>1, <2>4
    <3> QED
      BY <2>2, <3>1 DEF Suspect
  <2> QED
    BY <2>3, <2>4
<1>5. CASE Free(r)
  <2>1. kind'[r] = "freed" /\ pc'[r] = "done"
    BY <1>5 DEF Free
  <2> QED
    BY <2>1 DEF Suspect
<1>6. CASE Locking(r)
  BY <1>6, LabelFacts DEF Locking, Query, CountLock, packetVars, Suspect
<1>7. CASE \/ ShortPayload(r) \/ SendNack(r) \/ send_utc(r) \/ CountAdd(r)
           \/ PrintError(r) \/ ClearResult(r) \/ SelectReturns(r) \/ Acknowledge(r)
           \/ PendSelectReturns(r) \/ PendSend(r) \/ PendPollReturns(r) \/ StatSelectReturns(r)
  <2>1. UNCHANGED <<kind, dev>> /\ (pc'[r] = pc[r] \/ pc'[r] \notin {"short", "error"})
    BY <1>7 DEF ShortPayload, SendNack, send_utc, CountAdd, PrintError, ClearResult,
       SelectReturns, Acknowledge, PendSelectReturns, PendSend, PendPollReturns, Resend,
       StatSelectReturns, packetVars, requestVars
  <2> QED
    BY <2>1 DEF Suspect
<1> QED
  BY <1>1, <1>2, <1>3, <1>4, <1>5, <1>6, <1>7 DEF Working

LEMMA SuspectOfErrors ==
  ASSUME IInv, [Next]_vars, NEW s \in Requests, Suspect(s)'
  PROVE  Errors' > 0
<1> USE DEF TypeOK, RequestType
<1>1. TypeOK /\ RequestsInv /\ ErrorInv /\ WaitingInv
  BY DEF IInv
<1>2. ASSUME Errors > 0 PROVE Errors' > 0
  BY <1>1, <1>2, ErrorsGrow
<1>3. ASSUME Suspect(s) PROVE Errors' > 0
  BY <1>1, <1>2, <1>3 DEF ErrorInv
<1>4. CountType'
  BY <1>1, CountTypeStep
<1>5. ASSUME NEW r \in Requests, Locking(r) \/ Working(r) PROVE Errors' > 0
  <2>1. CASE s # r
    <3>1. kind'[s] = kind[s] /\ dev'[s] = dev[s] /\ pc'[s] = pc[s]
      BY <1>1, <1>5, <2>1, OthersKeep
    <3> QED
      BY <1>3, <3>1 DEF Suspect
  <2>2. CASE s = r
    BY <1>1, <1>3, <1>4, <1>5, <2>2, WorkingSuspect DEF RequestsInv
  <2> QED
    BY <2>1, <2>2
<1>6. CASE Start
  <2>1. UNCHANGED <<kind, dev>> /\ pc' = [pc EXCEPT ![Head(waiting)] = "callback"]
    BY <1>6 DEF Start, Goto, packetVars
  <2>2. Suspect(s)
    BY <1>1, <2>1 DEF Suspect
  <2> QED
    BY <1>3, <2>2
<1>7. ASSUME NEW r \in Requests, NEW k \in Sent, NEW d \in Senders, Receive(r, k, d)
      PROVE  Errors' > 0
  <2>1. /\ kind' = [kind EXCEPT ![r] = k] /\ dev' = [dev EXCEPT ![r] = d] /\ pc' = pc
        /\ IF Expected(k, d) THEN UNCHANGED strangers ELSE strangers' = strangers + 1
        /\ UNCHANGED <<db_failures, receive_errors>> /\ ~Pool!Known(r)
    BY <1>7 DEF Receive, Pool!Submit
  <2>2. CASE s # r
    BY <1>1, <1>3, <2>1, <2>2 DEF Suspect
  <2>3. CASE s = r /\ ~Expected(k, d)
    BY <1>1, <1>4, <2>1, <2>3, GatewayAssumption DEF Errors, CountType
  <2>4. CASE s = r /\ Expected(k, d)
    <3>1. kind'[s] = k /\ dev'[s] = d /\ k \notin {"SHORT", "UNFILLED"} /\ d # Phantom
      BY <1>1, <2>1, <2>4, GatewayAssumption DEF Expected, DecodedKinds, Kinds
    <3>2. Suspect(s)
      BY <2>1, <3>1 DEF Suspect
    <3> QED
      BY <1>3, <3>2
  <2> QED
    BY <2>2, <2>3, <2>4
<1>8. ASSUME NEW r \in Requests, ReceiveEmpty(r) PROVE Errors' > 0
  <2>1. Suspect(s)
    BY <1>1, <1>8 DEF ReceiveEmpty, Suspect
  <2> QED
    BY <1>3, <2>1
<1>9. ASSUME NEW r \in Requests, EnqueueUnfilled(r) PROVE Errors' > 0
  <2>1. receive_errors > 0
    BY <1>1, <1>9 DEF EnqueueUnfilled, ErrorInv
  <2>2. Errors > 0
    BY <1>1, <2>1, GatewayAssumption DEF Errors, CountType
  <2> QED
    BY <1>2, <2>2
<1>10. CASE UNCHANGED <<poolVars, requestVars, stored, reply>>
  BY <1>3, <1>10 DEF requestVars, packetVars, Suspect
<1> QED
  BY <1>5, <1>6, <1>7, <1>8, <1>9, <1>10, OtherSteps

(* Nobody acts after the process has died.                                 *)
LEMMA DeadStops ==
  ASSUME [Next]_vars, main_pc = "crashed"
  PROVE  UNCHANGED vars
<1> USE DEF Alive, At, MgrAt
<1>1. ~MainThread
  BY DEF MainThread, MutexInit, GwStatMutexInit, gw_stat_linked_list_init, Receive,
     ReceiveEmpty, EnqueueUnfilled, ReceiveError, pthread_mutex_destroy, PQfinish
<1>2. ~ctrc_handler /\ ~Start /\ ~QueryFinished /\ ~ConnCorrupted /\ ~gateway_mngr
  BY DEF ctrc_handler, Start, QueryFinished, ConnCorrupted, gateway_mngr, FlushLock,
     FlushFormat, FlushReset, UpdateQuery, UpdateReturns, sigwait
<1>3. ASSUME NEW r \in Requests, Locking(r) \/ Working(r) PROVE FALSE
  BY <1>3 DEF Locking, Working, Query, CountLock, CallbackReturns, Decode, ShortPayload,
     SendNack, send_utc, CountAdd, InsertReturns, PrintError, ClearResult, SelectReturns,
     Acknowledge, PendSelectReturns, PendSend, PendPollReturns, StatSelectReturns,
     StatUpdateReturns, Free
<1> QED
  BY <1>1, <1>2, <1>3 DEF Next

LEMMA ErrorStep == IInv /\ [Next]_vars => ErrorInv'
<1> SUFFICES ASSUME IInv, [Next]_vars PROVE ErrorInv'
  OBVIOUS
<1>1. TypeOK /\ RequestsInv /\ ErrorInv /\ MutexInv /\ ConnInv
  BY DEF IInv
<1>2. /\ Errors \in Nat /\ Errors' \in Nat /\ Errors' >= Errors
      /\ receive_errors \in Nat /\ receive_errors' \in Nat /\ receive_errors' >= receive_errors
  BY <1>1, ErrorsGrow
<1>3. \A r \in Requests : Suspect(r)' => Errors' > 0
  BY SuspectOfErrors
<1> HIDE DEF Errors
<1>4. CASE main_pc = "crashed"
  <2>1. UNCHANGED vars
    BY <1>4, DeadStops
  <2>2. UNCHANGED <<mainVars, raced>>
    BY <2>1 DEF vars, lockVars
  <2> QED
    BY <1>1, <1>2, <1>3, <2>2 DEF ErrorInv, mainVars
<1>5. CASE UNCHANGED mainVars /\ main_pc # "crashed"
  BY <1>1, <1>2, <1>3, <1>5 DEF ErrorInv, mainVars
<1>6. CASE MutexInit \/ GwStatMutexInit \/ gw_stat_linked_list_init
  BY <1>3, <1>6 DEF ErrorInv, MutexInit, GwStatMutexInit, gw_stat_linked_list_init
<1>7. CASE ctrc_handler
  BY <1>1, <1>2, <1>3, <1>7 DEF ErrorInv, ctrc_handler
<1>8. CASE pthread_mutex_destroy \/ PQfinish \/ QueryFinished
  BY <1>1, <1>3, <1>8 DEF ErrorInv, pthread_mutex_destroy, PQfinish, QueryFinished
<1>9. CASE ConnCorrupted
  <2>1. ~Sound /\ main_pc' = "crashed" /\ UNCHANGED <<working, raced, mutex>>
    BY <1>1, <1>9 DEF ConnCorrupted, ConnInv, lockVars
  <2> QED
    BY <1>1, <1>3, <2>1 DEF ErrorInv, MutexInv, Sound
<1>10. CASE ReceiveError
  <2>1. receive_errors' > 0
    BY <1>2, <1>10 DEF ReceiveError
  <2> QED
    BY <1>3, <1>10, <2>1 DEF ErrorInv, ReceiveError
<1>11. CASE LoopOrLeave /\ UNCHANGED working
  BY <1>1, <1>3, <1>11 DEF ErrorInv, LoopOrLeave
<1>12. ASSUME NEW r \in Requests, ShortPayload(r) \/ PrintError(r) PROVE ErrorInv'
  <2>1. Suspect(r) /\ UNCHANGED working /\ main_pc' \in {main_pc, "crashed"}
    BY <1>12 DEF ShortPayload, PrintError, At, Suspect
  <2>2. Errors' > 0
    BY <1>1, <1>2, <2>1 DEF ErrorInv
  <2> QED
    BY <1>1, <1>2, <1>3, <2>1, <2>2 DEF ErrorInv
<1> QED
  BY <1>4, <1>5, <1>6, <1>7, <1>8, <1>9, <1>10, <1>11, <1>12, MainSteps

-----------------------------------------------------------------------------
(* The connection. *)

LEMMA MutexStep == IInv /\ [Next]_vars => MutexInv'
<1> SUFFICES ASSUME TypeOK, ErrorInv, MutexInv, [Next]_vars PROVE MutexInv'
  BY DEF IInv
<1> USE DEF TypeOK, LockType, MainType
<1> DEFINE Closed == {"closing", "finished", "crashed"}
           Early == {"mutex_init", "gw_stat_mutex_init"}
<1>1. /\ main_pc' = "mutex_init" => main_pc = "mutex_init" /\ ~MutexInit
      /\ main_pc' \in Early => main_pc \in Early /\ ~GwStatMutexInit
      /\ main_pc \in Closed => main_pc' \in Closed
      /\ working' => working
  <2>1. CASE UNCHANGED mainVars
    BY <2>1 DEF mainVars, MutexInit, GwStatMutexInit
  <2>2. CASE MutexInit \/ GwStatMutexInit \/ gw_stat_linked_list_init
    BY <2>2 DEF MutexInit, GwStatMutexInit, gw_stat_linked_list_init
  <2>3. CASE ctrc_handler
    BY <2>3 DEF ctrc_handler, MutexInit, GwStatMutexInit
  <2>4. CASE pthread_mutex_destroy \/ PQfinish \/ QueryFinished \/ ConnCorrupted \/ ReceiveError
    BY <2>4 DEF pthread_mutex_destroy, PQfinish, QueryFinished, ConnCorrupted, ReceiveError
  <2>5. CASE main_pc \in {"recvfrom", "recv_error"} /\ LoopOrLeave /\ UNCHANGED working
    BY <2>5 DEF LoopOrLeave
  <2>6. ASSUME NEW r \in Requests, ShortPayload(r) \/ PrintError(r)
        PROVE  main_pc' \in {main_pc, "crashed"} /\ UNCHANGED working
    BY <2>6 DEF ShortPayload, PrintError
  <2>7. CASE /\ \E r \in Requests : ShortPayload(r) \/ PrintError(r)
             /\ main_pc' \in {main_pc, "crashed"} /\ UNCHANGED working
    BY <2>7 DEF MutexInit, GwStatMutexInit
  <2> QED
    BY <2>1, <2>2, <2>3, <2>4, <2>5, <2>6, <2>7, MainSteps
<1>2. /\ mutex' = "orphaned" => mutex = "orphaned" \/ MutexInit
      /\ mutex' = "destroyed" => mutex = "destroyed" \/ pthread_mutex_destroy
      /\ gw_stat_mutex' = "orphaned" => gw_stat_mutex = "orphaned" \/ GwStatMutexInit
  <2>1. CASE UNCHANGED lockVars
    BY <2>1 DEF lockVars
  <2>2. ASSUME NEW r \in Requests, Locking(r) \/ UnlockConn(r) \/ CountAdd(r)
        PROVE  /\ mutex' \in {mutex, "held", "free"}
               /\ gw_stat_mutex' \in {gw_stat_mutex, "held", "free"}
    BY <2>2 DEF Locking, Query, CountLock, LockConn, LockStat, UnlockConn, CountAdd, UnlockStat
  <2>3. ASSUME FlushLock \/ FlushFormat \/ FlushReset \/ UpdateQuery \/ UpdateReturns
        PROVE  /\ mutex' \in {mutex, "held", "free"}
               /\ gw_stat_mutex' \in {gw_stat_mutex, "held", "free"}
    BY <2>3 DEF FlushLock, FlushFormat, FlushReset, UpdateQuery, UpdateReturns, LockConn,
       LockStat, UnlockConn, UnlockStat, lockVars
  <2>4. CASE MutexInit
    BY <2>4 DEF MutexInit, Initialised
  <2>5. CASE GwStatMutexInit
    BY <2>5 DEF GwStatMutexInit
  <2>6. CASE pthread_mutex_destroy
    BY <2>6 DEF pthread_mutex_destroy
  <2> QED
    BY <2>1, <2>2, <2>3, <2>4, <2>5, <2>6, LockSteps
<1>3. pthread_mutex_destroy => main_pc' = "closing" /\ ~working'
  BY DEF pthread_mutex_destroy, ErrorInv
<1> QED
  BY <1>1, <1>2, <1>3 DEF MutexInv

SameConn == UNCHANGED <<mutex, querying>> /\ ("mutex" \in raced' <=> "mutex" \in raced)

(* Where a thread goes without asking for the connection, and what it does *)
(* to the mutex.                                                           *)
LEMMA ThreadMoves ==
  ASSUME TypeOK, NEW r \in Requests, RequestInv(r), Locking(r) \/ Working(r)
  PROVE  \/ Query(r)
         \/ /\ pc'[r] \notin QueryingLabels
            /\ UNCHANGED mgr_pc
            /\ \/ UnlockConn(r) /\ pc[r] \in QueryingLabels
               \/ SameConn /\ pc[r] \notin QueryingLabels
<1> USE LabelFacts DEF TypeOK, RequestType, At, Goto
<1>1. CASE CountLock(r) \/ CountAdd(r)
  BY <1>1 DEF CountLock, CountAdd, LockStat, UnlockStat, managerVars, SameConn
<1>2. CASE CallbackReturns(r)
  BY <1>2 DEF CallbackReturns, managerVars
<1>3. CASE Decode(r)
  <2>1. /\ SameConn /\ UNCHANGED mgr_pc
        /\ kind[r] \in QueuedKinds /\ pc[r] = "decode"
    BY <1>3 DEF Decode, RequestInv, Decided, managerVars, lockVars, SameConn
  <2>2. PICK label \in Branch(kind[r]) : pc' = [pc EXCEPT ![r] = label]
    BY <1>3 DEF Decode
  <2>3. pc'[r] = label /\ label \notin QueryingLabels
    BY <2>1, <2>2, BranchFacts
  <2> QED
    BY <2>1, <2>3
<1>4. CASE \/ ShortPayload(r) \/ SendNack(r) \/ send_utc(r) \/ PrintError(r) \/ ClearResult(r)
           \/ Acknowledge(r) \/ PendSend(r) \/ Free(r)
  BY <1>4 DEF ShortPayload, SendNack, send_utc, PrintError, ClearResult, Acknowledge, PendSend,
     Free, lockVars, managerVars, requestVars, SameConn
<1>5. CASE InsertReturns(r)
  <2>1. \A ok \in BOOLEAN : AfterInsert(ok) \notin QueryingLabels
    BY DEF AfterInsert
  <2> QED
    BY <1>5, <2>1 DEF InsertReturns, managerVars
<1>6. CASE \/ SelectReturns(r) \/ PendSelectReturns(r) \/ PendPollReturns(r)
           \/ StatSelectReturns(r) \/ StatUpdateReturns(r)
  BY <1>6 DEF SelectReturns, PendSelectReturns, PendPollReturns, Resend, StatSelectReturns,
     StatUpdateReturns, managerVars
<1> QED
  BY <1>1, <1>2, <1>3, <1>4, <1>5, <1>6 DEF Locking, Working

(* What happens to the connection's mutex without the threads' doing. *)
Aside ==
  /\ UNCHANGED pc
  /\ SameConn
  /\ mgr_pc' = mgr_pc \/ "update_query" \notin {mgr_pc, mgr_pc'}

LEMMA OtherMoves ==
  ASSUME [Next]_vars
  PROVE  \/ \E r \in Requests : Locking(r) \/ Working(r)
         \/ Start
         \/ UpdateQuery \/ UpdateReturns
         \/ MutexInit \/ pthread_mutex_destroy
         \/ Aside
<1>1. CASE GwStatMutexInit
  BY <1>1 DEF GwStatMutexInit, requestVars, managerVars, Aside, SameConn
<1>2. ASSUME \/ gw_stat_linked_list_init \/ ReceiveError \/ PQfinish
             \/ ctrc_handler \/ QueryFinished \/ ConnCorrupted
      PROVE  Aside
  BY <1>2 DEF gw_stat_linked_list_init, ReceiveError, PQfinish, ctrc_handler,
     QueryFinished, ConnCorrupted, requestVars, managerVars, lockVars, Aside, SameConn
<1>3. ASSUME NEW r \in Requests, NEW k, NEW d,
             Receive(r, k, d) \/ ReceiveEmpty(r) \/ EnqueueUnfilled(r)
      PROVE  Aside
  BY <1>3 DEF Receive, ReceiveEmpty, EnqueueUnfilled, managerVars, lockVars, Aside, SameConn
<1>4. ASSUME FlushLock \/ FlushFormat \/ FlushReset \/ sigwait
      PROVE  Aside
  BY <1>4 DEF FlushLock, FlushFormat, FlushReset, sigwait, LockStat, UnlockStat, lockVars,
     requestVars, MgrAt, Aside, SameConn
<1>5. UNCHANGED vars => Aside
  BY DEF vars, requestVars, managerVars, lockVars, Aside, SameConn
<1> QED
  BY <1>1, <1>2, <1>3, <1>4, <1>5 DEF Next, MainThread, gateway_mngr

LEMMA ConnStep == IInv /\ [Next]_vars => ConnInv'
<1> SUFFICES ASSUME TypeOK, RequestsInv, MutexInv, ConnInv, [Next]_vars PROVE ConnInv'
  BY DEF IInv
<1> USE LabelFacts, GatewayAssumption DEF TypeOK, RequestType, LockType, ConnInv, Sound
(* Somebody asks for the connection, or gives it back. *)
<1>1. ASSUME NEW x \in Requests \cup {Manager}, LockConn(x)
      PROVE  (Sound => (mutex = "free" => querying = {}) /\ \A y, z \in querying : y = z)'
  <2>1. /\ mutex # "held" /\ mutex' = IF mutex \in {"free", "orphaned"} THEN "held" ELSE mutex
        /\ raced' = IF mutex = "orphaned" THEN raced \cup {"mutex"} ELSE raced
        /\ querying' = querying \cup {x}
    BY <1>1 DEF LockConn, Unheld
  <2> QED
    BY <2>1
<1>2. ASSUME NEW x \in Requests \cup {Manager}, UnlockConn(x), x \in querying
      PROVE  (Sound => (mutex = "free" => querying = {}) /\ \A y, z \in querying : y = z)'
  <2>1. /\ mutex' = IF mutex = "destroyed" THEN mutex ELSE "free"
        /\ querying' = querying \ {x}
        /\ raced' = IF querying' = {} THEN raced \ {"mutex"} ELSE raced
    BY <1>2 DEF UnlockConn
  <2> QED
    BY <1>2, <2>1
<1>3. ASSUME NEW r \in Requests, Query(r) PROVE ConnInv'
  <2>1. /\ LockConn(r) /\ querying' = querying \cup {r} /\ UNCHANGED mgr_pc
        /\ \A s \in Requests : s # r => pc'[s] = pc[s]
    BY <1>3 DEF Query, LockConn, Goto, managerVars
  <2> QED
    BY <1>1, <2>1
<1>4. ASSUME NEW r \in Requests, Locking(r) \/ Working(r), ~Query(r) PROVE ConnInv'
  <2>1. RequestInv(r)
    BY DEF RequestsInv
  <2>2. /\ pc'[r] \notin QueryingLabels
        /\ UNCHANGED mgr_pc
        /\ \/ UnlockConn(r) /\ pc[r] \in QueryingLabels
           \/ SameConn
    BY <1>4, <2>1, ThreadMoves
  <2>3. \A s \in Requests : s # r => pc'[s] = pc[s]
    BY <1>4, OthersKeep
  <2>4. CASE UnlockConn(r) /\ pc[r] \in QueryingLabels
    <3>1. r \in querying /\ querying' = querying \ {r}
      BY <2>4 DEF UnlockConn
    <3> QED
      BY <1>2, <2>2, <2>3, <2>4, <3>1
  <2>5. CASE SameConn
    BY <2>2, <2>3, <2>5 DEF SameConn
  <2> QED
    BY <2>2, <2>4, <2>5
<1>5. CASE Start
  BY <1>5 DEF Start, Goto, lockVars, managerVars
<1>6. CASE UpdateQuery
  <2>1. LockConn(Manager) /\ querying' = querying \cup {Manager} /\ UNCHANGED pc
    BY <1>6 DEF UpdateQuery, LockConn, requestVars
  <2> QED
    BY <1>1, <2>1
<1>7. CASE UpdateReturns
  <2>1. /\ UnlockConn(Manager) /\ querying' = querying \ {Manager} /\ mgr_pc' = "sigwait"
        /\ UNCHANGED pc /\ mgr_pc = "update_query"
    BY <1>7 DEF UpdateReturns, UnlockConn, requestVars, MgrAt
  <2> QED
    BY <1>2, <2>1
<1>8. CASE MutexInit
  <2>1. /\ mutex' = (IF mutex = "held" THEN "orphaned" ELSE "free")
        /\ UNCHANGED <<pc, querying, mgr_pc, raced>> /\ mutex \in {"free", "held"}
    BY <1>8 DEF MutexInit, Initialised, requestVars, managerVars, MutexInv
  <2> QED
    BY <2>1
<1>9. CASE pthread_mutex_destroy
  BY <1>9 DEF pthread_mutex_destroy, requestVars, managerVars
<1>10. CASE Aside
  BY <1>10 DEF Aside, SameConn
<1> QED
  BY <1>3, <1>4, <1>5, <1>6, <1>7, <1>8, <1>9, <1>10, OtherMoves

-----------------------------------------------------------------------------
(* The list of message counts. *)

(* main initialises the list before it accepts the first request.          *)
LEMMA InitialisingStep ==
  ASSUME IInv, [Next]_vars, Initialising'
  PROVE  /\ Initialising
         /\ stat_list' = <<>> /\ waiting' = <<>> /\ running' = {}
<1>1. TypeOK /\ ListInv
  BY DEF IInv
<1>2. Initialising
  <2>1. CASE UNCHANGED mainVars
    BY <2>1 DEF mainVars, Initialising
  <2>2. CASE \/ ctrc_handler \/ PQfinish \/ pthread_mutex_destroy \/ QueryFinished
             \/ ConnCorrupted \/ ReceiveError
    BY <2>2 DEF ctrc_handler, PQfinish, pthread_mutex_destroy, QueryFinished, ConnCorrupted,
       ReceiveError, Initialising
  <2>3. CASE LoopOrLeave
    BY <2>3 DEF LoopOrLeave, Initialising
  <2>4. ASSUME NEW r \in Requests, ShortPayload(r) \/ PrintError(r) PROVE Initialising
    BY <2>4 DEF ShortPayload, PrintError, Initialising
  <2>5. CASE MutexInit \/ GwStatMutexInit \/ gw_stat_linked_list_init
    BY <2>5 DEF MutexInit, GwStatMutexInit, gw_stat_linked_list_init, Initialising
  <2> QED
    BY <2>1, <2>2, <2>3, <2>4, <2>5, MainSteps
<1>3. stat_list = <<>> /\ waiting = <<>> /\ running = {}
  BY <1>1, <1>2 DEF ListInv
<1>4. ~Start /\ \A r \in Requests : ~Working(r)
  BY <1>3 DEF Start, Pool!Start, Working, CallbackReturns, Decode, ShortPayload, SendNack, send_utc,
     CountAdd, InsertReturns, PrintError, ClearResult, SelectReturns, Acknowledge, PendSelectReturns, PendSend,
     PendPollReturns, Resend, StatSelectReturns, StatUpdateReturns, Free, At
<1>5. ASSUME NEW r \in Requests, NEW k, NEW d,
             Receive(r, k, d) \/ EnqueueUnfilled(r)
      PROVE  FALSE
  BY <1>2, <1>5 DEF Receive, EnqueueUnfilled, Initialising
<1>6. stat_list' = stat_list
  <2>1. ~\E r \in Requests : CountAdd(r)
    BY <1>4 DEF Working
  <2>2. gw_stat_linked_list_init \/ FlushReset => stat_list' = <<>> \/ stat_list' = stat_list
    BY DEF gw_stat_linked_list_init, FlushReset
  <2>3. FlushLock \/ UpdateQuery \/ FlushFormat \/ UpdateReturns \/ sigwait
          => stat_list' = stat_list
    BY DEF FlushLock, UpdateQuery, FlushFormat, UpdateReturns, sigwait
  <2> QED
    BY <1>3, <2>1, <2>2, <2>3, ReportSteps DEF gateway_mngr
<1>7. UNCHANGED poolVars
  <2>1. ASSUME NEW r \in Requests, Locking(r) PROVE UNCHANGED poolVars
    BY <2>1 DEF Locking, Query, CountLock
  <2>2. ASSUME NEW r \in Requests, ReceiveEmpty(r) PROVE UNCHANGED poolVars
    BY <2>2 DEF ReceiveEmpty
  <2> QED
    BY <1>4, <1>5, <2>1, <2>2, OtherSteps
<1> QED
  BY <1>2, <1>3, <1>6, <1>7 DEF poolVars

LEMMA ListStep == IInv /\ [Next]_vars => ListInv'
<1> SUFFICES ASSUME IInv, [Next]_vars PROVE ListInv'
  OBVIOUS
<1>1. TypeOK /\ ListInv
  BY DEF IInv
<1>2. (Initialising => stat_list = <<>> /\ waiting = <<>> /\ running = {})'
  BY InitialisingStep
<1>3. OnePerDevice(<<>>)
  BY DEF OnePerDevice
<1> DEFINE Empty == mgr_pc \in {"flush", "format", "sigwait"} => buf.log = <<>>
<1>4. OnePerDevice(stat_list') /\ Empty'
  <2> USE <1>1 DEF ListInv
  <2>1. CASE UNCHANGED <<stat_list, managerVars, counted>>
    BY <2>1 DEF managerVars
  <2>2. CASE gw_stat_linked_list_init
    BY <1>3, <2>2 DEF gw_stat_linked_list_init, managerVars
  <2>3. ASSUME NEW r \in Requests, CountAdd(r) PROVE OnePerDevice(stat_list') /\ Empty'
    <3>1. stat_list \in Reports /\ dev[r] \in AllDevices
      BY <2>3 DEF TypeOK, ReportType, RequestType
    <3>2. OnePerDevice(stat_list')
      BY <2>3, <3>1, AddCounts DEF CountAdd
    <3> QED
      BY <2>3, <3>2 DEF CountAdd, managerVars
  <2>4. CASE FlushLock \/ UpdateQuery \/ sigwait
    BY <2>4 DEF FlushLock, UpdateQuery, sigwait, MgrAt
  <2>5. CASE FlushFormat
    BY <2>5 DEF FlushFormat, MgrAt
  <2>6. CASE FlushReset
    BY <1>3, <2>6 DEF FlushReset
  <2>7. CASE UpdateReturns
    <3>1. buf' = Written(<<>>) /\ stat_list' = stat_list
      BY <2>7 DEF UpdateReturns
    <3>2. buf'.log = <<>>
      BY <3>1 DEF Written
    <3> QED
      BY <3>1, <3>2
  <2> QED
    BY <2>1, <2>2, <2>3, <2>4, <2>5, <2>6, <2>7, ReportSteps DEF gateway_mngr
<1> QED
  BY <1>2, <1>4 DEF ListInv

(* Who touches the counted messages or their mutex. *)
SameStat ==
  /\ UNCHANGED <<gw_stat_mutex, stat_list, mgr_pc, buf, counted, reported, dropped>>
  /\ "gw_stat_mutex" \in raced' <=> "gw_stat_mutex" \in raced

LEMMA StatSteps ==
  ASSUME [Next]_vars
  PROVE  \/ \E r \in Requests : Locking(r) \/ Working(r)
         \/ Start
         \/ GwStatMutexInit
         \/ gw_stat_linked_list_init
         \/ FlushLock \/ FlushFormat \/ FlushReset \/ UpdateQuery \/ UpdateReturns \/ sigwait
         \/ UNCHANGED pc /\ SameStat
<1> USE DEF requestVars, managerVars, lockVars, countVars, SameStat
<1>1. ASSUME \/ MutexInit \/ ReceiveError \/ pthread_mutex_destroy \/ PQfinish
             \/ ctrc_handler \/ QueryFinished \/ ConnCorrupted
      PROVE  UNCHANGED pc /\ SameStat
  BY <1>1 DEF MutexInit, ReceiveError, pthread_mutex_destroy, PQfinish, ctrc_handler,
     QueryFinished, ConnCorrupted
<1>2. ASSUME NEW r \in Requests, NEW k, NEW d,
             Receive(r, k, d) \/ ReceiveEmpty(r) \/ EnqueueUnfilled(r)
      PROVE  UNCHANGED pc /\ SameStat
  BY <1>2 DEF Receive, ReceiveEmpty, EnqueueUnfilled
<1>3. UNCHANGED vars => UNCHANGED pc /\ SameStat
  BY DEF vars
<1> HIDE DEF SameStat
<1> QED
  BY <1>1, <1>2, <1>3 DEF Next, MainThread, gateway_mngr

(* The threads that do not count. *)
LEMMA NotCounting ==
  ASSUME TypeOK, NEW r \in Requests, RequestInv(r), Locking(r) \/ Working(r),
         ~CountLock(r), ~CountAdd(r)
  PROVE  pc'[r] # "count_add" /\ pc[r] # "count_add" /\ SameStat
<1> USE LabelFacts DEF TypeOK, RequestType, At, Goto, managerVars, lockVars, countVars, SameStat
<1>1. CASE Query(r)
  BY <1>1 DEF Query, LockConn
<1>2. CASE CallbackReturns(r)
  BY <1>2 DEF CallbackReturns, UnlockConn
<1>3. CASE Decode(r)
  <2>1. SameStat /\ kind[r] \in QueuedKinds /\ pc[r] = "decode"
    BY <1>3 DEF Decode, RequestInv, Decided
  <2>2. PICK label \in Branch(kind[r]) : pc' = [pc EXCEPT ![r] = label]
    BY <1>3 DEF Decode
  <2>3. pc'[r] # "count_add"
    BY <2>1, <2>2, BranchFacts
  <2> QED
    BY <2>1, <2>3
<1>4. CASE \/ ShortPayload(r) \/ SendNack(r) \/ send_utc(r) \/ PrintError(r) \/ ClearResult(r)
           \/ Acknowledge(r) \/ PendSend(r) \/ Free(r)
  BY <1>4 DEF ShortPayload, SendNack, send_utc, PrintError, ClearResult, Acknowledge, PendSend,
     Free, requestVars
<1>5. CASE InsertReturns(r)
  <2>1. \A ok \in BOOLEAN : AfterInsert(ok) # "count_add"
    BY DEF AfterInsert
  <2> QED
    BY <1>5, <2>1 DEF InsertReturns, UnlockConn
<1>6. CASE \/ SelectReturns(r) \/ PendSelectReturns(r) \/ PendPollReturns(r)
           \/ StatSelectReturns(r) \/ StatUpdateReturns(r)
  BY <1>6 DEF SelectReturns, PendSelectReturns, PendPollReturns, Resend, StatSelectReturns,
     StatUpdateReturns, UnlockConn
<1> QED
  BY <1>1, <1>2, <1>3, <1>4, <1>5, <1>6 DEF Locking, Working

LEMMA NumOfEmpty == \A d : Num(<<>>, d) = 0
  BY NumOfNone

LEMMA StatStep == IInv /\ [Next]_vars => StatInv'
<1> SUFFICES ASSUME IInv, [Next]_vars, "gw_stat_mutex" \notin raced'
             PROVE  /\ StatExclusive'
                    /\ (mgr_pc = "reset" => buf.log = stat_list)'
                    /\ Conserved'
  BY DEF StatInv
<1> DEFINE Goal == /\ StatExclusive'
                   /\ (mgr_pc = "reset" => buf.log = stat_list)'
                   /\ Conserved'
<1>1. TypeOK /\ RequestsInv /\ MutexInv /\ ListInv /\ StatInv
  BY DEF IInv
<1>2. stat_list \in Reports /\ buf.log \in Reports /\ OnePerDevice(stat_list)
  BY <1>1 DEF TypeOK, ReportType, ListInv
<1>3. \A d \in AllDevices :
        /\ counted[d] \in Nat /\ reported[d] \in Nat /\ dropped[d] \in Nat
        /\ Num(stat_list, d) \in Nat /\ Num(buf.log, d) \in Nat
  BY <1>1, <1>2, NumType DEF TypeOK, CountType
<1> USE DEF StatExclusive, MgrHolds
(* As long as nobody has locked the mutex that main initialised under the manager. *)
<1>4. ASSUME "gw_stat_mutex" \in raced => "gw_stat_mutex" \in raced'
      PROVE  StatExclusive /\ (mgr_pc = "reset" => buf.log = stat_list) /\ Conserved
  BY <1>1, <1>4 DEF StatInv
<1>5. ASSUME UNCHANGED <<stat_list, mgr_pc, buf, counted, reported, dropped>>, Conserved
      PROVE  Conserved'
  BY <1>5 DEF Conserved, InHand
<1>6. ASSUME NEW r \in Requests, Locking(r) \/ Working(r) PROVE Goal
  <2>1. \A s \in Requests : s # r => pc'[s] = pc[s]
    BY <1>1, <1>6, OthersKeep DEF TypeOK
  <2>2. CASE CountLock(r)
    <3>1. /\ gw_stat_mutex = "free" /\ gw_stat_mutex' = "held" /\ raced' = raced
          /\ UNCHANGED <<stat_list, mgr_pc, buf, counted, reported, dropped>>
      BY <2>2 DEF CountLock, LockStat, Unheld, managerVars, countVars
    <3> QED
      BY <1>4, <1>5, <2>1, <3>1
  <2>3. CASE CountAdd(r)
    <3>1. /\ gw_stat_mutex' = "free" /\ pc[r] = "count_add" /\ pc'[r] = "insert"
          /\ gw_stat_linked_list_add(dev[r])
          /\ counted' = [counted EXCEPT ![dev[r]] = @ + 1]
          /\ UNCHANGED <<raced, mgr_pc, buf, reported, dropped>>
      BY <1>1, <2>3 DEF CountAdd, UnlockStat, At, Goto, managerVars, TypeOK, RequestType
    <3>2. StatExclusive /\ Conserved
      BY <1>4, <3>1
    <3>3. ~MgrHolds /\ StatExclusive'
      BY <2>1, <3>1, <3>2
    <3>4. dev[r] \in AllDevices
      BY <1>1 DEF TypeOK, RequestType
    <3>5. \A e : Num(stat_list', e) = Num(stat_list, e) + (IF e = dev[r] THEN 1 ELSE 0)
      BY <1>2, <3>1, <3>4, AddCounts
    <3>6. Conserved'
      <4> SUFFICES ASSUME NEW d \in AllDevices
                   PROVE  counted'[d] = Num(stat_list', d) + InHand(d)' + reported'[d] + dropped'[d]
        BY DEF Conserved
      <4>1. counted'[d] = counted[d] + (IF d = dev[r] THEN 1 ELSE 0)
        BY <1>1, <3>1 DEF TypeOK, CountType
      <4>2. InHand(d)' = InHand(d) /\ InHand(d) \in Nat
        BY <1>3, <3>1 DEF InHand
      <4>3. counted[d] = Num(stat_list, d) + InHand(d) + reported[d] + dropped[d]
        BY <3>2 DEF Conserved
      <4> QED
        BY <1>3, <3>1, <3>5, <4>1, <4>2, <4>3
    <3> QED
      BY <3>1, <3>3, <3>6
  <2>4. CASE ~CountLock(r) /\ ~CountAdd(r)
    <3>1. RequestInv(r)
      BY <1>1 DEF RequestsInv
    <3>2. /\ pc'[r] # "count_add" /\ pc[r] # "count_add"
          /\ SameStat
      BY <1>1, <1>6, <2>4, <3>1, NotCounting
    <3> QED
      BY <1>4, <1>5, <2>1, <3>2 DEF SameStat
  <2> QED
    BY <2>2, <2>3, <2>4
<1>7. CASE Start
  <2>1. /\ pc' = [pc EXCEPT ![Head(waiting)] = "callback"]
        /\ UNCHANGED <<gw_stat_mutex, raced, stat_list, mgr_pc, buf, counted, reported, dropped>>
    BY <1>7 DEF Start, Goto, lockVars, managerVars, countVars
  <2>2. \A s \in Requests : pc'[s] = "count_add" => pc[s] = "count_add"
    BY <1>1, <2>1 DEF TypeOK, RequestType
  <2> QED
    BY <1>4, <1>5, <2>1, <2>2
<1>8. CASE GwStatMutexInit
  <2>1. /\ gw_stat_mutex' = (IF gw_stat_mutex = "held" THEN "orphaned" ELSE "free")
        /\ gw_stat_mutex # "orphaned"
        /\ UNCHANGED <<pc, raced, stat_list, mgr_pc, buf, counted, reported, dropped>>
    BY <1>1, <1>8 DEF GwStatMutexInit, Initialised, MutexInv, requestVars, managerVars, countVars
  <2>2. gw_stat_mutex \in {"free", "held"}
    BY <1>1, <2>1 DEF TypeOK, LockType
  <2> QED
    BY <1>4, <1>5, <2>1, <2>2
<1>9. CASE gw_stat_linked_list_init
  <2>1. stat_list = <<>> /\ stat_list' = <<>>
    BY <1>1, <1>9 DEF gw_stat_linked_list_init, ListInv, Initialising
  <2>2. UNCHANGED <<pc, gw_stat_mutex, raced, mgr_pc, buf, counted, reported, dropped>>
    BY <1>9 DEF gw_stat_linked_list_init, requestVars, lockVars, managerVars, countVars
  <2> QED
    BY <1>4, <1>5, <2>1, <2>2
<1>10. CASE FlushLock
  <2>1. /\ gw_stat_mutex = "free" /\ gw_stat_mutex' = "held" /\ raced' = raced
        /\ mgr_pc = "flush" /\ mgr_pc' = "format"
        /\ UNCHANGED <<pc, stat_list, buf, counted, reported, dropped>>
    BY <1>10 DEF FlushLock, LockStat, Unheld, MgrAt, requestVars, countVars
  <2>2. \A d : InHand(d)' = InHand(d)
    BY <2>1 DEF InHand
  <2> QED
    BY <1>4, <2>1, <2>2 DEF Conserved
<1>11. CASE FlushFormat
  <2>1. /\ mgr_pc = "format"
        /\ \/ /\ mgr_pc' = "reset" /\ buf' = Written(stat_list)
              /\ UNCHANGED gw_stat_mutex
           \/ /\ mgr_pc' = "update" /\ buf' = buf
              /\ gw_stat_mutex' = "free"
        /\ UNCHANGED <<pc, raced, stat_list, counted, reported, dropped>>
    BY <1>11 DEF FlushFormat, UnlockStat, MgrAt, requestVars, lockVars, countVars
  <2>2. buf.log = <<>>
    BY <1>1, <2>1 DEF ListInv
  <2>3. \A d : InHand(d)' = InHand(d)
    BY <2>1, <2>2, NumOfEmpty DEF InHand
  <2>4. mgr_pc' = "reset" => buf'.log = stat_list
    BY <2>1 DEF Written
  <2> QED
    BY <1>4, <2>1, <2>3, <2>4 DEF Conserved
<1>12. CASE FlushReset
  <2>1. /\ mgr_pc = "reset" /\ mgr_pc' = "update" /\ gw_stat_mutex' = "free"
        /\ stat_list' = <<>>
        /\ UNCHANGED <<pc, raced, buf, counted, reported, dropped>>
    BY <1>12 DEF FlushReset, UnlockStat, MgrAt, requestVars, countVars
  <2>2. StatExclusive /\ Conserved /\ buf.log = stat_list
    BY <1>4, <2>1
  <2>3. \A d : Num(stat_list', d) = 0 /\ InHand(d) = 0 /\ InHand(d)' = Num(stat_list, d)
    BY <2>1, <2>2, NumOfEmpty DEF InHand
  <2>4. Conserved'
    <3> SUFFICES ASSUME NEW d \in AllDevices
                 PROVE  counted[d] = Num(stat_list', d) + InHand(d)' + reported[d] + dropped[d]
      BY <2>1 DEF Conserved
    <3>1. counted[d] = Num(stat_list, d) + InHand(d) + reported[d] + dropped[d]
      BY <2>2 DEF Conserved
    <3> QED
      BY <1>3, <2>3, <3>1
  <2> QED
    BY <2>1, <2>2, <2>4
<1>13. CASE UpdateQuery
  <2>1. /\ mgr_pc = "update" /\ mgr_pc' = "update_query"
        /\ UNCHANGED <<pc, gw_stat_mutex, stat_list, buf, counted, reported, dropped>>
        /\ "gw_stat_mutex" \in raced => "gw_stat_mutex" \in raced'
    BY <1>13 DEF UpdateQuery, LockConn, MgrAt, requestVars, countVars
  <2>2. \A d : InHand(d)' = InHand(d)
    BY <2>1 DEF InHand
  <2> QED
    BY <1>4, <2>1, <2>2 DEF Conserved
<1>14. CASE UpdateReturns
  <2>1. /\ mgr_pc = "update_query" /\ mgr_pc' = "sigwait"
        /\ \/ reported' = AddReport(reported) /\ UNCHANGED dropped
           \/ dropped' = AddReport(dropped) /\ UNCHANGED reported
        /\ UNCHANGED <<pc, gw_stat_mutex, stat_list, counted>>
        /\ "gw_stat_mutex" \in raced => "gw_stat_mutex" \in raced'
    BY <1>14 DEF UpdateReturns, UnlockConn, MgrAt, requestVars
  <2>2. Conserved'
    <3> SUFFICES ASSUME NEW d \in AllDevices
                 PROVE  counted[d] = Num(stat_list, d) + InHand(d)' + reported'[d] + dropped'[d]
      BY <2>1 DEF Conserved
    <3>1. InHand(d) = Num(buf.log, d) /\ InHand(d)' = 0
      BY <2>1 DEF InHand
    <3>2. \/ reported'[d] = reported[d] + Num(buf.log, d) /\ dropped'[d] = dropped[d]
          \/ dropped'[d] = dropped[d] + Num(buf.log, d) /\ reported'[d] = reported[d]
      BY <2>1 DEF AddReport
    <3>3. counted[d] = Num(stat_list, d) + InHand(d) + reported[d] + dropped[d]
      BY <1>4, <2>1 DEF Conserved
    <3> QED
      BY <1>3, <3>1, <3>2, <3>3
  <2> QED
    BY <1>4, <2>1, <2>2
<1>15. CASE sigwait
  <2>1. /\ mgr_pc = "sigwait" /\ mgr_pc' = "flush"
        /\ UNCHANGED <<pc, gw_stat_mutex, raced, stat_list, buf, counted, reported, dropped>>
    BY <1>15 DEF sigwait, MgrAt, requestVars, lockVars, countVars
  <2>2. \A d : InHand(d)' = InHand(d)
    BY <2>1 DEF InHand
  <2> QED
    BY <1>4, <2>1, <2>2 DEF Conserved
<1>16. CASE UNCHANGED pc /\ SameStat
  BY <1>4, <1>5, <1>16 DEF SameStat
<1> HIDE DEF Goal
<1>17. Goal
  BY <1>6, <1>7, <1>8, <1>9, <1>10, <1>11, <1>12, <1>13, <1>14, <1>15, <1>16, StatSteps
     DEF Goal
<1> QED
  BY <1>17 DEF Goal

-----------------------------------------------------------------------------
(* Who holds a mutex. *)

(* A thread inside stays where it is until it moves itself.                *)
LEMMA RunningSteps ==
  ASSUME [Next]_vars
  PROVE  \/ UNCHANGED running
         \/ Start
         \/ \E r \in Requests : Free(r)
<1>1. CASE UNCHANGED poolVars
  BY <1>1 DEF poolVars
<1>2. CASE \E r \in Requests : Pool!Submit(r)
  BY <1>2 DEF Pool!Submit
<1> QED
  BY <1>1, <1>2, PoolSteps

LEMMA StartKeepsInside ==
  ASSUME TypeOK, Start
  PROVE  /\ InsideConn \subseteq InsideConn' /\ InsideStat \subseteq InsideStat'
         /\ UNCHANGED lockVars
<1>1. /\ waiting # <<>> /\ waiting \in Seq(Requests)
      /\ Head(waiting) \notin running /\ running' = running \cup {Head(waiting)}
      /\ pc' = [pc EXCEPT ![Head(waiting)] = "callback"]
      /\ UNCHANGED mgr_pc /\ UNCHANGED lockVars
  BY DEF Start, Pool!Start, Goto, managerVars, TypeOK, PoolType
<1>2. \A s \in running : s \in running' /\ pc'[s] = pc[s]
  BY <1>1 DEF TypeOK, RequestType, PoolType
<1> QED
  BY <1>1, <1>2 DEF InsideConn, InsideStat, MgrHolds

LEMMA ConnHeldStep ==
  ASSUME TypeOK, RequestsInv, MutexInv, HeldInv, [Next]_vars, Sound'
  PROVE  mutex' = "free" \/ InsideConn' # {}
<1> USE DEF TypeOK, RequestType, PoolType, Sound
<1>1. ASSUME NEW r \in Requests, Query(r) PROVE r \in InsideConn'
  BY <1>1, LabelFacts DEF Query, Goto, InsideConn, poolVars
<1>2. ASSUME NEW r \in Requests, Locking(r) \/ Working(r), ~Query(r)
      PROVE  mutex' = "free" \/ InsideConn' # {}
  <2>1. \/ UnlockConn(r)
        \/ SameConn /\ UNCHANGED mgr_pc /\ pc[r] \notin QueryingLabels
    BY <1>2, ThreadMoves DEF RequestsInv
  <2>2. \A s \in Requests : s # r => pc'[s] = pc[s] /\ (s \in running <=> s \in running')
    BY <1>2, OthersKeep
  <2>3. CASE UnlockConn(r)
    BY <2>3 DEF UnlockConn
  <2>4. CASE SameConn /\ UNCHANGED mgr_pc /\ pc[r] \notin QueryingLabels
    <3>1. mutex' = mutex /\ (mutex = "free" \/ InsideConn # {})
      BY <2>4 DEF HeldInv, SameConn
    <3>2. InsideConn \subseteq InsideConn'
      BY <2>2, <2>4 DEF InsideConn
    <3> QED
      BY <3>1, <3>2
  <2> QED
    BY <2>1, <2>3, <2>4
<1>3. CASE Start
  BY <1>3, StartKeepsInside DEF lockVars, HeldInv
<1>4. CASE UpdateQuery
  BY <1>4 DEF UpdateQuery, InsideConn
<1>5. CASE UpdateReturns
  BY <1>5 DEF UpdateReturns, UnlockConn
<1>6. CASE (MutexInit \/ pthread_mutex_destroy) /\ UNCHANGED running
  <2>1. /\ UNCHANGED <<pc, mgr_pc, raced>> /\ mutex # "destroyed"
        /\ mutex' = "free" \/ (mutex' \in {mutex, "orphaned"} /\ mutex # "free")
    BY <1>6 DEF MutexInit, Initialised, pthread_mutex_destroy, requestVars, managerVars, MutexInv
  <2>2. InsideConn' = InsideConn
    BY <1>6, <2>1 DEF InsideConn
  <2> QED
    BY <2>1, <2>2 DEF HeldInv
<1>7. CASE Aside /\ UNCHANGED running
  <2>1. InsideConn' = InsideConn
    BY <1>7 DEF InsideConn, Aside
  <2> QED
    BY <1>7, <2>1 DEF HeldInv, Aside, SameConn
<1>8. ASSUME NEW r \in Requests, Free(r) PROVE Working(r) /\ ~Query(r)
  BY <1>8, LabelFacts DEF Working, Free, Query, At
<1> QED
  BY <1>1, <1>2, <1>3, <1>4, <1>5, <1>6, <1>7, <1>8, OtherMoves, RunningSteps

LEMMA StatHeldStep ==
  ASSUME TypeOK, RequestsInv, HeldInv, [Next]_vars, "gw_stat_mutex" \notin raced'
  PROVE  gw_stat_mutex' = "free" \/ InsideStat' # {}
<1> USE DEF TypeOK, RequestType, PoolType
<1>1. ASSUME NEW r \in Requests, CountLock(r) PROVE r \in InsideStat'
  BY <1>1 DEF CountLock, At, Goto, InsideStat, poolVars
<1>2. ASSUME NEW r \in Requests, CountAdd(r) PROVE gw_stat_mutex' = "free"
  BY <1>2 DEF CountAdd, UnlockStat
<1>3. ASSUME NEW r \in Requests, Locking(r) \/ Working(r), ~CountLock(r), ~CountAdd(r)
      PROVE  gw_stat_mutex' = "free" \/ InsideStat' # {}
  <2>1. pc[r] # "count_add" /\ SameStat
    BY <1>3, NotCounting DEF RequestsInv
  <2>2. \A s \in Requests : s # r => pc'[s] = pc[s] /\ (s \in running <=> s \in running')
    BY <1>3, OthersKeep
  <2>3. InsideStat \subseteq InsideStat'
    BY <2>1, <2>2 DEF InsideStat, MgrHolds, SameStat
  <2> QED
    BY <2>1, <2>3 DEF HeldInv, SameStat
<1>4. CASE Start
  BY <1>4, StartKeepsInside DEF lockVars, HeldInv
<1>5. CASE FlushReset
  BY <1>5 DEF FlushReset, UnlockStat
<1>6. CASE FlushLock \/ FlushFormat
  BY <1>6 DEF FlushLock, FlushFormat, UnlockStat, InsideStat, MgrHolds
<1>7. CASE \/ gw_stat_linked_list_init \/ UpdateQuery \/ UpdateReturns \/ sigwait
           \/ GwStatMutexInit
  <2>1. /\ UNCHANGED <<pc, running>> /\ gw_stat_mutex' \in {gw_stat_mutex, "free", "orphaned"}
        /\ gw_stat_mutex' = "orphaned" => gw_stat_mutex # "free"
        /\ "gw_stat_mutex" \in raced => "gw_stat_mutex" \in raced'
        /\ mgr_pc' = mgr_pc \/ ~MgrHolds
    BY <1>7 DEF gw_stat_linked_list_init, UpdateQuery, UpdateReturns, sigwait, LockConn,
       UnlockConn, MgrAt, MgrHolds, requestVars, poolVars, lockVars, managerVars,
       GwStatMutexInit, Initialised
  <2>2. InsideStat \subseteq InsideStat'
    BY <2>1 DEF InsideStat, MgrHolds
  <2> QED
    BY <2>1, <2>2 DEF HeldInv
<1>8. CASE UNCHANGED pc /\ SameStat /\ UNCHANGED running
  <2>1. InsideStat' = InsideStat
    BY <1>8 DEF InsideStat, MgrHolds, SameStat
  <2> QED
    BY <1>8, <2>1 DEF HeldInv, SameStat
<1>9. ASSUME NEW r \in Requests, Free(r) PROVE Working(r) /\ ~CountLock(r) /\ ~CountAdd(r)
  BY <1>9 DEF Working, Free, CountLock, CountAdd, At
<1> QED
  BY <1>1, <1>2, <1>3, <1>4, <1>5, <1>6, <1>7, <1>8, <1>9, StatSteps, RunningSteps

LEMMA HeldStep == IInv /\ [Next]_vars => HeldInv'
  BY ConnHeldStep, StatHeldStep DEF IInv, HeldInv

-----------------------------------------------------------------------------
(* The invariant, and what follows from it. *)

LEMMA InitIInv == Init => IInv
<1> SUFFICES ASSUME Init PROVE IInv
  OBVIOUS
<1>1. TypeOK
  BY InitType
<1>2. /\ waiting = <<>> /\ running = {} /\ completed = {}
      /\ main_pc = "mutex_init" /\ mgr_pc = "flush" /\ buf = Unwritten
      /\ stat_list = <<>> /\ querying = {} /\ working
      /\ \A r \in Requests : /\ kind[r] = "none" /\ pc[r] = "none"
                             /\ uncleared[r] = 0 /\ reply[r] = "none"
      /\ \A d \in AllDevices : counted[d] = 0 /\ reported[d] = 0 /\ dropped[d] = 0
  BY DEF Init, Pool!Init
<1>3. WaitingInv
  BY <1>2 DEF WaitingInv
<1>4. RequestsInv
  BY <1>2 DEF RequestsInv, RequestInv, Taken, Decided, Replied, Kept, Keeping, NeverCleared,
              DataLabels, PendLabels, AfterStore
<1>5. ErrorInv
  BY <1>2 DEF ErrorInv, Suspect
<1>6. ConnInv
  BY <1>2, LabelFacts DEF ConnInv
<1>7. ListInv
  BY <1>2 DEF ListInv, OnePerDevice, Unwritten
<1>8. StatInv
  <2>1. StatExclusive /\ mgr_pc # "reset"
    BY <1>2 DEF StatExclusive, MgrHolds
  <2>2. Conserved
    BY <1>2, NumOfEmpty DEF Conserved, InHand
  <2> QED
    BY <2>1, <2>2 DEF StatInv
<1>9. HeldInv
  BY DEF Init, HeldInv
<1>10. MutexInv
  BY DEF Init, MutexInv
<1> QED
  BY <1>1, <1>3, <1>4, <1>5, <1>6, <1>7, <1>8, <1>9, <1>10 DEF IInv

LEMMA NextIInv == IInv /\ [Next]_vars => IInv'
  BY TypeStep, WaitingStep, RequestsStep, ErrorStep, ConnStep, ListStep, StatStep,
     HeldStep, MutexStep DEF IInv

(* The inductive invariant holds in every reachable state.                 *)
THEOREM IInvHolds == Spec => []IInv
  BY InitIInv, NextIInv, PTL DEF Spec

(* The variables of main, of process_packet and of the manager keep their  *)
(* types: no PGresult is cleared twice (uncleared stays in Nat), and the   *)
(* retries of a pending message never pass below zero.                     *)
THEOREM TypeCorrect == Spec => []TypeOK
<1>1. IInv => TypeOK
  BY DEF IInv
<1> QED
  BY <1>1, IInvHolds, PTL

LEMMA OneInside ==
  ASSUME NEW S, S # {}, \A x, y \in S : x = y
  PROVE  Cardinality(S) = 1
<1>1. PICK x : S = {x}
  OBVIOUS
<1> QED
  BY <1>1, FS_Singleton

(* A mutex is held exactly while one thread is inside what it protects:    *)
(* that of the list unless main has initialised it while the manager held  *)
(* it and somebody has locked it since, that of the connection until such  *)
(* a race is over, and until main destroys it.                             *)
THEOREM LocksAreHeldByOne == Spec => []LocksHeldByOne
<1>1. IInv => LocksHeldByOne
  <2> SUFFICES ASSUME TypeOK, ConnInv, StatInv, HeldInv PROVE LocksHeldByOne
    BY DEF IInv
  <2> USE DEF TypeOK, LockType, PoolType, Sound, Holders
  <2>1. ASSUME Sound
        PROVE  Cardinality(InsideConn) = Holders(mutex)
    <3>1. InsideConn \subseteq querying
      BY DEF InsideConn, ConnInv
    <3>2. CASE mutex # "free"
      <4>1. InsideConn # {}
        BY <2>1, <3>2 DEF HeldInv
      <4>2. \A x, y \in InsideConn : x = y
        BY <2>1, <3>1 DEF ConnInv
      <4> QED
        BY <2>1, <3>2, <4>1, <4>2, OneInside
    <3>3. CASE mutex = "free"
      <4>1. InsideConn = {}
        BY <2>1, <3>1, <3>3 DEF ConnInv
      <4> QED
        BY <3>3, <4>1, FS_EmptySet
    <3> QED
      BY <3>2, <3>3
  <2>2. ASSUME "gw_stat_mutex" \notin raced
        PROVE  Cardinality(InsideStat) = Holders(gw_stat_mutex)
    <3>1. StatExclusive
      BY <2>2 DEF StatInv
    <3>2. CASE gw_stat_mutex # "free"
      <4>1. InsideStat # {}
        BY <2>2, <3>2 DEF HeldInv
      <4>2. \A x, y \in InsideStat : x = y
        BY <3>1 DEF StatExclusive, InsideStat
      <4> QED
        BY <3>2, <4>1, <4>2, OneInside
    <3>3. CASE gw_stat_mutex = "free"
      <4>1. InsideStat = {}
        BY <3>1, <3>3 DEF StatExclusive, InsideStat
      <4> QED
        BY <3>3, <4>1, FS_EmptySet
    <3> QED
      BY <3>2, <3>3
  <2> QED
    BY <2>1, <2>2 DEF LocksHeldByOne
<1> QED
  BY <1>1, IInvHolds, PTL

(* Every message counted is listed, in the manager's hands, reported or in *)
(* a report whose UPDATE failed, exactly once.                             *)
THEOREM CountsAreConserved == Spec => []CountsConserved
<1>1. IInv => CountsConserved
  BY DEF IInv, StatInv, Conserved, CountsConserved
<1> QED
  BY <1>1, IInvHolds, PTL

(* A device is told ACK or ACK_PEND only of data that was inserted.        *)
THEOREM AcksAreStored == Spec => []AckedMeansStored
<1>1. IInv => AckedMeansStored
  BY DEF IInv, RequestsInv, RequestInv, Replied, AckedMeansStored
<1> QED
  BY <1>1, IInvHolds, PTL

(* The process dies only of a recvfrom or a query that failed, of a        *)
(* datagram no registered device has sent or of one without a time, of a   *)
(* mutex initialised while it was held, or of SIGINT.                      *)
THEOREM DeathOnlyOfErrors == Spec => []DiesOnlyOfErrors
<1>1. IInv => DiesOnlyOfErrors
  BY DEF IInv, ErrorInv, Errors, DiesOnlyOfErrors
<1> QED
  BY <1>1, IInvHolds, PTL

(* A thread that frees its request has cleared every PGresult it was       *)
(* given, once, but the one of a PEND_REQ answered with a NACK.            *)
THEOREM ResultsAreCleared == Spec => []ResultsCleared
<1>1. IInv => ResultsCleared
  BY DEF IInv, RequestsInv, RequestInv, Kept, Keeping, NeverCleared, ResultsCleared
<1> QED
  BY <1>1, IInvHolds, PTL

-----------------------------------------------------------------------------
(* The use of the task queue. *)

LEMMA PoolStep == [Next]_vars => [Pool!Next]_Pool!vars
<1> SUFFICES ASSUME [Next]_vars PROVE [Pool!Next]_Pool!vars
  OBVIOUS
<1>1. CASE UNCHANGED poolVars
  BY <1>1 DEF poolVars, Pool!vars
<1>2. CASE \E r \in Requests : Pool!Submit(r)
  BY <1>2 DEF Pool!Next
<1>3. CASE Start
  BY <1>3 DEF Start, Pool!Next
<1>4. CASE \E r \in Requests : Free(r)
  BY <1>4 DEF Free, Pool!Next
<1> QED
  BY <1>1, <1>2, <1>3, <1>4, PoolSteps

(* The gateway is a client of the task queue: all it does to the requests  *)
(* is to submit them, and to let the queue start and complete them.  So it *)
(* rests on nothing but what TaskQueue is proved to implement.             *)
THEOREM UsesThePool == Spec => Pool!Spec
<1>1. Init => Pool!Init
  BY DEF Init
<1> QED
  BY <1>1, PoolStep, PTL DEF Spec, Pool!Spec

HandledOnce ==
  /\ IsFiniteSet(running) /\ Cardinality(running) <= thread_pool_size
  /\ running \cap completed = {}
  /\ \A i \in DOMAIN waiting : waiting[i] \notin running \cup completed
  /\ \A i, j \in DOMAIN waiting : waiting[i] = waiting[j] => i = j

LEMMA HandledOnceStep == TypeOK /\ HandledOnce /\ [Next]_vars => HandledOnce'
<1> SUFFICES ASSUME PoolType, HandledOnce, [Next]_vars PROVE HandledOnce'
  BY DEF TypeOK
<1> USE GatewayAssumption DEF PoolType, HandledOnce
<1>1. CASE UNCHANGED poolVars
  BY <1>1 DEF poolVars
<1>2. ASSUME NEW r \in Requests, Pool!Submit(r) PROVE HandledOnce'
  <2>1. /\ waiting' = Append(waiting, r) /\ UNCHANGED <<running, completed>>
        /\ r \notin running \cup completed
        /\ \A i \in DOMAIN waiting : waiting[i] # r
    BY <1>2 DEF Pool!Submit, Pool!Known
  <2>2. \A i \in DOMAIN waiting' :
          waiting'[i] = IF i = Len(waiting) + 1 THEN r ELSE waiting[i]
    BY <2>1
  <2>3. \A i \in DOMAIN waiting' : i = Len(waiting) + 1 \/ i \in DOMAIN waiting
    BY <2>1
  <2> QED
    BY <2>1, <2>2, <2>3
<1>3. CASE Start
  <2>0. Pool!Cardinality(running) = Cardinality(running)
    BY Zenon DEF Pool!Cardinality, Cardinality
  <2>1. /\ waiting # <<>> /\ Cardinality(running) < thread_pool_size
        /\ waiting' = Tail(waiting) /\ running' = running \cup {Head(waiting)}
        /\ Head(waiting) \notin running \cup completed /\ UNCHANGED completed
    BY <1>3, <2>0 DEF Start, Pool!Start
  <2>2. /\ Head(waiting) = waiting[1]
        /\ \A i \in DOMAIN waiting' : i + 1 \in DOMAIN waiting /\ waiting'[i] = waiting[i + 1]
    BY <2>1, HeadTailProperties
  <2>3. IsFiniteSet(running') /\ Cardinality(running') = Cardinality(running) + 1
    BY <2>1, FS_AddElement
  <2>4. Cardinality(running) \in Nat
    BY FS_CardinalityType
  <2>5. Cardinality(running') <= thread_pool_size
    BY <2>1, <2>3, <2>4
  <2>6. 1 \in DOMAIN waiting /\ \A i \in DOMAIN waiting' : i + 1 # 1
    BY <2>1, <2>2
  <2> QED
    BY <2>1, <2>2, <2>3, <2>5, <2>6
<1>4. ASSUME NEW r \in Requests, Free(r) PROVE HandledOnce'
  <2>1. /\ r \in running /\ running' = running \ {r}
        /\ completed' = completed \cup {r} /\ UNCHANGED waiting
    BY <1>4 DEF Free, Pool!Complete
  <2>2. IsFiniteSet(running') /\ Cardinality(running') = Cardinality(running) - 1
    BY <2>1, FS_RemoveElement
  <2>3. Cardinality(running) \in Nat
    BY FS_CardinalityType
  <2> QED
    BY <2>1, <2>2, <2>3
<1> QED
  BY <1>1, <1>2, <1>3, <1>4, PoolSteps

(* A request is handled by one thread, once: it is not taken while it      *)
(* waits, not queued again once it was taken, and no more threads handle   *)
(* requests than thread_pool_size.                                         *)
THEOREM EachHandledOnce == Spec => []HandledOnce
<1>1. Init => HandledOnce
  <2> SUFFICES ASSUME Init PROVE HandledOnce
    OBVIOUS
  <2>1. waiting = <<>> /\ running = {} /\ completed = {}
    BY DEF Init, Pool!Init
  <2> QED
    BY <2>1, FS_EmptySet, GatewayAssumption DEF HandledOnce
<1> QED
  BY <1>1, HandledOnceStep, TypeCorrect, PTL DEF Spec

-----------------------------------------------------------------------------
(* The end of a handler. *)

LEMMA RankFacts ==
  /\ \A label \in Labels : Rank[label] \in 0 .. 12
  /\ Rank["none"] = 12 /\ Rank["callback"] = 11 /\ Rank["callback_query"] = 10
  /\ Rank["decode"] = 9
  /\ Rank["count"] = 8 /\ Rank["count_add"] = 7 /\ Rank["insert"] = 6
  /\ Rank["insert_query"] = 5 /\ Rank["select"] = 4 /\ Rank["select_query"] = 3
  /\ Rank["ack"] = 2 /\ Rank["ack_pend"] = 2
  /\ Rank["pend_select"] = 7 /\ Rank["pend_select_query"] = 6 /\ Rank["pend_send"] = 5
  /\ Rank["pend_poll"] = 4 /\ Rank["pend_poll_query"] = 3
  /\ Rank["stat_select"] = 7 /\ Rank["stat_select_query"] = 6
  /\ Rank["stat_update"] = 5 /\ Rank["stat_update_query"] = 4
  /\ Rank["error"] = 3 /\ Rank["clear"] = 2
  /\ Rank["send_utc"] = 2 /\ Rank["nack"] = 2 /\ Rank["short"] = 2
  /\ Rank["free"] = 1 /\ Rank["done"] = 0
  BY LabelFacts, AllLabels DEF Rank

LEMMA StepsLeftType ==
  ASSUME RequestType, NEW r \in Requests
  PROVE  StepsLeft(r) \in 0 .. 12 + 3 * PEND_SEND_RETRIES_MAX
<1>1. pc[r] \in Labels /\ retries[r] \in 0 .. PEND_SEND_RETRIES_MAX
  BY DEF RequestType
<1>2. Retransmissions(r) \in 0 .. PEND_SEND_RETRIES_MAX
  BY <1>1, GatewayAssumption DEF Retransmissions
<1>3. Rank[pc[r]] \in 0 .. 12
  BY <1>1, RankFacts
<1> QED
  BY <1>2, <1>3, GatewayAssumption DEF StepsLeft

LEMMA DecodeNearer ==
  ASSUME TypeOK, NEW r \in Requests, RequestInv(r), Decode(r)
  PROVE  StepsLeft(r)' < StepsLeft(r)
<1> USE DEF TypeOK, RequestType
<1>1. /\ pc[r] = "decode" /\ kind[r] \in QueuedKinds /\ UNCHANGED retries
      /\ retries[r] \in 0 .. PEND_SEND_RETRIES_MAX
  BY DEF Decode, At, RequestInv, Decided
<1>2. PICK label \in Branch(kind[r]) : pc' = [pc EXCEPT ![r] = label]
  BY DEF Decode, Goto
<1>3. pc'[r] \in {"count", "send_utc", "pend_select", "stat_select", "nack", "free", "short"}
  BY <1>1, <1>2, BranchFacts
<1>4. Rank[pc'[r]] <= 8
  BY <1>3, RankFacts
<1>5. Rank[pc'[r]] \in Int /\ Retransmissions(r)' \in 0 .. PEND_SEND_RETRIES_MAX
  BY <1>1, <1>3, RankFacts, GatewayAssumption DEF Retransmissions
<1>6. Rank[pc[r]] = 9 /\ Retransmissions(r) = PEND_SEND_RETRIES_MAX
  BY <1>1, RankFacts DEF Retransmissions
<1> QED
  BY <1>4, <1>5, <1>6, GatewayAssumption DEF StepsLeft

(* Every step of a handler leads nearer to its end, or to that of the      *)
(* process.                                                                *)
LEMMA WorkNearer ==
  ASSUME TypeOK, NEW r \in Requests, RequestInv(r), Locking(r) \/ Working(r)
  PROVE  <<pc[r], retries[r]>>' = <<pc[r], retries[r]>> \/ StepsLeft(r)' < StepsLeft(r)
<1> USE RankFacts, LabelFacts, GatewayAssumption
    DEF TypeOK, RequestType, At, Goto, threadVars, StepsLeft, Retransmissions
<1>0. retries[r] \in 0 .. PEND_SEND_RETRIES_MAX
  OBVIOUS
<1>1. CASE Query(r)
  <2>1. /\ pc[r] \in QueryLabels /\ pc'[r] = InQuery[pc[r]] /\ retries'[r] = retries[r]
    BY <1>1 DEF Query
  <2> QED
    BY <1>0, <2>1
<1>2. CASE CountLock(r) \/ CountAdd(r)
  BY <1>0, <1>2 DEF CountLock, CountAdd
<1>3. CASE CallbackReturns(r)
  <2>1. pc[r] = "callback_query" /\ pc'[r] = "decode" /\ retries'[r] = retries[r]
    BY <1>3 DEF CallbackReturns
  <2> QED
    BY <1>0, <2>1
<1>4. CASE Decode(r)
  BY <1>4, DecodeNearer
<1>5. CASE ShortPayload(r)
  BY <1>5 DEF ShortPayload, requestVars
<1>6. CASE SendNack(r) \/ send_utc(r) \/ Acknowledge(r) \/ Free(r)
  BY <1>0, <1>6 DEF SendNack, send_utc, Acknowledge, Free
<1>7. CASE PrintError(r) \/ ClearResult(r)
  BY <1>0, <1>7 DEF PrintError, ClearResult
<1>8. CASE InsertReturns(r)
  <2>1. /\ pc[r] = "insert_query" /\ pc'[r] \in {"select", "error"}
        /\ retries'[r] = retries[r]
    BY <1>8 DEF InsertReturns, AfterInsert
  <2> QED
    BY <1>0, <2>1
<1>9. CASE SelectReturns(r)
  <2>1. /\ pc[r] = "select_query" /\ pc'[r] \in {"ack", "ack_pend"}
        /\ retries'[r] = retries[r]
    BY <1>9 DEF SelectReturns
  <2> QED
    BY <1>0, <2>1
<1>10. CASE PendSelectReturns(r)
  <2>1. /\ pc[r] = "pend_select_query"
        /\ \/ pc'[r] = "pend_send" /\ retries'[r] = PEND_SEND_RETRIES_MAX
           \/ pc'[r] = "nack"
    BY <1>10 DEF PendSelectReturns
  <2> QED
    BY <1>0, <2>1
<1>11. CASE PendSend(r)
  BY <1>0, <1>11 DEF PendSend
<1>12. CASE PendPollReturns(r)
  <2>1. /\ pc[r] = "pend_poll_query"
        /\ \/ pc'[r] = "pend_send" /\ retries[r] > 0 /\ retries'[r] = retries[r] - 1
           \/ pc'[r] = "clear"
    BY <1>12 DEF PendPollReturns, Resend
  <2> QED
    BY <1>0, <2>1
<1>13. CASE StatSelectReturns(r) \/ StatUpdateReturns(r)
  <2>1. /\ \/ pc[r] = "stat_select_query" /\ pc'[r] \in {"stat_update", "clear"}
           \/ pc[r] = "stat_update_query" /\ pc'[r] \in {"clear", "error"}
        /\ retries'[r] = retries[r]
    BY <1>13 DEF StatSelectReturns, StatUpdateReturns
  <2> QED
    BY <1>0, <2>1
<1> QED
  BY <1>1, <1>2, <1>3, <1>4, <1>5, <1>6, <1>7, <1>8, <1>9, <1>10, <1>11, <1>12, <1>13
  DEF Locking, Working

LEMMA OthersRetries ==
  ASSUME RequestType, NEW r \in Requests, Locking(r) \/ Working(r),
         NEW s \in Requests, s # r
  PROVE  retries'[s] = retries[s]
  BY DEF RequestType, Locking, Working, Query, CountLock, CallbackReturns, Decode, ShortPayload,
     SendNack, send_utc, CountAdd, InsertReturns, PrintError, ClearResult, SelectReturns, Acknowledge,
     PendSelectReturns, PendSend, PendPollReturns, Resend, StatSelectReturns,
     StatUpdateReturns, Free, threadVars, requestVars

(* Every handler of process_packet ends after at most 12 steps and three   *)
(* more per retransmission, whatever the queries return: each of its steps *)
(* leads nearer to the end, and nobody else's leads away from it.  With    *)
(* LocksAreHeldByOne, no mutex is kept from those who wait for it by more  *)
(* than one bounded section after another.                                 *)
THEOREM HandlersAlwaysEnd == Spec => HandlersEnd
<1> DEFINE Nearer ==
      \A r \in Requests :
        <<pc[r], retries[r]>>' # <<pc[r], retries[r]>> => StepsLeft(r)' < StepsLeft(r)
<1>1. IInv /\ [Next]_vars => [Nearer]_vars
  <2> SUFFICES ASSUME TypeOK, RequestsInv, [Next]_vars, NEW s \in Requests
               PROVE  <<pc[s], retries[s]>>' = <<pc[s], retries[s]>>
                        \/ StepsLeft(s)' < StepsLeft(s)
    BY Zenon DEF IInv
  <2>1. ASSUME NEW r \in Requests, Locking(r) \/ Working(r), r # s
        PROVE  <<pc[s], retries[s]>>' = <<pc[s], retries[s]>>
    BY <2>1, OthersKeep, OthersRetries DEF TypeOK
  <2>2. CASE Locking(s) \/ Working(s)
    BY <2>2, WorkNearer DEF RequestsInv
  <2>3. CASE Start
    <3>1. /\ waiting # <<>> /\ waiting \in Seq(Requests)
          /\ Head(waiting) \notin running \cup completed
          /\ pc' = [pc EXCEPT ![Head(waiting)] = "callback"] /\ UNCHANGED retries
      BY <2>3 DEF Start, Pool!Start, Goto, threadVars, TypeOK, PoolType
    <3>2. CASE s = Head(waiting)
      <4>1. pc[s] = "none" /\ pc'[s] = "callback"
        BY <3>1, <3>2 DEF RequestsInv, RequestInv, Taken, TypeOK, RequestType
      <4>2. /\ StepsLeft(s) = 12 + 3 * PEND_SEND_RETRIES_MAX
            /\ StepsLeft(s)' = 11 + 3 * PEND_SEND_RETRIES_MAX
        BY <4>1, RankFacts DEF StepsLeft, Retransmissions
      <4> QED
        BY <4>2, GatewayAssumption
    <3>3. CASE s # Head(waiting)
      BY <3>1, <3>3 DEF TypeOK, RequestType
    <3> QED
      BY <3>2, <3>3
  <2>4. CASE UNCHANGED <<pc, retries>>
    BY <2>4
  <2>5. \/ \E r \in Requests : Locking(r) \/ Working(r)
        \/ Start
        \/ UNCHANGED <<pc, retries>>
    BY OtherSteps DEF Receive, ReceiveEmpty, EnqueueUnfilled, requestVars, threadVars
  <2> QED
    BY <2>1, <2>2, <2>3, <2>4, <2>5
<1> QED
  BY <1>1, IInvHolds, PTL DEF Spec, HandlersEnd
=============================================================================
