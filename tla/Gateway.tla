------------------------------ MODULE Gateway -------------------------------
(***************************************************************************)
(* The process of src/gateway.c once its configuration is read: the main   *)
(* thread that receives datagrams, the threads of the task queue that run  *)
(* process_packet, and the gateway manager that reports to the platform.   *)
(* They share the database connection (under `mutex') and the list of message  *)
(* counts (under `gw_stat_mutex').  errors_count, which is only reported,  *)
(* is left out.                                                            *)
(*                                                                         *)
(* A request is handled by a thread of its own, so requests stand for the  *)
(* threads.  The task queue is used as TaskPool promises it.  What a query *)
(* does to the database happens when it returns.  Of the two branches about *)
(* pending messages this module has the locks, queries and replies; what   *)
(* they do to the messages is the module PendDelivery.                     *)
(***************************************************************************)
EXTENDS Integers, Sequences, FiniteSets

CONSTANTS
  Requests,          \* one per datagram received (and per gcom_ch_request_t)
  Devices,           \* registered devices: an app_key and a dev_id
  Phantom,           \* stands for a device that is not registered
  Senders, Sent,     \* the devices datagrams come from, and the types of what they send
  thread_pool_size,  \* conf/static.conf
  Manager,           \* the thread of gateway_mngr
  PEND_SEND_RETRIES_MAX,
  MaxFailures        \* bound on failing queries, on recvfrom returning -1 and on strangers, together

(* What a registered device sends; BAD has a length for which              *)
(* gateway_protocol_packet_decode returns 0.                               *)
Kinds == {"DATA_SEND", "TIME_REQ", "PEND_REQ", "STAT", "UNKNOWN", "BAD"}

(* What may arrive from anybody, and what decoding may make of a packet:   *)
(* SHORT is a DATA_SEND whose payload has not even the four bytes of its   *)
(* time, or a packet of less than 8 or of 256 bytes that is decrypted past *)
(* its end (CodecExchange!DecryptionStaysInPacket).                        *)
DecodedKinds == Kinds \cup {"SHORT"}

(* UNFILLED is the request that main has zeroed and recvfrom not filled.   *)
QueuedKinds == DecodedKinds \cup {"UNFILLED"}

ASSUME GatewayAssumption ==
  /\ IsFiniteSet(Requests)
  /\ Manager \notin Requests
  /\ Phantom \notin Devices
  /\ Senders \subseteq Devices \cup {Phantom}
  /\ Sent \subseteq DecodedKinds
  /\ thread_pool_size \in Nat \ {0}
  /\ PEND_SEND_RETRIES_MAX \in Nat
  /\ MaxFailures \in Nat

VARIABLES
  working,         \* FALSE once SIGINT was handled
  main_pc,         \* where main is
  waiting, running, completed,  \* the task queue (module TaskPool)
  kind, dev,       \* packet type and device of each request
  pc,              \* where the thread of a request is in process_packet
  uncleared,       \* PGresults the thread of a request has not cleared
  retries,         \* pend_send_retries
  mutex, gw_stat_mutex,  \* a default mutex knows no owner
  raced,           \* history: mutexes locked while orphaned
  querying,        \* threads inside PQexec
  stat_list,       \* the list of gw_stat_linked_list.c, first entry first
  mgr_pc, buf,     \* the manager: where it is, and its report
  stored,          \* requests being handled whose INSERT has succeeded
  reply,           \* the answer sent to the device of a request being handled
  db_failures, receive_errors,
  strangers,       \* history: datagrams of unregistered devices or of kind SHORT
  counted, reported, dropped  \* history: messages counted, reported, in a failed report

mainVars == <<working, main_pc>>
poolVars == <<waiting, running, completed>>
packetVars == <<kind, dev>>
threadVars == <<uncleared, retries>>
requestVars == <<packetVars, pc, threadVars>>
lockVars == <<mutex, gw_stat_mutex, raced, querying>>
managerVars == <<mgr_pc, buf, reported, dropped>>
countVars == <<db_failures, receive_errors, strangers, counted>>
vars == <<mainVars, poolVars, requestVars, lockVars, stat_list, managerVars,
          stored, reply, countVars>>

AllDevices == Devices \cup {Phantom}

(* The manager's buffer: what it holds, once something was written to it.  *)
Unwritten == [written |-> FALSE, log |-> <<>>]

Written(log) == [written |-> TRUE, log |-> log]

Pool == INSTANCE TaskPool WITH Tasks <- Requests, Limit <- thread_pool_size

Entry(d) == {i \in DOMAIN stat_list : stat_list[i].dev = d}

Num(list, d) == IF \E i \in DOMAIN list : list[i].dev = d
                THEN list[CHOOSE i \in DOMAIN list : list[i].dev = d].num
                ELSE 0

(* main creates the manager thread before it initialises the mutexes.      *)
Init ==
  /\ working = TRUE
  /\ main_pc = "mutex_init"
  /\ Pool!Init
  /\ kind = [r \in Requests |-> "none"]
  /\ dev = [r \in Requests |-> Phantom]
  /\ pc = [r \in Requests |-> "none"]
  /\ uncleared = [r \in Requests |-> 0]
  /\ retries = [r \in Requests |-> 0]
  /\ mutex = "free" /\ gw_stat_mutex = "free"
  /\ raced = {}
  /\ querying = {}
  /\ stat_list = <<>>
  /\ mgr_pc = "flush"
  /\ buf = Unwritten
  /\ stored = {}
  /\ reply = [r \in Requests |-> "none"]
  /\ db_failures = 0
  /\ receive_errors = 0
  /\ strangers = 0
  /\ counted = [d \in AllDevices |-> 0]
  /\ reported = [d \in AllDevices |-> 0]
  /\ dropped = [d \in AllDevices |-> 0]

-----------------------------------------------------------------------------
(* Shared by the threads. *)

Alive == main_pc # "crashed"

FailureLeft == db_failures + receive_errors + strangers < MaxFailures

QueryOutcome(ok) ==
  IF ok THEN UNCHANGED db_failures
  ELSE FailureLeft /\ db_failures' = db_failures + 1

(* A mutex is "orphaned" when main has initialised it while the manager    *)
(* held it: it is free then, with the manager inside.                      *)
Unheld == {"free", "orphaned"}

LockConn_NoMutex(x) ==
  /\ mutex' = "held"
  /\ querying' = querying \cup {x}
  /\ UNCHANGED <<gw_stat_mutex, raced>>

(* pthread_mutex_lock(&mutex) and the call of PQexec.  Nobody looks at the *)
(* result of the lock: a destroyed mutex keeps nobody out.                 *)
LockConn(x) ==
  /\ mutex # "held"
  /\ mutex' = IF mutex \in Unheld THEN "held" ELSE mutex
  /\ raced' = IF mutex = "orphaned" THEN raced \cup {"mutex"} ELSE raced
  /\ querying' = querying \cup {x}
  /\ UNCHANGED gw_stat_mutex

UnlockConn_ButNotForManager(x) ==
  /\ mutex' = IF x = Manager THEN mutex ELSE "free"
  /\ querying' = querying \ {x}
  /\ UNCHANGED <<gw_stat_mutex, raced>>

(* PQexec returns; pthread_mutex_unlock(&mutex).  When nobody is left in   *)
(* PQexec the race for it is over.                                         *)
UnlockConn(x) ==
  /\ mutex' = IF mutex = "destroyed" THEN mutex ELSE "free"
  /\ querying' = querying \ {x}
  /\ raced' = IF querying' = {} THEN raced \ {"mutex"} ELSE raced
  /\ UNCHANGED gw_stat_mutex

LockStat_NoMutex ==
  /\ gw_stat_mutex' = "held"
  /\ UNCHANGED <<mutex, raced, querying>>

LockStat ==
  /\ gw_stat_mutex \in Unheld
  /\ gw_stat_mutex' = "held"
  /\ raced' = IF gw_stat_mutex = "orphaned" THEN raced \cup {"gw_stat_mutex"} ELSE raced
  /\ UNCHANGED <<mutex, querying>>

UnlockStat ==
  /\ gw_stat_mutex' = "free"
  /\ UNCHANGED <<mutex, raced, querying>>

-----------------------------------------------------------------------------
(* main. *)

Initialised(m) == IF m = "held" THEN "orphaned" ELSE "free"

MutexInit ==
  /\ main_pc = "mutex_init"
  /\ main_pc' = "gw_stat_mutex_init"
  /\ mutex' = Initialised(mutex)
  /\ UNCHANGED <<working, poolVars, requestVars, gw_stat_mutex, raced, querying,
                 stat_list, managerVars, stored, reply, countVars>>

GwStatMutexInit ==
  /\ main_pc = "gw_stat_mutex_init"
  /\ main_pc' = "list_init"
  /\ gw_stat_mutex' = Initialised(gw_stat_mutex)
  /\ UNCHANGED <<working, poolVars, requestVars, mutex, raced, querying, stat_list,
                 managerVars, stored, reply, countVars>>

gw_stat_linked_list_init ==
  /\ main_pc = "list_init"
  /\ main_pc' = "recvfrom"
  /\ stat_list' = <<>>
  /\ UNCHANGED <<working, poolVars, requestVars, lockVars, managerVars, stored,
                 reply, countVars>>

(* The flag is looked at after a datagram, not while waiting for one: the  *)
(* handler is installed by signal(), and recvfrom is resumed.              *)
LoopOrLeave == main_pc' = IF working THEN "recvfrom" ELSE "leaving"

(* The next request: they are all equal before they are received.          *)
Fresh(r) == kind[r] = "none" /\ r = CHOOSE x \in Requests : kind[x] = "none"

(* What a registered device sends in its own format.                       *)
Expected(k, d) == k # "SHORT" /\ d \in Devices

(* A datagram, from anybody; the thread finds out of what type it is.      *)
Receive(r, k, d) ==
  /\ main_pc = "recvfrom"
  /\ Fresh(r)
  /\ IF Expected(k, d) THEN UNCHANGED strangers
     ELSE FailureLeft /\ strangers' = strangers + 1
  /\ Pool!Submit(r)
  /\ kind' = [kind EXCEPT ![r] = k]
  /\ dev' = [dev EXCEPT ![r] = d]
  /\ LoopOrLeave
  /\ UNCHANGED <<threadVars, working, pc, lockVars, stat_list, managerVars,
                 stored, reply, db_failures, receive_errors, counted>>

(* recvfrom returns 0: the request is dropped (and never freed). *)
ReceiveEmpty(r) ==
  /\ main_pc = "recvfrom"
  /\ Fresh(r)
  /\ kind' = [kind EXCEPT ![r] = "EMPTY"]
  /\ LoopOrLeave
  /\ UNCHANGED <<threadVars, working, poolVars, dev, pc, lockVars, stat_list,
                 managerVars, stored, reply, countVars>>

(* recvfrom returns -1, which main takes for a received packet. *)
ReceiveError ==
  /\ main_pc = "recvfrom"
  /\ FailureLeft
  /\ receive_errors' = receive_errors + 1
  /\ main_pc' = "recv_error"
  /\ UNCHANGED <<working, poolVars, requestVars, lockVars, stat_list,
                 managerVars, stored, reply, db_failures, strangers, counted>>

(* The zeroed packet is a DATA_SEND, without payload, of device 0 of "";   *)
(* taken for a secure one, its -8 bytes would be decrypted.                *)
EnqueueUnfilled(r) ==
  /\ main_pc = "recv_error"
  /\ Fresh(r)
  /\ Pool!Submit(r)
  /\ kind' = [kind EXCEPT ![r] = "UNFILLED"]
  /\ dev' = [dev EXCEPT ![r] = Phantom]
  /\ LoopOrLeave
  /\ UNCHANGED <<threadVars, working, pc, lockVars, stat_list, managerVars,
                 stored, reply, countVars>>

ctrc_handler ==
  /\ Alive
  /\ working' = FALSE
  /\ UNCHANGED <<main_pc, poolVars, requestVars, lockVars, stat_list,
                 managerVars, stored, reply, countVars>>

(* The mutex is destroyed under the threads that still run, held or not,   *)
(* which is undefined: it may go on working (glibc refuses to destroy a    *)
(* mutex that is held), or keep nobody out from now on.                    *)
pthread_mutex_destroy ==
  /\ main_pc = "leaving"
  /\ main_pc' = "closing"
  /\ mutex' \in {mutex, "destroyed"}
  /\ UNCHANGED <<working, poolVars, requestVars, gw_stat_mutex, raced, querying,
                 stat_list, managerVars, stored, reply, countVars>>

(* So is the connection closed: whoever is in PQexec, or calls it from now *)
(* on, works on freed memory.  Then main returns, which ends the process:  *)
(* at any time, so there is no step of it.                                 *)
PQfinish ==
  /\ main_pc = "closing"
  /\ main_pc' \in {"finished"} \cup {pc_ \in {"crashed"} : querying # {}}
  /\ UNCHANGED <<working, poolVars, requestVars, lockVars, stat_list,
                 managerVars, stored, reply, countVars>>

-----------------------------------------------------------------------------
(* process_packet. *)

(* Where a thread is before pthread_mutex_lock(&mutex), and then in PQexec. *)
InQuery == [callback |-> "callback_query", insert |-> "insert_query",
            select |-> "select_query", pend_select |-> "pend_select_query",
            pend_poll |-> "pend_poll_query", stat_select |-> "stat_select_query",
            stat_update |-> "stat_update_query"]

QueryLabels == DOMAIN InQuery

QueryingLabels == {InQuery[l] : l \in QueryLabels}

At(r, label) == Alive /\ r \in running /\ pc[r] = label

Goto(r, label) == pc' = [pc EXCEPT ![r] = label]

Start ==
  /\ Alive
  /\ Pool!Start
  /\ Goto(Head(waiting), "callback")
  /\ UNCHANGED <<mainVars, packetVars, threadVars, lockVars, stat_list,
                 managerVars, stored, reply, countVars>>

(* A query on the connection that PQfinish has freed.                      *)
QueryFinished ==
  /\ main_pc = "finished"
  /\ mgr_pc = "update" \/ \E r \in running : pc[r] \in QueryLabels
  /\ main_pc' = "crashed"
  /\ UNCHANGED <<working, poolVars, requestVars, lockVars, stat_list,
                 managerVars, stored, reply, countVars>>

(* Two threads in PQexec at once, on one PGconn.                           *)
ConnCorrupted ==
  /\ Alive
  /\ \E x, y \in querying : x # y
  /\ main_pc' = "crashed"
  /\ UNCHANGED <<working, poolVars, requestVars, lockVars, stat_list,
                 managerVars, stored, reply, countVars>>

(* A PGresult is kept after its query. *)
Keep(r) == uncleared' = [uncleared EXCEPT ![r] = @ + 1]

PQclear_Not(r) == UNCHANGED uncleared

PQclear(r) == uncleared' = [uncleared EXCEPT ![r] = @ - 1]

(* The second query of a DATA_SEND, and of a STAT, comes after the result  *)
(* of the first was cleared.                                               *)
Query(r) ==
  /\ Alive /\ main_pc # "finished"
  /\ r \in running /\ pc[r] \in QueryLabels
  /\ LockConn(r)
  /\ Goto(r, InQuery[pc[r]])
  /\ IF pc[r] \in {"select", "stat_update"} THEN PQclear(r) ELSE UNCHANGED uncleared
  /\ UNCHANGED <<mainVars, poolVars, packetVars, retries, stat_list,
                 managerVars, stored, reply, countVars>>

(* Where process_packet goes after decoding.  A STAT is an ACK if its      *)
(* first byte is 0; that of an empty payload is uninitialised.             *)
Branch(k) ==
  CASE k = "DATA_SEND" -> {"count"}
    [] k = "TIME_REQ"  -> {"send_utc"}
    [] k = "PEND_REQ"  -> {"pend_select"}
    [] k = "STAT"      -> {"stat_select", "free"}
    [] k = "UNKNOWN"   -> {"nack"}
    [] k = "BAD"       -> {"free"}
    [] k \in {"SHORT", "UNFILLED"} -> {"short"}

SecureFilled_Never(ok, rows) == FALSE

SecureFilled(ok, rows) == ok /\ rows

(* What decoding finds out about type and device.  When the query of       *)
(* gateway_protocol_checkup_callback fails, or knows no such application,  *)
(* secure and secure_key are left uninitialised and decoding goes on: a    *)
(* packet is decrypted that should not be, or the other way round, and may *)
(* come out as anything, though of no other application.                   *)
Decoded(r, ok, rows) ==
  IF SecureFilled(ok, rows) \/ kind[r] = "UNFILLED"
  THEN {[kind |-> kind[r], dev |-> dev[r]]}
  ELSE [kind : DecodedKinds, dev : IF dev[r] = Phantom THEN {Phantom} ELSE AllDevices]

(* A registered device is one of a registered application; one that is not *)
(* may be of either.                                                       *)
CallbackReturns(r) ==
  /\ At(r, "callback_query")
  /\ UnlockConn(r)
  /\ Keep(r)
  /\ Goto(r, "decode")
  /\ \E ok, rows \in BOOLEAN :
       /\ QueryOutcome(ok)
       /\ dev[r] \in Devices => rows
       /\ \E packet \in Decoded(r, ok, rows) :
            /\ kind' = [kind EXCEPT ![r] = packet.kind]
            /\ dev' = [dev EXCEPT ![r] = packet.dev]
  /\ UNCHANGED <<retries, mainVars, poolVars, stat_list, managerVars, stored,
                 reply, receive_errors, strangers, counted>>

(* The callback clears its result; decoding goes on.                       *)
Decode(r) ==
  /\ At(r, "decode")
  /\ PQclear(r)
  /\ \E label \in Branch(kind[r]) : Goto(r, label)
  /\ UNCHANGED <<retries, mainVars, poolVars, packetVars, lockVars, stat_list,
                 managerVars, stored, reply, countVars>>

(* gateway_protocol_data_send_payload_decode copies payload_length - 4     *)
(* bytes, a negative number taken for a size: the process dies of it.      *)
ShortPayload(r) ==
  /\ At(r, "short")
  /\ main_pc' = "crashed"
  /\ UNCHANGED <<working, poolVars, requestVars, lockVars, stat_list,
                 managerVars, stored, reply, countVars>>

(* gateway_protocol_mk_stat and send_gcom_ch with a NACK. *)
SendNack(r) ==
  /\ At(r, "nack")
  /\ reply' = [reply EXCEPT ![r] = "NACK"]
  /\ Goto(r, "free")
  /\ UNCHANGED <<mainVars, poolVars, packetVars, threadVars, lockVars,
                 stat_list, managerVars, stored, countVars>>

send_utc(r) ==
  /\ At(r, "send_utc")
  /\ reply' = [reply EXCEPT ![r] = "TIME_SEND"]
  /\ Goto(r, "free")
  /\ UNCHANGED <<mainVars, poolVars, packetVars, threadVars, lockVars,
                 stat_list, managerVars, stored, countVars>>

CountLock(r) ==
  /\ At(r, "count")
  /\ LockStat
  /\ Goto(r, "count_add")
  /\ UNCHANGED <<mainVars, poolVars, packetVars, threadVars, stat_list,
                 managerVars, stored, reply, countVars>>

gw_stat_linked_list_add_FromZero(d) ==
  IF Entry(d) # {}
  THEN stat_list' = [i \in DOMAIN stat_list |->
                       IF i \in Entry(d) THEN [stat_list[i] EXCEPT !.num = @ + 1]
                       ELSE stat_list[i]]
  ELSE stat_list' = <<[dev |-> d, num |-> 0]>> \o stat_list

(* A new device goes to the front of the list. *)
gw_stat_linked_list_add(d) ==
  IF Entry(d) # {}
  THEN stat_list' = [i \in DOMAIN stat_list |->
                       IF i \in Entry(d) THEN [stat_list[i] EXCEPT !.num = @ + 1]
                       ELSE stat_list[i]]
  ELSE stat_list' = <<[dev |-> d, num |-> 1]>> \o stat_list

CountAdd(r) ==
  /\ At(r, "count_add")
  /\ gw_stat_linked_list_add(dev[r])
  /\ counted' = [counted EXCEPT ![dev[r]] = @ + 1]
  /\ UnlockStat
  /\ Goto(r, "insert")
  /\ UNCHANGED <<mainVars, poolVars, packetVars, threadVars, managerVars,
                 stored, reply, db_failures, receive_errors, strangers>>

AfterInsert_Always(ok) == "select"

AfterInsert(ok) == IF ok THEN "select" ELSE "error"

(* There is no table for a device that is not registered. *)
InsertReturns(r) ==
  /\ At(r, "insert_query")
  /\ UnlockConn(r)
  /\ Keep(r)
  /\ \E ok \in BOOLEAN :
       /\ dev[r] = Phantom => ~ok
       /\ IF dev[r] = Phantom THEN UNCHANGED db_failures ELSE QueryOutcome(ok)
       /\ stored' = IF ok THEN stored \cup {r} ELSE stored
       /\ Goto(r, AfterInsert(ok))
  /\ UNCHANGED <<mainVars, poolVars, packetVars, retries, stat_list,
                 managerVars, reply, receive_errors, strangers, counted>>

(* PQerrorMessage is called when the mutex is released: the text it reads  *)
(* may be written by whoever is in PQexec, or freed by PQfinish.           *)
PrintError(r) ==
  /\ At(r, "error")
  /\ Goto(r, "clear")
  /\ main_pc' \in {main_pc} \cup {pc_ \in {"crashed"} : querying # {} \/ main_pc = "finished"}
  /\ UNCHANGED <<working, poolVars, packetVars, threadVars, lockVars, stat_list,
                 managerVars, stored, reply, countVars>>

(* The last result of a DATA_SEND, a PEND_REQ or a STAT. *)
ClearResult(r) ==
  /\ At(r, "clear")
  /\ PQclear(r)
  /\ Goto(r, "free")
  /\ UNCHANGED <<mainVars, poolVars, packetVars, retries, lockVars, stat_list,
                 managerVars, stored, reply, countVars>>

(* Whether messages are pending decides between two acknowledgements; a    *)
(* failing SELECT is answered like an empty one.                           *)
SelectReturns(r) ==
  /\ At(r, "select_query")
  /\ UnlockConn(r)
  /\ Keep(r)
  /\ \E ok, pending \in BOOLEAN :
       /\ QueryOutcome(ok)
       /\ Goto(r, IF ok /\ pending THEN "ack_pend" ELSE "ack")
  /\ UNCHANGED <<mainVars, poolVars, packetVars, retries, stat_list, managerVars,
                 stored, reply, receive_errors, strangers, counted>>

Acknowledge(r) ==
  /\ At(r, "ack") \/ At(r, "ack_pend")
  /\ reply' = [reply EXCEPT ![r] = IF pc[r] = "ack" THEN "ACK" ELSE "ACK_PEND"]
  /\ PQclear(r)
  /\ Goto(r, "free")
  /\ UNCHANGED <<mainVars, poolVars, packetVars, retries, lockVars, stat_list,
                 managerVars, stored, countVars>>

(* PEND_REQ: the first row is sent until a query shows another one, or     *)
(* none.  The result of a query without rows is never cleared.             *)
PendSelectReturns(r) ==
  /\ At(r, "pend_select_query")
  /\ UnlockConn(r)
  /\ Keep(r)
  /\ \E ok, rows \in BOOLEAN :
       /\ QueryOutcome(ok)
       /\ IF ok /\ rows
          THEN /\ Goto(r, "pend_send")
               /\ retries' = [retries EXCEPT ![r] = PEND_SEND_RETRIES_MAX]
          ELSE Goto(r, "nack") /\ UNCHANGED retries
  /\ UNCHANGED <<mainVars, poolVars, packetVars, stat_list, managerVars, stored,
                 reply, receive_errors, strangers, counted>>

(* What the query before has returned is cleared, then the packet is sent. *)
PendSend(r) ==
  /\ At(r, "pend_send")
  /\ PQclear(r)
  /\ reply' = [reply EXCEPT ![r] = "PEND_SEND"]
  /\ Goto(r, "pend_poll")
  /\ UNCHANGED <<mainVars, poolVars, packetVars, retries, lockVars,
                 stat_list, managerVars, stored, countVars>>

Resend_Uncounted(r) == Goto(r, "pend_send") /\ UNCHANGED retries

Resend(r) == Goto(r, "pend_send") /\ retries' = [retries EXCEPT ![r] = @ - 1]

(* while (!received_ack && pend_send_retries--) *)
PendPollReturns(r) ==
  /\ At(r, "pend_poll_query")
  /\ UnlockConn(r)
  /\ Keep(r)
  /\ \E ok, retired \in BOOLEAN :
       /\ QueryOutcome(ok)
       /\ IF ~(ok /\ retired) /\ retries[r] > 0
          THEN Resend(r)
          ELSE Goto(r, "clear") /\ retries' = [retries EXCEPT ![r] = 0]
  /\ UNCHANGED <<mainVars, poolVars, packetVars, stat_list,
                 managerVars, stored, reply, receive_errors, strangers, counted>>

(* STAT: the first row is retired by a second query. *)
StatSelectReturns(r) ==
  /\ At(r, "stat_select_query")
  /\ UnlockConn(r)
  /\ Keep(r)
  /\ \E ok, rows \in BOOLEAN :
       /\ QueryOutcome(ok)
       /\ Goto(r, IF ok /\ rows THEN "stat_update" ELSE "clear")
  /\ UNCHANGED <<mainVars, poolVars, packetVars, retries, stat_list,
                 managerVars, stored, reply, receive_errors, strangers, counted>>

StatUpdateReturns(r) ==
  /\ At(r, "stat_update_query")
  /\ UnlockConn(r)
  /\ Keep(r)
  /\ \E ok \in BOOLEAN : QueryOutcome(ok) /\ Goto(r, IF ok THEN "clear" ELSE "error")
  /\ UNCHANGED <<mainVars, poolVars, packetVars, retries, stat_list,
                 managerVars, stored, reply, receive_errors, strangers, counted>>

(* free(req), and process_packet returns to the task queue; what was not   *)
(* cleared is lost.                                                        *)
Free(r) ==
  /\ At(r, "free")
  /\ Pool!Complete(r)
  /\ Goto(r, "done")
  /\ kind' = [kind EXCEPT ![r] = "freed"]
  /\ dev' = [dev EXCEPT ![r] = Phantom]
  /\ reply' = [reply EXCEPT ![r] = "none"]
  /\ stored' = stored \ {r}
  /\ uncleared' = [uncleared EXCEPT ![r] = 0]
  /\ UNCHANGED <<retries, mainVars, lockVars, stat_list, managerVars, countVars>>

-----------------------------------------------------------------------------
(* gateway_mngr. *)

MgrAt(label) == Alive /\ mgr_pc = label

FlushLock ==
  /\ MgrAt("flush")
  /\ LockStat
  /\ mgr_pc' = "format"
  /\ UNCHANGED <<mainVars, poolVars, requestVars, stat_list, buf,
                 reported, dropped, stored, reply, countVars>>

(* gw_stat_linked_list_flush writes and frees the entries, then resets the *)
(* list (FlushReset); an empty list leaves buf as it was.                  *)
FlushFormat ==
  /\ MgrAt("format")
  /\ IF stat_list # <<>>
     THEN /\ buf' = Written(stat_list)
          /\ mgr_pc' = "reset"
          /\ UNCHANGED lockVars
     ELSE mgr_pc' = "update" /\ UnlockStat /\ UNCHANGED buf
  /\ UNCHANGED <<mainVars, poolVars, requestVars, stat_list,
                 reported, dropped, stored, reply, countVars>>

FlushReset ==
  /\ MgrAt("reset")
  /\ stat_list' = <<>>
  /\ UnlockStat
  /\ mgr_pc' = "update"
  /\ UNCHANGED <<mainVars, poolVars, requestVars, buf, reported, dropped,
                 stored, reply, countVars>>

UpdateQuery ==
  /\ MgrAt("update") /\ main_pc # "finished"
  /\ LockConn(Manager)
  /\ mgr_pc' = "update_query"
  /\ UNCHANGED <<mainVars, poolVars, requestVars, stat_list, buf,
                 reported, dropped, stored, reply, countVars>>

AddReport(total) ==
  [d \in AllDevices |-> total[d] + Num(buf.log, d)]

(* A report whose UPDATE fails is only logged. *)
UpdateReturns ==
  /\ MgrAt("update_query")
  /\ UnlockConn(Manager)
  /\ \E ok \in BOOLEAN :
       /\ QueryOutcome(ok)
       /\ IF ok THEN reported' = AddReport(reported) /\ UNCHANGED dropped
                ELSE dropped' = AddReport(dropped) /\ UNCHANGED reported
  /\ buf' = Written(<<>>)
  /\ mgr_pc' = "sigwait"
  /\ UNCHANGED <<mainVars, poolVars, requestVars, stat_list, stored,
                 reply, receive_errors, strangers, counted>>

(* The interval timer has fired since the last round, or does so now.      *)
sigwait ==
  /\ MgrAt("sigwait")
  /\ mgr_pc' = "flush"
  /\ UNCHANGED <<mainVars, poolVars, requestVars, lockVars, stat_list, buf,
                 reported, dropped, stored, reply, countVars>>

-----------------------------------------------------------------------------
MainThread ==
  \/ MutexInit
  \/ GwStatMutexInit
  \/ gw_stat_linked_list_init
  \/ \E r \in Requests :
       \/ \E k \in Sent, d \in Senders : Receive(r, k, d)
       \/ ReceiveEmpty(r)
       \/ EnqueueUnfilled(r)
  \/ ReceiveError
  \/ pthread_mutex_destroy
  \/ PQfinish

Locking(r) == Query(r) \/ CountLock(r)

Working(r) ==
  \/ CallbackReturns(r)
  \/ Decode(r)
  \/ ShortPayload(r)
  \/ SendNack(r)
  \/ send_utc(r)
  \/ CountAdd(r)
  \/ InsertReturns(r)
  \/ PrintError(r)
  \/ ClearResult(r)
  \/ SelectReturns(r)
  \/ Acknowledge(r)
  \/ PendSelectReturns(r)
  \/ PendSend(r)
  \/ PendPollReturns(r)
  \/ StatSelectReturns(r)
  \/ StatUpdateReturns(r)
  \/ Free(r)

gateway_mngr ==
  \/ FlushLock
  \/ FlushFormat
  \/ FlushReset
  \/ UpdateQuery
  \/ UpdateReturns
  \/ sigwait

Next ==
  \/ MainThread
  \/ ctrc_handler
  \/ Start
  \/ QueryFinished
  \/ ConnCorrupted
  \/ \E r \in Requests : Locking(r) \/ Working(r)
  \/ gateway_mngr

Spec == Init /\ [][Next]_vars

(* Threads run, queries return, the timer keeps firing (sigwait), and a    *)
(* mutex that becomes free again and again is eventually given to a thread *)
(* that waits for it: strong fairness, which says no more than weak of the *)
(* steps that wait for nothing.  Nothing is assumed of main, of the        *)
(* datagrams, of what the queries return or of SIGINT.                     *)
FairSpec ==
  /\ Spec
  /\ WF_vars(Start)
  /\ \A r \in Requests : SF_vars(Locking(r) \/ Working(r))
  /\ SF_vars(gateway_mngr)

-----------------------------------------------------------------------------
Labels == {"none", "decode", "short", "nack", "send_utc", "count", "count_add", "ack",
           "ack_pend", "pend_send", "error", "clear", "free", "done"} \cup QueryLabels \cup QueryingLabels

Reports == Seq([dev : AllDevices, num : Nat \ {0}])

MainType ==
  /\ working \in BOOLEAN
  /\ main_pc \in {"mutex_init", "gw_stat_mutex_init", "list_init", "recvfrom", "recv_error",
                  "leaving", "closing", "finished", "crashed"}

PoolType ==
  /\ waiting \in Seq(Requests)
  /\ running \in SUBSET Requests /\ completed \in SUBSET Requests

RequestType ==
  /\ kind \in [Requests -> QueuedKinds \cup {"none", "EMPTY", "freed"}]
  /\ dev \in [Requests -> AllDevices]
  /\ pc \in [Requests -> Labels]
  /\ uncleared \in [Requests -> Nat]
  /\ retries \in [Requests -> 0 .. PEND_SEND_RETRIES_MAX]
  /\ stored \in SUBSET Requests
  /\ reply \in [Requests -> {"none", "ACK", "ACK_PEND", "NACK", "TIME_SEND", "PEND_SEND"}]

LockType ==
  /\ mutex \in {"free", "held", "orphaned", "destroyed"}
  /\ gw_stat_mutex \in {"free", "held", "orphaned"}
  /\ raced \in SUBSET {"mutex", "gw_stat_mutex"}
  /\ querying \in SUBSET (Requests \cup {Manager})

ReportType ==
  /\ stat_list \in Reports
  /\ mgr_pc \in {"flush", "format", "reset", "update", "update_query", "sigwait"}
  /\ buf \in [written : BOOLEAN, log : Reports]

CountType ==
  /\ db_failures \in 0 .. MaxFailures /\ receive_errors \in 0 .. MaxFailures
  /\ strangers \in 0 .. MaxFailures
  /\ counted \in [AllDevices -> Nat]
  /\ reported \in [AllDevices -> Nat] /\ dropped \in [AllDevices -> Nat]

TypeOK == MainType /\ PoolType /\ RequestType /\ LockType /\ ReportType /\ CountType

(* A mutex is held exactly while one thread is between its lock and its    *)
(* unlock, where it uses the PGconn (libpq requires that it be alone) or   *)
(* the list of counts, and asks for no other mutex: so no path through a   *)
(* handler or the manager keeps a mutex, and no two wait for each other.   *)
(* PQerrorMessage alone uses the PGconn outside (PrintError).  True unless *)
(* the manager was quick enough to hold the mutex when main, which creates *)
(* the manager before it initialises the mutexes, initialised it, and of   *)
(* `mutex' until main destroys it under the threads that still run.        *)
MgrHolds == mgr_pc \in {"format", "reset"}

InsideConn ==
  {r \in running : pc[r] \in QueryingLabels} \cup {x \in {Manager} : mgr_pc = "update_query"}

InsideStat == {r \in running : pc[r] = "count_add"} \cup {x \in {Manager} : MgrHolds}

Holders(m) == IF m \in {"held", "orphaned"} THEN 1 ELSE 0

LocksHeldByOne ==
  /\ "mutex" \notin raced /\ mutex # "destroyed" => Cardinality(InsideConn) = Holders(mutex)
  /\ "gw_stat_mutex" \notin raced => Cardinality(InsideStat) = Holders(gw_stat_mutex)

(* Every message counted is in the list, in the report the manager holds,  *)
(* in a report the database has taken, or in one whose UPDATE failed:      *)
(* exactly once, whatever adds run while the manager flushes.              *)
InHand(d) ==
  IF mgr_pc \in {"update", "update_query"} THEN Num(buf.log, d) ELSE 0

CountsConserved ==
  "gw_stat_mutex" \notin raced =>
    \A d \in AllDevices :
      counted[d] = Num(stat_list, d) + InHand(d) + reported[d] + dropped[d]

(* A device is told ACK or ACK_PEND only of data the database holds.       *)
AckedMeansStored ==
  \A r \in Requests : reply[r] \in {"ACK", "ACK_PEND"} => r \in stored

(* Serving devices that are registered and send well-formed packets, the   *)
(* process dies only of an error it does not stop at: a recvfrom that      *)
(* failed (main enqueues the request all the same) or a query that did, of *)
(* a checkup callback or one whose message is printed without the mutex;   *)
(* of a mutex that main initialised while the manager held it; or of       *)
(* SIGINT, after which main closes what the threads still use.  One        *)
(* datagram of a stranger, or of a wrong length, is enough otherwise.      *)
DiesOnlyOfErrors ==
  main_pc = "crashed" =>
    receive_errors + db_failures + strangers > 0 \/ "mutex" \in raced \/ ~working

(* When a request is freed its thread has cleared, once, every PGresult it *)
(* was given, on every path through the callback and up to two queries and *)
(* the polls, whatever they return: but the one of a PEND_REQ that is      *)
(* answered with a NACK, which is never cleared (gateway.c:382).           *)
ResultsCleared ==
  \A r \in Requests : pc[r] = "free" =>
    uncleared[r] = IF kind[r] = "PEND_REQ" /\ reply[r] = "NACK" THEN 1 ELSE 0

(* The report sent to the platform is what the manager created from the    *)
(* list ("create applications and devices serving log", gateway.c:512).    *)
ReportIsServingLog == mgr_pc = "update_query" => buf.written

(* A handler ends after a bounded number of its own steps, whatever the    *)
(* queries return and whoever writes the messages it polls for: every step *)
(* leads nearer to the end, that of a retransmission by its retry.         *)
Rank ==
  [none |-> 12, callback |-> 11, callback_query |-> 10, decode |-> 9,
   count |-> 8, count_add |-> 7, insert |-> 6, insert_query |-> 5, select |-> 4,
   select_query |-> 3, ack |-> 2, ack_pend |-> 2,
   pend_select |-> 7, pend_select_query |-> 6, pend_send |-> 5, pend_poll |-> 4,
   pend_poll_query |-> 3,
   stat_select |-> 7, stat_select_query |-> 6, stat_update |-> 5, stat_update_query |-> 4,
   error |-> 3, clear |-> 2, send_utc |-> 2, nack |-> 2, short |-> 2, free |-> 1, done |-> 0]

Retransmissions(r) ==
  IF pc[r] \in {"none", "callback", "callback_query", "decode", "pend_select",
                "pend_select_query"}
  THEN PEND_SEND_RETRIES_MAX
  ELSE IF pc[r] \in {"pend_send", "pend_poll", "pend_poll_query"} THEN retries[r] ELSE 0

StepsLeft(r) == Rank[pc[r]] + 3 * Retransmissions(r)

HandlersEnd ==
  [][\A r \in Requests :
       <<pc[r], retries[r]>>' # <<pc[r], retries[r]>> => StepsLeft(r)' < StepsLeft(r)]_vars

(* The process has died, or ends with main's return. *)
Ended == main_pc \in {"finished", "crashed"}

(* Whatever fails on the way, a request in the queue is handled and freed  *)
(* unless the process ends: no thread waits for ever for a mutex.          *)
EveryRequestFreed ==
  \A r \in Requests : Pool!Known(r) ~> r \in completed \/ Ended

(* A counted message leaves the list with one of the next reports.         *)
EveryCountLeaves ==
  \A d \in Devices : Num(stat_list, d) > 0 ~> Num(stat_list, d) = 0 \/ Ended
=============================================================================
