------------------------------- MODULE Startup -------------------------------
(***************************************************************************)
(* The life of the process of src/gateway.c around its serving loop: main  *)
(* reads static.conf, authenticates with the platform, stores the answer   *)
(* in conf/dynamic.conf, reads it back, connects to the database, binds    *)
(* its socket and creates its threads; every failure ends the process, and *)
(* systemd starts it again (iotgateway.service, Restart=on-failure) until  *)
(* it has started it StartLimitBurst times within one interval: the unit   *)
(* sets no start limit, so the defaults of systemd hold, five starts in    *)
(* ten seconds.  A start by hand after that is left out.                   *)
(*                                                                         *)
(* The file is all that survives.  The process may die at any step, also   *)
(* while it serves (module Gateway says of what).                          *)
(***************************************************************************)
EXTENDS Naturals

CONSTANTS
  Configurations,  \* what the platform may want the gateway to use
  Garbled,         \* contents that are no configuration: they do not parse
  Empty,           \* an empty file
  StartLimitBurst, \* starts systemd allows in one interval
  MaxFailures      \* bound on steps that fail and deaths

ASSUME StartupAssumption ==
  /\ Configurations # {}
  /\ Garbled \notin Configurations /\ Empty \notin Configurations
  /\ Garbled # Empty
  /\ StartLimitBurst \in Nat \ {0}
  /\ MaxFailures \in Nat

VARIABLES
  phase,           \* the next step of main, or what became of the process
  starts,          \* how often systemd has started it in this interval
  working,         \* FALSE once SIGINT was handled
  platform_conf,   \* the configuration the platform gives out at present
  answered,        \* the one it gave out in this start
  payload_buffer,  \* what gateway_auth has decoded
  dynamic_conf,    \* contents of conf/dynamic.conf
  conf,            \* gw_conf->dynamic_conf
  failures         \* how often something has failed

process == <<phase, working>>
vars == <<phase, starts, working, platform_conf, answered, payload_buffer, dynamic_conf,
          conf, failures>>

Ended == {"failed", "stopped", "abandoned"}

(* dynamic.conf comes with a configuration, of no use to anybody: the one  *)
(* in the repository, or that of an earlier installation.                  *)
Init ==
  /\ phase = "static"
  /\ starts = 1
  /\ working = TRUE
  /\ platform_conf \in Configurations
  /\ answered = Empty
  /\ payload_buffer = Empty
  /\ dynamic_conf \in Configurations
  /\ conf = Empty
  /\ failures = 0

Outcome(ok) ==
  IF ok THEN UNCHANGED failures
  ELSE failures < MaxFailures /\ failures' = failures + 1

(* A step of main that may fail: main then returns EXIT_FAILURE. *)
Attempt(from, to, ok) ==
  /\ phase = from
  /\ phase' = IF ok THEN to ELSE "failed"
  /\ Outcome(ok)
  /\ UNCHANGED <<starts, working, platform_conf>>

contents == <<answered, payload_buffer, dynamic_conf, conf>>

-----------------------------------------------------------------------------
read_static_conf(ok) ==
  /\ Attempt("static", "connect", ok)
  /\ UNCHANGED contents

(* gateway_auth: socket, connect and the AUTH packet. *)
Connect_FailureTolerated(ok) ==
  /\ phase = "connect"
  /\ phase' = IF ok THEN "read" ELSE "dynamic"
  /\ Outcome(ok)
  /\ UNCHANGED <<starts, working, platform_conf>>
  /\ UNCHANGED contents

Connect(ok) ==
  /\ Attempt("connect", "read", ok)
  /\ UNCHANGED contents

(* gateway_auth: read and decode.  A part of the answer is decoded to      *)
(* something and accepted; after an answer shorter than a gateway id, as   *)
(* when the connection is closed, decrypting runs from the buffer off the  *)
(* end of the stack (see CodecExchange) and the process dies.              *)
Read(part) ==
  /\ phase = "read"
  /\ phase' = IF part = "nothing" THEN "failed" ELSE "open"
  /\ Outcome(part = "whole")
  /\ IF part = "nothing"
     THEN UNCHANGED <<answered, payload_buffer>>
     ELSE /\ answered' = platform_conf
          /\ payload_buffer' = IF part = "whole" THEN platform_conf ELSE Garbled
  /\ UNCHANGED <<starts, working, platform_conf, dynamic_conf, conf>>

Opened_Append(file) == file

Opened(file) == Empty

(* gateway_auth: fopen truncates the file; the process dies of a NULL      *)
(* stream.                                                                 *)
Open(ok) ==
  /\ Attempt("open", "write", ok)
  /\ dynamic_conf' = IF ok THEN Opened(dynamic_conf) ELSE dynamic_conf
  /\ UNCHANGED <<answered, payload_buffer, conf>>

(* gateway_auth: fwrite and fclose, whose results are not looked at. *)
Write(ok) ==
  /\ phase = "write"
  /\ phase' = "dynamic"
  /\ Outcome(ok)
  /\ dynamic_conf' = IF ok /\ dynamic_conf = Empty THEN payload_buffer ELSE Garbled
  /\ UNCHANGED <<starts, working, platform_conf, answered, payload_buffer, conf>>

(* read_dynamic_conf fails on an empty file and on one that does not       *)
(* parse, when stat, malloc, fopen or fread fails, and when the process    *)
(* dies of closing the stream that is NULL or of the byte written behind   *)
(* the contents.                                                           *)
read_dynamic_conf(ok) ==
  /\ phase = "dynamic"
  /\ Outcome(ok)
  /\ IF ok /\ dynamic_conf \in Configurations
     THEN phase' = "database" /\ conf' = dynamic_conf
     ELSE phase' = "failed" /\ UNCHANGED conf
  /\ UNCHANGED <<starts, working, platform_conf, answered, payload_buffer, dynamic_conf>>

PQconnectdb(ok) ==
  /\ Attempt("database", "bind", ok)
  /\ UNCHANGED contents

Bind(ok) ==
  /\ Attempt("bind", "threads", ok)
  /\ UNCHANGED contents

(* The manager thread and the task queue. *)
CreateThreads(ok) ==
  /\ Attempt("threads", "loop", ok)
  /\ UNCHANGED contents

(* while (working): each time round is a datagram later. *)
Loop ==
  /\ phase \in {"loop", "serving"}
  /\ phase' = IF working THEN "serving" ELSE "stopped"
  /\ UNCHANGED <<starts, working, platform_conf, contents, failures>>

ctrc_handler ==
  /\ phase \notin Ended
  /\ working' = FALSE
  /\ UNCHANGED <<phase, starts, platform_conf, contents, failures>>

-----------------------------------------------------------------------------
Die ==
  /\ phase \notin Ended
  /\ Outcome(FALSE)
  /\ phase' = "failed"
  /\ UNCHANGED <<starts, working, platform_conf, contents>>

(* The service is stopped: SIGKILL, at any step and without handler. *)
Stop ==
  /\ phase \notin {"stopped", "abandoned"}
  /\ phase' = "stopped"
  /\ UNCHANGED <<starts, working, platform_conf, contents, failures>>

(* A new process: nothing but the file is left of the last one. *)
Restart ==
  /\ phase = "failed"
  /\ starts < StartLimitBurst
  /\ starts' = starts + 1
  /\ phase' = "static"
  /\ working' = TRUE
  /\ answered' = Empty /\ payload_buffer' = Empty /\ conf' = Empty
  /\ UNCHANGED <<platform_conf, dynamic_conf, failures>>

(* One start too many in the interval: systemd leaves the unit failed. *)
GiveUp ==
  /\ phase = "failed"
  /\ starts >= StartLimitBurst
  /\ phase' = "abandoned"
  /\ UNCHANGED <<starts, working, platform_conf, contents, failures>>

(* The interval is over; the next start begins another one. *)
IntervalPasses ==
  /\ starts' = 0
  /\ UNCHANGED <<process, platform_conf, contents, failures>>

PlatformChanges ==
  /\ platform_conf' \in Configurations
  /\ UNCHANGED <<process, starts, contents, failures>>

-----------------------------------------------------------------------------
Main(ok) ==
  \/ read_static_conf(ok)
  \/ Connect(ok)
  \/ Open(ok)
  \/ Write(ok)
  \/ read_dynamic_conf(ok)
  \/ PQconnectdb(ok)
  \/ Bind(ok)
  \/ CreateThreads(ok)

Next ==
  \/ \E ok \in BOOLEAN : Main(ok)
  \/ \E part \in {"whole", "part", "nothing"} : Read(part)
  \/ Loop
  \/ ctrc_handler
  \/ Die
  \/ Stop
  \/ Restart
  \/ GiveUp
  \/ IntervalPasses
  \/ PlatformChanges

Spec == Init /\ [][Next]_vars

(* systemd starts a failed process again or gives up, main runs, and a     *)
(* read returns.  What may fail (files, memory, the network, the platform, *)
(* the database) fails at most MaxFailures times; nothing is assumed of    *)
(* the time that passes, so all the failures may fall into one interval.   *)
FairSpec ==
  /\ Spec
  /\ WF_vars(Restart \/ GiveUp)
  /\ WF_vars(\E ok \in BOOLEAN : Main(ok))
  /\ WF_vars(Read("whole"))
  /\ WF_vars(Loop)

-----------------------------------------------------------------------------
(* The gateway uses the configuration that the platform gave out in this   *)
(* very start and it is in the file, whatever an earlier start left there  *)
(* when it died between truncating, writing and reading the file.          *)
ServesWhatWasAnswered ==
  phase \in {"database", "bind", "threads", "loop", "serving"} =>
    conf \in Configurations /\ conf = answered /\ dynamic_conf = conf

(* No failure leaves anything behind that makes a next start fail: the     *)
(* gateway comes to serve, or was told to stop, or systemd gave it up      *)
(* after as many failures as it allows starts, one of its own for each.    *)
GivenUp == phase = "abandoned" /\ failures >= StartLimitBurst

ComesToServe == []<>(phase \in {"serving", "stopped"} \/ GivenUp)
=============================================================================
