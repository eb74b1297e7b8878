---------------------------- MODULE StartupProofs ----------------------------
(***************************************************************************)
(* Proofs about Startup for any configurations and any number of failures. *)
(***************************************************************************)
EXTENDS Startup, TLAPS

Phases == {"static", "connect", "read", "open", "write", "dynamic", "database",
           "bind", "threads", "loop", "serving", "failed", "stopped",
           "abandoned"}

Contents == Configurations \cup {Garbled, Empty}

TypeInv ==
  /\ phase \in Phases
  /\ platform_conf \in Configurations
  /\ {answered, payload_buffer, dynamic_conf, conf} \subseteq Contents

(* What main holds from one step to the next: the answer decoded until it  *)
(* is written, then in the file nothing but that answer or what does not   *)
(* parse, and once the file was read the answer in the file and in conf.   *)
Decoded == payload_buffer \in {answered, Garbled} /\ answered \in Configurations

HandedOver ==
  /\ phase \in {"open", "write"} => Decoded
  /\ phase = "dynamic" => dynamic_conf \in {answered, Garbled} /\ answered \in Configurations

IInv == TypeInv /\ HandedOver /\ ServesWhatWasAnswered

LEMMA InitIInv == Init => IInv
  BY StartupAssumption
     DEF Init, IInv, TypeInv, Phases, Contents, HandedOver, ServesWhatWasAnswered

(* A step of main that may fail goes on or ends the process. *)
LEMMA AttemptGoesOn ==
  ASSUME TypeInv, NEW from, NEW to, NEW ok \in BOOLEAN, Attempt(from, to, ok)
  PROVE  /\ phase = from
         /\ phase' = to \/ phase' = "failed"
         /\ platform_conf' = platform_conf
  BY DEF Attempt

LEMMA MainKeeps ==
  ASSUME IInv, NEW ok \in BOOLEAN, Main(ok)
  PROVE  IInv'
<1> USE DEF IInv, TypeInv, Phases, Contents, HandedOver, ServesWhatWasAnswered, Decoded
<1>1. CASE read_static_conf(ok)
  BY <1>1, AttemptGoesOn DEF read_static_conf, contents
<1>2. CASE Connect(ok)
  BY <1>2, AttemptGoesOn DEF Connect, contents
<1>3. CASE Open(ok)
  BY <1>3, AttemptGoesOn DEF Open, Opened
<1>4. CASE Write(ok)
  <2>1. phase = "write" /\ phase' = "dynamic" /\ Decoded
    BY <1>4 DEF Write
  <2>2. dynamic_conf' \in {answered, Garbled}
    BY <1>4, <2>1 DEF Write
  <2> QED
    BY <1>4, <2>1, <2>2 DEF Write
<1>5. CASE PQconnectdb(ok)
  BY <1>5, AttemptGoesOn DEF PQconnectdb, contents
<1>6. CASE Bind(ok)
  BY <1>6, AttemptGoesOn DEF Bind, contents
<1>7. CASE CreateThreads(ok)
  BY <1>7, AttemptGoesOn DEF CreateThreads, contents
<1>8. CASE read_dynamic_conf(ok)
  <2>1. phase = "dynamic" /\ phase' \in {"database", "failed"}
    BY <1>8 DEF read_dynamic_conf
  <2>2. phase' = "database" => dynamic_conf \in Configurations /\ conf' = dynamic_conf
    BY <1>8 DEF read_dynamic_conf
  <2>3. phase' = "database" => dynamic_conf = answered
    BY <2>1, <2>2, StartupAssumption
  <2> QED
    BY <1>8, <2>1, <2>2, <2>3 DEF read_dynamic_conf
<1> QED
  BY <1>1, <1>2, <1>3, <1>4, <1>5, <1>6, <1>7, <1>8 DEF Main

LEMMA NextIInv == IInv /\ [Next]_vars => IInv'
<1> SUFFICES ASSUME IInv, [Next]_vars PROVE IInv'
  OBVIOUS
<1>1. CASE \E ok \in BOOLEAN : Main(ok)
  BY <1>1, MainKeeps
<1> USE DEF IInv, TypeInv, Phases, Contents, HandedOver, ServesWhatWasAnswered, Decoded
<1>2. ASSUME NEW part \in {"whole", "part", "nothing"}, Read(part) PROVE IInv'
  <2>1. phase = "read" /\ phase' \in {"failed", "open"}
    BY <1>2 DEF Read
  <2>2. phase' = "open" => Decoded'
    BY <1>2 DEF Read
  <2> QED
    BY <1>2, <2>1, <2>2 DEF Read
<1>4. CASE Loop
  BY <1>4 DEF Loop, contents
<1>5. CASE ctrc_handler
  BY <1>5 DEF ctrc_handler, contents
<1>3. CASE Stop \/ GiveUp
  BY <1>3 DEF Stop, GiveUp, contents
<1>6. CASE Die
  BY <1>6 DEF Die, contents
<1>7. CASE Restart
  BY <1>7 DEF Restart
<1>8. CASE PlatformChanges
  BY <1>8 DEF PlatformChanges, contents, process
<1>9. CASE IntervalPasses
  BY <1>9 DEF IntervalPasses, contents, process
<1>10. CASE UNCHANGED vars
  BY <1>10 DEF vars
<1> QED
  BY <1>1, <1>2, <1>3, <1>4, <1>5, <1>6, <1>7, <1>8, <1>9, <1>10 DEF Next

(* Whatever fails and wherever the process dies and starts again, the      *)
(* gateway serves with the configuration the platform gave out in this     *)
(* start, which is the one in the file.                                    *)
THEOREM ServesTheAnswer == Spec => []ServesWhatWasAnswered
<1>1. IInv => ServesWhatWasAnswered
  BY DEF IInv
<1> QED
  BY <1>1, InitIInv, NextIInv, PTL DEF Spec
=============================================================================
