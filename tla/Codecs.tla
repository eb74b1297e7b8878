------------------------------- MODULE Codecs -------------------------------
(***************************************************************************)
(* What turns values into bytes and back: the exchanges of packets,        *)
(* answers and messages (CodecExchange), the block cipher below them       *)
(* (Aes), whose blocks CodecExchange treats as symbols, the text of the    *)
(* manager's report (ReportText) and that of the connection to the         *)
(* database (Configuration).  They share no state, and one of them runs at *)
(* a time.                                                                 *)
(***************************************************************************)
EXTENDS CodecExchange, Aes, ReportText, Configuration

CodecsInit == Init /\ AesInit /\ ReportInit /\ ConfInit

(* Each starts from one of the initial states of the others. *)
ExchangeRests == stage = "idle" /\ secure
AesRests == aes = "off"
ReportRests == entries = 0
ConfRests == read = "nothing"

CodecsNext ==
  \/ AesRests /\ ReportRests /\ ConfRests /\ Next /\ UNCHANGED <<aesVars, reportVars, confVars>>
  \/ ExchangeRests /\ ReportRests /\ ConfRests /\ AesNext /\ UNCHANGED <<vars, reportVars, confVars>>
  \/ ExchangeRests /\ AesRests /\ ConfRests /\ ReportNext /\ UNCHANGED <<vars, aesVars, confVars>>
  \/ ExchangeRests /\ AesRests /\ ReportRests /\ ConfNext /\ UNCHANGED <<vars, aesVars, reportVars>>

CodecsSpec == CodecsInit /\ [][CodecsNext]_<<vars, aesVars, reportVars, confVars>>
=============================================================================
