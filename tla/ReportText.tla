----------------------------- MODULE ReportText -----------------------------
(***************************************************************************)
(* The text of the manager's report: gw_stat_linked_list_flush             *)
(* (src/gw_stat_linked_list.c) concatenates an entry for each device that  *)
(* was heard of, without knowing the size of the buffer, and gateway_mngr  *)
(* (src/gateway.c) copies the text into its UPDATE.  Only lengths count.   *)
(***************************************************************************)
EXTENDS Integers

CONSTANTS
  GW_MNGR_BUF_LEN, GW_MNGR_QBUF_LEN,
  KeyLengths,      \* strlen of the app_keys: 8, less for one with a NUL in it
  CountDigits,     \* digits of the numbers of messages
  ErrorsDigits,    \* digits of errors_count
  TimeLengths,     \* characters of the time printed with %d
  MaxDevices       \* bound on the number of devices in the list

ASSUME ReportAssumption ==
  /\ {GW_MNGR_BUF_LEN, GW_MNGR_QBUF_LEN, MaxDevices} \subseteq Nat
  /\ KeyLengths \subseteq 0 .. 8
  /\ CountDigits \subseteq 1 .. 20 /\ ErrorsDigits \subseteq 1 .. 20
  /\ TimeLengths \subseteq 1 .. 11

VARIABLES
  report,      \* what the manager is doing with it
  entries,     \* entries written
  written,     \* strlen of the text
  errors, time \* characters of errors_count and of the time, once they are printed

reportVars == <<report, entries, written, errors, time>>

ReportInit ==
  /\ report = "flush"
  /\ entries = 0
  /\ written = 0
  /\ errors = 0 /\ time = 0

(* The app_key as the platform stores it, in base64. *)
EntryLength_Base64Key(key, dev, num) == 4 * ((key + 2) \div 3) + 1 + dev + 1 + num + 1

(* "%s#%d#%lld|" *)
EntryLength(key, dev, num) == key + 1 + dev + 1 + num + 1

(* snprintf into buf of 64 bytes cuts nothing off; strcat. *)
AppendEntry(key, dev, num) ==
  /\ report = "flush" /\ entries < MaxDevices
  /\ entries' = entries + 1
  /\ written' = written + EntryLength(key, dev, num)
  /\ report' = IF written' < GW_MNGR_BUF_LEN THEN "flush" ELSE "overrun"
  /\ UNCHANGED <<errors, time>>

QueryText == 85   \* the characters of the format that are printed as they are
IdLength == 8     \* six bytes in base64

QueryLength(e, t) == QueryText + e + t + written + IdLength

QueryFits_LessOne(length) == length < GW_MNGR_QBUF_LEN - 1

QueryFits(length) == length < GW_MNGR_QBUF_LEN

(* The whole list is written, and snprintf prints the query, or what fits. *)
PrintQuery(e, t) ==
  /\ report = "flush" /\ entries > 0
  /\ report' = IF QueryFits(QueryLength(e, t)) THEN "printed" ELSE "truncated"
  /\ errors' = e /\ time' = t
  /\ UNCHANGED <<entries, written>>

ReportNext ==
  \/ \E key \in KeyLengths, dev \in 1 .. 3, num \in CountDigits : AppendEntry(key, dev, num)
  \/ \E e \in ErrorsDigits, t \in TimeLengths : PrintQuery(e, t)

ReportSpec == ReportInit /\ [][ReportNext]_reportVars

-----------------------------------------------------------------------------
(* The report of up to thirty devices stays in its buffer, however many    *)
(* messages they have sent; and the bound is that of the code: 31 devices  *)
(* with the longest entries do not fit.  A report that stays in its buffer *)
(* is never cut off in the query, which would break its syntax and lose    *)
(* the report, as long as the number of errors and the time have 19        *)
(* characters together: until 2038 a time has ten.                         *)
ReportFits ==
  /\ report = "overrun" => entries > 30
  /\ report = "truncated" => errors + time > 19
=============================================================================
