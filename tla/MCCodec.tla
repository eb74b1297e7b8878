------------------------------ MODULE MCCodec -------------------------------
(* Codecs with the sizes of the code, except for the buffers of            *)
(* gateway_auth: 128 bytes stand for 1024.                                 *)
EXTENDS Codecs, TLC

AllPayloads == 0 .. 255
OddDatagrams == (0 .. 12) \cup (22 .. 26) \cup (246 .. 256)
Answers == 0 .. 140
PartialReads == (-1 .. 40) \cup (100 .. 128)
SomeBytes == {0, 90, 165, 255}
MCMessages ==
  UNION {[1 .. n -> SomeBytes] : n \in 1 .. 4}
    \cup {[i \in 1 .. n |-> (i * 37) % 256] : n \in 5 .. 120}

(* Byte n of a block as a multiple of k: every byte is looked up in the    *)
(* tables.                                                                 *)
Multiples(k) == [n \in 1 .. 16 |-> (n * k) % 256]
MCKeys == {VectorKey} \cup {Multiples(k) : k \in {0, 7, 255}}
MCBlocks == {VectorBlocks[i] : i \in 1 .. 4} \cup {Multiples(k) : k \in {0, 17, 239}}

MCKeyLengths == {0, 8}
MCCountDigits == {1, 20}
MCErrorsDigits == {1, 8, 9, 10, 20}
MCTimeLengths == {10, 11}

(* The shipped dynamic.conf with texts of every length around the ends of  *)
(* their fields and ports with and without zeros in their two bytes; and   *)
(* in every order of its members, with the last ones missing, and with a   *)
(* period in quotes, as the port is.                                       *)
Text(name, size) == [name |-> name, kind |-> "string", size |-> size, number |-> 0]
Port(number) == [name |-> "db_port", kind |-> "string", size |-> 4, number |-> number]
Period(seconds) ==
  [name |-> "telemetry_send_freq", kind |-> "integer", size |-> 0, number |-> seconds]

File(addr, port, name, user, pass, period) ==
  << Text("db_address", addr), Port(port), Text("db_name", name),
     Text("username", user), Text("password", pass), Period(period) >>

Short == File(9, 5432, 9, 2, 3, 60)

MCFiles ==
  {File(addr, port, name, user, pass, period) :
     addr \in {15, 16, 39}, port \in {80, 5376, 5432, 70000},
     name \in {1, 31, 32}, user \in {31, 32}, pass \in {31, 32, 40}, period \in {60, 65793}}
  \cup {[i \in 1 .. 6 |-> Short[order[i]]] : order \in Permutations(1 .. 6)}
  \cup {SubSeq(Short, 1, n) : n \in 0 .. 5}
  \cup {[Short EXCEPT ![6] = Text("telemetry_send_freq", 2)]}
=============================================================================
