---------------------------- MODULE Configuration ----------------------------
(***************************************************************************)
(* What becomes of conf/dynamic.conf once it has parsed (src/gateway.c):   *)
(* process_dynamic_conf picks the members of the object by their position  *)
(* and copies them into dynamic_conf_t, and main prints the struct into    *)
(* the string PQconnectdb is called with.  strncpy leaves no terminator in *)
(* a field its text fills, and %s then reads on in the next field.         *)
(*                                                                         *)
(* A byte is Nul, a character of a member (its name and where it stands in *)
(* the text), or Stray, a byte of something that is no text.               *)
(***************************************************************************)
EXTENDS Integers, Sequences, FiniteSets, FiniteSetsExt

CONSTANTS
  Files   \* files tried: sequences of [name, kind, size, number]

(* A member that is a string has its length as size and what atoi makes of *)
(* it as number; the size of an integer is not used.  Both stay below the  *)
(* last byte of four, as in the 1024 bytes that dynamic.conf is stored     *)
(* from.                                                                   *)
ASSUME ConfigurationAssumption ==
  \A file \in Files : \A i \in DOMAIN file :
    /\ file[i].kind \in {"string", "integer"}
    /\ file[i].size \in 0 .. 2^24 - 1
    /\ file[i].number \in 0 .. 2^24 - 1

VARIABLES
  read,      \* what main has done with the file
  members,   \* value->u.object.values, without the names' texts
  dyn_conf,  \* the bytes of dynamic_conf_t
  conninfo   \* what was printed for each %s, and for %d

confVars == <<read, members, dyn_conf, conninfo>>

ConfInit ==
  /\ read = "nothing"
  /\ members = <<>>
  /\ dyn_conf = <<>>
  /\ conninfo = <<>>

(* read_json_conf, of a file that json_parse takes. *)
read_json_conf(file) ==
  /\ read = "nothing"
  /\ read' = "parsed"
  /\ members' = file
  /\ UNCHANGED <<dyn_conf, conninfo>>

-----------------------------------------------------------------------------
Nul == <<"nul", 0>>
Stray == <<"stray", 0>>

Char(member, i) == <<member.name, i>>

FieldSize_NoTerminator(field) == IF field = "db_address" THEN 15 ELSE 32

FieldSize(field) == IF field = "db_address" THEN 15 + 1 ELSE 32

(* strncpy(field, text, sizeof(field)) *)
strncpy(member, size) ==
  [i \in 1 .. size |-> IF i <= member.size THEN Char(member, i) ELSE Nul]

(* A number stored in so many bytes, the lowest first. *)
Stored(number, bytes) ==
  [i \in 1 .. bytes |-> IF (number \div 256^(i - 1)) % 256 = 0 THEN Nul ELSE Stray]

(* values[i]: behind the last member there is no value, and where an       *)
(* integer is stored a string has a NULL pointer; reading either has no    *)
(* defined outcome.                                                        *)
IsText(i) == i \in DOMAIN members /\ members[i].kind = "string"

(* Where a string is stored, u.integer is its length. *)
AsInteger(member) == IF member.kind = "integer" THEN member.number ELSE member.size

process_dynamic_conf ==
  /\ read = "parsed"
  /\ IF (\A i \in 1 .. 5 : IsText(i)) /\ 6 \in DOMAIN members
     THEN /\ read' = "processed"
          /\ \E padding \in {<<Nul, Nul>>, <<Stray, Nul>>, <<Stray, Stray>>} :
               dyn_conf' = strncpy(members[1], FieldSize("db_address"))
                           \o Stored(members[2].number, 2)
                           \o strncpy(members[3], FieldSize("db_name"))
                           \o strncpy(members[4], FieldSize("username"))
                           \o strncpy(members[5], FieldSize("password"))
                           \o padding
                           \o Stored(AsInteger(members[6]), 4)
     ELSE read' = "undefined" /\ UNCHANGED dyn_conf
  /\ UNCHANGED <<members, conninfo>>

-----------------------------------------------------------------------------
Offset(field) ==
  LET addr == FieldSize("db_address") + 2
      name == addr + FieldSize("db_name")
      user == name + FieldSize("username")
  IN  CASE field = "db_address" -> 0
        [] field = "db_name"    -> addr
        [] field = "username"   -> name
        [] field = "password"   -> user

Texts == {"db_address", "db_name", "username", "password"}

(* %s: from the first byte of the field to the next Nul; the period, of    *)
(* less than 2^24 seconds, has one.                                        *)
StringAt(offset) ==
  LET end == Min({i \in offset + 1 .. Len(dyn_conf) : dyn_conf[i] = Nul})
  IN  SubSeq(dyn_conf, offset + 1, end - 1)

DecimalDigits(n) == IF n = 0 THEN 1 ELSE Cardinality({d \in 0 .. 5 : n >= 10^d})

ConninfoSize == 512

(* "hostaddr=%s port=%d dbname=%s user=%s password=%s", and PQconnectdb. *)
PrintConninfo ==
  LET texts  == [field \in Texts |-> StringAt(Offset(field))]
      port   == members[2].number % 2^16
      length == 39 + DecimalDigits(port)
                + Len(texts["db_address"]) + Len(texts["db_name"])
                + Len(texts["username"]) + Len(texts["password"])
  IN  /\ read = "processed"
      /\ read' = IF length < ConninfoSize THEN "printed" ELSE "cut"
      /\ conninfo' = [texts |-> texts, port |-> port]
      /\ UNCHANGED <<members, dyn_conf>>

ConfNext ==
  \/ \E file \in Files : read_json_conf(file)
  \/ process_dynamic_conf
  \/ PrintConninfo

ConfSpec == ConfInit /\ [][ConfNext]_confVars

-----------------------------------------------------------------------------
(* The members the gateway connects with, where conf/dynamic.conf has them. *)
Shipped == [db_address |-> 1, db_port |-> 2, db_name |-> 3, username |-> 4, password |-> 5]

AsShipped == \A name \in DOMAIN Shipped : members[Shipped[name]].name = name

Named(name) == CHOOSE i \in DOMAIN members : members[i].name = name

Right ==
  /\ conninfo.port = members[Named("db_port")].number
  /\ \A field \in Texts :
       conninfo.texts[field] = [i \in 1 .. members[Named(field)].size |-> <<field, i>>]

(* The database the gateway connects to is the one the file names, when    *)
(* its members have the order of the shipped file, its texts leave their   *)
(* fields a terminator (an IPv4 address has 15 characters at most) and the *)
(* port has 16 bits.  In another order, and with texts beyond the fields,  *)
(* it never is, and nothing notices; but even where fields are read on     *)
(* into the next ones the connection string is not cut off.                *)
ConnectsAsConfigured ==
  /\ read # "cut"
  /\ read = "printed" =>
       /\ /\ AsShipped
          /\ members[1].size <= 15 /\ \A i \in 3 .. 5 : members[i].size <= 31
          /\ members[2].number < 2^16
          => Right
       /\ Right =>
          /\ AsShipped
          /\ members[1].size <= 16 /\ \A i \in 3 .. 5 : members[i].size <= 32
=============================================================================
