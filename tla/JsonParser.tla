----------------------------- MODULE JsonParser -----------------------------
(***************************************************************************)
(* src/json.c as read_json_conf uses it: json_parse goes twice over the    *)
(* text of a configuration file.  The first pass creates the values and    *)
(* counts what they hold, the second allocates what was counted and fills  *)
(* it in; json_value_free walks the tree and frees it.                     *)
(*                                                                         *)
(* A character is a member of Chars; a word (true, false, null) and an     *)
(* escape u with its digits count as one.  What numbers amount to is left  *)
(* out, which of them become doubles is not.  The text is made up while    *)
(* the first pass reads it: nothing in it matters before it is read.       *)
(***************************************************************************)
EXTENDS Integers, Sequences

CONSTANTS
  Chars,             \* the characters of the texts tried
  Beginnings,        \* what the texts tried begin with
  MaxMore,           \* bound on the number of characters that follow
  MaxDigits,         \* an integer of more digits overflows
  MaxAllocFailures   \* bound on how often json_alloc may fail

VARIABLES
  text,              \* the text so far
  more,              \* how many characters may still follow
  first_pass,
  ptr,               \* index of the character read next
  flags,             \* the flags set, without those only the values of numbers need
  top, root, alloc,  \* values, as indices of nodes
  string_length, num_digits,
  nodes,             \* the values in order of allocation: next_alloc is the next index
  live,              \* blocks allocated and not yet freed
  value,             \* json_value_free_ex: the value it is at
  phase,             \* what the caller sees happen
  outcome,           \* why the parser stopped
  alloc_failures

readVars == <<text, more>>
passVars == <<first_pass, ptr, flags, string_length, num_digits>>
treeVars == <<top, root, alloc, nodes, live>>
endVars  == <<value, phase, outcome>>
vars == <<readVars, passVars, treeVars, endVars, alloc_failures>>

None == 0

Digits == {"0", "1"}
NumberChars_NoFraction == Digits \cup {"-", "+", "e"}
NumberChars == Digits \cup {"-", "+", "e", "."}
Words == {"true"}
Escapes == {"uXXXX", "u?"}   \* u with four digits, and without

ASSUME JsonParserAssumption ==
  /\ Chars \subseteq Digits \cup Words \cup Escapes \cup
       {"{", "}", "[", "]", ":", ",", "quote", "backslash", "-", "+", ".", "e", " "}
  /\ Beginnings \subseteq Seq(Chars)
  /\ {MaxMore, MaxDigits, MaxAllocFailures} \subseteq Nat

Start == flags' = {"seek_value"} /\ ptr' = 1 /\ top' = None /\ root' = None

Init ==
  /\ text \in Beginnings /\ more = MaxMore
  /\ first_pass = TRUE
  /\ ptr = 1
  /\ flags = {"seek_value"}
  /\ top = None /\ root = None /\ alloc = None
  /\ string_length = 0 /\ num_digits = 0
  /\ nodes = <<>>
  /\ live = {}
  /\ value = None
  /\ phase = "parsing"
  /\ outcome = "none"
  /\ alloc_failures = 0

-----------------------------------------------------------------------------
(* The text. *)

AtEnd == phase = "parsing" /\ more > 0 /\ ptr > Len(text)

Supply(c) ==
  /\ AtEnd
  /\ text' = Append(text, c) /\ more' = more - 1
  /\ UNCHANGED <<passVars, treeVars, endVars, alloc_failures>>

End ==
  /\ AtEnd
  /\ more' = 0
  /\ UNCHANGED <<text, passVars, treeVars, endVars, alloc_failures>>

(* The loop over the text has a character to look at. *)
Reading == phase = "parsing" /\ (more = 0 \/ ptr <= Len(text))

b == IF ptr <= Len(text) THEN text[ptr] ELSE "eof"

-----------------------------------------------------------------------------
(* What iterations have in common: each sets flags, ptr, top and nodes, or *)
(* stops.                                                                  *)

On(fl) ==
  /\ flags' = fl /\ ptr' = ptr + 1
  /\ UNCHANGED <<top, nodes>>

Stop(why) ==
  /\ phase' = "failing" /\ outcome' = why

Fail ==
  /\ Stop("text")
  /\ UNCHANGED <<flags, ptr, top, root, alloc, nodes, live, alloc_failures,
                 string_length, num_digits>>

Continues == UNCHANGED <<phase, outcome>>

NoAllocation == UNCHANGED <<root, alloc, live, alloc_failures>>

(* flag_next: value v is done, and its parent is told. *)
flag_next(ns, v, fl, next) ==
  LET parent == ns[v].parent
  IN  /\ ptr' = next
      /\ IF parent = None
         THEN /\ flags' = fl \cup {"need_comma", "done"}
              /\ top' = v
              /\ nodes' = ns
         ELSE /\ flags' = fl \cup {"need_comma"}
                             \cup {f \in {"seek_value"} : ns[parent].type = "array"}
              /\ top' = parent
              /\ nodes' = [ns EXCEPT ![parent].length = @ + 1,
                                     ![parent].values = IF first_pass THEN @ ELSE Append(@, v)]

-----------------------------------------------------------------------------
(* new_value.  The first pass appends a zeroed value; the second takes the *)
(* next one and allocates room for what was counted, if there is any.      *)

Blank(type) ==
  [type |-> type, parent |-> top, length |-> 0, name_bytes |-> 0,
   allocated |-> FALSE, room |-> 0, name_room |-> 0, values |-> <<>>, names |-> <<>>]

Holds_NoTerminator(n) == n.length

(* A string has a terminator. *)
Holds(n) == IF n.type = "string" THEN n.length + 1 ELSE n.length

TakesMemory(n) ==
  n.type = "string" \/ (n.type \in {"array", "object"} /\ n.length > 0)

Allocated(n) ==
  IF TakesMemory(n)
  THEN [n EXCEPT !.allocated = TRUE, !.room = Holds(n), !.name_room = n.name_bytes,
                 !.length = 0, !.name_bytes = 0]
  ELSE n

AllocOutcome(ok) ==
  IF ok THEN UNCHANGED alloc_failures
  ELSE alloc_failures < MaxAllocFailures /\ alloc_failures' = alloc_failures + 1

Newest(ns) == IF first_pass THEN Len(ns) ELSE alloc

(* Nodes after new_value. *)
Created(type) ==
  IF first_pass THEN Append(nodes, Blank(type))
  ELSE [nodes EXCEPT ![alloc] = Allocated(@)]

AllocOutcomes ==
  IF first_pass THEN BOOLEAN ELSE {TRUE} \cup {ok \in {FALSE} : TakesMemory(nodes[alloc])}

new_value(type, ok) ==
  LET v == IF first_pass THEN Len(nodes) + 1 ELSE alloc
  IN  /\ AllocOutcome(ok)
      /\ root' = IF root = None /\ (ok \/ ~first_pass) THEN v ELSE root
      /\ alloc' = IF first_pass THEN IF ok THEN v ELSE alloc
                  ELSE IF v < Len(nodes) THEN v + 1 ELSE None
      /\ live' = IF ~ok THEN live
                 ELSE IF first_pass THEN live \cup {<<"value", v>>}
                 ELSE IF TakesMemory(nodes[v]) THEN live \cup {<<"values", v>>}
                 ELSE live

AllocFailure ==
  /\ Stop("memory")
  /\ UNCHANGED <<flags, ptr, top, nodes, string_length, num_digits>>

(* The second pass has used up the values of the first. *)
NoValueLeft == ~first_pass /\ alloc = None

Crash ==
  /\ phase' = "crashed"
  /\ UNCHANGED <<outcome, flags, ptr, top, root, alloc, nodes, live, alloc_failures,
                 string_length, num_digits>>

-----------------------------------------------------------------------------
(* Within a string. *)

(* An escape u stands for a character of three bytes in UTF-8. *)
EscapeLength == IF b = "uXXXX" THEN 3 ELSE 1

StringGrows(n, fl) ==
  /\ string_length' = string_length + n
  /\ On(fl)
  /\ NoAllocation /\ Continues /\ UNCHANGED num_digits

NameBytes == string_length + 1

StringEnds ==
  LET fl == flags \ {"string"}
  IN  /\ IF nodes[top].type = "string"
         THEN flag_next([nodes EXCEPT ![top].length = string_length], top, fl, ptr + 1)
         ELSE /\ nodes' = [nodes EXCEPT ![top].name_bytes = @ + NameBytes,
                                        ![top].names = IF first_pass THEN @
                                                       ELSE Append(@, string_length)]
              /\ flags' = fl \cup {"seek_value", "need_colon"}
              /\ ptr' = ptr + 1
              /\ UNCHANGED top
      /\ NoAllocation /\ Continues /\ UNCHANGED <<string_length, num_digits>>

StringChar ==
  /\ "string" \in flags
  /\ IF b = "eof" THEN Fail
     ELSE IF "escaped" \in flags
     THEN IF b = "u?" THEN Fail
          ELSE StringGrows(EscapeLength, flags \ {"escaped"})
     ELSE IF b = "backslash" THEN StringGrows(0, flags \cup {"escaped"})
     ELSE IF b = "quote" THEN StringEnds
     ELSE StringGrows(1, flags)

-----------------------------------------------------------------------------
(* Behind the root value, and looking for a value. *)

Plain(A) == A /\ NoAllocation /\ Continues /\ UNCHANGED <<string_length, num_digits>>

(* The second pass starts over; its end is the end of the parser. *)
PassEnds ==
  /\ first_pass' = FALSE
  /\ alloc' = root
  /\ IF first_pass
     THEN Start /\ Continues
     ELSE /\ phase' = "parsed" /\ outcome' = "parsed"
          /\ UNCHANGED <<flags, ptr, top, root>>
  /\ UNCHANGED <<nodes, live, alloc_failures, string_length, num_digits>>

Done ==
  /\ "done" \in flags /\ "string" \notin flags
  /\ IF b = "eof" THEN PassEnds
     ELSE /\ IF b = " " THEN Plain(On(flags)) ELSE Fail
          /\ UNCHANGED first_pass

(* ] ends an array also behind a comma. *)
CloseArray ==
  /\ b = "]"
  /\ IF top # None /\ nodes[top].type = "array"
     THEN Plain(flag_next(nodes, top, flags \ {"need_comma", "seek_value"}, ptr + 1))
     ELSE Fail

Separator ==
  /\ b \notin {" ", "]"}
  /\ \/ /\ "need_comma" \in flags
        /\ IF b = "," THEN Plain(On(flags \ {"need_comma"})) ELSE Fail
     \/ /\ "need_comma" \notin flags /\ "need_colon" \in flags
        /\ IF b = ":" THEN Plain(On(flags \ {"need_colon"})) ELSE Fail

TypeOf == [c \in {"{", "[", "quote", "true"} \cup Digits \cup {"-"} |->
             CASE c = "{" -> "object" [] c = "[" -> "array" [] c = "quote" -> "string"
               [] c = "true" -> "word" [] OTHER -> "integer"]

(* Index of the first character behind a number. *)
BehindNumber ==
  CHOOSE i \in ptr + 1 .. Len(text) + 1 :
    /\ i <= Len(text) => text[i] \notin NumberChars
    /\ \A j \in ptr .. i - 1 : text[j] \in NumberChars

NumberFlags == {"num_zero", "num_e", "num_e_got_sign"}

(* The iteration after new_value. *)
Opened(type, ns) ==
  LET fl == flags \ {"seek_value"}
      v  == Newest(ns)
      StayAt(f, next) == flags' = f /\ ptr' = next /\ top' = v /\ nodes' = ns
  IN  CASE type = "object" -> StayAt(fl, ptr + 1) /\ UNCHANGED <<string_length, num_digits>>
        [] type = "array"  -> StayAt(flags, ptr + 1) /\ UNCHANGED <<string_length, num_digits>>
        [] type = "string" -> /\ StayAt(fl \cup {"string"}, ptr + 1)
                              /\ string_length' = 0 /\ UNCHANGED num_digits
        [] type = "word"   -> /\ flag_next(ns, v, fl, ptr + 1)
                              /\ UNCHANGED <<string_length, num_digits>>
        [] type = "integer" /\ first_pass ->
             /\ StayAt(fl \ NumberFlags, IF b = "-" THEN ptr + 1 ELSE ptr)
             /\ num_digits' = 0 /\ UNCHANGED string_length
        [] OTHER -> /\ flag_next(ns, v, fl, BehindNumber)
                    /\ UNCHANGED <<string_length, num_digits>>

Open ==
  /\ {"need_comma", "need_colon"} \cap flags = {}
  /\ b \notin {" ", "]"}
  /\ IF b \notin DOMAIN TypeOf THEN Fail
     ELSE IF NoValueLeft THEN Crash
     ELSE \E ok \in AllocOutcomes :
            /\ new_value(TypeOf[b], ok)
            /\ IF ok THEN Opened(TypeOf[b], Created(TypeOf[b])) /\ Continues
               ELSE AllocFailure

SeekValue ==
  /\ "seek_value" \in flags /\ {"string", "done"} \cap flags = {}
  /\ \/ b = " " /\ Plain(On(flags))
     \/ CloseArray
     \/ Separator
     \/ Open

-----------------------------------------------------------------------------
(* Within an object and within a number. *)

Inside(types) ==
  /\ {"string", "done", "seek_value"} \cap flags = {}
  /\ nodes[top].type \in types

MemberMayFollow_Unseparated == TRUE

MemberMayFollow == "need_comma" \notin flags

ObjectChar ==
  /\ Inside({"object"})
  /\ \/ b = " " /\ Plain(On(flags))
     \/ /\ b = "quote"
        /\ IF MemberMayFollow
           THEN /\ On(flags \cup {"string"})
                /\ string_length' = 0
                /\ NoAllocation /\ Continues /\ UNCHANGED num_digits
           ELSE Fail
     \/ b = "}" /\ Plain(flag_next(nodes, top, flags \ {"need_comma"}, ptr + 1))
     \/ /\ b = ","
        /\ IF "need_comma" \in flags THEN Plain(On(flags \ {"need_comma"})) ELSE Fail
     \/ b \notin {" ", "quote", "}", ","} /\ Fail

AfterOverflow_Integer == nodes

(* An integer that overflows becomes a double, and its last digit is read  *)
(* again.                                                                  *)
AfterOverflow == [nodes EXCEPT ![top].type = "double"]

NumberStep(fl, digits, next, ns) ==
  /\ flags' = fl /\ num_digits' = digits /\ ptr' = next /\ nodes' = ns
  /\ NoAllocation /\ Continues /\ UNCHANGED <<top, string_length>>

Digit ==
  LET e == "num_e" \in flags
      n == num_digits + 1
      zero == {f \in {"num_zero"} : n = 1 /\ b = "0"}
  IN  IF nodes[top].type = "double" /\ ~e THEN NumberStep(flags, n, ptr + 1, nodes)
      ELSE IF e THEN NumberStep(flags \cup {"num_e_got_sign"}, n, ptr + 1, nodes)
      ELSE IF "num_zero" \in flags THEN Fail
      ELSE IF n > MaxDigits THEN NumberStep(flags \cup zero, num_digits, ptr, AfterOverflow)
      ELSE NumberStep(flags \cup zero, n, ptr + 1, nodes)

NumberEnds ==
  /\ flag_next(nodes, top, flags, ptr)
  /\ NoAllocation /\ Continues /\ UNCHANGED <<string_length, num_digits>>

NumberChar ==
  /\ Inside({"integer", "double"})
  /\ LET e == "num_e" \in flags
         double == nodes[top].type = "double"
         asDouble == [nodes EXCEPT ![top].type = "double"]
     IN  IF b \in Digits THEN Digit
         ELSE IF b \in {"+", "-"} /\ e /\ "num_e_got_sign" \notin flags
         THEN NumberStep(flags \cup {"num_e_got_sign"}, num_digits, ptr + 1, nodes)
         ELSE IF b = "." /\ ~double
         THEN IF num_digits = 0 THEN Fail ELSE NumberStep(flags, 0, ptr + 1, asDouble)
         ELSE IF num_digits = 0 /\ (e \/ double) THEN Fail
         ELSE IF b = "e" /\ ~e
         THEN NumberStep((flags \cup {"num_e"}) \ {"num_zero"}, 0, ptr + 1, asDouble)
         ELSE NumberEnds

json_parse_ex ==
  /\ Reading
  /\ \/ Done
     \/ /\ StringChar \/ SeekValue \/ ObjectChar \/ NumberChar
        /\ UNCHANGED first_pass
  /\ UNCHANGED <<readVars, value>>

-----------------------------------------------------------------------------
(* Giving memory back. *)

(* The first of the values the pass has not come to: in the first pass, of *)
(* all.                                                                    *)
Unreached == IF first_pass THEN root ELSE alloc

(* The values not reached are freed along their chain, then the tree.      *)
e_failed ==
  /\ phase = "failing"
  /\ LET chain == IF Unreached = None THEN {} ELSE Unreached .. Len(nodes)
     IN  live' = live \ {<<"value", i>> : i \in chain}
  /\ IF first_pass \/ root = None
     THEN phase' = "rejected" /\ UNCHANGED value
     ELSE phase' = "freeing" /\ value' = root
  /\ UNCHANGED <<readVars, passVars, top, root, alloc, nodes, outcome, alloc_failures>>

(* read_json_conf's caller has copied what it wants. *)
json_value_free ==
  /\ phase = "parsed"
  /\ phase' = "freeing" /\ value' = root
  /\ UNCHANGED <<readVars, passVars, treeVars, outcome, alloc_failures>>

Blocks_ValueOnly(v) == {<<"value", v>>}

Blocks(v) == {<<"value", v>>} \cup {x \in {<<"values", v>>} : nodes[v].allocated}

json_value_free_ex ==
  /\ phase = "freeing"
  /\ LET n == nodes[value]
         descend == n.type \in {"array", "object"} /\ n.length > 0
     IN  \/ /\ descend /\ n.allocated
            /\ nodes' = [nodes EXCEPT ![value].length = @ - 1]
            /\ value' = n.values[n.length]
            /\ UNCHANGED <<live, phase>>
         \/ /\ ~descend /\ Blocks(value) \subseteq live
            /\ live' = live \ Blocks(value)
            /\ value' = IF value = root THEN None ELSE n.parent
            /\ phase' = IF value = root THEN "freed" ELSE phase
            /\ UNCHANGED nodes
         \/ /\ IF descend THEN ~n.allocated ELSE ~(Blocks(value) \subseteq live)
            /\ phase' = "crashed"
            /\ UNCHANGED <<nodes, live, value>>
  /\ UNCHANGED <<readVars, passVars, top, root, alloc, outcome, alloc_failures>>

-----------------------------------------------------------------------------
Step == json_parse_ex \/ e_failed \/ json_value_free \/ json_value_free_ex

Next ==
  \/ \E c \in Chars : Supply(c)
  \/ End
  \/ Step

Spec == Init /\ [][Next]_vars

(* The thread that parses runs, and the text ends. *)
FairSpec == Spec /\ WF_vars(Next)

-----------------------------------------------------------------------------
(* The second pass stays within what the first has counted: no value gets  *)
(* more children, no string more characters, and no object more bytes of   *)
(* names than were allocated for it, terminators included; and a value     *)
(* without memory of its own is left empty.                                *)
SecondPassFits ==
  ~first_pass =>
    /\ \A v \in live : v[1] = "values" =>
         LET n == nodes[v[2]]
         IN  CASE n.type = "string" -> n.length < n.room
               [] OTHER -> n.length <= n.room /\ n.name_bytes <= n.name_room
    /\ phase = "parsing" /\ "string" \in flags =>
         LET n == nodes[top]
         IN  /\ n.allocated
             /\ CASE n.type = "string" -> string_length < n.room
                  [] OTHER -> n.name_bytes + string_length < n.name_room
    /\ phase = "parsed" =>
         \A v \in 1 .. Len(nodes) : ~nodes[v].allocated /\ nodes[v].type # "string" =>
           nodes[v].length = 0 /\ nodes[v].name_bytes = 0

(* The passes take the same way through the text, although the second does *)
(* not look into numbers: what the first accepts the second accepts, and   *)
(* it needs the values the first has created, all of them and no more.     *)
PassesAgree ==
  /\ outcome = "text" => first_pass
  /\ phase = "crashed" => outcome # "none"
  /\ ~first_pass /\ phase = "parsing" /\ "done" \in flags => alloc = None

(* Nothing stays allocated: neither when a text is turned down nor when    *)
(* the caller frees the tree.  The code keeps this only until memory runs  *)
(* out in the second pass; when it does for what the root value holds, the *)
(* tree is freed as if that had been there, the only way to crash.         *)
AllFreed ==
  /\ phase \in {"freed", "rejected"} =>
       live = {} \/ (outcome = "memory" /\ ~first_pass)
  /\ phase = "crashed" =>
       /\ outcome = "memory" /\ ~first_pass
       /\ value = root /\ ~nodes[root].allocated
=============================================================================
