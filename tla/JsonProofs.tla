----------------------------- MODULE JsonProofs -----------------------------
(***************************************************************************)
(* Proofs about JsonParser, for any characters and texts.                  *)
(*                                                                         *)
(* The second pass of the parser goes the way of the first.  The way is a  *)
(* function from places in the text to states: from a place where the      *)
(* first pass looked for something new, one iteration (Iteration) leads to *)
(* the state at the next such place; a number is one iteration.  What is   *)
(* counted in a value only grows along the way, so what the first pass has *)
(* counted in the end bounds what the second meets.                        *)
(*                                                                         *)
(* When the tree is freed, the loop of json_value_free_ex is at the end of *)
(* a path of open values from the root (Walking), and whatever is still    *)
(* allocated hangs below a value of that path (Reached).                   *)
(*                                                                         *)
(* Both come to an end: each step lowers a variant (Progress).             *)
(***************************************************************************)
EXTENDS JsonParser, FiniteSetTheorems, WellFoundedInduction, TLAPS

-----------------------------------------------------------------------------
(* States.  Of a value: what it is (an integer may still become a double), *)
(* what it belongs to and what is counted in it.  open are the values that *)
(* have begun and not ended.                                               *)

Kind(type) == IF type \in {"integer", "double"} THEN "number" ELSE type

Cell(n) ==
  [kind |-> Kind(n.type), parent |-> n.parent, length |-> n.length, bytes |-> n.name_bytes]

NewCell(kind, parent) == [kind |-> kind, parent |-> parent, length |-> 0, bytes |-> 0]

State(fl, t, size, open, seen, cells) ==
  [flags |-> fl, top |-> t, size |-> size, open |-> open, seen |-> seen, cells |-> cells]

Flagged(s, fl, size) == State(fl, s.top, size, s.open, s.seen, s.cells)

StartState == State({"seek_value"}, None, 0, {}, 0, <<>>)

Extended(s, kind) ==
  [v \in 1 .. s.seen + 1 |-> IF v = s.seen + 1 THEN NewCell(kind, s.top) ELSE s.cells[v]]

-----------------------------------------------------------------------------
(* One iteration of json_parse_ex at a character c.                        *)

(* flag_next *)
Told(fl, open, seen, cells, v) ==
  LET p == cells[v].parent
  IN  IF p = None
      THEN State(fl \cup {"need_comma", "done"}, v, 0, open \ {v}, seen, cells)
      ELSE State(fl \cup {"need_comma"}
                    \cup (IF cells[p].kind = "array" THEN {"seek_value"} ELSE {}),
                 p, 0, open \ {v}, seen, [cells EXCEPT ![p].length = @ + 1])

InString(s, c) ==
  IF "escaped" \in s.flags
  THEN Flagged(s, s.flags \ {"escaped"}, s.size + (IF c = "uXXXX" THEN 3 ELSE 1))
  ELSE IF c = "backslash" THEN Flagged(s, s.flags \cup {"escaped"}, s.size)
  ELSE IF c # "quote" THEN Flagged(s, s.flags, s.size + 1)
  ELSE IF s.cells[s.top].kind = "string"
  THEN Told(s.flags \ {"string"}, s.open, s.seen,
            [s.cells EXCEPT ![s.top].length = s.size], s.top)
  ELSE State((s.flags \ {"string"}) \cup {"seek_value", "need_colon"}, s.top, 0, s.open,
             s.seen, [s.cells EXCEPT ![s.top].bytes = @ + s.size + 1])

Opening(s, kind) ==
  LET v  == s.seen + 1
      fl == s.flags \ {"seek_value"}
      cs == Extended(s, kind)
  IN  IF kind \in {"word", "number"} THEN Told(fl, s.open, v, cs, v)
      ELSE State(CASE kind = "object" -> fl
                   [] kind = "array" -> s.flags
                   [] OTHER -> fl \cup {"string"},
                 v, 0, s.open \cup {v}, v, cs)

Seeking(s, c) ==
  IF c = " " THEN s
  ELSE IF c = "]"
  THEN Told(s.flags \ {"need_comma", "seek_value"}, s.open, s.seen, s.cells, s.top)
  ELSE IF "need_comma" \in s.flags THEN Flagged(s, s.flags \ {"need_comma"}, 0)
  ELSE IF "need_colon" \in s.flags THEN Flagged(s, s.flags \ {"need_colon"}, 0)
  ELSE Opening(s, Kind(TypeOf[c]))

InObject(s, c) ==
  IF c = " " THEN s
  ELSE IF c = "," THEN Flagged(s, s.flags \ {"need_comma"}, 0)
  ELSE IF c = "quote" THEN Flagged(s, s.flags \cup {"string"}, 0)
  ELSE Told(s.flags \ {"need_comma"}, s.open, s.seen, s.cells, s.top)

Iteration(s, c) ==
  IF "string" \in s.flags THEN InString(s, c)
  ELSE IF "done" \in s.flags THEN s
  ELSE IF "seek_value" \in s.flags THEN Seeking(s, c)
  ELSE InObject(s, c)

(* The characters a state does not take. *)
Refuses(s, c) ==
  IF "string" \in s.flags THEN c = "eof" \/ ("escaped" \in s.flags /\ c = "u?")
  ELSE IF "done" \in s.flags THEN c # " "
  ELSE IF "seek_value" \in s.flags
  THEN IF c = " " THEN FALSE
       ELSE IF c = "]" THEN s.top = None \/ s.cells[s.top].kind # "array"
       ELSE IF "need_comma" \in s.flags THEN c # ","
       ELSE IF "need_colon" \in s.flags THEN c # ":"
       ELSE c \notin DOMAIN TypeOf
  ELSE IF "need_comma" \in s.flags THEN c \notin {" ", "}", ","}
  ELSE c \notin {" ", "}", "quote"}

(* Whether a value begins with c. *)
Opens(s, c) ==
  /\ "seek_value" \in s.flags /\ {"string", "done", "need_comma", "need_colon"} \cap s.flags = {}
  /\ c \in DOMAIN TypeOf

OpensNumber(s, c) == Opens(s, c) /\ c \in Digits \cup {"-"}

-----------------------------------------------------------------------------
(* What is true of all states on the way. *)

PlainFlags == {"seek_value", "need_comma", "need_colon", "done", "string", "escaped"}

CellType ==
  [kind : {"object", "array", "string", "word", "number"}, parent : Nat, length : Nat,
   bytes : Nat]

CellOK(cells, v) ==
  LET c == cells[v] IN
  /\ c.parent \in 0 .. v - 1
  /\ c.parent = None <=> v = 1
  /\ c.parent # None => cells[c.parent].kind \in {"object", "array"}
  /\ c.kind \in {"word", "number"} => c.length = 0
  /\ c.bytes > 0 => c.kind = "object"

(* A name has been read, and no value yet. *)
Pending(c) == c.bytes > 0 /\ c.length = 0

(* The open values are the way from the root to top. *)
Path(open, cells, t) ==
  /\ open \subseteq 1 .. t
  /\ \A w \in open : cells[w].parent = None \/ cells[w].parent \in open
  /\ \A v, w \in open : v < w => v <= cells[w].parent

IsState(s) == s = State(s.flags, s.top, s.size, s.open, s.seen, s.cells)

CellsOK(s) ==
  /\ s.seen \in Nat /\ s.top \in 0 .. s.seen /\ s.size \in Nat
  /\ s.cells \in [1 .. s.seen -> CellType]
  /\ \A v \in 1 .. s.seen : CellOK(s.cells, v)
  /\ \A v \in 1 .. s.seen :
       Pending(s.cells[v]) => v \in s.open /\ (v = s.top => "seek_value" \in s.flags)
  /\ Path(s.open, s.cells, s.top)

FlagsOK(s) ==
  /\ s.flags \subseteq PlainFlags
  /\ s.top = None => s.seen = 0 /\ s.flags = {"seek_value"}
  /\ "done" \in s.flags => s.open = {} /\ "string" \notin s.flags
  /\ s.top # None /\ "done" \notin s.flags => s.top \in s.open
  /\ LET kind == s.cells[s.top].kind
     IN  /\ "string" \in s.flags =>
              /\ "seek_value" \notin s.flags
              /\ kind \in {"string", "object"}
              /\ kind = "string" => s.cells[s.top].length = 0
         /\ s.top # None /\ {"string", "done"} \cap s.flags = {} =>
              /\ kind \in {"object", "array"}
              /\ "seek_value" \notin s.flags => kind = "object"

WellShaped(s) == IsState(s) /\ CellsOK(s) /\ FlagsOK(s)

(* What is counted so far in a value, the string being read included. *)
Length(s, v) ==
  s.cells[v].length +
    (IF "string" \in s.flags /\ s.top = v /\ s.cells[v].kind = "string" THEN s.size ELSE 0)

Bytes(s, v) ==
  s.cells[v].bytes +
    (IF "string" \in s.flags /\ s.top = v /\ s.cells[v].kind = "object" THEN s.size + 1 ELSE 0)

(* State s comes before state t. *)
Before(s, t) ==
  /\ s.seen <= t.seen
  /\ \A v \in 1 .. s.seen :
       /\ s.cells[v].kind = t.cells[v].kind /\ s.cells[v].parent = t.cells[v].parent
       /\ Length(s, v) <= Length(t, v) /\ Bytes(s, v) <= Bytes(t, v)
  /\ "done" \in s.flags => "done" \in t.flags /\ s.seen = t.seen

-----------------------------------------------------------------------------
(* The way. *)

NumberAt(p, q) ==
  /\ \A i \in p .. q - 1 : text[i] \in NumberChars
  /\ IF q <= Len(text) THEN text[q] \notin NumberChars ELSE q = Len(text) + 1 /\ more = 0

Leads(s, t, p, q) ==
  /\ p < q /\ p <= Len(text)
  /\ ~Refuses(s, text[p])
  /\ t = Iteration(s, text[p])
  /\ IF OpensNumber(s, text[p]) THEN NumberAt(p, q) ELSE q = p + 1

(* The places D of a way up to e, and the states H there. *)
Way(D, H, e) ==
  /\ D \subseteq 1 .. e /\ 1 \in D /\ e \in D
  /\ H[1] = StartState
  /\ \A p \in D :
       /\ WellShaped(H[p])
       /\ Before(H[p], H[e])
       /\ p # e => \E q \in D : Leads(H[p], H[q], p, q)

(* The parser is in state s. *)
Seen == IF first_pass \/ alloc = None THEN Len(nodes) ELSE alloc - 1

InState(s) ==
  /\ s.flags = flags \ NumberFlags
  /\ s.top = top
  /\ "string" \in flags => s.size = string_length
  /\ s.seen = Seen
  /\ \A v \in 1 .. s.seen : s.cells[v] = Cell(nodes[v])

(* It is in a number that began in state s at place p. *)
InNumber(s, p) ==
  /\ p <= Len(text) /\ OpensNumber(s, text[p]) 
  /\ s.flags \ {"seek_value"} = flags \ NumberFlags
  /\ Len(nodes) = s.seen + 1 /\ top = Len(nodes)
  /\ \A v \in 1 .. s.seen : s.cells[v] = Cell(nodes[v])
  /\ Cell(nodes[top]) = NewCell("number", s.top)
  /\ ptr >= p
  /\ \A i \in p .. ptr - 1 : text[i] \in NumberChars
  /\ ptr = p => text[p] \in Digits /\ "num_e" \notin flags

(* It will turn the text down. *)
Doomed ==
  /\ "need_comma" \in flags /\ "string" \notin flags
  /\ ptr <= Len(text) /\ text[ptr] \in NumberChars
  /\ {"done", "seek_value"} \cap flags = {} => nodes[top].type = "object"

-----------------------------------------------------------------------------
(* Memory. *)

NodeType ==
  [type : {"object", "array", "string", "word", "integer", "double"}, parent : Nat,
   length : Nat, name_bytes : Nat, allocated : BOOLEAN, room : Nat, name_room : Nat,
   values : Seq(Nat), names : Seq(Nat)]

Types ==
  /\ text \in Seq(Chars) /\ more \in Nat /\ first_pass \in BOOLEAN /\ ptr \in Nat
  /\ flags \subseteq PlainFlags \cup NumberFlags
  /\ nodes \in Seq(NodeType)
  /\ string_length \in Nat /\ num_digits \in Nat
  /\ root \in Nat /\ alloc \in Nat

(* The first pass allocates values and nothing for them. *)
Fresh ==
  /\ live = {<<"value", v>> : v \in 1 .. Len(nodes)}
  /\ root = IF nodes = <<>> THEN None ELSE 1
  /\ \A v \in 1 .. Len(nodes) : ~nodes[v].allocated /\ nodes[v].values = <<>>

NeedsMemory(c) == c.kind = "string" \/ (c.kind \in {"array", "object"} /\ c.length > 0)

(* The second pass has got memory for the values it has seen, as much as   *)
(* they hold in z, the last state of the first pass.                       *)
Memory(n, z) ==
  /\ Len(nodes) = z.seen
  /\ \A v \in 1 .. Len(nodes) :
       IF v <= n
       THEN /\ nodes[v].allocated <=> NeedsMemory(z.cells[v])
            /\ nodes[v].allocated =>
                 /\ nodes[v].room = z.cells[v].length
                      + (IF z.cells[v].kind = "string" THEN 1 ELSE 0)
                 /\ nodes[v].name_room = z.cells[v].bytes
       ELSE Cell(nodes[v]) = z.cells[v] /\ ~nodes[v].allocated /\ nodes[v].values = <<>>

Lives(n) ==
  live = {<<"value", v>> : v \in 1 .. Len(nodes)}
           \cup {<<"values", v>> : v \in {w \in 1 .. n : nodes[w].allocated}}

(* The first n values ns list what they hold, but for what is still open.  *)
Lists(ns, n, open) ==
  \A v \in 1 .. n :
    LET vs == ns[v].values IN
    /\ Len(vs) = IF ns[v].type \in {"array", "object"} THEN ns[v].length ELSE 0
    /\ \A i \in 1 .. Len(vs) : vs[i] \in 1 .. n /\ vs[i] \notin open /\ ns[vs[i]].parent = v
    /\ \A i, j \in 1 .. Len(vs) : vs[i] = vs[j] => i = j
    /\ v # 1 /\ v \notin open =>
         \E i \in 1 .. Len(ns[ns[v].parent].values) : ns[ns[v].parent].values[i] = v

Listed(n, open) == Lists(nodes, n, open)

Tree(ns, n) ==
  \A v \in 1 .. n : IF v = 1 THEN ns[v].parent = None ELSE ns[v].parent \in 1 .. v - 1

Parents(n) == Tree(nodes, n)

Holder(v) == nodes[v].type \in {"array", "object"}

(* What v lists is allocated and, if v still is, not freed. *)
Keeps(v, k, Q) ==
  LET vs == nodes[v].values IN
  /\ nodes[v].length <= Len(vs)
  /\ nodes[v].length > 0 => nodes[v].allocated
  /\ \A i \in 1 .. Len(vs) : vs[i] \in 1 .. k /\ nodes[vs[i]].parent = v
  /\ \A i, j \in 1 .. Len(vs) : vs[i] = vs[j] => i = j
  /\ <<"value", v>> \in live =>
       \A i \in 1 .. nodes[v].length : Blocks(vs[i]) \subseteq live /\ vs[i] \notin Q

(* json_value_free_ex has gone down the path Q of the first k values, all  *)
(* that belong to the tree.                                                *)
Walking(k, Q) ==
  /\ root = 1 /\ k \in 1 .. Len(nodes) /\ Parents(k)
  /\ \A v \in 1 .. k : Holder(v) => Keeps(v, k, Q)
  /\ value \in Q /\ Q \subseteq 1 .. value /\ value \in 1 .. k
  /\ \A w \in Q : w = 1 \/ nodes[w].parent \in Q
  /\ \A v, w \in Q : v < w => v <= nodes[w].parent
  /\ \A w \in Q : Blocks(w) \subseteq live

(* A value that is not on the path and not freed is in the list of one     *)
(* that is not freed either.                                               *)
Hangs(v, Q) ==
  LET p == nodes[v].parent IN
  v = 1 \/ v \in Q
    \/ /\ <<"value", p>> \in live /\ Holder(p)
       /\ \E i \in 1 .. nodes[p].length : nodes[p].values[i] = v

(* All that is left can still be reached. *)
Reached(k, Q) ==
  /\ k = Len(nodes)
  /\ \A x \in live :
       \E v \in 1 .. k : x \in Blocks(v) /\ <<"value", v>> \in live /\ Hangs(v, Q)

RoomFits ==
  \A v \in live : v[1] = "values" =>
    LET n == nodes[v[2]]
    IN  v[2] \in 1 .. Len(nodes) /\
        CASE n.type = "string" -> n.length < n.room
          [] OTHER -> n.length <= n.room /\ n.name_bytes <= n.name_room

(* Memory has run out for value k + 1. *)
Failed(k) ==
  /\ outcome = "memory" /\ k \in 0 .. Len(nodes) - 1
  /\ root = 1 /\ alloc = (IF k + 1 < Len(nodes) THEN k + 2 ELSE None)
  /\ Parents(k) /\ Lives(k)
  /\ ~nodes[k + 1].allocated
  /\ \E open \in SUBSET (1 .. k) : Listed(k, open)
  /\ \A v \in 1 .. k : Holder(v) /\ nodes[v].length > 0 => nodes[v].allocated

-----------------------------------------------------------------------------
(* Iterations keep states well-shaped, and go forward.                     *)

LEMMA StateParts ==
  ASSUME NEW fl, NEW t, NEW size, NEW open, NEW n, NEW cells
  PROVE  LET s == State(fl, t, size, open, n, cells)
         IN  /\ s.flags = fl /\ s.top = t /\ s.size = size /\ s.open = open
             /\ s.seen = n /\ s.cells = cells
             /\ IsState(s)
  BY DEF State, IsState

(* What is left open when v, which ends the path, is closed. *)
Closes(open, cells, v) ==
  IF cells[v].parent = None THEN open \ {v} = {}
  ELSE cells[v].parent \in open /\ Path(open \ {v}, cells, cells[v].parent)

LEMMA ToldShaped ==
  ASSUME NEW fl \in SUBSET {"need_comma", "need_colon", "escaped"}, NEW open, NEW n \in Nat,
         NEW cells \in [1 .. n -> CellType], NEW v \in 1 .. n,
         \A u \in 1 .. n : CellOK(cells, u) /\ (Pending(cells[u]) => u \in open \ {v}),
         Closes(open, cells, v)
  PROVE  WellShaped(Told(fl, open, n, cells, v))
<1> DEFINE p == cells[v].parent
           s == Told(fl, open, n, cells, v)
<1>1. p \in 0 .. v - 1 /\ (p = None => v = 1)
  BY DEF CellOK
<1>2. CASE p = None
  <2>0. open \ {v} = {}
    BY <1>2 DEF Closes
  <2>1. s = State(fl \cup {"need_comma", "done"}, v, 0, open \ {v}, n, cells)
    BY <1>2 DEF Told
  <2>2. Path({}, cells, v)
    BY DEF Path
  <2> HIDE DEF s
  <2>3. /\ s.flags = fl \cup {"need_comma", "done"} /\ s.top = v /\ s.size = 0
        /\ s.open = {} /\ s.seen = n /\ s.cells = cells
        /\ IsState(s)
    BY <2>0, <2>1, StateParts
  <2>4. \A u \in 1 .. n : CellOK(cells, u) /\ ~Pending(cells[u])
    BY <2>0
  <2>5. s.flags \subseteq PlainFlags /\ "string" \notin s.flags /\ "done" \in s.flags
    BY <2>3 DEF PlainFlags
  <2>6. CellsOK(s)
    BY <2>2, <2>3, <2>4 DEF CellsOK
  <2>7. FlagsOK(s)
    BY <2>3, <2>5 DEF FlagsOK, None
  <2> QED
    BY <2>3, <2>6, <2>7 DEF WellShaped, s
<1>3. CASE p # None
  <2> DEFINE new == [cells EXCEPT ![p].length = @ + 1]
             more_flags == fl \cup {"need_comma"}
                             \cup (IF cells[p].kind = "array" THEN {"seek_value"} ELSE {})
  <2>1. s = State(more_flags, p, 0, open \ {v}, n, new)
    BY <1>3 DEF Told
  <2>2. p \in 1 .. n /\ p \in open \ {v} /\ Path(open \ {v}, cells, p)
    BY <1>1, <1>3 DEF None, Closes
  <2> DEFINE longer == [cells[p] EXCEPT !.length = @ + 1]
  <2>x1. \A u \in 1 .. n : cells[u] \in CellType /\ cells[u].length \in Nat
    BY DEF CellType
  <2>x2. cells[p] \in CellType /\ cells[p].length + 1 \in Nat
    BY <2>2, <2>x1
  <2>x3. /\ longer \in CellType /\ longer.length = cells[p].length + 1
        /\ longer.kind = cells[p].kind /\ longer.parent = cells[p].parent
        /\ longer.bytes = cells[p].bytes
    BY <2>x2 DEF CellType
  <2>x4. new = [cells EXCEPT ![p] = longer]
    OBVIOUS
  <2> HIDE DEF longer, new
  <2>x5. new \in [1 .. n -> CellType] /\ new[p] = longer
    BY <2>2, <2>x3, <2>x4
  <2>x6. \A u \in 1 .. n : u # p => new[u] = cells[u]
    BY <2>x4
  <2>3. /\ cells[p] \in CellType /\ new \in [1 .. n -> CellType]
        /\ new[p].length = cells[p].length + 1
        /\ \A u \in 1 .. n : /\ new[u].kind = cells[u].kind /\ new[u].parent = cells[u].parent
                             /\ new[u].bytes = cells[u].bytes
                             /\ u # p => new[u].length = cells[u].length
                             /\ cells[u].length \in Nat
    BY <2>x1, <2>x2, <2>x3, <2>x5, <2>x6
  <2>4. cells[p].kind \in {"object", "array"}
    BY <1>3 DEF CellOK
  <2> HIDE DEF new
  <2>5. \A u \in 1 .. n : CellOK(new, u)
    <3> SUFFICES ASSUME NEW u \in 1 .. n PROVE CellOK(new, u)
      OBVIOUS
    <3>1. CellOK(cells, u)
      OBVIOUS
    <3>2. u = p => cells[u].kind \notin {"word", "number"}
      BY <2>4
    <3>3. cells[u].parent # None => cells[u].parent \in 1 .. n
      BY <3>1 DEF CellOK, None
    <3>4. /\ new[u].kind = cells[u].kind /\ new[u].parent = cells[u].parent
          /\ new[u].bytes = cells[u].bytes /\ (u # p => new[u].length = cells[u].length)
      BY <2>3
    <3>5. cells[u].parent # None => new[cells[u].parent].kind = cells[cells[u].parent].kind
      BY <2>3, <3>3
    <3> QED
      BY <3>1, <3>2, <3>4, <3>5 DEF CellOK
  <2>6. \A u \in 1 .. n : Pending(new[u]) => u \in open \ {v} /\ u # p
    BY <2>2, <2>3, SMTT(30) DEF Pending
  <2>7. Path(open \ {v}, new, p)
    <3>1. open \ {v} \subseteq 1 .. n
      BY <2>2 DEF Path
    <3> QED
      BY <2>2, <2>3, <3>1 DEF Path
  <2>8. /\ more_flags \subseteq PlainFlags /\ {"string", "done"} \cap more_flags = {}
        /\ "seek_value" \notin more_flags => cells[p].kind # "array"
    BY DEF PlainFlags
  <2> HIDE DEF more_flags, s
  <2>9. /\ s.flags = more_flags /\ s.top = p /\ s.size = 0
        /\ s.open = open \ {v} /\ s.seen = n /\ s.cells = new
        /\ IsState(s)
    BY <2>1, StateParts
  <2>10. new[p].kind \in {"object", "array"} /\ new[p].kind = cells[p].kind
    BY <2>2, <2>3, <2>4
  <2>11. CellsOK(s)
    BY <2>2, <2>3, <2>5, <2>6, <2>7, <2>9 DEF CellsOK
  <2>12. FlagsOK(s)
    BY <2>2, <2>8, <2>9, <2>10 DEF FlagsOK, None
  <2> QED
    BY <2>9, <2>11, <2>12 DEF WellShaped, s
<1> QED
  BY <1>2, <1>3

(* What is counted in cells is at least what is counted in s. *)
Grown(s, cells) ==
  \A u \in 1 .. s.seen :
    /\ s.cells[u].kind = cells[u].kind /\ s.cells[u].parent = cells[u].parent
    /\ Length(s, u) \in Int /\ Bytes(s, u) \in Int
    /\ Length(s, u) <= cells[u].length /\ Bytes(s, u) <= cells[u].bytes

LEMMA ToldAfter ==
  ASSUME NEW s, "done" \notin s.flags, s.seen \in Nat,
         NEW fl \in SUBSET {"need_comma", "need_colon", "escaped"}, NEW open, NEW n \in Nat,
         s.seen <= n, NEW cells \in [1 .. n -> CellType], NEW v \in 1 .. n,
         cells[v].parent \in 0 .. v - 1,
         Grown(s, cells)
  PROVE  Before(s, Told(fl, open, n, cells, v))
<1> DEFINE t == Told(fl, open, n, cells, v)
           p == cells[v].parent
<1>1. \A u \in 1 .. n : cells[u] \in CellType /\ cells[u].length \in Nat /\ cells[u].bytes \in Nat
  BY DEF CellType
<1>2. /\ t.seen = n /\ "string" \notin t.flags
      /\ \A u \in 1 .. n : /\ t.cells[u].kind = cells[u].kind /\ t.cells[u].parent = cells[u].parent
                           /\ t.cells[u].bytes = cells[u].bytes
                           /\ t.cells[u].length \in {cells[u].length, cells[u].length + 1}
  <2>1. CASE p = None
    BY <2>1 DEF Told, State
  <2>2. CASE p # None
    <3>1. p \in 1 .. n
      BY <2>2 DEF None
    <3> DEFINE new == [cells EXCEPT ![p].length = @ + 1]
    <3>2. \A u \in 1 .. n : /\ new[u].kind = cells[u].kind /\ new[u].parent = cells[u].parent
                            /\ new[u].bytes = cells[u].bytes
                            /\ new[u].length \in {cells[u].length, cells[u].length + 1}
      BY <3>1, <1>1 DEF CellType
    <3>3. t.seen = n /\ "string" \notin t.flags /\ t.cells = new
      BY <2>2 DEF Told, State
    <3> QED
      BY <3>2, <3>3
  <2> QED
    BY <2>1, <2>2
<1> HIDE DEF t
<1>3. \A u \in 1 .. n : Length(t, u) = t.cells[u].length /\ Bytes(t, u) = t.cells[u].bytes
  <2> SUFFICES ASSUME NEW u \in 1 .. n
               PROVE  Length(t, u) = t.cells[u].length /\ Bytes(t, u) = t.cells[u].bytes
    OBVIOUS
  <2>1. t.cells[u].length \in Nat /\ t.cells[u].bytes \in Nat
    <3>1. cells[u].length \in Nat /\ cells[u].bytes \in Nat
      BY <1>1
    <3>2. /\ t.cells[u].bytes = cells[u].bytes
          /\ t.cells[u].length \in {cells[u].length, cells[u].length + 1}
      BY <1>2
    <3> HIDE <1>1, <1>2
    <3> QED
      BY <3>1, <3>2
  <2> QED
    BY <1>2, <2>1 DEF Length, Bytes
<1>4. \A u \in 1 .. s.seen : Length(s, u) <= Length(t, u) /\ Bytes(s, u) <= Bytes(t, u)
  <2> SUFFICES ASSUME NEW u \in 1 .. s.seen
               PROVE  Length(s, u) <= Length(t, u) /\ Bytes(s, u) <= Bytes(t, u)
    OBVIOUS
  <2>1. u \in 1 .. n
    OBVIOUS
  <2>2. Length(s, u) \in Int /\ Bytes(s, u) \in Int
    BY DEF Grown
  <2>3. /\ Length(s, u) <= cells[u].length /\ Bytes(s, u) <= cells[u].bytes
        /\ cells[u].length \in Nat /\ cells[u].bytes \in Nat
    BY <1>1, <2>1 DEF Grown
  <2>4. /\ Length(t, u) \in {cells[u].length, cells[u].length + 1}
        /\ Bytes(t, u) = cells[u].bytes
    BY <1>2, <1>3, <2>1
  <2> QED
    BY <2>2, <2>3, <2>4
<1>5. \A u \in 1 .. s.seen : s.cells[u].kind = t.cells[u].kind /\ s.cells[u].parent = t.cells[u].parent
  BY <1>2 DEF Grown
<1> QED
  BY <1>2, <1>4, <1>5 DEF Before, t

LEMMA FlaggedGoesOn ==
  ASSUME NEW s, WellShaped(s), NEW fl, NEW size \in Nat, FlagsOK(Flagged(s, fl, size)),
         "seek_value" \in s.flags => "seek_value" \in fl,
         "string" \in s.flags => "string" \in fl /\ s.size <= size,
         "done" \in s.flags => "done" \in fl
  PROVE  WellShaped(Flagged(s, fl, size)) /\ Before(s, Flagged(s, fl, size))
<1> DEFINE t == Flagged(s, fl, size)
<1>1. /\ t.flags = fl /\ t.top = s.top /\ t.size = size /\ t.open = s.open
      /\ t.seen = s.seen /\ t.cells = s.cells /\ IsState(t)
  BY DEF Flagged, State, IsState
<1>2. CellsOK(s)
  BY DEF WellShaped
<1> HIDE DEF t
<1>3. CellsOK(t)
  BY <1>1, <1>2 DEF CellsOK
<1>4. s.seen \in Nat /\ s.size \in Nat
      /\ \A u \in 1 .. s.seen : s.cells[u].length \in Nat /\ s.cells[u].bytes \in Nat
  BY <1>2 DEF CellsOK, CellType
<1>5. \A u \in 1 .. s.seen : Length(s, u) <= Length(t, u) /\ Bytes(s, u) <= Bytes(t, u)
  <2> SUFFICES ASSUME NEW u \in 1 .. s.seen
               PROVE  Length(s, u) <= Length(t, u) /\ Bytes(s, u) <= Bytes(t, u)
    OBVIOUS
  <2>1. s.cells[u].length \in Nat /\ s.cells[u].bytes \in Nat
    BY <1>4
  <2> QED
    BY <1>1, <1>4, <2>1 DEF Length, Bytes
<1>6. Before(s, t)
  BY <1>1, <1>4, <1>5 DEF Before
<1> QED
  BY <1>1, <1>3, <1>6 DEF WellShaped, t

(* Closing top leaves its parent at the end of the path. *)
LEMMA PathCloses ==
  ASSUME NEW open, NEW cells, NEW new, NEW t \in Nat \ {0}, t \in open, Path(open, cells, t),
         \A w \in open : /\ cells[w].parent \in 0 .. w - 1
                         /\ cells[w].parent = None => w = 1
                         /\ new[w].parent = cells[w].parent
  PROVE  Closes(open, new, t)
<1> DEFINE p == cells[t].parent
<1>1. new[t].parent = p /\ p \in 0 .. t - 1 /\ open \subseteq 1 .. t
  BY DEF Path
<1>2. CASE p = None
  <2>1. t = 1
    BY <1>2
  <2>2. open \ {t} = {}
    BY <1>1, <2>1
  <2> QED
    BY <1>1, <1>2, <2>2 DEF Closes
<1>3. CASE p # None
  <2>1. p \in open
    BY <1>1, <1>3 DEF Path
  <2>2. open \ {t} \subseteq 1 .. p
    <3> SUFFICES ASSUME NEW w \in open, w # t PROVE w \in 1 .. p
      OBVIOUS
    <3>1. w \in Nat /\ w < t /\ w >= 1
      BY <1>1
    <3>2. w <= p
      BY <3>1 DEF Path
    <3> QED
      BY <1>1, <3>1, <3>2
  <2>3. \A w \in open \ {t} : new[w].parent = None \/ new[w].parent \in open \ {t}
    <3> SUFFICES ASSUME NEW w \in open, w # t, new[w].parent # None
                 PROVE  new[w].parent \in open /\ new[w].parent # t
      OBVIOUS
    <3>1. w \in 1 .. t /\ cells[w].parent \in 0 .. w - 1 /\ new[w].parent = cells[w].parent
      BY <1>1
    <3>2. cells[w].parent \in open
      BY <3>1 DEF Path
    <3> QED
      BY <3>1, <3>2
  <2>4. \A u, w \in open \ {t} : u < w => u <= new[w].parent
    BY DEF Path
  <2> QED
    BY <1>1, <1>3, <2>1, <2>2, <2>3, <2>4 DEF Path, Closes
<1> QED
  BY <1>2, <1>3

LEMMA ShapeFacts ==
  ASSUME NEW s, WellShaped(s)
  PROVE  /\ s.seen \in Nat /\ s.top \in 0 .. s.seen /\ s.size \in Nat
         /\ s.cells \in [1 .. s.seen -> CellType]
         /\ \A v \in 1 .. s.seen :
              /\ s.cells[v].length \in Nat /\ s.cells[v].bytes \in Nat
              /\ s.cells[v].parent \in 0 .. v - 1
              /\ s.cells[v].parent = None => v = 1
         /\ s.open \subseteq 1 .. s.seen
         /\ s.flags \subseteq PlainFlags
         /\ IsState(s)
<1>1. CellsOK(s) /\ FlagsOK(s) /\ IsState(s)
  BY DEF WellShaped
<1>2. \A v \in 1 .. s.seen : CellOK(s.cells, v)
  BY <1>1 DEF CellsOK
<1>3. /\ s.seen \in Nat /\ s.top \in 0 .. s.seen /\ s.size \in Nat
      /\ s.cells \in [1 .. s.seen -> CellType] /\ Path(s.open, s.cells, s.top)
  BY <1>1 DEF CellsOK
<1>4. s.open \subseteq 1 .. s.seen
  BY <1>3 DEF Path
<1>5. \A v \in 1 .. s.seen : s.cells[v].length \in Nat /\ s.cells[v].bytes \in Nat
  BY <1>3 DEF CellType
<1> QED
  BY <1>1, <1>2, <1>3, <1>4, <1>5 DEF CellOK, FlagsOK

LEMMA BeforeItself == ASSUME NEW s, WellShaped(s) PROVE Before(s, s)
<1>1. /\ s.seen \in Nat /\ s.size \in Nat
      /\ \A v \in 1 .. s.seen : s.cells[v].length \in Nat /\ s.cells[v].bytes \in Nat
  BY ShapeFacts
<1> QED
  BY <1>1 DEF Before, Length, Bytes

LEMMA BeforeBefore ==
  ASSUME NEW s, NEW t, NEW u, WellShaped(s), WellShaped(t), WellShaped(u),
         Before(s, t), Before(t, u)
  PROVE  Before(s, u)
<1>1. s.seen \in Nat /\ t.seen \in Nat /\ u.seen \in Nat /\ s.seen <= t.seen /\ t.seen <= u.seen
  BY ShapeFacts DEF Before
<1>2. ASSUME NEW v \in 1 .. s.seen
      PROVE  /\ Length(s, v) \in Nat /\ Length(t, v) \in Nat /\ Length(u, v) \in Nat
             /\ Bytes(s, v) \in Nat /\ Bytes(t, v) \in Nat /\ Bytes(u, v) \in Nat
  <2>1. v \in 1 .. t.seen /\ v \in 1 .. u.seen
    BY <1>1
  <2>2. /\ s.size \in Nat /\ s.cells[v].length \in Nat /\ s.cells[v].bytes \in Nat
        /\ t.size \in Nat /\ t.cells[v].length \in Nat /\ t.cells[v].bytes \in Nat
        /\ u.size \in Nat /\ u.cells[v].length \in Nat /\ u.cells[v].bytes \in Nat
    BY <2>1, ShapeFacts
  <2> QED
    BY <2>2 DEF Length, Bytes
<1>3. ASSUME NEW v \in 1 .. s.seen
      PROVE  /\ s.cells[v].kind = u.cells[v].kind /\ s.cells[v].parent = u.cells[v].parent
             /\ Length(s, v) <= Length(u, v) /\ Bytes(s, v) <= Bytes(u, v)
  <2>1. v \in 1 .. t.seen
    BY <1>1
  <2>2. /\ s.cells[v].kind = t.cells[v].kind /\ s.cells[v].parent = t.cells[v].parent
        /\ Length(s, v) <= Length(t, v) /\ Bytes(s, v) <= Bytes(t, v)
    BY DEF Before
  <2>3. /\ t.cells[v].kind = u.cells[v].kind /\ t.cells[v].parent = u.cells[v].parent
        /\ Length(t, v) <= Length(u, v) /\ Bytes(t, v) <= Bytes(u, v)
    BY <2>1 DEF Before
  <2> QED
    BY <1>2, <2>2, <2>3
<1> QED
  BY <1>1, <1>3 DEF Before

GoesOn(s, t) == WellShaped(t) /\ Before(s, t)

(* Only what is counted in top has changed, and it has not become less. *)
Counted(s, cells) ==
  \A u \in 1 .. s.seen :
    /\ cells[u].kind = s.cells[u].kind /\ cells[u].parent = s.cells[u].parent
    /\ u # s.top => cells[u].length = s.cells[u].length
    /\ cells[u].bytes = s.cells[u].bytes
    /\ Length(s, u) <= cells[u].length /\ Bytes(s, u) <= cells[u].bytes

(* What all cases of an iteration that closes top need. *)
LEMMA TopCloses ==
  ASSUME NEW s, WellShaped(s), s.top # None, s.top \in s.open, "done" \notin s.flags,
         NEW fl \in SUBSET {"need_comma", "need_colon", "escaped"},
         NEW cells \in [1 .. s.seen -> CellType],
         Counted(s, cells),
         cells[s.top].kind \notin {"word", "number"},
         ~Pending(cells[s.top])
  PROVE  GoesOn(s, Told(fl, s.open, s.seen, cells, s.top))
<1>1. CellsOK(s)
  BY DEF WellShaped
<1>2. /\ s.seen \in Nat /\ s.top \in 1 .. s.seen
      /\ \A u \in 1 .. s.seen :
           /\ s.cells[u].parent \in 0 .. u - 1 /\ (s.cells[u].parent = None => u = 1)
           /\ s.cells[u].length \in Nat /\ s.cells[u].bytes \in Nat
      /\ s.open \subseteq 1 .. s.seen /\ s.size \in Nat
  BY ShapeFacts DEF None
<1>3. \A u \in 1 .. s.seen : CellOK(cells, u)
  <2> SUFFICES ASSUME NEW u \in 1 .. s.seen PROVE CellOK(cells, u)
    OBVIOUS
  <2>1. CellOK(s.cells, u)
    BY <1>1 DEF CellsOK
  <2>2. /\ cells[u].kind = s.cells[u].kind /\ cells[u].parent = s.cells[u].parent
        /\ cells[u].bytes = s.cells[u].bytes
        /\ u # s.top => cells[u].length = s.cells[u].length
    BY DEF Counted
  <2>3. cells[u].parent # None => cells[cells[u].parent].kind = s.cells[cells[u].parent].kind
    <3>1. s.cells[u].parent # None => s.cells[u].parent \in 1 .. s.seen
      BY <1>2 DEF None
    <3> QED
      BY <2>2, <3>1 DEF Counted
  <2> QED
    BY <2>1, <2>2, <2>3 DEF CellOK
<1>4. \A u \in 1 .. s.seen : Pending(cells[u]) => u \in s.open \ {s.top}
  <2> SUFFICES ASSUME NEW u \in 1 .. s.seen, Pending(cells[u]) PROVE u \in s.open \ {s.top}
    OBVIOUS
  <2>1. u # s.top
    OBVIOUS
  <2>2. Pending(s.cells[u])
    BY <2>1 DEF Pending, Counted
  <2> QED
    BY <1>1, <2>1, <2>2 DEF CellsOK
<1>5. Path(s.open, s.cells, s.top)
  BY <1>1 DEF CellsOK
<1>6. Closes(s.open, cells, s.top)
  <2>1. \A w \in s.open : /\ s.cells[w].parent \in 0 .. w - 1
                          /\ s.cells[w].parent = None => w = 1
                          /\ cells[w].parent = s.cells[w].parent
    BY <1>2 DEF Counted
  <2>2. s.top \in Nat \ {0}
    BY <1>2
  <2> QED
    BY <1>5, <2>1, <2>2, PathCloses
<1>7. WellShaped(Told(fl, s.open, s.seen, cells, s.top))
  BY <1>2, <1>3, <1>4, <1>6, ToldShaped
<1>8. Grown(s, cells)
  <2>1. \A u \in 1 .. s.seen : Length(s, u) \in Int /\ Bytes(s, u) \in Int
    BY <1>2, SMTT(30) DEF Length, Bytes
  <2> QED
    BY <2>1 DEF Grown, Counted
<1>9. cells[s.top].parent \in 0 .. s.top - 1 /\ s.seen <= s.seen
  BY <1>2 DEF Counted
<1>10. Before(s, Told(fl, s.open, s.seen, cells, s.top))
  BY <1>2, <1>8, <1>9, ToldAfter
<1> QED
  BY <1>7, <1>10 DEF GoesOn

LEMMA InStringGoesOn ==
  ASSUME NEW s, NEW c, WellShaped(s), "string" \in s.flags
  PROVE  GoesOn(s, InString(s, c))
<1>1. /\ s.seen \in Nat /\ s.top \in 0 .. s.seen /\ s.size \in Nat
      /\ s.cells \in [1 .. s.seen -> CellType]
      /\ \A v \in 1 .. s.seen : s.cells[v].length \in Nat /\ s.cells[v].bytes \in Nat
      /\ s.flags \subseteq PlainFlags
  BY ShapeFacts
<1>2. FlagsOK(s) /\ CellsOK(s)
  BY DEF WellShaped
<1>3. /\ s.top # None /\ "done" \notin s.flags /\ "seek_value" \notin s.flags
      /\ s.top \in s.open /\ s.top \in 1 .. s.seen
      /\ s.cells[s.top].kind \in {"string", "object"}
      /\ s.cells[s.top].kind = "string" => s.cells[s.top].length = 0
  BY <1>1, <1>2 DEF FlagsOK, None
<1>4. ASSUME NEW fl, NEW size \in Nat, s.size <= size,
             fl \in {s.flags, s.flags \ {"escaped"}, s.flags \cup {"escaped"}}
      PROVE  GoesOn(s, Flagged(s, fl, size))
  <2>1. "string" \in fl /\ "done" \notin fl /\ "seek_value" \notin fl /\ fl \subseteq PlainFlags
    BY <1>1, <1>3, <1>4 DEF PlainFlags
  <2>2. FlagsOK(Flagged(s, fl, size))
    BY <1>2, <1>3, <2>1 DEF FlagsOK, Flagged, State
  <2> QED
    BY <1>3, <1>4, <2>1, <2>2, FlaggedGoesOn DEF GoesOn
<1>5. CASE "escaped" \in s.flags
  <2>1. InString(s, c) = Flagged(s, s.flags \ {"escaped"}, s.size + (IF c = "uXXXX" THEN 3 ELSE 1))
    BY <1>5 DEF InString
  <2> QED
    BY <1>1, <1>4, <2>1
<1>6. CASE "escaped" \notin s.flags /\ c # "quote"
  <2>1. InString(s, c) \in {Flagged(s, s.flags \cup {"escaped"}, s.size), Flagged(s, s.flags, s.size + 1)}
    BY <1>6 DEF InString
  <2> QED
    BY <1>1, <1>4, <2>1
<1>7. CASE "escaped" \notin s.flags /\ c = "quote" /\ s.cells[s.top].kind = "string"
  <2> DEFINE cells == [s.cells EXCEPT ![s.top].length = s.size]
             fl == s.flags \ {"string"}
  <2>1. InString(s, c) = Told(fl, s.open, s.seen, cells, s.top)
    BY <1>7 DEF InString
  <2>2. /\ cells \in [1 .. s.seen -> CellType]
        /\ cells[s.top].length = s.size
        /\ \A u \in 1 .. s.seen :
             /\ cells[u].kind = s.cells[u].kind /\ cells[u].parent = s.cells[u].parent
             /\ u # s.top => cells[u].length = s.cells[u].length
             /\ cells[u].bytes = s.cells[u].bytes
    BY <1>1, <1>3 DEF CellType
  <2> HIDE DEF cells
  <2>3. ASSUME NEW u \in 1 .. s.seen
        PROVE  Length(s, u) <= cells[u].length /\ Bytes(s, u) <= cells[u].bytes
    <3>1. /\ s.cells[u].length \in Nat /\ s.cells[u].bytes \in Nat
          /\ u # s.top => cells[u].length = s.cells[u].length
          /\ cells[u].bytes = s.cells[u].bytes
      BY <1>1, <2>2
    <3>2. Bytes(s, u) = s.cells[u].bytes
      BY <1>7, <3>1 DEF Bytes
    <3>3. CASE u = s.top
      BY <1>1, <1>3, <1>7, <2>2, <3>1, <3>2, <3>3 DEF Length
    <3>4. CASE u # s.top
      BY <1>1, <2>2, <3>1, <3>2, <3>4 DEF Length
    <3> QED
      BY <3>3, <3>4
  <2>6. Counted(s, cells)
    BY <2>2, <2>3 DEF Counted
  <2>4. ~Pending(cells[s.top]) /\ cells[s.top].kind \notin {"word", "number"}
    <3>1. CellOK(s.cells, s.top)
      BY <1>2, <1>3 DEF CellsOK
    <3>2. /\ cells[s.top].kind = "string" /\ cells[s.top].bytes = s.cells[s.top].bytes
      BY <1>3, <1>7, <2>2
    <3> QED
      BY <1>7, <3>1, <3>2 DEF CellOK, Pending
  <2>5. fl \in SUBSET {"need_comma", "need_colon", "escaped"}
    BY <1>1, <1>3 DEF PlainFlags
  <2> HIDE DEF fl
  <2>7. GoesOn(s, Told(fl, s.open, s.seen, cells, s.top))
    BY <1>3, <2>2, <2>4, <2>5, <2>6, TopCloses
  <2> QED
    BY <2>1, <2>7
<1>8. CASE "escaped" \notin s.flags /\ c = "quote" /\ s.cells[s.top].kind = "object"
  <2> DEFINE cells == [s.cells EXCEPT ![s.top].bytes = @ + s.size + 1]
             fl == (s.flags \ {"string"}) \cup {"seek_value", "need_colon"}
             t == State(fl, s.top, 0, s.open, s.seen, cells)
  <2>1. InString(s, c) = t
    BY <1>8 DEF InString
  <2>2. /\ cells \in [1 .. s.seen -> CellType]
        /\ cells[s.top].bytes = s.cells[s.top].bytes + s.size + 1
        /\ \A u \in 1 .. s.seen :
             /\ cells[u].kind = s.cells[u].kind /\ cells[u].parent = s.cells[u].parent
             /\ cells[u].length = s.cells[u].length
             /\ u # s.top => cells[u].bytes = s.cells[u].bytes
    <3>1. /\ s.cells[s.top] \in CellType /\ s.cells[s.top].bytes + s.size + 1 \in Nat
      BY <1>1, <1>3, SMTT(30)
    <3> QED
      BY <1>1, <1>3, <3>1 DEF CellType
  <2>3. fl \subseteq PlainFlags /\ "string" \notin fl /\ "done" \notin fl /\ "seek_value" \in fl
    BY <1>1, <1>3 DEF PlainFlags
  <2> HIDE DEF cells, fl
  <2>4. /\ t.flags = fl /\ t.top = s.top /\ t.size = 0 /\ t.open = s.open /\ t.seen = s.seen
        /\ t.cells = cells /\ IsState(t)
    BY DEF State, IsState
  <2> HIDE DEF t
  <2>5. \A u \in 1 .. s.seen : CellOK(cells, u)
    <3> SUFFICES ASSUME NEW u \in 1 .. s.seen PROVE CellOK(cells, u)
      OBVIOUS
    <3>1. CellOK(s.cells, u)
      BY <1>2 DEF CellsOK
    <3>2. /\ cells[u].kind = s.cells[u].kind /\ cells[u].parent = s.cells[u].parent
          /\ cells[u].length = s.cells[u].length
          /\ u # s.top => cells[u].bytes = s.cells[u].bytes
      BY <2>2
    <3>3. cells[u].parent # None => cells[cells[u].parent].kind = s.cells[cells[u].parent].kind
      <4>1. s.cells[u].parent \in 0 .. u - 1
        BY ShapeFacts
      <4> QED
        BY <1>1, <2>2, <3>2, <4>1, SMTT(30) DEF None
    <3> QED
      BY <1>8, <3>1, <3>2, <3>3 DEF CellOK
  <2>6. \A u \in 1 .. s.seen : Pending(cells[u]) => u \in s.open
    <3> SUFFICES ASSUME NEW u \in 1 .. s.seen, Pending(cells[u]), u # s.top PROVE u \in s.open
      BY <1>3
    <3>1. Pending(s.cells[u])
      BY <2>2 DEF Pending
    <3> QED
      BY <1>2, <3>1 DEF CellsOK
  <2>7. Path(s.open, cells, s.top)
    <3>1. Path(s.open, s.cells, s.top) /\ s.open \subseteq 1 .. s.seen
      BY <1>2, ShapeFacts DEF CellsOK
    <3> QED
      BY <2>2, <3>1 DEF Path
  <2>8. CellsOK(t)
    BY <1>1, <2>2, <2>3, <2>4, <2>5, <2>6, <2>7 DEF CellsOK
  <2>9. FlagsOK(t)
    <3>1. cells[s.top].kind = "object"
      BY <1>3, <1>8, <2>2
    <3> QED
      BY <1>3, <2>3, <2>4, <3>1 DEF FlagsOK
  <2>10. \A u \in 1 .. s.seen : Length(s, u) <= Length(t, u) /\ Bytes(s, u) <= Bytes(t, u)
    <3> SUFFICES ASSUME NEW u \in 1 .. s.seen
                 PROVE  Length(s, u) <= Length(t, u) /\ Bytes(s, u) <= Bytes(t, u)
      OBVIOUS
    <3>1. /\ s.cells[u].length \in Nat /\ s.cells[u].bytes \in Nat
          /\ cells[u].length = s.cells[u].length /\ cells[u].kind = s.cells[u].kind
          /\ u # s.top => cells[u].bytes = s.cells[u].bytes
      BY <1>1, <2>2
    <3>2. Length(t, u) = cells[u].length + 0 /\ Bytes(t, u) = cells[u].bytes + 0
      BY <2>3, <2>4 DEF Length, Bytes
    <3>3. Length(s, u) = s.cells[u].length + 0
      BY <1>8 DEF Length
    <3>4. CASE u = s.top
      BY <1>1, <1>8, <2>2, <3>1, <3>2, <3>3, <3>4, SMTT(30) DEF Bytes
    <3>5. CASE u # s.top
      BY <3>1, <3>2, <3>3, <3>5 DEF Bytes
    <3> QED
      BY <3>4, <3>5
  <2>11. Before(s, t)
    BY <1>1, <1>3, <2>2, <2>4, <2>10 DEF Before
  <2> QED
    BY <2>1, <2>4, <2>8, <2>9, <2>11 DEF WellShaped, GoesOn
<1> QED
  BY <1>3, <1>5, <1>6, <1>7, <1>8

LEMMA OpeningGoesOn ==
  ASSUME NEW s, WellShaped(s), "seek_value" \in s.flags,
         {"string", "done", "need_comma", "need_colon"} \cap s.flags = {},
         NEW kind \in {"object", "array", "string", "word", "number"}
  PROVE  GoesOn(s, Opening(s, kind))
<1> DEFINE v == s.seen + 1
           cells == Extended(s, kind)
           fl == s.flags \ {"seek_value"}
<1>1. /\ s.seen \in Nat /\ s.top \in 0 .. s.seen /\ s.size \in Nat
      /\ s.cells \in [1 .. s.seen -> CellType]
      /\ \A u \in 1 .. s.seen : /\ s.cells[u].length \in Nat /\ s.cells[u].bytes \in Nat
                                /\ s.cells[u].parent \in 0 .. u - 1
      /\ s.open \subseteq 1 .. s.seen
      /\ s.flags \subseteq PlainFlags
  BY ShapeFacts
<1>2. FlagsOK(s) /\ CellsOK(s)
  BY DEF WellShaped
<1>3. /\ s.top = None => s.seen = 0
      /\ s.top # None => s.top \in s.open /\ s.cells[s.top].kind \in {"object", "array"}
  BY <1>2 DEF FlagsOK
<1>4. /\ v \in Nat /\ v \in 1 .. v /\ s.seen < v /\ v \notin s.open
      /\ \A u \in 1 .. v : u # v => u \in 1 .. s.seen
  BY <1>1
<1>5. /\ cells \in [1 .. v -> CellType]
      /\ cells[v] = NewCell(kind, s.top)
      /\ \A u \in 1 .. s.seen : cells[u] = s.cells[u]
  BY <1>1 DEF Extended, NewCell, CellType
<1> HIDE DEF cells
<1>6. /\ cells[v].kind = kind /\ cells[v].parent = s.top /\ cells[v].length = 0 /\ cells[v].bytes = 0
      /\ ~Pending(cells[v])
  BY <1>5 DEF NewCell, Pending
<1>7. \A u \in 1 .. v : CellOK(cells, u)
  <2> SUFFICES ASSUME NEW u \in 1 .. v PROVE CellOK(cells, u)
    OBVIOUS
  <2>1. CASE u = v
    <3>1. s.top # None => cells[s.top].kind \in {"object", "array"}
      BY <1>1, <1>3, <1>5 DEF None
    <3>2. s.top = None <=> v = 1
      BY <1>1, <1>3 DEF None
    <3> QED
      BY <1>1, <1>6, <2>1, <3>1, <3>2 DEF CellOK
  <2>2. CASE u # v
    <3>1. u \in 1 .. s.seen /\ cells[u] = s.cells[u] /\ CellOK(s.cells, u)
      BY <1>2, <1>4, <1>5, <2>2 DEF CellsOK
    <3>2. s.cells[u].parent # None => cells[s.cells[u].parent] = s.cells[s.cells[u].parent]
      <4>1. s.cells[u].parent \in 0 .. u - 1
        BY <1>1, <3>1
      <4>2. s.cells[u].parent # None => s.cells[u].parent \in 1 .. s.seen
        BY <1>1, <3>1, <4>1 DEF None
      <4> QED
        BY <1>5, <4>2
    <3> QED
      BY <3>1, <3>2 DEF CellOK
  <2> QED
    BY <2>1, <2>2
<1>8. \A u \in 1 .. v : Pending(cells[u]) => u \in s.open
  <2> SUFFICES ASSUME NEW u \in 1 .. v, Pending(cells[u]) PROVE u \in s.open
    OBVIOUS
  <2>1. u \in 1 .. s.seen /\ Pending(s.cells[u])
    BY <1>4, <1>5, <1>6
  <2> QED
    BY <1>2, <2>1 DEF CellsOK
<1>9. Path(s.open, s.cells, s.top)
  BY <1>2 DEF CellsOK
<1>10. \A w \in s.open : cells[w] = s.cells[w]
  BY <1>1, <1>5
<1>11. \A u \in 1 .. s.seen :
         Length(s, u) = s.cells[u].length /\ Bytes(s, u) = s.cells[u].bytes
  <2> SUFFICES ASSUME NEW u \in 1 .. s.seen
               PROVE  Length(s, u) = s.cells[u].length /\ Bytes(s, u) = s.cells[u].bytes
    OBVIOUS
  <2>1. s.cells[u].length \in Nat /\ s.cells[u].bytes \in Nat
    BY <1>1
  <2> QED
    BY <2>1 DEF Length, Bytes
<1>12. CASE kind \in {"word", "number"}
  <2>1. Opening(s, kind) = Told(fl, s.open, v, cells, v)
    BY <1>12 DEF Opening, cells
  <2>2. fl \in SUBSET {"need_comma", "need_colon", "escaped"}
    BY <1>1 DEF PlainFlags
  <2>3. Closes(s.open, cells, v)
    <3>1. s.open \ {v} = s.open
      BY <1>4
    <3>2. CASE s.top = None
      <4>1. s.open = {}
        BY <1>1, <1>3, <3>2
      <4> QED
        BY <1>6, <3>1, <3>2, <4>1 DEF Closes
    <3>3. CASE s.top # None
      <4>1. Path(s.open, cells, s.top)
        BY <1>9, <1>10 DEF Path
      <4> QED
        BY <1>3, <1>6, <3>1, <3>3, <4>1 DEF Closes
    <3> QED
      BY <3>2, <3>3
  <2>4. Grown(s, cells)
    <3> SUFFICES ASSUME NEW u \in 1 .. s.seen
                 PROVE  /\ s.cells[u].kind = cells[u].kind /\ s.cells[u].parent = cells[u].parent
                        /\ Length(s, u) \in Int /\ Bytes(s, u) \in Int
                        /\ Length(s, u) <= cells[u].length /\ Bytes(s, u) <= cells[u].bytes
      BY DEF Grown
    <3>1. cells[u] = s.cells[u] /\ s.cells[u].length \in Nat /\ s.cells[u].bytes \in Nat
      BY <1>1, <1>5
    <3> QED
      BY <1>11, <3>1
  <2>5. cells[v].parent \in 0 .. v - 1 /\ s.seen <= v /\ "done" \notin s.flags
    BY <1>1, <1>6
  <2>6. \A u \in 1 .. v : CellOK(cells, u) /\ (Pending(cells[u]) => u \in s.open \ {v})
    BY <1>4, <1>7, <1>8
  <2> HIDE DEF fl, v
  <2>7. WellShaped(Told(fl, s.open, v, cells, v))
    BY <1>4, <1>5, <2>2, <2>3, <2>6, ToldShaped
  <2>8. Before(s, Told(fl, s.open, v, cells, v))
    BY <1>1, <1>4, <1>5, <2>2, <2>4, <2>5, ToldAfter
  <2> QED
    BY <2>1, <2>7, <2>8 DEF GoesOn
<1>13. CASE kind \in {"object", "array", "string"}
  <2> DEFINE flags_then == CASE kind = "object" -> fl
                             [] kind = "array" -> s.flags
                             [] OTHER -> fl \cup {"string"}
             open == s.open \cup {v}
             t == State(flags_then, v, 0, open, v, cells)
  <2>1. Opening(s, kind) = t
    BY <1>13 DEF Opening, cells
  <2>2. /\ flags_then \subseteq PlainFlags
        /\ "done" \notin flags_then
        /\ "string" \in flags_then => kind = "string" /\ "seek_value" \notin flags_then
        /\ "string" \notin flags_then => kind \in {"object", "array"}
        /\ "seek_value" \notin flags_then /\ "string" \notin flags_then => kind = "object"
    BY <1>1, <1>13 DEF PlainFlags
  <2> HIDE DEF flags_then
  <2>3. /\ t.flags = flags_then /\ t.top = v /\ t.size = 0 /\ t.open = open /\ t.seen = v
        /\ t.cells = cells /\ IsState(t)
    BY DEF State, IsState
  <2> HIDE DEF t
  <2>4. Path(open, cells, v)
    <3>1. open \subseteq 1 .. v
      BY <1>1
    <3>2. \A w \in open : cells[w].parent = None \/ cells[w].parent \in open
      BY <1>3, <1>6, <1>9, <1>10 DEF Path
    <3>3. \A u, w \in open : u < w => u <= cells[w].parent
      <4> SUFFICES ASSUME NEW u \in open, NEW w \in open, u < w PROVE u <= cells[w].parent
        OBVIOUS
      <4>1. u \in s.open
        BY <1>1, <1>4
      <4>2. CASE w = v
        <5>1. u <= s.top
          BY <1>1, <1>9, <4>1 DEF Path
        <5> QED
          BY <1>6, <4>2, <5>1
      <4>3. CASE w # v
        BY <1>9, <1>10, <4>1, <4>3 DEF Path
      <4> QED
        BY <4>2, <4>3
    <3> QED
      BY <3>1, <3>2, <3>3 DEF Path
  <2>5. CellsOK(t)
    BY <1>4, <1>5, <1>6, <1>7, <1>8, <2>3, <2>4 DEF CellsOK
  <2>6. FlagsOK(t)
    BY <1>4, <1>6, <2>2, <2>3 DEF FlagsOK, None
  <2>7. \A u \in 1 .. s.seen : Length(t, u) = s.cells[u].length /\ Bytes(t, u) = s.cells[u].bytes
    <3> SUFFICES ASSUME NEW u \in 1 .. s.seen
                 PROVE  Length(t, u) = s.cells[u].length /\ Bytes(t, u) = s.cells[u].bytes
      OBVIOUS
    <3>1. u # v /\ t.cells[u] = s.cells[u] /\ s.cells[u].length \in Nat /\ s.cells[u].bytes \in Nat
      BY <1>1, <1>5, <2>3
    <3> QED
      BY <2>3, <3>1 DEF Length, Bytes
  <2>8. Before(s, t)
    <3>1. \A u \in 1 .. s.seen : s.cells[u] = t.cells[u]
      BY <1>5, <2>3
    <3>2. \A u \in 1 .. s.seen : s.cells[u].length \in Nat /\ s.cells[u].bytes \in Nat
      BY <1>1
    <3>3. s.seen <= t.seen
      BY <1>1, <1>4, <2>3
    <3> HIDE <1>1, <1>4, <1>5
    <3> QED
      BY <1>11, <2>7, <3>1, <3>2, <3>3 DEF Before
  <2> QED
    BY <2>1, <2>3, <2>5, <2>6, <2>8 DEF WellShaped, GoesOn
<1> QED
  BY <1>12, <1>13

LEMMA KindsOpened ==
  \A c \in DOMAIN TypeOf :
    /\ Kind(TypeOf[c]) \in {"object", "array", "string", "word", "number"}
    /\ TypeOf[c] \in {"object", "array", "string", "word", "integer"}
    /\ Kind(TypeOf[c]) = "number" <=> c \in Digits \cup {"-"}
    /\ TypeOf[c] = "integer" <=> c \in Digits \cup {"-"}
  BY DEF TypeOf, Kind, Digits

LEMMA IterationGoesOn ==
  ASSUME NEW s, NEW c, WellShaped(s), ~Refuses(s, c)
  PROVE  GoesOn(s, Iteration(s, c))
<1>1. /\ s.seen \in Nat /\ s.top \in 0 .. s.seen /\ s.size \in Nat
      /\ s.cells \in [1 .. s.seen -> CellType]
      /\ \A u \in 1 .. s.seen : s.cells[u].length \in Nat /\ s.cells[u].bytes \in Nat
      /\ s.flags \subseteq PlainFlags
  BY ShapeFacts
<1>2. FlagsOK(s) /\ CellsOK(s)
  BY DEF WellShaped
<1>3. GoesOn(s, s)
  BY BeforeItself DEF GoesOn
<1>4. CASE "string" \in s.flags
  BY <1>4, InStringGoesOn DEF Iteration
<1>5. CASE "string" \notin s.flags /\ "done" \in s.flags
  BY <1>3, <1>5 DEF Iteration
<1>6. ASSUME {"string", "done"} \cap s.flags = {}, s.top # None,
             NEW fl \in SUBSET {"need_comma", "need_colon", "escaped"},
             ~Pending(s.cells[s.top])
      PROVE  GoesOn(s, Told(fl, s.open, s.seen, s.cells, s.top))
  <2>1. s.top \in s.open /\ s.top \in 1 .. s.seen /\ s.cells[s.top].kind \in {"object", "array"}
    BY <1>1, <1>2, <1>6 DEF FlagsOK, None
  <2>2. \A u \in 1 .. s.seen :
          Length(s, u) = s.cells[u].length + 0 /\ Bytes(s, u) = s.cells[u].bytes + 0
    BY <1>6 DEF Length, Bytes
  <2>3. Counted(s, s.cells)
    BY <1>1, <2>2 DEF Counted
  <2> QED
    BY <1>1, <1>6, <2>1, <2>3, TopCloses
<1>7. CASE {"string", "done"} \cap s.flags = {} /\ "seek_value" \in s.flags
  <2>1. Iteration(s, c) = Seeking(s, c)
    BY <1>7 DEF Iteration
  <2>2. CASE c = " "
    BY <1>3, <2>1, <2>2 DEF Seeking
  <2>3. CASE c = "]"
    <3> DEFINE fl == s.flags \ {"need_comma", "seek_value"}
    <3>1. Iteration(s, c) = Told(fl, s.open, s.seen, s.cells, s.top)
      BY <2>1, <2>3 DEF Seeking
    <3>2. fl \in SUBSET {"need_comma", "need_colon", "escaped"}
      BY <1>1, <1>7 DEF PlainFlags
    <3>3. s.top # None /\ s.cells[s.top].kind = "array"
      BY <1>7, <2>3 DEF Refuses
    <3>4. ~Pending(s.cells[s.top])
      <4>1. s.top \in 1 .. s.seen /\ CellOK(s.cells, s.top)
        BY <1>1, <1>2, <3>3 DEF CellsOK, None
      <4> QED
        BY <3>3, <4>1 DEF CellOK, Pending
    <3> HIDE DEF fl
    <3> QED
      BY <1>6, <1>7, <3>1, <3>2, <3>3, <3>4
  <2>4. CASE c \notin {" ", "]"} /\ {"need_comma", "need_colon"} \cap s.flags # {}
    <3>1. PICK f \in {"need_comma", "need_colon"} :
            Iteration(s, c) = Flagged(s, s.flags \ {f}, 0)
      BY <2>1, <2>4 DEF Seeking
    <3>2. s.top # None
      BY <1>2, <2>4 DEF FlagsOK
    <3>3. FlagsOK(Flagged(s, s.flags \ {f}, 0))
      BY <1>2, <1>7, <3>2 DEF FlagsOK, Flagged, State
    <3> QED
      BY <1>7, <3>1, <3>3, FlaggedGoesOn DEF GoesOn
  <2>5. CASE c \notin {" ", "]"} /\ {"need_comma", "need_colon"} \cap s.flags = {}
    <3>1. Iteration(s, c) = Opening(s, Kind(TypeOf[c]))
      BY <2>1, <2>5 DEF Seeking
    <3>2. c \in DOMAIN TypeOf
      BY <1>7, <2>5 DEF Refuses
    <3>3. Kind(TypeOf[c]) \in {"object", "array", "string", "word", "number"}
      BY <3>2, KindsOpened
    <3> QED
      BY <1>7, <2>5, <3>1, <3>3, OpeningGoesOn
  <2> QED
    BY <2>2, <2>3, <2>4, <2>5
<1>8. CASE {"string", "done", "seek_value"} \cap s.flags = {}
  <2>1. Iteration(s, c) = InObject(s, c)
    BY <1>8 DEF Iteration
  <2>2. s.top # None /\ s.top \in 1 .. s.seen /\ s.top \in s.open /\ s.cells[s.top].kind = "object"
    BY <1>1, <1>2, <1>8 DEF FlagsOK, None
  <2>3. CASE c = " "
    BY <1>3, <2>1, <2>3 DEF InObject
  <2>4. ASSUME NEW fl, fl \in {s.flags \ {"need_comma"}, s.flags \cup {"string"}}
        PROVE  GoesOn(s, Flagged(s, fl, 0))
    <3>1. fl \subseteq PlainFlags /\ {"done", "seek_value"} \cap fl = {}
      BY <1>1, <1>8, <2>4 DEF PlainFlags
    <3>2. FlagsOK(Flagged(s, fl, 0))
      BY <1>2, <2>2, <3>1 DEF FlagsOK, Flagged, State
    <3> QED
      BY <1>8, <3>2, FlaggedGoesOn DEF GoesOn
  <2>5. CASE c \in {",", "quote"}
    BY <2>1, <2>4, <2>5 DEF InObject
  <2>6. CASE c \notin {" ", ",", "quote"}
    <3> DEFINE fl == s.flags \ {"need_comma"}
    <3>1. Iteration(s, c) = Told(fl, s.open, s.seen, s.cells, s.top)
      BY <2>1, <2>6 DEF InObject
    <3>2. fl \in SUBSET {"need_comma", "need_colon", "escaped"}
      BY <1>1, <1>8 DEF PlainFlags
    <3>3. ~Pending(s.cells[s.top])
      BY <1>2, <1>8, <2>2 DEF CellsOK
    <3> HIDE DEF fl
    <3> QED
      BY <1>6, <1>8, <2>2, <3>1, <3>2, <3>3
  <2> QED
    BY <2>3, <2>5, <2>6
<1> QED
  BY <1>4, <1>5, <1>7, <1>8

-----------------------------------------------------------------------------
(* What the code does in an iteration.                                     *)

SameMemory(o, n) ==
  /\ n.type = o.type /\ n.parent = o.parent
  /\ n.allocated = o.allocated /\ n.room = o.room /\ n.name_room = o.name_room

IsHolder(n) == n.type \in {"array", "object"}

SameChildren(o, n) == n.values = o.values /\ (IsHolder(o) => n.length = o.length)

OneMoreChild(o, n, v) ==
  IF first_pass THEN n.values = o.values
  ELSE n.length = o.length + 1 /\ n.values = Append(o.values, v)

(* Of the values in ns only the parent of v has changed: it has v as well. *)
Attached(ns, v) ==
  /\ Len(nodes') = Len(ns)
  /\ \A u \in 1 .. Len(ns) :
       /\ SameMemory(ns[u], nodes'[u])
       /\ IF u = ns[v].parent THEN OneMoreChild(ns[u], nodes'[u], v)
          ELSE SameChildren(ns[u], nodes'[u])
       /\ u > v => nodes'[u] = ns[u]

LEMMA CellTypes ==
  ASSUME NEW n \in NodeType
  PROVE  /\ Cell(n) \in CellType
         /\ Cell(n).kind = Kind(n.type) /\ Cell(n).parent = n.parent
         /\ Cell(n).length = n.length /\ Cell(n).bytes = n.name_bytes
         /\ Kind(n.type) = "array" <=> n.type = "array"
         /\ Kind(n.type) = "object" <=> n.type = "object"
         /\ Kind(n.type) = "string" <=> n.type = "string"
         /\ Kind(n.type) = "number" <=> n.type \in {"integer", "double"}
  BY DEF Cell, CellType, NodeType, Kind

LEMMA NodeTypes ==
  ASSUME NEW n \in NodeType
  PROVE  /\ n.type \in {"object", "array", "string", "word", "integer", "double"}
         /\ n.parent \in Nat /\ n.length \in Nat /\ n.name_bytes \in Nat
         /\ n.allocated \in BOOLEAN /\ n.room \in Nat /\ n.name_room \in Nat
         /\ n.values \in Seq(Nat) /\ n.names \in Seq(Nat)
  BY DEF NodeType

With(n, length, values) == [n EXCEPT !.length = length, !.values = values]

LEMMA NodeGrows ==
  ASSUME NEW n \in NodeType, NEW length \in Nat, NEW values \in Seq(Nat)
  PROVE  LET new == With(n, length, values)
         IN  /\ new \in NodeType /\ new.type = n.type /\ new.parent = n.parent
             /\ new.length = length /\ new.name_bytes = n.name_bytes
             /\ new.allocated = n.allocated /\ new.room = n.room
             /\ new.name_room = n.name_room /\ new.values = values
  BY DEF NodeType, With

WithLength(n, length) == [n EXCEPT !.length = length]

LEMMA NodeMeasured ==
  ASSUME NEW n \in NodeType, NEW length \in Nat
  PROVE  /\ WithLength(n, length) \in NodeType
         /\ SameMemory(n, WithLength(n, length))
         /\ n.type \notin {"array", "object"} => SameChildren(n, WithLength(n, length))
         /\ Cell(WithLength(n, length)) = [Cell(n) EXCEPT !.length = length]
<1>1. WithLength(n, length) \in NodeType
  BY DEF NodeType, WithLength
<1>2. SameMemory(n, WithLength(n, length))
  BY DEF NodeType, WithLength, SameMemory
<1>3. n.type \notin {"array", "object"} => SameChildren(n, WithLength(n, length))
  BY DEF NodeType, WithLength, SameChildren, IsHolder
<1>4. Cell(WithLength(n, length)) = [Cell(n) EXCEPT !.length = length]
  BY SMTT(30) DEF NodeType, WithLength, Cell
<1> QED
  BY <1>1, <1>2, <1>3, <1>4

WithName(n, bytes, names) == [n EXCEPT !.name_bytes = bytes, !.names = names]

LEMMA NodeNamed ==
  ASSUME NEW n \in NodeType, NEW bytes \in Nat, NEW names \in Seq(Nat)
  PROVE  /\ WithName(n, bytes, names) \in NodeType
         /\ SameMemory(n, WithName(n, bytes, names))
         /\ SameChildren(n, WithName(n, bytes, names))
         /\ Cell(WithName(n, bytes, names)) = [Cell(n) EXCEPT !.bytes = bytes]
<1>1. WithName(n, bytes, names) \in NodeType
  BY DEF NodeType, WithName
<1>2. SameMemory(n, WithName(n, bytes, names))
  BY DEF NodeType, WithName, SameMemory
<1>3. SameChildren(n, WithName(n, bytes, names))
  BY DEF NodeType, WithName, SameChildren, IsHolder
<1>4. Cell(WithName(n, bytes, names)) = [Cell(n) EXCEPT !.bytes = bytes]
  <2> DEFINE new == WithName(n, bytes, names)
  <2>1. /\ new.type = n.type /\ new.parent = n.parent /\ new.length = n.length
        /\ new.name_bytes = bytes
    BY DEF NodeType, WithName
  <2> HIDE DEF new
  <2>2. Cell(new) = [Cell(n) EXCEPT !.bytes = bytes]
    BY <2>1 DEF Cell
  <2> QED
    BY <2>2 DEF new
<1> QED
  BY <1>1, <1>2, <1>3, <1>4

(* The flags, the top and the values of state t. *)
Follows(t, n) ==
  /\ t.flags = flags' \ NumberFlags /\ t.top = top'
  /\ flags' \subseteq PlainFlags \cup NumberFlags
  /\ nodes' \in Seq(NodeType)
  /\ \A u \in 1 .. n : t.cells[u] = Cell(nodes'[u])

LEMMA FlagNext ==
  ASSUME NEW ns \in Seq(NodeType), NEW n \in 0 .. Len(ns), NEW cells \in [1 .. n -> CellType],
         \A u \in 1 .. n : cells[u] = Cell(ns[u]),
         NEW v \in 1 .. n, cells[v].parent \in 0 .. v - 1,
         NEW fl \in SUBSET (PlainFlags \cup NumberFlags), NEW next, NEW open,
         flag_next(ns, v, fl, next)
  PROVE  /\ Follows(Told(fl \ NumberFlags, open, n, cells, v), n)
         /\ ptr' = next
         /\ Attached(ns, v)
<1> DEFINE p == ns[v].parent
           t == Told(fl \ NumberFlags, open, n, cells, v)
<1>1. /\ n \in Nat /\ Len(ns) \in Nat /\ n <= Len(ns)
      /\ \A u \in 1 .. Len(ns) : ns[u] \in NodeType
      /\ v \in 1 .. Len(ns)
  OBVIOUS
<1>2. cells[v].parent = p /\ p \in 0 .. v - 1
  BY <1>1 DEF Cell
<1>3. ptr' = next
  BY DEF flag_next
<1>4. CASE p = None
  <2>1. /\ flags' = fl \cup {"need_comma", "done"} /\ top' = v /\ nodes' = ns
    BY <1>4 DEF flag_next
  <2>2. t = State((fl \ NumberFlags) \cup {"need_comma", "done"}, v, 0, open \ {v}, n, cells)
    BY <1>2, <1>4 DEF Told
  <2>3. t.flags = flags' \ NumberFlags /\ t.top = top' /\ t.cells = cells
    BY <2>1, <2>2 DEF State, NumberFlags
  <2>4. flags' \subseteq PlainFlags \cup NumberFlags
    BY <2>1 DEF PlainFlags
  <2>5. Attached(ns, v)
    BY <1>1, <1>4, <2>1 DEF Attached, SameMemory, SameChildren, None
  <2> QED
    BY <1>3, <2>1, <2>3, <2>4, <2>5 DEF Follows
<1>5. CASE p # None
  <2>1. p \in 1 .. n /\ p \in 1 .. Len(ns) /\ ns[p] \in NodeType /\ cells[p] = Cell(ns[p])
    BY <1>1, <1>2, <1>5 DEF None
  <2> DEFINE more_flags == {f \in {"seek_value"} : ns[p].type = "array"}
             values == IF first_pass THEN ns[p].values ELSE Append(ns[p].values, v)
             new == With(ns[p], ns[p].length + 1, values)
  <2>2. /\ flags' = fl \cup {"need_comma"} \cup more_flags /\ top' = p
        /\ nodes' = [ns EXCEPT ![p] = new]
    BY <1>1, <1>5, <2>1 DEF flag_next, With
  <2>3. values \in Seq(Nat)
    <3>1. ns[p].values \in Seq(Nat) /\ v \in Nat
      BY <1>1, <2>1, NodeTypes
    <3> QED
      BY <3>1
  <2> HIDE DEF values
  <2>4. /\ new \in NodeType /\ new.type = ns[p].type /\ new.parent = ns[p].parent
        /\ new.length = ns[p].length + 1 /\ new.name_bytes = ns[p].name_bytes
        /\ new.allocated = ns[p].allocated /\ new.room = ns[p].room
        /\ new.name_room = ns[p].name_room /\ new.values = values
    <3>1. ns[p].length + 1 \in Nat
      BY <2>1, NodeTypes
    <3> QED
      BY <2>1, <2>3, <3>1, NodeGrows
  <2> HIDE DEF new
  <2>5. /\ nodes' \in Seq(NodeType) /\ Len(nodes') = Len(ns)
        /\ nodes'[p] = new /\ \A u \in 1 .. Len(ns) : u # p => nodes'[u] = ns[u]
    BY <1>1, <2>1, <2>2, <2>4
  <2> DEFINE told == [cells EXCEPT ![p].length = @ + 1]
             told_flags == ((fl \ NumberFlags) \cup {"need_comma"})
                              \cup (IF cells[p].kind = "array" THEN {"seek_value"} ELSE {})
  <2>6. t = State(told_flags, p, 0, open \ {v}, n, told)
    BY <1>2, <1>5 DEF Told
  <2>7. cells[p].kind = "array" <=> ns[p].type = "array"
    BY <2>1, CellTypes
  <2>8. told_flags = flags' \ NumberFlags
    BY <2>2, <2>7 DEF NumberFlags
  <2>9. flags' \subseteq PlainFlags \cup NumberFlags
    BY <2>2 DEF PlainFlags
  <2>10. \A u \in 1 .. n : told[u] = Cell(nodes'[u])
    <3> SUFFICES ASSUME NEW u \in 1 .. n PROVE told[u] = Cell(nodes'[u])
      OBVIOUS
    <3>1. CASE u = p
      <4>1. told[p] = [cells[p] EXCEPT !.length = @ + 1]
        BY <2>1
      <4>2. told[p] = [Cell(ns[p]) EXCEPT !.length = @ + 1]
        BY <2>1, <4>1
      <4> QED
        BY <2>4, <2>5, <3>1, <4>2, SMTT(30) DEF Cell
    <3>2. CASE u # p
      BY <1>1, <2>5, <3>2
    <3> QED
      BY <3>1, <3>2
  <2>11. Attached(ns, v)
    <3>1. OneMoreChild(ns[p], nodes'[p], v) /\ SameMemory(ns[p], nodes'[p])
      BY <2>4, <2>5 DEF OneMoreChild, SameMemory, values
    <3>2. \A u \in 1 .. Len(ns) : u # p => SameMemory(ns[u], nodes'[u]) /\ SameChildren(ns[u], nodes'[u])
      BY <2>5 DEF SameMemory, SameChildren
    <3>3. \A u \in 1 .. Len(ns) : u > v => nodes'[u] = ns[u]
      BY <1>1, <1>2, <2>5
    <3> QED
      BY <2>5, <3>1, <3>2, <3>3 DEF Attached
  <2> HIDE DEF t, told, told_flags, more_flags
  <2>12. t.flags = told_flags /\ t.top = p /\ t.cells = told
    BY <2>6, StateParts
  <2>13. Follows(t, n)
    BY <2>2, <2>5, <2>8, <2>9, <2>10, <2>12 DEF Follows
  <2> QED
    BY <1>3, <2>11, <2>13 DEF t
<1> QED
  BY <1>4, <1>5

(* The next state is t, reached without trouble. *)
Goes(t) ==
  /\ Types' /\ InState(t)'
  /\ UNCHANGED <<first_pass, phase, outcome, text, more, value>>

(* What becomes of the values: nothing, *)
Stays(s, t) ==
  /\ t.seen = s.seen /\ t.open = s.open
  /\ Len(nodes') = Len(nodes) /\ UNCHANGED <<root, alloc, live>>
  /\ \A u \in 1 .. Len(nodes) :
       /\ SameMemory(nodes[u], nodes'[u]) /\ SameChildren(nodes[u], nodes'[u])
       /\ u > s.seen => nodes'[u] = nodes[u]

(* or top is done and its parent has it, *)
Ends(s, t) ==
  /\ t.seen = s.seen /\ t.open = s.open \ {top} /\ top \in 1 .. s.seen /\ top \in s.open
  /\ UNCHANGED <<root, alloc, live>>
  /\ Attached(nodes, top)

(* or there is a new value, which may be done already.                     *)
Begins(s, t, type) ==
  LET v == s.seen + 1 IN
  /\ t.seen = v
  /\ new_value(type, TRUE) /\ TRUE \in AllocOutcomes
  /\ \/ t.open = s.open \cup {v} /\ nodes' = Created(type)
     \/ t.open = s.open \ {v} /\ Attached(Created(type), v)

Effect(s, t) ==
  \/ Stays(s, t)
  \/ Ends(s, t)
  \/ \E type \in {"object", "array", "string", "word", "integer"} : Begins(s, t, type)

LEMMA PlainFlagsAgree ==
  ASSUME NEW s, InState(s)
  PROVE  /\ \A f \in PlainFlags : f \in flags <=> f \in s.flags
         /\ s.flags = flags \ NumberFlags /\ s.top = top
  BY DEF InState, PlainFlags, NumberFlags

LEMMA InStateThen ==
  ASSUME NEW t, t.seen \in Nat, Follows(t, t.seen), t.seen = Seen',
         "string" \in flags' => t.size = string_length'
  PROVE  InState(t)'
  BY DEF InState, Follows

LEMMA SeenSame ==
  ASSUME UNCHANGED <<first_pass, alloc>>, Len(nodes') = Len(nodes)
  PROVE  Seen' = Seen
  BY DEF Seen

LEMMA NodesSame ==
  ASSUME Types, nodes' = nodes
  PROVE  \A u \in 1 .. Len(nodes) :
           SameMemory(nodes[u], nodes'[u]) /\ SameChildren(nodes[u], nodes'[u])
  BY DEF SameMemory, SameChildren

LEMMA Moves ==
  ASSUME Types, NEW s, WellShaped(s), InState(s), UNCHANGED <<first_pass, text, more, value>>,
         NEW fl \in SUBSET (PlainFlags \cup NumberFlags), NEW size,
         On(fl), NoAllocation, Continues, num_digits' \in Nat, string_length' \in Nat,
         "string" \in fl => size = string_length'
  PROVE  LET t == Flagged(s, fl \ NumberFlags, size)
         IN  Goes(t) /\ Stays(s, t) /\ ptr' = ptr + 1
<1> DEFINE t == Flagged(s, fl \ NumberFlags, size)
<1>1. /\ t.flags = fl \ NumberFlags /\ t.top = s.top /\ t.size = size /\ t.open = s.open
      /\ t.seen = s.seen /\ t.cells = s.cells
  BY StateParts DEF Flagged
<1> HIDE DEF t
<1>2. /\ flags' = fl /\ ptr' = ptr + 1 /\ UNCHANGED <<top, nodes, root, alloc, live, phase, outcome>>
  BY DEF On, NoAllocation, Continues
<1>3. Types'
  BY <1>2 DEF Types
<1>4. Stays(s, t)
  BY <1>1, <1>2, NodesSame DEF Stays
<1>5. s.seen \in Nat
  BY ShapeFacts
<1>6. Follows(t, t.seen)
  BY <1>1, <1>2 DEF Follows, InState, Types
<1>7. t.seen = Seen'
  BY <1>1, <1>2, SeenSame DEF InState
<1>8. InState(t)'
  BY <1>1, <1>2, <1>5, <1>6, <1>7, InStateThen
<1> QED
  BY <1>2, <1>3, <1>4, <1>8 DEF Goes, t

LEMMA TopTold ==
  ASSUME Types, NEW s, WellShaped(s), InState(s), UNCHANGED <<first_pass, text, more, value>>,
         top \in 1 .. s.seen, top \in s.open, s.seen <= Len(nodes),
         NEW ns \in Seq(NodeType), Len(ns) = Len(nodes),
         NEW cells \in [1 .. s.seen -> CellType],
         \A u \in 1 .. s.seen : cells[u] = Cell(ns[u]),
         \A u \in 1 .. Len(nodes) : u # top => ns[u] = nodes[u],
         SameMemory(nodes[top], ns[top]), SameChildren(nodes[top], ns[top]),
         NEW fl \in SUBSET (PlainFlags \cup NumberFlags), "string" \notin fl,
         flag_next(ns, top, fl, ptr + 1), NoAllocation, Continues,
         UNCHANGED <<string_length, num_digits>>
  PROVE  LET t == Told(fl \ NumberFlags, s.open, s.seen, cells, s.top)
         IN  Goes(t) /\ Ends(s, t) /\ ptr' = ptr + 1
<1> DEFINE t == Told(fl \ NumberFlags, s.open, s.seen, cells, s.top)
           p == ns[top].parent
<1>1. /\ s.seen \in Nat /\ s.top = top /\ Len(nodes) \in Nat /\ s.seen \in 0 .. Len(ns)
      /\ s.seen = Seen /\ nodes \in Seq(NodeType) /\ top \in 1 .. Len(nodes)
      /\ s.cells[top] = Cell(nodes[top])
  BY ShapeFacts DEF InState, Types
<1>2. /\ p = nodes[top].parent /\ cells[top].parent = p /\ p \in 0 .. top - 1
  <2>1. s.cells[top].parent \in 0 .. top - 1
    BY ShapeFacts
  <2> QED
    BY <1>1, <2>1 DEF Cell, SameMemory
<1>3. Follows(t, s.seen) /\ ptr' = ptr + 1 /\ Attached(ns, top)
  <2>1. cells[top].parent \in 0 .. top - 1
    BY <1>2
  <2> HIDE DEF t, p
  <2>2. ASSUME NEW w, w = top, NEW next, next = ptr + 1, NEW n, n = s.seen, NEW open, open = s.open,
               flag_next(ns, w, fl, next), n \in 0 .. Len(ns), w \in 1 .. n,
               cells \in [1 .. n -> CellType], \A u \in 1 .. n : cells[u] = Cell(ns[u]),
               cells[w].parent \in 0 .. w - 1
        PROVE  /\ Follows(Told(fl \ NumberFlags, open, n, cells, w), n)
               /\ ptr' = next /\ Attached(ns, w)
    BY <2>2, FlagNext
  <2>3. /\ Follows(Told(fl \ NumberFlags, s.open, s.seen, cells, top), s.seen)
        /\ ptr' = ptr + 1 /\ Attached(ns, top)
    BY <1>1, <2>1, <2>2
  <2> QED
    BY <1>1, <2>3 DEF t
<1>4. UNCHANGED <<root, alloc, live, phase, outcome>>
  BY DEF NoAllocation, Continues
<1>5. t.open = s.open \ {top} /\ t.seen = s.seen
  BY <1>1 DEF Told, State
<1>6. "string" \notin flags'
  BY DEF flag_next
<1> HIDE DEF t
<1>7. Types'
  BY <1>3, <1>4 DEF Types, Follows
<1>8. Len(nodes') = Len(nodes)
  BY <1>3 DEF Attached
<1>9. InState(t)'
  <2>1. t.seen = Seen'
    BY <1>1, <1>4, <1>5, <1>8, SeenSame
  <2> QED
    BY <1>1, <1>3, <1>5, <1>6, <2>1, InStateThen
<1>10. Attached(nodes, top)
  <2> SUFFICES ASSUME NEW u \in 1 .. Len(nodes)
               PROVE  /\ SameMemory(nodes[u], nodes'[u])
                      /\ IF u = p THEN OneMoreChild(nodes[u], nodes'[u], top)
                         ELSE SameChildren(nodes[u], nodes'[u])
                      /\ u > top => nodes'[u] = nodes[u]
    BY <1>2, <1>8 DEF Attached
  <2>1. /\ SameMemory(ns[u], nodes'[u])
        /\ IF u = p THEN OneMoreChild(ns[u], nodes'[u], top)
           ELSE SameChildren(ns[u], nodes'[u])
        /\ u > top => nodes'[u] = ns[u]
    BY <1>3 DEF Attached
  <2>2. CASE u # top
    BY <2>1, <2>2
  <2>3. CASE u = top
    <3>1. u # p
      BY <1>1, <1>2, <2>3
    <3> QED
      BY <2>1, <2>3, <3>1 DEF SameMemory, SameChildren, IsHolder
  <2> QED
    BY <2>2, <2>3
<1>11. Goes(t)
  BY <1>4, <1>7, <1>9 DEF Goes
<1>12. Ends(s, t)
  BY <1>4, <1>5, <1>10 DEF Ends
<1> QED
  BY <1>3, <1>11, <1>12 DEF t

(* An iteration of json_parse_ex, but for a number in the first pass: it   *)
(* goes where Iteration says, unless the text is turned down, ends, or     *)
(* memory runs out.                                                        *)
Proceeds(s) ==
  /\ ~Refuses(s, b)
  /\ \E t \in {Iteration(s, b)} : Goes(t) /\ Effect(s, t)
  /\ ptr' = IF OpensNumber(s, b) THEN BehindNumber ELSE ptr + 1
  /\ OpensNumber(s, b) => ~first_pass

Turned(s) == Refuses(s, b) /\ Fail /\ UNCHANGED first_pass

RunsOut(s) ==
  /\ Opens(s, b) /\ FALSE \in AllocOutcomes
  /\ new_value(TypeOf[b], FALSE) /\ AllocFailure /\ UNCHANGED first_pass

Here(s) ==
  /\ Types /\ WellShaped(s) /\ InState(s) /\ s.seen <= Len(nodes)
  /\ UNCHANGED <<text, more, value>>

LEMMA StringCharProceeds ==
  ASSUME NEW s, Here(s), StringChar, UNCHANGED first_pass
  PROVE  Proceeds(s) \/ Turned(s)
<1>1. /\ Types /\ WellShaped(s) /\ InState(s) /\ s.seen <= Len(nodes)
      /\ UNCHANGED <<text, more, value>>
  BY DEF Here
<1>2. "string" \in flags /\ "string" \in s.flags
  BY <1>1, PlainFlagsAgree DEF StringChar, PlainFlags
<1>3. /\ s.top = top /\ s.flags = flags \ NumberFlags /\ s.size = string_length
      /\ s.size \in Nat /\ s.seen \in Nat
      /\ "escaped" \in flags <=> "escaped" \in s.flags
  BY <1>1, <1>2, ShapeFacts DEF InState, NumberFlags
<1>4. /\ top \in 1 .. s.seen /\ top \in s.open /\ s.cells[top].kind \in {"string", "object"}
      /\ s.cells[top] = Cell(nodes[top]) /\ nodes[top] \in NodeType
      /\ "seek_value" \notin s.flags
  <2>1. FlagsOK(s) /\ s.top \in 0 .. s.seen
    BY <1>1, ShapeFacts DEF WellShaped
  <2>2. top \in 1 .. s.seen
    BY <1>2, <1>3, <2>1 DEF FlagsOK, None
  <2>3. nodes[top] \in NodeType
    BY <1>1, <1>3, <2>2 DEF Types
  <2> QED
    BY <1>1, <1>2, <1>3, <2>1, <2>2, <2>3 DEF FlagsOK, InState, None
<1>5. ~OpensNumber(s, b) /\ Iteration(s, b) = InString(s, b)
  BY <1>2 DEF OpensNumber, Opens, Iteration
<1>6. CASE b = "eof" \/ ("escaped" \in flags /\ b = "u?")
  BY <1>2, <1>3, <1>6 DEF StringChar, Turned, Refuses
<1>7. ASSUME b # "eof", ~("escaped" \in flags /\ b = "u?") PROVE ~Refuses(s, b)
  BY <1>2, <1>3, <1>7 DEF Refuses
<1>8. ASSUME ~Refuses(s, b),
             NEW fl \in SUBSET (PlainFlags \cup NumberFlags), NEW n \in Nat, StringGrows(n, fl),
             InString(s, b) = Flagged(s, fl \ NumberFlags, string_length + n)
      PROVE  Proceeds(s)
  <2>1. On(fl) /\ NoAllocation /\ Continues /\ num_digits' \in Nat
        /\ string_length' = string_length + n /\ string_length' \in Nat
    BY <1>1, <1>8 DEF StringGrows, Types
  <2>2. \E t \in {Iteration(s, b)} : Goes(t) /\ Stays(s, t) /\ ptr' = ptr + 1
    BY <1>1, <1>5, <1>8, <2>1, Moves
  <2> QED
    BY <1>5, <1>8, <2>2 DEF Proceeds, Effect
<1>9. CASE b # "eof" /\ "escaped" \in flags /\ b # "u?"
  <2>1. StringGrows(EscapeLength, flags \ {"escaped"})
    BY <1>9 DEF StringChar
  <2>2. EscapeLength \in Nat
    BY DEF EscapeLength
  <2>3. (flags \ {"escaped"}) \ NumberFlags = s.flags \ {"escaped"}
    BY <1>3
  <2>4. InString(s, b) = Flagged(s, s.flags \ {"escaped"}, string_length + EscapeLength)
    BY <1>3, <1>9 DEF InString, EscapeLength
  <2>5. flags \ {"escaped"} \in SUBSET (PlainFlags \cup NumberFlags)
    BY <1>1 DEF Types
  <2> QED
    BY <1>7, <1>8, <1>9, <2>1, <2>2, <2>3, <2>4, <2>5
<1>10. CASE b # "eof" /\ "escaped" \notin flags /\ b = "backslash"
  <2>1. StringGrows(0, flags \cup {"escaped"})
    BY <1>10 DEF StringChar
  <2>3. (flags \cup {"escaped"}) \ NumberFlags = s.flags \cup {"escaped"}
    BY <1>3 DEF NumberFlags
  <2>4. InString(s, b) = Flagged(s, s.flags \cup {"escaped"}, string_length + 0)
    BY <1>3, <1>10 DEF InString
  <2>5. flags \cup {"escaped"} \in SUBSET (PlainFlags \cup NumberFlags)
    BY <1>1 DEF Types, PlainFlags
  <2> QED
    BY <1>7, <1>8, <1>10, <2>1, <2>3, <2>4, <2>5
<1>11. CASE b # "eof" /\ "escaped" \notin flags /\ b \notin {"backslash", "quote"}
  <2>1. StringGrows(1, flags)
    BY <1>11 DEF StringChar
  <2>4. InString(s, b) = Flagged(s, s.flags, string_length + 1)
    BY <1>3, <1>11 DEF InString
  <2>5. flags \in SUBSET (PlainFlags \cup NumberFlags)
    BY <1>1 DEF Types
  <2> QED
    BY <1>3, <1>7, <1>8, <1>11, <2>1, <2>4, <2>5
<1>12. CASE "escaped" \notin flags /\ b = "quote"
  <2> DEFINE fl == flags \ {"string"}
  <2>1. StringEnds
    BY <1>12 DEF StringChar
  <2>2. ~Refuses(s, b)
    BY <1>7, <1>12
  <2>3. NoAllocation /\ Continues /\ UNCHANGED <<string_length, num_digits>>
    BY <2>1 DEF StringEnds
  <2>4. fl \in SUBSET (PlainFlags \cup NumberFlags) /\ "string" \notin fl
        /\ fl \ NumberFlags = s.flags \ {"string"}
    BY <1>1, <1>3 DEF Types
  <2>5. /\ nodes \in Seq(NodeType) /\ Len(nodes) \in Nat /\ string_length \in Nat
        /\ top \in 1 .. Len(nodes)
        /\ s.cells \in [1 .. s.seen -> CellType]
        /\ \A u \in 1 .. s.seen : s.cells[u] = Cell(nodes[u])
    BY <1>1, <1>3, <1>4, ShapeFacts DEF Types, InState
  <2>6. CASE nodes[top].type = "string"
    <3> DEFINE ns == [nodes EXCEPT ![top] = WithLength(nodes[top], string_length)]
               cells == [s.cells EXCEPT ![s.top].length = s.size]
    <3>1. flag_next(ns, top, fl, ptr + 1)
      BY <2>1, <2>5, <2>6 DEF StringEnds, WithLength
    <3>2. InString(s, b) = Told(fl \ NumberFlags, s.open, s.seen, cells, s.top)
      <4>1. s.cells[s.top].kind = "string"
        BY <1>3, <1>4, <2>6, CellTypes
      <4> QED
        BY <1>3, <1>12, <2>4, <4>1 DEF InString
    <3>3. /\ ns \in Seq(NodeType) /\ Len(ns) = Len(nodes)
          /\ \A u \in 1 .. Len(nodes) : u # top => ns[u] = nodes[u]
          /\ ns[top] = WithLength(nodes[top], string_length)
      <4>1. WithLength(nodes[top], string_length) \in NodeType
        BY <1>4, <2>5, NodeMeasured
      <4> QED
        BY <2>5, <4>1
    <3>4. SameMemory(nodes[top], ns[top]) /\ SameChildren(nodes[top], ns[top])
      BY <1>4, <2>5, <2>6, <3>3, NodeMeasured
    <3>5. cells \in [1 .. s.seen -> CellType] /\ \A u \in 1 .. s.seen : cells[u] = Cell(ns[u])
      <4>1. cells \in [1 .. s.seen -> CellType]
        <5> DEFINE measured == [s.cells[s.top] EXCEPT !.length = s.size]
        <5>1. measured \in CellType
          <6>1. s.cells[s.top] \in CellType /\ s.size \in Nat
            BY <1>3, <1>4, <2>5
          <6> QED
            BY <6>1 DEF CellType
        <5>2. cells = [s.cells EXCEPT ![s.top] = measured]
          OBVIOUS
        <5> HIDE DEF measured, cells
        <5> QED
          BY <1>3, <1>4, <2>5, <5>1, <5>2
      <4>2. cells[top] = [s.cells[top] EXCEPT !.length = string_length]
        BY <1>3, <1>4, <2>5
      <4>3. cells[top] = Cell(ns[top])
        BY <1>4, <2>5, <3>3, <4>2, NodeMeasured
      <4>4. \A u \in 1 .. s.seen : u # top => cells[u] = Cell(ns[u])
        <5>1. \A u \in 1 .. s.seen : u # top => cells[u] = s.cells[u]
          BY <1>3, <2>5
        <5>2. \A u \in 1 .. s.seen : u \in 1 .. Len(nodes)
          BY <1>1, <1>3, <2>5
        <5> QED
          BY <2>5, <3>3, <5>1, <5>2
      <4> QED
        BY <4>1, <4>3, <4>4
    <3> HIDE DEF ns, cells, fl
    <3>6. \E t \in {Told(fl \ NumberFlags, s.open, s.seen, cells, s.top)} :
            Goes(t) /\ Ends(s, t) /\ ptr' = ptr + 1
      <4> DEFINE t == Told(fl \ NumberFlags, s.open, s.seen, cells, s.top)
      <4>1. Goes(t) /\ Ends(s, t) /\ ptr' = ptr + 1
        <5>1. cells \in [1 .. s.seen -> CellType] /\ ns \in Seq(NodeType) /\ Len(ns) = Len(nodes)
          BY <3>3, <3>5
        <5>2. /\ \A u \in 1 .. s.seen : cells[u] = Cell(ns[u])
              /\ \A u \in 1 .. Len(nodes) : u # top => ns[u] = nodes[u]
          BY <3>3, <3>5
        <5>3. /\ Types /\ WellShaped(s) /\ InState(s) /\ s.seen <= Len(nodes)
              /\ UNCHANGED <<first_pass, text, more, value>>
              /\ top \in 1 .. s.seen /\ top \in s.open
          BY <1>1, <1>4
        <5>4. /\ SameMemory(nodes[top], ns[top]) /\ SameChildren(nodes[top], ns[top])
              /\ fl \in SUBSET (PlainFlags \cup NumberFlags) /\ "string" \notin fl
              /\ flag_next(ns, top, fl, ptr + 1) /\ NoAllocation /\ Continues
              /\ UNCHANGED <<string_length, num_digits>>
          BY <2>3, <2>4, <3>1, <3>4
        <5> QED
          BY <5>1, <5>2, <5>3, <5>4, TopTold, Zenon
      <4> HIDE DEF t
      <4> QED
        BY <4>1 DEF t
    <3> QED
      BY <1>5, <2>2, <3>2, <3>6 DEF Proceeds, Effect
  <2>7. CASE nodes[top].type # "string"
    <3> DEFINE cells == [s.cells EXCEPT ![s.top].bytes = @ + s.size + 1]
               names == IF first_pass THEN nodes[top].names ELSE Append(nodes[top].names, string_length)
               bytes == nodes[top].name_bytes + NameBytes
               node == WithName(nodes[top], bytes, names)
               t == State((s.flags \ {"string"}) \cup {"seek_value", "need_colon"}, s.top, 0,
                          s.open, s.seen, cells)
    <3>1. /\ nodes' = [nodes EXCEPT ![top] = node]
          /\ flags' = fl \cup {"seek_value", "need_colon"} /\ ptr' = ptr + 1 /\ top' = top
      BY <2>1, <2>5, <2>7 DEF StringEnds, WithName
    <3>2. InString(s, b) = t
      <4>1. s.cells[s.top].kind # "string"
        BY <1>3, <1>4, <2>7, CellTypes
      <4> QED
        BY <1>3, <1>12, <4>1 DEF InString
    <3>3. /\ names \in Seq(Nat) /\ NameBytes = string_length + 1
          /\ nodes[top].name_bytes \in Nat /\ bytes \in Nat
      <4>1. nodes[top].names \in Seq(Nat) /\ nodes[top].name_bytes \in Nat
        BY <1>4, NodeTypes
      <4> QED
        BY <2>5, <4>1 DEF NameBytes
    <3> HIDE DEF names
    <3>4. /\ node \in NodeType /\ SameMemory(nodes[top], node) /\ SameChildren(nodes[top], node)
          /\ Cell(node) = [Cell(nodes[top]) EXCEPT !.bytes = bytes]
      BY <1>4, <3>3, NodeNamed
    <3> HIDE DEF node
    <3>5. /\ nodes' \in Seq(NodeType) /\ Len(nodes') = Len(nodes) /\ nodes'[top] = node
          /\ \A u \in 1 .. Len(nodes) : u # top => nodes'[u] = nodes[u]
      BY <2>5, <3>1, <3>4
    <3>6. \A u \in 1 .. Len(nodes) :
            SameMemory(nodes[u], nodes'[u]) /\ SameChildren(nodes[u], nodes'[u])
      BY <3>4, <3>5 DEF SameMemory, SameChildren
    <3>7. \A u \in 1 .. s.seen : cells[u] = Cell(nodes'[u])
      <4>1. cells[top] = [s.cells[top] EXCEPT !.bytes = @ + string_length + 1]
        BY <1>3, <1>4, <2>5
      <4>2. s.cells[top].bytes = nodes[top].name_bytes
        BY <1>4, CellTypes
      <4>3. s.cells[top].bytes + string_length + 1 = bytes
        <5>1. bytes = nodes[top].name_bytes + (string_length + 1)
          BY <3>3
        <5>2. string_length \in Nat /\ nodes[top].name_bytes \in Nat
          BY <2>5, <3>3
        <5>3. ASSUME NEW m \in Nat, NEW n \in Nat PROVE m + n + 1 = m + (n + 1)
          OBVIOUS
        <5>4. s.cells[top].bytes + string_length + 1 = s.cells[top].bytes + (string_length + 1)
          BY <4>2, <5>2, <5>3
        <5> HIDE DEF bytes
        <5> QED
          BY <4>2, <5>1, <5>4
      <4>6. cells[top] = Cell(nodes'[top])
        BY <1>4, <3>4, <3>5, <4>1, <4>3
      <4>4. \A u \in 1 .. s.seen : u # top => cells[u] = s.cells[u]
        BY <1>3, <2>5
      <4>5. \A u \in 1 .. s.seen : u \in 1 .. Len(nodes)
        BY <1>1, <1>3, <2>5
      <4> QED
        BY <2>5, <3>5, <4>4, <4>5, <4>6
    <3>8. "string" \notin flags' /\ flags' \subseteq PlainFlags \cup NumberFlags
          /\ flags' \ NumberFlags = (s.flags \ {"string"}) \cup {"seek_value", "need_colon"}
      BY <2>4, <3>1 DEF PlainFlags, NumberFlags
    <3> HIDE DEF cells
    <3>9. /\ t.flags = flags' \ NumberFlags /\ t.top = top /\ t.seen = s.seen /\ t.open = s.open
          /\ t.cells = cells
      BY <1>3, <3>8, StateParts
    <3> HIDE DEF t, fl
    <3>10. UNCHANGED <<root, alloc, live, phase, outcome>>
      BY <2>3 DEF NoAllocation, Continues
    <3>11. t.seen = Seen'
      BY <1>1, <3>5, <3>9, <3>10, SeenSame DEF InState
    <3>12. Follows(t, t.seen)
      BY <3>1, <3>5, <3>7, <3>8, <3>9 DEF Follows
    <3>13. InState(t)'
      BY <1>3, <3>8, <3>9, <3>11, <3>12, InStateThen
    <3>14. Types'
      BY <1>1, <2>3, <3>1, <3>5, <3>8, <3>10 DEF Types
    <3>16. \A u \in 1 .. Len(nodes) : u > s.seen => nodes'[u] = nodes[u]
      BY <1>3, <1>4, <2>5, <3>5
    <3>15. Goes(t) /\ Stays(s, t)
      BY <1>1, <3>16, <3>5, <3>6, <3>9, <3>10, <3>13, <3>14 DEF Goes, Stays
    <3> QED
      BY <1>5, <2>2, <3>1, <3>2, <3>15 DEF Proceeds, Effect
  <2> QED
    BY <2>6, <2>7
<1> QED
  BY <1>6, <1>9, <1>10, <1>11, <1>12

LEMMA PlainMoves ==
  ASSUME NEW s, Here(s), UNCHANGED first_pass,
         NEW fl \in SUBSET (PlainFlags \cup NumberFlags), "string" \notin fl, NEW size,
         Plain(On(fl))
  PROVE  LET t == Flagged(s, fl \ NumberFlags, size)
         IN  Goes(t) /\ Stays(s, t) /\ ptr' = ptr + 1
<1>1. /\ Types /\ WellShaped(s) /\ InState(s) /\ UNCHANGED <<first_pass, text, more, value>>
  BY DEF Here
<1>2. /\ On(fl) /\ NoAllocation /\ Continues /\ UNCHANGED <<string_length, num_digits>>
  BY DEF Plain
<1>3. num_digits' \in Nat /\ string_length' \in Nat
  BY <1>1, <1>2 DEF Types
<1> QED
  BY <1>1, <1>2, <1>3, Moves

LEMMA BlankMoves ==
  ASSUME NEW s, Here(s), UNCHANGED first_pass, "string" \notin flags, Plain(On(flags))
  PROVE  Goes(s) /\ Stays(s, s) /\ ptr' = ptr + 1
<1>1. Types /\ WellShaped(s) /\ InState(s)
  BY DEF Here
<1>2. flags \in SUBSET (PlainFlags \cup NumberFlags)
  BY <1>1 DEF Types
<1>3. s = Flagged(s, flags \ NumberFlags, s.size)
  BY <1>1, ShapeFacts DEF IsState, Flagged, InState
<1> QED
  BY <1>2, <1>3, PlainMoves

LEMMA DoneProceeds ==
  ASSUME NEW s, Here(s), Done
  PROVE  \/ Proceeds(s) \/ Turned(s)
         \/ b = "eof" /\ PassEnds /\ "done" \in s.flags
<1>1. Types /\ WellShaped(s) /\ InState(s)
  BY DEF Here
<1>2. "done" \in s.flags /\ "string" \notin s.flags /\ "string" \notin flags
  BY <1>1, PlainFlagsAgree DEF Done, PlainFlags
<1>3. ~OpensNumber(s, b) /\ Iteration(s, b) = s /\ (Refuses(s, b) <=> b # " ")
  BY <1>2 DEF OpensNumber, Opens, Iteration, Refuses
<1>4. CASE b = "eof"
  BY <1>2, <1>4 DEF Done
<1>5. CASE b = " "
  <2>1. Plain(On(flags)) /\ UNCHANGED first_pass
    BY <1>5 DEF Done
  <2>2. Goes(s) /\ Stays(s, s) /\ ptr' = ptr + 1
    BY <1>2, <2>1, BlankMoves
  <2> QED
    BY <1>3, <1>5, <2>2 DEF Proceeds, Effect
<1>6. CASE b \notin {"eof", " "}
  BY <1>3, <1>6 DEF Done, Turned
<1> QED
  BY <1>4, <1>5, <1>6

(* A character ends the top value, an array or an object. *)
LEMMA TopEnds ==
  ASSUME NEW s, Here(s), UNCHANGED first_pass, top # None, "done" \notin s.flags,
         NEW fl \in SUBSET (PlainFlags \cup NumberFlags), "string" \notin fl,
         Plain(flag_next(nodes, top, fl, ptr + 1))
  PROVE  LET t == Told(fl \ NumberFlags, s.open, s.seen, s.cells, s.top)
         IN  Goes(t) /\ Ends(s, t) /\ ptr' = ptr + 1
<1>1. /\ Types /\ WellShaped(s) /\ InState(s) /\ s.seen <= Len(nodes)
      /\ UNCHANGED <<text, more, value>>
  BY DEF Here
<1>2. /\ s.seen \in Nat /\ top \in 1 .. s.seen /\ top \in s.open
  <2>1. FlagsOK(s) /\ s.top \in 0 .. s.seen /\ s.top = top /\ s.seen \in Nat
    BY <1>1, ShapeFacts DEF WellShaped, InState
  <2> QED
    BY <2>1 DEF FlagsOK, None
<1>3. /\ nodes \in Seq(NodeType) /\ s.cells \in [1 .. s.seen -> CellType]
      /\ \A u \in 1 .. s.seen : s.cells[u] = Cell(nodes[u])
  BY <1>1, ShapeFacts DEF InState, Types
<1>4. SameMemory(nodes[top], nodes[top]) /\ SameChildren(nodes[top], nodes[top])
  BY DEF SameMemory, SameChildren
<1>5. /\ flag_next(nodes, top, fl, ptr + 1) /\ NoAllocation /\ Continues
      /\ UNCHANGED <<string_length, num_digits>>
  BY DEF Plain
<1> QED
  BY <1>1, <1>2, <1>3, <1>4, <1>5, TopTold

LEMMA ObjectCharProceeds ==
  ASSUME NEW s, Here(s), ObjectChar, UNCHANGED first_pass
  PROVE  Proceeds(s) \/ Turned(s)
<1>1. /\ Types /\ WellShaped(s) /\ InState(s)
  BY DEF Here
<1>2. /\ {"string", "done", "seek_value"} \cap flags = {}
      /\ {"string", "done", "seek_value"} \cap s.flags = {}
      /\ "need_comma" \in flags <=> "need_comma" \in s.flags
      /\ s.flags = flags \ NumberFlags
      /\ flags \in SUBSET (PlainFlags \cup NumberFlags)
  BY <1>1, PlainFlagsAgree DEF ObjectChar, Inside, PlainFlags, Types
<1>3. /\ ~OpensNumber(s, b) /\ Iteration(s, b) = InObject(s, b)
      /\ Refuses(s, b) <=> IF "need_comma" \in s.flags THEN b \notin {" ", "}", ","}
                           ELSE b \notin {" ", "}", "quote"}
  BY <1>2 DEF OpensNumber, Opens, Iteration, Refuses
<1>4. top # None
  <2>1. FlagsOK(s) /\ s.top = top
    BY <1>1 DEF WellShaped, InState
  <2> QED
    BY <1>2, <2>1 DEF FlagsOK
<1>5. CASE b = " "
  <2>1. Plain(On(flags))
    BY <1>5 DEF ObjectChar
  <2>2. Goes(s) /\ Stays(s, s) /\ ptr' = ptr + 1
    BY <1>2, <2>1, BlankMoves
  <2>3. Iteration(s, b) = s /\ ~Refuses(s, b)
    BY <1>3, <1>5 DEF InObject
  <2> QED
    BY <1>3, <2>2, <2>3 DEF Proceeds, Effect
<1>6. CASE b = "quote" /\ "need_comma" \notin flags
  <2>1. /\ On(flags \cup {"string"}) /\ string_length' = 0
        /\ NoAllocation /\ Continues /\ UNCHANGED num_digits
    BY <1>6 DEF ObjectChar, MemberMayFollow
  <2>2. (flags \cup {"string"}) \ NumberFlags = s.flags \cup {"string"}
    BY <1>2 DEF NumberFlags
  <2>3. Iteration(s, b) = Flagged(s, s.flags \cup {"string"}, 0) /\ ~Refuses(s, b)
    BY <1>2, <1>3, <1>6 DEF InObject
  <2>4. flags \cup {"string"} \in SUBSET (PlainFlags \cup NumberFlags)
    BY <1>2 DEF PlainFlags
  <2>5. num_digits' \in Nat /\ string_length' \in Nat
    BY <1>1, <2>1 DEF Types
  <2>6. UNCHANGED <<first_pass, text, more, value>>
    BY DEF Here
  <2>7. \E t \in {Iteration(s, b)} : Goes(t) /\ Stays(s, t) /\ ptr' = ptr + 1
    BY <1>1, <2>1, <2>2, <2>3, <2>4, <2>5, <2>6, Moves
  <2> QED
    BY <1>3, <2>3, <2>7 DEF Proceeds, Effect
<1>7. CASE b = "," /\ "need_comma" \in flags
  <2>1. Plain(On(flags \ {"need_comma"}))
    BY <1>7 DEF ObjectChar
  <2>2. (flags \ {"need_comma"}) \ NumberFlags = s.flags \ {"need_comma"}
    BY <1>2
  <2>3. Iteration(s, b) = Flagged(s, s.flags \ {"need_comma"}, 0) /\ ~Refuses(s, b)
    BY <1>2, <1>3, <1>7 DEF InObject
  <2>4. flags \ {"need_comma"} \in SUBSET (PlainFlags \cup NumberFlags)
        /\ "string" \notin flags \ {"need_comma"}
    BY <1>2
  <2>5. \E t \in {Iteration(s, b)} : Goes(t) /\ Stays(s, t) /\ ptr' = ptr + 1
    BY <2>1, <2>2, <2>3, <2>4, PlainMoves
  <2> QED
    BY <1>3, <2>3, <2>5 DEF Proceeds, Effect
<1>8. CASE b = "}"
  <2>1. Plain(flag_next(nodes, top, flags \ {"need_comma"}, ptr + 1))
    BY <1>8 DEF ObjectChar
  <2>2. (flags \ {"need_comma"}) \ NumberFlags = s.flags \ {"need_comma"}
    BY <1>2
  <2>3. Iteration(s, b) = Told(s.flags \ {"need_comma"}, s.open, s.seen, s.cells, s.top)
        /\ ~Refuses(s, b)
    BY <1>2, <1>3, <1>8 DEF InObject
  <2>4. flags \ {"need_comma"} \in SUBSET (PlainFlags \cup NumberFlags)
        /\ "string" \notin flags \ {"need_comma"} /\ "done" \notin s.flags
    BY <1>2
  <2>5. \E t \in {Iteration(s, b)} : Goes(t) /\ Ends(s, t) /\ ptr' = ptr + 1
    BY <1>4, <2>1, <2>2, <2>3, <2>4, TopEnds
  <2> QED
    BY <1>3, <2>3, <2>5 DEF Proceeds, Effect
<1>9. CASE \/ b \notin {" ", "quote", "}", ","}
           \/ b = "," /\ "need_comma" \notin flags
           \/ b = "quote" /\ "need_comma" \in flags
  BY <1>2, <1>3, <1>9 DEF ObjectChar, MemberMayFollow, Turned
<1> QED
  BY <1>5, <1>6, <1>7, <1>8, <1>9

(* The next value of the second pass is the one that was counted here. *)
Fits(s) ==
  ~first_pass /\ Opens(s, b) =>
    /\ alloc \in 1 .. Len(nodes)
    /\ LET c == Cell(nodes[alloc])
       IN  /\ c.parent = s.top /\ c.kind = Kind(TypeOf[b])
           /\ ~NeedsMemory(c) => c.length = 0 /\ c.bytes = 0
    /\ OpensNumber(s, b) => BehindNumber \in Nat

LEMMA AllocatedNode ==
  ASSUME NEW n \in NodeType
  PROVE  LET a == Allocated(n)
         IN  /\ a \in NodeType
             /\ a.type = n.type /\ a.parent = n.parent /\ a.values = n.values
             /\ TakesMemory(n) <=> NeedsMemory(Cell(n))
             /\ TakesMemory(n) => /\ a.allocated /\ a.room = Holds(n)
                                  /\ a.name_room = n.name_bytes
                                  /\ a.length = 0 /\ a.name_bytes = 0
             /\ ~TakesMemory(n) => a = n
<1>1. TakesMemory(n) <=> NeedsMemory(Cell(n))
  <2>1. /\ Cell(n).kind = Kind(n.type) /\ Cell(n).length = n.length
        /\ Kind(n.type) = "array" <=> n.type = "array"
        /\ Kind(n.type) = "object" <=> n.type = "object"
        /\ Kind(n.type) = "string" <=> n.type = "string"
    BY CellTypes
  <2> QED
    BY <2>1 DEF TakesMemory, NeedsMemory
<1>2. CASE TakesMemory(n)
  <2>1. Allocated(n) = [n EXCEPT !.allocated = TRUE, !.room = Holds(n),
                                 !.name_room = n.name_bytes, !.length = 0, !.name_bytes = 0]
    BY <1>2 DEF Allocated
  <2>2. Holds(n) \in Nat
    BY NodeTypes DEF Holds
  <2>3. Allocated(n) \in NodeType
    <3> DEFINE room == Holds(n)
               with_room == [n EXCEPT !.allocated = TRUE, !.room = room, !.name_room = n.name_bytes]
               emptied == [with_room EXCEPT !.length = 0, !.name_bytes = 0]
    <3>1. room \in Nat /\ n.name_bytes \in Nat
      BY <2>2, NodeTypes
    <3>2. Allocated(n) = emptied
      BY <2>1
    <3> HIDE DEF room
    <3>3. with_room \in NodeType
      BY <3>1 DEF NodeType
    <3> HIDE DEF with_room
    <3>4. emptied \in NodeType
      BY <3>3 DEF NodeType
    <3> QED
      BY <3>2, <3>4
  <2>4. /\ Allocated(n).type = n.type /\ Allocated(n).parent = n.parent
        /\ Allocated(n).values = n.values /\ Allocated(n).room = Holds(n)
        /\ Allocated(n).name_room = n.name_bytes
        /\ Allocated(n).length = 0 /\ Allocated(n).name_bytes = 0
    BY <2>1 DEF NodeType
  <2>5. Allocated(n).allocated = TRUE
    BY <2>1 DEF NodeType
  <2> QED
    BY <1>1, <1>2, <2>3, <2>4, <2>5
<1>3. CASE ~TakesMemory(n)
  BY <1>1, <1>3 DEF Allocated
<1> QED
  BY <1>2, <1>3

LEMMA BlankNode ==
  ASSUME top \in Nat, NEW type \in {"object", "array", "string", "word", "integer"}
  PROVE  /\ Blank(type) \in NodeType /\ Cell(Blank(type)) = NewCell(Kind(type), top)
         /\ ~Blank(type).allocated /\ Blank(type).values = <<>>
<1>1. Blank(type) \in NodeType
  BY DEF Blank, NodeType
<1>2. Cell(Blank(type)) = NewCell(Kind(type), top)
  BY DEF Cell, NewCell, Blank
<1>3. ~Blank(type).allocated
  BY DEF Blank
<1>4. Blank(type).values = <<>>
  BY DEF Blank
<1> QED
  BY <1>1, <1>2, <1>3, <1>4

(* The values with a new one. *)
Has(ns, n, cells) ==
  /\ ns \in Seq(NodeType) /\ n \in 1 .. Len(ns)
  /\ cells \in [1 .. n -> CellType] /\ \A u \in 1 .. n : cells[u] = Cell(ns[u])
  /\ cells[n].parent \in 0 .. n - 1

LEMMA ExtendedCells ==
  ASSUME NEW s, WellShaped(s), NEW kind \in {"object", "array", "string", "word", "number"}
  PROVE  /\ Extended(s, kind) \in [1 .. s.seen + 1 -> CellType]
         /\ \A u \in 1 .. s.seen : Extended(s, kind)[u] = s.cells[u]
         /\ Extended(s, kind)[s.seen + 1] = NewCell(kind, s.top)
         /\ NewCell(kind, s.top).parent = s.top
<1>1. s.seen \in Nat /\ s.top \in Nat /\ s.cells \in [1 .. s.seen -> CellType]
  BY ShapeFacts
<1>2. NewCell(kind, s.top) \in CellType /\ NewCell(kind, s.top).parent = s.top
  BY <1>1 DEF NewCell, CellType
<1> QED
  BY <1>1, <1>2 DEF Extended

LEMMA CreatedHas ==
  ASSUME NEW s, Here(s), Fits(s), Opens(s, b)
  PROVE  LET v  == s.seen + 1
             ns == Created(TypeOf[b])
         IN  /\ Newest(ns) = v
             /\ Has(ns, v, Extended(s, Kind(TypeOf[b])))
             /\ Len(ns) = IF first_pass THEN Len(nodes) + 1 ELSE Len(nodes)
             /\ first_pass => Len(nodes) = s.seen
             /\ ~first_pass => alloc = v /\ alloc <= Len(nodes)
<1> DEFINE v == s.seen + 1
           type == TypeOf[b]
           kind == Kind(TypeOf[b])
           cells == Extended(s, kind)
<1>1. /\ Types /\ WellShaped(s) /\ s.seen \in Nat /\ s.top \in 0 .. s.seen /\ s.top = top
      /\ s.seen = Seen /\ s.seen <= Len(nodes)
      /\ nodes \in Seq(NodeType) /\ Len(nodes) \in Nat /\ alloc \in Nat
      /\ \A u \in 1 .. s.seen : s.cells[u] = Cell(nodes[u])
  BY ShapeFacts DEF Here, InState, Types
<1>2. /\ kind \in {"object", "array", "string", "word", "number"}
      /\ type \in {"object", "array", "string", "word", "integer"}
  BY KindsOpened DEF Opens
<1> HIDE DEF type, kind
<1>3. /\ cells \in [1 .. v -> CellType]
      /\ \A u \in 1 .. s.seen : cells[u] = s.cells[u]
      /\ cells[v] = NewCell(kind, s.top)
      /\ NewCell(kind, s.top).parent = s.top
  BY <1>1, <1>2, ExtendedCells
<1> HIDE DEF cells
<1>4. cells[v].parent \in 0 .. v - 1
  BY <1>1, <1>3
<1>5. CASE first_pass
  <2>1. Len(nodes) = s.seen
    BY <1>1, <1>5 DEF Seen
  <2>2. /\ Blank(type) \in NodeType
        /\ Cell(Blank(type)) = NewCell(kind, top)
    <3>1. top \in Nat
      BY <1>1
    <3> QED
      BY <1>2, <3>1, BlankNode DEF kind, type
  <2>3. Created(type) = Append(nodes, Blank(type))
    BY <1>5 DEF Created
  <2> DEFINE new == Blank(type)
             ns == Append(nodes, new)
  <2> HIDE DEF new
  <2>4. /\ ns \in Seq(NodeType) /\ Len(ns) = v /\ ns[v] = new
        /\ \A u \in 1 .. s.seen : ns[u] = nodes[u]
    BY <1>1, <2>1, <2>2 DEF new
  <2> HIDE DEF ns
  <2>5. \A u \in 1 .. v : cells[u] = Cell(ns[u])
    <3>1. cells[v] = Cell(ns[v])
      BY <1>1, <1>3, <2>2, <2>4 DEF new
    <3>2. \A u \in 1 .. s.seen : cells[u] = Cell(ns[u])
      BY <1>1, <1>3, <2>4
    <3> QED
      BY <1>1, <3>1, <3>2
  <2>6. v \in 1 .. Len(ns) /\ Len(ns) = Len(nodes) + 1
    BY <1>1, <2>1, <2>4
  <2>7. Has(ns, v, cells)
    BY <1>3, <1>4, <2>4, <2>5, <2>6 DEF Has
  <2>8. Newest(ns) = v
    BY <1>5, <2>4 DEF Newest
  <2> QED
    BY <1>5, <2>1, <2>3, <2>6, <2>7, <2>8 DEF ns, new, type, kind, cells
<1>6. CASE ~first_pass
  <2>1. /\ alloc \in 1 .. Len(nodes)
        /\ Cell(nodes[alloc]).parent = s.top /\ Cell(nodes[alloc]).kind = kind
        /\ ~NeedsMemory(Cell(nodes[alloc])) =>
             Cell(nodes[alloc]).length = 0 /\ Cell(nodes[alloc]).bytes = 0
    BY <1>6 DEF Fits, kind
  <2>2. alloc = v
    BY <1>1, <1>6, <2>1 DEF Seen, None
  <2> DEFINE n == nodes[v]
             a == Allocated(n)
             ns == [nodes EXCEPT ![v] = a]
  <2>3. n \in NodeType
    BY <1>1, <2>1, <2>2
  <2>4. /\ a \in NodeType /\ a.type = n.type /\ a.parent = n.parent
        /\ TakesMemory(n) <=> NeedsMemory(Cell(n))
        /\ TakesMemory(n) => a.length = 0 /\ a.name_bytes = 0
        /\ ~TakesMemory(n) => a = n
    BY <2>3, AllocatedNode
  <2>5. Created(type) = ns
    BY <1>6, <2>2 DEF Created
  <2> HIDE DEF n
  <2>6. Cell(a) = NewCell(kind, s.top)
    <3>1. /\ Cell(n).kind = Kind(n.type) /\ Cell(n).parent = n.parent
          /\ Cell(n).length = n.length /\ Cell(n).bytes = n.name_bytes
      BY <2>3, CellTypes
    <3>2. a.length = 0 /\ a.name_bytes = 0
      BY <2>1, <2>2, <2>4, <3>1 DEF n
    <3>3. Kind(a.type) = kind /\ a.parent = s.top
      BY <2>1, <2>2, <2>4, <3>1 DEF n
    <3> HIDE DEF a
    <3> QED
      BY <3>2, <3>3 DEF Cell, NewCell
  <2> HIDE DEF a
  <2>7. /\ ns \in Seq(NodeType) /\ Len(ns) = Len(nodes) /\ ns[v] = a
        /\ \A u \in 1 .. Len(nodes) : u # v => ns[u] = nodes[u]
    BY <1>1, <2>1, <2>2, <2>4
  <2> HIDE DEF ns
  <2>8. \A u \in 1 .. v : cells[u] = Cell(ns[u])
    <3>1. cells[v] = Cell(ns[v])
      BY <1>3, <2>6, <2>7
    <3>2. \A u \in 1 .. s.seen : cells[u] = Cell(ns[u])
      BY <1>1, <1>3, <2>7
    <3> QED
      BY <1>1, <3>1, <3>2
  <2>9. v \in 1 .. Len(ns)
    BY <1>1, <2>1, <2>2, <2>7
  <2>10. Has(ns, v, cells)
    BY <1>3, <1>4, <2>7, <2>8, <2>9 DEF Has
  <2>11. Newest(ns) = v
    BY <1>6, <2>2 DEF Newest
  <2>12. alloc <= Len(nodes)
    BY <1>1, <2>1
  <2> QED
    BY <1>6, <2>2, <2>5, <2>7, <2>10, <2>11, <2>12 DEF type, kind, cells
<1> QED
  BY <1>5, <1>6

LEMMA SeenGrows ==
  ASSUME Types, NEW n \in Nat, NEW type, new_value(type, TRUE), UNCHANGED first_pass,
         first_pass => Len(nodes) = n /\ Len(nodes') = n + 1,
         ~first_pass => alloc = n + 1 /\ alloc <= Len(nodes) /\ Len(nodes') = Len(nodes)
  PROVE  Seen' = n + 1
<1>1. Len(nodes) \in Nat /\ alloc \in Nat
  BY DEF Types
<1>2. CASE first_pass
  BY <1>2 DEF Seen
<1>3. CASE ~first_pass
  <2>1. alloc' = IF alloc < Len(nodes) THEN alloc + 1 ELSE None
    BY <1>3 DEF new_value
  <2>2. CASE alloc < Len(nodes)
    <3>1. alloc' = alloc + 1 /\ alloc' # None /\ alloc = n + 1
      BY <1>1, <1>3, <2>1, <2>2 DEF None
    <3> QED
      BY <1>3, <3>1 DEF Seen
  <2>3. CASE ~(alloc < Len(nodes))
    <3>1. alloc' = None /\ Len(nodes') = n + 1
      BY <1>1, <1>3, <2>1, <2>3
    <3> QED
      BY <1>3, <3>1 DEF Seen
  <2> QED
    BY <2>2, <2>3
<1> QED
  BY <1>2, <1>3

(* The first pass begins to read a number. *)
StartsNumber(s) ==
  /\ first_pass /\ OpensNumber(s, b)
  /\ Types' /\ \E p \in {ptr} : InNumber(s, p)'
  /\ ptr <= Len(text) /\ ptr' \in {ptr, ptr + 1}
  /\ new_value("integer", TRUE) /\ nodes' = Created("integer")
  /\ UNCHANGED <<first_pass, phase, outcome, text, more, value>>

LEMMA ValueOpens ==
  ASSUME NEW s, Here(s), Fits(s), Opens(s, b), UNCHANGED first_pass,
         new_value(TypeOf[b], TRUE), TRUE \in AllocOutcomes,
         Opened(TypeOf[b], Created(TypeOf[b])), Continues
  PROVE  Proceeds(s) \/ StartsNumber(s)
<1> DEFINE v == s.seen + 1
           type == TypeOf[b]
           kind == Kind(TypeOf[b])
           ns == Created(TypeOf[b])
           cells == Extended(s, Kind(TypeOf[b]))
           fl == flags \ {"seek_value"}
           t == Iteration(s, b)
<1>1. /\ Types /\ WellShaped(s) /\ InState(s) /\ s.seen \in Nat /\ s.top = top
      /\ s.top \in 0 .. s.seen
      /\ s.flags = flags \ NumberFlags /\ flags \subseteq PlainFlags \cup NumberFlags
      /\ UNCHANGED <<text, more, value>>
  BY ShapeFacts DEF Here, InState, Types
<1>2. /\ "seek_value" \in flags /\ {"string", "done"} \cap flags = {}
      /\ "seek_value" \in s.flags
      /\ {"string", "done", "need_comma", "need_colon"} \cap s.flags = {}
  BY <1>1, PlainFlagsAgree DEF Opens, PlainFlags
<1>3. /\ b \in DOMAIN TypeOf
      /\ kind \in {"object", "array", "string", "word", "number"}
      /\ type \in {"object", "array", "string", "word", "integer"}
      /\ kind = Kind(type)
      /\ kind = "number" <=> b \in Digits \cup {"-"}
  BY KindsOpened DEF Opens
<1>4. b \notin {" ", "]"}
  BY <1>3 DEF TypeOf, Digits
<1>5. ~Refuses(s, b) /\ t = Opening(s, kind)
  BY <1>2, <1>3, <1>4 DEF Refuses, Iteration, Seeking
<1>6. /\ Newest(ns) = v /\ Has(ns, v, cells)
      /\ Len(ns) = IF first_pass THEN Len(nodes) + 1 ELSE Len(nodes)
      /\ first_pass => Len(nodes) = s.seen
      /\ ~first_pass => alloc = v /\ alloc <= Len(nodes)
  BY CreatedHas
<1>7. fl \in SUBSET (PlainFlags \cup NumberFlags) /\ fl \ NumberFlags = s.flags \ {"seek_value"}
  BY <1>1
<1>8. /\ new_value(type, TRUE) /\ Opened(type, ns) /\ UNCHANGED <<phase, outcome>>
  BY DEF Continues
<1>9. /\ ns \in Seq(NodeType) /\ v \in 1 .. Len(ns) /\ cells \in [1 .. v -> CellType]
      /\ \A u \in 1 .. v : cells[u] = Cell(ns[u])
      /\ cells[v].parent \in 0 .. v - 1
  BY <1>6 DEF Has
<1> HIDE DEF type, kind, ns, cells, fl, t, v
<1>10. root' \in Nat /\ alloc' \in Nat
  BY <1>1, <1>8 DEF new_value, Types, None, v
<1>11. ASSUME Len(nodes') = Len(ns) PROVE Seen' = v
  <2>1. /\ first_pass => Len(nodes) = s.seen /\ Len(nodes') = s.seen + 1
        /\ ~first_pass => alloc = s.seen + 1 /\ alloc <= Len(nodes) /\ Len(nodes') = Len(nodes)
    BY <1>6, <1>11 DEF v
  <2> QED
    BY <1>1, <1>8, <2>1, SeenGrows DEF v
<1>12. TRUE \in AllocOutcomes /\ new_value(type, TRUE) /\ ns = Created(type)
  BY <1>8 DEF type, ns
<1>13. ASSUME NEW r, r = t, kind \in {"object", "array", "string"}
       PROVE  Goes(r) /\ Begins(s, r, type) /\ ptr' = ptr + 1
  <2> DEFINE new_fl == IF type = "object" THEN fl
                       ELSE IF type = "array" THEN flags ELSE fl \cup {"string"}
             size == IF type = "string" THEN 0 ELSE string_length
  <2>1. type \in {"object", "array", "string"} /\ type = kind
    BY <1>3, <1>13 DEF Kind
  <2>2. /\ flags' = new_fl /\ ptr' = ptr + 1 /\ top' = v /\ nodes' = ns
        /\ string_length' = size /\ num_digits' = num_digits
    BY <1>6, <1>8, <2>1 DEF Opened, fl
  <2>3. new_fl \in SUBSET (PlainFlags \cup NumberFlags)
    BY <1>1, <1>7 DEF PlainFlags
  <2>4. r = State(new_fl \ NumberFlags, v, 0, s.open \cup {v}, v, cells)
    <3>1. kind \notin {"word", "number"}
      BY <1>13
    <3>2. r = State(CASE kind = "object" -> s.flags \ {"seek_value"}
                      [] kind = "array" -> s.flags
                      [] OTHER -> (s.flags \ {"seek_value"}) \cup {"string"},
                    v, 0, s.open \cup {v}, v, cells)
      BY <1>5, <1>13, <3>1 DEF Opening, v, cells, kind
    <3>3. new_fl \ NumberFlags = CASE kind = "object" -> s.flags \ {"seek_value"}
                                  [] kind = "array" -> s.flags
                                  [] OTHER -> (s.flags \ {"seek_value"}) \cup {"string"}
      BY <1>1, <1>7, <2>1 DEF NumberFlags
    <3> QED
      BY <3>2, <3>3
  <2>5. /\ r.flags = new_fl \ NumberFlags /\ r.top = v /\ r.size = 0 /\ r.seen = v
        /\ r.open = s.open \cup {v} /\ r.cells = cells
    BY <2>4, StateParts
  <2>6. "string" \in new_fl => size = 0
    BY <1>2, <2>1 DEF fl
  <2>7. size \in Nat
    BY <1>1 DEF Types
  <2> HIDE DEF new_fl, size
  <2>8. r.seen = Seen'
    BY <1>11, <2>2, <2>5
  <2>9. Follows(r, r.seen)
    BY <1>9, <2>2, <2>3, <2>5 DEF Follows
  <2>10. InState(r)'
    <3>1. r.seen \in Nat
      BY <1>1, <2>5 DEF v
    <3>2. "string" \in flags' => r.size = string_length'
      BY <2>2, <2>5, <2>6
    <3> QED
      BY <2>8, <2>9, <3>1, <3>2, InStateThen
  <2>11. Types'
    BY <1>1, <1>8, <1>9, <1>10, <2>2, <2>3, <2>7 DEF Types
  <2>12. Goes(r)
    BY <1>1, <1>8, <2>10, <2>11 DEF Goes
  <2>13. Begins(s, r, type)
    BY <1>12, <2>2, <2>5 DEF Begins, v
  <2> QED
    BY <2>2, <2>12, <2>13
<1>14. ASSUME NEW r, r = t, kind = "word" \/ (kind = "number" /\ ~first_pass)
       PROVE  /\ Goes(r) /\ Begins(s, r, type)
              /\ ptr' = IF kind = "word" THEN ptr + 1 ELSE BehindNumber
  <2> DEFINE next == IF kind = "word" THEN ptr + 1 ELSE BehindNumber
  <2>1. IF kind = "word" THEN type = "word" ELSE type = "integer"
    BY <1>3, <1>14 DEF Kind
  <2>2. flag_next(ns, v, fl, next) /\ UNCHANGED <<string_length, num_digits>>
    BY <1>6, <1>8, <1>14, <2>1 DEF Opened, fl
  <2>3. r = Told(fl \ NumberFlags, s.open, v, cells, v)
    BY <1>5, <1>7, <1>14 DEF Opening, v, cells, kind
  <2>4. v \in Nat /\ v \in 0 .. Len(ns) /\ v \in 1 .. v
    BY <1>1, <1>9 DEF v
  <2>5. kind = "number" => BehindNumber \in Nat
    BY <1>3, <1>14 DEF Fits, OpensNumber
  <2>6. next \in Nat
    BY <1>1, <1>14, <2>5 DEF Types
  <2> HIDE DEF next
  <2>7. ASSUME NEW open, open = s.open
        PROVE  Follows(Told(fl \ NumberFlags, open, v, cells, v), v) /\ ptr' = next /\ Attached(ns, v)
    BY <1>7, <1>9, <2>2, <2>4, FlagNext
  <2>8. Follows(r, v) /\ ptr' = next /\ Attached(ns, v)
    BY <2>3, <2>7
  <2>9. r.open = s.open \ {v} /\ r.seen = v
    BY <2>3 DEF Told, State
  <2>10. "string" \notin flags'
    BY <1>2, <2>2 DEF flag_next, fl
  <2>11. Len(nodes') = Len(ns)
    BY <2>8 DEF Attached
  <2>12. r.seen = Seen'
    BY <1>11, <2>9, <2>11
  <2>13. InState(r)'
    BY <2>4, <2>8, <2>9, <2>10, <2>12, InStateThen
  <2>14. Types'
    BY <1>1, <1>8, <1>10, <2>2, <2>6, <2>8 DEF Types, Follows
  <2>15. Goes(r)
    BY <1>1, <1>8, <2>13, <2>14 DEF Goes
  <2>16. Begins(s, r, type)
    BY <1>12, <2>8, <2>9 DEF Begins, v
  <2> QED
    BY <2>8, <2>15, <2>16 DEF next
<1>15. ASSUME NEW p, p = ptr, kind = "number", first_pass
       PROVE  StartsNumber(s)
  <2>1. type = "integer" /\ b = text[ptr] /\ ptr <= Len(text)
    <3>1. type = "integer"
      BY <1>3, <1>15 DEF Kind
    <3>2. b # "eof"
      BY <1>3 DEF TypeOf, Digits
    <3> QED
      BY <3>1, <3>2 DEF b
  <2>2. /\ flags' = fl \ NumberFlags /\ ptr' = (IF b = "-" THEN ptr + 1 ELSE ptr)
        /\ top' = v /\ nodes' = ns /\ num_digits' = 0 /\ string_length' = string_length
    BY <1>6, <1>8, <1>15, <2>1 DEF Opened, fl
  <2>3. ptr \in Nat /\ ptr' \in Nat /\ ptr' \in {p, p + 1}
    BY <1>1, <1>15, <2>2 DEF Types
  <2>4. flags' \subseteq PlainFlags \cup NumberFlags /\ flags' \ NumberFlags = s.flags \ {"seek_value"}
    BY <1>7, <2>2
  <2>5. Types'
    BY <1>1, <1>8, <1>9, <1>10, <2>2, <2>3, <2>4 DEF Types
  <2>6. text[p] = b /\ p <= Len(text) /\ text' = text /\ OpensNumber(s, b) /\ b \in Digits \cup {"-"}
    BY <1>1, <1>3, <1>15, <2>1 DEF OpensNumber
  <2>7. /\ Len(nodes') = s.seen + 1 /\ top' = Len(nodes')
        /\ \A u \in 1 .. s.seen : s.cells[u] = Cell(nodes'[u])
        /\ Cell(nodes'[top']) = NewCell("number", s.top)
    <3>1. /\ Len(ns) = v /\ v = s.seen + 1
          /\ \A u \in 1 .. s.seen : s.cells[u] = cells[u]
          /\ cells[v] = NewCell(kind, s.top)
      BY <1>1, <1>3, <1>6, <1>15, ExtendedCells DEF v, cells, kind
    <3>2. Len(nodes') = s.seen + 1 /\ top' = Len(nodes')
      BY <1>1, <2>2, <3>1
    <3>3. \A u \in 1 .. s.seen : u \in 1 .. v
      BY <1>1 DEF v
    <3>4. \A u \in 1 .. s.seen : s.cells[u] = Cell(ns[u])
      BY <1>9, <3>1, <3>3
    <3>5. v \in 1 .. v
      BY <1>1 DEF v
    <3>6. Cell(ns[v]) = NewCell("number", s.top)
      BY <1>9, <1>15, <3>1, <3>5
    <3> QED
      BY <2>2, <3>1, <3>2, <3>4, <3>6
  <2>8. /\ \A i \in p .. ptr' - 1 : text'[i] \in NumberChars
        /\ ptr' = p => text'[p] \in Digits
    BY <1>1, <1>15, <2>2, <2>3, <2>6 DEF NumberChars
  <2>9. "num_e" \notin flags'
    BY <2>2 DEF NumberFlags
  <2>10. InNumber(s, p)'
    <3>1. p <= Len(text') /\ OpensNumber(s, text'[p])
      BY <2>6
    <3>2. ptr' >= p
      BY <1>15, <2>3
    <3>3. s.flags \ {"seek_value"} = flags' \ NumberFlags
      BY <2>4
    <3> QED
      BY <2>7, <2>8, <2>9, <3>1, <3>2, <3>3 DEF InNumber
  <2>11. new_value("integer", TRUE) /\ nodes' = Created("integer")
    BY <1>12, <2>1, <2>2
  <2> QED
    BY <1>1, <1>8, <1>15, <2>1, <2>2, <2>5, <2>6, <2>10, <2>11 DEF StartsNumber
<1>16. OpensNumber(s, b) <=> kind = "number"
  BY <1>3 DEF OpensNumber
<1>17. CASE kind \in {"object", "array", "string"}
  <2>1. \E r \in {Iteration(s, b)} : Goes(r) /\ Begins(s, r, type) /\ ptr' = ptr + 1
    BY <1>13, <1>17 DEF t
  <2> QED
    BY <1>3, <1>5, <1>16, <1>17, <2>1 DEF Proceeds, Effect
<1>18. CASE kind = "word" \/ (kind = "number" /\ ~first_pass)
  <2>1. \E r \in {Iteration(s, b)} :
          /\ Goes(r) /\ Begins(s, r, type)
          /\ ptr' = IF kind = "word" THEN ptr + 1 ELSE BehindNumber
    BY <1>14, <1>18 DEF t
  <2> QED
    BY <1>3, <1>5, <1>16, <1>18, <2>1 DEF Proceeds, Effect
<1>19. CASE kind = "number" /\ first_pass
  BY <1>15, <1>19
<1> QED
  BY <1>3, <1>17, <1>18, <1>19

LEMMA OpenProceeds ==
  ASSUME NEW s, Here(s), Fits(s), UNCHANGED first_pass,
         "seek_value" \in s.flags, {"string", "done"} \cap s.flags = {}, Open
  PROVE  Proceeds(s) \/ Turned(s) \/ RunsOut(s) \/ StartsNumber(s)
<1>1. Types /\ WellShaped(s) /\ InState(s) /\ Len(nodes) \in Nat
  BY DEF Here, Types
<1>2. {"need_comma", "need_colon"} \cap s.flags = {} /\ b \notin {" ", "]"}
  BY <1>1, PlainFlagsAgree DEF Open, PlainFlags
<1>3. CASE b \notin DOMAIN TypeOf
  <2>1. Fail
    BY <1>3 DEF Open
  <2>2. Refuses(s, b)
    BY <1>2, <1>3 DEF Refuses
  <2> QED
    BY <2>1, <2>2 DEF Turned
<1>4. CASE b \in DOMAIN TypeOf
  <2>1. Opens(s, b)
    BY <1>2, <1>4 DEF Opens
  <2>2. ~NoValueLeft
    BY <1>1, <2>1 DEF Fits, NoValueLeft, None
  <2>3. PICK ok \in AllocOutcomes :
          /\ new_value(TypeOf[b], ok)
          /\ IF ok THEN Opened(TypeOf[b], Created(TypeOf[b])) /\ Continues ELSE AllocFailure
    BY <1>4, <2>2 DEF Open
  <2>4. ok = TRUE \/ ok = FALSE
    BY DEF AllocOutcomes
  <2>5. CASE ok = TRUE
    <3>1. /\ TRUE \in AllocOutcomes /\ new_value(TypeOf[b], TRUE)
          /\ Opened(TypeOf[b], Created(TypeOf[b])) /\ Continues
      BY <2>3, <2>5
    <3> QED
      BY <2>1, <3>1, ValueOpens
  <2>6. CASE ok = FALSE
    <3>1. FALSE \in AllocOutcomes /\ new_value(TypeOf[b], FALSE) /\ AllocFailure
      BY <2>3, <2>6
    <3> QED
      BY <2>1, <3>1 DEF RunsOut
  <2> QED
    BY <2>4, <2>5, <2>6
<1> QED
  BY <1>3, <1>4

LEMMA SeekValueProceeds ==
  ASSUME NEW s, Here(s), Fits(s), UNCHANGED first_pass, SeekValue
  PROVE  Proceeds(s) \/ Turned(s) \/ RunsOut(s) \/ StartsNumber(s)
<1>1. /\ Types /\ WellShaped(s) /\ InState(s)
  BY DEF Here
<1>2. /\ "seek_value" \in s.flags /\ {"string", "done"} \cap s.flags = {}
      /\ "string" \notin flags
      /\ "need_comma" \in flags <=> "need_comma" \in s.flags
      /\ "need_colon" \in flags <=> "need_colon" \in s.flags
      /\ s.flags = flags \ NumberFlags /\ s.top = top
      /\ flags \in SUBSET (PlainFlags \cup NumberFlags)
  BY <1>1, PlainFlagsAgree DEF SeekValue, PlainFlags, Types
<1>3. Iteration(s, b) = Seeking(s, b)
  BY <1>2 DEF Iteration
<1>4. Refuses(s, b) <=> IF b = " " THEN FALSE
                        ELSE IF b = "]" THEN s.top = None \/ s.cells[s.top].kind # "array"
                        ELSE IF "need_comma" \in s.flags THEN b # ","
                        ELSE IF "need_colon" \in s.flags THEN b # ":"
                        ELSE b \notin DOMAIN TypeOf
  BY <1>2 DEF Refuses
<1>5. ASSUME b \in {" ", "]", ",", ":"} PROVE ~OpensNumber(s, b)
  BY <1>5 DEF OpensNumber, Digits
<1>6. CASE b = " " /\ Plain(On(flags))
  <2>1. Goes(s) /\ Stays(s, s) /\ ptr' = ptr + 1
    BY <1>2, <1>6, BlankMoves
  <2>2. Iteration(s, b) = s /\ ~Refuses(s, b)
    BY <1>3, <1>4, <1>6 DEF Seeking
  <2> QED
    BY <1>5, <1>6, <2>1, <2>2 DEF Proceeds, Effect
<1>7. CASE CloseArray
  <2>1. b = "]"
    BY <1>7 DEF CloseArray
  <2>2. top # None => (s.cells[s.top].kind = "array" <=> nodes[top].type = "array")
    <3>1. s.top \in 0 .. s.seen /\ s.seen \in Nat /\ s.seen <= Len(nodes) /\ nodes \in Seq(NodeType)
          /\ Len(nodes) \in Nat
      BY ShapeFacts DEF Here, Types
    <3>2. top # None => top \in 1 .. s.seen /\ nodes[top] \in NodeType
      BY <1>2, <3>1 DEF None
    <3>3. top # None => s.cells[s.top] = Cell(nodes[top])
      BY <1>1, <1>2, <3>2 DEF InState
    <3> QED
      BY <3>2, <3>3, CellTypes
  <2>3. CASE top # None /\ nodes[top].type = "array"
    <3>1. Plain(flag_next(nodes, top, flags \ {"need_comma", "seek_value"}, ptr + 1))
      BY <1>7, <2>3 DEF CloseArray
    <3>2. (flags \ {"need_comma", "seek_value"}) \ NumberFlags = s.flags \ {"need_comma", "seek_value"}
      BY <1>2
    <3>3. Iteration(s, b) = Told(s.flags \ {"need_comma", "seek_value"}, s.open, s.seen, s.cells, s.top)
          /\ ~Refuses(s, b)
      BY <1>2, <1>3, <1>4, <2>1, <2>2, <2>3 DEF Seeking
    <3>4. flags \ {"need_comma", "seek_value"} \in SUBSET (PlainFlags \cup NumberFlags)
          /\ "string" \notin flags \ {"need_comma", "seek_value"} /\ "done" \notin s.flags
      BY <1>2
    <3>5. \E t \in {Iteration(s, b)} : Goes(t) /\ Ends(s, t) /\ ptr' = ptr + 1
      BY <2>3, <3>1, <3>2, <3>3, <3>4, TopEnds
    <3> QED
      BY <1>5, <2>1, <3>3, <3>5 DEF Proceeds, Effect
  <2>4. CASE ~(top # None /\ nodes[top].type = "array")
    <3>1. Fail
      BY <1>7, <2>4 DEF CloseArray
    <3>2. Refuses(s, b)
      BY <1>2, <1>4, <2>1, <2>2, <2>4
    <3> QED
      BY <3>1, <3>2 DEF Turned
  <2> QED
    BY <2>3, <2>4
<1>8. CASE Separator
  <2>1. b \notin {" ", "]"}
    BY <1>8 DEF Separator
  <2>2. CASE "need_comma" \in flags /\ b = ","
    <3>1. Plain(On(flags \ {"need_comma"}))
      BY <1>8, <2>2 DEF Separator
    <3>2. (flags \ {"need_comma"}) \ NumberFlags = s.flags \ {"need_comma"}
      BY <1>2
    <3>3. Iteration(s, b) = Flagged(s, s.flags \ {"need_comma"}, 0) /\ ~Refuses(s, b)
      BY <1>2, <1>3, <1>4, <2>1, <2>2 DEF Seeking
    <3>4. flags \ {"need_comma"} \in SUBSET (PlainFlags \cup NumberFlags)
          /\ "string" \notin flags \ {"need_comma"}
      BY <1>2
    <3>5. \E t \in {Iteration(s, b)} : Goes(t) /\ Stays(s, t) /\ ptr' = ptr + 1
      BY <3>1, <3>2, <3>3, <3>4, PlainMoves
    <3> QED
      BY <1>5, <2>2, <3>3, <3>5 DEF Proceeds, Effect
  <2>3. CASE "need_comma" \in flags /\ b # ","
    BY <1>2, <1>4, <1>8, <2>1, <2>3 DEF Separator, Turned
  <2>4. CASE "need_comma" \notin flags /\ "need_colon" \in flags /\ b = ":"
    <3>1. Plain(On(flags \ {"need_colon"}))
      BY <1>8, <2>4 DEF Separator
    <3>2. (flags \ {"need_colon"}) \ NumberFlags = s.flags \ {"need_colon"}
      BY <1>2
    <3>3. Iteration(s, b) = Flagged(s, s.flags \ {"need_colon"}, 0) /\ ~Refuses(s, b)
      BY <1>2, <1>3, <1>4, <2>1, <2>4 DEF Seeking
    <3>4. flags \ {"need_colon"} \in SUBSET (PlainFlags \cup NumberFlags)
          /\ "string" \notin flags \ {"need_colon"}
      BY <1>2
    <3>5. \E t \in {Iteration(s, b)} : Goes(t) /\ Stays(s, t) /\ ptr' = ptr + 1
      BY <3>1, <3>2, <3>3, <3>4, PlainMoves
    <3> QED
      BY <1>5, <2>4, <3>3, <3>5 DEF Proceeds, Effect
  <2>5. CASE "need_comma" \notin flags /\ "need_colon" \in flags /\ b # ":"
    BY <1>2, <1>4, <1>8, <2>1, <2>5 DEF Separator, Turned
  <2> QED
    BY <1>8, <2>2, <2>3, <2>4, <2>5 DEF Separator
<1>9. CASE Open
  BY <1>2, <1>9, OpenProceeds
<1> QED
  BY <1>6, <1>7, <1>8, <1>9 DEF SeekValue

(* An iteration in a state that is not in a number. *)
LEMMA IterationProceeds ==
  ASSUME NEW s, Types, WellShaped(s), InState(s), s.seen <= Len(nodes), Fits(s), json_parse_ex
  PROVE  \/ Proceeds(s) \/ Turned(s) \/ RunsOut(s) \/ StartsNumber(s)
         \/ b = "eof" /\ PassEnds /\ "done" \in s.flags
<1>1. /\ Here(s) /\ UNCHANGED <<readVars, value>>
  BY DEF Here, json_parse_ex, readVars
<1>2. CASE Done
  BY <1>1, <1>2, DoneProceeds
<1>3. CASE StringChar /\ UNCHANGED first_pass
  BY <1>1, <1>3, StringCharProceeds
<1>4. CASE SeekValue /\ UNCHANGED first_pass
  BY <1>1, <1>4, SeekValueProceeds
<1>5. CASE ObjectChar /\ UNCHANGED first_pass
  BY <1>1, <1>5, ObjectCharProceeds
<1>6. ~NumberChar
  <2> SUFFICES ASSUME NumberChar PROVE FALSE
    OBVIOUS
  <2>1. /\ {"string", "done", "seek_value"} \cap flags = {}
        /\ nodes[top].type \in {"integer", "double"}
    BY DEF NumberChar, Inside
  <2>2. /\ s.top = top /\ {"string", "done", "seek_value"} \cap s.flags = {}
    BY <2>1, PlainFlagsAgree DEF PlainFlags
  <2>3. FlagsOK(s) /\ s.top \in 0 .. s.seen /\ s.seen \in Nat
    BY ShapeFacts DEF WellShaped
  <2>4. s.top # None /\ s.cells[s.top].kind \in {"object", "array"}
    BY <2>2, <2>3 DEF FlagsOK
  <2>5. s.top \in 1 .. s.seen /\ nodes[top] \in NodeType
    BY <2>2, <2>3, <2>4 DEF None, Types
  <2>6. s.cells[s.top] = Cell(nodes[top])
    BY <2>2, <2>5 DEF InState
  <2> QED
    BY <2>1, <2>4, <2>5, <2>6, CellTypes
<1> QED
  BY <1>2, <1>3, <1>4, <1>5, <1>6 DEF json_parse_ex

-----------------------------------------------------------------------------
(* Numbers, in the first pass.                                             *)

LEMMA InNumberFacts ==
  ASSUME Types, NEW s, NEW p, WellShaped(s), InNumber(s, p)
  PROVE  /\ {"string", "done", "seek_value", "need_comma", "need_colon"} \cap flags = {}
         /\ {"string", "done", "need_comma", "need_colon"} \cap s.flags = {}
         /\ "seek_value" \in s.flags
         /\ flags \ NumberFlags = s.flags \ {"seek_value"}
         /\ top = s.seen + 1 /\ Len(nodes) = top /\ top \in 1 .. Len(nodes)
         /\ nodes[top] \in NodeType /\ nodes[top].type \in {"integer", "double"}
         /\ nodes[top].parent = s.top
<1>1. OpensNumber(s, text[p]) /\ s.flags \ {"seek_value"} = flags \ NumberFlags
  BY DEF InNumber
<1>2. {"string", "done", "need_comma", "need_colon"} \cap s.flags = {} /\ "seek_value" \in s.flags
  BY <1>1 DEF OpensNumber, Opens
<1>3. {"string", "done", "seek_value", "need_comma", "need_colon"} \cap flags = {}
  BY <1>1, <1>2 DEF NumberFlags
<1>4. top = s.seen + 1 /\ Len(nodes) = top /\ s.seen \in Nat
  BY ShapeFacts DEF InNumber
<1>5. top \in 1 .. Len(nodes) /\ nodes[top] \in NodeType
  BY <1>4 DEF Types
<1>6. Cell(nodes[top]).kind = "number" /\ Cell(nodes[top]).parent = s.top
  BY DEF InNumber, NewCell
<1> QED
  BY <1>1, <1>2, <1>3, <1>4, <1>5, <1>6, CellTypes

WithType(n, type) == [n EXCEPT !.type = type]

LEMMA NodeTyped ==
  ASSUME NEW n \in NodeType, n.type \in {"integer", "double"}
  PROVE  /\ WithType(n, "double") \in NodeType
         /\ Cell(WithType(n, "double")) = Cell(n)
         /\ WithType(n, "double").allocated = n.allocated
         /\ WithType(n, "double").values = n.values
<1>1. WithType(n, "double") \in NodeType
  BY DEF NodeType, WithType
<1>2. Cell(WithType(n, "double")) = Cell(n)
  BY DEF NodeType, WithType, Cell, Kind
<1>3. WithType(n, "double").allocated = n.allocated /\ WithType(n, "double").values = n.values
  BY DEF NodeType, WithType
<1> QED
  BY <1>1, <1>2, <1>3

(* Of the tree nothing has changed that memory depends on. *)
KeepsValues ==
  /\ Len(nodes') = Len(nodes) /\ UNCHANGED <<root, alloc, live>>
  /\ \A u \in 1 .. Len(nodes) :
       nodes'[u].allocated = nodes[u].allocated /\ nodes'[u].values = nodes[u].values

Elsewhere == UNCHANGED <<first_pass, phase, outcome, text, more, value>>

NumberGoesOn(s, p) ==
  Types' /\ InNumber(s, p)' /\ ptr' \in 1 .. Len(text) + 1 /\ KeepsValues /\ Elsewhere

LEMMA NumberSteps ==
  ASSUME Types, NEW s, NEW p \in Nat, WellShaped(s), InNumber(s, p),
         UNCHANGED <<first_pass, text, more, value>>,
         NEW fl \in SUBSET (PlainFlags \cup NumberFlags), fl \ NumberFlags = flags \ NumberFlags,
         NEW digits \in Nat, NEW next \in {ptr, ptr + 1},
         ptr \in 1 .. Len(text) + 1,
         next = ptr + 1 => ptr <= Len(text) /\ text[ptr] \in NumberChars,
         next = ptr => ("num_e" \in fl => "num_e" \in flags),
         NEW ns, ns = nodes \/ ns = [nodes EXCEPT ![top].type = "double"],
         NumberStep(fl, digits, next, ns)
  PROVE  NumberGoesOn(s, p)
<1>1. /\ top = s.seen + 1 /\ Len(nodes) = top /\ top \in 1 .. Len(nodes)
      /\ nodes[top] \in NodeType /\ nodes[top].type \in {"integer", "double"}
      /\ nodes \in Seq(NodeType) /\ s.seen \in Nat /\ ptr \in Nat
  BY InNumberFacts, ShapeFacts DEF Types
<1>2. /\ flags' = fl /\ num_digits' = digits /\ ptr' = next /\ nodes' = ns
      /\ UNCHANGED <<root, alloc, live, phase, outcome, top, string_length>>
  BY DEF NumberStep, NoAllocation, Continues
<1>3. /\ ns \in Seq(NodeType) /\ Len(ns) = Len(nodes)
      /\ \A u \in 1 .. Len(nodes) :
           /\ Cell(ns[u]) = Cell(nodes[u])
           /\ ns[u].allocated = nodes[u].allocated /\ ns[u].values = nodes[u].values
  <2>1. CASE ns = nodes
    BY <1>1, <2>1
  <2>2. CASE ns = [nodes EXCEPT ![top].type = "double"]
    <3> DEFINE new == WithType(nodes[top], "double")
    <3>1. ns = [nodes EXCEPT ![top] = new]
      BY <1>1, <2>2 DEF WithType
    <3>2. /\ new \in NodeType /\ Cell(new) = Cell(nodes[top])
          /\ new.allocated = nodes[top].allocated /\ new.values = nodes[top].values
      BY <1>1, NodeTyped
    <3> HIDE DEF new
    <3>3. /\ ns \in Seq(NodeType) /\ Len(ns) = Len(nodes) /\ ns[top] = new
          /\ \A u \in 1 .. Len(nodes) : u # top => ns[u] = nodes[u]
      BY <1>1, <3>1, <3>2
    <3> QED
      BY <3>2, <3>3
  <2> QED
    BY <2>1, <2>2
<1>4. Types'
  BY <1>1, <1>2, <1>3, SMTT(30) DEF Types
<1>5. KeepsValues /\ Elsewhere
  BY <1>2, <1>3 DEF KeepsValues, Elsewhere
<1>6. InNumber(s, p)'
  <2>1. /\ p <= Len(text') /\ OpensNumber(s, text'[p])
        /\ s.flags \ {"seek_value"} = flags' \ NumberFlags
        /\ Len(nodes') = s.seen + 1 /\ top' = Len(nodes')
    BY <1>1, <1>2, <1>3 DEF InNumber
  <2>2. /\ \A v \in 1 .. s.seen : s.cells[v] = Cell(nodes'[v])
        /\ Cell(nodes'[top']) = NewCell("number", s.top)
    BY <1>1, <1>2, <1>3 DEF InNumber
  <2>3. ptr' >= p /\ \A i \in p .. ptr' - 1 : text'[i] \in NumberChars
    <3>1. ptr >= p /\ \A i \in p .. ptr - 1 : text[i] \in NumberChars
      BY DEF InNumber
    <3>2. \A i \in p .. ptr' - 1 : i \in p .. ptr - 1 \/ (i = ptr /\ next = ptr + 1)
      BY <1>1, <1>2, <3>1
    <3> QED
      BY <1>1, <1>2, <3>1, <3>2
  <2>4. ptr' = p => text'[p] \in Digits /\ "num_e" \notin flags'
    <3>1. ptr >= p /\ (ptr = p => text[p] \in Digits /\ "num_e" \notin flags)
      BY DEF InNumber
    <3>2. ptr' = p => ptr = p /\ next = ptr
      BY <1>1, <1>2, <3>1
    <3> QED
      BY <1>2, <3>1, <3>2
  <2> QED
    BY <2>1, <2>2, <2>3, <2>4 DEF InNumber
<1>7. ptr' \in 1 .. Len(text) + 1
  BY <1>2 DEF Types
<1> QED
  BY <1>4, <1>5, <1>6, <1>7 DEF NumberGoesOn

(* The number ends, and with it the iteration that began at p. *)
NumberDone(s, p) ==
  /\ Types' /\ ptr' \in 1 .. Len(text) + 1 /\ KeepsValues /\ Elsewhere
  /\ \/ /\ p < ptr' /\ \A i \in p .. ptr' - 1 : text[i] \in NumberChars
        /\ IF ptr' <= Len(text) THEN text[ptr'] \notin NumberChars
           ELSE ptr' = Len(text) + 1 /\ more = 0
        /\ \E t \in {Iteration(s, text[p])} : InState(t)'
     \/ Doomed'

NumberFails == Fail /\ UNCHANGED <<first_pass, text, more, value>>

(* What an integer or double that ends leaves for the next iteration.      *)
LEMMA NumberTells ==
  ASSUME Types, NEW s, NEW p, WellShaped(s), InNumber(s, p), NumberEnds
  PROVE  /\ ptr' = ptr /\ UNCHANGED <<phase, outcome>>
         /\ "need_comma" \in flags' /\ "string" \notin flags'
         /\ {"done", "seek_value"} \cap flags' = {} => nodes'[top'].type = "object"
<1>1. /\ nodes[top].parent = s.top /\ nodes \in Seq(NodeType) /\ s.seen \in Nat
      /\ Len(nodes) = s.seen + 1
      /\ {"string", "done", "seek_value", "need_comma", "need_colon"} \cap flags = {}
      /\ "seek_value" \in s.flags /\ {"string", "done"} \cap s.flags = {}
      /\ s.top \in 0 .. s.seen
  BY InNumberFacts, ShapeFacts DEF Types
<1>2. flag_next(nodes, top, flags, ptr) /\ UNCHANGED <<phase, outcome>>
  BY DEF NumberEnds, Continues
<1>3. ptr' = ptr /\ "need_comma" \in flags' /\ "string" \notin flags'
  BY <1>1, <1>2 DEF flag_next
<1>4. CASE s.top = None
  BY <1>1, <1>2, <1>3, <1>4 DEF flag_next
<1>5. CASE s.top # None
  <2>1. s.top \in 1 .. s.seen /\ s.top \in 1 .. Len(nodes) /\ nodes[s.top] \in NodeType
    BY <1>1, <1>5 DEF None
  <2>2. s.cells[s.top].kind \in {"object", "array"}
    BY <1>1, <1>5 DEF WellShaped, FlagsOK
  <2>3. s.cells[s.top] = Cell(nodes[s.top])
    BY <2>1 DEF InNumber
  <2>4. nodes[s.top].type \in {"object", "array"}
    BY <2>1, <2>2, <2>3, CellTypes
  <2>5. top' = s.top /\ (nodes[s.top].type = "array" => "seek_value" \in flags')
    BY <1>1, <1>2, <1>5 DEF flag_next
  <2>6. nodes'[s.top].type = nodes[s.top].type
    <3> DEFINE t == s.top
               values == IF first_pass THEN nodes[t].values ELSE Append(nodes[t].values, top)
               new == With(nodes[t], nodes[t].length + 1, values)
    <3>1. nodes' = [nodes EXCEPT ![t] = new]
      BY <1>1, <1>2, <1>5 DEF flag_next, With
    <3>2. new.type = nodes[t].type
      BY <2>1 DEF With, NodeType
    <3> HIDE DEF new
    <3> QED
      BY <1>1, <2>1, <3>1, <3>2
  <2> QED
    BY <1>2, <1>3, <2>4, <2>5, <2>6
<1> QED
  BY <1>4, <1>5

LEMMA NumberEndsThere ==
  ASSUME Types, NEW s, NEW p \in Nat, WellShaped(s), InNumber(s, p), first_pass,
         UNCHANGED <<first_pass, text, more, value>>, Reading, ptr \in 1 .. Len(text) + 1,
         b \notin Digits, NumberEnds
  PROVE  NumberDone(s, p)
<1> DEFINE n == s.seen + 1
           c == text[p]
<1>1. /\ top = n /\ Len(nodes) = n /\ nodes[top] \in NodeType
      /\ nodes[top].type \in {"integer", "double"} /\ nodes[top].parent = s.top
      /\ nodes \in Seq(NodeType) /\ s.seen \in Nat /\ ptr \in Nat
      /\ flags \ NumberFlags = s.flags \ {"seek_value"}
      /\ {"string", "done", "seek_value", "need_comma", "need_colon"} \cap flags = {}
      /\ {"string", "done", "need_comma", "need_colon"} \cap s.flags = {}
      /\ "seek_value" \in s.flags
      /\ s.top \in 0 .. s.seen
  BY InNumberFacts, ShapeFacts DEF Types
<1>2. /\ flag_next(nodes, top, flags, ptr)
      /\ UNCHANGED <<root, alloc, live, alloc_failures, phase, outcome, string_length, num_digits>>
  BY DEF NumberEnds, NoAllocation, Continues
<1>3. OpensNumber(s, c) /\ Kind(TypeOf[c]) = "number" /\ c \in Digits \cup {"-"}
  <2>1. OpensNumber(s, c)
    BY DEF InNumber
  <2> QED
    BY <2>1, KindsOpened DEF OpensNumber, Opens
<1> DEFINE cells == Extended(s, "number")
           r == Told(s.flags \ {"seek_value"}, s.open, n, cells, n)
<1>4. Iteration(s, c) = r
  <2>1. c \notin {" ", "]"}
    BY <1>3 DEF Digits
  <2> QED
    BY <1>1, <1>3, <2>1 DEF Iteration, Seeking, Opening
<1>5. /\ cells \in [1 .. n -> CellType]
      /\ \A u \in 1 .. n : cells[u] = Cell(nodes[u])
      /\ cells[n].parent \in 0 .. n - 1
  <2>1. /\ cells \in [1 .. n -> CellType]
        /\ \A u \in 1 .. s.seen : cells[u] = s.cells[u]
        /\ cells[n] = NewCell("number", s.top)
        /\ NewCell("number", s.top).parent = s.top
    BY ExtendedCells
  <2>2. \A u \in 1 .. n : u = n \/ u \in 1 .. s.seen
    BY <1>1
  <2>3. /\ \A u \in 1 .. s.seen : s.cells[u] = Cell(nodes[u])
        /\ Cell(nodes[n]) = NewCell("number", s.top)
    BY <1>1 DEF InNumber
  <2> HIDE DEF cells
  <2>4. \A u \in 1 .. n : cells[u] = Cell(nodes[u])
    BY <2>1, <2>2, <2>3
  <2>5. cells[n].parent \in 0 .. n - 1
    BY <1>1, <2>1
  <2> QED
    BY <2>1, <2>4, <2>5
<1> HIDE DEF cells, n
<1>6. /\ n \in Nat /\ n \in 0 .. Len(nodes) /\ n \in 1 .. n
      /\ flags \in SUBSET (PlainFlags \cup NumberFlags)
  BY <1>1 DEF Types, n
<1>7. /\ Follows(r, n) /\ ptr' = ptr /\ Attached(nodes, n)
  <2>1. ASSUME NEW fl, fl = flags, NEW next, next = ptr, NEW open, open = s.open,
               flag_next(nodes, n, fl, next)
        PROVE  /\ Follows(Told(fl \ NumberFlags, open, n, cells, n), n)
               /\ ptr' = next /\ Attached(nodes, n)
    BY <1>1, <1>5, <1>6, <2>1, FlagNext
  <2>2. flag_next(nodes, n, flags, ptr)
    BY <1>1, <1>2
  <2> QED
    BY <1>1, <2>1, <2>2
<1>8. r.seen = n
  BY DEF Told, State
<1> HIDE DEF r
<1>9. Types'
  BY <1>2, <1>7 DEF Types, Follows
<1>10. Elsewhere /\ KeepsValues
  <2>1. \A u \in 1 .. Len(nodes) :
          nodes'[u].allocated = nodes[u].allocated /\ nodes'[u].values = nodes[u].values
    BY <1>7 DEF Attached, SameMemory, SameChildren, OneMoreChild
  <2> QED
    BY <1>2, <1>7, <2>1 DEF Elsewhere, KeepsValues, Attached
<1>11. p <= Len(text) /\ ptr >= p /\ \A i \in p .. ptr - 1 : text[i] \in NumberChars
  BY DEF InNumber
<1>12. p < ptr
  <2>1. ptr = p => text[p] \in Digits
    BY DEF InNumber
  <2>2. ptr = p => b = text[p]
    BY <1>11 DEF b
  <2> QED
    BY <1>1, <1>11, <2>1, <2>2
<1>13. CASE b \notin NumberChars
  <2>1. IF ptr <= Len(text) THEN text[ptr] \notin NumberChars
        ELSE ptr = Len(text) + 1 /\ more = 0
    BY <1>1, <1>13 DEF Reading, b, Types
  <2>2. r.seen = Seen'
    BY <1>1, <1>7, <1>8 DEF Seen, Attached
  <2>3. "string" \notin flags'
    BY <1>1, <1>2 DEF flag_next
  <2>4. InState(r)'
    BY <1>6, <1>7, <1>8, <2>2, <2>3, InStateThen
  <2>5. \E t \in {Iteration(s, c)} : InState(t)'
    BY <1>4, <2>4
  <2> QED
    BY <1>7, <1>9, <1>10, <1>11, <1>12, <2>1, <2>5 DEF NumberDone
<1>14. CASE b \in NumberChars
  <2>1. ptr <= Len(text) /\ text[ptr] \in NumberChars
    BY <1>14 DEF b, NumberChars, Digits
  <2>2. Doomed'
    BY <1>7, <2>1, NumberTells DEF Doomed
  <2> QED
    BY <1>7, <1>9, <1>10, <2>2 DEF NumberDone
<1> QED
  BY <1>13, <1>14

LEMMA NumberProceeds ==
  ASSUME Types, NEW s, NEW p \in Nat, WellShaped(s), InNumber(s, p), first_pass,
         ptr \in 1 .. Len(text) + 1, json_parse_ex
  PROVE  NumberGoesOn(s, p) \/ NumberDone(s, p) \/ NumberFails
<1>1. /\ top = s.seen + 1 /\ Len(nodes) = top /\ nodes[top] \in NodeType
      /\ nodes[top].type \in {"integer", "double"}
      /\ flags \subseteq PlainFlags \cup NumberFlags
      /\ {"string", "done", "seek_value", "need_comma", "need_colon"} \cap flags = {}
      /\ num_digits \in Nat
  BY InNumberFacts DEF Types
<1>2. Reading /\ UNCHANGED <<text, more, value>>
  BY DEF json_parse_ex, readVars
<1>3. NumberChar /\ UNCHANGED first_pass
  <2>1. ~Done /\ ~StringChar /\ ~SeekValue
    BY <1>1 DEF Done, StringChar, SeekValue
  <2>2. ~ObjectChar
    BY <1>1 DEF ObjectChar, Inside
  <2> QED
    BY <2>1, <2>2 DEF json_parse_ex
<1>4. ASSUME Fail PROVE NumberFails
  BY <1>2, <1>3, <1>4 DEF NumberFails
<1>5. b \in NumberChars => ptr <= Len(text) /\ text[ptr] \in NumberChars
  BY DEF b, NumberChars, Digits
<1> DEFINE asDouble == [nodes EXCEPT ![top].type = "double"]
           num(fl) == fl \in SUBSET (PlainFlags \cup NumberFlags) /\ fl \ NumberFlags = flags \ NumberFlags
<1>6. ASSUME NEW fl, num(fl), NEW digits \in Nat, NEW ns, ns = nodes \/ ns = asDouble,
             b \in NumberChars, NumberStep(fl, digits, ptr + 1, ns)
      PROVE  NumberGoesOn(s, p)
  <2>1. ptr + 1 # ptr
    BY DEF Types
  <2>2. UNCHANGED <<first_pass, text, more, value>>
    BY <1>2, <1>3
  <2> HIDE DEF asDouble
  <2>3. ASSUME NEW next, next = ptr + 1, NumberStep(fl, digits, next, ns)
        PROVE  NumberGoesOn(s, p)
    BY <1>5, <1>6, <2>1, <2>2, <2>3, NumberSteps DEF asDouble
  <2> QED
    BY <1>6, <2>3
<1>7. ASSUME NEW fl, num(fl), "num_e" \in fl => "num_e" \in flags, NEW digits \in Nat, NEW ns,
             ns = asDouble, NumberStep(fl, digits, ptr, ns)
      PROVE  NumberGoesOn(s, p)
  <2>1. ptr + 1 # ptr
    BY DEF Types
  <2>2. UNCHANGED <<first_pass, text, more, value>>
    BY <1>2, <1>3
  <2> HIDE DEF asDouble
  <2>3. ASSUME NEW next, next = ptr, NumberStep(fl, digits, next, ns)
        PROVE  NumberGoesOn(s, p)
    BY <1>7, <2>1, <2>2, <2>3, NumberSteps DEF asDouble
  <2> QED
    BY <1>7, <2>3
<1>8. CASE b \in Digits
  <2> DEFINE n == num_digits + 1
             zero == {f \in {"num_zero"} : n = 1 /\ b = "0"}
  <2>1. n \in Nat /\ b \in NumberChars
    BY <1>1, <1>8 DEF NumberChars
  <2>2. Digit
    BY <1>3, <1>8 DEF NumberChar
  <2> HIDE DEF n, asDouble
  <2>3. num(flags) /\ num(flags \cup {"num_e_got_sign"}) /\ num(flags \cup zero)
        /\ ("num_e" \in flags \cup zero => "num_e" \in flags)
    BY <1>1 DEF NumberFlags
  <2>4. \/ NumberStep(flags, n, ptr + 1, nodes)
        \/ NumberStep(flags \cup {"num_e_got_sign"}, n, ptr + 1, nodes)
        \/ NumberStep(flags \cup zero, num_digits, ptr, asDouble)
        \/ NumberStep(flags \cup zero, n, ptr + 1, nodes)
        \/ Fail
    BY <2>2 DEF Digit, AfterOverflow, asDouble, n
  <2> HIDE DEF num, zero
  <2>5. CASE NumberStep(flags, n, ptr + 1, nodes)
    BY <1>6, <2>1, <2>3, <2>5
  <2>6. CASE NumberStep(flags \cup {"num_e_got_sign"}, n, ptr + 1, nodes)
    BY <1>6, <2>1, <2>3, <2>6
  <2>7. CASE NumberStep(flags \cup zero, num_digits, ptr, asDouble)
    BY <1>1, <1>7, <2>1, <2>3, <2>7
  <2>8. CASE NumberStep(flags \cup zero, n, ptr + 1, nodes)
    BY <1>6, <2>1, <2>3, <2>8
  <2> QED
    BY <1>4, <2>4, <2>5, <2>6, <2>7, <2>8
<1>9. CASE b \notin Digits
  <2> HIDE DEF asDouble
  <2>1. \/ b \in {"+", "-"} /\ NumberStep(flags \cup {"num_e_got_sign"}, num_digits, ptr + 1, nodes)
        \/ b = "." /\ NumberStep(flags, 0, ptr + 1, asDouble)
        \/ b = "e" /\ NumberStep((flags \cup {"num_e"}) \ {"num_zero"}, 0, ptr + 1, asDouble)
        \/ NumberEnds
        \/ Fail
    BY <1>3, <1>9 DEF NumberChar, asDouble
  <2>2. /\ num(flags \cup {"num_e_got_sign"}) /\ num(flags)
        /\ num((flags \cup {"num_e"}) \ {"num_zero"})
    BY <1>1 DEF NumberFlags
  <2>3. b \in {"+", "-", ".", "e"} => b \in NumberChars
    BY DEF NumberChars
  <2> HIDE DEF num
  <2>4. CASE b \in {"+", "-"} /\ NumberStep(flags \cup {"num_e_got_sign"}, num_digits, ptr + 1, nodes)
    BY <1>1, <1>6, <2>2, <2>3, <2>4
  <2>5. CASE b = "." /\ NumberStep(flags, 0, ptr + 1, asDouble)
    BY <1>6, <2>2, <2>3, <2>5
  <2>6. CASE b = "e" /\ NumberStep((flags \cup {"num_e"}) \ {"num_zero"}, 0, ptr + 1, asDouble)
    BY <1>6, <2>2, <2>3, <2>6
  <2>7. CASE NumberEnds
    BY <1>2, <1>3, <1>9, <2>7, NumberEndsThere
  <2> QED
    BY <1>4, <2>1, <2>4, <2>5, <2>6, <2>7
<1> QED
  BY <1>8, <1>9

LEMMA DoomedFails ==
  ASSUME Doomed, json_parse_ex
  PROVE  Fail /\ UNCHANGED <<first_pass, text, more, value>>
<1>1. /\ "need_comma" \in flags /\ "string" \notin flags
      /\ b \in NumberChars
      /\ {"done", "seek_value"} \cap flags = {} => nodes[top].type = "object"
  BY DEF Doomed, b
<1>2. b \notin {"eof", " ", "]", ",", "}", "quote"}
  BY <1>1 DEF NumberChars, Digits
<1>3. UNCHANGED <<text, more, value>>
  BY DEF json_parse_ex, readVars
<1>4. CASE Done
  BY <1>2, <1>3, <1>4 DEF Done
<1>5. ~StringChar
  BY <1>1 DEF StringChar
<1>6. CASE SeekValue /\ UNCHANGED first_pass
  <2>1. ~Open /\ ~CloseArray
    BY <1>1, <1>2 DEF Open, CloseArray
  <2>2. Separator => Fail
    BY <1>1, <1>2 DEF Separator
  <2> QED
    BY <1>2, <1>3, <1>6, <2>1, <2>2 DEF SeekValue
<1>7. CASE ObjectChar /\ UNCHANGED first_pass
  BY <1>1, <1>2, <1>3, <1>7 DEF ObjectChar
<1>8. ~NumberChar
  BY <1>1 DEF NumberChar, Inside
<1> QED
  BY <1>4, <1>5, <1>6, <1>7, <1>8 DEF json_parse_ex

-----------------------------------------------------------------------------
(* The way grows.                                                          *)

LEMMA EndRefused == \A s : Refuses(s, "eof")
  BY DEF Refuses, TypeOf, Digits

Extends(H, D, q, t) == [d \in D \cup {q} |-> IF d = q THEN t ELSE H[d]]

LEMMA WayGrows ==
  ASSUME text \in Seq(Chars), NEW D, NEW H, NEW e \in Nat, Way(D, H, e),
         NEW q \in Nat, NEW t, Leads(H[e], t, e, q)
  PROVE  /\ Way(D \cup {q}, Extends(H, D, q, t), q)
         /\ Extends(H, D, q, t)[q] = t
         /\ q <= Len(text) + 1
<1> DEFINE H2 == Extends(H, D, q, t)
           D2 == D \cup {q}
<1>1. /\ D \subseteq 1 .. e /\ 1 \in D /\ e \in D /\ H[1] = StartState /\ e < q
      /\ \A p \in D : WellShaped(H[p]) /\ Before(H[p], H[e])
  BY DEF Way, Leads
<1>2. H2[q] = t /\ \A d \in D : H2[d] = H[d]
  BY <1>1 DEF Extends
<1>3. WellShaped(t) /\ Before(H[e], t)
  BY <1>1, IterationGoesOn DEF Leads, GoesOn
<1>4. Before(t, t)
  BY <1>3, BeforeItself
<1>5. \A p \in D : Before(H[p], t)
  BY <1>1, <1>3, BeforeBefore
<1> HIDE DEF H2
<1>6. \A p \in D2 :
        /\ WellShaped(H2[p]) /\ Before(H2[p], H2[q])
        /\ p # q => \E r \in D2 : Leads(H2[p], H2[r], p, r)
  <2> SUFFICES ASSUME NEW p \in D2
               PROVE  /\ WellShaped(H2[p]) /\ Before(H2[p], H2[q])
                      /\ p # q => \E r \in D2 : Leads(H2[p], H2[r], p, r)
    OBVIOUS
  <2>1. CASE p = q
    BY <1>2, <1>3, <1>4, <2>1
  <2>2. CASE p = e
    BY <1>1, <1>2, <1>5, <2>2
  <2>3. CASE p \in D /\ p # e
    <3>1. PICK r \in D : Leads(H[p], H[r], p, r)
      BY <2>3 DEF Way
    <3> QED
      BY <1>1, <1>2, <1>5, <2>3, <3>1
  <2> QED
    BY <2>1, <2>2, <2>3
<1>7. D2 \subseteq 1 .. q /\ 1 \in D2 /\ q \in D2 /\ H2[1] = StartState
  BY <1>1, <1>2
<1>8. Way(D2, H2, q)
  BY <1>6, <1>7 DEF Way
<1>9. q <= Len(text) + 1
  BY DEF Leads, NumberAt
<1> QED
  BY <1>2, <1>8, <1>9 DEF H2

(* What follows in the text does not change the way. *)
Reads == \/ UNCHANGED <<text, more>>
         \/ more > 0 /\ \E c \in Chars : text' = Append(text, c)
         \/ more > 0 /\ text' = text

LEMMA WayStays ==
  ASSUME text \in Seq(Chars), NEW D, NEW H, NEW e \in Nat, Way(D, H, e), Reads
  PROVE  Way(D, H, e)'
<1>1. D \subseteq 1 .. e
  BY DEF Way
<1>2. /\ Len(text) \in Nat /\ Len(text') \in Nat /\ Len(text) <= Len(text')
      /\ \A i \in 1 .. Len(text) : text'[i] = text[i]
      /\ more = 0 => UNCHANGED <<text, more>>
  BY DEF Reads
<1>3. ASSUME NEW p \in D, NEW q \in D, Leads(H[p], H[q], p, q)
      PROVE  Leads(H[p], H[q], p, q)'
  <2>1. p \in Nat /\ q \in Nat /\ p >= 1
    BY <1>1
  <2>2. /\ p < q /\ p <= Len(text) /\ p <= Len(text') /\ text'[p] = text[p]
        /\ ~Refuses(H[p], text[p]) /\ H[q] = Iteration(H[p], text[p])
    BY <1>2, <1>3, <2>1 DEF Leads
  <2>3. NumberAt(p, q) => NumberAt(p, q)'
    <3> SUFFICES ASSUME NumberAt(p, q) PROVE NumberAt(p, q)'
      OBVIOUS
    <3>1. CASE q <= Len(text)
      <4>1. /\ \A i \in p .. q - 1 : text[i] \in NumberChars
            /\ text[q] \notin NumberChars
        BY <3>1 DEF NumberAt
      <4>2. \A i \in p .. q - 1 : i \in 1 .. Len(text)
        BY <1>2, <2>1, <3>1
      <4>3. q <= Len(text') /\ text'[q] = text[q]
        BY <1>2, <2>1, <2>2, <3>1
      <4> QED
        BY <1>2, <4>1, <4>2, <4>3 DEF NumberAt
    <3>2. CASE ~(q <= Len(text))
      <4>1. more = 0
        BY <3>2 DEF NumberAt
      <4> QED
        BY <1>2, <4>1 DEF NumberAt
    <3> QED
      BY <3>1, <3>2
  <2>4. IF OpensNumber(H[p], text[p]) THEN NumberAt(p, q) ELSE q = p + 1
    BY <1>3 DEF Leads
  <2>5. IF OpensNumber(H[p], text'[p]) THEN NumberAt(p, q)' ELSE q = p + 1
    BY <2>2, <2>3, <2>4
  <2> QED
    BY <2>2, <2>5 DEF Leads
<1>4. \A p \in D : p # e => \E q \in D : Leads(H[p], H[q], p, q)'
  BY <1>3 DEF Way
<1> QED
  BY <1>4 DEF Way

-----------------------------------------------------------------------------
(* The first pass.                                                         *)

LEMMA FreshCreated ==
  ASSUME Types, Fresh, first_pass, top \in Nat,
         NEW type \in {"object", "array", "string", "word", "integer"}
  PROVE  LET ns == Created(type)
         IN  /\ Len(ns) = Len(nodes) + 1
             /\ \A u \in 1 .. Len(ns) : ~ns[u].allocated /\ ns[u].values = <<>>
<1> DEFINE new == Blank(type)
           ns == Append(nodes, new)
<1>1. new \in NodeType /\ ~new.allocated /\ new.values = <<>>
  BY BlankNode
<1>2. Created(type) = ns
  BY DEF Created
<1>3. nodes \in Seq(NodeType) /\ Len(nodes) \in Nat
  BY DEF Types
<1> HIDE DEF new
<1>4. Len(ns) = Len(nodes) + 1 /\ ns[Len(nodes) + 1] = new
      /\ \A u \in 1 .. Len(nodes) : ns[u] = nodes[u]
  BY <1>1, <1>3
<1> HIDE DEF ns
<1>5. \A u \in 1 .. Len(ns) : u \in 1 .. Len(nodes) \/ u = Len(nodes) + 1
  BY <1>3, <1>4
<1>6. \A u \in 1 .. Len(ns) : ~ns[u].allocated /\ ns[u].values = <<>>
  BY <1>1, <1>4, <1>5 DEF Fresh
<1> QED
  BY <1>2, <1>4, <1>6

LEMMA FreshKept ==
  ASSUME Types, Fresh, KeepsValues
  PROVE  Fresh'
<1>1. Len(nodes) \in Nat
  BY DEF Types
<1>2. (nodes' = <<>>) <=> (nodes = <<>>)
  BY DEF KeepsValues, Types
<1>3. \A v \in 1 .. Len(nodes') : ~nodes'[v].allocated /\ nodes'[v].values = <<>>
  BY DEF Fresh, KeepsValues
<1> QED
  BY <1>2, <1>3 DEF Fresh, KeepsValues

LEMMA FreshGrows ==
  ASSUME Types, Fresh, first_pass, Types', NEW type, new_value(type, TRUE),
         Len(nodes') = Len(nodes) + 1,
         \A u \in 1 .. Len(nodes') : ~nodes'[u].allocated /\ nodes'[u].values = <<>>
  PROVE  Fresh'
<1>1. /\ Len(nodes) \in Nat /\ nodes \in Seq(NodeType)
  BY DEF Types
<1>2. /\ live' = live \cup {<<"value", Len(nodes) + 1>>}
      /\ root' = IF root = None THEN Len(nodes) + 1 ELSE root
  BY DEF new_value
<1>3. live' = {<<"value", v>> : v \in 1 .. Len(nodes')}
  BY <1>1, <1>2 DEF Fresh
<1>4. nodes' # <<>> /\ root' = 1
  <2>1. nodes' # <<>>
    BY <1>1
  <2>2. CASE nodes = <<>>
    BY <1>2, <2>2 DEF Fresh, None
  <2>3. CASE nodes # <<>>
    BY <1>2, <2>3 DEF Fresh, None
  <2> QED
    BY <2>1, <2>2, <2>3
<1> QED
  BY <1>3, <1>4 DEF Fresh

LEMMA FreshAfter ==
  ASSUME Types, Types', Fresh, first_pass, NEW s, WellShaped(s), InState(s), NEW t, Effect(s, t)
  PROVE  Fresh'
<1>1. top \in Nat /\ Len(nodes) \in Nat /\ s.seen = Len(nodes)
  BY ShapeFacts DEF InState, Types, Seen
<1>2. CASE Stays(s, t)
  <2>1. KeepsValues
    BY <1>2 DEF Stays, KeepsValues, SameMemory, SameChildren
  <2> QED
    BY <2>1, FreshKept
<1>3. CASE Ends(s, t)
  <2>1. KeepsValues
    BY <1>3 DEF Ends, Attached, OneMoreChild, KeepsValues, SameMemory, SameChildren
  <2> QED
    BY <2>1, FreshKept
<1>4. ASSUME NEW type \in {"object", "array", "string", "word", "integer"}, Begins(s, t, type)
      PROVE  Fresh'
  <2>1. /\ Len(Created(type)) = Len(nodes) + 1
        /\ \A u \in 1 .. Len(Created(type)) :
             ~Created(type)[u].allocated /\ Created(type)[u].values = <<>>
    BY <1>1, FreshCreated
  <2>2. new_value(type, TRUE)
        /\ (nodes' = Created(type) \/ Attached(Created(type), s.seen + 1))
    BY <1>4 DEF Begins
  <2>3. CASE nodes' = Created(type)
    BY <2>1, <2>2, <2>3, FreshGrows
  <2>4. CASE Attached(Created(type), s.seen + 1)
    <3> DEFINE ns == Created(type)
    <3> HIDE DEF ns
    <3>1. Len(nodes') = Len(ns)
          /\ \A u \in 1 .. Len(ns) : nodes'[u].allocated = ns[u].allocated /\ nodes'[u].values = ns[u].values
      BY <2>4 DEF Attached, OneMoreChild, SameMemory, SameChildren, ns
    <3>2. Len(nodes') = Len(nodes) + 1
          /\ \A u \in 1 .. Len(nodes') : ~nodes'[u].allocated /\ nodes'[u].values = <<>>
      BY <2>1, <3>1 DEF ns
    <3> QED
      BY <2>2, <3>2, FreshGrows
  <2> QED
    BY <2>2, <2>3, <2>4
<1> QED
  BY <1>2, <1>3, <1>4 DEF Effect

(* Where the first pass is, *)
Travels ==
  \/ \E D, H : Way(D, H, ptr) /\ InState(H[ptr])
  \/ \E D, H : \E p \in D : Way(D, H, p) /\ InNumber(H[p], p)
  \/ Doomed

FirstPass ==
  first_pass /\ phase = "parsing" =>
    outcome = "none" /\ Fresh /\ ptr \in 1 .. Len(text) + 1 /\ Travels

(* and the second, on the way up to e. *)
Returns(D, H, e) ==
  /\ e \in Nat /\ Way(D, H, e) /\ e = Len(text) + 1 /\ "done" \in H[e].flags
  /\ ptr \in D /\ InState(H[ptr])
  /\ Memory(H[ptr].seen, H[e]) /\ Listed(H[ptr].seen, H[ptr].open) /\ Lives(H[ptr].seen)
  /\ root = (IF H[ptr].seen = 0 THEN None ELSE 1)
  /\ alloc <= Len(nodes)

SecondPass ==
  ~first_pass /\ phase = "parsing" =>
    outcome = "none" /\ more = 0 /\ \E D, H, e : Returns(D, H, e)

FirstFails == first_pass /\ Fresh /\ outcome \in {"text", "memory"}

LEMMA FirstReads ==
  ASSUME Types, FirstPass, first_pass, phase = "parsing", Reads,
         UNCHANGED <<passVars, treeVars, endVars>>
  PROVE  FirstPass'
<1>1. /\ text \in Seq(Chars) /\ ptr \in Nat /\ outcome = "none" /\ Fresh
      /\ ptr \in 1 .. Len(text) + 1 /\ Travels
  BY DEF FirstPass, Types
<1>2. /\ UNCHANGED <<first_pass, ptr, flags, string_length, num_digits>>
      /\ UNCHANGED <<top, root, alloc, nodes, live, phase, outcome>>
  BY DEF passVars, treeVars, endVars
<1>3. /\ Len(text) \in Nat /\ Len(text') \in Nat /\ Len(text) <= Len(text')
      /\ \A i \in 1 .. Len(text) : text'[i] = text[i]
  BY <1>1 DEF Reads
<1>4. Fresh'
  BY <1>1, <1>2 DEF Fresh
<1>5. CASE \E D, H : Way(D, H, ptr) /\ InState(H[ptr])
  <2>1. PICK D, H : Way(D, H, ptr) /\ InState(H[ptr])
    BY <1>5
  <2>2. ASSUME NEW e, e = ptr PROVE Way(D, H, e)' /\ InState(H[e])'
    <3>1. Way(D, H, e)'
      BY <1>1, <2>1, <2>2, WayStays
    <3>2. InState(H[e])'
      BY <1>2, <2>1, <2>2 DEF InState, Seen
    <3> QED
      BY <3>1, <3>2
  <2>3. \E D1, H1 : (Way(D1, H1, ptr) /\ InState(H1[ptr]))'
    BY <1>2, <2>2
  <2> QED
    BY <1>1, <1>2, <1>3, <1>4, <2>3 DEF FirstPass, Travels
<1>6. CASE \E D, H : \E p \in D : Way(D, H, p) /\ InNumber(H[p], p)
  <2>1. PICK D, H : \E p \in D : Way(D, H, p) /\ InNumber(H[p], p)
    BY <1>6
  <2>2. PICK p \in D : Way(D, H, p) /\ InNumber(H[p], p)
    BY <2>1
  <2>3. p \in Nat /\ p >= 1
    BY <2>2 DEF Way
  <2>4. Way(D, H, p)'
    BY <1>1, <2>2, <2>3, WayStays
  <2>5. InNumber(H[p], p)'
    <3>1. p <= Len(text) /\ p <= Len(text') /\ text'[p] = text[p]
      BY <1>3, <2>2, <2>3 DEF InNumber
    <3>2. \A i \in p .. ptr - 1 : text[i] \in NumberChars /\ i \in 1 .. Len(text)
      BY <1>1, <1>3, <2>2, <2>3 DEF InNumber
    <3>3. \A i \in p .. ptr - 1 : text'[i] \in NumberChars
      BY <1>3, <3>2
    <3> QED
      BY <1>2, <2>2, <3>1, <3>3 DEF InNumber
  <2> QED
    BY <1>1, <1>2, <1>3, <1>4, <2>4, <2>5 DEF FirstPass, Travels
<1>7. CASE Doomed
  <2>1. Doomed'
    <3>1. ptr \in 1 .. Len(text) /\ ptr \in 1 .. Len(text')
      BY <1>1, <1>3, <1>7 DEF Doomed
    <3> QED
      BY <1>1, <1>2, <1>3, <1>7, <3>1 DEF Doomed
  <2> QED
    BY <1>1, <1>2, <1>3, <1>4, <2>1 DEF FirstPass, Travels
<1> QED
  BY <1>1, <1>5, <1>6, <1>7 DEF Travels

(* The iteration that leads from the end of the way to a new one. *)
LEMMA FirstProceeds ==
  ASSUME Types, FirstPass, first_pass, phase = "parsing", UNCHANGED more,
         NEW D, NEW H, NEW e, e = ptr, Way(D, H, e), InState(H[e]), Proceeds(H[e])
  PROVE  Types' /\ FirstPass' /\ first_pass' /\ phase' = "parsing"
<1> DEFINE s == H[e]
<1>1. /\ Types /\ text \in Seq(Chars) /\ ptr \in Nat /\ e \in Nat /\ Len(text) \in Nat
      /\ Fresh /\ outcome = "none"
      /\ WellShaped(s)
  BY DEF FirstPass, Types, Way
<1>2. PICK t \in {Iteration(s, b)} : Goes(t) /\ Effect(s, t)
  BY DEF Proceeds
<1>3. ~Refuses(s, b) /\ ~OpensNumber(s, b) /\ ptr' = ptr + 1
  BY DEF Proceeds
<1>4. b # "eof"
  BY <1>3, EndRefused
<1>5. ptr <= Len(text) /\ b = text[ptr]
  BY <1>4 DEF b
<1>6. /\ Types' /\ InState(t)' /\ UNCHANGED <<first_pass, phase, outcome, text, more>>
  BY <1>2 DEF Goes
<1>7. Leads(s, t, e, e + 1)
  BY <1>1, <1>2, <1>3, <1>5 DEF Leads
<1>8. e + 1 \in Nat
  BY <1>1
<1>9. ASSUME NEW q, q = e + 1
      PROVE  \E D2, H2 : Way(D2, H2, q) /\ H2[q] = t
  <2>1. q \in Nat /\ Leads(H[e], t, e, q)
    BY <1>7, <1>8, <1>9
  <2>2. Way(D \cup {q}, Extends(H, D, q, t), q) /\ Extends(H, D, q, t)[q] = t
    BY <1>1, <2>1, WayGrows
  <2> QED
    BY <2>2
<1>10. PICK D2, H2 : Way(D2, H2, e + 1) /\ H2[e + 1] = t
  BY <1>9
<1>11. Reads
  BY <1>6 DEF Reads
<1>12. Way(D2, H2, e + 1)'
  BY <1>1, <1>8, <1>10, <1>11, WayStays
<1>13. Way(D2, H2, ptr)' /\ InState(H2[ptr])'
  <2>1. ptr' = e + 1
    BY <1>3
  <2>2. Way(D2, H2, ptr)'
    BY <1>12, <2>1
  <2>3. InState(H2[e + 1])'
    BY <1>6, <1>10
  <2> QED
    BY <2>1, <2>2, <2>3
<1>14. Travels'
  BY <1>13 DEF Travels
<1>15. Fresh'
  BY <1>1, <1>2, <1>6, FreshAfter
<1>16. ptr' \in 1 .. Len(text') + 1
  BY <1>1, <1>3, <1>5, <1>6
<1> QED
  BY <1>1, <1>6, <1>14, <1>15, <1>16 DEF FirstPass

LEMMA FailKeeps ==
  ASSUME Types, Fresh, first_pass, phase = "parsing", UNCHANGED <<first_pass, text, more>>, Fail
  PROVE  Types' /\ FirstFails' /\ phase' = "failing"
<1>1. /\ phase' = "failing" /\ outcome' = "text"
      /\ UNCHANGED <<flags, ptr, top, root, alloc, nodes, live, string_length, num_digits>>
  BY DEF Fail, Stop
<1>2. Types'
  BY <1>1 DEF Types
<1> QED
  BY <1>1, <1>2 DEF FirstFails, Fresh

LEMMA RunsOutKeeps ==
  ASSUME Types, Fresh, first_pass, phase = "parsing", UNCHANGED <<text, more>>, NEW s, RunsOut(s)
  PROVE  Types' /\ FirstFails' /\ phase' = "failing"
<1>1. /\ phase' = "failing" /\ outcome' = "memory"
      /\ UNCHANGED <<first_pass, flags, ptr, top, nodes, string_length, num_digits>>
      /\ UNCHANGED <<root, alloc, live>>
  BY DEF RunsOut, AllocFailure, Stop, new_value
<1>2. Types'
  BY <1>1 DEF Types
<1> QED
  BY <1>1, <1>2 DEF FirstFails, Fresh

(* The first pass ends where its way does, and the second begins. *)
LEMMA FirstEnds ==
  ASSUME Types, FirstPass, first_pass, phase = "parsing", UNCHANGED <<text, more>>,
         NEW D, NEW H, NEW e, e = ptr, Way(D, H, e), InState(H[e]), "done" \in H[e].flags,
         Reading, b = "eof", PassEnds
  PROVE  Types' /\ SecondPass' /\ ~first_pass' /\ phase' = "parsing"
<1> DEFINE z == H[e]
<1>1. /\ text \in Seq(Chars) /\ ptr \in Nat /\ Len(text) \in Nat /\ nodes \in Seq(NodeType)
      /\ Len(nodes) \in Nat /\ Fresh /\ outcome = "none" /\ WellShaped(z) /\ H[1] = StartState
      /\ 1 \in D /\ ptr <= Len(text) + 1
  BY DEF FirstPass, Types, Way
<1>2. ptr > Len(text) /\ more = 0
  <2>1. "eof" \notin Chars
    BY JsonParserAssumption DEF Digits, Words, Escapes
  <2>2. ptr <= Len(text) => text[ptr] \in Chars
    BY <1>1 DEF FirstPass
  <2> QED
    BY <1>1, <2>1, <2>2 DEF b, Reading
<1>3. /\ first_pass' = FALSE /\ alloc' = root /\ flags' = {"seek_value"} /\ ptr' = 1
      /\ top' = None /\ root' = None
      /\ UNCHANGED <<phase, outcome, nodes, live, string_length, num_digits>>
  BY DEF PassEnds, Start, Continues
<1>4. z.seen = Len(nodes) /\ Len(nodes) >= 1
  <2>1. z.seen = Len(nodes) /\ z.seen \in Nat
    BY <1>1, ShapeFacts DEF InState, Seen
  <2>2. z.top # None
    BY <1>1 DEF WellShaped, FlagsOK
  <2>3. z.top \in 0 .. z.seen
    BY <1>1, ShapeFacts
  <2> QED
    BY <2>1, <2>2, <2>3 DEF None
<1>5. root = 1
  BY <1>1, <1>4 DEF Fresh
<1>6. Types'
  BY <1>3 DEF Types, PlainFlags, None
<1>7. /\ StartState.flags = {"seek_value"} /\ StartState.top = None /\ StartState.seen = 0
      /\ StartState.open = {} /\ StartState.size = 0
  BY StateParts DEF StartState
<1>8. InState(StartState)'
  <2>1. Seen' = 0
    BY <1>3, <1>5 DEF Seen, None
  <2>2. {"seek_value"} \ NumberFlags = {"seek_value"} /\ "string" \notin flags'
    BY <1>3 DEF NumberFlags
  <2> QED
    BY <1>3, <1>7, <2>1, <2>2 DEF InState
<1>9. Memory(0, z)'
  <2>1. \A v \in 1 .. Len(nodes) : Cell(nodes[v]) = z.cells[v]
    BY <1>4 DEF InState
  <2>2. \A v \in 1 .. Len(nodes) : ~(v <= 0) /\ ~nodes[v].allocated /\ nodes[v].values = <<>>
    BY <1>1 DEF Fresh
  <2> QED
    BY <1>3, <1>4, <2>1, <2>2 DEF Memory
<1>10. Listed(0, {})'
  BY DEF Listed, Lists
<1>11. Lives(0)'
  <2>1. {<<"values", v>> : v \in {w \in 1 .. 0 : nodes'[w].allocated}} = {}
    OBVIOUS
  <2> QED
    BY <1>1, <1>3, <2>1 DEF Lives, Fresh
<1>12. Way(D, H, e)'
  <2>1. Reads
    BY DEF Reads
  <2> QED
    BY <1>1, <2>1, WayStays
<1>13. Returns(D, H, e)'
  <2>1. /\ e \in Nat /\ e = Len(text') + 1 /\ "done" \in H[e].flags
    BY <1>1, <1>2
  <2>2. ptr' \in D /\ H[ptr'] = StartState
    BY <1>1, <1>3
  <2>3. InState(H[ptr])'
    BY <1>8, <2>2
  <2>4. Memory(H[ptr].seen, H[e])' /\ Listed(H[ptr].seen, H[ptr].open)' /\ Lives(H[ptr].seen)'
    BY <1>7, <1>9, <1>10, <1>11, <2>2
  <2>5. root' = (IF H[ptr'].seen = 0 THEN None ELSE 1) /\ alloc' <= Len(nodes')
    BY <1>1, <1>3, <1>4, <1>5, <1>7, <2>2
  <2> QED
    BY <1>12, <2>1, <2>2, <2>3, <2>4, <2>5 DEF Returns
<1> QED
  BY <1>1, <1>2, <1>3, <1>6, <1>13 DEF SecondPass

LEMMA FirstStarts ==
  ASSUME Types, FirstPass, first_pass, phase = "parsing",
         NEW D, NEW H, NEW e, e = ptr, Way(D, H, e), InState(H[e]), StartsNumber(H[e])
  PROVE  Types' /\ FirstPass' /\ first_pass' /\ phase' = "parsing"
<1>1. /\ text \in Seq(Chars) /\ Fresh /\ outcome = "none" /\ WellShaped(H[e]) /\ e \in D
      /\ ptr \in Nat /\ ptr \in 1 .. Len(text) + 1 /\ e \in Nat /\ Len(text) \in Nat
  BY DEF FirstPass, Types, Way
<1>2. /\ Types' /\ InNumber(H[e], e)' /\ ptr <= Len(text) /\ ptr' \in {ptr, ptr + 1}
      /\ new_value("integer", TRUE) /\ nodes' = Created("integer")
      /\ UNCHANGED <<first_pass, phase, outcome, text, more>>
  BY DEF StartsNumber
<1>3. Way(D, H, e)'
  <2>1. Reads
    BY <1>2 DEF Reads
  <2> QED
    BY <1>1, <2>1, WayStays
<1>4. Fresh'
  <2>1. top \in Nat
    BY <1>1, ShapeFacts DEF InState
  <2>2. /\ Len(nodes') = Len(nodes) + 1
        /\ \A u \in 1 .. Len(nodes') : ~nodes'[u].allocated /\ nodes'[u].values = <<>>
    BY <1>1, <1>2, <2>1, FreshCreated
  <2> QED
    BY <1>1, <1>2, <2>2, FreshGrows
<1>5. Travels'
  BY <1>1, <1>2, <1>3 DEF Travels
<1>6. ptr' \in 1 .. Len(text') + 1
  BY <1>1, <1>2
<1> QED
  BY <1>1, <1>2, <1>4, <1>5, <1>6 DEF FirstPass

LEMMA FirstNumbers ==
  ASSUME Types, FirstPass, first_pass, phase = "parsing", json_parse_ex,
         NEW D, NEW H, NEW p \in D, Way(D, H, p), InNumber(H[p], p)
  PROVE  /\ Types'
         /\ \/ FirstPass' /\ first_pass' /\ phase' = "parsing"
            \/ FirstFails' /\ phase' = "failing"
<1>1. /\ text \in Seq(Chars) /\ Fresh /\ outcome = "none" /\ WellShaped(H[p])
      /\ ptr \in 1 .. Len(text) + 1 /\ p \in Nat /\ Len(text) \in Nat
  BY DEF FirstPass, Types, Way
<1>2. NumberGoesOn(H[p], p) \/ NumberDone(H[p], p) \/ NumberFails
  BY <1>1, NumberProceeds
<1>3. CASE NumberFails
  BY <1>1, <1>3, FailKeeps DEF NumberFails
<1>4. CASE NumberGoesOn(H[p], p)
  <2>1. /\ Types' /\ InNumber(H[p], p)' /\ ptr' \in 1 .. Len(text) + 1
        /\ KeepsValues /\ UNCHANGED <<first_pass, phase, outcome, text, more>>
    BY <1>4 DEF NumberGoesOn, Elsewhere
  <2>2. Way(D, H, p)'
    <3>1. Reads
      BY <2>1 DEF Reads
    <3> QED
      BY <1>1, <3>1, WayStays
  <2>3. Fresh' /\ Travels'
    BY <1>1, <2>1, <2>2, FreshKept DEF Travels
  <2> QED
    BY <1>1, <2>1, <2>3 DEF FirstPass
<1>5. CASE NumberDone(H[p], p)
  <2>1. /\ Types' /\ ptr' \in 1 .. Len(text) + 1
        /\ KeepsValues /\ UNCHANGED <<first_pass, phase, outcome, text, more>>
    BY <1>5 DEF NumberDone, Elsewhere
  <2>2. Fresh'
    BY <1>1, <2>1, FreshKept
  <2>3. CASE Doomed'
    BY <1>1, <2>1, <2>2, <2>3 DEF FirstPass, Travels
  <2>4. CASE ~Doomed'
    <3>1. /\ p < ptr' /\ \A i \in p .. ptr' - 1 : text[i] \in NumberChars
          /\ IF ptr' <= Len(text) THEN text[ptr'] \notin NumberChars
             ELSE ptr' = Len(text) + 1 /\ more = 0
          /\ \E t \in {Iteration(H[p], text[p])} : InState(t)'
      BY <1>5, <2>4 DEF NumberDone
    <3>2. PICK t \in {Iteration(H[p], text[p])} : InState(t)'
      BY <3>1
    <3>3. p <= Len(text) /\ OpensNumber(H[p], text[p])
      BY DEF InNumber
    <3>4. ~Refuses(H[p], text[p])
      <4>1. text[p] \notin {" ", "]"} /\ text[p] \in DOMAIN TypeOf
        BY <3>3 DEF OpensNumber, Opens, Digits
      <4> QED
        BY <3>3, <4>1 DEF Refuses, OpensNumber, Opens
    <3>5. ASSUME NEW q, q = ptr' PROVE \E D2, H2 : Way(D2, H2, q) /\ H2[q] = t
      <4>1. q \in Nat
        BY <2>1, <3>5
      <4>2. NumberAt(p, q)
        BY <3>1, <3>5 DEF NumberAt
      <4>3. Leads(H[p], t, p, q)
        BY <3>1, <3>2, <3>3, <3>4, <3>5, <4>2 DEF Leads
      <4>4. Way(D \cup {q}, Extends(H, D, q, t), q) /\ Extends(H, D, q, t)[q] = t
        <5>1. text \in Seq(Chars) /\ p \in Nat /\ Way(D, H, p)
          BY <1>1
        <5>2. ASSUME NEW e \in Nat, e = p, NEW r, r = t, Way(D, H, e), Leads(H[e], r, e, q)
              PROVE  Way(D \cup {q}, Extends(H, D, q, r), q) /\ Extends(H, D, q, r)[q] = r
          BY <4>1, <5>1, <5>2, WayGrows
        <5> QED
          BY <4>3, <5>1, <5>2
      <4> QED
        BY <4>4
    <3>6. ASSUME NEW q, q = ptr' PROVE \E D2, H2 : Way(D2, H2, q)' /\ InState(H2[q])'
      <4>1. PICK D2, H2 : Way(D2, H2, q) /\ H2[q] = t
        BY <3>5, <3>6
      <4>2. Reads /\ q \in Nat
        BY <2>1, <3>6 DEF Reads
      <4>3. Way(D2, H2, q)'
        BY <1>1, <4>1, <4>2, WayStays
      <4> QED
        BY <3>2, <4>1, <4>3
    <3>7. \E D2, H2 : (Way(D2, H2, ptr) /\ InState(H2[ptr]))'
      BY <3>6
    <3> QED
      BY <1>1, <2>1, <2>2, <3>7 DEF FirstPass, Travels
  <2> QED
    BY <2>3, <2>4
<1> QED
  BY <1>2, <1>3, <1>4, <1>5

LEMMA FirstParses ==
  ASSUME Types, FirstPass, first_pass, phase = "parsing", json_parse_ex
  PROVE  /\ Types'
         /\ \/ FirstPass' /\ first_pass' /\ phase' = "parsing"
            \/ SecondPass' /\ ~first_pass' /\ phase' = "parsing"
            \/ FirstFails' /\ phase' = "failing"
<1>1. Fresh /\ Travels /\ UNCHANGED <<text, more>> /\ Reading
  BY DEF FirstPass, json_parse_ex, readVars
<1>2. CASE \E D, H : Way(D, H, ptr) /\ InState(H[ptr])
  <2>1. PICK D, H : Way(D, H, ptr) /\ InState(H[ptr])
    BY <1>2
  <2>2. ASSUME NEW e, e = ptr
        PROVE  /\ Types'
               /\ \/ FirstPass' /\ first_pass' /\ phase' = "parsing"
                  \/ SecondPass' /\ ~first_pass' /\ phase' = "parsing"
                  \/ FirstFails' /\ phase' = "failing"
    <3>1. Way(D, H, e) /\ InState(H[e]) /\ WellShaped(H[e])
      BY <2>1, <2>2 DEF Way
    <3>2. H[e].seen = Len(nodes) /\ Len(nodes) \in Nat
      BY <3>1 DEF InState, Seen, Types
    <3>3. Fits(H[e]) /\ H[e].seen <= Len(nodes)
      BY <3>2 DEF Fits
    <3>4. \/ Proceeds(H[e]) \/ Turned(H[e]) \/ RunsOut(H[e]) \/ StartsNumber(H[e])
          \/ b = "eof" /\ PassEnds /\ "done" \in H[e].flags
      BY <3>1, <3>3, IterationProceeds
    <3>5. CASE Proceeds(H[e])
      BY <1>1, <2>2, <3>1, <3>5, FirstProceeds
    <3>6. CASE Turned(H[e])
      BY <1>1, <3>6, FailKeeps DEF Turned
    <3>7. CASE RunsOut(H[e])
      BY <1>1, <3>7, RunsOutKeeps
    <3>8. CASE StartsNumber(H[e])
      BY <2>2, <3>1, <3>8, FirstStarts
    <3>9. CASE b = "eof" /\ PassEnds /\ "done" \in H[e].flags
      BY <1>1, <2>2, <3>1, <3>9, FirstEnds
    <3> QED
      BY <3>4, <3>5, <3>6, <3>7, <3>8, <3>9
  <2> QED
    BY <2>2
<1>3. CASE \E D, H : \E p \in D : Way(D, H, p) /\ InNumber(H[p], p)
  <2>1. PICK D, H : \E p \in D : Way(D, H, p) /\ InNumber(H[p], p)
    BY <1>3
  <2>2. PICK p \in D : Way(D, H, p) /\ InNumber(H[p], p)
    BY <2>1
  <2> QED
    BY <2>2, FirstNumbers
<1>4. CASE Doomed
  BY <1>1, <1>4, DoomedFails, FailKeeps
<1> QED
  BY <1>1, <1>2, <1>3, <1>4 DEF Travels

-----------------------------------------------------------------------------
(* The second pass.                                                        *)

LEMMA NumberBehind ==
  ASSUME Types, NEW q \in Nat, ptr < q, ptr <= Len(text), NumberAt(ptr, q)
  PROVE  BehindNumber = q
<1>1. ptr \in Nat /\ Len(text) \in Nat
  BY DEF Types
<1>2. /\ \A i \in ptr .. q - 1 : text[i] \in NumberChars
      /\ IF q <= Len(text) THEN text[q] \notin NumberChars ELSE q = Len(text) + 1
  BY DEF NumberAt
<1>3. q \in ptr + 1 .. Len(text) + 1
  BY <1>1, <1>2
<1>4. \A i \in ptr + 1 .. Len(text) + 1 :
        /\ i <= Len(text) => text[i] \notin NumberChars
        /\ \A j \in ptr .. i - 1 : text[j] \in NumberChars
        => i = q
  <2> SUFFICES ASSUME NEW i \in ptr + 1 .. Len(text) + 1,
                      i <= Len(text) => text[i] \notin NumberChars,
                      \A j \in ptr .. i - 1 : text[j] \in NumberChars
               PROVE  i = q
    OBVIOUS
  <2>1. ~(i < q)
    <3>1. i < q => i \in ptr .. q - 1 /\ i <= Len(text)
      BY <1>1, <1>3
    <3> QED
      BY <1>2, <3>1
  <2>2. ~(q < i)
    <3>1. q < i => q \in ptr .. i - 1 /\ q <= Len(text)
      BY <1>1
    <3> QED
      BY <1>2, <3>1
  <2> QED
    BY <1>1, <2>1, <2>2
<1> QED
  BY <1>2, <1>3, <1>4 DEF BehindNumber

LEMMA EmptyCell ==
  ASSUME NEW z, WellShaped(z), "done" \in z.flags, NEW v \in 1 .. z.seen,
         ~NeedsMemory(z.cells[v])
  PROVE  z.cells[v].length = 0 /\ z.cells[v].bytes = 0
<1>1. /\ z.open = {} /\ CellOK(z.cells, v) /\ ~Pending(z.cells[v])
      /\ z.cells[v].length \in Nat /\ z.cells[v].bytes \in Nat /\ z.cells[v] \in CellType
  BY ShapeFacts DEF WellShaped, FlagsOK, CellsOK
<1>2. z.cells[v].kind \in {"object", "array", "string", "word", "number"}
  BY <1>1 DEF CellType
<1>3. z.cells[v].length = 0
  BY <1>1, <1>2 DEF NeedsMemory, CellOK
<1>4. ~(z.cells[v].bytes > 0)
  BY <1>1, <1>3 DEF Pending
<1> QED
  BY <1>1, <1>3, <1>4

LEMMA OpeningCell ==
  ASSUME NEW s, WellShaped(s), NEW kind \in {"object", "array", "string", "word", "number"}
  PROVE  LET t == Opening(s, kind)
         IN  /\ t.seen = s.seen + 1
             /\ t.cells[s.seen + 1].kind = kind /\ t.cells[s.seen + 1].parent = s.top
<1> DEFINE v == s.seen + 1
           cells == Extended(s, kind)
           t == Opening(s, kind)
<1>1. s.seen \in Nat /\ s.top \in 0 .. s.seen /\ v # s.top
  BY ShapeFacts
<1>2. /\ cells \in [1 .. v -> CellType] /\ cells[v] = NewCell(kind, s.top)
      /\ cells[v].kind = kind /\ cells[v].parent = s.top
  <2>1. cells \in [1 .. v -> CellType] /\ cells[v] = NewCell(kind, s.top)
    BY ExtendedCells
  <2> HIDE DEF cells, v
  <2>2. NewCell(kind, s.top).kind = kind /\ NewCell(kind, s.top).parent = s.top
    BY DEF NewCell
  <2> QED
    BY <2>1, <2>2
<1> HIDE DEF cells, v
<1>3. CASE kind \notin {"word", "number"}
  <2>1. t.seen = v /\ t.cells = cells
    BY <1>3, StateParts DEF Opening, v, cells
  <2> QED
    BY <1>2, <2>1 DEF v
<1>4. CASE kind \in {"word", "number"}
  <2>1. t = Told(s.flags \ {"seek_value"}, s.open, v, cells, v)
    BY <1>4 DEF Opening, v, cells
  <2>2. CASE s.top = None
    <3>1. t = State((s.flags \ {"seek_value"}) \cup {"need_comma", "done"}, v, 0,
                    s.open \ {v}, v, cells)
      BY <1>2, <2>1, <2>2 DEF Told
    <3>2. t.seen = v /\ t.cells = cells
      BY <3>1, StateParts
    <3> QED
      BY <1>2, <3>2 DEF v
  <2>3. CASE s.top # None
    <3>1. t.seen = v /\ t.cells = [cells EXCEPT ![s.top].length = @ + 1]
      BY <1>2, <2>1, <2>3, StateParts DEF Told
    <3>2. v \in 1 .. v
      BY <1>1 DEF v
    <3>3. t.cells[v] = cells[v]
      BY <1>1, <1>2, <3>1, <3>2
    <3> QED
      BY <1>2, <3>1, <3>3 DEF v
  <2> QED
    BY <2>2, <2>3
<1> QED
  BY <1>3, <1>4

(* Wherever the second pass is but at the end, the first has shown the way. *)
LEMMA SecondFits ==
  ASSUME Types, ~first_pass, NEW D, NEW H, NEW e, Returns(D, H, e), ptr # e,
         NEW s, s = H[ptr]
  PROVE  /\ s.seen <= Len(nodes) /\ Fits(s) /\ ~Refuses(s, b) /\ b # "eof"
         /\ \E q \in D : /\ H[q] = Iteration(s, b)
                         /\ q = IF OpensNumber(s, b) THEN BehindNumber ELSE ptr + 1
<1> DEFINE z == H[e]
<1>1. /\ WellShaped(s) /\ WellShaped(z) /\ Before(s, z) /\ InState(s) /\ Memory(s.seen, z)
      /\ "done" \in z.flags /\ D \subseteq 1 .. e /\ e \in Nat /\ alloc <= Len(nodes)
      /\ e \in D
  BY DEF Returns, Way
<1>2. PICK q \in D : Leads(s, H[q], ptr, q)
  BY DEF Returns, Way
<1>3. /\ q \in Nat /\ ptr < q /\ ptr <= Len(text) /\ b = text[ptr]
      /\ ~Refuses(s, b) /\ H[q] = Iteration(s, b)
      /\ IF OpensNumber(s, b) THEN NumberAt(ptr, q) ELSE q = ptr + 1
      /\ WellShaped(H[q]) /\ Before(H[q], z)
  BY <1>1, <1>2 DEF Leads, b, Returns, Way
<1>4. OpensNumber(s, b) => BehindNumber = q
  BY <1>3, NumberBehind
<1>5. b # "eof"
  BY <1>3, EndRefused
<1>6. /\ s.seen \in Nat /\ z.seen \in Nat /\ z.seen = Len(nodes) /\ s.seen <= Len(nodes)
      /\ s.seen = Seen /\ alloc \in Nat
  BY <1>1, ShapeFacts DEF Memory, Before, InState, Types
<1>7. ASSUME Opens(s, b) PROVE Fits(s)
  <2> DEFINE kind == Kind(TypeOf[b])
             v == s.seen + 1
  <2>1. /\ "seek_value" \in s.flags
        /\ {"string", "done", "need_comma", "need_colon"} \cap s.flags = {}
        /\ b \in DOMAIN TypeOf /\ kind \in {"object", "array", "string", "word", "number"}
    BY <1>7, KindsOpened DEF Opens
  <2>2. b \notin {" ", "]"}
    BY <2>1 DEF TypeOf, Digits
  <2>3. H[q] = Opening(s, kind)
    BY <1>3, <2>1, <2>2 DEF Iteration, Seeking
  <2> HIDE DEF kind
  <2>4. H[q].seen = v /\ H[q].cells[v].kind = kind /\ H[q].cells[v].parent = s.top
    BY <1>1, <2>1, <2>3, OpeningCell
  <2>5. v \in 1 .. Len(nodes) /\ z.cells[v].kind = kind /\ z.cells[v].parent = s.top
    <3>1. v <= z.seen /\ v \in 1 .. v
      BY <1>3, <1>6, <2>4 DEF Before
    <3> QED
      BY <1>3, <1>6, <2>4, <3>1 DEF Before
  <2>6. alloc = v
    BY <1>6, <2>5 DEF Seen, None
  <2>7. Cell(nodes[v]) = z.cells[v]
    BY <1>1, <1>6, <2>5 DEF Memory
  <2>8. ~NeedsMemory(z.cells[v]) => z.cells[v].length = 0 /\ z.cells[v].bytes = 0
    BY <1>1, <1>6, <2>5, EmptyCell
  <2>9. OpensNumber(s, b) => BehindNumber \in Nat
    BY <1>3, <1>4
  <2> QED
    BY <2>5, <2>6, <2>7, <2>8, <2>9 DEF Fits, kind
<1>8. Fits(s)
  BY <1>7 DEF Fits
<1> QED
  BY <1>3, <1>4, <1>5, <1>6, <1>8

(* A new value in the second pass. *)
LEMMA SecondCreated ==
  ASSUME Types, ~first_pass, NEW s, NEW t, NEW z, WellShaped(s), t.seen <= z.seen,
         InState(s), Memory(s.seen, z), NEW type, Begins(s, t, type), alloc <= Len(nodes)
  PROVE  LET v  == s.seen + 1
             ns == Created(type)
             n  == nodes[v]
             a  == ns[v]
         IN  /\ v \in 1 .. Len(nodes) /\ alloc = v /\ Len(ns) = Len(nodes) /\ t.seen = v
             /\ Len(nodes') = Len(nodes)
             /\ \A u \in 1 .. Len(nodes) : u # v => ns[u] = nodes[u]
             /\ n \in NodeType /\ a = Allocated(n)
             /\ Cell(n) = z.cells[v] /\ ~n.allocated /\ n.values = <<>>
             /\ \A u \in 1 .. Len(nodes) : u > v => nodes'[u] = nodes[u]
<1> DEFINE v == s.seen + 1
           ns == Created(type)
<1>1. /\ s.seen \in Nat /\ z.seen = Len(nodes) /\ Len(nodes) \in Nat /\ nodes \in Seq(NodeType)
      /\ s.seen = Seen /\ alloc \in Nat /\ t.seen = v
  BY ShapeFacts DEF Types, InState, Memory, Begins
<1>2. v \in 1 .. Len(nodes)
  BY <1>1
<1>3. alloc = v
  BY <1>1, <1>2 DEF Seen, None
<1> HIDE DEF v
<1>4. nodes[v] \in NodeType /\ Allocated(nodes[v]) \in NodeType
  BY <1>1, <1>2, AllocatedNode
<1>5. ns = [nodes EXCEPT ![v] = Allocated(nodes[v])]
  BY <1>3 DEF Created
<1> HIDE DEF ns
<1>6. /\ Len(ns) = Len(nodes) /\ ns[v] = Allocated(nodes[v])
      /\ \A u \in 1 .. Len(nodes) : u # v => ns[u] = nodes[u]
  BY <1>1, <1>2, <1>4, <1>5
<1>7. Cell(nodes[v]) = z.cells[v] /\ ~nodes[v].allocated /\ nodes[v].values = <<>>
  <2>1. ~(v <= s.seen)
    BY <1>1 DEF v
  <2> QED
    BY <1>2, <2>1 DEF Memory
<1>8. nodes' = ns \/ Attached(ns, v)
  BY DEF Begins, ns, v
<1>9. Len(nodes') = Len(nodes) /\ \A u \in 1 .. Len(nodes) : u > v => nodes'[u] = nodes[u]
  <2>1. CASE nodes' = ns
    BY <1>2, <1>6, <2>1
  <2>2. CASE Attached(ns, v)
    BY <1>2, <1>6, <2>2 DEF Attached
  <2> QED
    BY <1>8, <2>1, <2>2
<1> QED
  BY <1>1, <1>2, <1>3, <1>4, <1>6, <1>7, <1>9 DEF v, ns

LEMMA MemoryAfter ==
  ASSUME Types, ~first_pass, NEW s, NEW t, NEW z, WellShaped(s), t.seen <= z.seen, InState(s),
         Memory(s.seen, z), Lives(s.seen), alloc <= Len(nodes), Effect(s, t),
         root = IF s.seen = 0 THEN None ELSE 1
  PROVE  /\ Memory(t.seen, z)' /\ Lives(t.seen)' /\ Len(nodes') = Len(nodes)
         /\ root' = IF t.seen = 0 THEN None ELSE 1
         /\ alloc' <= Len(nodes')
<1>1. s.seen \in Nat /\ Len(nodes) \in Nat /\ s.seen = Seen /\ z.seen = Len(nodes) /\ s.top = top
  BY ShapeFacts DEF Types, InState, Memory
<1>2. ASSUME t.seen = s.seen, Len(nodes') = Len(nodes), UNCHANGED <<root, alloc, live>>,
             \A u \in 1 .. Len(nodes) : SameMemory(nodes[u], nodes'[u]),
             \A u \in 1 .. Len(nodes) : u > s.seen => nodes'[u] = nodes[u]
      PROVE  /\ Memory(t.seen, z)' /\ Lives(t.seen)'
             /\ root' = IF t.seen = 0 THEN None ELSE 1
             /\ alloc' <= Len(nodes')
  <2>1. \A u \in 1 .. Len(nodes) :
          IF u <= s.seen
          THEN /\ nodes'[u].allocated <=> NeedsMemory(z.cells[u])
               /\ nodes'[u].allocated =>
                    /\ nodes'[u].room = z.cells[u].length
                         + (IF z.cells[u].kind = "string" THEN 1 ELSE 0)
                    /\ nodes'[u].name_room = z.cells[u].bytes
          ELSE Cell(nodes'[u]) = z.cells[u] /\ ~nodes'[u].allocated /\ nodes'[u].values = <<>>
    <3> SUFFICES ASSUME NEW u \in 1 .. Len(nodes)
                 PROVE  IF u <= s.seen
                        THEN /\ nodes'[u].allocated <=> NeedsMemory(z.cells[u])
                             /\ nodes'[u].allocated =>
                                  /\ nodes'[u].room = z.cells[u].length
                                       + (IF z.cells[u].kind = "string" THEN 1 ELSE 0)
                                  /\ nodes'[u].name_room = z.cells[u].bytes
                        ELSE Cell(nodes'[u]) = z.cells[u] /\ ~nodes'[u].allocated /\ nodes'[u].values = <<>>
      OBVIOUS
    <3>1. CASE u <= s.seen
      <4>1. /\ nodes[u].allocated <=> NeedsMemory(z.cells[u])
            /\ nodes[u].allocated =>
                 /\ nodes[u].room = z.cells[u].length
                      + (IF z.cells[u].kind = "string" THEN 1 ELSE 0)
                 /\ nodes[u].name_room = z.cells[u].bytes
        BY <3>1 DEF Memory
      <4>2. /\ nodes'[u].allocated = nodes[u].allocated /\ nodes'[u].room = nodes[u].room
            /\ nodes'[u].name_room = nodes[u].name_room
        BY <1>2 DEF SameMemory
      <4> QED
        BY <3>1, <4>1, <4>2
    <3>2. CASE ~(u <= s.seen)
      <4>1. nodes'[u] = nodes[u]
        BY <1>1, <1>2, <3>2
      <4> QED
        BY <3>2, <4>1 DEF Memory
    <3> QED
      BY <3>1, <3>2
  <2>2. Memory(t.seen, z)'
    BY <1>1, <1>2, <2>1 DEF Memory
  <2>3. {w \in 1 .. t.seen : nodes'[w].allocated} = {w \in 1 .. s.seen : nodes[w].allocated}
    <3>1. \A w \in 1 .. s.seen : w \in 1 .. Len(nodes)
      BY <1>1, <1>2
    <3> QED
      BY <1>2, <3>1 DEF SameMemory
  <2>4. Lives(t.seen)'
    BY <1>2, <2>3 DEF Lives
  <2> QED
    BY <1>2, <2>2, <2>4
<1>3. CASE Stays(s, t)
  BY <1>2, <1>3 DEF Stays
<1>4. CASE Ends(s, t)
  <2>1. top \in 1 .. s.seen
    BY <1>4 DEF Ends
  <2> QED
    BY <1>1, <1>2, <1>4, <2>1 DEF Ends, Attached
<1>5. ASSUME NEW type \in {"object", "array", "string", "word", "integer"}, Begins(s, t, type)
      PROVE  /\ Memory(t.seen, z)' /\ Lives(t.seen)' /\ Len(nodes') = Len(nodes)
             /\ root' = IF t.seen = 0 THEN None ELSE 1
             /\ alloc' <= Len(nodes')
  <2> DEFINE v  == s.seen + 1
             ns == Created(type)
             n  == nodes[v]
             a  == ns[v]
  <2>1. /\ v \in 1 .. Len(nodes) /\ alloc = v /\ Len(ns) = Len(nodes) /\ t.seen = v
        /\ Len(nodes') = Len(nodes)
        /\ \A u \in 1 .. Len(nodes) : u # v => ns[u] = nodes[u]
        /\ n \in NodeType /\ a = Allocated(n)
        /\ Cell(n) = z.cells[v] /\ ~n.allocated /\ n.values = <<>>
        /\ \A u \in 1 .. Len(nodes) : u > v => nodes'[u] = nodes[u]
    BY <1>5, SecondCreated
  <2>2. (nodes' = ns \/ Attached(ns, v)) /\ new_value(type, TRUE)
    BY <1>5 DEF Begins
  <2> HIDE DEF ns, a, n, v
  <2>3. \A u \in 1 .. Len(nodes) : SameMemory(ns[u], nodes'[u])
    BY <2>1, <2>2 DEF Attached, SameMemory
  <2>4. /\ TakesMemory(n) <=> NeedsMemory(z.cells[v])
        /\ a.allocated <=> TakesMemory(n)
        /\ TakesMemory(n) =>
             /\ a.room = z.cells[v].length + (IF z.cells[v].kind = "string" THEN 1 ELSE 0)
             /\ a.name_room = z.cells[v].bytes
    <3>1. /\ TakesMemory(n) <=> NeedsMemory(Cell(n))
          /\ TakesMemory(n) => a.allocated /\ a.room = Holds(n) /\ a.name_room = n.name_bytes
          /\ ~TakesMemory(n) => a = n
      BY <2>1, AllocatedNode
    <3>2. /\ Cell(n).length = n.length /\ Cell(n).bytes = n.name_bytes
          /\ Cell(n).kind = "string" <=> n.type = "string"
          /\ n.length \in Nat
      BY <2>1, CellTypes, NodeTypes
    <3>3. Holds(n) = n.length + (IF n.type = "string" THEN 1 ELSE 0)
      BY <3>2 DEF Holds
    <3> QED
      BY <2>1, <3>1, <3>2, <3>3
  <2>5. /\ nodes'[v].allocated <=> TakesMemory(n)
        /\ nodes'[v].allocated = a.allocated
        /\ nodes'[v].room = a.room /\ nodes'[v].name_room = a.name_room
    BY <2>1, <2>3, <2>4 DEF SameMemory, a
  <2>6. \A u \in 1 .. s.seen : u \in 1 .. Len(nodes) /\ u # v /\ SameMemory(nodes[u], nodes'[u])
    BY <1>1, <2>1, <2>3 DEF v
  <2>7. Memory(v, z)'
    <3> SUFFICES ASSUME NEW u \in 1 .. Len(nodes)
                 PROVE  IF u <= v
                        THEN /\ nodes'[u].allocated <=> NeedsMemory(z.cells[u])
                             /\ nodes'[u].allocated =>
                                  /\ nodes'[u].room = z.cells[u].length
                                       + (IF z.cells[u].kind = "string" THEN 1 ELSE 0)
                                  /\ nodes'[u].name_room = z.cells[u].bytes
                        ELSE Cell(nodes'[u]) = z.cells[u] /\ ~nodes'[u].allocated /\ nodes'[u].values = <<>>
      BY <1>1, <2>1 DEF Memory
    <3>1. CASE u = v
      BY <2>1, <2>4, <2>5, <3>1
    <3>2. CASE u < v
      <4>1. u <= s.seen /\ u \in 1 .. s.seen
        BY <1>1, <3>2 DEF v
      <4>2. /\ nodes[u].allocated <=> NeedsMemory(z.cells[u])
            /\ nodes[u].allocated =>
                 /\ nodes[u].room = z.cells[u].length
                      + (IF z.cells[u].kind = "string" THEN 1 ELSE 0)
                 /\ nodes[u].name_room = z.cells[u].bytes
        BY <4>1 DEF Memory
      <4>3. /\ nodes'[u].allocated = nodes[u].allocated /\ nodes'[u].room = nodes[u].room
            /\ nodes'[u].name_room = nodes[u].name_room
        BY <2>6, <4>1 DEF SameMemory
      <4> QED
        BY <2>1, <3>2, <4>2, <4>3
    <3>3. CASE u > v
      <4>1. ~(u <= s.seen) /\ ~(u <= v) /\ nodes'[u] = nodes[u]
        BY <1>1, <2>1, <3>3 DEF v
      <4> QED
        BY <4>1 DEF Memory
    <3> QED
      BY <2>1, <3>1, <3>2, <3>3
  <2>8. /\ root' = (IF root = None THEN v ELSE root)
        /\ alloc' = (IF v < Len(nodes) THEN v + 1 ELSE None)
        /\ live' = IF TakesMemory(n) THEN live \cup {<<"values", v>>} ELSE live
    BY <2>1, <2>2 DEF new_value, n
  <2>9. Lives(v)'
    <3>1. \A w : w \in {u \in 1 .. v : nodes'[u].allocated}
                   <=> w \in {u \in 1 .. s.seen : nodes[u].allocated} \/ (w = v /\ TakesMemory(n))
      <4>1. \A w : w \in 1 .. v <=> w \in 1 .. s.seen \/ w = v
        BY <1>1 DEF v
      <4>2. \A u \in 1 .. s.seen : nodes'[u].allocated = nodes[u].allocated
        BY <2>6 DEF SameMemory
      <4>3. v \notin 1 .. s.seen
        BY <1>1 DEF v
      <4> QED
        BY <2>5, <4>1, <4>2, <4>3
    <3>2. live = {<<"value", u>> : u \in 1 .. Len(nodes)}
                   \cup {<<"values", u>> : u \in {w \in 1 .. s.seen : nodes[w].allocated}}
      BY DEF Lives
    <3> DEFINE old == {w \in 1 .. s.seen : nodes[w].allocated}
               new == {w \in 1 .. v : nodes'[w].allocated}
    <3>3. \A w : w \in new <=> w \in old \/ (w = v /\ TakesMemory(n))
      BY <3>1
    <3>4. live = {<<"value", u>> : u \in 1 .. Len(nodes)} \cup {<<"values", u>> : u \in old}
      BY <3>2
    <3> HIDE DEF old, new
    <3>5. live' = {<<"value", u>> : u \in 1 .. Len(nodes)} \cup {<<"values", u>> : u \in new}
      <4>1. CASE TakesMemory(n)
        BY <2>8, <3>3, <3>4, <4>1
      <4>2. CASE ~TakesMemory(n)
        BY <2>8, <3>3, <3>4, <4>2
      <4> QED
        BY <4>1, <4>2
    <3> QED
      BY <2>1, <3>5 DEF Lives, new
  <2>10. root' = 1 /\ v # 0 /\ alloc' <= Len(nodes')
    BY <1>1, <2>1, <2>8 DEF None, v
  <2> QED
    BY <2>1, <2>7, <2>9, <2>10
<1> QED
  BY <1>2, <1>3, <1>4, <1>5 DEF Effect, Stays, Ends, Attached

LEMMA ListsAttach ==
  ASSUME ~first_pass, NEW ns \in Seq(NodeType), NEW n \in 1 .. Len(ns), NEW open,
         Lists(ns, n, open), Tree(ns, n), NEW v \in 1 .. n, v \in open,
         v # 1 => IsHolder(ns[ns[v].parent]),
         Attached(ns, v)
  PROVE  Lists(nodes', n, open \ {v})
<1> DEFINE p == ns[v].parent
           new == nodes'
           vs(u) == ns[u].values
           ws(u) == new[u].values
<1>1. /\ n \in Nat /\ Len(ns) \in Nat /\ Len(new) = Len(ns)
      /\ \A u \in 1 .. n : u \in 1 .. Len(ns) /\ ns[u] \in NodeType /\ vs(u) \in Seq(Nat)
      /\ \A u \in 1 .. n : new[u].type = ns[u].type /\ new[u].parent = ns[u].parent
      /\ \A u \in 1 .. n : IF u = p THEN OneMoreChild(ns[u], new[u], v)
                           ELSE SameChildren(ns[u], new[u])
  <2>1. \A u \in 1 .. n : u \in 1 .. Len(ns) /\ ns[u] \in NodeType
    OBVIOUS
  <2>2. \A u \in 1 .. n : vs(u) \in Seq(Nat)
    BY <2>1, NodeTypes
  <2> QED
    BY <2>1, <2>2 DEF Attached, SameMemory
<1>2. \A u \in 1 .. n : IF u = 1 THEN ns[u].parent = None ELSE ns[u].parent \in 1 .. u - 1
  BY DEF Tree
<1>3. \A u \in 1 .. n :
        /\ Len(vs(u)) = IF IsHolder(ns[u]) THEN ns[u].length ELSE 0
        /\ \A i \in 1 .. Len(vs(u)) : vs(u)[i] \in 1 .. n /\ vs(u)[i] \notin open /\ ns[vs(u)[i]].parent = u
        /\ \A i, j \in 1 .. Len(vs(u)) : vs(u)[i] = vs(u)[j] => i = j
        /\ u # 1 /\ u \notin open => \E i \in 1 .. Len(vs(ns[u].parent)) : vs(ns[u].parent)[i] = u
  BY DEF Lists, IsHolder
<1>4. \A u \in 1 .. n :
        IF u = p THEN ws(u) = Append(vs(u), v) /\ new[u].length = ns[u].length + 1
        ELSE ws(u) = vs(u) /\ (IsHolder(ns[u]) => new[u].length = ns[u].length)
  BY <1>1 DEF OneMoreChild, SameChildren
<1>5. \A u \in 1 .. n :
        /\ Len(ws(u)) = (IF u = p THEN Len(vs(u)) + 1 ELSE Len(vs(u))) /\ Len(vs(u)) \in Nat
        /\ \A i \in 1 .. Len(ws(u)) : ws(u)[i] = IF i <= Len(vs(u)) THEN vs(u)[i] ELSE v
  <2> SUFFICES ASSUME NEW u \in 1 .. n
               PROVE  /\ Len(ws(u)) = (IF u = p THEN Len(vs(u)) + 1 ELSE Len(vs(u)))
                      /\ Len(vs(u)) \in Nat
                      /\ \A i \in 1 .. Len(ws(u)) : ws(u)[i] = IF i <= Len(vs(u)) THEN vs(u)[i] ELSE v
    OBVIOUS
  <2>1. vs(u) \in Seq(Nat)
    BY <1>1
  <2>2. CASE u = p
    <3>1. ws(u) = Append(vs(u), v)
      BY <1>4, <2>2
    <3> HIDE DEF vs, ws
    <3> QED
      BY <2>1, <2>2, <3>1
  <2>3. CASE u # p
    <3>1. ws(u) = vs(u)
      BY <1>4, <2>3
    <3> HIDE DEF vs, ws
    <3> QED
      BY <2>1, <2>3, <3>1
  <2> QED
    BY <2>2, <2>3
<1>6. p \in 0 .. n /\ (p = 0 => v = 1) /\ (v # 1 => p \in 1 .. n /\ IsHolder(ns[p]))
  BY <1>1, <1>2 DEF None
<1> HIDE DEF vs, ws, p, new
<1>9. \A u \in 1 .. n : new[u].parent = ns[u].parent
  BY <1>1
<1>10. \A u \in 1 .. n : u # 1 => ns[u].parent \in 1 .. n
  BY <1>1, <1>2
<1>7. ASSUME NEW u \in 1 .. n
      PROVE  /\ Len(ws(u)) = IF IsHolder(new[u]) THEN new[u].length ELSE 0
             /\ \A i \in 1 .. Len(ws(u)) :
                  ws(u)[i] \in 1 .. n /\ ws(u)[i] \notin open \ {v} /\ new[ws(u)[i]].parent = u
             /\ \A i, j \in 1 .. Len(ws(u)) : ws(u)[i] = ws(u)[j] => i = j
             /\ u # 1 /\ u \notin open \ {v} =>
                  \E i \in 1 .. Len(ws(new[u].parent)) : ws(new[u].parent)[i] = u
  <2>1. Len(ws(u)) = IF IsHolder(new[u]) THEN new[u].length ELSE 0
    <3>1. IsHolder(new[u]) <=> IsHolder(ns[u])
      BY <1>1 DEF IsHolder
    <3>2. CASE u = p
      <4>1. v # 1
        BY <1>2, <3>2 DEF p, None
      <4> QED
        <5>1. IsHolder(ns[u]) /\ new[u].length = ns[u].length + 1
          BY <1>4, <1>6, <3>2, <4>1
        <5>2. Len(vs(u)) = ns[u].length
          BY <1>3, <5>1
        <5>3. Len(ws(u)) = Len(vs(u)) + 1
          BY <1>5, <3>2
        <5> QED
          BY <3>1, <5>1, <5>2, <5>3
    <3>3. CASE u # p
      BY <1>3, <1>4, <1>5, <3>1, <3>3, SMTT(30)
    <3> QED
      BY <3>2, <3>3
  <2>2. ASSUME NEW i \in 1 .. Len(ws(u))
        PROVE  ws(u)[i] \in 1 .. n /\ ws(u)[i] \notin open \ {v} /\ new[ws(u)[i]].parent = u
    <3>1. CASE i <= Len(vs(u))
      <4>1. i \in 1 .. Len(vs(u)) /\ ws(u)[i] = vs(u)[i]
        BY <1>5, <3>1
      <4>2. vs(u)[i] \in 1 .. n /\ vs(u)[i] \notin open /\ ns[vs(u)[i]].parent = u
        BY <1>3, <4>1
      <4> QED
        BY <1>9, <4>1, <4>2
    <3>2. CASE ~(i <= Len(vs(u)))
      <4>1. u = p /\ ws(u)[i] = v
        BY <1>5, <3>2
      <4> QED
        BY <1>9, <4>1 DEF p
    <3> QED
      BY <3>1, <3>2
  <2>3. ASSUME NEW i \in 1 .. Len(ws(u)), NEW j \in 1 .. Len(ws(u)), ws(u)[i] = ws(u)[j]
        PROVE  i = j
    <3>1. \A k \in 1 .. Len(vs(u)) : vs(u)[k] # v
      BY <1>3
    <3>2. \A k \in 1 .. Len(ws(u)) : k \in 1 .. Len(vs(u)) \/ k = Len(vs(u)) + 1
      BY <1>5
    <3>3. \A k \in 1 .. Len(vs(u)) : ws(u)[k] = vs(u)[k]
      BY <1>5
    <3>4. ws(u)[Len(vs(u)) + 1] = v \/ Len(vs(u)) + 1 \notin 1 .. Len(ws(u))
      BY <1>5
    <3>5. \A k, l \in 1 .. Len(vs(u)) : vs(u)[k] = vs(u)[l] => k = l
      BY <1>3
    <3>6. CASE i \in 1 .. Len(vs(u)) /\ j \in 1 .. Len(vs(u))
      BY <2>3, <3>3, <3>5, <3>6
    <3>7. CASE i = Len(vs(u)) + 1 /\ j \in 1 .. Len(vs(u))
      BY <2>3, <3>1, <3>3, <3>4, <3>7
    <3>8. CASE i \in 1 .. Len(vs(u)) /\ j = Len(vs(u)) + 1
      BY <2>3, <3>1, <3>3, <3>4, <3>8
    <3>9. CASE i = Len(vs(u)) + 1 /\ j = Len(vs(u)) + 1
      BY <3>9
    <3> QED
      BY <3>2, <3>6, <3>7, <3>8, <3>9
  <2>4. ASSUME u # 1, u \notin open \ {v}
        PROVE  \E i \in 1 .. Len(ws(new[u].parent)) : ws(new[u].parent)[i] = u
    <3> DEFINE q == ns[u].parent
    <3>1. q \in 1 .. n /\ new[u].parent = q
      BY <1>9, <1>10, <2>4
    <3> HIDE DEF q
    <3>2. CASE u = v
      <4>1. q = p
        BY <3>2 DEF p, q
      <4>2. Len(vs(q)) + 1 \in 1 .. Len(ws(q)) /\ ws(q)[Len(vs(q)) + 1] = v
        BY <1>5, <3>1, <4>1
      <4> QED
        BY <3>1, <3>2, <4>2
    <3>3. CASE u # v
      <4>1. PICK i \in 1 .. Len(vs(q)) : vs(q)[i] = u
        BY <1>3, <2>4, <3>3 DEF q
      <4>2. i \in 1 .. Len(ws(q)) /\ ws(q)[i] = u
        BY <1>5, <3>1, <4>1, SMTT(30)
      <4> QED
        BY <3>1, <4>2
    <3> QED
      BY <3>2, <3>3
  <2> QED
    BY <2>1, <2>2, <2>3, <2>4
<1>8. Lists(new, n, open \ {v})
  <2> SUFFICES ASSUME NEW u \in 1 .. n
               PROVE  LET us == new[u].values IN
                      /\ Len(us) = IF new[u].type \in {"array", "object"} THEN new[u].length ELSE 0
                      /\ \A i \in 1 .. Len(us) :
                           us[i] \in 1 .. n /\ us[i] \notin open \ {v} /\ new[us[i]].parent = u
                      /\ \A i, j \in 1 .. Len(us) : us[i] = us[j] => i = j
                      /\ u # 1 /\ u \notin open \ {v} =>
                           \E i \in 1 .. Len(new[new[u].parent].values) :
                             new[new[u].parent].values[i] = u
    BY DEF Lists
  <2> QED
    BY <1>7 DEF ws, IsHolder
<1> QED
  BY <1>8 DEF new

LEMMA ListsKept ==
  ASSUME NEW ns, NEW n \in Nat, NEW open, Lists(ns, n, open), Tree(ns, n),
         \A u \in 1 .. n : SameMemory(ns[u], nodes'[u]) /\ SameChildren(ns[u], nodes'[u])
  PROVE  Lists(nodes', n, open)
<1> SUFFICES ASSUME NEW u \in 1 .. n
             PROVE  LET us == nodes'[u].values IN
                    /\ Len(us) = IF nodes'[u].type \in {"array", "object"} THEN nodes'[u].length ELSE 0
                    /\ \A i \in 1 .. Len(us) :
                         us[i] \in 1 .. n /\ us[i] \notin open /\ nodes'[us[i]].parent = u
                    /\ \A i, j \in 1 .. Len(us) : us[i] = us[j] => i = j
                    /\ u # 1 /\ u \notin open =>
                         \E i \in 1 .. Len(nodes'[nodes'[u].parent].values) :
                           nodes'[nodes'[u].parent].values[i] = u
  BY DEF Lists
<1>1. \A w \in 1 .. n : /\ nodes'[w].parent = ns[w].parent /\ nodes'[w].values = ns[w].values
                        /\ nodes'[w].type = ns[w].type
                        /\ ns[w].type \in {"array", "object"} => nodes'[w].length = ns[w].length
  BY DEF SameMemory, SameChildren, IsHolder
<1>2. /\ Len(ns[u].values) = IF ns[u].type \in {"array", "object"} THEN ns[u].length ELSE 0
      /\ \A i \in 1 .. Len(ns[u].values) :
           ns[u].values[i] \in 1 .. n /\ ns[u].values[i] \notin open /\ ns[ns[u].values[i]].parent = u
      /\ \A i, j \in 1 .. Len(ns[u].values) : ns[u].values[i] = ns[u].values[j] => i = j
      /\ u # 1 /\ u \notin open =>
           \E i \in 1 .. Len(ns[ns[u].parent].values) : ns[ns[u].parent].values[i] = u
  BY DEF Lists
<1>3. u # 1 => ns[u].parent \in 1 .. n
  BY DEF Tree
<1>4. /\ nodes'[u].values = ns[u].values /\ nodes'[u].type = ns[u].type
      /\ ns[u].type \in {"array", "object"} => nodes'[u].length = ns[u].length
  BY <1>1
<1>5. ASSUME NEW i \in 1 .. Len(ns[u].values)
      PROVE  /\ ns[u].values[i] \in 1 .. n /\ ns[u].values[i] \notin open
             /\ nodes'[ns[u].values[i]].parent = u
  BY <1>1, <1>2
<1>6. ASSUME u # 1, u \notin open
      PROVE  \E i \in 1 .. Len(nodes'[nodes'[u].parent].values) :
               nodes'[nodes'[u].parent].values[i] = u
  <2>1. nodes'[u].parent = ns[u].parent /\ nodes'[ns[u].parent].values = ns[ns[u].parent].values
    BY <1>1, <1>3, <1>6
  <2> QED
    BY <1>2, <1>6, <2>1
<1> QED
  BY <1>2, <1>4, <1>5, <1>6

LEMMA ListsOne ==
  ASSUME NEW ns, NEW n \in Nat, NEW v, v = n + 1, NEW open \in SUBSET (1 .. n),
         Lists(nodes, n, open), Tree(nodes, n),
         \A u \in 1 .. n : ns[u] = nodes[u],
         ns[v].values = <<>>, IsHolder(ns[v]) => ns[v].length = 0
  PROVE  Lists(ns, v, open \cup {v})
<1> SUFFICES ASSUME NEW u \in 1 .. v
             PROVE  LET us == ns[u].values IN
                    /\ Len(us) = IF ns[u].type \in {"array", "object"} THEN ns[u].length ELSE 0
                    /\ \A i \in 1 .. Len(us) :
                         us[i] \in 1 .. v /\ us[i] \notin open \cup {v} /\ ns[us[i]].parent = u
                    /\ \A i, j \in 1 .. Len(us) : us[i] = us[j] => i = j
                    /\ u # 1 /\ u \notin open \cup {v} =>
                         \E i \in 1 .. Len(ns[ns[u].parent].values) : ns[ns[u].parent].values[i] = u
  BY DEF Lists
<1>1. CASE u = v
  <2>1. Len(ns[u].values) = 0 /\ \A i \in 1 .. 0 : FALSE
    BY <1>1
  <2> QED
    BY <1>1, <2>1 DEF IsHolder
<1>2. CASE u # v
  <2>1. u \in 1 .. n /\ ns[u] = nodes[u]
    BY <1>2
  <2>2. /\ Len(nodes[u].values) = IF nodes[u].type \in {"array", "object"} THEN nodes[u].length ELSE 0
        /\ \A i \in 1 .. Len(nodes[u].values) :
             /\ nodes[u].values[i] \in 1 .. n /\ nodes[u].values[i] \notin open
             /\ nodes[nodes[u].values[i]].parent = u
        /\ \A i, j \in 1 .. Len(nodes[u].values) : nodes[u].values[i] = nodes[u].values[j] => i = j
        /\ u # 1 /\ u \notin open =>
             \E i \in 1 .. Len(nodes[nodes[u].parent].values) : nodes[nodes[u].parent].values[i] = u
    BY <2>1 DEF Lists
  <2>3. u # 1 => nodes[u].parent \in 1 .. n
    BY <2>1 DEF Tree
  <2>4. \A x \in 1 .. n : x \in 1 .. v /\ x # v
    OBVIOUS
  <2> QED
    BY <2>1, <2>2, <2>3, <2>4, SMTT(30)
<1> QED
  BY <1>1, <1>2

LEMMA ShapeTree ==
  ASSUME NEW ns \in Seq(NodeType), NEW t, WellShaped(t), t.seen <= Len(ns),
         \A u \in 1 .. t.seen : t.cells[u] = Cell(ns[u])
  PROVE  /\ Tree(ns, t.seen)
         /\ \A v \in 1 .. t.seen : v # 1 => IsHolder(ns[ns[v].parent])
<1>1. t.seen \in Nat /\ Len(ns) \in Nat /\ \A v \in 1 .. t.seen : CellOK(t.cells, v)
  BY ShapeFacts DEF WellShaped, CellsOK
<1>2. \A v \in 1 .. t.seen :
        /\ ns[v] \in NodeType /\ t.cells[v].parent = ns[v].parent
        /\ t.cells[v].kind = Kind(ns[v].type)
  <2> SUFFICES ASSUME NEW v \in 1 .. t.seen
               PROVE  /\ ns[v] \in NodeType /\ t.cells[v].parent = ns[v].parent
                      /\ t.cells[v].kind = Kind(ns[v].type)
    OBVIOUS
  <2>1. ns[v] \in NodeType
    BY <1>1
  <2> QED
    BY <2>1, CellTypes
<1>3. ASSUME NEW v \in 1 .. t.seen
      PROVE  /\ IF v = 1 THEN ns[v].parent = None ELSE ns[v].parent \in 1 .. v - 1
             /\ v # 1 => IsHolder(ns[ns[v].parent])
  <2>1. /\ ns[v].parent \in 0 .. v - 1
        /\ ns[v].parent = None <=> v = 1
        /\ ns[v].parent # None => t.cells[ns[v].parent].kind \in {"object", "array"}
    BY <1>1, <1>2, SMTT(30) DEF CellOK
  <2>2. v # 1 => ns[v].parent \in 1 .. v - 1 /\ ns[v].parent \in 1 .. t.seen
    BY <1>1, <2>1 DEF None
  <2>3. v # 1 => Kind(ns[ns[v].parent].type) \in {"object", "array"}
    BY <1>2, <2>1, <2>2
  <2>4. v # 1 => IsHolder(ns[ns[v].parent])
    BY <1>2, <2>2, <2>3, CellTypes DEF IsHolder
  <2> QED
    BY <2>1, <2>2, <2>4
<1> QED
  BY <1>3 DEF Tree

LEMMA ListedAfter ==
  ASSUME Types, Types', ~first_pass, NEW s, NEW t, NEW z, WellShaped(s), WellShaped(t),
         t.seen <= z.seen, InState(s), InState(t)', Len(nodes') = Len(nodes),
         Memory(s.seen, z), Listed(s.seen, s.open), alloc <= Len(nodes), Effect(s, t)
  PROVE  Listed(t.seen, t.open)'
<1>1. /\ s.seen \in Nat /\ t.seen \in Nat /\ Len(nodes) \in Nat /\ s.top = top
      /\ s.seen <= t.seen /\ t.seen <= Len(nodes)
      /\ nodes \in Seq(NodeType) /\ nodes' \in Seq(NodeType)
      /\ s.open \subseteq 1 .. s.seen
      /\ \A u \in 1 .. s.seen : s.cells[u] = Cell(nodes[u])
      /\ \A u \in 1 .. t.seen : t.cells[u] = Cell(nodes'[u])
  <2>1. /\ s.seen \in Nat /\ t.seen \in Nat /\ s.open \subseteq 1 .. s.seen
    BY ShapeFacts
  <2>2. t.seen <= Len(nodes) /\ Len(nodes) \in Nat
    BY DEF Memory, Types
  <2>3. t.seen = s.seen \/ t.seen = s.seen + 1
    BY DEF Effect, Stays, Ends, Begins
  <2>4. nodes \in Seq(NodeType) /\ nodes' \in Seq(NodeType)
    BY DEF Types
  <2>5. s.top = top /\ \A u \in 1 .. s.seen : s.cells[u] = Cell(nodes[u])
    BY DEF InState
  <2>6. \A u \in 1 .. t.seen : t.cells[u] = Cell(nodes'[u])
    BY DEF InState
  <2> QED
    BY <2>1, <2>2, <2>3, <2>4, <2>5, <2>6
<1>2. /\ Tree(nodes, s.seen)
      /\ \A v \in 1 .. s.seen : v # 1 => IsHolder(nodes[nodes[v].parent])
  <2>1. ASSUME NEW ns \in Seq(NodeType), s.seen <= Len(ns),
               \A u \in 1 .. s.seen : s.cells[u] = Cell(ns[u])
        PROVE  /\ Tree(ns, s.seen)
               /\ \A v \in 1 .. s.seen : v # 1 => IsHolder(ns[ns[v].parent])
    BY <2>1, ShapeTree
  <2>2. s.seen <= Len(nodes)
    BY <1>1
  <2> QED
    BY <1>1, <2>1, <2>2
<1>3. /\ Tree(nodes', t.seen)
      /\ \A v \in 1 .. t.seen : v # 1 => IsHolder(nodes'[nodes'[v].parent])
  <2>1. ASSUME NEW ns \in Seq(NodeType), t.seen <= Len(ns),
               \A u \in 1 .. t.seen : t.cells[u] = Cell(ns[u])
        PROVE  /\ Tree(ns, t.seen)
               /\ \A v \in 1 .. t.seen : v # 1 => IsHolder(ns[ns[v].parent])
    BY <2>1, ShapeTree
  <2> QED
    BY <1>1, <2>1
<1>4. Lists(nodes, s.seen, s.open)
  BY DEF Listed
<1>5. CASE Stays(s, t)
  <2>1. /\ t.seen = s.seen /\ t.open = s.open
        /\ \A u \in 1 .. s.seen : SameMemory(nodes[u], nodes'[u]) /\ SameChildren(nodes[u], nodes'[u])
    BY <1>1, <1>5 DEF Stays
  <2> QED
    BY <1>1, <1>2, <1>4, <2>1, ListsKept DEF Listed
<1>6. CASE Ends(s, t)
  <2>1. /\ t.seen = s.seen /\ t.open = s.open \ {top} /\ top \in 1 .. s.seen /\ top \in s.open
        /\ Attached(nodes, top)
    BY <1>6 DEF Ends
  <2>2. s.seen \in 1 .. Len(nodes)
    BY <1>1, <2>1
  <2>3. ASSUME NEW v \in 1 .. s.seen, v = top
        PROVE  Lists(nodes', s.seen, s.open \ {v})
    BY <1>1, <1>2, <1>4, <2>1, <2>2, <2>3, ListsAttach
  <2> QED
    BY <2>1, <2>3 DEF Listed
<1>7. ASSUME NEW type \in {"object", "array", "string", "word", "integer"}, Begins(s, t, type)
      PROVE  Listed(t.seen, t.open)'
  <2> DEFINE v  == s.seen + 1
             ns == Created(type)
             n  == nodes[v]
             a  == ns[v]
  <2>1. /\ v \in 1 .. Len(nodes) /\ alloc = v /\ Len(ns) = Len(nodes) /\ t.seen = v
        /\ Len(nodes') = Len(nodes)
        /\ \A u \in 1 .. Len(nodes) : u # v => ns[u] = nodes[u]
        /\ n \in NodeType /\ a = Allocated(n)
        /\ Cell(n) = z.cells[v] /\ ~n.allocated /\ n.values = <<>>
        /\ \A u \in 1 .. Len(nodes) : u > v => nodes'[u] = nodes[u]
    BY <1>7, SecondCreated
  <2>2. \/ t.open = s.open \cup {v} /\ nodes' = ns
        \/ t.open = s.open \ {v} /\ Attached(ns, v)
    BY <1>7 DEF Begins
  <2>3. /\ a \in NodeType /\ a.values = <<>> /\ (IsHolder(a) => a.length = 0)
    <3>1. /\ a \in NodeType /\ a.type = n.type /\ a.values = n.values
          /\ TakesMemory(n) => a.length = 0
          /\ ~TakesMemory(n) => a = n
      BY <2>1, AllocatedNode
    <3>2. IsHolder(n) /\ ~TakesMemory(n) => n.length = 0
      BY <2>1, NodeTypes DEF IsHolder, TakesMemory
    <3>3. IsHolder(a) <=> IsHolder(n)
      BY <3>1 DEF IsHolder
    <3> QED
      BY <2>1, <3>1, <3>2, <3>3
  <2>4. ns \in Seq(NodeType)
    <3>1. ns = [nodes EXCEPT ![v] = a]
      BY <2>1 DEF Created
    <3> HIDE DEF ns, a
    <3> QED
      BY <1>1, <2>1, <2>3, <3>1
  <2> HIDE DEF a, n, ns
  <2>5. Lists(ns, v, s.open \cup {v})
    <3>1. \A u \in 1 .. s.seen : ns[u] = nodes[u]
      BY <1>1, <2>1
    <3>2. ns[v].values = <<>> /\ (IsHolder(ns[v]) => ns[v].length = 0)
      BY <2>3 DEF a
    <3> QED
      BY <1>1, <1>2, <1>4, <3>1, <3>2, ListsOne
  <2>6. CASE t.open = s.open \cup {v} /\ nodes' = ns
    BY <2>1, <2>5, <2>6 DEF Listed
  <2>7. CASE t.open = s.open \ {v} /\ Attached(ns, v)
    <3>1. \A u \in 1 .. v : ns[u].type = nodes'[u].type /\ ns[u].parent = nodes'[u].parent
      BY <1>1, <2>1, <2>7 DEF Attached, SameMemory
    <3>2. Tree(ns, v)
      BY <1>3, <2>1, <3>1 DEF Tree
    <3>3. v # 1 => IsHolder(ns[ns[v].parent])
      <4>1. v \in 1 .. v
        BY <1>1
      <4>2. v # 1 => ns[v].parent \in 1 .. v
        BY <1>1, <3>2, <4>1 DEF Tree
      <4> QED
        BY <1>3, <2>1, <3>1, <4>1, <4>2 DEF IsHolder
    <3>4. v \in 1 .. Len(ns) /\ v \in 1 .. v
      BY <1>1, <2>1
    <3>5. Lists(nodes', v, (s.open \cup {v}) \ {v})
      <4>1. v \in s.open \cup {v}
        OBVIOUS
      <4> HIDE DEF v
      <4> QED
        BY <2>4, <2>5, <2>7, <3>2, <3>3, <3>4, <4>1, ListsAttach
    <3>6. (s.open \cup {v}) \ {v} = s.open \ {v}
      OBVIOUS
    <3> QED
      BY <2>1, <2>7, <3>5, <3>6 DEF Listed
  <2> QED
    BY <2>2, <2>6, <2>7
<1> QED
  BY <1>5, <1>6, <1>7 DEF Effect

UpTo(T, x) == {y \in T : y <= x}

(* Induction: a set of natural numbers has a least element. *)
LEMMA LeastElement ==
  ASSUME NEW T \in SUBSET Nat, T # {}
  PROVE  \E x \in T : \A y \in T : x <= y
<1> DEFINE Parts == {UpTo(T, x) : x \in T}
<1>1. ASSUME NEW x \in T PROVE UpTo(T, x) \in FiniteSubsetsOf(Nat)
  <2>1. /\ UpTo(T, x) \in SUBSET Nat /\ x \in Nat
        /\ \A y \in UpTo(T, x) : y <= x
    BY DEF UpTo
  <2>2. IsFiniteSet(UpTo(T, x))
    BY <2>1, FS_BoundedSetOfNaturals
  <2> QED
    BY <2>1, <2>2 DEF FiniteSubsetsOf
<1>2. Parts \subseteq FiniteSubsetsOf(Nat) /\ Parts # {}
  BY <1>1
<1> HIDE DEF Parts
<1>3. PICK P \in Parts : \A Q \in Parts : ~(<<Q, P>> \in StrictSubsetOrdering(Nat))
  BY <1>2, FS_StrictSubsetOrderingWellFounded, WFMin
<1>4. PICK x \in T : P = UpTo(T, x)
  BY DEF Parts
<1>5. ASSUME NEW y \in T, y < x PROVE FALSE
  <2>1. UpTo(T, y) \in Parts
    BY DEF Parts
  <2>2. /\ UpTo(T, y) \subseteq UpTo(T, x) /\ UpTo(T, x) \subseteq Nat
        /\ x \in UpTo(T, x) /\ x \notin UpTo(T, y)
    <3>1. x \in Nat /\ y \in Nat /\ \A u \in T : u \in Nat
      OBVIOUS
    <3>2. \A u \in Nat : u <= y => u <= x
      BY <1>5, <3>1
    <3>3. UpTo(T, y) \subseteq UpTo(T, x) /\ UpTo(T, x) \subseteq Nat
      BY <3>1, <3>2 DEF UpTo
    <3>4. x \in UpTo(T, x) /\ x \notin UpTo(T, y)
      BY <1>5, <3>1 DEF UpTo
    <3> QED
      BY <3>3, <3>4
  <2>3. <<UpTo(T, y), P>> \in StrictSubsetOrdering(Nat)
    BY <1>4, <2>2 DEF StrictSubsetOrdering
  <2> QED
    BY <1>3, <2>1, <2>3
<1> QED
  BY <1>4, <1>5

(* What the second pass has allocated holds what it meets. *)
LEMMA SecondPassRoom ==
  ASSUME Types, ~first_pass, NEW D, NEW H, NEW e, Returns(D, H, e), NEW s, s = H[ptr]
  PROVE  /\ RoomFits
         /\ "string" \in flags =>
              LET n == nodes[top]
              IN  /\ n.allocated
                  /\ CASE n.type = "string" -> string_length < n.room
                       [] OTHER -> n.name_bytes + string_length < n.name_room
         /\ "done" \in flags => alloc = None /\ s.seen = Len(nodes)
<1> DEFINE z == H[e]
<1>1. /\ WellShaped(s) /\ WellShaped(z) /\ Before(s, z) /\ InState(s) /\ Memory(s.seen, z)
      /\ "done" \in z.flags /\ z.open = {} /\ "string" \notin z.flags /\ Lives(s.seen)
      /\ alloc <= Len(nodes)
  <2>1. WellShaped(s) /\ WellShaped(z) /\ Before(s, z)
    BY DEF Returns, Way
  <2>2. "done" \in z.flags /\ InState(s) /\ Memory(s.seen, z) /\ Lives(s.seen) /\ alloc <= Len(nodes)
    BY DEF Returns
  <2> QED
    BY <2>1, <2>2 DEF WellShaped, FlagsOK
<1>2. /\ s.seen \in Nat /\ z.seen = Len(nodes) /\ Len(nodes) \in Nat /\ s.seen <= Len(nodes)
      /\ s.seen = Seen /\ alloc \in Nat /\ s.top = top /\ top \in 0 .. s.seen
      /\ nodes \in Seq(NodeType) /\ string_length \in Nat
      /\ s.cells \in [1 .. s.seen -> CellType]
  BY <1>1, ShapeFacts DEF Memory, InState, Types, Before
<1>3. ASSUME NEW u \in 1 .. s.seen
      PROVE  /\ nodes[u] \in NodeType
             /\ Kind(nodes[u].type) = z.cells[u].kind
             /\ nodes[u].length <= Length(s, u) /\ nodes[u].name_bytes <= Bytes(s, u)
             /\ s.cells[u].length = nodes[u].length /\ s.cells[u].bytes = nodes[u].name_bytes
             /\ s.cells[u].kind = Kind(nodes[u].type)
             /\ Length(s, u) \in Nat /\ Bytes(s, u) \in Nat
             /\ Length(s, u) <= z.cells[u].length /\ Bytes(s, u) <= z.cells[u].bytes
             /\ z.cells[u].length \in Nat /\ z.cells[u].bytes \in Nat
  <2>1. nodes[u] \in NodeType
    BY <1>2
  <2>2. s.cells[u] = Cell(nodes[u])
    BY <1>1 DEF InState
  <2>3. /\ s.cells[u].length = nodes[u].length /\ s.cells[u].bytes = nodes[u].name_bytes
        /\ s.cells[u].kind = Kind(nodes[u].type)
        /\ nodes[u].length \in Nat /\ nodes[u].name_bytes \in Nat
    BY <2>1, <2>2, CellTypes, NodeTypes
  <2>4. s.size \in Nat /\ z.cells[u].length \in Nat /\ z.cells[u].bytes \in Nat
    <3>1. u \in 1 .. z.seen
      BY <1>2
    <3> QED
      BY <1>1, <3>1, ShapeFacts
  <2>5. /\ s.cells[u].kind = z.cells[u].kind
        /\ Length(s, u) <= Length(z, u) /\ Bytes(s, u) <= Bytes(z, u)
    BY <1>1 DEF Before
  <2>6. Length(z, u) = z.cells[u].length /\ Bytes(z, u) = z.cells[u].bytes
    BY <1>1, <2>4 DEF Length, Bytes
  <2>7. /\ Length(s, u) \in Nat /\ Bytes(s, u) \in Nat
        /\ nodes[u].length <= Length(s, u) /\ nodes[u].name_bytes <= Bytes(s, u)
    BY <2>3, <2>4 DEF Length, Bytes
  <2> QED
    BY <2>1, <2>3, <2>4, <2>5, <2>6, <2>7
<1>4. ASSUME NEW u \in 1 .. s.seen
      PROVE  /\ nodes[u].allocated <=> NeedsMemory(z.cells[u])
             /\ nodes[u].allocated =>
                  /\ nodes[u].room = z.cells[u].length
                       + (IF z.cells[u].kind = "string" THEN 1 ELSE 0)
                  /\ nodes[u].name_room = z.cells[u].bytes
             /\ (z.cells[u].kind = "string") <=> (nodes[u].type = "string")
  <2>1. u \in 1 .. Len(nodes) /\ u <= s.seen
    BY <1>2
  <2>2. (z.cells[u].kind = "string") <=> (nodes[u].type = "string")
    BY <1>3, CellTypes
  <2> QED
    BY <1>1, <2>1, <2>2 DEF Memory
<1>5. RoomFits
  <2> SUFFICES ASSUME NEW x \in live, x[1] = "values"
               PROVE  LET n == nodes[x[2]]
                      IN  x[2] \in 1 .. Len(nodes) /\
                          CASE n.type = "string" -> n.length < n.room
                            [] OTHER -> n.length <= n.room /\ n.name_bytes <= n.name_room
    BY DEF RoomFits
  <2>1. x[2] \in 1 .. s.seen /\ nodes[x[2]].allocated
    BY <1>1 DEF Lives
  <2> SUFFICES LET n == nodes[x[2]]
               IN  CASE n.type = "string" -> n.length < n.room
                     [] OTHER -> n.length <= n.room /\ n.name_bytes <= n.name_room
    BY <1>2, <2>1
  <2>2. PICK u \in 1 .. s.seen : u = x[2] /\ nodes[u].allocated
    BY <2>1
  <2>3. nodes[u].length \in Nat /\ nodes[u].name_bytes \in Nat
    BY <1>3, NodeTypes
  <2>4. CASE nodes[u].type = "string"
    <3>1. nodes[u].room = z.cells[u].length + 1
      BY <1>4, <2>2, <2>4
    <3>2. nodes[u].length < nodes[u].room
      BY <1>3, <2>3, <3>1
    <3> QED
      BY <2>2, <2>4, <3>2
  <2>5. CASE nodes[u].type # "string"
    <3>1. nodes[u].room = z.cells[u].length + 0 /\ nodes[u].name_room = z.cells[u].bytes
      BY <1>4, <2>2, <2>5
    <3>2. nodes[u].length <= nodes[u].room /\ nodes[u].name_bytes <= nodes[u].name_room
      BY <1>3, <2>3, <3>1
    <3> QED
      BY <2>2, <2>5, <3>2
  <2> QED
    BY <2>4, <2>5
<1>6. ASSUME "string" \in flags
      PROVE  LET n == nodes[top]
             IN  /\ n.allocated
                 /\ CASE n.type = "string" -> string_length < n.room
                      [] OTHER -> n.name_bytes + string_length < n.name_room
  <2>1. /\ "string" \in s.flags /\ s.size = string_length
    BY <1>1, <1>6, PlainFlagsAgree DEF InState, PlainFlags
  <2>2. top \in 1 .. s.seen
    <3>1. s.top # None
      BY <1>1, <2>1 DEF WellShaped, FlagsOK
    <3> QED
      BY <1>2, <3>1 DEF None
  <2>3. PICK u \in 1 .. s.seen : u = top
    BY <2>2
  <2>4. /\ s.cells[u].kind \in {"string", "object"}
        /\ s.cells[u].kind = "string" => s.cells[u].length = 0
    BY <1>1, <1>2, <2>1, <2>3 DEF WellShaped, FlagsOK
  <2>5. nodes[u].length \in Nat /\ nodes[u].name_bytes \in Nat
    BY <1>3, NodeTypes
  <2>6. CASE s.cells[u].kind = "string"
    <3>1. z.cells[u].kind = "string" /\ nodes[u].type = "string"
      BY <1>3, <1>4, <2>6
    <3>2. nodes[u].allocated /\ nodes[u].room = z.cells[u].length + 1
      BY <1>4, <3>1 DEF NeedsMemory
    <3>3. Length(s, u) = 0 + string_length
      BY <1>2, <2>1, <2>3, <2>4, <2>6 DEF Length
    <3>4. string_length < nodes[u].room
      BY <1>2, <1>3, <3>2, <3>3, SMTT(30)
    <3> QED
      BY <2>3, <3>1, <3>2, <3>4
  <2>7. CASE s.cells[u].kind = "object"
    <3>1. z.cells[u].kind = "object" /\ nodes[u].type # "string"
      BY <1>3, <1>4, <2>7
    <3>2. Bytes(s, u) = nodes[u].name_bytes + (string_length + 1)
      BY <1>2, <1>3, <2>1, <2>3, <2>7 DEF Bytes
    <3>3. /\ Bytes(s, u) <= z.cells[u].bytes /\ z.cells[u].bytes \in Nat
          /\ z.cells[u].bytes > 0
      <4>1. Bytes(s, u) <= z.cells[u].bytes /\ z.cells[u].bytes \in Nat
        BY <1>3
      <4> HIDE DEF z
      <4> QED
        BY <1>2, <2>5, <3>2, <4>1
    <3>4. z.cells[u].length > 0
      <4>1. u \in 1 .. z.seen
        BY <1>2
      <4>2. ~NeedsMemory(z.cells[u]) => z.cells[u].bytes = 0
        BY <1>1, <4>1, EmptyCell
      <4>3. NeedsMemory(z.cells[u])
        BY <3>3, <4>2
      <4> QED
        BY <3>1, <4>3 DEF NeedsMemory
    <3>5. nodes[u].allocated /\ nodes[u].name_room = z.cells[u].bytes
      BY <1>4, <3>1, <3>4 DEF NeedsMemory
    <3>6. nodes[u].name_bytes + string_length < nodes[u].name_room
      BY <1>2, <2>5, <3>2, <3>3, <3>5
    <3> QED
      BY <2>3, <3>1, <3>5, <3>6
  <2> QED
    BY <2>4, <2>6, <2>7
<1>7. ASSUME "done" \in flags PROVE alloc = None /\ s.seen = Len(nodes)
  <2>1. "done" \in s.flags
    BY <1>1, <1>7, PlainFlagsAgree DEF PlainFlags
  <2>2. s.seen = Len(nodes)
    BY <1>1, <1>2, <2>1 DEF Before
  <2>3. Seen = IF alloc = None THEN Len(nodes) ELSE alloc - 1
    BY DEF Seen
  <2>4. /\ Len(nodes) = IF alloc = None THEN Len(nodes) ELSE alloc - 1
        /\ alloc <= Len(nodes) /\ alloc \in Nat /\ Len(nodes) \in Nat
    BY <1>1, <1>2, <2>2, <2>3
  <2> QED
    BY <2>2, <2>4
<1> QED
  BY <1>5, <1>6, <1>7

(* The second pass ends with everything there: a value without memory of   *)
(* its own is empty, *)
Whole ==
  /\ root = 1 /\ outcome = "parsed" /\ Len(nodes) >= 1
  /\ Listed(Len(nodes), {}) /\ Parents(Len(nodes)) /\ Lives(Len(nodes))
  /\ \A v \in 1 .. Len(nodes) :
       ~nodes[v].allocated =>
         nodes[v].type # "string" /\ nodes[v].length = 0 /\ nodes[v].name_bytes = 0

(* or without memory. *)
SecondFails == ~first_pass /\ RoomFits /\ \E k \in Nat : Failed(k)

LEMMA SecondProceeds ==
  ASSUME Types, ~first_pass, phase = "parsing", outcome = "none", UNCHANGED more, more = 0,
         NEW D, NEW H, NEW e, Returns(D, H, e), ptr # e,
         NEW s, s = H[ptr], Proceeds(s)
  PROVE  Types' /\ SecondPass' /\ ~first_pass' /\ phase' = "parsing"
<1>1. /\ WellShaped(s) /\ InState(s) /\ Memory(s.seen, H[e]) /\ Lives(s.seen)
      /\ Listed(s.seen, s.open) /\ alloc <= Len(nodes) /\ text \in Seq(Chars)
      /\ root = (IF s.seen = 0 THEN None ELSE 1) /\ e \in Nat /\ Way(D, H, e)
      /\ e = Len(text) + 1 /\ "done" \in H[e].flags
  BY DEF Returns, Way, Types
<1>2. PICK q \in D : /\ H[q] = Iteration(s, b)
                     /\ q = IF OpensNumber(s, b) THEN BehindNumber ELSE ptr + 1
  BY SecondFits
<1>3. PICK t \in {Iteration(s, b)} : Goes(t) /\ Effect(s, t)
  BY DEF Proceeds
<1>4. /\ Types' /\ InState(t)' /\ UNCHANGED <<first_pass, phase, outcome, text, more>>
      /\ ptr' = q /\ H[q] = t
  BY <1>2, <1>3 DEF Goes, Proceeds
<1>5. WellShaped(t) /\ t.seen <= H[e].seen
  BY <1>1, <1>4 DEF Way, Before
<1>6. /\ Memory(t.seen, H[e])' /\ Lives(t.seen)' /\ Len(nodes') = Len(nodes)
      /\ root' = (IF t.seen = 0 THEN None ELSE 1) /\ alloc' <= Len(nodes')
  <2>1. ASSUME NEW z, z = H[e]
        PROVE  /\ Memory(t.seen, z)' /\ Lives(t.seen)' /\ Len(nodes') = Len(nodes)
               /\ root' = (IF t.seen = 0 THEN None ELSE 1) /\ alloc' <= Len(nodes')
    BY <1>1, <1>3, <1>5, <2>1, MemoryAfter
  <2> QED
    BY <2>1
<1>7. Listed(t.seen, t.open)'
  <2>1. ASSUME NEW z, z = H[e] PROVE Listed(t.seen, t.open)'
    BY <1>1, <1>3, <1>4, <1>5, <1>6, <2>1, ListedAfter
  <2> QED
    BY <2>1
<1>8. Way(D, H, e)'
  <2>1. Reads
    BY <1>4 DEF Reads
  <2> QED
    BY <1>1, <2>1, WayStays
<1>9. Returns(D, H, e)'
  <2>1. H[ptr'] = t /\ ptr' \in D
    BY <1>4
  <2>2. /\ InState(H[ptr])' /\ Memory(H[ptr].seen, H[e])' /\ Listed(H[ptr].seen, H[ptr].open)'
        /\ Lives(H[ptr].seen)' /\ root' = (IF H[ptr'].seen = 0 THEN None ELSE 1)
    BY <1>4, <1>6, <1>7, <2>1
  <2>3. e = Len(text') + 1
    BY <1>1, <1>4
  <2> QED
    BY <1>1, <1>6, <1>8, <2>1, <2>2, <2>3 DEF Returns
<1> QED
  BY <1>4, <1>9 DEF SecondPass

LEMMA SecondRunsOut ==
  ASSUME Types, ~first_pass, UNCHANGED <<text, more>>,
         NEW D, NEW H, NEW e, Returns(D, H, e), ptr # e,
         NEW s, s = H[ptr], RunsOut(s)
  PROVE  Types' /\ SecondFails' /\ phase' = "failing"
<1>1. /\ WellShaped(s) /\ InState(s) /\ Memory(s.seen, H[e]) /\ Lives(s.seen)
      /\ Listed(s.seen, s.open) /\ alloc <= Len(nodes) /\ Fits(s)
      /\ root = (IF s.seen = 0 THEN None ELSE 1)
  <2>1. Fits(s)
    BY SecondFits
  <2>2. WellShaped(s)
    BY DEF Returns, Way
  <2> QED
    BY <2>1, <2>2 DEF Returns
<1>2. /\ s.seen \in Nat /\ s.seen = Seen /\ Len(nodes) \in Nat /\ nodes \in Seq(NodeType)
      /\ s.open \subseteq 1 .. s.seen /\ alloc \in Nat /\ Opens(s, b)
      /\ \A u \in 1 .. s.seen : s.cells[u] = Cell(nodes[u])
  BY <1>1, ShapeFacts DEF InState, Types, RunsOut
<1>3. alloc = s.seen + 1 /\ alloc \in 1 .. Len(nodes)
  <2>1. alloc \in 1 .. Len(nodes)
    BY <1>1, <1>2 DEF Fits
  <2> QED
    BY <1>2, <2>1 DEF Seen, None
<1>4. /\ phase' = "failing" /\ outcome' = "memory" /\ live' = live
      /\ UNCHANGED <<first_pass, flags, ptr, top, nodes, string_length, num_digits>>
      /\ root' = (IF root = None THEN alloc ELSE root)
      /\ alloc' = (IF alloc < Len(nodes) THEN alloc + 1 ELSE None)
  BY DEF RunsOut, AllocFailure, Stop, new_value
<1>5. root' = 1
  BY <1>1, <1>2, <1>3, <1>4 DEF None
<1>6. Types'
  BY <1>2, <1>4, <1>5 DEF Types, None
<1>7. RoomFits'
  <2>1. RoomFits
    BY SecondPassRoom
  <2> QED
    BY <1>4, <2>1 DEF RoomFits
<1>8. ASSUME NEW k, k = s.seen PROVE Failed(k)'
  <2>1. k \in 0 .. Len(nodes) - 1 /\ k + 1 \in 1 .. Len(nodes) /\ k + 1 = alloc
        /\ alloc' = (IF k + 1 < Len(nodes) THEN k + 2 ELSE None)
    BY <1>2, <1>3, <1>4, <1>8
  <2>2. Parents(k)'
    <3>1. ASSUME NEW ns \in Seq(NodeType), s.seen <= Len(ns),
                 \A u \in 1 .. s.seen : s.cells[u] = Cell(ns[u])
          PROVE  Tree(ns, s.seen)
      BY <1>1, <3>1, ShapeTree
    <3>2. Tree(nodes, s.seen)
      BY <1>2, <1>3, <3>1
    <3> QED
      BY <1>4, <1>8, <3>2 DEF Parents
  <2>3. Lives(k)'
    BY <1>1, <1>4, <1>8 DEF Lives
  <2>4. ~nodes[k + 1].allocated
    <3>1. ~(k + 1 <= s.seen)
      BY <1>2, <1>8
    <3> QED
      BY <1>1, <2>1, <3>1 DEF Memory
  <2>5. \E open \in SUBSET (1 .. k) : Listed(k, open)'
    BY <1>1, <1>2, <1>4, <1>8 DEF Listed
  <2>6. \A v \in 1 .. k : Holder(v) /\ nodes[v].length > 0 => nodes[v].allocated
    <3> SUFFICES ASSUME NEW v \in 1 .. k, Holder(v), nodes[v].length > 0
                 PROVE  nodes[v].allocated
      OBVIOUS
    <3>1. v \in 1 .. s.seen /\ v \in 1 .. Len(nodes) /\ v <= s.seen
      BY <1>2, <1>8, <2>1
    <3>2. nodes[v] \in NodeType
      BY <1>2, <3>1
    <3>3. NeedsMemory(H[e].cells[v])
      <4>1. /\ Before(s, H[e]) /\ "done" \in H[e].flags /\ WellShaped(H[e])
        BY DEF Returns, Way
      <4>2. s.cells[v].kind \in {"array", "object"} /\ s.cells[v].length > 0
            /\ s.cells[v].length = nodes[v].length /\ nodes[v].length \in Nat
        BY <1>2, <3>1, <3>2, CellTypes, NodeTypes DEF Holder
      <4>3. /\ H[e].cells[v].kind \in {"array", "object"}
            /\ Length(s, v) <= Length(H[e], v)
        BY <3>1, <4>1, <4>2 DEF Before
      <4>4. Length(s, v) = s.cells[v].length + 0
        BY <4>2 DEF Length
      <4>5. Length(H[e], v) = H[e].cells[v].length + 0
        BY <4>3 DEF Length
      <4>6. H[e].cells[v].length \in Nat
        <5>1. v \in 1 .. H[e].seen
          BY <1>1, <3>1 DEF Memory
        <5> QED
          BY <4>1, <5>1, ShapeFacts
      <4>7. H[e].cells[v].length > 0
        BY <4>2, <4>3, <4>4, <4>5, <4>6
      <4> QED
        BY <4>3, <4>7 DEF NeedsMemory
    <3> QED
      BY <1>1, <3>1, <3>3 DEF Memory
  <2> QED
    BY <1>4, <1>5, <2>1, <2>2, <2>3, <2>4, <2>5, <2>6 DEF Failed, Holder
<1>9. \E k \in Nat : Failed(k)'
  BY <1>2, <1>8
<1> QED
  BY <1>4, <1>6, <1>7, <1>9 DEF SecondFails

LEMMA SecondEnds ==
  ASSUME Types, ~first_pass, UNCHANGED <<text, more>>, json_parse_ex,
         NEW D, NEW H, NEW e, Returns(D, H, e), ptr = e
  PROVE  Types' /\ ~first_pass' /\ RoomFits' /\ Whole' /\ phase' = "parsed"
<1> DEFINE z == H[e]
<1>1. /\ WellShaped(z) /\ InState(z) /\ Memory(z.seen, z) /\ Lives(z.seen)
      /\ Listed(z.seen, z.open) /\ root = (IF z.seen = 0 THEN None ELSE 1)
      /\ e = Len(text) + 1 /\ "done" \in z.flags /\ e \in Nat /\ z.open = {} /\ "string" \notin z.flags
      /\ RoomFits
  <2>1. /\ InState(z) /\ Memory(z.seen, z) /\ Lives(z.seen)
        /\ Listed(z.seen, z.open) /\ root = (IF z.seen = 0 THEN None ELSE 1)
        /\ e = Len(text) + 1 /\ "done" \in z.flags /\ e \in Nat
    BY DEF Returns
  <2>2. WellShaped(z)
    BY DEF Returns, Way
  <2>3. z.open = {} /\ "string" \notin z.flags
    BY <2>1, <2>2 DEF WellShaped, FlagsOK
  <2>4. RoomFits
    BY SecondPassRoom
  <2> QED
    BY <2>1, <2>2, <2>3, <2>4
<1>2. /\ z.seen \in Nat /\ z.seen = Len(nodes) /\ Len(nodes) \in Nat /\ nodes \in Seq(NodeType)
      /\ \A u \in 1 .. Len(nodes) : z.cells[u] = Cell(nodes[u])
  BY <1>1, ShapeFacts DEF InState, Types, Memory
<1>3. z.seen >= 1
  <2>1. z.top # None
    BY <1>1 DEF WellShaped, FlagsOK
  <2>2. z.top \in 0 .. z.seen
    BY <1>1, ShapeFacts
  <2> QED
    BY <1>2, <2>1, <2>2 DEF None
<1>4. "done" \in flags /\ "string" \notin flags
  BY <1>1, PlainFlagsAgree DEF PlainFlags
<1>5. b = "eof"
  <2>1. ~(e <= Len(text))
    <3>1. Len(text) \in Nat
      BY DEF Types
    <3> QED
      BY <1>1, <3>1
  <2> QED
    BY <2>1 DEF b
<1>6. PassEnds
  BY <1>4, <1>5 DEF json_parse_ex, Done, StringChar, SeekValue, ObjectChar, NumberChar, Inside
<1>7. /\ first_pass' = FALSE /\ alloc' = root /\ phase' = "parsed" /\ outcome' = "parsed"
      /\ UNCHANGED <<flags, ptr, top, root, nodes, live, string_length, num_digits>>
  BY <1>6 DEF PassEnds
<1>8. Types'
  BY <1>7 DEF Types
<1>9. RoomFits'
  BY <1>1, <1>7 DEF RoomFits
<1>10. Whole'
  <2>1. root = 1
    BY <1>1, <1>2, <1>3
  <2>2. Listed(Len(nodes), {}) /\ Lives(Len(nodes))
    BY <1>1, <1>2
  <2>3. Parents(Len(nodes))
    <3>1. ASSUME NEW ns \in Seq(NodeType), z.seen <= Len(ns),
                 \A u \in 1 .. z.seen : z.cells[u] = Cell(ns[u])
          PROVE  Tree(ns, z.seen)
      BY <1>1, <3>1, ShapeTree
    <3>2. Tree(nodes, z.seen)
      BY <1>2, <3>1
    <3> QED
      BY <1>2, <3>2 DEF Parents
  <2>4. ASSUME NEW v \in 1 .. Len(nodes), ~nodes[v].allocated
        PROVE  nodes[v].type # "string" /\ nodes[v].length = 0 /\ nodes[v].name_bytes = 0
    <3>1. ~NeedsMemory(z.cells[v])
      BY <1>1, <1>2, <2>4 DEF Memory
    <3>2. z.cells[v].length = 0 /\ z.cells[v].bytes = 0
      BY <1>1, <1>2, <3>1, EmptyCell
    <3>3. nodes[v] \in NodeType /\ z.cells[v] = Cell(nodes[v])
      BY <1>2
    <3> QED
      BY <3>1, <3>2, <3>3, CellTypes DEF NeedsMemory
  <2> QED
    BY <1>2, <1>3, <1>7, <2>1, <2>2, <2>3, <2>4 DEF Whole, Listed, Parents, Lives
<1> QED
  BY <1>7, <1>8, <1>9, <1>10

LEMMA SecondParses ==
  ASSUME Types, SecondPass, ~first_pass, phase = "parsing", json_parse_ex
  PROVE  /\ Types' /\ ~first_pass'
         /\ \/ SecondPass' /\ phase' = "parsing"
            \/ SecondFails' /\ phase' = "failing"
            \/ RoomFits' /\ Whole' /\ phase' = "parsed"
<1>1. outcome = "none" /\ more = 0 /\ UNCHANGED <<text, more>>
  BY DEF SecondPass, json_parse_ex, readVars
<1>2. PICK D, H, e : Returns(D, H, e)
  BY DEF SecondPass
<1>3. CASE ptr = e
  BY <1>1, <1>2, <1>3, SecondEnds
<1>4. CASE ptr # e
  <2>1. ASSUME NEW s, s = H[ptr]
        PROVE  /\ Types' /\ ~first_pass'
               /\ \/ SecondPass' /\ phase' = "parsing"
                  \/ SecondFails' /\ phase' = "failing"
    <3>1. WellShaped(s) /\ InState(s)
      BY <1>2, <2>1 DEF Returns, Way
    <3>2. s.seen <= Len(nodes) /\ Fits(s) /\ ~Refuses(s, b) /\ b # "eof"
      BY <1>2, <1>4, <2>1, SecondFits
    <3>3. Proceeds(s) \/ RunsOut(s)
      <4>1. \/ Proceeds(s) \/ Turned(s) \/ RunsOut(s) \/ StartsNumber(s)
            \/ b = "eof" /\ PassEnds /\ "done" \in s.flags
        BY <3>1, <3>2, IterationProceeds
      <4> QED
        BY <3>2, <4>1 DEF Turned, StartsNumber
    <3>4. CASE Proceeds(s)
      BY <1>1, <1>2, <1>4, <2>1, <3>4, SecondProceeds
    <3>5. CASE RunsOut(s)
      BY <1>1, <1>2, <1>4, <2>1, <3>5, SecondRunsOut DEF SecondFails
    <3> QED
      BY <3>3, <3>4, <3>5
  <2> QED
    BY <2>1
<1> QED
  BY <1>3, <1>4

-----------------------------------------------------------------------------
(* Freeing.                                                                *)

LEMMA WalkStarts ==
  ASSUME Types, NEW k \in 1 .. Len(nodes), root = 1, Parents(k), NEW open, Listed(k, open),
         UNCHANGED <<nodes, root>>, value' = 1,
         \A v \in 1 .. k : /\ <<"value", v>> \in live'
                           /\ nodes[v].allocated => <<"values", v>> \in live'
                           /\ Holder(v) /\ nodes[v].length > 0 => nodes[v].allocated
  PROVE  Walking(k, {1})'
<1>1. /\ nodes \in Seq(NodeType) /\ Len(nodes) \in Nat /\ k \in Nat /\ k >= 1 /\ k <= Len(nodes)
      /\ 1 \in 1 .. k
  BY DEF Types
<1>2. ASSUME NEW v \in 1 .. k PROVE Blocks(v)' \subseteq live'
  BY <1>2 DEF Blocks
<1>3. ASSUME NEW v \in 1 .. k, Holder(v) PROVE Keeps(v, k, {1})'
  <2>1. /\ Len(nodes[v].values) = nodes[v].length
        /\ \A i \in 1 .. Len(nodes[v].values) :
             nodes[v].values[i] \in 1 .. k /\ nodes[nodes[v].values[i]].parent = v
        /\ \A i, j \in 1 .. Len(nodes[v].values) : nodes[v].values[i] = nodes[v].values[j] => i = j
    BY <1>3 DEF Listed, Lists, Holder
  <2>2. nodes[v] \in NodeType /\ nodes[v].length \in Nat
    BY <1>1, NodeTypes
  <2>3. nodes[1].parent = None /\ v # None
    BY <1>1 DEF Parents, Tree, None
  <2>4. \A i \in 1 .. nodes[v].length :
          Blocks(nodes[v].values[i])' \subseteq live' /\ nodes[v].values[i] \notin {1}
    <3> SUFFICES ASSUME NEW i \in 1 .. nodes[v].length
                 PROVE  Blocks(nodes[v].values[i])' \subseteq live' /\ nodes[v].values[i] # 1
      OBVIOUS
    <3>1. nodes[v].values[i] \in 1 .. k /\ nodes[nodes[v].values[i]].parent = v
      BY <2>1
    <3>2. ASSUME NEW w \in 1 .. k, w = nodes[v].values[i]
          PROVE  Blocks(nodes[v].values[i])' \subseteq live'
      <4>1. Blocks(w)' \subseteq live'
        BY <1>2
      <4>2. nodes'[v].values[i] = w
        BY <3>2
      <4> QED
        BY <4>1, <4>2 DEF Blocks
    <3> QED
      BY <2>3, <3>1, <3>2
  <2>5. nodes[v].length <= Len(nodes[v].values)
    BY <2>1, <2>2
  <2> QED
    BY <1>3, <2>1, <2>4, <2>5 DEF Keeps
<1>4. Blocks(1)' \subseteq live'
  BY <1>1, <1>2
<1>5. Parents(k)'
  BY DEF Parents
<1>6. \A v \in 1 .. k : Holder(v)' => Keeps(v, k, {1})'
  BY <1>3 DEF Holder
<1>7. \A w \in {1} : Blocks(w)' \subseteq live'
  BY <1>4
<1> QED
  BY <1>1, <1>5, <1>6, <1>7 DEF Walking

LEMMA TreeHangs ==
  ASSUME Types, NEW k, k = Len(nodes), root = 1, Parents(k), Listed(k, {}), Lives(k),
         UNCHANGED <<nodes, live>>
  PROVE  Reached(k, {1})'
<1>1. nodes \in Seq(NodeType) /\ k \in Nat
  BY DEF Types
<1>2. ASSUME NEW v \in 1 .. k PROVE Hangs(v, {1})' /\ <<"value", v>> \in live'
  <2>1. <<"value", v>> \in live
    BY DEF Lives
  <2>2. CASE v = 1
    BY <2>1, <2>2 DEF Hangs
  <2>3. CASE v # 1
    <3> DEFINE p == nodes[v].parent
    <3>1. p \in 1 .. v - 1
      BY <2>3 DEF Parents, Tree
    <3>2. p \in 1 .. k /\ <<"value", p>> \in live
      BY <1>1, <3>1 DEF Lives
    <3>3. PICK i \in 1 .. Len(nodes[p].values) : nodes[p].values[i] = v
      BY <2>3 DEF Listed, Lists
    <3>4. Len(nodes[p].values) = IF nodes[p].type \in {"array", "object"} THEN nodes[p].length ELSE 0
      BY <3>2 DEF Listed, Lists
    <3>5. Holder(p) /\ i \in 1 .. nodes[p].length
      BY <3>3, <3>4 DEF Holder
    <3> QED
      BY <2>1, <3>2, <3>3, <3>5 DEF Hangs, Holder
  <2> QED
    BY <2>2, <2>3
<1>3. ASSUME NEW x \in live'
      PROVE  \E v \in 1 .. k : x \in Blocks(v)' /\ <<"value", v>> \in live' /\ Hangs(v, {1})'
  <2>1. /\ x \in live
        /\ live = {<<"value", v>> : v \in 1 .. k}
                    \cup {<<"values", v>> : v \in {w \in 1 .. k : nodes[w].allocated}}
    BY DEF Lives
  <2>2. \E v \in 1 .. k : x \in Blocks(v)'
    <3>1. CASE x \in {<<"value", v>> : v \in 1 .. k}
      <4>1. PICK v \in 1 .. k : x = <<"value", v>>
        BY <3>1
      <4>2. x \in Blocks(v)'
        BY <4>1 DEF Blocks
      <4> QED
        BY <4>2
    <3>2. CASE x \in {<<"values", v>> : v \in {w \in 1 .. k : nodes[w].allocated}}
      <4>1. PICK v \in {w \in 1 .. k : nodes[w].allocated} : x = <<"values", v>>
        BY <3>2
      <4>2. v \in 1 .. k /\ x \in Blocks(v)'
        BY <4>1 DEF Blocks
      <4> QED
        BY <4>2
    <3> QED
      BY <2>1, <3>1, <3>2
  <2> QED
    BY <1>2, <2>2
<1> QED
  BY <1>3 DEF Reached

(* json_value_free_ex takes the last value from the list of another.       *)
Unlisted(o, n) ==
  /\ n.type = o.type /\ n.parent = o.parent /\ n.values = o.values /\ n.allocated = o.allocated
  /\ n.room = o.room /\ n.name_room = o.name_room /\ n.name_bytes = o.name_bytes

LEMMA Descends ==
  ASSUME Types, value \in 1 .. Len(nodes), nodes[value].length > 0,
         nodes' = [nodes EXCEPT ![value].length = @ - 1]
  PROVE  /\ nodes' \in Seq(NodeType) /\ Len(nodes') = Len(nodes)
         /\ \A u \in 1 .. Len(nodes) :
              /\ Unlisted(nodes[u], nodes'[u])
              /\ nodes[u].length \in Nat
              /\ nodes'[u].length = IF u = value THEN nodes[u].length - 1 ELSE nodes[u].length
<1> DEFINE n == WithLength(nodes[value], nodes[value].length - 1)
<1>1. nodes \in Seq(NodeType) /\ \A u \in 1 .. Len(nodes) : nodes[u] \in NodeType
  BY DEF Types
<1>2. nodes[value] \in NodeType /\ nodes[value].length \in Nat /\ nodes[value].length - 1 \in Nat
  BY <1>1, NodeTypes
<1>3. /\ n \in NodeType /\ n.length = nodes[value].length - 1 /\ Unlisted(nodes[value], n)
  <2>1. ASSUME NEW o \in NodeType, NEW l \in Nat
        PROVE  /\ WithLength(o, l) \in NodeType /\ WithLength(o, l).length = l
               /\ Unlisted(o, WithLength(o, l))
    BY DEF NodeType, WithLength, Unlisted
  <2> QED
    BY <1>2, <2>1
<1>4. nodes' = [nodes EXCEPT ![value] = n]
  BY DEF WithLength
<1> HIDE DEF n
<1>5. /\ nodes' \in Seq(NodeType) /\ Len(nodes') = Len(nodes)
      /\ \A u \in 1 .. Len(nodes) : nodes'[u] = IF u = value THEN n ELSE nodes[u]
  BY <1>1, <1>3, <1>4
<1>6. ASSUME NEW u \in 1 .. Len(nodes)
      PROVE  /\ Unlisted(nodes[u], nodes'[u])
             /\ nodes[u].length \in Nat
             /\ nodes'[u].length = IF u = value THEN nodes[u].length - 1 ELSE nodes[u].length
  <2>1. nodes[u].length \in Nat
    BY <1>1, NodeTypes
  <2>2. CASE u = value
    BY <1>3, <1>5, <2>1, <2>2
  <2>3. CASE u # value
    BY <1>5, <2>1, <2>3 DEF Unlisted
  <2> QED
    BY <2>2, <2>3
<1> QED
  BY <1>5, <1>6

LEMMA WalkDescends ==
  ASSUME Types, NEW k, NEW Q, Walking(k, Q), Holder(value), nodes[value].length > 0,
         nodes' = [nodes EXCEPT ![value].length = @ - 1],
         NEW w, w = nodes[value].values[nodes[value].length], value' = w,
         UNCHANGED <<live, root>>
  PROVE  Walking(k, Q \cup {w})' /\ (Reached(k, Q) => Reached(k, Q \cup {w})')
<1>1. /\ k \in 1 .. Len(nodes) /\ Len(nodes) \in Nat /\ k \in Nat /\ Parents(k) /\ root = 1
      /\ value \in Q /\ Q \subseteq 1 .. value /\ value \in 1 .. k /\ value \in Nat
      /\ \A v \in Q : Blocks(v) \subseteq live
  BY DEF Walking, Types
<1>2. /\ nodes' \in Seq(NodeType) /\ Len(nodes') = Len(nodes)
      /\ \A u \in 1 .. Len(nodes) :
           /\ Unlisted(nodes[u], nodes'[u])
           /\ nodes[u].length \in Nat
           /\ nodes'[u].length = IF u = value THEN nodes[u].length - 1 ELSE nodes[u].length
  <2>1. value \in 1 .. Len(nodes)
    BY <1>1
  <2> QED
    BY <2>1, Descends
<1>3. \A u \in 1 .. k :
        /\ u \in 1 .. Len(nodes)
        /\ nodes'[u].type = nodes[u].type /\ nodes'[u].parent = nodes[u].parent
        /\ nodes'[u].values = nodes[u].values /\ nodes'[u].allocated = nodes[u].allocated
        /\ nodes[u].length \in Nat
        /\ nodes'[u].length = IF u = value THEN nodes[u].length - 1 ELSE nodes[u].length
  BY <1>1, <1>2 DEF Unlisted
<1>4. \A u \in 1 .. k : Blocks(u)' = Blocks(u) /\ (Holder(u)' <=> Holder(u))
  BY <1>3 DEF Blocks, Holder
<1>5. <<"value", value>> \in live /\ Keeps(value, k, Q)
  <2>1. <<"value", value>> \in Blocks(value)
    BY DEF Blocks
  <2> QED
    BY <1>1, <2>1 DEF Walking
<1>6. /\ nodes[value].length \in 1 .. nodes[value].length
      /\ nodes[value].length \in 1 .. Len(nodes[value].values)
  BY <1>3, <1>1, <1>5 DEF Keeps
<1>7. w \in 1 .. k /\ nodes[w].parent = value /\ Blocks(w) \subseteq live /\ w \notin Q
  BY <1>5, <1>6 DEF Keeps
<1>8. value < w
  <2>1. IF w = 1 THEN value = None ELSE value \in 1 .. w - 1
    BY <1>1, <1>7 DEF Parents, Tree
  <2> QED
    BY <1>1, <1>7, <2>1 DEF None
<1>9. Parents(k)'
  BY <1>1, <1>3 DEF Parents, Tree
<1>10. ASSUME NEW v \in 1 .. k, Holder(v) PROVE Keeps(v, k, Q \cup {w})'
  <2>1. /\ nodes[v].length <= Len(nodes[v].values)
        /\ nodes[v].length > 0 => nodes[v].allocated
        /\ \A i \in 1 .. Len(nodes[v].values) :
             nodes[v].values[i] \in 1 .. k /\ nodes[nodes[v].values[i]].parent = v
        /\ \A i, j \in 1 .. Len(nodes[v].values) : nodes[v].values[i] = nodes[v].values[j] => i = j
        /\ <<"value", v>> \in live =>
             \A i \in 1 .. nodes[v].length :
               Blocks(nodes[v].values[i]) \subseteq live /\ nodes[v].values[i] \notin Q
    BY <1>10 DEF Walking, Keeps
  <2>2. /\ nodes'[v].values = nodes[v].values /\ nodes'[v].allocated = nodes[v].allocated
        /\ nodes[v].length \in Nat /\ nodes'[v].length \in Nat
        /\ nodes'[v].length <= nodes[v].length
        /\ v = value => nodes'[v].length = nodes[v].length - 1
    <3>1. nodes'[v].length = IF v = value THEN nodes[v].length - 1 ELSE nodes[v].length
      BY <1>3
    <3> QED
      BY <1>3, <3>1
  <2>3. \A i \in 1 .. Len(nodes[v].values) :
          nodes[v].values[i] \in 1 .. k /\ nodes'[nodes[v].values[i]].parent = v
    BY <1>3, <2>1
  <2>4. ASSUME <<"value", v>> \in live, NEW i \in 1 .. nodes'[v].length,
               NEW u, u = nodes[v].values[i]
        PROVE  Blocks(u)' \subseteq live /\ u \notin Q \cup {w}
    <3>1. i \in 1 .. nodes[v].length /\ i \in 1 .. Len(nodes[v].values)
      BY <2>1, <2>2
    <3>2. u \in 1 .. k /\ nodes[u].parent = v
      BY <2>1, <2>4, <3>1
    <3>3. Blocks(u) \subseteq live /\ u \notin Q
      BY <2>1, <2>4, <3>1
    <3>4. u # w
      <4>1. CASE v # value
        BY <1>7, <3>2, <4>1
      <4>2. CASE v = value
        <5>1. i # nodes[v].length
          BY <2>2, <4>2
        <5> QED
          BY <1>6, <2>1, <2>4, <3>1, <4>2, <5>1
      <4> QED
        BY <4>1, <4>2
    <3>5. Blocks(u)' \subseteq live
      BY <1>4, <3>2, <3>3
    <3> QED
      BY <3>3, <3>4, <3>5
  <2>5. nodes'[v].length <= Len(nodes'[v].values)
    BY <2>1, <2>2
  <2>6. nodes'[v].length > 0 => nodes'[v].allocated
    BY <2>1, <2>2
  <2>7. PICK vs : vs = nodes[v].values /\ vs = nodes'[v].values
    BY <2>2
  <2>8. /\ \A i \in 1 .. Len(vs) : vs[i] \in 1 .. k /\ nodes'[vs[i]].parent = v
        /\ \A i, j \in 1 .. Len(vs) : vs[i] = vs[j] => i = j
    BY <2>1, <2>3, <2>7
  <2>9. <<"value", v>> \in live' =>
          \A i \in 1 .. nodes'[v].length : Blocks(vs[i])' \subseteq live' /\ vs[i] \notin Q \cup {w}
    <3> SUFFICES ASSUME <<"value", v>> \in live, NEW i \in 1 .. nodes'[v].length
                 PROVE  Blocks(vs[i])' \subseteq live /\ vs[i] \notin Q \cup {w}
      OBVIOUS
    <3>1. ASSUME NEW u, u = vs[i] PROVE Blocks(u)' \subseteq live /\ u \notin Q \cup {w}
      BY <2>4, <2>7, <3>1
    <3> QED
      BY <3>1
  <2>10. \A i : Blocks(nodes[v].values[i])' = Blocks(vs[i])'
    BY <2>7 DEF Blocks
  <2>11. <<"value", v>> \in live' =>
           \A i \in 1 .. nodes'[v].length :
             Blocks(nodes[v].values[i])' \subseteq live' /\ nodes'[v].values[i] \notin Q \cup {w}
    BY <2>7, <2>9, <2>10
  <2> QED
    BY <2>5, <2>6, <2>7, <2>8, <2>11 DEF Keeps
<1>11. w \in 1 .. k /\ Q \cup {w} \subseteq 1 .. w
  BY <1>1, <1>7, <1>8
<1>12. ASSUME NEW v \in Q \cup {w}
       PROVE  /\ v = 1 \/ nodes'[v].parent \in Q \cup {w}
              /\ \A u \in Q \cup {w} : u < v => u <= nodes'[v].parent
              /\ Blocks(v)' \subseteq live
  <2>1. CASE v = w
    <3>1. nodes'[w].parent = value /\ Blocks(w)' = Blocks(w)
      BY <1>3, <1>4, <1>7
    <3>2. \A u \in Q \cup {w} : u < w => u <= value
      <4>1. ASSUME NEW u \in Q \cup {w}, u < w PROVE u <= value
        <5>1. u # w
          BY <1>1, <1>11, <4>1
        <5> QED
          BY <1>1, <4>1, <5>1
      <4> QED
        BY <4>1
    <3> QED
      BY <1>1, <1>7, <2>1, <3>1, <3>2 DEF Blocks
  <2>2. CASE v \in Q
    <3>1. v \in 1 .. k /\ v <= value
      BY <1>1, <2>2
    <3>2. nodes'[v].parent = nodes[v].parent /\ Blocks(v)' = Blocks(v)
      BY <1>3, <1>4, <3>1
    <3>3. v = 1 \/ nodes[v].parent \in Q
      BY <2>2 DEF Walking
    <3>4. \A u \in Q : u < v => u <= nodes[v].parent
      BY <2>2 DEF Walking
    <3>5. ~(w < v)
      BY <1>1, <1>8, <1>11, <3>1
    <3> QED
      BY <1>1, <2>2, <3>2, <3>3, <3>4, <3>5
  <2> QED
    BY <2>1, <2>2
<1>13. Walking(k, Q \cup {w})'
  <2>1. root' = 1 /\ k \in 1 .. Len(nodes') /\ value' = w
    BY <1>1, <1>2
  <2>2. \A v \in 1 .. k : Holder(v)' => Keeps(v, k, Q \cup {w})'
    BY <1>4, <1>10
  <2> QED
    BY <1>9, <1>11, <1>12, <2>1, <2>2 DEF Walking
<1>14. ASSUME Reached(k, Q) PROVE Reached(k, Q \cup {w})'
  <2>1. k = Len(nodes')
    BY <1>2, <1>14 DEF Reached
  <2>2. ASSUME NEW x \in live
        PROVE  \E v \in 1 .. k : x \in Blocks(v)' /\ <<"value", v>> \in live
                                 /\ Hangs(v, Q \cup {w})'
    <3>1. PICK v \in 1 .. k : x \in Blocks(v) /\ <<"value", v>> \in live /\ Hangs(v, Q)
      BY <1>14 DEF Reached
    <3>2. x \in Blocks(v)'
      BY <1>4, <3>1
    <3>3. Hangs(v, Q \cup {w})'
      <4>1. CASE v = 1 \/ v \in Q \cup {w}
        BY <4>1 DEF Hangs
      <4>2. CASE ~(v = 1 \/ v \in Q \cup {w})
        <5>1. nodes[v].parent \in 1 .. k
          BY <1>1, <4>2 DEF Parents, Tree
        <5>2. PICK p \in 1 .. k : p = nodes[v].parent
          BY <5>1
        <5>3. PICK i \in 1 .. nodes[p].length : nodes[p].values[i] = v
          BY <3>1, <4>2, <5>2 DEF Hangs
        <5>4. <<"value", p>> \in live /\ Holder(p)
          BY <3>1, <4>2, <5>2 DEF Hangs
        <5>5. i \in 1 .. nodes'[p].length
          <6>1. p = value => i # nodes[p].length
            BY <4>2, <5>3
          <6>2. /\ nodes'[p].length = IF p = value THEN nodes[p].length - 1 ELSE nodes[p].length
                /\ nodes[p].length \in Nat
            BY <1>3
          <6> QED
            BY <6>1, <6>2
        <5>6. nodes'[v].parent = p /\ nodes'[p].values[i] = v /\ Holder(p)'
          BY <1>3, <1>4, <5>2, <5>3, <5>4
        <5> QED
          BY <5>4, <5>5, <5>6 DEF Hangs, Holder
      <4> QED
        BY <4>1, <4>2
    <3> QED
      BY <3>1, <3>2, <3>3
  <2> QED
    BY <2>1, <2>2 DEF Reached
<1> QED
  BY <1>13, <1>14

LEMMA WalkAscends ==
  ASSUME Types, NEW k, NEW Q, Walking(k, Q), ~(Holder(value) /\ nodes[value].length > 0),
         live' = live \ Blocks(value), value # 1, value' = nodes[value].parent,
         UNCHANGED <<nodes, root>>, NEW R, R = Q \ {value}
  PROVE  Walking(k, R)' /\ (Reached(k, Q) => Reached(k, R)')
<1>1. /\ k \in 1 .. Len(nodes) /\ Len(nodes) \in Nat /\ k \in Nat /\ Parents(k) /\ root = 1
      /\ value \in Q /\ Q \subseteq 1 .. value /\ value \in 1 .. k /\ value \in Nat
      /\ nodes \in Seq(NodeType)
  BY DEF Walking, Types
<1>2. PICK p \in 1 .. value - 1 : p = nodes[value].parent
  BY <1>1 DEF Parents, Tree
<1>3. p \in R /\ p \in 1 .. k /\ value' = p
  BY <1>1, <1>2 DEF Walking
<1>4. R \subseteq 1 .. p
  <2>1. ASSUME NEW u \in Q, u # value PROVE u \in 1 .. p
    <3>1. u \in 1 .. value /\ u < value
      BY <1>1, <2>1
    <3>2. u <= nodes[value].parent
      BY <1>1, <3>1 DEF Walking
    <3> QED
      BY <1>2, <3>1, <3>2
  <2> QED
    BY <2>1
<1>5. ASSUME NEW u \in 1 .. k, u # value PROVE Blocks(u)' = Blocks(u) /\ Blocks(u) \cap Blocks(value) = {}
  BY <1>5 DEF Blocks
<1>6. ASSUME NEW v \in 1 .. k, Holder(v) PROVE Keeps(v, k, R)'
  <2>1. /\ nodes[v].length <= Len(nodes[v].values)
        /\ nodes[v].length > 0 => nodes[v].allocated
        /\ \A i \in 1 .. Len(nodes[v].values) :
             nodes[v].values[i] \in 1 .. k /\ nodes[nodes[v].values[i]].parent = v
        /\ \A i, j \in 1 .. Len(nodes[v].values) : nodes[v].values[i] = nodes[v].values[j] => i = j
        /\ <<"value", v>> \in live =>
             \A i \in 1 .. nodes[v].length :
               Blocks(nodes[v].values[i]) \subseteq live /\ nodes[v].values[i] \notin Q
    BY <1>6 DEF Walking, Keeps
  <2>2. ASSUME <<"value", v>> \in live', NEW i \in 1 .. nodes[v].length
        PROVE  Blocks(nodes[v].values[i])' \subseteq live' /\ nodes[v].values[i] \notin R
    <3>1. Blocks(nodes[v].values[i]) \subseteq live /\ nodes[v].values[i] \notin Q
      BY <2>1, <2>2
    <3>2. nodes[v].length \in Nat
      <4>1. nodes[v] \in NodeType
        BY <1>1
      <4> QED
        BY <4>1, NodeTypes
    <3>3. nodes[v].values[i] \in 1 .. k
      BY <2>1, <3>2
    <3>4. nodes[v].values[i] # value
      BY <1>1, <3>1
    <3>5. ASSUME NEW u \in 1 .. k, u = nodes[v].values[i]
          PROVE  Blocks(nodes[v].values[i])' \subseteq live'
      <4>1. Blocks(u)' \subseteq live'
        BY <1>5, <3>1, <3>4, <3>5
      <4> QED
        BY <3>5, <4>1 DEF Blocks
    <3> QED
      BY <3>1, <3>3, <3>5
  <2> QED
    BY <2>1, <2>2 DEF Keeps, Blocks
<1>7. ASSUME NEW v \in Q, v # value
      PROVE  /\ v = 1 \/ nodes[v].parent \in R
             /\ \A u \in Q : u < v => u <= nodes[v].parent
             /\ Blocks(v)' \subseteq live'
  <2>1. v \in 1 .. k /\ v < value
    BY <1>1, <1>7
  <2>2. /\ v = 1 \/ nodes[v].parent \in Q
        /\ \A u \in Q : u < v => u <= nodes[v].parent
        /\ Blocks(v) \subseteq live
    BY DEF Walking
  <2>3. v # 1 => nodes[v].parent \in 1 .. v - 1
    BY <2>1 DEF Parents, Tree, Walking
  <2>4. v # 1 => nodes[v].parent # value
    BY <1>1, <2>1, <2>3
  <2>5. Blocks(v)' \subseteq live'
    BY <1>5, <1>7, <2>1, <2>2
  <2> QED
    BY <2>2, <2>4, <2>5
<1>8. Walking(k, R)'
  <2>1. root' = 1 /\ k \in 1 .. Len(nodes') /\ Parents(k)'
    BY <1>1 DEF Parents
  <2>2. \A v \in 1 .. k : Holder(v)' => Keeps(v, k, R)'
    BY <1>6 DEF Holder, Keeps, Blocks
  <2>3. value' \in R /\ R \subseteq 1 .. value' /\ value' \in 1 .. k
    BY <1>3, <1>4
  <2>4. ASSUME NEW w \in R
        PROVE  /\ w = 1 \/ nodes'[w].parent \in R
               /\ \A u \in R : u < w => u <= nodes'[w].parent
               /\ Blocks(w)' \subseteq live'
    BY <1>7
  <2> QED
    BY <2>1, <2>2, <2>3, <2>4 DEF Walking
<1>9. ASSUME Reached(k, Q) PROVE Reached(k, R)'
  <2>1. ASSUME NEW x \in live'
        PROVE  \E v \in 1 .. k : /\ x \in Blocks(v)' /\ <<"value", v>> \in live'
                                 /\ Hangs(v, R)'
    <3>1. PICK v \in 1 .. k : x \in Blocks(v) /\ <<"value", v>> \in live /\ Hangs(v, Q)
      BY <1>9, <2>1 DEF Reached
    <3>2. v # value
      BY <2>1, <3>1
    <3>3. x \in Blocks(v)' /\ <<"value", v>> \in live'
      BY <1>5, <3>1, <3>2 DEF Blocks
    <3>4. Hangs(v, R)'
      <4>1. CASE v = 1 \/ v \in Q
        BY <3>2, <4>1 DEF Hangs
      <4>2. CASE ~(v = 1 \/ v \in Q)
        <5>1. nodes[v].parent \in 1 .. k
          BY <1>1, <4>2 DEF Parents, Tree
        <5>2. PICK q \in 1 .. k : q = nodes[v].parent
          BY <5>1
        <5>3. /\ <<"value", q>> \in live /\ Holder(q)
              /\ \E i \in 1 .. nodes[q].length : nodes[q].values[i] = v
          BY <3>1, <4>2, <5>2 DEF Hangs
        <5>4. q # value
          <6>1. nodes[q] \in NodeType
            BY <1>1
          <6>2. nodes[q].length \in Nat
            BY <6>1, NodeTypes
          <6> QED
            BY <5>3, <6>2
        <5>5. <<"value", q>> \in live'
          BY <5>3, <5>4 DEF Blocks
        <5> QED
          BY <5>2, <5>3, <5>5 DEF Hangs, Holder
      <4> QED
        BY <4>1, <4>2
    <3> QED
      BY <3>3, <3>4
  <2> QED
    BY <1>9, <2>1 DEF Reached
<1> QED
  BY <1>8, <1>9

LEMMA WalkEnds ==
  ASSUME Types, NEW k, NEW Q, Walking(k, Q), Reached(k, Q),
         ~(Holder(value) /\ nodes[value].length > 0),
         live' = live \ Blocks(value), value = 1
  PROVE  live' = {}
<1>1. /\ k \in 1 .. Len(nodes) /\ Len(nodes) \in Nat /\ k \in Nat /\ Parents(k)
      /\ Q = {1} /\ nodes \in Seq(NodeType) /\ 1 \in 1 .. k
  BY DEF Walking, Types
<1> DEFINE T == {v \in 1 .. k : v # 1 /\ <<"value", v>> \in live}
<1>2. T = {}
  <2> SUFFICES ASSUME T # {} PROVE FALSE
    OBVIOUS
  <2>1. T \in SUBSET Nat
    BY <1>1
  <2> HIDE DEF T
  <2>2. PICK v \in T : \A u \in T : v <= u
    BY <2>1, LeastElement
  <2>3. v \in 1 .. k /\ v # 1 /\ <<"value", v>> \in live
    BY <2>2 DEF T
  <2>4. Hangs(v, Q)
    <3>1. PICK u \in 1 .. k : /\ <<"value", v>> \in Blocks(u) /\ <<"value", u>> \in live
                              /\ Hangs(u, Q)
      BY <2>3 DEF Reached
    <3>2. u = v
      BY <3>1 DEF Blocks
    <3> QED
      BY <3>1, <3>2
  <2>5. nodes[v].parent \in 1 .. v - 1
    BY <1>1, <2>3 DEF Parents, Tree
  <2>6. PICK p \in 1 .. v - 1 : p = nodes[v].parent
    BY <2>5
  <2>7. /\ <<"value", p>> \in live /\ Holder(p)
        /\ \E i \in 1 .. nodes[p].length : nodes[p].values[i] = v
    BY <1>1, <2>3, <2>4, <2>6 DEF Hangs
  <2>8. p # 1
    <3>1. nodes[1] \in NodeType
      BY <1>1
    <3>2. nodes[1].length \in Nat
      BY <3>1, NodeTypes
    <3> QED
      BY <2>7, <3>2
  <2>9. p \in T
    <3>1. p \in 1 .. k
      BY <1>1, <2>3, <2>6
    <3> QED
      BY <2>7, <2>8, <3>1 DEF T
  <2> QED
    BY <1>1, <2>2, <2>3, <2>6, <2>9
<1>3. ASSUME NEW x \in live' PROVE FALSE
  <2>1. PICK v \in 1 .. k : x \in Blocks(v) /\ <<"value", v>> \in live
    BY <1>3 DEF Reached
  <2>2. v = 1
    BY <1>2, <2>1
  <2> QED
    BY <1>3, <2>1, <2>2
<1> QED
  BY <1>3

-----------------------------------------------------------------------------
(* All phases.                                                             *)

Freeing ==
  /\ outcome \in {"parsed", "memory"}
  /\ \/ outcome = "memory" /\ root = 1 /\ value = 1 /\ ~nodes[1].allocated
     \/ \E k, Q : Walking(k, Q) /\ (outcome = "parsed" => Reached(k, Q))

Ended ==
  /\ phase = "freed" =>
       ~first_pass /\ RoomFits /\ outcome \in {"parsed", "memory"} /\ (outcome = "parsed" => live = {})
  /\ phase = "rejected" => first_pass /\ live = {}
  /\ phase = "crashed" =>
       ~first_pass /\ RoomFits /\ outcome = "memory" /\ value = root /\ ~nodes[root].allocated

JsonInv ==
  /\ Types
  /\ phase \in {"parsing", "failing", "parsed", "freeing", "freed", "rejected", "crashed"}
  /\ FirstPass /\ SecondPass
  /\ phase = "failing" => FirstFails \/ SecondFails
  /\ phase = "parsed" => ~first_pass /\ RoomFits /\ Whole
  /\ phase = "freeing" => ~first_pass /\ RoomFits /\ Freeing
  /\ Ended

LEMMA StartsShaped == WellShaped(StartState) /\ Before(StartState, StartState)
<1> DEFINE s == State({"seek_value"}, 0, 0, {}, 0, <<>>)
<1>1. /\ s.flags = {"seek_value"} /\ s.top = 0 /\ s.size = 0 /\ s.open = {}
      /\ s.seen = 0 /\ s.cells = <<>> /\ IsState(s)
  BY DEF State, IsState
<1>2. StartState = s
  BY DEF StartState, None
<1> HIDE DEF s
<1>3. \A v \in 1 .. 0 : FALSE
  OBVIOUS
<1>4. s.cells \in [1 .. s.seen -> CellType]
  BY <1>1, <1>3
<1>5. CellsOK(s)
  BY <1>1, <1>3, <1>4 DEF CellsOK, Path
<1>6. FlagsOK(s)
  BY <1>1 DEF FlagsOK, PlainFlags, None
<1>7. Before(s, s)
  BY <1>1, <1>3 DEF Before
<1> QED
  BY <1>1, <1>2, <1>5, <1>6, <1>7 DEF WellShaped

LEMMA JsonStarts == Init => JsonInv
<1> SUFFICES ASSUME Init PROVE JsonInv
  OBVIOUS
<1>1. /\ text \in Seq(Chars) /\ more \in Nat /\ first_pass = TRUE /\ ptr = 1
      /\ flags = {"seek_value"} /\ top = 0 /\ root = 0 /\ alloc = 0
      /\ string_length = 0 /\ num_digits = 0 /\ nodes = <<>> /\ live = {}
      /\ phase = "parsing" /\ outcome = "none"
  BY JsonParserAssumption DEF Init, None
<1>2. Types
  BY <1>1 DEF Types, PlainFlags
<1>3. Fresh /\ ptr \in 1 .. Len(text) + 1
  <2>1. Len(nodes) = 0 /\ \A v \in 1 .. 0 : FALSE
    BY <1>1
  <2>2. Len(text) \in Nat
    BY <1>1
  <2> QED
    BY <1>1, <2>1, <2>2 DEF Fresh, None
<1> DEFINE H == [d \in {1} |-> StartState]
<1>4. Way({1}, H, 1)
  BY StartsShaped DEF Way
<1>5. InState(StartState)
  <2>1. StartState.flags = {"seek_value"} /\ StartState.top = None /\ StartState.seen = 0
    BY DEF StartState, State
  <2>2. Seen = 0 /\ \A v \in 1 .. 0 : FALSE
    BY <1>1 DEF Seen
  <2> QED
    BY <1>1, <2>1, <2>2 DEF InState, NumberFlags, None
<1>6. Travels
  <2>1. Way({1}, H, ptr) /\ InState(H[ptr])
    BY <1>1, <1>4, <1>5
  <2> QED
    BY <2>1 DEF Travels
<1> QED
  BY <1>1, <1>2, <1>3, <1>6 DEF JsonInv, FirstPass, SecondPass, Ended

LEMMA RoomKept ==
  ASSUME RoomFits, live' \subseteq live, UNCHANGED nodes
  PROVE  RoomFits'
BY DEF RoomFits

LEMMA SuppliesKeep ==
  ASSUME JsonInv, (\E c \in Chars : Supply(c)) \/ End
  PROVE  JsonInv'
<1>1. /\ AtEnd /\ Reads /\ UNCHANGED <<passVars, treeVars, endVars>>
      /\ text' \in Seq(Chars) /\ more' \in Nat
  <2>1. text \in Seq(Chars) /\ more \in Nat
    BY DEF JsonInv, Types
  <2>2. ASSUME NEW c \in Chars, Supply(c)
        PROVE  /\ AtEnd /\ Reads /\ UNCHANGED <<passVars, treeVars, endVars>>
               /\ text' \in Seq(Chars) /\ more' \in Nat
    <3>1. /\ AtEnd /\ UNCHANGED <<passVars, treeVars, endVars>>
          /\ text' = Append(text, c) /\ more' = more - 1 /\ more > 0
      BY <2>2 DEF Supply, AtEnd
    <3>2. text' \in Seq(Chars) /\ more' \in Nat
      BY <2>1, <3>1
    <3> QED
      BY <3>1, <3>2 DEF Reads
  <2>3. ASSUME End
        PROVE  /\ AtEnd /\ Reads /\ UNCHANGED <<passVars, treeVars, endVars>>
               /\ text' \in Seq(Chars) /\ more' \in Nat
    <3>1. /\ AtEnd /\ UNCHANGED <<passVars, treeVars, endVars>>
          /\ text' = text /\ more' = 0 /\ more > 0
      BY <2>3 DEF End, AtEnd
    <3> QED
      BY <2>1, <3>1 DEF Reads
  <2> QED
    BY <2>2, <2>3
<1>2. phase = "parsing" /\ phase' = "parsing" /\ more > 0 /\ first_pass' = first_pass
  BY <1>1 DEF AtEnd, endVars, passVars
<1>3. first_pass
  BY <1>2 DEF JsonInv, SecondPass
<1>4. FirstPass'
  BY <1>1, <1>2, <1>3, FirstReads DEF JsonInv
<1>5. Types'
  BY <1>1 DEF JsonInv, Types, passVars, treeVars
<1> QED
  BY <1>2, <1>3, <1>4, <1>5 DEF JsonInv, SecondPass, Ended

LEMMA ParsesKeep ==
  ASSUME JsonInv, json_parse_ex
  PROVE  JsonInv'
<1>1. phase = "parsing" /\ Types /\ FirstPass /\ SecondPass
  BY DEF json_parse_ex, Reading, JsonInv
<1>2. CASE first_pass
  <2>1. /\ Types'
        /\ \/ FirstPass' /\ first_pass' /\ phase' = "parsing"
           \/ SecondPass' /\ ~first_pass' /\ phase' = "parsing"
           \/ FirstFails' /\ phase' = "failing"
    BY <1>1, <1>2, FirstParses
  <2> QED
    BY <2>1 DEF JsonInv, FirstPass, SecondPass, Ended
<1>3. CASE ~first_pass
  <2>1. /\ Types' /\ ~first_pass'
        /\ \/ SecondPass' /\ phase' = "parsing"
           \/ SecondFails' /\ phase' = "failing"
           \/ RoomFits' /\ Whole' /\ phase' = "parsed"
    BY <1>1, <1>3, SecondParses
  <2> QED
    BY <2>1 DEF JsonInv, FirstPass, SecondPass, Ended
<1> QED
  BY <1>2, <1>3

LEMMA FailingKeeps ==
  ASSUME JsonInv, e_failed
  PROVE  JsonInv'
<1>1. /\ phase = "failing" /\ Types /\ (FirstFails \/ SecondFails)
      /\ UNCHANGED <<text, more, first_pass, ptr, flags, string_length, num_digits>>
      /\ UNCHANGED <<top, root, alloc, nodes, outcome>>
  BY DEF e_failed, JsonInv, readVars, passVars
<1>2. Types'
  BY <1>1 DEF Types
<1>3. /\ live' \subseteq live /\ nodes \in Seq(NodeType) /\ Len(nodes) \in Nat
  BY <1>1 DEF e_failed, Types
<1>4. CASE FirstFails
  <2>1. Fresh /\ first_pass
    BY <1>4 DEF FirstFails
  <2>2. phase' = "rejected" /\ first_pass'
    BY <1>1, <2>1 DEF e_failed
  <2>3. live' = {}
    <3>1. CASE nodes = <<>>
      <4>1. Len(nodes) = 0 /\ \A v \in 1 .. 0 : FALSE
        BY <3>1
      <4>2. live = {}
        BY <2>1, <4>1 DEF Fresh
      <4> QED
        BY <1>3, <4>2
    <3>2. CASE nodes # <<>>
      <4>1. root = 1 /\ live = {<<"value", v>> : v \in 1 .. Len(nodes)}
        BY <2>1, <3>2 DEF Fresh
      <4>2. live' = live \ {<<"value", i>> : i \in 1 .. Len(nodes)}
        BY <2>1, <4>1 DEF e_failed, Unreached, None
      <4> QED
        BY <4>1, <4>2
    <3> QED
      BY <3>1, <3>2
  <2> QED
    BY <1>2, <2>2, <2>3 DEF JsonInv, FirstPass, SecondPass, Ended
<1>5. CASE SecondFails
  <2>1. ~first_pass /\ RoomFits /\ \E k \in Nat : Failed(k)
    BY <1>5 DEF SecondFails
  <2>2. PICK k \in Nat : Failed(k)
    BY <2>1
  <2>3. /\ outcome = "memory" /\ k \in 0 .. Len(nodes) - 1 /\ root = 1
        /\ alloc = (IF k + 1 < Len(nodes) THEN k + 2 ELSE None)
        /\ Parents(k) /\ Lives(k) /\ ~nodes[k + 1].allocated
        /\ \E open \in SUBSET (1 .. k) : Listed(k, open)
        /\ \A v \in 1 .. k : Holder(v) /\ nodes[v].length > 0 => nodes[v].allocated
    BY <2>2 DEF Failed
  <2>4. phase' = "freeing" /\ value' = 1 /\ ~first_pass' /\ outcome' = "memory" /\ root' = 1
    BY <1>1, <2>1, <2>3 DEF e_failed, None
  <2>5. RoomFits'
    BY <1>1, <1>3, <2>1, RoomKept
  <2>6. CASE k = 0
    <3>1. ~nodes'[1].allocated
      BY <1>1, <2>3, <2>6
    <3>2. Freeing'
      BY <2>4, <3>1 DEF Freeing
    <3> QED
      BY <1>2, <2>4, <2>5, <3>2 DEF JsonInv, FirstPass, SecondPass, Ended
  <2>7. CASE k # 0
    <3>1. k \in 1 .. Len(nodes)
      BY <1>3, <2>3, <2>7
    <3>2. \A v \in 1 .. k : /\ <<"value", v>> \in live'
                            /\ nodes[v].allocated => <<"values", v>> \in live'
      <4> SUFFICES ASSUME NEW v \in 1 .. k
                   PROVE  /\ <<"value", v>> \in live'
                          /\ nodes[v].allocated => <<"values", v>> \in live'
        OBVIOUS
      <4> DEFINE chain == IF alloc = None THEN {} ELSE alloc .. Len(nodes)
      <4>1. live' = live \ {<<"value", i>> : i \in chain}
        BY <2>1 DEF e_failed, Unreached
      <4>2. v \notin chain
        BY <1>3, <2>3 DEF None
      <4>3. v \in 1 .. Len(nodes)
        BY <1>3, <3>1
      <4> HIDE DEF chain
      <4>4. <<"value", v>> \in live /\ (nodes[v].allocated => <<"values", v>> \in live)
        BY <2>3, <4>3 DEF Lives
      <4> QED
        BY <4>1, <4>2, <4>4
    <3>3. PICK open : Listed(k, open)
      BY <2>3
    <3>4. Walking(k, {1})'
      <4>1. UNCHANGED <<nodes, root>> /\ root = 1 /\ Parents(k) /\ value' = 1 /\ Types
        BY <1>1, <2>3, <2>4
      <4>2. \A v \in 1 .. k : /\ <<"value", v>> \in live'
                              /\ nodes[v].allocated => <<"values", v>> \in live'
                              /\ Holder(v) /\ nodes[v].length > 0 => nodes[v].allocated
        BY <2>3, <3>2
      <4> QED
        BY <3>1, <3>3, <4>1, <4>2, WalkStarts
    <3>5. Freeing'
      BY <2>4, <3>4 DEF Freeing
    <3> QED
      BY <1>2, <2>4, <2>5, <3>5 DEF JsonInv, FirstPass, SecondPass, Ended
  <2> QED
    BY <2>6, <2>7
<1> QED
  BY <1>1, <1>4, <1>5

LEMMA FreeingStarts ==
  ASSUME JsonInv, json_value_free
  PROVE  JsonInv'
<1>1. /\ phase = "parsed" /\ phase' = "freeing" /\ value' = root /\ Types /\ ~first_pass
      /\ RoomFits /\ Whole
      /\ UNCHANGED <<text, more, first_pass, ptr, flags, string_length, num_digits>>
      /\ UNCHANGED <<top, root, alloc, nodes, live, outcome>>
  BY DEF json_value_free, JsonInv, readVars, passVars, treeVars
<1>2. Types' /\ RoomFits'
  BY <1>1, RoomKept DEF Types
<1>3. /\ root = 1 /\ outcome = "parsed" /\ Listed(Len(nodes), {}) /\ Parents(Len(nodes))
      /\ Lives(Len(nodes)) /\ Len(nodes) \in Nat /\ Len(nodes) >= 1 /\ nodes \in Seq(NodeType)
      /\ \A v \in 1 .. Len(nodes) : ~nodes[v].allocated => nodes[v].length = 0
  BY <1>1 DEF Whole, Types
<1>4. ASSUME NEW k, k = Len(nodes) PROVE Walking(k, {1})' /\ Reached(k, {1})'
  <2>1. ASSUME NEW v \in 1 .. k
        PROVE  /\ <<"value", v>> \in live'
               /\ nodes[v].allocated => <<"values", v>> \in live'
               /\ Holder(v) /\ nodes[v].length > 0 => nodes[v].allocated
    <3>1. <<"value", v>> \in live' /\ (nodes[v].allocated => <<"values", v>> \in live')
      BY <1>1, <1>3, <1>4 DEF Lives
    <3>2. nodes[v].length > 0 => nodes[v].allocated
      BY <1>3, <1>4
    <3> QED
      BY <3>1, <3>2
  <2>2. k \in 1 .. Len(nodes) /\ Listed(k, {}) /\ Parents(k) /\ Lives(k)
    BY <1>3, <1>4
  <2>3. Walking(k, {1})'
    <3>1. value' = 1 /\ UNCHANGED <<nodes, root>>
      BY <1>1, <1>3
    <3> QED
      BY <1>1, <1>3, <2>1, <2>2, <3>1, WalkStarts
  <2>4. Reached(k, {1})'
    BY <1>1, <1>3, <1>4, <2>2, TreeHangs
  <2> QED
    BY <2>3, <2>4
<1>5. Freeing'
  <2>1. \E k : Walking(k, {1})' /\ Reached(k, {1})'
    BY <1>4
  <2>2. outcome' = "parsed"
    BY <1>1, <1>3
  <2> QED
    BY <2>1, <2>2 DEF Freeing
<1> QED
  BY <1>1, <1>2, <1>5 DEF JsonInv, FirstPass, SecondPass, Ended

LEMMA FreeingKeeps ==
  ASSUME JsonInv, json_value_free_ex
  PROVE  JsonInv'
<1> DEFINE descend == Holder(value) /\ nodes[value].length > 0
<1>1. /\ phase = "freeing" /\ Types /\ ~first_pass /\ RoomFits /\ Freeing
      /\ UNCHANGED <<text, more, first_pass, ptr, flags, string_length, num_digits>>
      /\ UNCHANGED <<top, root, alloc, outcome>>
  BY DEF json_value_free_ex, JsonInv, readVars, passVars
<1>2. \/ /\ descend /\ nodes[value].allocated
         /\ nodes' = [nodes EXCEPT ![value].length = @ - 1]
         /\ value' = nodes[value].values[nodes[value].length]
         /\ UNCHANGED <<live, phase>>
      \/ /\ ~descend /\ Blocks(value) \subseteq live
         /\ live' = live \ Blocks(value)
         /\ value' = (IF value = root THEN None ELSE nodes[value].parent)
         /\ phase' = (IF value = root THEN "freed" ELSE phase)
         /\ UNCHANGED nodes
      \/ /\ IF descend THEN ~nodes[value].allocated ELSE ~(Blocks(value) \subseteq live)
         /\ phase' = "crashed"
         /\ UNCHANGED <<nodes, live, value>>
  BY DEF json_value_free_ex, Holder
<1> HIDE DEF descend
<1>3. outcome \in {"parsed", "memory"}
  BY <1>1 DEF Freeing
<1>4. ASSUME UNCHANGED nodes, live' \subseteq live PROVE Types' /\ RoomFits'
  <2>1. Types'
    BY <1>1, <1>4 DEF Types
  <2> QED
    BY <1>1, <1>4, <2>1, RoomKept
<1>5. CASE outcome = "memory" /\ root = 1 /\ value = 1 /\ ~nodes[1].allocated
  <2>1. UNCHANGED nodes /\ live' \subseteq live /\ phase' \in {"freed", "crashed"}
        /\ (phase' = "crashed" => UNCHANGED value)
    BY <1>2, <1>5
  <2>2. ~nodes'[root'].allocated
    BY <1>1, <1>5, <2>1
  <2> QED
    BY <1>1, <1>4, <1>5, <2>1, <2>2 DEF JsonInv, FirstPass, SecondPass, Ended
<1>6. ASSUME NEW k, NEW Q, Walking(k, Q), outcome = "parsed" => Reached(k, Q)
      PROVE  JsonInv'
  <2>1. /\ root = 1 /\ value \in Q /\ value \in 1 .. k /\ k \in 1 .. Len(nodes)
        /\ Blocks(value) \subseteq live
        /\ Holder(value) => Keeps(value, k, Q)
        /\ Len(nodes) \in Nat
    BY <1>1, <1>6 DEF Walking, Types
  <2>2. descend => nodes[value].allocated
    BY <2>1 DEF descend, Keeps
  <2>3. CASE /\ descend /\ nodes[value].allocated
             /\ nodes' = [nodes EXCEPT ![value].length = @ - 1]
             /\ value' = nodes[value].values[nodes[value].length]
             /\ UNCHANGED <<live, phase>>
    <3>1. Holder(value) /\ nodes[value].length > 0 /\ value \in 1 .. Len(nodes)
      BY <2>1, <2>3 DEF descend
    <3>2. /\ nodes' \in Seq(NodeType) /\ Len(nodes') = Len(nodes)
          /\ \A u \in 1 .. Len(nodes) :
               /\ Unlisted(nodes[u], nodes'[u])
               /\ nodes[u].length \in Nat
               /\ nodes'[u].length = IF u = value THEN nodes[u].length - 1 ELSE nodes[u].length
      BY <1>1, <2>3, <3>1, Descends
    <3>3. Types'
      BY <1>1, <3>2 DEF Types
    <3>4. RoomFits'
      <4> SUFFICES ASSUME NEW x \in live, x[1] = "values"
                   PROVE  LET n == nodes'[x[2]]
                          IN  x[2] \in 1 .. Len(nodes) /\
                              CASE n.type = "string" -> n.length < n.room
                                [] OTHER -> n.length <= n.room /\ n.name_bytes <= n.name_room
        BY <2>3, <3>2 DEF RoomFits
      <4>1. LET n == nodes[x[2]]
            IN  x[2] \in 1 .. Len(nodes) /\
                CASE n.type = "string" -> n.length < n.room
                  [] OTHER -> n.length <= n.room /\ n.name_bytes <= n.name_room
        BY <1>1 DEF RoomFits
      <4>2. PICK u \in 1 .. Len(nodes) : u = x[2]
        BY <4>1
      <4>3. /\ Unlisted(nodes[u], nodes'[u]) /\ nodes[u].length \in Nat
            /\ nodes'[u].length = IF u = value THEN nodes[u].length - 1 ELSE nodes[u].length
        BY <3>2
      <4>4. nodes[u].room \in Nat
        <5>1. nodes[u] \in NodeType
          BY <1>1 DEF Types
        <5> QED
          BY <5>1, NodeTypes
      <4>5. nodes'[u].length <= nodes[u].length /\ nodes'[u].length \in Int
        BY <4>3
      <4>6. /\ nodes[u].type = "string" => nodes[u].length < nodes[u].room
            /\ nodes[u].type # "string" =>
                 nodes[u].length <= nodes[u].room /\ nodes[u].name_bytes <= nodes[u].name_room
        BY <4>1, <4>2
      <4>7. /\ nodes'[u].type = nodes[u].type /\ nodes'[u].room = nodes[u].room
            /\ nodes'[u].name_room = nodes[u].name_room
            /\ nodes'[u].name_bytes = nodes[u].name_bytes
        BY <4>3 DEF Unlisted
      <4>8. /\ nodes[u].type = "string" => nodes'[u].length < nodes'[u].room
            /\ nodes[u].type # "string" => nodes'[u].length <= nodes'[u].room
        BY <4>3, <4>4, <4>5, <4>6, <4>7
      <4> QED
        BY <4>1, <4>2, <4>6, <4>7, <4>8
    <3>5. ASSUME NEW w, w = nodes[value].values[nodes[value].length] PROVE Freeing'
      <4>1. Walking(k, Q \cup {w})' /\ (Reached(k, Q) => Reached(k, Q \cup {w})')
        <5>1. UNCHANGED <<live, root>> /\ value' = w
          BY <1>1, <2>3, <3>5
        <5> QED
          BY <1>1, <1>6, <2>3, <3>1, <3>5, <5>1, WalkDescends
      <4>2. outcome' = "parsed" => Reached(k, Q \cup {w})'
        BY <1>1, <1>6, <4>1
      <4> QED
        BY <1>1, <1>3, <4>1, <4>2 DEF Freeing
    <3>6. Freeing'
      BY <3>5
    <3> QED
      BY <1>1, <2>3, <3>3, <3>4, <3>6 DEF JsonInv, FirstPass, SecondPass, Ended
  <2>4. CASE /\ ~descend /\ Blocks(value) \subseteq live
             /\ live' = live \ Blocks(value)
             /\ value' = (IF value = root THEN None ELSE nodes[value].parent)
             /\ phase' = (IF value = root THEN "freed" ELSE phase)
             /\ UNCHANGED nodes
    <3>1. Types' /\ RoomFits' /\ ~(Holder(value) /\ nodes[value].length > 0)
      BY <1>4, <2>4 DEF descend
    <3>2. CASE value = root
      <4>1. outcome = "parsed" => live' = {}
        <5>1. ASSUME outcome = "parsed" PROVE live' = {}
          BY <1>1, <1>6, <2>1, <2>4, <3>1, <3>2, <5>1, WalkEnds
        <5> QED
          BY <5>1
      <4> QED
        BY <1>1, <1>3, <2>4, <3>1, <3>2, <4>1 DEF JsonInv, FirstPass, SecondPass, Ended
    <3>3. CASE value # root
      <4>1. value # 1 /\ value' = nodes[value].parent /\ UNCHANGED <<nodes, root>>
        BY <1>1, <2>1, <2>4, <3>3
      <4>2. ASSUME NEW R, R = Q \ {value} PROVE Freeing'
        <5>1. Walking(k, R)' /\ (Reached(k, Q) => Reached(k, R)')
          BY <1>1, <1>6, <2>4, <3>1, <4>1, <4>2, WalkAscends
        <5>2. outcome' = "parsed" => Reached(k, R)'
          BY <1>1, <1>6, <5>1
        <5> QED
          BY <1>1, <1>3, <5>1, <5>2 DEF Freeing
      <4>3. Freeing'
        BY <4>2
      <4> QED
        BY <1>1, <2>4, <3>1, <3>3, <4>3 DEF JsonInv, FirstPass, SecondPass, Ended
    <3> QED
      BY <3>2, <3>3
  <2> QED
    BY <1>2, <2>1, <2>2, <2>3, <2>4
<1> QED
  BY <1>1, <1>5, <1>6 DEF Freeing

LEMMA StutteringKeeps ==
  ASSUME JsonInv, UNCHANGED vars
  PROVE  JsonInv'
<1>1. /\ UNCHANGED <<text, more, first_pass, ptr, flags, string_length, num_digits>>
      /\ UNCHANGED <<top, root, alloc, nodes, live, value, phase, outcome>>
      /\ UNCHANGED <<passVars, treeVars, endVars>> /\ Reads
  BY DEF vars, readVars, passVars, treeVars, endVars, Reads
<1>2. Types /\ FirstPass /\ SecondPass /\ Types'
  BY <1>1 DEF JsonInv, Types
<1>3. FirstPass'
  <2>1. CASE first_pass /\ phase = "parsing"
    BY <1>1, <1>2, <2>1, FirstReads
  <2>2. CASE ~(first_pass /\ phase = "parsing")
    BY <1>1, <2>2 DEF FirstPass
  <2> QED
    BY <2>1, <2>2
<1>4. SecondPass'
  <2>1. CASE ~first_pass /\ phase = "parsing"
    <3>1. PICK D, H, e : Returns(D, H, e)
      BY <1>2, <2>1 DEF SecondPass
    <3>2. Way(D, H, e)'
      BY <1>1, <1>2, <3>1, WayStays DEF Returns, Types
    <3>3. InState(H[ptr])' /\ Memory(H[ptr].seen, H[e])'
      BY <1>1, <3>1 DEF Returns, InState, Seen, Memory
    <3>4. Listed(H[ptr].seen, H[ptr].open)' /\ Lives(H[ptr].seen)'
      BY <1>1, <3>1 DEF Returns, Listed, Lives
    <3>5. Returns(D, H, e)'
      BY <1>1, <3>1, <3>2, <3>3, <3>4 DEF Returns
    <3>6. outcome' = "none" /\ more' = 0
      BY <1>1, <1>2, <2>1 DEF SecondPass
    <3> QED
      BY <3>5, <3>6 DEF SecondPass
  <2>2. CASE ~(~first_pass /\ phase = "parsing")
    BY <1>1, <2>2 DEF SecondPass
  <2> QED
    BY <2>1, <2>2
<1>5. phase = "failing" => (FirstFails \/ SecondFails)'
  <2>1. CASE phase = "failing" /\ FirstFails
    BY <1>1, <2>1 DEF FirstFails, Fresh
  <2>2. CASE phase = "failing" /\ SecondFails
    <3>1. ~first_pass /\ RoomFits /\ \E k \in Nat : Failed(k)
      BY <2>2 DEF SecondFails
    <3>2. RoomFits'
      BY <1>1, <3>1, RoomKept
    <3>3. \A k \in Nat : Failed(k) => Failed(k)'
      BY <1>1 DEF Failed, Parents, Lives, Listed, Holder
    <3> QED
      BY <1>1, <3>1, <3>2, <3>3 DEF SecondFails
  <2> QED
    BY <2>1, <2>2 DEF JsonInv
<1>6. phase = "parsed" => ~first_pass' /\ RoomFits' /\ Whole'
  <2> SUFFICES ASSUME phase = "parsed" PROVE ~first_pass' /\ RoomFits' /\ Whole'
    OBVIOUS
  <2>1. ~first_pass /\ RoomFits /\ Whole
    BY DEF JsonInv
  <2>2. RoomFits'
    BY <1>1, <2>1, RoomKept
  <2>3. Whole'
    BY <1>1, <2>1 DEF Whole, Listed, Parents, Lives
  <2> QED
    BY <1>1, <2>1, <2>2, <2>3
<1>7. phase = "freeing" => ~first_pass' /\ RoomFits' /\ Freeing'
  <2> SUFFICES ASSUME phase = "freeing" PROVE ~first_pass' /\ RoomFits' /\ Freeing'
    OBVIOUS
  <2>1. ~first_pass /\ RoomFits /\ Freeing
    BY DEF JsonInv
  <2>2. RoomFits'
    BY <1>1, <2>1, RoomKept
  <2>3. \A k, Q : Walking(k, Q) => Walking(k, Q)'
    BY <1>1 DEF Walking, Parents, Keeps, Blocks, Holder
  <2>4. \A k, Q : Reached(k, Q) => Reached(k, Q)'
    <3> SUFFICES ASSUME NEW k, NEW Q, Reached(k, Q) PROVE Reached(k, Q)'
      OBVIOUS
    <3>1. \A v : Blocks(v)' = Blocks(v) /\ (Hangs(v, Q) => Hangs(v, Q)')
      BY <1>1 DEF Blocks, Hangs, Holder
    <3>2. k = Len(nodes')
      BY <1>1 DEF Reached
    <3>3. ASSUME NEW x \in live'
          PROVE  \E v \in 1 .. k : x \in Blocks(v)' /\ <<"value", v>> \in live' /\ Hangs(v, Q)'
      <4>1. PICK v \in 1 .. k : x \in Blocks(v) /\ <<"value", v>> \in live /\ Hangs(v, Q)
        BY <1>1 DEF Reached
      <4> QED
        BY <1>1, <3>1, <4>1
    <3> QED
      BY <3>2, <3>3 DEF Reached
  <2>5. Freeing'
    BY <1>1, <2>1, <2>3, <2>4 DEF Freeing
  <2> QED
    BY <1>1, <2>1, <2>2, <2>5
<1>8. Ended'
  <2>1. Ended
    BY DEF JsonInv
  <2>2. RoomFits => RoomFits'
    BY <1>1, RoomKept
  <2> QED
    BY <1>1, <2>1, <2>2 DEF Ended
<1> QED
  BY <1>1, <1>2, <1>3, <1>4, <1>5, <1>6, <1>7, <1>8 DEF JsonInv

(* The invariant is inductive, *)
THEOREM JsonInvHolds == Spec => []JsonInv
<1>1. JsonInv /\ [Next]_vars => JsonInv'
  <2> SUFFICES ASSUME JsonInv, [Next]_vars PROVE JsonInv'
    OBVIOUS
  <2>1. CASE (\E c \in Chars : Supply(c)) \/ End
    BY <2>1, SuppliesKeep
  <2>2. CASE json_parse_ex
    BY <2>2, ParsesKeep
  <2>3. CASE e_failed
    BY <2>3, FailingKeeps
  <2>4. CASE json_value_free
    BY <2>4, FreeingStarts
  <2>5. CASE json_value_free_ex
    BY <2>5, FreeingKeeps
  <2>6. CASE UNCHANGED vars
    BY <2>6, StutteringKeeps
  <2> QED
    BY <2>1, <2>2, <2>3, <2>4, <2>5, <2>6 DEF Next, Step
<1> QED
  BY JsonStarts, <1>1, PTL DEF Spec

(* What the second pass writes stays within what the first has counted,    *)
(* and json_parse_ex has allocated, whatever the text: no value gets more  *)
(* children, no string more characters, no object more bytes of names.     *)
THEOREM SecondPassAlwaysFits == Spec => []SecondPassFits
<1>1. JsonInv => SecondPassFits
  <2> SUFFICES ASSUME JsonInv, ~first_pass PROVE SecondPassFits
    BY DEF SecondPassFits
  <2>1. RoomFits
    <3>1. CASE phase = "parsing"
      <4>1. PICK D, H, e : Returns(D, H, e)
        BY <3>1 DEF JsonInv, SecondPass
      <4> QED
        BY <4>1, SecondPassRoom DEF JsonInv
    <3>2. CASE phase # "parsing"
      BY <3>2 DEF JsonInv, FirstFails, SecondFails, Ended
    <3> QED
      BY <3>1, <3>2
  <2>2. ASSUME phase = "parsing", "string" \in flags
        PROVE  LET n == nodes[top]
               IN  /\ n.allocated
                   /\ CASE n.type = "string" -> string_length < n.room
                        [] OTHER -> n.name_bytes + string_length < n.name_room
    <3>1. PICK D, H, e : Returns(D, H, e)
      BY <2>2 DEF JsonInv, SecondPass
    <3> QED
      BY <2>2, <3>1, SecondPassRoom DEF JsonInv
  <2>3. ASSUME phase = "parsed", NEW v \in 1 .. Len(nodes), ~nodes[v].allocated
        PROVE  nodes[v].length = 0 /\ nodes[v].name_bytes = 0
    BY <2>3 DEF JsonInv, Whole
  <2>4. \A x \in live : x[1] = "values" =>
          LET n == nodes[x[2]]
          IN  CASE n.type = "string" -> n.length < n.room
                [] OTHER -> n.length <= n.room /\ n.name_bytes <= n.name_room
    BY <2>1 DEF RoomFits
  <2> QED
    BY <2>2, <2>3, <2>4 DEF SecondPassFits
<1> QED
  BY JsonInvHolds, <1>1, PTL

(* What the first pass of json_parse_ex accepts the second accepts: it     *)
(* needs the values the first has created, all of them and no more.        *)
THEOREM PassesAlwaysAgree == Spec => []PassesAgree
<1>1. JsonInv => PassesAgree
  <2> SUFFICES ASSUME JsonInv PROVE PassesAgree
    OBVIOUS
  <2>1. ASSUME ~first_pass, outcome = "text" PROVE FALSE
    <3>1. phase = "parsing" => outcome = "none"
      BY <2>1 DEF JsonInv, SecondPass
    <3>2. phase = "failing" => outcome = "memory"
      BY <2>1 DEF JsonInv, FirstFails, SecondFails, Failed
    <3>3. phase = "parsed" => outcome = "parsed"
      BY DEF JsonInv, Whole
    <3>4. phase = "freeing" => outcome \in {"parsed", "memory"}
      BY DEF JsonInv, Freeing
    <3> QED
      BY <2>1, <3>1, <3>2, <3>3, <3>4 DEF JsonInv, Ended
  <2>2. ASSUME phase = "crashed" PROVE outcome # "none"
    BY <2>2 DEF JsonInv, Ended
  <2>3. ASSUME ~first_pass, phase = "parsing", "done" \in flags PROVE alloc = None
    <3>1. PICK D, H, e : Returns(D, H, e)
      BY <2>3 DEF JsonInv, SecondPass
    <3> QED
      BY <2>3, <3>1, SecondPassRoom DEF JsonInv
  <2> QED
    BY <2>1, <2>2, <2>3 DEF PassesAgree
<1> QED
  BY JsonInvHolds, <1>1, PTL

(* json_value_free leaves nothing allocated, nor does json_parse_ex when   *)
(* it turns a text down in the first pass; and only when memory runs out   *)
(* in the second for what the root holds can freeing the tree crash.       *)
THEOREM AllIsFreed == Spec => []AllFreed
<1>1. JsonInv => AllFreed
  BY DEF JsonInv, Ended, AllFreed
<1> QED
  BY JsonInvHolds, <1>1, PTL

-----------------------------------------------------------------------------
(* The parser ends.                                                        *)

(* How far the parser has come: in the first pass, in the second, with its *)
(* result, freeing, ended.                                                 *)
Stage ==
  CASE phase = "parsing" -> IF first_pass THEN 4 ELSE 3
    [] phase \in {"failing", "parsed"} -> 2
    [] phase = "freeing" -> 1
    [] OTHER -> 0

(* The iterations that may follow without a character being read: a number *)
(* begins, becomes a double, ends.                                         *)
Pause ==
  IF {"string", "done"} \cap flags # {} THEN 0
  ELSE IF "seek_value" \in flags THEN IF "need_comma" \in flags THEN 0 ELSE 3
  ELSE IF nodes[top].type = "integer" THEN 2
  ELSE IF nodes[top].type = "double" THEN 1 ELSE 0

(* Within a stage, the text in front of the parser or the blocks to free,  *)
Distance ==
  CASE phase = "parsing" -> 4 * (Len(text) + more + 1 - ptr) + more + Pause
    [] phase = "freeing" -> Cardinality(live)
    [] OTHER -> 0

(* and between two blocks freed, the values further down.                  *)
Depth == IF phase = "freeing" THEN Len(nodes) - value ELSE 0

Progress ==
  \/ Stage' < Stage
  \/ Stage' = Stage /\ Distance' < Distance
  \/ Stage' = Stage /\ Distance' = Distance /\ Depth' < Depth

Bounded == Stage \in 0 .. 4 /\ Distance \in Nat /\ Depth \in Nat

LEMMA PauseType == Pause \in 0 .. 3 /\ Pause' \in 0 .. 3
  BY DEF Pause

LEMMA Nearer ==
  ASSUME NEW l \in Nat, NEW m \in Nat, NEW p \in Nat, NEW q \in Nat, NEW c \in 0 .. 3, NEW d \in 0 .. 3,
         q >= p + 1 \/ (q = p /\ d < c)
  PROVE  4 * (l + m + 1 - q) + m + d < 4 * (l + m + 1 - p) + m + c
  OBVIOUS

(* An iteration that goes on, *)
LEMMA GoesNearer ==
  ASSUME Types, phase = "parsing", UNCHANGED <<first_pass, phase, text, more>>, ptr' \in Nat,
         ptr' >= ptr + 1 \/ (ptr' = ptr /\ Pause' < Pause)
  PROVE  Progress
<1>1. Stage' = Stage
  BY DEF Stage
<1>2. /\ Len(text) \in Nat /\ more \in Nat /\ ptr \in Nat
      /\ Pause \in 0 .. 3 /\ Pause' \in 0 .. 3
  BY PauseType DEF Types
<1>3. /\ Distance = 4 * (Len(text) + more + 1 - ptr) + more + Pause
      /\ Distance' = 4 * (Len(text) + more + 1 - ptr') + more + Pause'
  BY DEF Distance
<1>4. Distance' < Distance
  BY <1>2, <1>3, Nearer
<1> QED
  BY <1>1, <1>4 DEF Progress

(* and one that is the last of its pass. *)
LEMMA StopsNearer ==
  ASSUME phase = "parsing",
         phase' \in {"failing", "parsed"} \/ (phase' = "parsing" /\ first_pass /\ ~first_pass')
  PROVE  Progress
  BY DEF Progress, Stage

LEMMA IterationNearer ==
  ASSUME NEW s, Types, WellShaped(s), InState(s), s.seen <= Len(nodes), Fits(s), json_parse_ex,
         ~first_pass /\ OpensNumber(s, b) => BehindNumber \in Nat /\ BehindNumber >= ptr + 1
  PROVE  Progress
<1>1. phase = "parsing" /\ ptr \in Nat
  BY DEF json_parse_ex, Reading, Types
<1>2. CASE Proceeds(s)
  <2>1. UNCHANGED <<first_pass, phase, text, more>>
    BY <1>2 DEF Proceeds, Goes
  <2>2. ptr' \in Nat /\ ptr' >= ptr + 1
    BY <1>1, <1>2 DEF Proceeds
  <2> QED
    BY <1>1, <2>1, <2>2, GoesNearer
<1>3. CASE Turned(s) \/ RunsOut(s)
  BY <1>1, <1>3, StopsNearer DEF Turned, RunsOut, Fail, AllocFailure, Stop
<1>4. CASE StartsNumber(s)
  <2>1. /\ OpensNumber(s, b) /\ UNCHANGED <<first_pass, phase, text, more>>
        /\ ptr' \in {ptr, ptr + 1} /\ Types' /\ first_pass /\ nodes' = Created("integer")
        /\ \E p \in {ptr} : InNumber(s, p)'
    BY <1>4 DEF StartsNumber
  <2>2. Pause = 3
    <3>1. "seek_value" \in s.flags /\ {"string", "done", "need_comma"} \cap s.flags = {}
      BY <2>1 DEF OpensNumber, Opens
    <3>2. "seek_value" \in flags /\ {"string", "done", "need_comma"} \cap flags = {}
      BY <3>1, PlainFlagsAgree DEF PlainFlags
    <3> QED
      BY <3>2 DEF Pause
  <2>3. Pause' < 3
    <3>1. s.flags \ {"seek_value"} = flags' \ NumberFlags
      BY <2>1 DEF InNumber
    <3>2. "seek_value" \notin flags'
      BY <3>1 DEF NumberFlags
    <3> QED
      BY <3>2 DEF Pause
  <2> QED
    BY <1>1, <2>1, <2>2, <2>3, GoesNearer
<1>5. CASE PassEnds
  BY <1>1, <1>5, StopsNearer DEF PassEnds, Continues
<1> QED
  BY <1>2, <1>3, <1>4, <1>5, IterationProceeds

LEMMA NumberNearer ==
  ASSUME Types, NEW s, NEW p, WellShaped(s), InNumber(s, p), json_parse_ex
  PROVE  Progress
<1>1. /\ top \in 1 .. Len(nodes) /\ nodes[top] \in NodeType
      /\ nodes[top].type \in {"integer", "double"}
      /\ {"string", "done", "seek_value", "need_comma"} \cap flags = {}
      /\ ptr \in Nat /\ nodes \in Seq(NodeType)
  BY InNumberFacts DEF Types
<1>2. phase = "parsing" /\ UNCHANGED <<text, more>>
  BY DEF json_parse_ex, Reading, readVars
<1>3. NumberChar /\ UNCHANGED first_pass
  <2>1. ~Done /\ ~StringChar /\ ~SeekValue
    BY <1>1 DEF Done, StringChar, SeekValue
  <2>2. ~ObjectChar
    BY <1>1 DEF ObjectChar, Inside
  <2> QED
    BY <2>1, <2>2 DEF json_parse_ex
<1>4. ASSUME Fail PROVE Progress
  BY <1>2, <1>4, StopsNearer DEF Fail, Stop
<1>5. ASSUME NEW fl, NEW digits, NEW ns, NumberStep(fl, digits, ptr + 1, ns) PROVE Progress
  <2>1. ptr' = ptr + 1 /\ UNCHANGED phase
    BY <1>5 DEF NumberStep, Continues
  <2> QED
    BY <1>1, <1>2, <1>3, <2>1, GoesNearer
<1>6. ASSUME NEW zero \in SUBSET {"num_zero"},
             NumberStep(flags \cup zero, num_digits, ptr, AfterOverflow),
             nodes[top].type # "double"
      PROVE  Progress
  <2>1. /\ flags' = flags \cup zero /\ ptr' = ptr /\ UNCHANGED <<phase, top>>
        /\ nodes' = [nodes EXCEPT ![top].type = "double"]
    BY <1>6 DEF NumberStep, Continues, AfterOverflow
  <2>2. Pause = 2
    BY <1>1, <1>6 DEF Pause
  <2>3. nodes'[top'].type = "double"
    <3>1. nodes' = [nodes EXCEPT ![top] = WithType(@, "double")]
      BY <2>1 DEF WithType
    <3>2. nodes'[top'] = WithType(nodes[top], "double")
      BY <1>1, <2>1, <3>1
    <3>3. WithType(nodes[top], "double").type = "double"
      BY <1>1 DEF WithType, NodeType
    <3> QED
      BY <3>2, <3>3
  <2>4. Pause' = 1
    BY <1>1, <2>1, <2>3 DEF Pause
  <2> QED
    BY <1>1, <1>2, <1>3, <2>1, <2>2, <2>4, GoesNearer
<1>7. ASSUME NumberEnds PROVE Progress
  <2>1. /\ ptr' = ptr /\ UNCHANGED phase
        /\ "need_comma" \in flags' /\ "string" \notin flags'
        /\ {"done", "seek_value"} \cap flags' = {} => nodes'[top'].type = "object"
    BY <1>7, NumberTells
  <2>2. Pause \in {1, 2}
    BY <1>1 DEF Pause
  <2>3. Pause' = 0
    BY <2>1 DEF Pause
  <2> QED
    BY <1>1, <1>2, <1>3, <2>1, <2>2, <2>3, GoesNearer
<1>8. CASE b \in Digits
  <2> DEFINE n == num_digits + 1
             zero == {f \in {"num_zero"} : n = 1 /\ b = "0"}
  <2>1. Digit
    BY <1>3, <1>8 DEF NumberChar
  <2> HIDE DEF n
  <2>2. \/ NumberStep(flags, n, ptr + 1, nodes)
        \/ NumberStep(flags \cup {"num_e_got_sign"}, n, ptr + 1, nodes)
        \/ /\ NumberStep(flags \cup zero, num_digits, ptr, AfterOverflow)
           /\ nodes[top].type # "double"
        \/ NumberStep(flags \cup zero, n, ptr + 1, nodes)
        \/ Fail
    BY <2>1 DEF Digit, n
  <2>3. zero \in SUBSET {"num_zero"}
    OBVIOUS
  <2> HIDE DEF zero
  <2> QED
    BY <1>4, <1>5, <1>6, <2>2, <2>3
<1>9. CASE b \notin Digits
  <2> DEFINE asDouble == [nodes EXCEPT ![top].type = "double"]
  <2>1. \/ NumberStep(flags \cup {"num_e_got_sign"}, num_digits, ptr + 1, nodes)
        \/ NumberStep(flags, 0, ptr + 1, asDouble)
        \/ NumberStep((flags \cup {"num_e"}) \ {"num_zero"}, 0, ptr + 1, asDouble)
        \/ NumberEnds
        \/ Fail
    BY <1>3, <1>9 DEF NumberChar
  <2> HIDE DEF asDouble
  <2> QED
    BY <1>4, <1>5, <1>7, <2>1
<1> QED
  BY <1>8, <1>9

LEMMA ParsingAdvances ==
  ASSUME JsonInv, json_parse_ex
  PROVE  Progress
<1>1. /\ phase = "parsing" /\ Types /\ FirstPass /\ SecondPass /\ UNCHANGED <<text, more>>
      /\ nodes \in Seq(NodeType) /\ ptr \in Nat
  BY DEF JsonInv, json_parse_ex, Reading, readVars, Types
<1>2. CASE first_pass
  <2>1. Travels
    BY <1>1, <1>2 DEF FirstPass
  <2>2. CASE \E D, H : Way(D, H, ptr) /\ InState(H[ptr])
    <3>1. PICK D, H : Way(D, H, ptr) /\ InState(H[ptr])
      BY <2>2
    <3>2. ASSUME NEW s, s = H[ptr] PROVE Progress
      <4>1. WellShaped(s) /\ InState(s)
        BY <3>1, <3>2 DEF Way
      <4>2. s.seen <= Len(nodes) /\ Fits(s)
        BY <1>1, <1>2, <4>1 DEF InState, Seen, Fits
      <4> QED
        BY <1>1, <1>2, <4>1, <4>2, IterationNearer
    <3> QED
      BY <3>2
  <2>3. CASE \E D, H : \E p \in D : Way(D, H, p) /\ InNumber(H[p], p)
    <3>1. PICK D, H : \E p \in D : Way(D, H, p) /\ InNumber(H[p], p)
      BY <2>3
    <3>2. PICK p \in D : Way(D, H, p) /\ InNumber(H[p], p)
      BY <3>1
    <3>3. WellShaped(H[p])
      BY <3>2 DEF Way
    <3> QED
      BY <1>1, <3>2, <3>3, NumberNearer
  <2>4. CASE Doomed
    BY <1>1, <2>4, DoomedFails, StopsNearer DEF Fail, Stop
  <2> QED
    BY <2>1, <2>2, <2>3, <2>4 DEF Travels
<1>3. CASE ~first_pass
  <2>1. PICK D, H, e : Returns(D, H, e)
    BY <1>1, <1>3 DEF SecondPass
  <2>2. CASE ptr = e
    BY <1>1, <1>3, <2>1, <2>2, SecondEnds, StopsNearer
  <2>3. CASE ptr # e
    <3>1. ASSUME NEW s, s = H[ptr] PROVE Progress
      <4>1. WellShaped(s) /\ InState(s)
        BY <2>1, <3>1 DEF Returns, Way
      <4>2. /\ s.seen <= Len(nodes) /\ Fits(s)
            /\ \E q \in D : q = IF OpensNumber(s, b) THEN BehindNumber ELSE ptr + 1
        BY <1>1, <1>3, <2>1, <2>3, <3>1, SecondFits
      <4>3. OpensNumber(s, b) => BehindNumber \in Nat /\ BehindNumber >= ptr + 1
        <5>1. PICK q \in D : Leads(s, H[q], ptr, q)
          BY <2>1, <2>3, <3>1 DEF Returns, Way
        <5>2. q \in Nat /\ ptr < q /\ ptr <= Len(text) /\ b = text[ptr]
          BY <2>1, <5>1 DEF Returns, Way, Leads, b
        <5>3. OpensNumber(s, b) => NumberAt(ptr, q)
          BY <5>1, <5>2 DEF Leads
        <5> QED
          BY <1>1, <5>2, <5>3, NumberBehind
      <4> QED
        BY <1>1, <4>1, <4>2, <4>3, IterationNearer
    <3> QED
      BY <3>1
  <2> QED
    BY <2>2, <2>3
<1> QED
  BY <1>2, <1>3

LEMMA SuppliesNearer ==
  ASSUME JsonInv, (\E c \in Chars : Supply(c)) \/ End
  PROVE  Progress
<1>1. /\ phase = "parsing" /\ Types /\ FirstPass /\ SecondPass /\ more \in Nat /\ more > 0
      /\ UNCHANGED <<phase, first_pass, ptr, flags, top, nodes>>
  BY DEF JsonInv, Supply, End, AtEnd, Types, passVars, treeVars, endVars
<1>2. first_pass /\ ptr \in Nat /\ Len(text) \in Nat
  BY <1>1 DEF SecondPass, Types
<1>3. Stage' = Stage /\ Pause' = Pause /\ Pause \in 0 .. 3
  BY <1>1, PauseType DEF Stage, Pause
<1>4. /\ Distance = 4 * (Len(text) + more + 1 - ptr) + more + Pause
      /\ Distance' = 4 * (Len(text') + more' + 1 - ptr) + more' + Pause
  BY <1>1, <1>3 DEF Distance
<1>5. \/ Len(text') = Len(text) + 1 /\ more' = more - 1
      \/ text' = text /\ more' = 0
  <2>1. ASSUME NEW c \in Chars, Supply(c) PROVE Len(text') = Len(text) + 1 /\ more' = more - 1
    BY <1>1, <2>1 DEF Supply, Types
  <2>2. ASSUME End PROVE text' = text /\ more' = 0
    BY <2>2 DEF End
  <2> QED
    BY <2>1, <2>2
<1>6. Distance' < Distance
  <2>1. CASE Len(text') = Len(text) + 1 /\ more' = more - 1
    <3>1. Len(text') + more' = Len(text) + more
      BY <1>1, <1>2, <2>1
    <3>2. Distance' = Distance - 1
      BY <1>1, <1>2, <1>3, <1>4, <2>1, <3>1
    <3>3. Distance \in Int
      BY <1>1, <1>2, <1>3, <1>4
    <3> QED
      BY <3>2, <3>3
  <2>2. CASE text' = text /\ more' = 0
    <3>1. Distance' = Distance - 5 * more
      BY <1>1, <1>2, <1>3, <1>4, <2>2
    <3>2. Distance \in Int
      BY <1>1, <1>2, <1>3, <1>4
    <3> QED
      BY <1>1, <3>1, <3>2
  <2> QED
    BY <1>5, <2>1, <2>2
<1> QED
  BY <1>3, <1>6 DEF Progress

(* Only so many blocks are allocated, *)
LEMMA LivesFinite ==
  ASSUME Types, NEW n \in 0 .. Len(nodes), Lives(n)
  PROVE  IsFiniteSet(live)
<1> DEFINE V == {<<"value", v>> : v \in 1 .. Len(nodes)}
           A == {w \in 1 .. n : nodes[w].allocated}
           W == {<<"values", v>> : v \in A}
           f == [v \in 1 .. Len(nodes) |-> <<"value", v>>]
           g == [v \in A |-> <<"values", v>>]
<1>1. Len(nodes) \in Nat /\ n \in Nat
  BY DEF Types
<1>2. IsFiniteSet(1 .. Len(nodes)) /\ IsFiniteSet(1 .. n)
  BY <1>1, FS_Interval
<1>3. IsFiniteSet(A)
  <2>1. A \in SUBSET (1 .. n)
    OBVIOUS
  <2> HIDE DEF A
  <2> QED
    BY <1>2, <2>1, FS_Subset
<1>4. IsFiniteSet(V)
  <2>1. f \in Surjection(1 .. Len(nodes), V)
    BY DEF Surjection
  <2> HIDE DEF f, V
  <2> QED
    BY <1>2, <2>1, FS_Surjection
<1>5. IsFiniteSet(W)
  <2>1. g \in Surjection(A, W)
    BY DEF Surjection
  <2> HIDE DEF g, A, W
  <2> QED
    BY <1>3, <2>1, FS_Surjection
<1>6. live = V \cup W
  BY DEF Lives
<1> HIDE DEF V, W
<1> QED
  BY <1>4, <1>5, <1>6, FS_Union

(* and the loop that frees them is at one of the values. *)
FreeingInv == phase = "freeing" => IsFiniteSet(live) /\ value \in 1 .. Len(nodes)

LEMMA FailingNearer ==
  ASSUME JsonInv, e_failed
  PROVE  Progress /\ FreeingInv'
<1>1. /\ phase = "failing" /\ Types /\ (FirstFails \/ SecondFails) /\ live' \subseteq live
      /\ UNCHANGED <<nodes, first_pass>>
      /\ \/ phase' = "rejected"
         \/ phase' = "freeing" /\ value' = root /\ ~first_pass
  BY DEF e_failed, JsonInv, passVars
<1>2. Progress
  BY <1>1 DEF Progress, Stage
<1>3. ASSUME phase' = "freeing" PROVE IsFiniteSet(live') /\ value' \in 1 .. Len(nodes')
  <2>1. ~first_pass /\ value' = root
    BY <1>1, <1>3
  <2>2. PICK k \in Nat : Failed(k)
    BY <1>1, <2>1 DEF FirstFails, SecondFails
  <2>3. root = 1 /\ Lives(k) /\ k \in 0 .. Len(nodes) - 1 /\ Len(nodes) \in Nat
    BY <1>1, <2>2 DEF Failed, Types
  <2>4. k \in 0 .. Len(nodes) /\ 1 \in 1 .. Len(nodes)
    BY <2>3
  <2>5. IsFiniteSet(live)
    BY <1>1, <2>3, <2>4, LivesFinite
  <2> QED
    BY <1>1, <2>1, <2>3, <2>4, <2>5, FS_Subset
<1> QED
  BY <1>2, <1>3 DEF FreeingInv

LEMMA FreeingNears ==
  ASSUME JsonInv, json_value_free
  PROVE  Progress /\ FreeingInv'
<1>1. /\ phase = "parsed" /\ phase' = "freeing" /\ value' = root /\ Types /\ Whole
      /\ UNCHANGED <<nodes, live>>
  BY DEF json_value_free, JsonInv, treeVars
<1>2. Progress
  BY <1>1 DEF Progress, Stage
<1>3. root = 1 /\ Lives(Len(nodes)) /\ Len(nodes) \in Nat /\ Len(nodes) >= 1
  BY <1>1 DEF Whole, Types
<1>4. IsFiniteSet(live)
  <2>1. Len(nodes) \in 0 .. Len(nodes)
    BY <1>3
  <2> QED
    BY <1>1, <1>3, <2>1, LivesFinite
<1> QED
  BY <1>1, <1>2, <1>3, <1>4 DEF FreeingInv

LEMMA FreeingNearer ==
  ASSUME JsonInv, FreeingInv, json_value_free_ex
  PROVE  Progress /\ FreeingInv'
<1> DEFINE descend == Holder(value) /\ nodes[value].length > 0
<1>1. /\ phase = "freeing" /\ Types /\ Freeing /\ UNCHANGED root
      /\ IsFiniteSet(live) /\ value \in 1 .. Len(nodes) /\ Len(nodes) \in Nat
  BY DEF json_value_free_ex, JsonInv, FreeingInv, Types
<1>2. \/ /\ descend /\ nodes[value].allocated
         /\ nodes' = [nodes EXCEPT ![value].length = @ - 1]
         /\ value' = nodes[value].values[nodes[value].length]
         /\ UNCHANGED <<live, phase>>
      \/ /\ ~descend /\ Blocks(value) \subseteq live
         /\ live' = live \ Blocks(value)
         /\ value' = (IF value = root THEN None ELSE nodes[value].parent)
         /\ phase' = (IF value = root THEN "freed" ELSE phase)
         /\ UNCHANGED nodes
      \/ /\ IF descend THEN ~nodes[value].allocated ELSE ~(Blocks(value) \subseteq live)
         /\ phase' = "crashed"
         /\ UNCHANGED <<nodes, live, value>>
  BY DEF json_value_free_ex, Holder
<1>3. ASSUME phase' \in {"freed", "crashed"} PROVE Progress /\ FreeingInv'
  BY <1>1, <1>3 DEF Progress, Stage, FreeingInv
<1> HIDE DEF descend
<1>4. CASE outcome = "memory" /\ root = 1 /\ value = 1 /\ ~nodes[1].allocated
  BY <1>2, <1>3, <1>4
<1>5. ASSUME NEW k, NEW Q, Walking(k, Q) PROVE Progress /\ FreeingInv'
  <2>1. /\ root = 1 /\ value \in 1 .. k /\ k \in 1 .. Len(nodes) /\ Parents(k)
        /\ Holder(value) => Keeps(value, k, Q)
        /\ Blocks(value) \subseteq live
    BY <1>5 DEF Walking
  <2>2. CASE /\ descend
             /\ nodes' = [nodes EXCEPT ![value].length = @ - 1]
             /\ value' = nodes[value].values[nodes[value].length]
             /\ UNCHANGED <<live, phase>>
    <3>1. /\ Holder(value) /\ nodes[value].length > 0 /\ nodes[value].length \in Nat
          /\ Len(nodes') = Len(nodes)
      BY <1>1, <2>2, Descends DEF descend
    <3>2. /\ Len(nodes[value].values) \in Nat
          /\ nodes[value].length \in 1 .. Len(nodes[value].values)
      <4>1. nodes[value].length <= Len(nodes[value].values)
        BY <2>1, <3>1 DEF Keeps
      <4>2. nodes[value] \in NodeType
        BY <1>1 DEF Types
      <4>3. nodes[value].values \in Seq(Nat)
        BY <4>2 DEF NodeType
      <4> QED
        BY <3>1, <4>1, <4>3
    <3>3. value' \in 1 .. k /\ nodes[value'].parent = value
      BY <2>1, <2>2, <3>1, <3>2 DEF Keeps
    <3>4. value < value'
      <4>1. PICK w \in 1 .. k : w = value'
        BY <3>3
      <4>2. IF w = 1 THEN value = None ELSE value \in 1 .. w - 1
        BY <2>1, <3>3, <4>1 DEF Parents, Tree
      <4>3. value \in Nat /\ value # None
        BY <1>1 DEF None
      <4>4. value < w
        BY <4>2, <4>3
      <4> QED
        BY <4>1, <4>4
    <3>5. value' \in 1 .. Len(nodes) /\ phase' = "freeing"
      BY <1>1, <2>1, <2>2, <3>3
    <3>6. Stage' = Stage /\ Distance' = Distance
      BY <1>1, <2>2 DEF Stage, Distance
    <3>7. Depth' < Depth
      <4>1. Depth = Len(nodes) - value /\ Depth' = Len(nodes) - value'
        BY <1>1, <3>1, <3>5 DEF Depth
      <4> QED
        BY <1>1, <3>4, <3>5, <4>1
    <3> QED
      BY <1>1, <2>2, <3>1, <3>5, <3>6, <3>7 DEF Progress, FreeingInv
  <2>3. CASE /\ live' = live \ Blocks(value) /\ value # root
             /\ value' = nodes[value].parent /\ UNCHANGED <<nodes, phase>>
    <3>1. /\ IsFiniteSet(live') /\ Cardinality(live') < Cardinality(live)
      <4>1. live' \in SUBSET live
        BY <2>3
      <4>2. live' # live
        <5>1. <<"value", value>> \in Blocks(value)
          BY DEF Blocks
        <5> QED
          BY <2>1, <2>3, <5>1
      <4>3. /\ IsFiniteSet(live') /\ Cardinality(live') <= Cardinality(live)
            /\ Cardinality(live') # Cardinality(live)
        BY <1>1, <4>1, <4>2, FS_Subset
      <4>4. Cardinality(live) \in Nat /\ Cardinality(live') \in Nat
        BY <1>1, <4>3, FS_CardinalityType
      <4> QED
        BY <4>3, <4>4
    <3>2. value' \in 1 .. Len(nodes)
      <4>1. value' \in 1 .. value - 1
        BY <2>1, <2>3 DEF Parents, Tree
      <4> QED
        BY <1>1, <4>1
    <3>3. Stage' = Stage /\ Distance' < Distance
      <4>1. Distance = Cardinality(live) /\ Distance' = Cardinality(live')
        BY <1>1, <2>3 DEF Distance
      <4> QED
        BY <1>1, <2>3, <3>1, <4>1 DEF Stage
    <3> QED
      BY <2>3, <3>1, <3>2, <3>3 DEF Progress, FreeingInv
  <2> QED
    BY <1>2, <1>3, <2>2, <2>3
<1> QED
  BY <1>1, <1>4, <1>5 DEF Freeing

LEMMA StaysBounded ==
  ASSUME JsonInv, FreeingInv
  PROVE  Bounded
<1>1. Types /\ FirstPass /\ SecondPass
  BY DEF JsonInv
<1>2. CASE phase = "parsing"
  <2>1. /\ Len(text) \in Nat /\ more \in Nat /\ ptr \in Nat /\ Pause \in 0 .. 3
    BY <1>1, PauseType DEF Types
  <2>2. ptr <= Len(text) + 1
    <3>1. CASE first_pass
      BY <1>1, <1>2, <2>1, <3>1 DEF FirstPass
    <3>2. CASE ~first_pass
      <4>1. PICK D, H, e : Returns(D, H, e)
        BY <1>1, <1>2, <3>2 DEF SecondPass
      <4>2. ptr \in D /\ D \subseteq 1 .. e /\ e = Len(text) + 1
        BY <4>1 DEF Returns, Way
      <4> QED
        BY <2>1, <4>2
    <3> QED
      BY <3>1, <3>2
  <2>3. Distance = 4 * (Len(text) + more + 1 - ptr) + more + Pause /\ Depth = 0
    BY <1>2 DEF Distance, Depth
  <2>4. Distance \in Nat
    BY <2>1, <2>2, <2>3
  <2> QED
    BY <2>3, <2>4, <1>2 DEF Bounded, Stage
<1>3. CASE phase = "freeing"
  <2>1. Distance = Cardinality(live) /\ Depth = Len(nodes) - value
    BY <1>3 DEF Distance, Depth
  <2>2. Cardinality(live) \in Nat /\ value \in 1 .. Len(nodes) /\ Len(nodes) \in Nat
    BY <1>1, <1>3, FS_CardinalityType DEF FreeingInv, Types
  <2> QED
    BY <1>3, <2>1, <2>2 DEF Bounded, Stage
<1>4. CASE phase \notin {"parsing", "freeing"}
  BY <1>4 DEF Bounded, Stage, Distance, Depth
<1> QED
  BY <1>2, <1>3, <1>4

(* json_parse_ex and json_value_free_ex end: whatever the text, every step *)
(* comes nearer to the end, by the passes still to be made, then by the    *)
(* characters still to be read or the blocks still to be freed.  A         *)
(* character takes no more than four iterations.                           *)
THEOREM ParserAlwaysAdvances == Spec => []Bounded /\ [][Progress]_vars
<1>1. Init => FreeingInv
  BY DEF Init, FreeingInv
<1>2. JsonInv /\ FreeingInv /\ [Next]_vars => FreeingInv' /\ [Progress]_vars
  <2> SUFFICES ASSUME JsonInv, FreeingInv, [Next]_vars PROVE FreeingInv' /\ [Progress]_vars
    OBVIOUS
  <2>1. CASE (\E c \in Chars : Supply(c)) \/ End
    <3>1. phase' # "freeing"
      BY <2>1 DEF Supply, End, AtEnd, endVars
    <3> QED
      BY <2>1, <3>1, SuppliesNearer DEF FreeingInv
  <2>2. CASE json_parse_ex
    <3>1. JsonInv' /\ phase' # "freeing"
      <4>1. phase = "parsing" /\ Types /\ FirstPass /\ SecondPass
        BY <2>2 DEF json_parse_ex, Reading, JsonInv
      <4> QED
        BY <2>2, <4>1, FirstParses, SecondParses, ParsesKeep
    <3> QED
      BY <2>2, <3>1, ParsingAdvances DEF FreeingInv
  <2>3. CASE e_failed
    BY <2>3, FailingNearer
  <2>4. CASE json_value_free
    BY <2>4, FreeingNears
  <2>5. CASE json_value_free_ex
    BY <2>5, FreeingNearer
  <2>6. CASE UNCHANGED vars
    BY <2>6 DEF FreeingInv, vars, treeVars, endVars
  <2> QED
    BY <2>1, <2>2, <2>3, <2>4, <2>5, <2>6 DEF Next, Step
<1>3. JsonInv /\ FreeingInv => Bounded
  BY StaysBounded
<1> QED
  BY JsonInvHolds, <1>1, <1>2, <1>3, PTL DEF Spec

=============================================================================
