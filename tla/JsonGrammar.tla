---------------------------- MODULE JsonGrammar ----------------------------
(***************************************************************************)
(* The grammar of JSON (RFC 8259), read by descent, with the liberties the *)
(* parser of src/json.c takes: a comma may stand before ] and }, the minus *)
(* sign alone is a number, and an integer too large for 64 bits has no     *)
(* fraction.  Only the length of a string counts.                          *)
(***************************************************************************)
EXTENDS JsonParser

(* A tree: its type, the length of a string, and what a container holds.   *)
Leaf(type, length) == [type |-> type, length |-> length, values |-> <<>>, names |-> <<>>]
Branch(type, values, names) ==
  [type |-> type, length |-> 0, values |-> values, names |-> names]

At(i) == IF i <= Len(text) THEN text[i] ELSE "eof"

(* Where the blanks from i on may be left: behind all of them.             *)
RECURSIVE Skip(_)
Skip(i) == IF At(i) = " " THEN Skip(i + 1) ELSE i

(* Ends of the runs of characters of S that begin at i. *)
RunEnds(i, S) ==
  {k \in i .. Len(text) + 1 : \A j \in i .. k - 1 : text[j] \in S}

Exponents(i) ==
  IF At(i) # "e" THEN {}
  ELSE LET first == IF At(i + 1) \in {"+", "-"} THEN i + 2 ELSE i + 1
       IN  RunEnds(first, Digits) \ {first}

Fractions(i) == IF At(i) = "." THEN RunEnds(i + 1, Digits) \ {i + 1} ELSE {}

Numbers(i) ==
  LET first  == IF At(i) = "-" THEN i + 1 ELSE i
      wholes == {k \in RunEnds(first, Digits) :
                   /\ k = first => At(i) = "-"
                   /\ At(first) = "0" => k <= first + 1}
      Large(k) == k - first > MaxDigits
      fractions == UNION {Fractions(k) : k \in {w \in wholes : w > first /\ ~Large(w)}}
      powers == UNION {Exponents(k) : k \in wholes \cup fractions}
  IN  {<<Leaf(IF Large(k) THEN "double" ELSE "integer", 0), k>> : k \in wholes}
        \cup {<<Leaf("double", 0), k>> : k \in fractions \cup powers}

(* The end of a string whose contents begin at i, and its length.          *)
RECURSIVE StringFrom(_, _)
StringFrom(i, length) ==
  CASE At(i) = "quote" -> {<<length, i + 1>>}
    [] At(i) = "eof" -> {}
    [] At(i) = "backslash" ->
         CASE At(i + 1) = "uXXXX" -> StringFrom(i + 2, length + 3)
           [] At(i + 1) \in {"u?", "eof"} -> {}
           [] OTHER -> StringFrom(i + 2, length + 1)
    [] OTHER -> StringFrom(i + 1, length + 1)

Strings(i) == IF At(i) = "quote" THEN StringFrom(i + 1, 0) ELSE {}

RECURSIVE Values(_), Elements(_, _), Members(_, _, _)

(* What may stand from i on, each with the place behind it.                *)
Values(i) ==
  CASE At(i) \in Words -> {<<Leaf("word", 0), i + 1>>}
    [] At(i) = "quote" -> {<<Leaf("string", s[1]), s[2]>> : s \in Strings(i)}
    [] At(i) = "[" -> Elements(i + 1, <<>>)
    [] At(i) = "{" -> Members(i + 1, <<>>, <<>>)
    [] At(i) \in Digits \cup {"-"} -> Numbers(i)
    [] OTHER -> {}

(* The rest of an array of which values have been read. *)
Elements(i, values) ==
  LET j == Skip(i)
  IN  IF At(j) = "]" THEN {<<Branch("array", values, <<>>), j + 1>>}
      ELSE UNION {LET k == Skip(v[2]) IN
                    IF At(k) = "," THEN Elements(k + 1, Append(values, v[1]))
                    ELSE IF At(k) = "]"
                    THEN {<<Branch("array", Append(values, v[1]), <<>>), k + 1>>}
                    ELSE {} : v \in Values(j)}

Members(i, values, names) ==
  LET j == Skip(i)
      After(n, v) ==
        LET k  == Skip(v[2])
            vs == Append(values, v[1])
            ns == Append(names, n)
        IN  IF At(k) = "," THEN Members(k + 1, vs, ns)
            ELSE IF At(k) = "}" THEN {<<Branch("object", vs, ns), k + 1>>}
            ELSE {}
  IN  IF At(j) = "}" THEN {<<Branch("object", values, names), j + 1>>}
      ELSE UNION {LET colon == Skip(s[2]) IN
                    IF At(colon) # ":" THEN {}
                    ELSE UNION {After(s[1], v) : v \in Values(Skip(colon + 1))}
                  : s \in Strings(j)}

(* What the whole text may mean. *)
Readings ==
  {v[1] : v \in {w \in Values(Skip(1)) : Skip(w[2]) = Len(text) + 1}}

-----------------------------------------------------------------------------
(* The tree the parser has built below value v. *)
RECURSIVE Tree(_)
Tree(v) ==
  LET n == nodes[v] IN
  [type |-> n.type, names |-> n.names,
   length |-> IF n.type = "string" THEN n.length ELSE 0,
   values |-> [i \in 1 .. Len(n.values) |-> Tree(n.values[i])]]

(* The parser and the grammar agree: the tree handed to the caller is the  *)
(* one the grammar reads, and a text that is turned down has no reading.   *)
(* What goes wrong in an array cannot be made good by what follows, so the *)
(* text may still go on when it is turned down.                            *)
ParsesTheGrammar ==
  /\ phase = "parsed" => Readings = {Tree(root)}
  /\ phase = "failing" /\ outcome = "text" => Readings = {}

(* Every text comes to an end, parsed and freed or turned down. *)
Terminates == <>(phase \in {"freed", "rejected", "crashed"})
=============================================================================
