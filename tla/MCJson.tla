------------------------------- MODULE MCJson -------------------------------
(* Texts over a character of each kind the parser tells apart, some of     *)
(* them going on from where it takes many characters to get.               *)
EXTENDS JsonGrammar

MCChars == {"{", "}", "[", "]", ":", ",", "quote", "1", "0", ".", "e", "-", "true",
            "backslash", "uXXXX", "u?", " "}

MCBeginnings ==
  {<<>>,
   <<"{", "quote", "uXXXX", "quote", ":", "1", ",", "quote">>,
   <<"{", "quote", "quote", ":", "1", "quote", "quote">>,
   <<"[", "[", "1", "]", ",", "{", "}">>,
   <<"[", "quote", "true", "backslash">>,
   <<"[", "1", "0">>,
   <<"[", "-", "1", ".", "0">>}
=============================================================================
