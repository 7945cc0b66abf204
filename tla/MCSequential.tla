---------------------------- MODULE MCSequential ----------------------------
(* A small instance of Sequential. *)
EXTENDS Sequential

(* Options of the parser without, with one, two and any number of values; and  *)
(* lines that name an option again, or end with their placeholder.             *)
Line(names, words, tail) == [names |-> names, words |-> words, tail |-> tail]
V == "value"
SomeDeclarations ==
  { << Line({"v"}, <<>>, FALSE), Line({"c", "p"}, <<V, V>>, TRUE),
       Line({"f"}, <<V, "dots">>, TRUE), Line({"?"}, <<>>, TRUE) >>,
    << Line({"c", "f"}, <<V, V>>, FALSE), Line({"v", "p", "f"}, <<V>>, TRUE),
       Line({"?"}, <<V>>, FALSE) >> }

Word(w) == [opt |-> FALSE, name |-> NoVal, val |-> w]
Given(name, val) == [opt |-> TRUE, name |-> name, val |-> val]
SomeTokens ==
  {Word("x"), Word("y"), Given("p", "x"), Given("u", NoVal)}
    \cup {Given(name, NoVal) : name \in {"c", "f", "?"}}
    \cup {Given("v", val) : val \in {NoVal, "y"}}

\* Strings for MD5 as long as words and blocks are, and one byte more or less: in
\* ASCII, with a char of 128 or more at the end of each word, and in front of it.
Lengths == {0, 1, 3, 4, 5, 54, 55, 56, 57, 63, 64, 65, 119, 120}
SomeStrings ==
  {[j \in 1..len |-> 96 + (j % 26)] : len \in Lengths}
    \cup {[j \in 1..len |-> IF j % 4 = 0 THEN 200 ELSE 65] : len \in {4, 56, 64}}
    \cup {[j \in 1..len |-> IF j % 4 = 3 THEN 200 ELSE 65] : len \in {3, 4}}

\* Counts for close on both sides of what an int of 3 bits holds.
AroundInt == -9 .. 9
=============================================================================
