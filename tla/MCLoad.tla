------------------------------- MODULE MCLoad -------------------------------
(* A small instance of Load for TLC: every mode of demo_main.json, with no, one and two
   calls a round, and config strings that are short or no numbers. *)
EXTENDS Load

SmallConfigs ==
  {<<1, 2>>, <<1, 1>>, <<1, -1>>, <<2, 2>>, <<0, 1>>, <<>>, <<1>>, <<3, 1>>}
    \cup {<<1, NotANumber>>, <<NotANumber, 1>>}
=============================================================================
