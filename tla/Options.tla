------------------------------ MODULE Options ------------------------------
(***************************************************************************)
(* The command line parser of base/options.hpp.  The constructor makes an  *)
(* option of every line that starts with "  -": its names, a placeholder   *)
(* for each value it takes, and an explanation.  parse() then goes through *)
(* argv with one index and two loops, the inner of which jumps (goto) to   *)
(* the head of the outer one when an option interrupts the values of the   *)
(* option before it.                                                       *)
(*                                                                         *)
(* A line is [names, words, tail]: what follows the names, word by word,   *)
(* up to the explanation, and whether a space follows the last word.  An   *)
(* argument is [opt, name, val]: a word, or -name, or -name=val.           *)
(***************************************************************************)
EXTENDS Naturals, Sequences, FiniteSetsExt

CONSTANTS
  Declarations, \* the lists of lines an Options may be made from
  Tokens,       \* the arguments of a command line
  MaxArgs,      \* bound: the arguments of one command line
  MaxUInt       \* the largest unsigned int, what -1 becomes in num_args

NoVal == "none"

ASSUME OptionsAssumption ==
  /\ \A d \in Declarations :
       d \in Seq([names : SUBSET STRING, words : Seq({"value", "dots"}), tail : BOOLEAN])
  /\ Tokens \subseteq [opt : BOOLEAN, name : STRING, val : STRING]
  /\ MaxArgs \in Nat /\ MaxUInt \in Nat /\ MaxUInt > MaxArgs

VARIABLES
  lines,        \* _options and _option_index_by_names, as they were declared
  argv,         \* without the program's name
  i,
  option,       \* the option that takes values; 0 in the outer loop
  n,            \* how many it has taken here
  is_given,     \* the options given so far
  values,       \* of every option: the positions of argv they came from
  _args,        \* the positions of argv in _args
  ended         \* "no", or how parse() ended

input == <<lines, argv>>
vars == <<input, i, option, n, is_given, values, _args, ended>>

-----------------------------------------------------------------------------
(* The constructor.                                                        *)

\* parse_placeholders stores a word when it meets the space behind it, so the last
\* word of a line without explanation is lost.
Placeholders(line) ==
  SubSeq(line.words, 1, Len(line.words) - IF line.tail THEN 0 ELSE 1)

NumArgs(line) ==
  LET phs == Placeholders(line)
  IN  IF phs # <<>> /\ phs[Len(phs)] = "dots" THEN MaxUInt ELSE Len(phs)

\* _option_index_by_names: the last line with that name has it.
Find(name) == Max({0} \cup {k \in DOMAIN lines : name \in lines[k].names})

Has(name) == Find(name) \in is_given

TypeOK ==
  /\ lines \in Declarations
  /\ argv \in Seq(Tokens) /\ Len(argv) <= MaxArgs
  /\ i \in 1..(Len(argv) + 1)
  /\ option \in 0..Len(lines)
  /\ n \in 0..Len(argv)
  /\ is_given \subseteq DOMAIN lines
  /\ values \in [DOMAIN lines -> Seq(1..Len(argv))]
  /\ _args \in Seq(1..Len(argv))
  /\ ended \in {"no", "ok", "invalid", "usage"}

Init ==
  /\ lines \in Declarations
  /\ argv \in UNION {[1..k -> Tokens] : k \in 0..MaxArgs}
  /\ i = 1
  /\ option = 0
  /\ n = 0
  /\ is_given = {}
  /\ values = [k \in DOMAIN lines |-> <<>>]
  /\ _args = <<>>
  /\ ended = "no"

-----------------------------------------------------------------------------
(* parse().                                                                *)

Running == ended = "no" /\ UNCHANGED input

PushValue(o, k) == values' = [values EXCEPT ![o] = Append(@, k)]

\* parse_option: a value behind '=' counts as the first one, even for an option
\* that takes none.
ParseOption(k) ==
  LET o == Find(argv[k].name) IN
  /\ argv[k].opt
  /\ i' = k
  /\ IF o = 0
     THEN ended' = "invalid" /\ UNCHANGED <<option, n, is_given, values>>
     ELSE /\ is_given' = is_given \cup {o}
          /\ option' = o
          /\ IF argv[k].val = NoVal THEN n' = 0 /\ UNCHANGED values
                                    ELSE n' = 1 /\ PushValue(o, k)
          /\ UNCHANGED ended
  /\ UNCHANGED _args

Option ==
  /\ Running
  /\ option = 0 /\ i <= Len(argv)
  /\ ParseOption(i)

Arg ==
  /\ Running
  /\ option = 0 /\ i <= Len(argv) /\ ~argv[i].opt
  /\ _args' = Append(_args, i)
  /\ i' = i + 1
  /\ UNCHANGED <<option, n, is_given, values, ended>>

\* Seeded fault: off by one, an option takes a value too many.
TakesMore_OneMore == n <= NumArgs(lines[option])

TakesMore == n < NumArgs(lines[option])

Value ==
  /\ Running
  /\ option # 0 /\ TakesMore /\ i < Len(argv) /\ ~argv[i + 1].opt
  /\ PushValue(option, i + 1)
  /\ n' = n + 1
  /\ i' = i + 1
  /\ UNCHANGED <<option, is_given, _args, ended>>

\* goto parse_option, with the values it has so far.
Interrupt ==
  /\ Running
  /\ option # 0 /\ TakesMore /\ i < Len(argv)
  /\ ParseOption(i + 1)

\* Seeded fault: the outer loop does not step past the option.
Leave_Stay ==
  /\ Running
  /\ option # 0 /\ (TakesMore => i = Len(argv))
  /\ option' = 0
  /\ UNCHANGED <<i, n, is_given, values, _args, ended>>

\* Seeded fault: the two tests of the inner loop swapped, so that leaving it skips
\* an argument.
Leave_SwappedTests ==
  /\ Running
  /\ option # 0 /\ (TakesMore => i = Len(argv))
  /\ option' = 0
  /\ i' = i + 2
  /\ UNCHANGED <<n, is_given, values, _args, ended>>

Leave ==
  /\ Running
  /\ option # 0 /\ (TakesMore => i = Len(argv))
  /\ option' = 0
  /\ i' = i + 1
  /\ UNCHANGED <<n, is_given, values, _args, ended>>

End ==
  /\ Running
  /\ option = 0 /\ i > Len(argv)
  /\ ended' = IF Has("?") THEN "usage" ELSE "ok"
  /\ UNCHANGED <<i, option, n, is_given, values, _args>>

Next == Option \/ Arg \/ Value \/ Interrupt \/ Leave \/ End

Spec == Init /\ [][Next]_vars
\* parse() runs to its end.
FairSpec == Spec /\ WF_vars(Next)
-----------------------------------------------------------------------------
(* What a command line means, without loops.                               *)

\* j is the option whose values the word k may be among: the nearest one before it.
Before(j, k) ==
  /\ j \in 1..(k - 1) /\ argv[j].opt
  /\ \A l \in j + 1 .. k - 1 : ~argv[l].opt

Taken(j) == IF argv[j].val = NoVal THEN 0 ELSE 1

\* The word k is the next value of option j, which takes that many.
IsValueOf(k, j) ==
  /\ ~argv[k].opt /\ Before(j, k)
  /\ k - j + Taken(j) <= NumArgs(lines[Find(argv[j].name)])

IsValue(k) == \E j \in DOMAIN argv : IsValueOf(k, j)

\* Option o gets a value from argument k: from behind its '=', or the word itself.
Gives(k, o) ==
  \/ argv[k].opt /\ Find(argv[k].name) = o /\ Taken(k) = 1
  \/ \E j \in DOMAIN argv : IsValueOf(k, j) /\ Find(argv[j].name) = o

\* s holds the positions of S, in the order of the command line.
InOrder(s, S) ==
  /\ \A k \in S : \E p \in DOMAIN s : s[p] = k
  /\ \A p \in DOMAIN s : s[p] \in S
  /\ \A p \in DOMAIN s, q \in DOMAIN s : p < q => s[p] < s[q]

\* When parse() returns, each argument ended up where its place on the command line
\* says: a word is a value of the nearest option before it while that takes more,
\* and one of _args otherwise, and nothing is lost, repeated or reordered.
ParsedAsMeant ==
  ended \in {"ok", "usage"} =>
    /\ is_given = {Find(argv[k].name) : k \in {j \in DOMAIN argv : argv[j].opt}}
    /\ \A o \in DOMAIN lines : InOrder(values[o], {k \in DOMAIN argv : Gives(k, o)})
    /\ InOrder(_args, {k \in DOMAIN argv : ~argv[k].opt /\ ~IsValue(k)})

\* parse() comes to an end although it jumps out of one loop into the other.
ParseEnds == <>(ended # "no")
=============================================================================
