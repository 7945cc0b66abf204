-------------------------- MODULE SequentialProofs --------------------------
(***************************************************************************)
(* Proofs about the parts that work alone: that each command line is       *)
(* parsed as ParsedAsMeant says, that strings of every length are padded   *)
(* and mixed as MD5 asks, that names one byte apart never share a hash,    *)
(* and that close marks as many actors as asked for.                       *)
(*                                                                         *)
(* Each part has an inductive invariant of its own, and as a behaviour is  *)
(* a run of one of them, IInv is their conjunction.                        *)
(***************************************************************************)
EXTENDS Sequential, FiniteSetTheorems, SequenceTheorems, WellFoundedInduction, TLAPS

-----------------------------------------------------------------------------
(* The command line parser.                                                *)

\* The arguments parse() is done with.
Read == IF option = 0 THEN i - 1 ELSE i

\* All of them are where ParsedAsMeant wants them, unless a name was invalid.
ReadInv ==
  ended # "invalid" =>
    /\ is_given = {Find(argv[k].name) : k \in {j \in 1..Read : argv[j].opt}}
    /\ \A o \in DOMAIN lines : InOrder(values[o], {k \in 1..Read : Gives(k, o)})
    /\ InOrder(_args, {k \in 1..Read : ~argv[k].opt /\ ~IsValue(k)})

\* n is the place of argument i among the values of the option before it.
Since(j) ==
  /\ j \in 1..i /\ argv[j].opt /\ Find(argv[j].name) = option
  /\ \A l \in j + 1 .. i : ~argv[l].opt
  /\ n = i - j + Taken(j)

InnerInv == option # 0 /\ ended = "no" => i \in 1..Len(argv) /\ \E j \in 1..i : Since(j)

\* The outer loop is never at a word that is a value.
OuterInv ==
  option = 0 /\ ended = "no" /\ i \in 1..Len(argv) => argv[i].opt \/ ~IsValue(i)

EndInv == ended \in {"ok", "usage"} => option = 0 /\ i = Len(argv) + 1

OptionsInv == TypeOK /\ ReadInv /\ InnerInv /\ OuterInv /\ EndInv

-----------------------------------------------------------------------------
(* MD5.                                                                    *)

\* What is in strByte before the mark and the length are: the first m bytes of str.
Copied(m) ==
  Md!NoSpill => \A j \in Md!Bytes : md_strByte[j] = IF j < m THEN md_str[j + 1] ELSE 0

\* No char and no sign of one has come to where the length goes.
LengthFree ==
  md_pc \in {"bytes", "mark", "length"} =>
    \A j \in Md!LengthAt .. Md!Num * 64 - 1 : md_strByte[j] = 0

BytesInv ==
  /\ md_pc = "bytes" => md_k \in 0..Md!Length /\ Copied(md_k)
  /\ md_pc = "mark" => Copied(Md!Length)
  /\ md_pc = "length" /\ Md!NoSpill =>
       \A j \in Md!Bytes :
         md_strByte[j] = IF j < Md!Length THEN md_str[j + 1]
                         ELSE IF j = Md!Length THEN 128 ELSE 0
  /\ LengthFree
  /\ Md!PaddedAsMd5

\* The steps of mainLoop that mix in word x, one in each round: where g is x.
Second(x) == 16 + ((13 * (x + 15)) % 16)
Third(x) == 32 + ((11 * (x + 11)) % 16)
Fourth(x) == 48 + ((7 * x) % 16)

\* How many of them come before step m.
Hit(s, m) == IF s < m THEN 1 ELSE 0
Hits(x, m) == Hit(x, m) + Hit(Second(x), m) + Hit(Third(x), m) + Hit(Fourth(x), m)

\* The blocks before this one are done with, those after it are not begun.
MixedInv ==
  /\ md_pc \in {"bytes", "mark", "length"} => md_block = 0 /\ md_mixed = [w \in Md!Words |-> 0]
  /\ md_pc = "loop" => md_block < Md!Num /\ md_k \in 0..64
  /\ md_pc = "loop" =>
       \A c \in 0 .. Md!Num - 1, x \in 0..15 :
         md_mixed[c * 16 + x] =
           IF c < md_block THEN 4 ELSE IF c = md_block THEN Hits(x, md_k) ELSE 0
  /\ md_pc = "done" => \A w \in Md!Words : md_mixed[w] = 4

MdInv == Md!TypeOK /\ BytesInv /\ MixedInv

-----------------------------------------------------------------------------
(* The hash of names.                                                      *)

\* Names that have not differed yet have one hash, as well.
PairInv ==
  ha_length[1] = ha_length[2] =>
    /\ ha_apart = 0 => ha_val[1] = ha_val[2]
    /\ ha_apart = 1 => ha_val[1] # ha_val[2]

HaInv == Ha!TypeOK /\ PairInv

-----------------------------------------------------------------------------
(* The command close.                                                      *)

\* n is the count less what was marked, and is only negative where nothing was.
CountdownInv ==
  co_pc = "for" =>
    /\ co_todo \cap co_marked = {}
    /\ co_found = Cardinality(co_todo) + Cardinality(co_marked)
    /\ Co!IntMin < co_count /\ co_count <= IntMax =>
         /\ co_n = co_count - Cardinality(co_marked)
         /\ co_marked # {} => co_n >= 0

CoInv == Co!TypeOK /\ Co!MarksCount /\ CountdownInv

-----------------------------------------------------------------------------
IInv == OptionsInv /\ MdInv /\ HaInv /\ CoInv
-----------------------------------------------------------------------------
(* The hash of names.                                                      *)

\* Seed is odd: no turn of the loop folds two values of ResultT together.
LEMMA TurnApart ==
  ASSUME NEW m \in Nat, NEW u \in Nat, (131 * u) % m = 1,
         NEW v \in 0 .. m - 1, NEW w \in 0 .. m - 1, NEW b \in Nat, v # w
  PROVE  (v * 131 + b) % m # (w * 131 + b) % m
<1> DEFINE x == v * 131 + b
           y == w * 131 + b
<1>0. /\ m > 0 /\ v \in Int /\ w \in Int
      /\ x \in Int /\ y \in Int /\ 131 * u \in Int
  OBVIOUS
<1> SUFFICES ASSUME x % m = y % m PROVE FALSE
  OBVIOUS
<1> HIDE DEF x, y
<1>1. /\ x = m * (x \div m) + (x % m) /\ x \div m \in Int
      /\ y = m * (y \div m) + (y % m) /\ y \div m \in Int
      /\ 131 * u = m * ((131 * u) \div m) + 1 /\ (131 * u) \div m \in Int
  BY <1>0
<1>2. PICK p \in Int, q \in Int, r \in Int, s \in Int :
        x = m * p + s /\ y = m * q + s /\ 131 * u = m * r + 1
  <2>1. x % m \in Int
    BY <1>0
  <2> QED BY <1>1, <2>1
<1>3. 131 * (v - w) = m * (p - q)
  BY <1>0, <1>2, SMT DEF x, y
<1>4. (v - w) * (131 * u) = u * (131 * (v - w))
  BY <1>0, SMT
<1>5. (v - w) * (m * r + 1) = m * ((v - w) * r) + (v - w)
  BY <1>0, <1>2, SMT
<1>6. u * (m * (p - q)) = m * (u * (p - q))
  BY <1>0, <1>2, SMT
<1>7. v - w = m * (u * (p - q)) - m * ((v - w) * r)
  BY <1>0, <1>2, <1>3, <1>4, <1>5, <1>6
<1>8. PICK t \in Int : v - w = m * t
  <2>1. /\ u * (p - q) \in Int /\ (v - w) * r \in Int
    BY <1>0, <1>2
  <2>2. m * (u * (p - q)) - m * ((v - w) * r) = m * (u * (p - q) - (v - w) * r)
    BY <2>1, SMT
  <2> QED BY <1>7, <2>1, <2>2
<1>9. t >= 1 => m * t >= m
  BY <1>0, SMT
<1>10. t <= -1 => m * t <= -m
  BY <1>0, SMT
<1>11. t = 0 => v = w
  BY <1>0, <1>8
<1> QED BY <1>0, <1>8, <1>9, <1>10, <1>11

\* Different bytes behind the same name give different hashes.
LEMMA ByteApart ==
  ASSUME NEW m \in Nat, NEW x \in Nat, NEW b \in 0 .. m - 1, NEW c \in 0 .. m - 1, b # c
  PROVE  (x + b) % m # (x + c) % m
<1>1. m > 0 /\ x + b \in Int /\ x + c \in Int
  OBVIOUS
<1> SUFFICES ASSUME (x + b) % m = (x + c) % m PROVE FALSE
  OBVIOUS
<1>2. PICK p \in Int, q \in Int : b - c = m * p - m * q
  <2>1. /\ x + b = m * ((x + b) \div m) + ((x + b) % m) /\ (x + b) \div m \in Int
        /\ x + c = m * ((x + c) \div m) + ((x + c) % m) /\ (x + c) \div m \in Int
        /\ (x + b) % m \in Int
    BY <1>1
  <2> DEFINE p == (x + b) \div m
             q == (x + c) \div m
  <2>2. b - c = m * p - m * q /\ p \in Int /\ q \in Int
    <3>1. m * p \in Int /\ m * q \in Int
      BY <1>1, <2>1
    <3> QED BY <2>1, <3>1
  <2> QED BY <2>2
<1>3. b - c = m * (p - q)
  BY <1>2, SMT
<1>4. p - q >= 1 => m * (p - q) >= m
  BY <1>1, SMT
<1>5. p - q <= -1 => m * (p - q) <= -m
  BY <1>1, SMT
<1> QED BY <1>1, <1>3, <1>4, <1>5

\* The invariant of the hash: a byte more, of one name or of both.
LEMMA HashKeeps == HaInv /\ [Ha!Next]_haVars => HaInv'
<1> SUFFICES ASSUME HaInv, [Ha!Next]_haVars PROVE HaInv'
  OBVIOUS
<1>0. /\ HashModulus \in Nat /\ HashLength \in Nat
      /\ HashBytes \subseteq 0 .. 255 /\ HashBytes \subseteq 0 .. HashModulus - 1
      /\ \E u \in Nat : (131 * u) % HashModulus = 1
  BY SequentialAssumption DEF Ha!HashAssumption, Ha!Seed
<1>1. ASSUME UNCHANGED haVars PROVE HaInv'
  BY <1>1 DEF HaInv, PairInv, haVars, Ha!TypeOK
<1>2. ASSUME NEW b \in HashBytes, Ha!Lead(b) PROVE HaInv'
  <2>1. Ha!Turn(ha_val[1], b) \in 0 .. HashModulus - 1
    <3>1. ha_val[1] \in 0 .. HashModulus - 1
      BY DEF HaInv, Ha!TypeOK
    <3> QED BY <1>0, <3>1 DEF Ha!Turn, Ha!Seed
  <2> HIDE DEF Ha!Turn
  <2>2. Ha!TypeOK'
    BY <1>0, <1>2, <2>1 DEF HaInv, Ha!TypeOK, Ha!Lead
  <2>3. PairInv'
    BY <1>0, <1>2 DEF HaInv, PairInv, Ha!TypeOK, Ha!Lead
  <2> QED BY <2>2, <2>3 DEF HaInv
<1>3. ASSUME NEW b \in HashBytes, NEW c \in HashBytes, Ha!Both(b, c) PROVE HaInv'
  <2> DEFINE v == ha_val[1]
             w == ha_val[2]
  <2>0. /\ v \in 0 .. HashModulus - 1 /\ w \in 0 .. HashModulus - 1
        /\ ha_length[1] \in 0..HashLength /\ ha_length[2] \in 0..HashLength
        /\ ha_length[2] <= ha_length[1] /\ ha_apart \in 0..ha_length[1]
        /\ b \in 0 .. HashModulus - 1 /\ c \in 0 .. HashModulus - 1
        /\ b \in Nat /\ c \in Nat
    BY <1>0 DEF HaInv, Ha!TypeOK
  <2>1. Ha!Turn(v, b) \in 0 .. HashModulus - 1 /\ Ha!Turn(w, c) \in 0 .. HashModulus - 1
    BY <1>0, <2>0 DEF Ha!Turn, Ha!Seed
  <2>2. /\ ha_val' \in [1..2 -> 0 .. HashModulus - 1]
        /\ ha_val'[1] = Ha!Turn(v, b) /\ ha_val'[2] = Ha!Turn(w, c)
    BY <1>3, <2>1 DEF HaInv, Ha!TypeOK, Ha!Both
  <2>3. /\ ha_length' \in [1..2 -> 0..HashLength]
        /\ ha_length'[1] = ha_length[1] + 1 /\ ha_length'[2] = ha_length[2] + 1
    BY <1>0, <1>3, <2>0 DEF Ha!Both
  <2>4. Ha!TypeOK'
    BY <1>3, <2>0, <2>2, <2>3 DEF Ha!TypeOK, Ha!Both
  <2>5. ASSUME ha_length[1] = ha_length[2] PROVE (ha_apart' = 0 => ha_val'[1] = ha_val'[2])
    BY <1>3, <2>0, <2>2, <2>5 DEF HaInv, PairInv, Ha!Both
  <2>6. ASSUME ha_length[1] = ha_length[2], ha_apart' = 1 PROVE ha_val'[1] # ha_val'[2]
    <3>1. CASE b = c
      <4>1. v # w
        BY <1>3, <2>0, <2>6, <3>1 DEF HaInv, PairInv, Ha!Both
      <4>2. PICK u \in Nat : (131 * u) % HashModulus = 1
        BY <1>0
      <4>3. (v * 131 + b) % HashModulus # (w * 131 + b) % HashModulus
        <5>1. \A x, y \in 0 .. HashModulus - 1, z \in Nat :
                x # y => (x * 131 + z) % HashModulus # (y * 131 + z) % HashModulus
          BY <1>0, <4>2, TurnApart
        <5> HIDE DEF v, w
        <5> QED BY <2>0, <4>1, <5>1, Zenon
      <4> QED BY <2>2, <3>1, <4>3 DEF Ha!Turn, Ha!Seed
    <3>2. CASE b # c
      <4>1. v = w
        BY <1>3, <2>0, <2>6, <3>2 DEF HaInv, PairInv, Ha!Both
      <4>2. v * 131 \in Nat
        BY <2>0
      <4>3. (v * 131 + b) % HashModulus # (v * 131 + c) % HashModulus
        BY <1>0, <2>0, <3>2, <4>2, ByteApart
      <4> QED BY <2>2, <4>1, <4>3 DEF Ha!Turn, Ha!Seed
    <3> QED BY <3>1, <3>2
  <2>7. PairInv'
    BY <2>0, <2>3, <2>5, <2>6 DEF PairInv
  <2> QED BY <2>4, <2>7 DEF HaInv
<1> QED BY <1>1, <1>2, <1>3 DEF Ha!Next

-----------------------------------------------------------------------------
(* The command close.                                                      *)

\* Console counts with operators of its own instance, which are the same.
LEMMA SameCount ==
  ASSUME NEW S
  PROVE  /\ Co!Cardinality(S) = Cardinality(S)
         /\ Co!IsFiniteSet(S) <=> IsFiniteSet(S)
BY Zenon DEF Co!Cardinality, Cardinality, Co!IsFiniteSet, IsFiniteSet

\* Its constants.
LEMMA ConsoleConstants ==
  /\ IntMax \in Nat \ {0} /\ Counts \subseteq Int /\ 1 \in Counts /\ IsFiniteSet(Guids)
BY SequentialAssumption, SameCount DEF Co!ConsoleAssumption

\* A count is cut to an int, and left as it is when it is one.
LEMMA CutToInt ==
  ASSUME NEW v \in Int
  PROVE  /\ Co!ToInt(v) \in Co!IntMin .. IntMax
         /\ v \in Co!IntMin .. IntMax => Co!ToInt(v) = v
<1> DEFINE m == 2 * (IntMax + 1)
           x == v - Co!IntMin
<1>1. m \in Nat /\ m > 0 /\ x \in Int /\ Co!IntMin \in Int /\ Co!IntMin + m = IntMax + 1
  BY ConsoleConstants DEF Co!IntMin
<1>2. Co!ToInt(v) = (x % m) + Co!IntMin
  BY DEF Co!ToInt
<1>3. x % m \in 0 .. m - 1 /\ (x \in 0 .. m - 1 => x % m = x)
  <2> HIDE DEF m, x
  <2> QED BY <1>1
<1>4. v \in Co!IntMin .. IntMax => x \in 0 .. m - 1
  BY <1>1, ConsoleConstants
<1>5. IntMax \in Int
  BY ConsoleConstants
<1> HIDE DEF m
<1> QED BY <1>1, <1>2, <1>3, <1>4, <1>5

\* The actors of a name are finitely many at any time.
LEMMA Finite ==
  ASSUME NEW S, S \subseteq Guids
  PROVE  IsFiniteSet(S) /\ Cardinality(S) \in Nat
BY ConsoleConstants, FS_Subset, FS_CardinalityType

\* The invariant of close.
LEMMA CloseKeeps == CoInv /\ [Co!Next]_coVars => CoInv'
<1> SUFFICES ASSUME CoInv, [Co!Next]_coVars PROVE CoInv'
  OBVIOUS
<1> USE DEF CoInv
<1>0. /\ Co!IntMin \in Int /\ IntMax \in Nat /\ IntMax > 0 /\ Co!IntMin = -IntMax - 1
  BY ConsoleConstants DEF Co!IntMin
<1>1. ASSUME UNCHANGED coVars PROVE CoInv'
  BY <1>1 DEF coVars, Co!TypeOK, Co!MarksCount, CountdownInv
<1>2. ASSUME NEW a \in Guids, Co!Actor(a) PROVE CoInv'
  <2>1. Co!TypeOK'
    BY <1>2 DEF Co!Actor, Co!TypeOK
  <2>2. CountdownInv' /\ Co!MarksCount'
    BY <1>2 DEF Co!Actor, CountdownInv, Co!MarksCount
  <2> QED BY <2>1, <2>2
<1>3. ASSUME NEW a \in Guids, Co!Gone(a) PROVE CoInv'
  <2>1. Co!TypeOK'
    BY <1>3 DEF Co!Gone, Co!TypeOK
  <2>2. CountdownInv' /\ Co!MarksCount'
    BY <1>3 DEF Co!Gone, CountdownInv, Co!MarksCount
  <2> QED BY <2>1, <2>2
<1>4. ASSUME NEW v \in Counts, Co!Close(v) PROVE CoInv'
  <2>0. v \in Int
    BY ConsoleConstants
  <2>1. /\ Co!There \subseteq Guids /\ Cardinality(Co!There) \in Nat
        /\ Co!Cardinality(Co!There) = Cardinality(Co!There)
    BY Finite, SameCount DEF Co!There
  <2> HIDE DEF Co!There
  <2>2. Co!ToInt(v) \in Co!IntMin .. IntMax
    BY <2>0, CutToInt
  <2>3. Co!TypeOK'
    BY <1>4, <2>1, <2>2 DEF Co!Close, Co!TypeOK
  <2>4. Co!MarksCount'
    BY <1>4 DEF Co!Close, Co!MarksCount
  <2>5. CountdownInv'
    <3>1. Cardinality({}) = 0
      BY FS_EmptySet
    <3>2. Co!IntMin < v /\ v <= IntMax => Co!ToInt(v) = v
      BY <1>0, <2>0, CutToInt
    <3> HIDE DEF Co!ToInt
    <3> QED BY <1>4, <2>0, <2>1, <3>1, <3>2 DEF Co!Close, CountdownInv
  <2> QED BY <2>3, <2>4, <2>5
<1>5. ASSUME NEW a \in Guids, Co!Mark(a) PROVE CoInv'
  <2>1. PICK m \in Co!Decremented :
          /\ co_pc = "for" /\ a \in co_todo /\ ~Co!Stops(m)
          /\ co_n' = m
          /\ co_todo' = co_todo \ {a}
          /\ co_status' = [co_status EXCEPT ![a] = IF @ = "none" THEN @ ELSE "closing"]
          /\ co_marked' = co_marked \cup {a}
          /\ UNCHANGED <<co_pc, co_count, co_found>>
    BY <1>5 DEF Co!Mark
  <2>2. /\ co_n \in Co!IntMin .. IntMax
        /\ m \in Co!IntMin .. IntMax /\ m >= 0
        /\ co_n > Co!IntMin => m = co_n - 1
    <3>1. co_n \in Co!IntMin .. IntMax
      BY DEF Co!TypeOK
    <3> QED BY <1>0, <2>1, <3>1 DEF Co!Decremented, Co!Stops
  <2>3. Co!TypeOK'
    BY <2>1, <2>2 DEF Co!TypeOK
  <2>4. Co!MarksCount'
    BY <2>1 DEF Co!MarksCount
  <2>5. /\ co_todo \subseteq Guids /\ co_marked \subseteq Guids
        /\ co_todo \cap co_marked = {}
        /\ co_found = Cardinality(co_todo) + Cardinality(co_marked)
        /\ co_count \in Int
    BY <2>1, ConsoleConstants DEF Co!TypeOK, CountdownInv
  <2>6. /\ Cardinality(co_todo) \in Nat /\ Cardinality(co_marked) \in Nat
        /\ IsFiniteSet(co_todo) /\ IsFiniteSet(co_marked)
    BY <2>5, Finite
  <2>7. /\ Cardinality(co_todo') = Cardinality(co_todo) - 1
        /\ Cardinality(co_marked') = Cardinality(co_marked) + 1
    <3>1. a \notin co_marked
      BY <2>1, <2>5
    <3> QED BY <2>1, <2>6, <3>1, FS_AddElement, FS_RemoveElement
  <2>8. Co!IntMin < co_count /\ co_count <= IntMax =>
          co_n' = co_count - Cardinality(co_marked') /\ co_n' >= 0
    <3> SUFFICES ASSUME Co!IntMin < co_count, co_count <= IntMax
                 PROVE  co_n' = co_count - Cardinality(co_marked') /\ co_n' >= 0
      OBVIOUS
    <3>1. /\ co_n = co_count - Cardinality(co_marked)
          /\ co_marked # {} => co_n >= 0
      BY <2>1 DEF CountdownInv
    <3>2. co_marked = {} => Cardinality(co_marked) = 0
      BY FS_EmptySet
    <3>3. co_n > Co!IntMin
      BY <1>0, <2>2, <2>5, <2>6, <3>1, <3>2
    <3> QED BY <1>0, <2>1, <2>2, <2>5, <2>6, <2>7, <3>1, <3>3
  <2>9. CountdownInv'
    <3>1. co_todo' \cap co_marked' = {}
      BY <2>1, <2>5
    <3>2. co_found' = Cardinality(co_todo') + Cardinality(co_marked')
      BY <2>1, <2>5, <2>6, <2>7
    <3> QED BY <2>1, <2>8, <3>1, <3>2 DEF CountdownInv
  <2> QED BY <2>3, <2>4, <2>9
<1>6. ASSUME Co!CloseEnds PROVE CoInv'
  <2>1. Co!TypeOK' /\ CountdownInv'
    BY <1>6 DEF Co!CloseEnds, Co!TypeOK, CountdownInv
  <2>2. Co!MarksCount'
    <3> SUFFICES ASSUME Co!IntMin < co_count, co_count <= IntMax
                 PROVE  Cardinality(co_marked) =
                          IF co_count <= 0 THEN 0
                          ELSE IF co_count < co_found THEN co_count ELSE co_found
      <4>1. Co!Cardinality(co_marked) = Cardinality(co_marked)
        BY SameCount
      <4> QED BY <1>6, <4>1 DEF Co!CloseEnds, Co!MarksCount
    <3>1. /\ co_n = co_count - Cardinality(co_marked)
          /\ co_marked # {} => co_n >= 0
          /\ co_found = Cardinality(co_todo) + Cardinality(co_marked)
          /\ co_count \in Int /\ co_n \in Int
          /\ Cardinality(co_todo) \in Nat /\ Cardinality(co_marked) \in Nat
      BY <1>0, <1>6, ConsoleConstants, Finite DEF Co!CloseEnds, CountdownInv, Co!TypeOK
    <3>2. /\ co_marked = {} => Cardinality(co_marked) = 0
          /\ co_todo = {} => Cardinality(co_todo) = 0
          /\ co_marked # {} => Cardinality(co_marked) > 0
      <4>1. IsFiniteSet(co_marked)
        BY Finite DEF Co!TypeOK
      <4> QED BY <3>1, <4>1, FS_EmptySet
    <3>3. CASE co_todo = {}
      BY <3>1, <3>2, <3>3
    <3>4. CASE \E m \in Co!Decremented : Co!Stops(m)
      <4>1. co_n > Co!IntMin
        BY <1>0, <3>1, <3>2
      <4>2. co_n - 1 < 0
        BY <3>4, <4>1 DEF Co!Decremented, Co!Stops
      <4> QED BY <3>1, <3>2, <4>2
    <3> QED BY <1>6, <3>3, <3>4 DEF Co!CloseEnds
  <2> QED BY <2>1, <2>2
<1> QED BY <1>1, <1>2, <1>3, <1>4, <1>5, <1>6 DEF Co!Next

-----------------------------------------------------------------------------
(* MD5.                                                                    *)

\* The blocks hold the string, the mark and the length, and no block is left over.
LEMMA BlocksFit ==
  ASSUME md_str \in Strings
  PROVE  /\ md_str \in Seq(0..255) /\ Md!Length \in Nat /\ Md!Num \in Nat /\ Md!Num >= 1
         /\ Md!Num * 64 - 64 < Md!Length + 9 /\ Md!Length + 9 <= Md!Num * 64
         /\ \A k \in 0 .. Md!Length - 1 : md_str[k + 1] \in 0..255
<1>1. md_str \in Seq(0..255)
  BY SequentialAssumption DEF Md!Md5Assumption
<1>2. Md!Length \in Nat /\ \A k \in 0 .. Md!Length - 1 : md_str[k + 1] \in 0..255
  <2>1. Md!Length \in Nat /\ \A p \in 1 .. Md!Length : md_str[p] \in 0..255
    BY <1>1, LenProperties, ElementOfSeq DEF Md!Length
  <2>2. \A k \in 0 .. Md!Length - 1 : k + 1 \in 1 .. Md!Length
    BY <2>1
  <2> QED BY <2>1, <2>2
<1>3. /\ Md!Num \in Nat /\ Md!Num >= 1
      /\ Md!Num * 64 - 64 < Md!Length + 9 /\ Md!Length + 9 <= Md!Num * 64
  <2> HIDE DEF Md!Length
  <2> QED BY <1>2 DEF Md!Num
<1> QED BY <1>1, <1>2, <1>3

\* The four bytes of the length, and the number that they are read as.
LEMMA LengthBytes ==
  ASSUME md_str \in Strings
  PROVE  /\ \A j \in 0..3 : Md!LengthByte(j) \in 0..255
         /\ Md!LengthByte(0) + 256 * (Md!LengthByte(1) + 256 *
               (Md!LengthByte(2) + 256 * Md!LengthByte(3))) = (Md!Length * 8) % UIntMod
<1> DEFINE v == (Md!Length * 8) % UIntMod
<1>1. Md!Length \in Nat /\ UIntMod \in Nat \ {0} /\ (UIntMod - 1) \div 65536 < 65536
  BY BlocksFit, SequentialAssumption DEF Md!Md5Assumption
<1>2. v \in Nat /\ v < UIntMod
  <2> HIDE DEF Md!Length
  <2> QED BY <1>1
<1>3. v \div 65536 < 65536
  <2> HIDE DEF v
  <2> QED BY <1>1, <1>2
<1>4. /\ Md!LengthByte(0) = v % 256 /\ Md!LengthByte(1) = (v \div 256) % 256
      /\ Md!LengthByte(2) = (v \div 65536) % 256
      /\ Md!LengthByte(3) = (v \div 16777216) % 256
  <2> HIDE DEF v
  <2>1. /\ <<1, 256, 65536, 16777216>>[0 + 1] = 1
        /\ <<1, 256, 65536, 16777216>>[1 + 1] = 256
        /\ <<1, 256, 65536, 16777216>>[2 + 1] = 65536
        /\ <<1, 256, 65536, 16777216>>[3 + 1] = 16777216
    OBVIOUS
  <2>2. v \div 1 = v
    BY <1>2
  <2> QED BY <2>1, <2>2 DEF Md!LengthByte, v
<1> HIDE DEF v
<1>5. \A j \in 0..3 : j = 0 \/ j = 1 \/ j = 2 \/ j = 3
  OBVIOUS
<1>6. \A j \in 0..3 : Md!LengthByte(j) \in 0..255
  <2>1. /\ v % 256 \in 0..255 /\ (v \div 256) % 256 \in 0..255
        /\ (v \div 65536) % 256 \in 0..255 /\ (v \div 16777216) % 256 \in 0..255
    BY <1>2
  <2> HIDE DEF Md!LengthByte
  <2> QED BY <1>4, <1>5, <2>1
<1>7. (v % 256) + 256 * (((v \div 256) % 256) + 256 *
        (((v \div 65536) % 256) + 256 * ((v \div 16777216) % 256))) = v
  <2>1. v = (v % 256) + 256 * (v \div 256)
    BY <1>2
  <2>2. v \div 256 = ((v \div 256) % 256) + 256 * (v \div 65536)
    BY <1>2
  <2>3. v \div 65536 = ((v \div 65536) % 256) + 256 * (v \div 16777216)
    BY <1>2
  <2>4. (v \div 16777216) % 256 = v \div 16777216
    BY <1>2, <1>3
  <2> QED BY <2>1, <2>2, <2>3, <2>4
<1> HIDE DEF Md!LengthByte
<1> QED BY <1>4, <1>6, <1>7 DEF v

\* Step m of mainLoop mixes in word x just when it is one of the four of x.
LEMMA StepOfWord ==
  ASSUME NEW m \in 0..63, NEW x \in 0..15
  PROVE  /\ Md!G(m) \in 0..15
         /\ Md!G(m) = x <=> m \in {x, Second(x), Third(x), Fourth(x)}
<1>1. CASE m < 16
  BY <1>1 DEF Md!G, Second, Third, Fourth
<1>2. CASE m >= 16 /\ m < 32
  BY <1>2, SMTT(30) DEF Md!G, Second, Third, Fourth
<1>3. CASE m >= 32 /\ m < 48
  BY <1>3, SMTT(30) DEF Md!G, Second, Third, Fourth
<1>4. CASE m >= 48
  BY <1>4, SMTT(30) DEF Md!G, Second, Third, Fourth
<1> QED BY <1>1, <1>2, <1>3, <1>4

\* The four steps of a word lie in the four rounds.
LEMMA StepsInRounds ==
  ASSUME NEW x \in 0..15
  PROVE  Second(x) \in 16..31 /\ Third(x) \in 32..47 /\ Fourth(x) \in 48..63
BY DEF Second, Third, Fourth

\* One step more is one hit more, of the word it mixes in.
LEMMA HitsCount ==
  ASSUME NEW x \in 0..15
  PROVE  /\ Hits(x, 0) = 0 /\ Hits(x, 64) = 4
         /\ \A m \in 0..64 : Hits(x, m) \in 0..4 /\ (m % 16 = 0 => Hits(x, m) = m \div 16)
         /\ \A m \in 0..63 : Hits(x, m + 1) = Hits(x, m) + IF Md!G(m) = x THEN 1 ELSE 0
<1>1. Second(x) \in 16..31 /\ Third(x) \in 32..47 /\ Fourth(x) \in 48..63
  BY StepsInRounds
<1>2. \A m \in 0..63 : Md!G(m) = x <=> m \in {x, Second(x), Third(x), Fourth(x)}
  BY StepOfWord
<1> HIDE DEF Md!G
<1>3. \A m \in 0..63 : Hits(x, m + 1) = Hits(x, m) + IF Md!G(m) = x THEN 1 ELSE 0
  BY <1>1, <1>2 DEF Hits, Hit
<1> QED BY <1>1, <1>3 DEF Hits, Hit

\* A place in strByte or mixed of another block is another place.
LEMMA WordPlace ==
  ASSUME NEW c \in Nat, NEW d \in Nat, NEW x \in 0..15, NEW y \in 0..15
  PROVE  c * 16 + x = d * 16 + y <=> c = d /\ x = y
OBVIOUS

\* The loop over the bytes: where no sign spills, byte k is copied and the rest is left.
LEMMA AddByteKeeps == MdInv /\ Md!AddByte => MdInv'
<1> SUFFICES ASSUME MdInv, Md!AddByte PROVE MdInv'
  OBVIOUS
<1> DEFINE L == Md!Length
           N == Md!Num
           b == md_str[md_k + 1]
<1>1. /\ md_str \in Strings /\ md_pc = "bytes" /\ md_k \in 0 .. L - 1 /\ md_k' = md_k + 1
      /\ UNCHANGED <<md_str, md_pc, md_block, md_mixed>>
      /\ md_strByte \in [Md!Bytes -> 0..255] /\ md_mixed \in [Md!Words -> 0..4]
      /\ md_block \in 0..N
  BY BlocksFit DEF MdInv, Md!TypeOK, Md!AddByte, BytesInv
<1>2. /\ L \in Nat /\ N \in Nat /\ N >= 1 /\ L + 9 <= N * 64
      /\ \A j \in 0 .. L - 1 : md_str[j + 1] \in 0..255
  BY <1>1, BlocksFit
<1>3. /\ L' = L /\ N' = N /\ Md!Bytes' = Md!Bytes /\ Md!Words' = Md!Words
      /\ Md!NoSpill' = Md!NoSpill
  BY <1>1 DEF Md!Length, Md!Num, Md!Bytes, Md!Words, Md!NoSpill
<1>4. b \in 0..255
  BY <1>1, <1>2
<1>5. md_strByte' = [j \in Md!Bytes |->
                      IF j = md_k THEN Md!Or(md_strByte[j], b)
                      ELSE IF j > md_k /\ j \div 4 = md_k \div 4 /\ b >= 128 THEN 255
                      ELSE md_strByte[j]]
  BY DEF Md!AddByte
<1> HIDE DEF L, N, b
<1>6. md_strByte' \in [Md!Bytes -> 0..255]
  BY <1>1, <1>4, <1>5 DEF Md!Or
<1>7. Md!TypeOK'
  BY <1>1, <1>2, <1>3, <1>6 DEF Md!TypeOK, L, N
<1>8. Copied(md_k)
  BY <1>1 DEF MdInv, BytesInv
<1>9. ASSUME Md!NoSpill, NEW j \in Md!Bytes
      PROVE  md_strByte'[j] = IF j < md_k + 1 THEN md_str[j + 1] ELSE 0
  <2>1. md_strByte[j] = IF j < md_k THEN md_str[j + 1] ELSE 0
    BY <1>8, <1>9 DEF Copied
  <2>2. j \in Nat
    BY <1>2 DEF Md!Bytes, N
  <2>3. b >= 128 => md_k % 4 = 3
    BY <1>1, <1>9 DEF Md!NoSpill, L, b
  <2>4. CASE j = md_k
    BY <1>1, <1>4, <1>5, <2>1, <2>2, <2>4 DEF Md!Or, b
  <2>5. CASE j < md_k
    BY <1>1, <1>5, <2>1, <2>2, <2>5
  <2>6. CASE j > md_k
    <3>1. ~(j \div 4 = md_k \div 4 /\ b >= 128)
      BY <1>1, <2>2, <2>3, <2>6 DEF L
    <3> QED BY <1>1, <1>5, <2>1, <2>2, <2>6, <3>1
  <2> QED BY <1>1, <2>2, <2>4, <2>5, <2>6
<1>10. Copied(md_k)'
  BY <1>1, <1>3, <1>9 DEF Copied
<1>11. BytesInv'
  <2>1. LengthFree'
    <3>1. /\ md_pc' = "bytes" /\ Md!LengthAt' = Md!LengthAt /\ LengthFree
          /\ Md!LengthAt = N * 64 - 8
      BY <1>1, <1>3 DEF MdInv, BytesInv, Md!LengthAt, N
    <3>2. ASSUME NEW j \in N * 64 - 8 .. N * 64 - 1
          PROVE  j \in Md!Bytes /\ j # md_k /\ j \div 4 # md_k \div 4
      <4>1. /\ L \in Nat /\ N \in Nat /\ N >= 1 /\ L + 9 <= N * 64
            /\ md_k \in Nat /\ md_k < L
        BY <1>1, <1>2, BlocksFit DEF L, N
      <4>2. j \in 0 .. N * 64 - 1 /\ j # md_k /\ j \div 4 # md_k \div 4
        BY <4>1
      <4> QED BY <4>2 DEF Md!Bytes, N
    <3>3. ASSUME NEW j \in N * 64 - 8 .. N * 64 - 1 PROVE md_strByte'[j] = 0
      <4>1. md_strByte[j] = 0
        BY <1>1, <3>1 DEF LengthFree, N
      <4> QED BY <1>5, <3>2, <4>1
    <3> QED BY <1>3, <3>1, <3>3 DEF LengthFree, N
  <2> QED BY <1>1, <1>2, <1>3, <1>10, <2>1 DEF BytesInv, Md!PaddedAsMd5, L
<1>12. MixedInv'
  BY <1>1, <1>3 DEF MdInv, MixedInv
<1> QED BY <1>7, <1>11, <1>12 DEF MdInv

\* The mark behind the string.
LEMMA AddMarkKeeps == MdInv /\ Md!AddMark => MdInv'
<1> SUFFICES ASSUME MdInv, Md!AddMark PROVE MdInv'
  OBVIOUS
<1> DEFINE L == Md!Length
           N == Md!Num
<1>1. /\ md_str \in Strings /\ md_pc = "mark" /\ md_pc' = "length"
      /\ md_strByte' = [md_strByte EXCEPT ![L] = Md!Or(@, 128)]
      /\ UNCHANGED <<md_str, md_k, md_block, md_mixed>>
      /\ md_strByte \in [Md!Bytes -> 0..255] /\ Copied(L)
  BY DEF MdInv, Md!TypeOK, Md!AddMark, BytesInv
<1>2. L \in Nat /\ N \in Nat /\ L + 9 <= N * 64
  BY <1>1, BlocksFit
<1>3. /\ L' = L /\ N' = N /\ Md!Bytes' = Md!Bytes /\ Md!Words' = Md!Words
      /\ Md!NoSpill' = Md!NoSpill
  BY <1>1 DEF Md!Length, Md!Num, Md!Bytes, Md!Words, Md!NoSpill
<1>4. L \in Md!Bytes
  BY <1>2 DEF Md!Bytes
<1>5. Md!TypeOK'
  BY <1>1, <1>3, <1>4 DEF MdInv, Md!TypeOK, Md!Or
<1>6. ASSUME Md!NoSpill, NEW j \in Md!Bytes
      PROVE  md_strByte'[j] = IF j < L THEN md_str[j + 1] ELSE IF j = L THEN 128 ELSE 0
  <2>1. md_strByte[j] = IF j < L THEN md_str[j + 1] ELSE 0
    BY <1>1, <1>6 DEF Copied
  <2> HIDE DEF L
  <2> QED BY <1>1, <1>2, <1>4, <2>1 DEF Md!Or
<1>7. BytesInv'
  <2>1. LengthFree'
    <3>1. /\ Md!LengthAt' = Md!LengthAt /\ Md!LengthAt = N * 64 - 8
          /\ \A j \in Md!LengthAt .. N * 64 - 1 : md_strByte[j] = 0
      BY <1>1, <1>3 DEF MdInv, BytesInv, LengthFree, Md!LengthAt
    <3>2. \A j \in N * 64 - 8 .. N * 64 - 1 : j # L /\ j \in Md!Bytes
      <4> HIDE DEF L, N
      <4> QED BY <1>2 DEF Md!Bytes, N
    <3> QED BY <1>1, <1>3, <3>1, <3>2 DEF LengthFree
  <2> QED BY <1>1, <1>3, <1>6, <2>1 DEF BytesInv, Md!PaddedAsMd5
<1>8. MixedInv'
  BY <1>1, <1>3 DEF MdInv, MixedInv
<1> QED BY <1>5, <1>7, <1>8 DEF MdInv

\* The length: everything is where the padding of MD5 has it.
LEMMA AddLengthKeeps == MdInv /\ Md!AddLength => MdInv'
<1> SUFFICES ASSUME MdInv, Md!AddLength PROVE MdInv'
  OBVIOUS
<1> DEFINE L == Md!Length
           N == Md!Num
<1>1. /\ md_str \in Strings /\ md_pc = "length" /\ md_pc' = "loop" /\ md_k' = 0
      /\ md_strByte' = [j \in Md!Bytes |->
                          IF j \in N * 64 - 8 .. N * 64 - 8 + 3
                          THEN Md!LengthByte(j - (N * 64 - 8)) ELSE md_strByte[j]]
      /\ UNCHANGED <<md_str, md_block, md_mixed>>
      /\ md_strByte \in [Md!Bytes -> 0..255]
      /\ md_block = 0 /\ md_mixed = [w \in Md!Words |-> 0]
  BY DEF MdInv, Md!TypeOK, Md!AddLength, MixedInv
<1>2. L \in Nat /\ N \in Nat /\ N >= 1 /\ N * 64 - 64 < L + 9 /\ L + 9 <= N * 64
  BY <1>1, BlocksFit
<1>3. /\ L' = L /\ N' = N /\ Md!Bytes' = Md!Bytes /\ Md!Words' = Md!Words
      /\ Md!NoSpill' = Md!NoSpill /\ \A j : Md!LengthByte(j)' = Md!LengthByte(j)
  BY <1>1 DEF Md!Length, Md!Num, Md!Bytes, Md!Words, Md!NoSpill, Md!LengthByte
<1>4. \A j \in 0..3 : Md!LengthByte(j) \in 0..255
  BY <1>1, LengthBytes
<1> HIDE DEF L, N, Md!LengthByte
<1>5. md_strByte' \in [Md!Bytes -> 0..255]
  <2>1. ASSUME NEW j \in N * 64 - 8 .. N * 64 - 8 + 3
        PROVE  Md!LengthByte(j - (N * 64 - 8)) \in 0..255
    <3>1. j - (N * 64 - 8) \in 0..3
      BY <1>2
    <3> QED BY <1>4, <3>1
  <2> QED BY <1>1, <2>1
<1>6. Md!TypeOK'
  BY <1>1, <1>2, <1>3, <1>5 DEF MdInv, Md!TypeOK, L, N
<1>7. ASSUME Md!NoSpill, NEW j \in 0 .. N * 64 - 8 - 1
      PROVE  md_strByte'[j] = IF j < L THEN md_str[j + 1] ELSE IF j = L THEN 128 ELSE 0
  <2>1. j \in Md!Bytes /\ j \notin N * 64 - 8 .. N * 64 - 8 + 3
    BY <1>2 DEF Md!Bytes, N
  <2>2. md_strByte[j] = IF j < L THEN md_str[j + 1] ELSE IF j = L THEN 128 ELSE 0
    BY <1>1, <1>7, <2>1 DEF MdInv, BytesInv, L
  <2> QED BY <1>1, <2>1, <2>2
<1>8. Md!LengthRead' = (L * 8) % UIntMod
  <2> DEFINE at == N * 64 - 8
             b(m) == md_strByte'[at + m]
  <2>1. /\ at + 0 \in Md!Bytes /\ at + 1 \in Md!Bytes /\ at + 2 \in Md!Bytes
        /\ at + 3 \in Md!Bytes /\ at + 4 \in Md!Bytes /\ at + 5 \in Md!Bytes
        /\ at + 6 \in Md!Bytes /\ at + 7 \in Md!Bytes
    BY <1>2 DEF Md!Bytes, N
  <2>2. /\ b(0) = Md!LengthByte(0) /\ b(1) = Md!LengthByte(1)
        /\ b(2) = Md!LengthByte(2) /\ b(3) = Md!LengthByte(3)
    <3>1. ASSUME NEW m \in 0..3, at + m \in Md!Bytes PROVE b(m) = Md!LengthByte(m)
      <4>1. PICK j \in Md!Bytes : /\ j = at + m /\ j - (N * 64 - 8) = m
                                /\ j \in N * 64 - 8 .. N * 64 - 8 + 3
        <5>1. at + m \in N * 64 - 8 .. N * 64 - 8 + 3 /\ at + m - (N * 64 - 8) = m
          BY <1>2, <3>1
        <5>2. at \in Int /\ N \in Int /\ m \in Int
          BY <1>2, <3>1
        <5> HIDE DEF at
        <5> QED BY <3>1, <5>1, <5>2
      <4>2. md_strByte'[j] = Md!LengthByte(j - (N * 64 - 8))
        BY <1>1, <4>1
      <4>3. Md!LengthByte(j - (N * 64 - 8)) = Md!LengthByte(m)
        BY <4>1
      <4>4. b(m) = md_strByte'[j]
        BY <4>1
      <4> QED BY <4>2, <4>3, <4>4
    <3> HIDE DEF at, b
    <3> QED BY <2>1, <3>1
  <2>3. b(4) = 0 /\ b(5) = 0 /\ b(6) = 0 /\ b(7) = 0
    <3>1. \A j \in N * 64 - 8 .. N * 64 - 1 : md_strByte[j] = 0
      BY <1>1 DEF MdInv, BytesInv, LengthFree, Md!LengthAt, N
    <3>2. ASSUME NEW m \in 4..7, at + m \in Md!Bytes PROVE b(m) = 0
      <4>1. /\ at + m \in N * 64 - 8 .. N * 64 - 1
            /\ at + m \notin N * 64 - 8 .. N * 64 - 8 + 3
        BY <1>2
      <4> QED BY <1>1, <3>1, <3>2, <4>1
    <3> HIDE DEF at, b
    <3> QED BY <2>1, <3>2
  <2>4. Md!LengthRead' = b(0) + 256 * (b(1) + 256 * (b(2) + 256 * (b(3) + 256 * (b(4) +
                           256 * (b(5) + 256 * (b(6) + 256 * b(7)))))))
    BY <1>3 DEF Md!LengthRead, Md!LengthAt, N
  <2> DEFINE c(m) == Md!LengthByte(m)
  <2>5. /\ c(0) \in 0..255 /\ c(1) \in 0..255 /\ c(2) \in 0..255 /\ c(3) \in 0..255
        /\ c(0) + 256 * (c(1) + 256 * (c(2) + 256 * c(3))) = (L * 8) % UIntMod
    BY <1>1, LengthBytes DEF L
  <2> HIDE DEF at, b, c
  <2>6. Md!LengthRead' = c(0) + 256 * (c(1) + 256 * (c(2) + 256 * (c(3) + 256 * (0 +
                           256 * (0 + 256 * (0 + 256 * 0))))))
    BY <2>2, <2>3, <2>4 DEF c
  <2> QED BY <2>5, <2>6
<1>9. BytesInv'
  <2>1. Md!PaddedAsMd5'
    <3>1. /\ UIntMod' = UIntMod /\ Md!LengthAt' = N * 64 - 8
          /\ L * 8 < UIntMod => (L * 8) % UIntMod = L * 8
      BY <1>2, <1>3, SequentialAssumption DEF Md!Md5Assumption, Md!LengthAt, N
    <3>2. /\ Md!Length' = L /\ Md!Num' = N
          /\ \A j \in Nat : j + 1 \in Nat
      BY <1>3 DEF L, N
    <3> QED BY <1>1, <1>2, <1>3, <1>7, <1>8, <3>1, <3>2 DEF Md!PaddedAsMd5
  <2> QED BY <1>1, <2>1 DEF BytesInv, LengthFree
<1>10. MixedInv'
  <2>1. \A c \in 0 .. N - 1, x \in 0..15 : c * 16 + x \in Md!Words
    BY <1>2 DEF Md!Words, N
  <2>2. \A x \in 0..15 : Hits(x, 0) = 0
    BY HitsCount
  <2> HIDE DEF Hits
  <2> QED BY <1>1, <1>2, <1>3, <2>1, <2>2 DEF MixedInv, N
<1> QED BY <1>6, <1>9, <1>10 DEF MdInv

\* The end of the loop over the bytes.
LEMMA BytesEndKeeps == MdInv /\ Md!BytesEnd => MdInv'
<1> SUFFICES ASSUME MdInv, Md!BytesEnd PROVE MdInv'
  OBVIOUS
<1>1. /\ md_pc = "bytes" /\ md_pc' = "mark" /\ md_k = Md!Length
      /\ UNCHANGED <<md_str, md_k, md_block, md_strByte, md_mixed>>
  BY DEF Md!BytesEnd
<1>2. Md!TypeOK'
  BY <1>1 DEF MdInv, Md!TypeOK, Md!Length, Md!Num, Md!Bytes, Md!Words
<1>3. BytesInv'
  <2>1. Copied(Md!Length)' <=> Copied(Md!Length)
    BY <1>1 DEF Copied, Md!NoSpill, Md!Length, Md!Num, Md!Bytes
  <2>2. LengthFree'
    BY <1>1 DEF MdInv, BytesInv, LengthFree, Md!LengthAt, Md!Num, Md!Length
  <2> QED BY <1>1, <2>1, <2>2 DEF MdInv, BytesInv, Md!PaddedAsMd5
<1>4. MixedInv'
  BY <1>1 DEF MdInv, MixedInv, Md!Words, Md!Num, Md!Length
<1> QED BY <1>2, <1>3, <1>4 DEF MdInv

\* What depends on the string alone stays as it is.
LEMMA SameString ==
  ASSUME UNCHANGED md_str
  PROVE  /\ Md!Length' = Md!Length /\ Md!Num' = Md!Num
         /\ Md!Bytes' = Md!Bytes /\ Md!Words' = Md!Words
         /\ Md!NoSpill' <=> Md!NoSpill
         /\ Md!LengthAt' = Md!LengthAt
<1>1. Md!Length' = Md!Length
  BY DEF Md!Length
<1>2. Md!Num' = Md!Num
  BY <1>1 DEF Md!Num
<1>3. Md!Bytes' = Md!Bytes /\ Md!Words' = Md!Words
  BY <1>2 DEF Md!Bytes, Md!Words
<1>4. Md!NoSpill' <=> Md!NoSpill
  BY <1>1 DEF Md!NoSpill
<1>5. Md!LengthAt' = Md!LengthAt
  BY <1>2 DEF Md!LengthAt
<1> QED BY <1>1, <1>2, <1>3, <1>4, <1>5

\* strByte is not written any more.
LEMMA StaysPadded ==
  MdInv /\ UNCHANGED <<md_str, md_strByte>> /\ md_pc = "loop" /\ md_pc' \in {"loop", "done"}
    => BytesInv'
BY SameString DEF MdInv, BytesInv, LengthFree, Md!PaddedAsMd5, Md!LengthRead

\* A step of mainLoop: the word of this block that it mixes in is hit once more.
LEMMA MainLoopKeeps == MdInv /\ Md!MainLoop => MdInv'
<1> SUFFICES ASSUME MdInv, Md!MainLoop PROVE MdInv'
  OBVIOUS
<1> DEFINE N == Md!Num
           g == Md!G(md_k)
<1>1. /\ md_str \in Strings /\ md_pc = "loop" /\ md_block < N /\ md_k < 64 /\ md_k' = md_k + 1
      /\ md_mixed' = [md_mixed EXCEPT ![md_block * 16 + g] = @ + 1]
      /\ UNCHANGED <<md_str, md_pc, md_block, md_strByte>>
      /\ md_mixed \in [Md!Words -> 0..4] /\ md_block \in 0..N /\ md_k \in 0..63
  BY DEF MdInv, Md!TypeOK, Md!MainLoop, MixedInv
<1>2. N \in Nat /\ Md!Length \in Nat
  BY <1>1, BlocksFit
<1>3. N' = N /\ Md!Words' = Md!Words /\ Md!Length' = Md!Length /\ Md!Bytes' = Md!Bytes
  BY <1>1 DEF Md!Length, Md!Num, Md!Words, Md!Bytes
<1>4. g \in 0..15
  BY <1>1, StepOfWord
<1>5. \A c \in 0 .. N - 1, x \in 0..15 : c * 16 + x \in Md!Words
  BY <1>2 DEF Md!Words, N
<1> HIDE DEF N, g
<1>6. ASSUME NEW c \in 0 .. N - 1, NEW x \in 0..15
      PROVE  md_mixed'[c * 16 + x] =
               IF c < md_block THEN 4 ELSE IF c = md_block THEN Hits(x, md_k + 1) ELSE 0
  <2>1. md_mixed[c * 16 + x] =
          IF c < md_block THEN 4 ELSE IF c = md_block THEN Hits(x, md_k) ELSE 0
    BY <1>1 DEF MdInv, MixedInv, N
  <2>2. Hits(x, md_k + 1) = Hits(x, md_k) + IF g = x THEN 1 ELSE 0
    BY <1>1, HitsCount DEF g
  <2>3. Hits(x, md_k) \in Nat
    <3>1. \A m \in 0..64 : Hits(x, m) \in 0..4
      BY HitsCount
    <3>2. md_k \in 0..64
      BY <1>1
    <3> HIDE DEF Hits
    <3> QED BY <3>1, <3>2
  <2>4. c * 16 + x \in Md!Words /\ md_block * 16 + g \in Md!Words
    BY <1>1, <1>2, <1>4, <1>5
  <2>5. c * 16 + x = md_block * 16 + g <=> c = md_block /\ x = g
    BY <1>1, <1>2, <1>4
  <2> HIDE DEF Hits
  <2>6. CASE c = md_block /\ x = g
    <3>1. md_mixed'[c * 16 + x] = md_mixed[c * 16 + x] + 1
      BY <1>1, <2>4, <2>5, <2>6
    <3> QED BY <1>1, <1>2, <2>1, <2>2, <2>3, <2>6, <3>1
  <2>7. CASE ~(c = md_block /\ x = g)
    <3>1. md_mixed'[c * 16 + x] = md_mixed[c * 16 + x]
      BY <1>1, <2>4, <2>5, <2>7
    <3> QED BY <1>1, <1>2, <2>1, <2>2, <2>3, <2>7, <3>1
  <2> QED BY <2>6, <2>7
<1>7. MixedInv'
  BY <1>1, <1>3, <1>6 DEF MixedInv, N
<1>8. md_mixed' \in [Md!Words -> 0..4]
  <2>1. md_mixed[md_block * 16 + g] + 1 \in 0..4
    <3>1. md_mixed'[md_block * 16 + g] = Hits(g, md_k + 1)
      BY <1>1, <1>2, <1>4, <1>6
    <3>2. Hits(g, md_k + 1) \in 0..4
      <4>1. md_k + 1 \in 0..64
        BY <1>1
      <4> QED BY <1>4, <4>1, HitsCount
    <3>3. md_block * 16 + g \in Md!Words
      BY <1>1, <1>2, <1>4, <1>5
    <3> HIDE DEF Hits
    <3> QED BY <1>1, <3>1, <3>2, <3>3
  <2> QED BY <1>1, <2>1
<1>9. Md!TypeOK'
  BY <1>1, <1>2, <1>3, <1>8 DEF MdInv, Md!TypeOK, N
<1> QED BY <1>1, <1>7, <1>9, StaysPadded DEF MdInv

\* The next block: every word of this one was mixed in four times.
LEMMA NextBlockKeeps == MdInv /\ Md!NextBlock => MdInv'
<1> SUFFICES ASSUME MdInv, Md!NextBlock PROVE MdInv'
  OBVIOUS
<1> DEFINE N == Md!Num
<1>1. /\ md_str \in Strings /\ md_pc = "loop" /\ md_k = 64 /\ md_k' = 0
      /\ md_block' = md_block + 1
      /\ md_pc' = IF md_block + 1 = N THEN "done" ELSE "loop"
      /\ UNCHANGED <<md_str, md_strByte, md_mixed>>
      /\ md_mixed \in [Md!Words -> 0..4] /\ md_block \in 0 .. N - 1
  <2>1. md_block \in 0..N /\ md_block < N
    BY DEF MdInv, Md!TypeOK, Md!NextBlock, MixedInv
  <2>2. N \in Nat
    BY BlocksFit DEF MdInv, Md!TypeOK
  <2>3. md_block' = md_block + 1 /\ N' = N
    BY DEF Md!NextBlock, Md!Num, Md!Length
  <2> HIDE DEF N
  <2> QED BY <2>1, <2>2, <2>3 DEF MdInv, Md!TypeOK, Md!NextBlock, N
<1>2. N \in Nat /\ Md!Length \in Nat
  BY <1>1, BlocksFit
<1>3. N' = N /\ Md!Words' = Md!Words /\ Md!Length' = Md!Length /\ Md!Bytes' = Md!Bytes
  BY <1>1 DEF Md!Length, Md!Num, Md!Words, Md!Bytes
<1>4. \A x \in 0..15 : Hits(x, 0) = 0 /\ Hits(x, 64) = 4
  BY HitsCount
<1>5. \A c \in 0 .. N - 1, x \in 0..15 :
        md_mixed[c * 16 + x] =
          IF c < md_block THEN 4 ELSE IF c = md_block THEN Hits(x, md_k) ELSE 0
  BY <1>1 DEF MdInv, MixedInv
<1> HIDE DEF N, Hits
<1>6. \A c \in 0 .. N - 1, x \in 0..15 :
        md_mixed[c * 16 + x] = IF c < md_block + 1 THEN 4 ELSE 0
  BY <1>1, <1>2, <1>4, <1>5
<1>7. md_block + 1 = N => \A w \in Md!Words : md_mixed[w] = 4
  <2> SUFFICES ASSUME md_block + 1 = N, NEW w \in Md!Words PROVE md_mixed[w] = 4
    OBVIOUS
  <2>1. w \in 0 .. N * 16 - 1
    BY DEF Md!Words, N
  <2>2. /\ w \div 16 \in 0 .. N - 1 /\ w % 16 \in 0..15
        /\ w = (w \div 16) * 16 + (w % 16)
    BY <1>2, <2>1
  <2>3. md_mixed[(w \div 16) * 16 + (w % 16)] = 4
    BY <1>1, <1>2, <1>6, <2>2
  <2> QED BY <2>2, <2>3
<1>8. MixedInv'
  BY <1>1, <1>2, <1>3, <1>4, <1>6, <1>7 DEF MixedInv, N
<1>9. Md!TypeOK'
  BY <1>1, <1>2, <1>3 DEF MdInv, Md!TypeOK, N
<1> QED BY <1>1, <1>8, <1>9, StaysPadded DEF MdInv

\* The invariant of MD5.
LEMMA Md5Keeps == MdInv /\ [Md!Next]_mdVars => MdInv'
<1>1. ASSUME MdInv, UNCHANGED mdVars PROVE MdInv'
  <2>1. Md!TypeOK'
    BY <1>1, SameString DEF mdVars, MdInv, Md!TypeOK
  <2>2. BytesInv'
    <3>1. Copied(md_k)' <=> Copied(md_k)
      BY <1>1, SameString DEF mdVars, Copied
    <3>2. Copied(Md!Length)' <=> Copied(Md!Length)
      BY <1>1, SameString DEF mdVars, Copied
    <3> QED BY <1>1, <3>1, <3>2, SameString
        DEF mdVars, MdInv, BytesInv, LengthFree, Md!PaddedAsMd5, Md!LengthRead
  <2>3. MixedInv'
    BY <1>1, SameString DEF mdVars, MdInv, MixedInv
  <2> QED BY <2>1, <2>2, <2>3 DEF MdInv
<1> QED BY <1>1, AddByteKeeps, BytesEndKeeps, AddMarkKeeps, AddLengthKeeps, MainLoopKeeps,
           NextBlockKeeps DEF Md!Next

\* Each round of mainLoop mixes every word of its block in.
LEMMA RoundsMix == MdInv => Md!EveryWordMixed
<1> SUFFICES ASSUME MdInv PROVE Md!EveryWordMixed
  OBVIOUS
<1>1. md_pc = "done" => \A w \in Md!Words : md_mixed[w] = 4
  BY DEF MdInv, MixedInv
<1>2. ASSUME md_pc = "loop", md_k % 16 = 0, NEW x \in 0..15
      PROVE  md_mixed[md_block * 16 + x] = md_k \div 16
  <2>1. md_block \in 0 .. Md!Num - 1 /\ md_k \in 0..64
    <3>1. md_block \in 0 .. Md!Num /\ md_block < Md!Num /\ Md!Num \in Nat
      BY <1>2, BlocksFit DEF MdInv, Md!TypeOK, MixedInv
    <3> HIDE DEF Md!Num
    <3> QED BY <1>2, <3>1 DEF MdInv, MixedInv
  <2>2. md_mixed[md_block * 16 + x] = Hits(x, md_k)
    BY <1>2, <2>1 DEF MdInv, MixedInv
  <2> QED BY <1>2, <2>1, <2>2, HitsCount
<1> QED BY <1>1, <1>2 DEF Md!EveryWordMixed

-----------------------------------------------------------------------------
(* The command line parser.                                                *)

\* A bounded set of numbers has a greatest element.
LEMMA Greatest ==
  ASSUME NEW m \in Nat, NEW S, S \subseteq 0..m, S # {}
  PROVE  Max(S) \in S
<1> DEFINE R == OpToRel(<, Nat)
           T == {m - x : x \in S}
<1>1. \A x, y \in Nat : x < y => <<x, y>> \in R
  BY DEF OpToRel
<1>2. IsWellFoundedOn(R, Nat)
  BY NatLessThanWellFounded
<1>3. T \subseteq Nat /\ T # {}
  <2>1. \A x \in S : x \in 0..m /\ m - x \in Nat
    OBVIOUS
  <2> QED BY <2>1
<1> HIDE DEF R, T
<1>4. PICK t \in T : \A y \in T : <<y, t>> \notin R
  BY <1>2, <1>3, WFMin
<1>5. \A y \in T : t <= y
  <2> SUFFICES ASSUME NEW y \in T PROVE t <= y
    OBVIOUS
  <2>1. t \in Nat /\ y \in Nat
    BY <1>3
  <2>2. ~(y < t)
    BY <1>1, <1>4, <2>1
  <2> QED BY <2>1, <2>2
<1>6. PICK s \in S : t = m - s
  BY <1>4 DEF T
<1>7. \A y \in S : s >= y
  <2> SUFFICES ASSUME NEW y \in S PROVE s >= y
    OBVIOUS
  <2>1. m - y \in T
    BY DEF T
  <2>2. m - s <= m - y
    BY <1>5, <1>6, <2>1
  <2>3. s \in Int /\ y \in Int
    OBVIOUS
  <2> QED BY <2>2, <2>3
<1>8. \E x \in S : \A y \in S : x >= y
  BY <1>7
<1> QED BY <1>8, Zenon DEF Max

\* An option is one of the lines, or none.
LEMMA FindsLine ==
  ASSUME lines \in Declarations, NEW name
  PROVE  Len(lines) \in Nat /\ DOMAIN lines = 1..Len(lines) /\ Find(name) \in 0..Len(lines)
<1>1. Len(lines) \in Nat /\ DOMAIN lines = 1..Len(lines)
  BY OptionsAssumption, LenProperties
<1> DEFINE S == {0} \cup {k \in DOMAIN lines : name \in lines[k].names}
<1>2. S \subseteq 0..Len(lines) /\ S # {}
  BY <1>1
<1> HIDE DEF S
<1>3. Max(S) \in S
  BY <1>1, <1>2, Greatest
<1> QED BY <1>1, <1>2, <1>3 DEF Find, S

\* The number of values an option takes.
LEMMA NumArgsIsNat ==
  ASSUME lines \in Declarations, NEW o \in DOMAIN lines
  PROVE  NumArgs(lines[o]) \in Nat
<1> DEFINE W == lines[o].words
           last == Len(W) - IF lines[o].tail THEN 0 ELSE 1
<1>1. W \in Seq({"value", "dots"})
  <2>1. lines \in Seq([names : SUBSET STRING, words : Seq({"value", "dots"}), tail : BOOLEAN])
    BY OptionsAssumption
  <2>2. o \in 1..Len(lines)
    BY <2>1, LenProperties
  <2>3. lines[o] \in [names : SUBSET STRING, words : Seq({"value", "dots"}), tail : BOOLEAN]
    BY <2>1, <2>2, ElementOfSeq, Zenon
  <2> QED BY <2>3
<1>2. last \in Int /\ last <= Len(W)
  <2>1. Len(W) \in Nat
    BY <1>1, LenProperties
  <2> HIDE DEF W
  <2> QED BY <2>1
<1>3. \A p \in 1..last : W[p] \in {"value", "dots"}
  <2>1. Len(W) \in Nat
    BY <1>1, LenProperties
  <2>2. \A p \in 1..last : p \in 1..Len(W)
    BY <1>2, <2>1
  <2> QED BY <1>1, <2>2, ElementOfSeq
<1> HIDE DEF W, last
<1>4. SubSeq(W, 1, last) \in Seq({"value", "dots"})
  BY <1>2, <1>3, SubSeqProperties
<1>5. Len(SubSeq(W, 1, last)) \in Nat
  BY <1>4, LenProperties
<1> QED BY <1>5, OptionsAssumption DEF NumArgs, Placeholders, W, last

\* One position more, behind all of those before it.
LEMMA AppendInOrder ==
  ASSUME NEW s \in Seq(Nat), NEW S, InOrder(s, S), NEW k \in Nat, \A x \in S : x < k
  PROVE  InOrder(Append(s, k), S \cup {k})
<1> DEFINE t == Append(s, k)
<1>1. /\ t \in Seq(Nat) /\ Len(s) \in Nat /\ Len(t) = Len(s) + 1
      /\ DOMAIN s = 1..Len(s) /\ DOMAIN t = 1..Len(t)
      /\ \A p \in 1..Len(s) : t[p] = s[p] /\ s[p] \in Nat
      /\ t[Len(s) + 1] = k
  BY AppendProperties, LenProperties, ElementOfSeq
<1> HIDE DEF t
<1>2. \A x \in S \cup {k} : \E p \in DOMAIN t : t[p] = x
  <2>1. ASSUME NEW x \in S PROVE \E p \in DOMAIN t : t[p] = x
    <3>1. PICK p \in DOMAIN s : s[p] = x
      BY DEF InOrder
    <3>2. p \in DOMAIN t /\ t[p] = x
      BY <1>1, <3>1
    <3> QED BY <3>2
  <2>2. Len(s) + 1 \in DOMAIN t
    BY <1>1
  <2> QED BY <1>1, <2>1, <2>2
<1>3. \A p \in DOMAIN t : t[p] \in S \cup {k}
  BY <1>1 DEF InOrder
<1>4. ASSUME NEW p \in DOMAIN t, NEW q \in DOMAIN t, p < q PROVE t[p] < t[q]
  <2>1. p \in 1..Len(s) /\ t[p] = s[p] /\ s[p] \in S
    BY <1>1, <1>4 DEF InOrder
  <2>2. CASE q = Len(s) + 1
    BY <1>1, <2>1, <2>2
  <2>3. CASE q # Len(s) + 1
    <3>1. q \in 1..Len(s) /\ t[q] = s[q]
      BY <1>1, <2>3
    <3> QED BY <1>1, <1>4, <2>1, <3>1 DEF InOrder
  <2> QED BY <2>2, <2>3
<1> QED BY <1>2, <1>3, <1>4 DEF InOrder, t

\* What depends on the command line and the lines alone stays as it is.
LEMMA SameInput ==
  ASSUME UNCHANGED input
  PROVE  /\ lines' = lines /\ argv' = argv
         /\ \A x : Find(x)' = Find(x)
         /\ \A k : Taken(k)' = Taken(k)
         /\ \A k : IsValue(k)' <=> IsValue(k)
         /\ \A k, o : Gives(k, o)' <=> Gives(k, o)
<1>1. lines' = lines /\ argv' = argv
  BY DEF input
<1>2. \A x : Find(x)' = Find(x)
  BY <1>1 DEF Find
<1>3. \A k : Taken(k)' = Taken(k)
  BY <1>1 DEF Taken
<1>4. \A k, j : IsValueOf(k, j)' <=> IsValueOf(k, j)
  <2>1. \A k, j : Before(j, k)' <=> Before(j, k)
    BY <1>1 DEF Before
  <2> QED BY <1>1, <1>2, <1>3, <2>1 DEF IsValueOf
<1>5. \A k : IsValue(k)' <=> IsValue(k)
  BY <1>1, <1>4 DEF IsValue
<1>6. \A k, o : Gives(k, o)' <=> Gives(k, o)
  BY <1>1, <1>2, <1>3, <1>4 DEF Gives
<1> QED BY <1>1, <1>2, <1>3, <1>5, <1>6

\* The nearest option before a word is one.
LEMMA OneBefore ==
  ASSUME NEW j, NEW l, NEW k \in Nat, Before(j, k), Before(l, k)
  PROVE  j = l
<1>1. j \in 1..(k - 1) /\ l \in 1..(k - 1) /\ argv[j].opt /\ argv[l].opt
  BY DEF Before
<1>2. ~(l > j)
  BY <1>1 DEF Before
<1>3. ~(j > l)
  BY <1>1 DEF Before
<1> QED BY <1>1, <1>2, <1>3

\* What the types say about the parts of the state that are used most.
LEMMA ParserTypes ==
  ASSUME TypeOK
  PROVE  /\ lines \in Declarations /\ Len(argv) \in Nat /\ DOMAIN argv = 1..Len(argv)
         /\ \A k \in 1..Len(argv) :
              argv[k].opt \in BOOLEAN /\ argv[k].name \in STRING /\ argv[k].val \in STRING
         /\ i \in Nat /\ n \in Nat /\ DOMAIN lines = 1..Len(lines) /\ Len(lines) \in Nat
         /\ \A k : Taken(k) \in {0, 1}
<1>1. argv \in Seq(Tokens) /\ lines \in Declarations
  BY DEF TypeOK
<1>2. Len(argv) \in Nat /\ DOMAIN argv = 1..Len(argv)
  BY <1>1, LenProperties
<1>3. \A k \in 1..Len(argv) :
        argv[k] \in [opt : BOOLEAN, name : STRING, val : STRING]
  BY <1>1, ElementOfSeq, OptionsAssumption
<1>4. Len(lines) \in Nat /\ DOMAIN lines = 1..Len(lines)
  BY <1>1, FindsLine
<1>5. i \in Nat /\ n \in Nat
  BY <1>2 DEF TypeOK
<1> QED BY <1>1, <1>2, <1>3, <1>4, <1>5 DEF Taken

\* One argument more is read, and goes where its place says.
LEMMA ReadsOne ==
  ASSUME TypeOK, ReadInv, ended = "no", UNCHANGED input,
         NEW k, k = Read + 1, k \in 1..Len(argv), Read' = k,
         is_given' = is_given \cup (IF argv[k].opt THEN {Find(argv[k].name)} ELSE {}),
         DOMAIN values' = DOMAIN lines,
         \A o \in DOMAIN lines :
           values'[o] = IF Gives(k, o) THEN Append(values[o], k) ELSE values[o],
         _args' = IF ~argv[k].opt /\ ~IsValue(k) THEN Append(_args, k) ELSE _args
  PROVE  /\ ReadInv'
         /\ \A o \in DOMAIN lines : values'[o] \in Seq(1..Len(argv))
         /\ _args' \in Seq(1..Len(argv))
<1>1. Read \in Nat /\ k \in Nat
  <2>1. i \in 1..(Len(argv) + 1) /\ Len(argv) \in Nat
    BY ParserTypes DEF TypeOK
  <2> QED BY <2>1 DEF Read
<1> DEFINE r == Read
<1>2. /\ 1..Read' = (1..Read) \cup {k} /\ \A x \in 1..Read : x < k
  BY <1>1
<1>3. /\ is_given = {Find(argv[x].name) : x \in {j \in 1..Read : argv[j].opt}}
      /\ \A o \in DOMAIN lines : InOrder(values[o], {x \in 1..Read : Gives(x, o)})
      /\ InOrder(_args, {x \in 1..Read : ~argv[x].opt /\ ~IsValue(x)})
  BY DEF ReadInv
<1>4. /\ _args \in Seq(1..Len(argv))
      /\ \A o \in DOMAIN lines : values[o] \in Seq(1..Len(argv))
  BY DEF TypeOK
<1>5. \A s \in Seq(1..Len(argv)) : s \in Seq(Nat) /\ Append(s, k) \in Seq(1..Len(argv))
  <2>1. 1..Len(argv) \subseteq Nat
    BY ParserTypes
  <2> QED BY <2>1, SeqMonotonic, AppendProperties
<1>6. is_given' = {Find(argv[x].name) : x \in {j \in 1..Read' : argv[j].opt}}
  BY <1>2, <1>3
<1>7. ASSUME NEW o \in DOMAIN lines
      PROVE  InOrder(values'[o], {x \in 1..Read' : Gives(x, o)})
  <2>1. CASE Gives(k, o)
    <3>1. {x \in 1..Read' : Gives(x, o)} = {x \in 1..Read : Gives(x, o)} \cup {k}
      BY <1>2, <2>1
    <3>2. InOrder(Append(values[o], k), {x \in 1..Read : Gives(x, o)} \cup {k})
      BY <1>1, <1>2, <1>3, <1>4, <1>5, AppendInOrder
    <3> QED BY <2>1, <3>1, <3>2
  <2>2. CASE ~Gives(k, o)
    <3>1. {x \in 1..Read' : Gives(x, o)} = {x \in 1..Read : Gives(x, o)}
      BY <1>2, <2>2
    <3> QED BY <1>3, <2>2, <3>1
  <2> QED BY <2>1, <2>2
<1>8. InOrder(_args', {x \in 1..Read' : ~argv[x].opt /\ ~IsValue(x)})
  <2>1. CASE ~argv[k].opt /\ ~IsValue(k)
    <3>1. {x \in 1..Read' : ~argv[x].opt /\ ~IsValue(x)}
            = {x \in 1..Read : ~argv[x].opt /\ ~IsValue(x)} \cup {k}
      BY <1>2, <2>1
    <3>2. InOrder(Append(_args, k), {x \in 1..Read : ~argv[x].opt /\ ~IsValue(x)} \cup {k})
      BY <1>1, <1>2, <1>3, <1>4, <1>5, AppendInOrder
    <3> QED BY <2>1, <3>1, <3>2
  <2>2. CASE ~(~argv[k].opt /\ ~IsValue(k))
    <3>1. {x \in 1..Read' : ~argv[x].opt /\ ~IsValue(x)}
            = {x \in 1..Read : ~argv[x].opt /\ ~IsValue(x)}
      BY <1>2, <2>2
    <3> QED BY <1>3, <2>2, <3>1
  <2> QED BY <2>1, <2>2
<1>9. ReadInv'
  <2>1. /\ lines' = lines /\ argv' = argv
        /\ \A x : Find(x)' = Find(x)
        /\ \A x : IsValue(x)' <=> IsValue(x)
        /\ \A x, o : Gives(x, o)' <=> Gives(x, o)
    BY SameInput
  <2>2. \A o \in DOMAIN lines :
          {x \in 1..Read' : Gives(x, o)'} = {x \in 1..Read' : Gives(x, o)}
    BY <2>1
  <2>3. {x \in 1..Read' : ~argv'[x].opt /\ ~IsValue(x)'}
          = {x \in 1..Read' : ~argv[x].opt /\ ~IsValue(x)}
    BY <2>1
  <2>4. is_given' = {Find(argv[x].name)' : x \in {j \in 1..Read' : argv'[j].opt}}
    BY <1>6, <2>1
  <2>5. \A o \in DOMAIN lines' : InOrder(values[o], {x \in 1..Read : Gives(x, o)})'
    BY <1>7, <2>1, <2>2 DEF InOrder
  <2>6. InOrder(_args, {x \in 1..Read : ~argv[x].opt /\ ~IsValue(x)})'
    BY <1>8, <2>1, <2>3 DEF InOrder
  <2> QED BY <2>4, <2>5, <2>6 DEF ReadInv
<1> QED BY <1>4, <1>5, <1>9

\* An option is read: by the outer loop, or by the jump out of the inner one.
LEMMA ParseKeeps ==
  ASSUME OptionsInv, ended = "no", UNCHANGED input,
         NEW k, k = Read + 1, k \in 1..Len(argv), ParseOption(k)
  PROVE  OptionsInv'
<1> DEFINE o == Find(argv[k].name)
<1>1. /\ TypeOK /\ ReadInv /\ argv[k].opt /\ i' = k /\ UNCHANGED _args
      /\ lines' = lines /\ argv' = argv /\ k \in Nat
      /\ \A x : Find(x)' = Find(x)
      /\ \A x : Taken(x)' = Taken(x) /\ Taken(x) \in {0, 1}
      /\ Len(argv) \in Nat /\ DOMAIN lines = 1..Len(lines) /\ Len(lines) \in Nat
  BY SameInput, ParserTypes DEF OptionsInv, ParseOption
<1>2. o \in 0..Len(lines)
  BY <1>1, FindsLine DEF TypeOK
<1>3. CASE o = 0
  <2>1. /\ ended' = "invalid" /\ UNCHANGED <<option, n, is_given, values>>
    BY <1>3 DEF ParseOption
  <2>2. TypeOK'
    BY <1>1, <2>1 DEF TypeOK
  <2> QED BY <2>1, <2>2 DEF OptionsInv, ReadInv, InnerInv, OuterInv, EndInv
<1>4. CASE o # 0
  <2>1. /\ is_given' = is_given \cup {o} /\ option' = o /\ n' = Taken(k) /\ UNCHANGED ended
        /\ values' = IF Taken(k) = 1 THEN [values EXCEPT ![o] = Append(@, k)] ELSE values
    BY <1>4 DEF ParseOption, PushValue, Taken
  <2>2. values \in [DOMAIN lines -> Seq(1..Len(argv))] /\ o \in DOMAIN lines
    BY <1>1, <1>2, <1>4 DEF TypeOK
  <2>3. \A x : Gives(k, x) <=> o = x /\ Taken(k) = 1
    BY <1>1 DEF Gives, IsValueOf
  <2> HIDE DEF o
  <2>4. /\ DOMAIN values' = DOMAIN lines
        /\ \A x \in DOMAIN lines :
             values'[x] = IF Gives(k, x) THEN Append(values[x], k) ELSE values[x]
    BY <1>1, <2>1, <2>2, <2>3
  <2>5. Read' = k
    BY <1>1, <1>4, <2>1 DEF Read
  <2>6. is_given' = is_given \cup (IF argv[k].opt THEN {Find(argv[k].name)} ELSE {})
    BY <1>1, <2>1 DEF o
  <2>7. _args' = IF ~argv[k].opt /\ ~IsValue(k) THEN Append(_args, k) ELSE _args
    BY <1>1
  <2>8. /\ ReadInv'
        /\ \A x \in DOMAIN lines : values'[x] \in Seq(1..Len(argv))
    BY <1>1, <2>4, <2>5, <2>6, <2>7, ReadsOne
  <2>9. TypeOK'
    <3>1. values' \in [DOMAIN lines -> Seq(1..Len(argv))]
      BY <2>1, <2>2, <2>4, <2>8
    <3>2. n' \in 0..Len(argv) /\ i' \in 1..(Len(argv) + 1)
      BY <1>1, <2>1
    <3> QED BY <1>1, <1>2, <2>1, <2>2, <3>1, <3>2 DEF TypeOK
  <2>10. InnerInv'
    <3>1. Since(k)'
      <4>1. k \in 1..k /\ Taken(k) = k - k + Taken(k) /\ \A l \in k + 1 .. k : FALSE
        BY <1>1
      <4>2. Find(argv[k].name) = option'
        BY <2>1 DEF o
      <4> QED BY <1>1, <2>1, <4>1, <4>2, SameInput DEF Since
    <3>2. k \in 1..i'
      BY <1>1
    <3> QED BY <1>1, <3>1, <3>2 DEF InnerInv
  <2>11. OuterInv' /\ EndInv'
    BY <1>4, <2>1 DEF OuterInv, EndInv, OptionsInv
  <2> QED BY <2>8, <2>9, <2>10, <2>11 DEF OptionsInv
<1> QED BY <1>3, <1>4

\* The outer loop meets an option.
LEMMA OptionKeeps == OptionsInv /\ Option => OptionsInv'
<1> SUFFICES ASSUME OptionsInv, Option PROVE OptionsInv'
  OBVIOUS
<1>1. PICK k \in Nat : k = i
  BY ParserTypes DEF OptionsInv
<1>2. k = Read + 1 /\ k \in 1..Len(argv)
  BY <1>1, ParserTypes DEF OptionsInv, TypeOK, Option, Read
<1>3. ended = "no" /\ UNCHANGED input /\ ParseOption(k)
  BY <1>1 DEF Option, Running
<1> QED BY <1>2, <1>3, ParseKeeps

\* An option interrupts the values of the one before it.
LEMMA InterruptKeeps == OptionsInv /\ Interrupt => OptionsInv'
<1> SUFFICES ASSUME OptionsInv, Interrupt PROVE OptionsInv'
  OBVIOUS
<1>1. PICK k \in Nat : k = i + 1
  BY ParserTypes DEF OptionsInv
<1>2. k = Read + 1 /\ k \in 1..Len(argv)
  BY <1>1, ParserTypes DEF OptionsInv, TypeOK, Interrupt, Read
<1>3. ended = "no" /\ UNCHANGED input /\ ParseOption(k)
  BY <1>1 DEF Interrupt, Running
<1> QED BY <1>2, <1>3, ParseKeeps

\* The word behind the values taken so far is the next one.
LEMMA ValueKeeps == OptionsInv /\ Value => OptionsInv'
<1> SUFFICES ASSUME OptionsInv, Value PROVE OptionsInv'
  OBVIOUS
<1>1. PICK k \in Nat : k = i + 1
  BY ParserTypes DEF OptionsInv
<1>2. PICK m \in Nat : m = n
  BY ParserTypes DEF OptionsInv
<1>3. PICK o : o = option
  OBVIOUS
<1>4. /\ TypeOK /\ ReadInv /\ ended = "no" /\ UNCHANGED input /\ o # 0
      /\ m < NumArgs(lines[o]) /\ k \in 1..Len(argv) /\ ~argv[k].opt
      /\ values' = [values EXCEPT ![o] = Append(@, k)] /\ n' = m + 1 /\ i' = k
      /\ UNCHANGED <<option, is_given, _args, ended>>
      /\ Len(argv) \in Nat /\ DOMAIN argv = 1..Len(argv) /\ i \in Nat
      /\ \A x : Taken(x) \in {0, 1}
  BY <1>1, <1>2, <1>3, ParserTypes DEF OptionsInv, Value, Running, TakesMore, PushValue
<1>5. PICK j \in 1..i : Since(j)
  BY <1>3, <1>4 DEF OptionsInv, InnerInv
<1>6. /\ o \in DOMAIN lines /\ NumArgs(lines[o]) \in Nat
      /\ values \in [DOMAIN lines -> Seq(1..Len(argv))]
  <2>1. o \in DOMAIN lines
    BY <1>3, <1>4, ParserTypes DEF TypeOK
  <2> QED BY <1>4, <2>1, NumArgsIsNat DEF TypeOK
<1>7. IsValueOf(k, j) /\ Find(argv[j].name) = o /\ j \in DOMAIN argv
  <2>1. Before(j, k)
    BY <1>1, <1>4, <1>5 DEF Since, Before
  <2>2. k - j + Taken(j) = m + 1
    BY <1>1, <1>2, <1>4, <1>5 DEF Since
  <2>3. j \in 1..Len(argv)
    BY <1>1, <1>4, <1>5
  <2> QED BY <1>3, <1>4, <1>5, <1>6, <2>1, <2>2, <2>3 DEF IsValueOf, Since
<1>8. \A x : Gives(k, x) <=> x = o
  <2>1. \A l : IsValueOf(k, l) => l = j
    BY <1>7, OneBefore DEF IsValueOf
  <2> QED BY <1>4, <1>7, <2>1 DEF Gives
<1>9. IsValue(k)
  BY <1>7 DEF IsValue
<1>10. k = Read + 1 /\ Read' = k
  BY <1>1, <1>3, <1>4 DEF Read
<1>11. /\ DOMAIN values' = DOMAIN lines
       /\ \A x \in DOMAIN lines :
            values'[x] = IF Gives(k, x) THEN Append(values[x], k) ELSE values[x]
  BY <1>4, <1>6, <1>8
<1>12. /\ is_given' = is_given \cup (IF argv[k].opt THEN {Find(argv[k].name)} ELSE {})
       /\ _args' = IF ~argv[k].opt /\ ~IsValue(k) THEN Append(_args, k) ELSE _args
  BY <1>4, <1>9
<1>13. /\ ReadInv'
       /\ \A x \in DOMAIN lines : values'[x] \in Seq(1..Len(argv))
  BY <1>4, <1>10, <1>11, <1>12, ReadsOne
<1>14. TypeOK'
  <2>1. values' \in [DOMAIN lines -> Seq(1..Len(argv))]
    BY <1>4, <1>6, <1>11, <1>13
  <2>2. n' \in 0..Len(argv)
    <3>1. m = i - j + Taken(j)
      BY <1>2, <1>5 DEF Since
    <3> QED BY <1>1, <1>4, <1>5, <3>1
  <2> QED BY <1>4, <2>1, <2>2 DEF TypeOK, input
<1>15. InnerInv'
  <2>1. \A l \in j + 1 .. k : ~argv[l].opt
    BY <1>1, <1>4, <1>5 DEF Since
  <2>2. m = i - j + Taken(j) /\ argv[j].opt
    BY <1>2, <1>5 DEF Since
  <2>3. j \in 1..k /\ m + 1 = k - j + Taken(j)
    BY <1>1, <1>4, <1>5, <2>2
  <2>4. Since(j)'
    BY <1>3, <1>4, <1>7, <2>1, <2>2, <2>3, SameInput DEF Since
  <2> QED BY <1>4, <2>3, <2>4 DEF InnerInv, input
<1>16. OuterInv' /\ EndInv'
  BY <1>3, <1>4 DEF OuterInv, EndInv, OptionsInv
<1> QED BY <1>13, <1>14, <1>15, <1>16 DEF OptionsInv

\* A word behind the last value is none of the values either.
LEMMA NoValueAgain ==
  ASSUME TypeOK, NEW k \in 1..Len(argv), ~argv[k].opt, ~IsValue(k),
         \A j \in 1..(k - 1) : argv[j].opt => Find(argv[j].name) \in DOMAIN lines
  PROVE  ~IsValue(k + 1)
<1> SUFFICES ASSUME IsValue(k + 1) PROVE FALSE
  OBVIOUS
<1>0. Len(argv) \in Nat /\ k \in Nat
  BY ParserTypes
<1>1. PICK j \in DOMAIN argv : IsValueOf(k + 1, j)
  BY DEF IsValue
<1>2. /\ j \in 1..k /\ argv[j].opt /\ Taken(j) \in {0, 1}
      /\ \A l \in j + 1 .. k : ~argv[l].opt
  BY <1>0, <1>1, ParserTypes DEF IsValueOf, Before
<1>3. j \in 1..(k - 1)
  BY <1>0, <1>2
<1>4. Before(j, k)
  BY <1>0, <1>2, <1>3 DEF Before
<1> DEFINE N == NumArgs(lines[Find(argv[j].name)])
<1>5. N \in Nat
  BY <1>2, <1>3, NumArgsIsNat DEF TypeOK
<1>6. k + 1 - j + Taken(j) <= N
  BY <1>1 DEF IsValueOf
<1>7. k - j + Taken(j) <= N
  <2> HIDE DEF N
  <2> QED BY <1>0, <1>2, <1>5, <1>6
<1> QED BY <1>1, <1>4, <1>7 DEF IsValueOf, IsValue

\* The options that were read are options that there are.
LEMMA ReadOptionsExist ==
  ASSUME TypeOK, ReadInv, ended = "no", NEW j \in 1..Read, argv[j].opt
  PROVE  Find(argv[j].name) \in DOMAIN lines
BY DEF ReadInv, TypeOK

\* A word that is no value goes into _args.
LEMMA ArgKeeps == OptionsInv /\ Arg => OptionsInv'
<1> SUFFICES ASSUME OptionsInv, Arg PROVE OptionsInv'
  OBVIOUS
<1>1. PICK k \in Nat : k = i
  BY ParserTypes DEF OptionsInv
<1>2. /\ TypeOK /\ ReadInv /\ ended = "no" /\ UNCHANGED input /\ option = 0
      /\ k \in 1..Len(argv) /\ ~argv[k].opt
      /\ _args' = Append(_args, k) /\ i' = k + 1
      /\ UNCHANGED <<option, n, is_given, values, ended>>
      /\ Len(argv) \in Nat /\ DOMAIN argv = 1..Len(argv)
  BY <1>1, ParserTypes DEF OptionsInv, TypeOK, Arg, Running
<1>3. ~IsValue(k)
  BY <1>1, <1>2 DEF OptionsInv, OuterInv
<1>4. \A x : ~Gives(k, x)
  BY <1>2, <1>3 DEF Gives, IsValue
<1>5. k = Read + 1 /\ Read' = k
  BY <1>1, <1>2 DEF Read
<1>6. /\ DOMAIN values' = DOMAIN lines
      /\ \A x \in DOMAIN lines :
           values'[x] = IF Gives(k, x) THEN Append(values[x], k) ELSE values[x]
  BY <1>2, <1>4 DEF TypeOK
<1>7. /\ is_given' = is_given \cup (IF argv[k].opt THEN {Find(argv[k].name)} ELSE {})
      /\ _args' = IF ~argv[k].opt /\ ~IsValue(k) THEN Append(_args, k) ELSE _args
  BY <1>2, <1>3
<1>8. /\ ReadInv'
      /\ _args' \in Seq(1..Len(argv))
  BY <1>2, <1>5, <1>6, <1>7, ReadsOne
<1>9. TypeOK'
  BY <1>2, <1>8 DEF TypeOK, input
<1>10. OuterInv'
  <2>1. \A j \in 1..(k - 1) : argv[j].opt => Find(argv[j].name) \in DOMAIN lines
    <3>1. k - 1 = Read
      BY <1>1, <1>2 DEF Read
    <3> QED BY <1>2, <3>1, ReadOptionsExist
  <2>2. ~IsValue(k + 1)
    BY <1>2, <1>3, <2>1, NoValueAgain
  <2> QED BY <1>2, <2>2, SameInput DEF OuterInv
<1>11. InnerInv' /\ EndInv'
  BY <1>2 DEF InnerInv, EndInv
<1> QED BY <1>8, <1>9, <1>10, <1>11 DEF OptionsInv

\* The inner loop ends: the option takes no more, or there is no more.
LEMMA LeaveKeeps == OptionsInv /\ Leave => OptionsInv'
<1> SUFFICES ASSUME OptionsInv, Leave PROVE OptionsInv'
  OBVIOUS
<1>1. PICK k \in Nat : k = i
  BY ParserTypes DEF OptionsInv
<1>2. PICK o : o = option
  OBVIOUS
<1>3. /\ TypeOK /\ ReadInv /\ ended = "no" /\ UNCHANGED input /\ o # 0
      /\ option' = 0 /\ i' = k + 1
      /\ UNCHANGED <<n, is_given, values, _args, ended>>
  BY <1>1, <1>2 DEF OptionsInv, Leave, Running
<1>0. /\ Len(argv) \in Nat /\ DOMAIN argv = 1..Len(argv) /\ n \in Nat
      /\ DOMAIN lines = 1..Len(lines) /\ Len(lines) \in Nat
      /\ k \in 1..Len(argv) /\ option \in 0..Len(lines)
  <2>1. i \in 1..Len(argv)
    BY <1>2, <1>3 DEF OptionsInv, InnerInv
  <2> QED BY <1>1, <1>3, <2>1, ParserTypes DEF TypeOK
<1>4. PICK j \in 1..k : Since(j)
  BY <1>1, <1>2, <1>3 DEF OptionsInv, InnerInv
<1>5. o \in DOMAIN lines /\ NumArgs(lines[o]) \in Nat
  <2>1. o \in DOMAIN lines
    BY <1>0, <1>2, <1>3
  <2> QED BY <1>3, <2>1, NumArgsIsNat DEF TypeOK
<1>6. Read' = Read
  <2>1. option # 0
    BY <1>2, <1>3
  <2>2. option' = 0
    BY <1>3
  <2>3. i' = i + 1
    BY <1>1, <1>3
  <2> QED BY <1>1, <2>1, <2>2, <2>3 DEF Read
<1>7. TypeOK'
  <2>1. lines' = lines /\ argv' = argv
    BY <1>3 DEF input
  <2>2. i' \in 1..(Len(argv) + 1) /\ option' \in 0..Len(lines)
    BY <1>0, <1>3
  <2> QED BY <1>3, <2>1, <2>2 DEF TypeOK
<1>8. ReadInv'
  <2>1. \A x : {y \in 1..Read : Gives(y, x)'} = {y \in 1..Read : Gives(y, x)}
    BY <1>3, SameInput
  <2>2. {y \in 1..Read : ~argv'[y].opt /\ ~IsValue(y)'}
          = {y \in 1..Read : ~argv[y].opt /\ ~IsValue(y)}
    BY <1>3, SameInput
  <2>3. is_given' = {Find(argv[x].name)' : x \in {y \in 1..Read' : argv'[y].opt}}
    <3>1. is_given = {Find(argv[x].name) : x \in {y \in 1..Read : argv[y].opt}}
      BY <1>3 DEF ReadInv
    <3> QED BY <1>3, <1>6, <3>1, SameInput
  <2>4. \A x \in DOMAIN lines' : InOrder(values[x], {y \in 1..Read : Gives(y, x)})'
    BY <1>3, <1>6, <2>1, SameInput DEF ReadInv, InOrder
  <2>5. InOrder(_args, {y \in 1..Read : ~argv[y].opt /\ ~IsValue(y)})'
    BY <1>3, <1>6, <2>2, SameInput DEF ReadInv, InOrder
  <2> QED BY <2>3, <2>4, <2>5 DEF ReadInv
<1>9. OuterInv'
  <2>1. ASSUME k + 1 \in 1..Len(argv), ~argv[k + 1].opt, IsValue(k + 1) PROVE FALSE
    <3>1. PICK l \in DOMAIN argv : IsValueOf(k + 1, l)
      BY <2>1 DEF IsValue
    <3>2. Before(j, k + 1)
      BY <1>0, <1>1, <1>4 DEF Since, Before
    <3>3. l = j
      BY <3>1, <3>2, OneBefore DEF IsValueOf
    <3>4. k + 1 - j + Taken(j) <= NumArgs(lines[o])
      BY <1>2, <1>4, <3>1, <3>3 DEF IsValueOf, Since
    <3>5. n = k - j + Taken(j) /\ Taken(j) \in {0, 1}
      BY <1>1, <1>4 DEF Since, Taken
    <3>6. ~(n < NumArgs(lines[o]))
      <4>1. k + 1 \in 1..Len(argv) /\ Len(argv) \in Nat
        BY <1>0, <2>1, Zenon
      <4>2. k # Len(argv)
        BY <4>1
      <4> QED BY <1>1, <1>2, <4>2 DEF Leave, TakesMore
    <3> QED BY <1>0, <1>5, <3>4, <3>5, <3>6
  <2> QED BY <1>3, <2>1, SameInput DEF OuterInv
<1>10. InnerInv' /\ EndInv'
  BY <1>3 DEF InnerInv, EndInv
<1> QED BY <1>7, <1>8, <1>9, <1>10 DEF OptionsInv

\* parse() ends, or nothing happens: what was read stays what it is.
LEMMA StillRead ==
  ASSUME OptionsInv, UNCHANGED <<input, i, option, n, is_given, values, _args>>,
         ended' = "invalid" => ended = "invalid", ended # "invalid"
  PROVE  ReadInv'
<1>1. Read' = Read /\ ReadInv
  BY DEF Read, OptionsInv
<1>2. \A x : {y \in 1..Read : Gives(y, x)'} = {y \in 1..Read : Gives(y, x)}
  BY SameInput
<1>3. {y \in 1..Read : ~argv'[y].opt /\ ~IsValue(y)'}
        = {y \in 1..Read : ~argv[y].opt /\ ~IsValue(y)}
  BY SameInput
<1>4. is_given' = {Find(argv[x].name)' : x \in {y \in 1..Read' : argv'[y].opt}}
  <2>1. is_given = {Find(argv[x].name) : x \in {y \in 1..Read : argv[y].opt}}
    BY <1>1 DEF ReadInv
  <2> QED BY <1>1, <2>1, SameInput
<1>5. \A x \in DOMAIN lines' : InOrder(values[x], {y \in 1..Read : Gives(y, x)})'
  BY <1>1, <1>2, SameInput DEF ReadInv, InOrder
<1>6. InOrder(_args, {y \in 1..Read : ~argv[y].opt /\ ~IsValue(y)})'
  BY <1>1, <1>3, SameInput DEF ReadInv, InOrder
<1> QED BY <1>4, <1>5, <1>6 DEF ReadInv

\* The invariant of the parser.
LEMMA OptionsKeep == OptionsInv /\ [Next]_vars => OptionsInv'
<1> SUFFICES ASSUME OptionsInv, [Next]_vars PROVE OptionsInv'
  OBVIOUS
<1>1. ASSUME End PROVE OptionsInv'
  <2>1. /\ UNCHANGED <<input, i, option, n, is_given, values, _args>>
        /\ ended = "no" /\ ended' \in {"ok", "usage"}
        /\ option = 0 /\ i > Len(argv) /\ lines' = lines /\ argv' = argv
    BY <1>1 DEF End, Running, input
  <2>2. ReadInv'
    BY <2>1, StillRead
  <2>3. TypeOK' /\ InnerInv' /\ OuterInv'
    BY <2>1 DEF OptionsInv, TypeOK, InnerInv, OuterInv
  <2>4. EndInv'
    BY <2>1, ParserTypes DEF OptionsInv, TypeOK, EndInv
  <2> QED BY <2>2, <2>3, <2>4 DEF OptionsInv
<1>2. ASSUME UNCHANGED vars PROVE OptionsInv'
  <2>1. /\ UNCHANGED <<input, i, option, n, is_given, values, _args, ended>>
        /\ lines' = lines /\ argv' = argv
    BY <1>2 DEF vars, input
  <2>2. ReadInv'
    BY <2>1, StillRead DEF ReadInv
  <2>3. TypeOK' /\ EndInv'
    BY <2>1 DEF OptionsInv, TypeOK, EndInv
  <2>4. OuterInv'
    BY <2>1, SameInput DEF OptionsInv, OuterInv
  <2>5. InnerInv'
    <3>1. \A j : Since(j)' <=> Since(j)
      BY <2>1, SameInput DEF Since
    <3> QED BY <2>1, <3>1 DEF OptionsInv, InnerInv
  <2> QED BY <2>2, <2>3, <2>4, <2>5 DEF OptionsInv
<1> QED BY <1>1, <1>2, OptionKeeps, InterruptKeeps, ValueKeeps, ArgKeeps, LeaveKeeps DEF Next

\* When parse() has returned, everything was read.
LEMMA ReadIsMeant == OptionsInv => ParsedAsMeant
<1> SUFFICES ASSUME OptionsInv, ended \in {"ok", "usage"} PROVE ParsedAsMeant
  BY DEF ParsedAsMeant
<1>1. 1..Read = DOMAIN argv
  BY ParserTypes DEF OptionsInv, EndInv, Read
<1> QED BY <1>1 DEF OptionsInv, ReadInv, ParsedAsMeant

-----------------------------------------------------------------------------
(* The four together.                                                      *)

\* Each part begins with its invariant.
LEMMA InitHolds == SequentialInit => IInv
<1> SUFFICES ASSUME SequentialInit PROVE IInv
  OBVIOUS
<1>1. OptionsInv
  <2>1. PICK m \in 0..MaxArgs : argv \in [1..m -> Tokens]
    BY DEF SequentialInit, Init
  <2>2. m \in Nat /\ m <= MaxArgs
    BY OptionsAssumption
  <2>3. argv \in Seq(Tokens) /\ Len(argv) = m
    BY <2>1, <2>2
  <2>4. /\ lines \in Declarations /\ i = 1 /\ option = 0 /\ n = 0 /\ is_given = {}
        /\ values = [k \in DOMAIN lines |-> <<>>] /\ _args = <<>> /\ ended = "no"
    BY DEF SequentialInit, Init
  <2>5. Len(lines) \in Nat
    BY <2>4, FindsLine
  <2>6. TypeOK
    <3>1. <<>> \in Seq(1..Len(argv))
      OBVIOUS
    <3> QED BY <2>2, <2>3, <2>4, <2>5, <3>1 DEF TypeOK
  <2>7. Read = 0
    BY <2>4 DEF Read
  <2>8. ReadInv
    <3>1. \A k : k \notin 1..Read
      BY <2>7
    <3>2. InOrder(<<>>, {})
      BY DEF InOrder
    <3>3. /\ {k \in 1..Read : ~argv[k].opt /\ ~IsValue(k)} = {}
          /\ \A o : {k \in 1..Read : Gives(k, o)} = {}
          /\ {Find(argv[k].name) : k \in {j \in 1..Read : argv[j].opt}} = {}
      BY <3>1
    <3> QED BY <2>4, <3>2, <3>3 DEF ReadInv
  <2>9. OuterInv
    <3>1. \A j : ~IsValueOf(1, j)
      BY DEF IsValueOf, Before
    <3> QED BY <2>4, <3>1 DEF OuterInv, IsValue
  <2> QED BY <2>4, <2>6, <2>8, <2>9 DEF OptionsInv, InnerInv, EndInv
<1>2. MdInv
  <2>1. /\ md_str \in Strings /\ md_pc = "bytes" /\ md_k = 0 /\ md_block = 0
        /\ md_strByte = [j \in Md!Bytes |-> 0] /\ md_mixed = [w \in Md!Words |-> 0]
    BY DEF SequentialInit, Md!Init
  <2>2. Md!Length \in Nat /\ Md!Num \in Nat /\ Md!Bytes \subseteq Nat
    BY <2>1, BlocksFit DEF Md!Bytes
  <2> HIDE DEF Md!Length, Md!Num, Md!Bytes
  <2>3. Md!TypeOK
    BY <2>1, <2>2 DEF Md!TypeOK
  <2>4. Copied(0)
    BY <2>1, <2>2 DEF Copied
  <2>5. LengthFree
    <3>1. Md!LengthAt \in Int /\ Md!Num >= 1
      BY <2>1, <2>2, BlocksFit DEF Md!LengthAt
    <3>2. \A j \in Md!LengthAt .. Md!Num * 64 - 1 : j \in Md!Bytes
      BY <2>2, <3>1 DEF Md!LengthAt, Md!Bytes
    <3> QED BY <2>1, <3>2 DEF LengthFree
  <2> QED BY <2>1, <2>2, <2>3, <2>4, <2>5 DEF MdInv, BytesInv, MixedInv, Md!PaddedAsMd5
<1>3. HaInv
  BY SequentialAssumption
     DEF SequentialInit, Ha!Init, HaInv, Ha!TypeOK, PairInv, Ha!HashAssumption
<1>4. CoInv
  <2>1. Co!Cardinality({}) = 0
    BY SameCount, FS_EmptySet
  <2>2. 1 \in Co!IntMin .. IntMax
    BY ConsoleConstants DEF Co!IntMin
  <2>3. /\ co_status = [a \in Guids |-> "none"] /\ co_pc = "idle" /\ co_n = 1
        /\ co_todo = {} /\ co_count = 1 /\ co_found = 0 /\ co_marked = {}
    BY DEF SequentialInit, Co!Init
  <2>4. Co!TypeOK
    BY <2>2, <2>3, ConsoleConstants DEF Co!TypeOK
  <2>5. Co!MarksCount
    BY <2>1, <2>3 DEF Co!MarksCount
  <2> QED BY <2>3, <2>4, <2>5 DEF CoInv, CountdownInv
<1> QED BY <1>1, <1>2, <1>3, <1>4 DEF IInv

\* While one part runs the others stay as they are.
LEMMA StepKeeps ==
  IInv /\ [SequentialNext]_<<part, vars, mdVars, haVars, coVars>> => IInv'
<1> SUFFICES ASSUME IInv, [SequentialNext]_<<part, vars, mdVars, haVars, coVars>>
             PROVE  IInv'
  OBVIOUS
<1>1. [Next]_vars /\ [Md!Next]_mdVars /\ [Ha!Next]_haVars /\ [Co!Next]_coVars
  BY DEF SequentialNext
<1> QED BY <1>1, OptionsKeep, Md5Keeps, HashKeeps, CloseKeeps DEF IInv

\* The invariant of all the parts, for every instance.
THEOREM Inductive == SequentialSpec => []IInv
<1>1. SequentialInit => IInv
  BY InitHolds
<1>2. IInv /\ [SequentialNext]_<<part, vars, mdVars, haVars, coVars>> => IInv'
  BY StepKeeps
<1> QED BY <1>1, <1>2, PTL DEF SequentialSpec

\* No index, counter, byte or word of any part leaves its range.
THEOREM TypeCorrect == SequentialSpec => []PartsTypeOK
<1>1. IInv => PartsTypeOK
  BY DEF IInv, OptionsInv, MdInv, HaInv, CoInv, PartsTypeOK
<1> QED BY <1>1, Inductive, PTL

\* Every command line, of any length and for any options, is parsed as it is meant.
THEOREM Meant == SequentialSpec => []ParsedAsMeant
<1>1. IInv => ParsedAsMeant
  BY ReadIsMeant DEF IInv
<1> QED BY <1>1, Inductive, PTL

\* Strings of every length get the mark and the zeros of MD5 in as few blocks as hold
\* them, when no char's sign spoils its word; and their length in the last eight bytes,
\* when an unsigned int holds it.  (MD5 asks for that at every length; add() keeps 32 bits.)
THEOREM Padding == SequentialSpec => []PaddedAsMd5
<1>1. IInv => PaddedAsMd5
  BY DEF IInv, MdInv, BytesInv, PaddedAsMd5
<1> QED BY <1>1, Inductive, PTL

\* Every word of every block is mixed in once in each round.
THEOREM Mixing == SequentialSpec => []EveryWordMixed
<1>1. IInv => EveryWordMixed
  BY RoundsMix DEF IInv, EveryWordMixed
<1> QED BY <1>1, Inductive, PTL

\* Names of any length that differ in one place have different hashes.
THEOREM NamesApart == SequentialSpec => []OneByteApart
<1>1. IInv => OneByteApart
  BY DEF IInv, HaInv, PairInv, OneByteApart, Ha!OneByteApart
<1> QED BY <1>1, Inductive, PTL

\* close marks as many actors as it was asked to, among any number of them.
THEOREM Marks == SequentialSpec => []MarksCount
<1>1. IInv => MarksCount
  BY DEF IInv, CoInv, MarksCount
<1> QED BY <1>1, Inductive, PTL
=============================================================================
