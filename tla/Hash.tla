-------------------------------- MODULE Hash --------------------------------
(***************************************************************************)
(* bkdr_hash of base/hash.h, by which interfaces are looked up: the hashes *)
(* of two names side by side, byte by byte, aligned at their ends.         *)
(***************************************************************************)
EXTENDS Integers

CONSTANTS
  Bytes,        \* the bytes of names
  Modulus,      \* of ResultT: 2 to the number of its bits
  MaxLength     \* bound: length of a name

Seed == 131

\* first[loop] is a uint8_t, which ResultT holds; Seed is odd, so it has an inverse.
HashAssumption ==
  /\ Modulus \in Nat /\ MaxLength \in Nat
  /\ Bytes \subseteq 0 .. 255 /\ Bytes \subseteq 0 .. Modulus - 1
  /\ \E u \in 0 .. Modulus - 1 : (Seed * u) % Modulus = 1

VARIABLES
  val,          \* val of the hash_impl call of each name
  length,       \* of each name so far; the first may be the longer one
  apart         \* history: at how many places the names differ

vars == <<val, length, apart>>

TypeOK ==
  /\ val \in [1..2 -> 0 .. Modulus - 1]
  /\ length \in [1..2 -> 0..MaxLength] /\ length[2] <= length[1]
  /\ apart \in 0..length[1]

Init ==
  /\ val = [m \in 1..2 |-> 0]
  /\ length = [m \in 1..2 |-> 0]
  /\ apart = 0

\* Seeded fault: ResultT is taken for wide enough.
Turn_NoWrap(v, b) == v * Seed + b

\* Seeded fault: what was read before is forgotten.
Turn_Forgets(v, b) == (Seed + b) % Modulus

\* val = val * seed + first[loop]
Turn(v, b) == (v * Seed + b) % Modulus

\* A byte of the longer name.
Lead(b) ==
  /\ length[1] < MaxLength /\ length[2] = 0
  /\ val' = [val EXCEPT ![1] = Turn(@, b)]
  /\ length' = [length EXCEPT ![1] = @ + 1]
  /\ apart' = apart + 1

\* A byte of both.
Both(b, c) ==
  /\ length[1] < MaxLength
  /\ val' = [val EXCEPT ![1] = Turn(@, b), ![2] = Turn(@, c)]
  /\ length' = [m \in 1..2 |-> length[m] + 1]
  /\ apart' = IF b = c THEN apart ELSE apart + 1

Next == \E b \in Bytes : Lead(b) \/ \E c \in Bytes : Both(b, c)

Spec == Init /\ [][Next]_vars
-----------------------------------------------------------------------------
\* Two names of a length that differ in one place never share a hash, however long
\* the names and narrow the word: the seed is odd, so no turn folds values together.
OneByteApart == length[1] = length[2] /\ apart = 1 => val[1] # val[2]
=============================================================================
