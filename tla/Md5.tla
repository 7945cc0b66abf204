-------------------------------- MODULE Md5 --------------------------------
(***************************************************************************)
(* base/MD5.h: how add() lays a string out in blocks of 16 words, and      *)
(* which word mainLoop() mixes in at each of its 64 steps.  What the steps *)
(* compute in the registers a..d is left out.                              *)
(*                                                                         *)
(* strByte is an array of unsigned int; here it is the array of its bytes, *)
(* four to a word, the lowest first.                                       *)
(***************************************************************************)
EXTENDS Integers, Sequences

CONSTANTS
  Messages,     \* strings, as sequences of bytes
  UIntMod       \* 2^32: an unsigned int counts modulo this

\* The bytes of a string, and an unsigned int of at most four bytes.
Md5Assumption ==
  /\ Messages \subseteq Seq(0..255)
  /\ UIntMod \in Nat \ {0} /\ (UIntMod - 1) \div 65536 < 65536

VARIABLES
  str,          \* plaintext
  pc,           \* "bytes", "mark", "length", "loop", "done"
  k,            \* i of the loop over str, or of mainLoop
  block,        \* i of the loop over the blocks
  strByte,
  mixed         \* history: how often each word went into mainLoop's sum

vars == <<str, pc, k, block, strByte, mixed>>

Length == Len(str)

\* A byte of 128 or more only stands where the word has nothing above it.
NoSpill == \A j \in 0 .. Length - 1 : str[j + 1] >= 128 => j % 4 = 3

\* Seeded fault: no room for the mark in front of the length.
Num_NoMark == ((Length + 7) \div 64) + 1

\* num, the number of blocks.
Num == ((Length + 8) \div 64) + 1

Bytes == 0 .. Num * 64 - 1
Words == 0 .. Num * 16 - 1

TypeOK ==
  /\ str \in Messages
  /\ pc \in {"bytes", "mark", "length", "loop", "done"}
  /\ k \in 0 .. Length + 64
  /\ block \in 0 .. Num
  /\ strByte \in [Bytes -> 0..255]
  /\ mixed \in [Words -> 0..4]

Init ==
  /\ str \in Messages
  /\ pc = "bytes"
  /\ k = 0
  /\ block = 0
  /\ strByte = [j \in Bytes |-> 0]
  /\ mixed = [w \in Words |-> 0]

\* x |= b for two bytes, one of which is 0 or all ones.
Or(x, b) == IF x = 0 THEN b ELSE IF b = 0 THEN x ELSE 255

\* strByte[i >> 2] |= str[i] << ((i % 4) * 8): a char of 128 or more is negative, and
\* its sign fills the bytes of the word above it.
AddByte ==
  /\ pc = "bytes" /\ k < Length
  /\ LET b == str[k + 1] IN
     strByte' = [j \in Bytes |->
                  IF j = k THEN Or(strByte[j], b)
                  ELSE IF j > k /\ j \div 4 = k \div 4 /\ b >= 128 THEN 255
                  ELSE strByte[j]]
  /\ k' = k + 1
  /\ UNCHANGED <<str, pc, block, mixed>>

BytesEnd ==
  /\ pc = "bytes" /\ k = Length
  /\ pc' = "mark"
  /\ UNCHANGED <<str, k, block, strByte, mixed>>

AddMark ==
  /\ pc = "mark"
  /\ strByte' = [strByte EXCEPT ![Length] = Or(@, 128)]
  /\ pc' = "length"
  /\ UNCHANGED <<str, k, block, mixed>>

\* Byte j of the word that str.length() * 8 is stored in, an unsigned int.
LengthByte(j) == (((Length * 8) % UIntMod) \div <<1, 256, 65536, 16777216>>[j + 1]) % 256

AddLength ==
  /\ pc = "length"
  /\ LET at == Num * 64 - 8 IN
     strByte' = [j \in Bytes |->
                  IF j \in at .. at + 3 THEN LengthByte(j - at) ELSE strByte[j]]
  /\ pc' = "loop" /\ k' = 0
  /\ UNCHANGED <<str, block, mixed>>

\* Seeded fault: an even factor in the last round.
G_Even(i) ==
  CASE i < 16 -> i
    [] i >= 16 /\ i < 32 -> (5 * i + 1) % 16
    [] i >= 32 /\ i < 48 -> (3 * i + 5) % 16
    [] i >= 48 -> (6 * i) % 16

\* g of mainLoop, the word of the block that step i mixes in.
G(i) ==
  CASE i < 16 -> i
    [] i >= 16 /\ i < 32 -> (5 * i + 1) % 16
    [] i >= 32 /\ i < 48 -> (3 * i + 5) % 16
    [] i >= 48 -> (7 * i) % 16

MainLoop ==
  /\ pc = "loop" /\ block < Num /\ k < 64
  /\ mixed' = [mixed EXCEPT ![block * 16 + G(k)] = @ + 1]
  /\ k' = k + 1
  /\ UNCHANGED <<str, pc, block, strByte>>

NextBlock ==
  /\ pc = "loop" /\ k = 64
  /\ block' = block + 1
  /\ k' = 0
  /\ pc' = IF block' = Num THEN "done" ELSE pc
  /\ UNCHANGED <<str, strByte, mixed>>

Next == AddByte \/ BytesEnd \/ AddMark \/ AddLength \/ MainLoop \/ NextBlock

Spec == Init /\ [][Next]_vars
-----------------------------------------------------------------------------
LengthAt == Num * 64 - 8

\* What the length is read back as by MD5: eight bytes as one number, the lowest first.
LengthRead ==
  LET b(j) == strByte[LengthAt + j]
  IN  b(0) + 256 * (b(1) + 256 * (b(2) + 256 * (b(3) + 256 * (b(4) +
        256 * (b(5) + 256 * (b(6) + 256 * b(7)))))))

\* MD5.h, lines 73-78: after add() the string is followed by a 1 bit and zeros up to 56
\* bytes modulo 64, as far as no sign of a char spoils its word; then by eight bytes
\* that read as its length in bits, as far as an unsigned int counts those; and all
\* this, at every length, in as few blocks as hold it.
PaddedAsMd5 ==
  pc \in {"loop", "done"} =>
    /\ NoSpill => \A j \in 0 .. LengthAt - 1 :
         strByte[j] = IF j < Length THEN str[j + 1] ELSE IF j = Length THEN 128 ELSE 0
    /\ Length * 8 < UIntMod => LengthRead = Length * 8
    /\ Num * 64 - 64 < Length + 9 /\ Length + 9 <= Num * 64

\* MD5.h, line 88: an unsigned int holds four bytes, the information of four chars;
\* so each char of the string is found again in its byte.
CharsKept == pc # "bytes" => \A j \in 0 .. Length - 1 : strByte[j] = str[j + 1]

\* Every word of the padded string is mixed in once in each of the four rounds.
EveryWordMixed ==
  /\ pc = "done" => \A w \in Words : mixed[w] = 4
  /\ pc = "loop" /\ k % 16 = 0 => \A w \in 0..15 : mixed[block * 16 + w] = k \div 16
=============================================================================
