----------------------------- MODULE Sequential -----------------------------
(* The parts that work by themselves on data of their own: the command line
   parser, MD5, the hash of names, and the console command close.  A behaviour
   is a run of one of them, while the others stay as they began. *)
EXTENDS Options

CONSTANTS
  Strings, UIntMod,                       \* of Md5, Strings for its Messages
  HashBytes, HashModulus, HashLength,     \* of Hash
  Guids, Counts, IntMax                   \* of Console

VARIABLES
  part,         \* which of them this behaviour is a run of
  md_str, md_pc, md_k, md_block, md_strByte, md_mixed,
  ha_val, ha_length, ha_apart,
  co_status, co_pc, co_n, co_todo, co_count, co_found, co_marked

mdVars == <<md_str, md_pc, md_k, md_block, md_strByte, md_mixed>>
haVars == <<ha_val, ha_length, ha_apart>>
coVars == <<co_status, co_pc, co_n, co_todo, co_count, co_found, co_marked>>

-----------------------------------------------------------------------------
Md == INSTANCE Md5 WITH
  Messages <- Strings, str <- md_str, pc <- md_pc, k <- md_k, block <- md_block,
  strByte <- md_strByte, mixed <- md_mixed

Ha == INSTANCE Hash WITH
  Bytes <- HashBytes, Modulus <- HashModulus, MaxLength <- HashLength,
  val <- ha_val, length <- ha_length, apart <- ha_apart

Co == INSTANCE Console WITH
  status <- co_status, pc <- co_pc, n <- co_n,
  todo <- co_todo, count <- co_count, found <- co_found, marked <- co_marked

ASSUME SequentialAssumption ==
  /\ Md!Md5Assumption /\ Ha!HashAssumption /\ Co!ConsoleAssumption
  /\ <<>> \in Strings

\* The parts that do not run have nothing to do: an empty command line, an empty string.
SequentialInit ==
  /\ part \in {"options", "md5", "hash", "close"}
  /\ Init /\ Md!Init /\ Ha!Init /\ Co!Init
  /\ part # "options" => argv = <<>> /\ lines = CHOOSE d \in Declarations : TRUE
  /\ part # "md5" => md_str = <<>>

SequentialNext ==
  /\ UNCHANGED part
  /\ \/ part = "options" /\ Next /\ UNCHANGED <<mdVars, haVars, coVars>>
     \/ part = "md5" /\ Md!Next /\ UNCHANGED <<vars, haVars, coVars>>
     \/ part = "hash" /\ Ha!Next /\ UNCHANGED <<vars, mdVars, coVars>>
     \/ part = "close" /\ Co!Next /\ UNCHANGED <<vars, mdVars, haVars>>

SequentialSpec ==
  /\ SequentialInit
  /\ [][SequentialNext]_<<part, vars, mdVars, haVars, coVars>>
  /\ WF_vars(Next /\ part = "options" /\ UNCHANGED <<part, mdVars, haVars, coVars>>)

-----------------------------------------------------------------------------
\* Every variable of each part has its type.
PartsTypeOK == TypeOK /\ Md!TypeOK /\ Ha!TypeOK /\ Co!TypeOK

\* The parser comes to its end.
ParserEnds == part = "options" => ParseEnds

\* What Md5, Hash and Console say of their parts.
PaddedAsMd5 == Md!PaddedAsMd5
CharsKept == Md!CharsKept
EveryWordMixed == Md!EveryWordMixed
OneByteApart == Ha!OneByteApart
MarksCount == Co!MarksCount
=============================================================================
