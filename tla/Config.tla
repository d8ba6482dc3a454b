------------------------------- MODULE Config -------------------------------
(***************************************************************************)
(* Config::from_args, combined_streams and shard_symbols                   *)
(* (src/src/config.cpp): which symbols are captured, and which connection  *)
(* carries which of them.  Arguments are read one per step; a later one    *)
(* replaces an earlier one.  Options that only set a flag or a path do not *)
(* bear on the symbols and are left out, but for --replay.                 *)
(***************************************************************************)
EXTENDS FiniteSetsExt, Integers, SequencesExt

CONSTANTS
  Symbol,                \* upper-case symbols
  MaxTokens,             \* bound on the tokens of one --symbols value
  ShardArgs,             \* the values of --shards, after atoi
  MaxArgs,               \* bound on the arguments
  KMaxCombinedStreams    \* kMaxCombinedStreams

ASSUME ConfigAssumption ==
  /\ MaxTokens \in Nat /\ MaxArgs \in Nat
  /\ ShardArgs \subseteq Int
  /\ KMaxCombinedStreams \in Nat \ {0}

VARIABLES
  symbols,   \* Config::symbols
  shards,    \* Config::shards
  replay,    \* Config::replay_input is not empty
  err,       \* err, "none" when empty
  argi,      \* arguments read
  parsed,    \* from_args has returned
  asked      \* history: the symbols the last --symbols value names

configVars == <<symbols, shards, replay, err, argi, parsed, asked>>

ConfigInit ==
  /\ symbols = <<>> /\ shards = 1 /\ replay = FALSE
  /\ err = "none" /\ argi = 0 /\ parsed = FALSE
  /\ asked = {}

(* A token of a --symbols value: a symbol in either case, or nothing       *)
(* between two commas.                                                     *)
Token == (Symbol \X {"upper", "lower"}) \cup {<<>>}

(* The entries of list at the positions in S, in their order.              *)
Rank(S, i) == Cardinality({j \in S : j <= i})
Kept(list, S) ==
  [k \in 1..Cardinality(S) |-> list[CHOOSE i \in S : Rank(S, i) = k]]

split_csv(value) == Kept(value, {i \in DOMAIN value : value[i] # <<>>})

toupper(tokens) == [i \in DOMAIN tokens |-> tokens[i][1]]

-----------------------------------------------------------------------------

NextArg == ~parsed /\ err = "none" /\ argi < MaxArgs /\ argi' = argi + 1

ArgSymbols ==
  /\ NextArg
  /\ \E value \in BoundedSeq(Token, MaxTokens) :
       /\ symbols' = toupper(split_csv(value))
       /\ asked' = {s \in Symbol : \E i \in DOMAIN value : value[i] # <<>> /\ value[i][1] = s}
  /\ UNCHANGED <<shards, replay, err, parsed>>

ArgShards ==
  /\ NextArg
  /\ \E v \in ShardArgs : shards' = IF v < 1 THEN 1 ELSE v
  /\ UNCHANGED <<symbols, replay, err, parsed, asked>>

(* The path may be empty, which takes an earlier one back.                 *)
ArgReplay ==
  /\ NextArg
  /\ replay' \in BOOLEAN
  /\ UNCHANGED <<symbols, shards, err, parsed, asked>>

(* An unknown argument, a missing or invalid value, or --help: from_args   *)
(* returns at once.                                                        *)
ArgStops ==
  /\ NextArg
  /\ err' \in {"usage", "help"}
  /\ parsed' = TRUE
  /\ UNCHANGED <<symbols, shards, replay, asked>>

Uniq_Neighbours(list) ==
  FoldLeft(LAMBDA uniq, s : IF uniq # <<>> /\ Last(uniq) = s THEN uniq ELSE Append(uniq, s),
           <<>>, list)

(* The symbols without repetitions, in the order of their first mention.   *)
Uniq(list) == Kept(list, {i \in DOMAIN list : \A j \in 1..(i - 1) : list[j] # list[i]})

KStreamsPerSymbol == 3

TooManyStreams(list) ==
  LET shard_count == Min({Len(list), shards})
      max_symbols_per_shard == (Len(list) + shard_count - 1) \div shard_count
  IN max_symbols_per_shard * KStreamsPerSymbol > KMaxCombinedStreams

(* The end of from_args.                                                   *)
ArgsEnd ==
  /\ ~parsed
  /\ parsed' = TRUE
  /\ symbols' = Uniq(symbols)
  /\ err' = IF replay THEN "none"
            ELSE IF symbols' = <<>> THEN "usage"
            ELSE IF TooManyStreams(symbols') THEN "streams"
            ELSE "none"
  /\ UNCHANGED <<shards, replay, argi, asked>>

ConfigNext == ArgSymbols \/ ArgShards \/ ArgReplay \/ ArgStops \/ ArgsEnd

-----------------------------------------------------------------------------

(* The number of shards, and the positions in symbols of each one's.       *)
ShardCount == IF shards > Len(symbols) THEN Max({1, Len(symbols)}) ELSE shards

shard_symbols ==
  [s \in 1..ShardCount |-> {i \in DOMAIN symbols : (i - 1) % ShardCount = s - 1}]

(* The streams a shard subscribes to, with repetitions if there are any.   *)
combined_streams(group) == group \X {"depth", "depth5", "trade"}

(* When from_args accepts a capture, every symbol asked for belongs to     *)
(* exactly one shard, at one place, no shard is without symbols (so the    *)
(* positions of clients and groups agree) and none subscribes to more      *)
(* streams than the exchange permits.  When it refuses one for the number  *)
(* of streams, the shards would indeed have had too many.                  *)
ShardsFit ==
  LET Fits(s) == Cardinality(combined_streams(shard_symbols[s])) <= KMaxCombinedStreams IN
  parsed /\ ~replay =>
    /\ err = "none" =>
         /\ \A sym \in asked :
              Cardinality({p \in (1..ShardCount) \X DOMAIN symbols :
                             p[2] \in shard_symbols[p[1]] /\ symbols[p[2]] = sym}) = 1
         /\ ToSet(symbols) = asked
         /\ \A s \in 1..ShardCount : shard_symbols[s] # {} /\ Fits(s)
    /\ err = "streams" => \E s \in 1..ShardCount : ~Fits(s)

=============================================================================
