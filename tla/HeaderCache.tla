----------------------------- MODULE HeaderCache -----------------------------
(***************************************************************************)
(* HeaderByHash of the BNB client: a cache in front of the node, keyed by  *)
(* the hash that the program computes of the header it decoded, not by the *)
(* hash it asked for.  It is filled before the error of the call is looked *)
(* at, with whatever the call left behind: a header, part of one, or nil.  *)
(* Nothing goes wrong as long as the computed hash is the chain's for the  *)
(* headers of every fork, which have one optional field more each, and no  *)
(* block's for the rest.                                                   *)
(*                                                                         *)
(* A hash is what is hashed: the RLP encoding.  Of a header the model      *)
(* keeps one value for all required fields, one for those that a JSON      *)
(* answer may lack (miner, mixHash, nonce), and the optional ones.         *)
(***************************************************************************)
EXTENDS Integers, SequencesExt

CONSTANTS
  Block,      \* the blocks of the chain
  CacheSize,  \* BlockHeaderCacheSize
  Nil,        \* a nil pointer, an empty string of RLP; in JSON, a field that is missing
  Missing     \* required fields, one of which at least is missing

\* BaseFee, WithdrawalsHash, BlobGasUsed, ExcessBlobGas, ParentBeaconRoot; the
\* chain has one more, of a fork that the struct does not know.
Field      == 1..5
ChainField == 1..6
Numeric    == {1, 3, 4}
Later      == 6

\* The values of the optional fields; 0 is a number.
Value == {0, 1}

ASSUME HeaderAssumption ==
  /\ CacheSize \in Nat \ {0}
  /\ Nil \notin Value /\ Missing \notin Nat /\ Nil # Missing
  /\ Block \subseteq [req : Nat, plain : Nat, opt : [ChainField -> Value \cup {Nil}]]

Header == [req : Nat \cup {Missing}, plain : Nat, opt : [Field -> Value \cup {Nil}]]

\* What is hashed of a header: the optional fields are those that are written.
Code ==
  [req : Nat \cup {Missing}, plain : Nat,
   opt : UNION {[w -> Value \cup {Nil}] : w \in SUBSET ChainField}]

\* Neither a header nor the encoding of one is nil.
ASSUME NilAssumption == Nil \notin Code

VARIABLES
  cache,  \* blockHeaderCache, most recently used first: [key, header]
  call    \* the last call: [asked, header, err, whole]; whole: the node's answer
          \* held every field of the block

headerVars == <<cache, call>>

-----------------------------------------------------------------------------
\* The encoding that is hashed.  An empty string stands for nil and for 0.

EncodeField(i, v) == IF v = 0 /\ i \in Numeric THEN Nil ELSE v

Encoding(req, plain, opt, written) ==
  [req |-> req, plain |-> plain, opt |-> [i \in written |-> EncodeField(i, opt[i])]]

\* The chain's, external: the fields up to the last one that the fork has.
ChainHash(b) ==
  Encoding(b.req, b.plain, b.opt,
           {i \in ChainField : \E j \in ChainField : i <= j /\ b.opt[j] # Nil})

\* Mutant of Written: a zero at the end is left out like a nil.
WrittenUnlessZero(opt) ==
  {i \in Field : \E j \in Field : i <= j /\ EncodeField(j, opt[j]) # Nil}

\* An optional field is written if it or a later one is there.
Written(opt) == {i \in Field : \E j \in Field : i <= j /\ opt[j] # Nil}

\* Hash; the nil header encodes as an empty list.
Hash(h) == IF h = Nil THEN Nil ELSE Encoding(h.req, h.plain, h.opt, Written(h.opt))

-----------------------------------------------------------------------------
\* The node's answer, and what UnmarshalJSON makes of it: a field of a later
\* fork is dropped, one that is missing and not required stays zero, and at the
\* first required one that is missing the rest is not looked at.

Answers(b) == {b, [b EXCEPT !.plain = Missing], [b EXCEPT !.req = Missing]}

Unmarshal(json) ==
  IF json.req = Missing
  THEN [req |-> Missing, plain |-> 0, opt |-> [i \in Field |-> Nil]]
  ELSE [req |-> json.req, plain |-> IF json.plain = Missing THEN 0 ELSE json.plain,
        opt |-> [i \in Field |-> json.opt[i]]]

-----------------------------------------------------------------------------
NoCall == [asked |-> Nil, header |-> Nil, err |-> TRUE, whole |-> FALSE]

HeaderTypeOK ==
  /\ Len(cache) <= CacheSize
  /\ \A i \in DOMAIN cache :
       /\ cache[i].header \in Header \cup {Nil}
       /\ cache[i].key = Hash(cache[i].header)
  /\ call \in [asked : Block \cup {Nil}, header : Header \cup {Nil},
               err : BOOLEAN, whole : BOOLEAN]

HeaderInit == cache = <<>> /\ call = NoCall

\* The entry is the newest; it replaces the one of its key, or the oldest goes
\* if there are too many.
Add(key, h) ==
  LET entry == [key |-> key, header |-> h] IN
  \/ \E i \in DOMAIN cache :
       cache[i].key = key /\ cache' = <<entry>> \o RemoveAt(cache, i)
  \/ /\ \A i \in DOMAIN cache : cache[i].key # key
     /\ cache' = <<entry>> \o (IF Len(cache) = CacheSize THEN Front(cache) ELSE cache)

Return(b, h, err, whole) ==
  call' = [asked |-> b, header |-> h, err |-> err, whole |-> whole]

Cached(b) == \E i \in DOMAIN cache : cache[i].key = ChainHash(b)

GetCached(b) ==
  \E i \in DOMAIN cache :
    /\ cache[i].key = ChainHash(b)
    /\ cache' = <<cache[i]>> \o RemoveAt(cache, i)
    /\ Return(b, cache[i].header, FALSE, FALSE)

GetHeader(b) ==
  /\ ~Cached(b)
  /\ \E json \in Answers(b) :
       /\ Add(Hash(Unmarshal(json)), Unmarshal(json))
       /\ Return(b, Unmarshal(json), json.req = Missing, json = b)

\* Mutant of GetNothing: the nil header is stored under the hash asked for.
GetNothingUnderAsked(b) ==
  /\ ~Cached(b)
  /\ Add(ChainHash(b), Nil)
  /\ Return(b, Nil, TRUE, FALSE)

\* The call fails, or the node does not know the block.
GetNothing(b) ==
  /\ ~Cached(b)
  /\ Add(Hash(Nil), Nil)
  /\ Return(b, Nil, TRUE, FALSE)

HeaderByHash(b) == GetCached(b) \/ GetHeader(b) \/ GetNothing(b)

HeaderNext == \E b \in Block : HeaderByHash(b)

HeaderSpec == HeaderInit /\ [][HeaderNext]_headerVars

-----------------------------------------------------------------------------
(* Whoever gets no error gets a header, and its receipt root and time are  *)
(* those of the block asked for, although a failed call leaves a nil       *)
(* header, and a malformed answer part of a header, in the cache.          *)
(* (HeaderByHash adds before it returns the error)                         *)
AnswerIsAsked ==
  ~call.err => call.header # Nil /\ call.header.req = call.asked.req

(* A block of any fork the struct knows is found again: the hash computed  *)
(* of the header that was decoded is the hash that will be asked for.      *)
(* (EncodeRLP against the optional fields, whose zero is not nil)          *)
FoundAgain ==
  call.whole /\ call.asked.opt[Later] = Nil => Cached(call.asked)
=============================================================================
