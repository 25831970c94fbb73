-------------------------- MODULE HeaderCacheProofs --------------------------
(***************************************************************************)
(* Proofs about the header cache: whatever its size and the chain, its     *)
(* entries hold the header of their key, so that a hit answers with the    *)
(* block that was asked for, and a whole answer is a hit from then on.     *)
(***************************************************************************)
EXTENDS HeaderCache, SequenceTheorems, TLAPS

\* What Add may have stored: a header, part of one or nil, under its hash.
Entry == {[key |-> Hash(h), header |-> h] : h \in Header \cup {Nil}}

CacheInv == cache \in Seq(Entry) /\ Len(cache) <= CacheSize

CallType ==
  call \in [asked : Block \cup {Nil}, header : Header \cup {Nil},
            err : BOOLEAN, whole : BOOLEAN]

HeaderInv == CacheInv /\ CallType /\ AnswerIsAsked /\ FoundAgain

-----------------------------------------------------------------------------
\* Lemmas about the encoding.

(* What is hashed is not nil, and holds the required fields.               *)
LEMMA EncodingInCode ==
  ASSUME NEW req \in Nat \cup {Missing}, NEW plain \in Nat,
         NEW written \in SUBSET ChainField, NEW opt,
         \A i \in written : opt[i] \in Value \cup {Nil}
  PROVE  /\ Encoding(req, plain, opt, written) \in Code
         /\ Encoding(req, plain, opt, written) # Nil
         /\ Encoding(req, plain, opt, written).req = req
<1> DEFINE o == [i \in written |-> EncodeField(i, opt[i])]
<1>1. \A i \in written : EncodeField(i, opt[i]) \in Value \cup {Nil}
  BY DEF EncodeField
<1>2. o \in [written -> Value \cup {Nil}]
  BY <1>1
<1>3. o \in UNION {[w -> Value \cup {Nil}] : w \in SUBSET ChainField}
  BY <1>2
<1> HIDE DEF o
<1>4. [req |-> req, plain |-> plain, opt |-> o] \in Code
  BY <1>3 DEF Code
<1> QED BY <1>4, NilAssumption DEF Encoding, o

(* A header that was decoded is not nil, and neither is its hash.          *)
LEMMA HashOfHeader ==
  ASSUME NEW h \in Header
  PROVE  h # Nil /\ Hash(h) # Nil /\ Hash(h).req = h.req
<1>1. /\ h.req \in Nat \cup {Missing} /\ h.plain \in Nat
      /\ h.opt \in [Field -> Value \cup {Nil}]
      /\ h = [req |-> h.req, plain |-> h.plain, opt |-> h.opt]
  BY DEF Header
<1>2. h # Nil
  <2>1. Field \in SUBSET ChainField BY DEF Field, ChainField
  <2>2. h.opt \in UNION {[w -> Value \cup {Nil}] : w \in SUBSET ChainField}
    BY <1>1, <2>1
  <2>3. h \in Code BY <1>1, <2>2 DEF Code
  <2> QED BY <2>3, NilAssumption
<1>3. Written(h.opt) \in SUBSET ChainField /\ Written(h.opt) \subseteq Field
  BY DEF Written, Field, ChainField
<1>4. \A i \in Written(h.opt) : h.opt[i] \in Value \cup {Nil}
  BY <1>1, <1>3
<1> QED BY <1>1, <1>2, <1>3, <1>4, EncodingInCode DEF Hash

(* The chain's hash of a block holds its required fields.                  *)
LEMMA HashOfBlock ==
  ASSUME NEW b \in Block
  PROVE  ChainHash(b) # Nil /\ ChainHash(b).req = b.req
<1>1. /\ b.req \in Nat /\ b.plain \in Nat
      /\ b.opt \in [ChainField -> Value \cup {Nil}]
  BY HeaderAssumption
<1> DEFINE w == {i \in ChainField : \E j \in ChainField : i <= j /\ b.opt[j] # Nil}
<1>2. w \in SUBSET ChainField OBVIOUS
<1>3. \A i \in w : b.opt[i] \in Value \cup {Nil} BY <1>1, <1>2
<1>4. ChainHash(b) = Encoding(b.req, b.plain, b.opt, w) BY DEF ChainHash
<1> HIDE DEF w
<1> QED BY <1>1, <1>2, <1>3, <1>4, EncodingInCode

(* An answer that has the required fields is decoded with them, one that   *)
(* lacks one is decoded as a header that lacks one.                        *)
LEMMA UnmarshalType ==
  ASSUME NEW b \in Block, NEW json \in Answers(b)
  PROVE  /\ Unmarshal(json) \in Header
         /\ json.req # Missing => Unmarshal(json).req = b.req
<1>1. /\ b.req \in Nat /\ b.plain \in Nat
      /\ b.opt \in [ChainField -> Value \cup {Nil}]
      /\ b \in [req : Nat, plain : Nat, opt : [ChainField -> Value \cup {Nil}]]
  BY HeaderAssumption
<1>2. /\ json.req \in {b.req, Missing} /\ json.plain \in {b.plain, Missing}
      /\ json.opt = b.opt
  BY <1>1 DEF Answers
<1>3. \A i \in Field : json.opt[i] \in Value \cup {Nil}
  BY <1>1, <1>2 DEF Field, ChainField
<1>4. CASE json.req = Missing
  BY <1>4 DEF Unmarshal, Header
<1>5. CASE json.req # Missing
  <2>1. [i \in Field |-> json.opt[i]] \in [Field -> Value \cup {Nil}]
    BY <1>3
  <2>2. (IF json.plain = Missing THEN 0 ELSE json.plain) \in Nat
    BY <1>1, <1>2
  <2>3. Unmarshal(json) =
          [req |-> json.req, plain |-> IF json.plain = Missing THEN 0 ELSE json.plain,
           opt |-> [i \in Field |-> json.opt[i]]]
    BY <1>5 DEF Unmarshal
  <2> QED BY <1>1, <1>2, <1>5, <2>1, <2>2, <2>3 DEF Header
<1> QED BY <1>4, <1>5

(* Of a block without fields of a later fork the struct keeps all that is  *)
(* hashed, zero or not.                                                    *)
LEMMA HashFound ==
  ASSUME NEW b \in Block, b.opt[Later] = Nil
  PROVE  Hash(Unmarshal(b)) = ChainHash(b)
<1>1. /\ b.req \in Nat /\ b.plain \in Nat /\ b.req # Missing /\ b.plain # Missing
      /\ b.opt \in [ChainField -> Value \cup {Nil}]
  BY HeaderAssumption
<1> DEFINE o == [i \in Field |-> b.opt[i]]
           w == {i \in ChainField : \E j \in ChainField : i <= j /\ b.opt[j] # Nil}
<1>2. /\ Unmarshal(b).req = b.req /\ Unmarshal(b).plain = b.plain
      /\ Unmarshal(b).opt = o
  BY <1>1 DEF Unmarshal
<1>3. Unmarshal(b) # Nil
  BY UnmarshalType, HashOfHeader DEF Answers
<1>4. Written(o) = w
  BY DEF Written, Field, ChainField, Later
<1>5. w \subseteq Field
  BY <1>4 DEF Written
<1>6. [i \in w |-> EncodeField(i, o[i])] = [i \in w |-> EncodeField(i, b.opt[i])]
  BY <1>5
<1> QED BY <1>2, <1>3, <1>4, <1>6 DEF Hash, ChainHash, Encoding

-----------------------------------------------------------------------------
\* Lemmas about the cache.

(* Whoever stores an entry stores it under its own hash.                   *)
LEMMA EntryFields ==
  ASSUME NEW e \in Entry
  PROVE  e.header \in Header \cup {Nil} /\ e.key = Hash(e.header)
  BY DEF Entry

(* An entry of a block's hash holds a header of that block.                *)
LEMMA HitIsAsked ==
  ASSUME NEW b \in Block, NEW e \in Entry, e.key = ChainHash(b)
  PROVE  e.header \in Header /\ e.header # Nil /\ e.header.req = b.req
<1>1. e.header # Nil BY EntryFields, HashOfBlock DEF Hash
<1>2. e.header \in Header BY <1>1, EntryFields
<1> QED BY <1>1, <1>2, EntryFields, HashOfBlock, HashOfHeader

(* An entry that is used leaves one less behind.                           *)
LEMMA Removed ==
  ASSUME CacheInv, NEW i \in DOMAIN cache
  PROVE  RemoveAt(cache, i) \in Seq(Entry) /\ Len(RemoveAt(cache, i)) = Len(cache) - 1
<1> DEFINE low == SubSeq(cache, 1, i - 1)
           high == SubSeq(cache, i + 1, Len(cache))
<1>1. cache \in Seq(Entry) /\ Len(cache) \in Nat /\ i \in 1..Len(cache)
  BY DEF CacheInv
<1>2. low \in Seq(Entry) /\ Len(low) = i - 1
  BY <1>1, SubSeqProperties
<1>3. high \in Seq(Entry) /\ Len(high) = Len(cache) - i
  BY <1>1, SubSeqProperties
<1>4. RemoveAt(cache, i) = low \o high BY DEF RemoveAt
<1> HIDE DEF low, high
<1>5. low \o high \in Seq(Entry) /\ Len(low \o high) = Len(low) + Len(high)
  BY <1>2, <1>3, ConcatProperties
<1> QED BY <1>1, <1>2, <1>3, <1>4, <1>5

(* What is put in front of fewer than CacheSize entries is in the cache.   *)
LEMMA InFront ==
  ASSUME NEW e \in Entry, NEW rest \in Seq(Entry), Len(rest) < CacheSize,
         cache' = <<e>> \o rest
  PROVE  CacheInv' /\ 1 \in DOMAIN cache' /\ cache'[1] = e
<1>1. CacheSize \in Nat BY HeaderAssumption
<1>2. <<e>> \in Seq(Entry) /\ Len(<<e>>) = 1 /\ <<e>>[1] = e OBVIOUS
<1>3. Len(rest) \in Nat BY LenProperties
<1>4. /\ cache' \in Seq(Entry) /\ Len(cache') = 1 + Len(rest) /\ cache'[1] = e
  BY <1>2, <1>3, ConcatProperties
<1>5. DOMAIN cache' = 1..Len(cache') BY <1>4, LenProperties
<1> QED BY <1>1, <1>3, <1>4, <1>5 DEF CacheInv

(* Add leaves the header under its hash, however full the cache was.       *)
LEMMA AddKeepsCache ==
  ASSUME CacheInv, NEW h \in Header \cup {Nil}, Add(Hash(h), h)
  PROVE  CacheInv' /\ 1 \in DOMAIN cache' /\ cache'[1].key = Hash(h)
<1> DEFINE e == [key |-> Hash(h), header |-> h]
<1>1. e \in Entry BY DEF Entry
<1>2. /\ CacheSize \in Nat \ {0} /\ cache \in Seq(Entry) /\ Len(cache) \in Nat
      /\ Len(cache) <= CacheSize
  BY HeaderAssumption DEF CacheInv
<1>3. e.key = Hash(h) OBVIOUS
<1>4. \/ \E i \in DOMAIN cache : cache' = <<e>> \o RemoveAt(cache, i)
      \/ cache' = <<e>> \o (IF Len(cache) = CacheSize THEN Front(cache) ELSE cache)
  BY DEF Add
<1> HIDE DEF e
<1>5. CASE \E i \in DOMAIN cache : cache' = <<e>> \o RemoveAt(cache, i)
  <2>1. PICK i \in DOMAIN cache : cache' = <<e>> \o RemoveAt(cache, i) BY <1>5
  <2>2. RemoveAt(cache, i) \in Seq(Entry) /\ Len(RemoveAt(cache, i)) = Len(cache) - 1
    BY Removed
  <2> DEFINE rest == RemoveAt(cache, i)
  <2>3. rest \in Seq(Entry) /\ cache' = <<e>> \o rest BY <2>1, <2>2
  <2>4. Len(rest) < CacheSize BY <1>2, <2>2
  <2> HIDE DEF rest
  <2>5. CacheInv' /\ 1 \in DOMAIN cache' /\ cache'[1] = e
    BY <1>1, <2>3, <2>4, InFront
  <2> QED BY <1>3, <2>5
<1>6. CASE cache' = <<e>> \o (IF Len(cache) = CacheSize THEN Front(cache) ELSE cache)
  <2>1. CASE Len(cache) = CacheSize
    <3>1. Front(cache) \in Seq(Entry) /\ Len(Front(cache)) = Len(cache) - 1
      BY <1>2, <2>1, SubSeqProperties DEF Front
    <3>2. cache' = <<e>> \o Front(cache) BY <1>6, <2>1
    <3>3. Len(Front(cache)) < CacheSize BY <1>2, <3>1
    <3>4. CacheInv' /\ 1 \in DOMAIN cache' /\ cache'[1] = e
      BY <1>1, <3>1, <3>2, <3>3, InFront
    <3> QED BY <1>3, <3>4
  <2>2. CASE Len(cache) # CacheSize
    <3>1. cache' = <<e>> \o cache /\ Len(cache) < CacheSize BY <1>2, <1>6, <2>2
    <3>2. CacheInv' /\ 1 \in DOMAIN cache' /\ cache'[1] = e
      BY <1>1, <1>2, <3>1, InFront
    <3> QED BY <1>3, <3>2
  <2> QED BY <2>1, <2>2
<1> QED BY <1>4, <1>5, <1>6

-----------------------------------------------------------------------------
\* The invariant.

(* The cache starts empty, and no call has been made.                      *)
LEMMA HeaderInitOK == HeaderInit => HeaderInv
<1> SUFFICES ASSUME HeaderInit PROVE HeaderInv OBVIOUS
<1>1. cache \in Seq(Entry) /\ Len(cache) = 0 BY EmptySeq DEF HeaderInit
<1>2. CacheInv BY <1>1, HeaderAssumption DEF CacheInv
<1> QED BY <1>2
    DEF HeaderInit, HeaderInv, NoCall, CallType, AnswerIsAsked, FoundAgain

(* Every outcome of a call keeps the invariant.                            *)
LEMMA HeaderStep == HeaderInv /\ [HeaderNext]_headerVars => HeaderInv'
<1> SUFFICES ASSUME HeaderInv, [HeaderNext]_headerVars PROVE HeaderInv' OBVIOUS
<1> USE DEF HeaderInv
<1>1. ASSUME NEW b \in Block, GetCached(b) PROVE HeaderInv'
  <2>1. PICK i \in DOMAIN cache :
          /\ cache[i].key = ChainHash(b)
          /\ cache' = <<cache[i]>> \o RemoveAt(cache, i)
          /\ Return(b, cache[i].header, FALSE, FALSE)
    BY <1>1 DEF GetCached
  <2>2. /\ cache[i] \in Entry /\ CacheSize \in Nat
        /\ Len(cache) \in Nat /\ Len(cache) <= CacheSize
    BY HeaderAssumption DEF CacheInv
  <2>3. RemoveAt(cache, i) \in Seq(Entry) /\ Len(RemoveAt(cache, i)) < CacheSize
    BY <2>2, Removed
  <2>4. CacheInv' BY <2>1, <2>2, <2>3, InFront
  <2>5. /\ cache[i].header \in Header /\ cache[i].header # Nil
        /\ cache[i].header.req = b.req
    BY <2>1, <2>2, HitIsAsked
  <2> QED BY <2>1, <2>4, <2>5 DEF Return, CallType, AnswerIsAsked, FoundAgain
<1>2. ASSUME NEW b \in Block, GetHeader(b) PROVE HeaderInv'
  <2>1. PICK json \in Answers(b) :
          /\ Add(Hash(Unmarshal(json)), Unmarshal(json))
          /\ Return(b, Unmarshal(json), json.req = Missing, json = b)
    BY <1>2 DEF GetHeader
  <2>2. /\ Unmarshal(json) \in Header /\ Unmarshal(json) # Nil
        /\ json.req # Missing => Unmarshal(json).req = b.req
    BY UnmarshalType, HashOfHeader
  <2>3. CacheInv' /\ 1 \in DOMAIN cache' /\ cache'[1].key = Hash(Unmarshal(json))
    BY <2>1, <2>2, AddKeepsCache
  <2>4. /\ call'.asked = b /\ call'.header = Unmarshal(json)
        /\ call'.err = (json.req = Missing) /\ call'.whole = (json = b)
    BY <2>1 DEF Return
  <2>5. CallType'
    BY <2>1, <2>2 DEF Return, CallType
  <2>6. AnswerIsAsked' BY <2>2, <2>4 DEF AnswerIsAsked
  <2>7. FoundAgain'
    BY <2>3, <2>4, HashFound DEF FoundAgain, Cached
  <2> QED BY <2>3, <2>5, <2>6, <2>7
<1>3. ASSUME NEW b \in Block, GetNothing(b) PROVE HeaderInv'
  <2>1. Add(Hash(Nil), Nil) /\ Return(b, Nil, TRUE, FALSE) BY <1>3 DEF GetNothing
  <2>2. CacheInv' BY <2>1, AddKeepsCache
  <2> QED BY <2>1, <2>2 DEF Return, CallType, AnswerIsAsked, FoundAgain
<1>4. CASE UNCHANGED headerVars
  BY <1>4 DEF headerVars, CacheInv, CallType, AnswerIsAsked, FoundAgain, Cached
<1> QED BY <1>1, <1>2, <1>3, <1>4 DEF HeaderNext, HeaderByHash

(* Entries hold the header of their key, and the last answer is the one    *)
(* asked for, after any calls of HeaderByHash.                             *)
THEOREM HeaderInvariant == HeaderSpec => []HeaderInv
  BY HeaderInitOK, HeaderStep, PTL DEF HeaderSpec

(* HeaderByHash keeps at most CacheSize entries, each under the hash that  *)
(* is computed of its header, which may be nil or lack fields.             *)
THEOREM HeaderTypeCorrect == HeaderSpec => []HeaderTypeOK
<1>1. HeaderInv => HeaderTypeOK
  <2> SUFFICES ASSUME HeaderInv PROVE HeaderTypeOK OBVIOUS
  <2>1. \A i \in DOMAIN cache : cache[i] \in Entry BY DEF HeaderInv, CacheInv
  <2> QED BY <2>1, EntryFields DEF HeaderInv, CacheInv, CallType, HeaderTypeOK
<1> QED BY <1>1, HeaderInvariant, PTL

(* A call of HeaderByHash that returns no error returns a header, and its  *)
(* required fields are those of the block asked for: no failed call and no *)
(* malformed answer before it has left anything under that block's hash.   *)
THEOREM AnswerIsAlwaysAsked == HeaderSpec => []AnswerIsAsked
<1>1. HeaderInv => AnswerIsAsked BY DEF HeaderInv
<1> QED BY <1>1, HeaderInvariant, PTL

(* EncodeRLP writes the optional fields that UnmarshalJSON kept so that a  *)
(* whole answer about a block of a fork the struct knows, whatever the     *)
(* values of its fields, is under the hash the next caller asks for.       *)
THEOREM WholeAnswerFoundAgain == HeaderSpec => []FoundAgain
<1>1. HeaderInv => FoundAgain BY DEF HeaderInv
<1> QED BY <1>1, HeaderInvariant, PTL
=============================================================================
