---------------------------- MODULE OutputCodec ----------------------------
(***************************************************************************)
(* An output on its way through the encodings: from the bytes a peer sends *)
(* into an Output, from there into the stored transaction and the lists of *)
(* the utxo index, and back (src/core/outputhelper.go and the records of   *)
(* src/blockchain/chainstore.go).  Everything the readers meet is a stream *)
(* of numbers below Base; a hash, an integer of fixed width and a name are *)
(* one number of it.  TokenValue has as many as its amount needs, so its   *)
(* count, and where the next field begins, depends on the data.            *)
(***************************************************************************)
EXTENDS Naturals, Sequences, FiniteSets, SequencesExt

CONSTANTS
  Base,                  \* the numbers a byte tells apart (256)
  MaxTokenValueDataSize, \* the longest token value that is read (33)
  Wires,                 \* what peers send as the outputs of a transaction
  Registrations,         \* asset names and heights that are registered
  MaxTxs                 \* the number of transactions that are stored

ElaAssetId == 0

ElaName == 0

ASSUME BaseAssumption == Base \in Nat /\ Base > 1
ASSUME SizeAssumption == MaxTokenValueDataSize \in Nat \ {0}
ASSUME WiresAssumption == Wires \subseteq Seq(0 .. Base - 1)
ASSUME RegistrationsAssumption == Registrations \subseteq [Name : Nat, Height : Nat]

-----------------------------------------------------------------------------
(* Reading and writing fields (base library).                              *)

Fail(rest) == [ok |-> FALSE, val |-> 0, rest |-> rest]

ReadField(s) ==
  IF s = << >> THEN Fail(s) ELSE [ok |-> TRUE, val |-> Head(s), rest |-> Tail(s)]

WriteVarBytes(b) == <<Len(b)>> \o b

\* A count above max is refused before anything else is read.
ReadVarBytes(s, max) ==
  LET count == ReadField(s)
  IN  IF ~count.ok \/ count.val > max THEN Fail(count.rest)
      ELSE IF Len(count.rest) < count.val THEN Fail(<< >>)
      ELSE [ok |-> TRUE, val |-> SubSeq(s, 2, count.val + 1),
            rest |-> SubSeq(s, count.val + 2, Len(s))]

\* The count of the written elements, and one element after the other.
WriteList(written) == FoldLeft(LAMBDA w, e : w \o e, <<Len(written)>>, written)

\* big.Int: the number that big-endian bytes stand for; and the fewest bytes
\* that stand for v, none for zero.  A token value was read from as many as
\* may be read, so that there are no more of them.
SetBytes(b) == FoldLeft(LAMBDA v, d : v * Base + d, 0, b)

Digits(v) ==
  LET Written == {b \in BoundedSeq(0 .. Base - 1, MaxTokenValueDataSize) : SetBytes(b) = v}
  IN  CHOOSE b \in Written : \A c \in Written : Len(b) <= Len(c)

-----------------------------------------------------------------------------
(* Outputs, elements of the utxo lists, asset records.                     *)

\* Mutant of SerializeOutput: a token value is written like one of ELA.
SerializeOutputAsEla(o) == <<o.AssetID, o.Value % Base, o.OutputLock, o.ProgramHash>>

SerializeOutput(o) ==
  <<o.AssetID>>
  \o (IF o.AssetID = ElaAssetId THEN <<o.Value>> ELSE WriteVarBytes(Digits(o.Value)))
  \o <<o.OutputLock, o.ProgramHash>>

DeserializeOutput(s) ==
  LET asset == ReadField(s)
      value == IF asset.val = ElaAssetId THEN ReadField(asset.rest)
               ELSE ReadVarBytes(asset.rest, MaxTokenValueDataSize)
      lock  == ReadField(value.rest)
      hash  == ReadField(lock.rest)
  IN  IF ~(asset.ok /\ value.ok /\ lock.ok /\ hash.ok) THEN Fail(hash.rest)
      ELSE [ok |-> TRUE,
            val |-> [AssetID |-> asset.val,
                     Value |-> IF asset.val = ElaAssetId THEN value.val
                               ELSE SetBytes(value.val),
                     OutputLock |-> lock.val, ProgramHash |-> hash.val],
            rest |-> hash.rest]

\* The element of output o = outputs[i] of transaction t.
Utxo(t, i, o) ==
  [TxID |-> t, Index |-> i, AssetID |-> o.AssetID,
   Value |-> IF o.AssetID = ElaAssetId THEN <<o.Value>> ELSE Digits(o.Value)]

\* What an element is worth when it is shown.
Worth(u) == IF u.AssetID = ElaAssetId THEN Head(u.Value) ELSE SetBytes(u.Value)

SerializeUtxo(u) == <<u.TxID, u.Index, u.AssetID>> \o WriteVarBytes(u.Value)

\* Mutant of DeserializeUtxo: the byte for a sign is not allowed for.
DeserializeUtxoUnsigned(s) ==
  LET value == ReadVarBytes(SubSeq(s, 4, Len(s)), MaxTokenValueDataSize - 1)
  IN  [ok |-> TRUE,
       val |-> [TxID |-> s[1], Index |-> s[2], AssetID |-> s[3],
                Value |-> IF value.ok THEN value.val ELSE << >>],
       rest |-> value.rest]

\* The error of reading the value is swallowed.
DeserializeUtxo(s) ==
  LET value == ReadVarBytes(SubSeq(s, 4, Len(s)), MaxTokenValueDataSize)
  IN  IF Len(s) < 3 THEN Fail(<< >>)
      ELSE [ok |-> TRUE,
            val |-> [TxID |-> s[1], Index |-> s[2], AssetID |-> s[3],
                     Value |-> IF value.ok THEN value.val ELSE << >>],
            rest |-> value.rest]

\* One more element of a kind is read, until one cannot be.
ReadElement(kind, got) ==
  LET read == IF kind = "output" THEN DeserializeOutput(got.rest)
                                 ELSE DeserializeUtxo(got.rest)
  IN  IF ~got.ok THEN got
      ELSE [ok |-> read.ok, val |-> Append(got.val, read.val), rest |-> read.rest]

\* A count and as many elements.
ReadList(kind, s) ==
  LET count == ReadField(s)
  IN  FoldLeft(LAMBDA got, i : ReadElement(kind, got),
               [ok |-> count.ok, val |-> << >>, rest |-> count.rest],
               [i \in 1 .. count.val |-> i])

SerializeAsset(a) == <<a.Name, a.Height>>

\* ELA was stored by the base library, which writes no height.
DeserializeAsset(s) ==
  LET height == ReadField(Tail(s))
  IN  IF Head(s) = ElaName
      THEN [Name |-> ElaName, Height |-> 0, ok |-> TRUE]
      ELSE [Name |-> Head(s), Height |-> height.val, ok |-> height.ok]

-----------------------------------------------------------------------------
VARIABLES
  txs,      \* the stored transactions, by number: the bytes of their outputs
  lists,    \* the stored lists of the utxo index
  records,  \* the stored asset records
  accepted, \* the outputs of each transaction as they were first read
  spent,    \* the outputs that were spent
  registered  \* the assets that were registered, with ELA

codecVars == <<txs, lists, records, accepted, spent, registered>>

CodecInit ==
  /\ txs = << >> /\ lists = << >> /\ records = {<<ElaName>>}
  /\ accepted = << >> /\ spent = {} /\ registered = {[Name |-> ElaName, Height |-> 0]}

\* The outputs of transaction t (GetTransaction of the base library).
GetOutputs(t) == ReadList("output", txs[t])

GetUnspentElements(L, k) ==
  IF k \in DOMAIN L THEN ReadList("utxo", L[k]) ELSE Fail(<< >>)

\* The lists L with the list under key k written anew; an empty one is deleted.
PersistUnspents(L, k, elements) ==
  IF elements = << >>
  THEN [j \in DOMAIN L \ {k} |-> L[j]]
  ELSE [j \in DOMAIN L \cup {k} |->
          IF j = k
          THEN WriteList([i \in 1 .. Len(elements) |-> SerializeUtxo(elements[i])])
          ELSE L[j]]

Key(o) == <<o.ProgramHash, o.AssetID>>

\* The element of an output is added to the list of its key; a list that
\* cannot be read counts as empty.
AddUtxo(L, added) ==
  LET old == GetUnspentElements(L, added.key)
  IN  PersistUnspents(L, added.key,
                      Append(IF old.ok THEN old.val ELSE << >>, added.element))

\* A transaction is read from what a peer sent, and stored with its utxos.
Persist(wire) ==
  LET outputs == ReadList("output", wire)
      indexes == 1 .. Len(outputs.val)
  IN  /\ Len(txs) < MaxTxs
      /\ outputs.ok
      /\ txs' = Append(txs, WriteList([i \in indexes |-> SerializeOutput(outputs.val[i])]))
      /\ accepted' = Append(accepted, outputs.val)
      /\ lists' = FoldLeft(LAMBDA L, added : AddUtxo(L, added), lists,
                           [i \in indexes |->
                              [key |-> Key(outputs.val[i]),
                               element |-> Utxo(Len(txs) + 1, i, outputs.val[i])]])
      /\ UNCHANGED <<records, spent, registered>>

\* Output i of transaction t is spent: its element gives way to the last one
\* of its list, which is found by what the stored transaction says.
Spend(t, i) ==
  LET k == Key(GetOutputs(t).val[i])
      old == GetUnspentElements(lists, k)
  IN  /\ <<t, i>> \notin spent
      /\ GetOutputs(t).ok /\ old.ok
      /\ \E j \in 1 .. Len(old.val) :
           /\ old.val[j].TxID = t /\ old.val[j].Index = i
           /\ lists' = PersistUnspents(lists, k, Front([old.val EXCEPT ![j] = Last(old.val)]))
      /\ spent' = spent \cup {<<t, i>>}
      /\ UNCHANGED <<txs, records, accepted, registered>>

\* An asset is registered; the name of ELA is refused.
PersistAsset(a) ==
  /\ a.Name # ElaName
  /\ \A b \in registered : b.Name # a.Name
  /\ records' = records \cup {SerializeAsset(a)}
  /\ registered' = registered \cup {a}
  /\ UNCHANGED <<txs, lists, accepted, spent>>

CodecNext ==
  \/ \E wire \in Wires : Persist(wire)
  \/ \E t \in DOMAIN txs : \E i \in 1 .. Head(txs[t]) : Spend(t, i)
  \/ \E a \in Registrations : PersistAsset(a)

CodecSpec == CodecInit /\ [][CodecNext]_codecVars

-----------------------------------------------------------------------------
(* Properties.                                                             *)

\* A stored transaction has the outputs that it had when it came from the
\* peer, however the peer had padded their amounts (outputhelper.go).
TransactionsReadBack ==
  \A t \in DOMAIN txs : GetOutputs(t).ok /\ GetOutputs(t).val = accepted[t]

\* What the store wrote can be read: the lists hold the unspent outputs, each
\* with its worth, whatever amount was accepted and whatever stands before it
\* in its list; each asset has the name and the height it was registered with,
\* ELA included, whose record another library wrote.
RecordsReadBack ==
  /\ \A k \in DOMAIN lists : GetUnspentElements(lists, k).ok
  /\ UNION {{<<k, u.TxID, u.Index, Worth(u)>> : u \in ToSet(GetUnspentElements(lists, k).val)} :
               k \in DOMAIN lists}
     = UNION {{<<Key(accepted[t][i]), t, i, accepted[t][i].Value>> :
                 i \in {j \in DOMAIN accepted[t] : <<t, j>> \notin spent}} :
                t \in DOMAIN accepted}
  /\ \A a \in registered :
       \E s \in records :
         DeserializeAsset(s) = [Name |-> a.Name, Height |-> a.Height, ok |-> TRUE]
=============================================================================
