------------------------------- MODULE Ledger -------------------------------
(***************************************************************************)
(* What the token chain's database promises: a ledger.  Its only state is  *)
(* the chain; what is unspent, registered or recharged is a function of    *)
(* the blocks that the chain holds now, and a block may be added only if   *)
(* it respects that.  The database keeps tables instead, which it updates  *)
(* block by block and undoes on a rollback; TokenChainStore shows that the *)
(* tables never let a block in that the ledger would refuse.               *)
(***************************************************************************)
EXTENDS Transactions

CONSTANT Blocks   \* the blocks that may be offered: sequences of hashes

VARIABLE chain    \* the blocks above genesis, lowest first

\* The transactions of the chain, genesis included.
Confirmed ==
  {ElaAssetId} \cup UNION {{chain[h][i] : i \in 1 .. Len(chain[h])} : h \in 1 .. Len(chain)}

Consumed == UNION {Spends(t) : t \in Confirmed}

\* The output o was made by the chain and nothing on the chain consumes it.
IsUnspent(o) ==
  /\ o.TxID \in Confirmed
  /\ o.Index \in OutputIndexes(o.TxID)
  /\ o \notin Consumed

\* No transaction is confirmed twice, no output is spent that is not there or
\* is spent already, no main chain transaction is recharged twice, and no
\* asset takes a name that a registered asset has.
Acceptable(T) ==
  /\ T \cap Confirmed = {}
  /\ \A t \in T : \A o \in Spends(t) :
       IsUnspent(o) /\ \A s \in T : o \in Spends(s) => s = t
  /\ \A t \in T : IsRechargeToSideChainTx(t) =>
       \A s \in Confirmed \cup T :
         IsRechargeToSideChainTx(s) /\ Txn[s].MainchainTx = Txn[t].MainchainTx => s = t
  /\ \A t \in T : IsRegisterAssetTx(t) =>
       \A s \in Confirmed :
         IsRegisterAssetTx(s) => AssetName[AssetOf(s)] # AssetName[AssetOf(t)]

Init == chain = << >>

Add(b) ==
  /\ Acceptable({b[i] : i \in 1 .. Len(b)})
  /\ chain' = Append(chain, b)

\* A reorganisation takes the highest block away.
Remove ==
  /\ chain # << >>
  /\ chain' = SubSeq(chain, 1, Len(chain) - 1)

Next == (\E b \in Blocks : Add(b)) \/ Remove

Spec == Init /\ [][Next]_chain
=============================================================================
