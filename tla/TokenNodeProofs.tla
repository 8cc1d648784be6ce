-------------------------- MODULE TokenNodeProofs --------------------------
(***************************************************************************)
(* The node keeps the promises of its parts, and three of its own: it      *)
(* never holds two transactions that conflict; the block that its miner    *)
(* works on is put together and paid for as it should be; and when the     *)
(* chain refuses such a block on its own tip the reason is known.  For     *)
(* every set of transactions, every pool, every order that sorting it by   *)
(* fee may end in, and every order of blocks and reorganisations.          *)
(***************************************************************************)
EXTENDS TokenNode, ValidatorProofs

\* What the miner is doing has the fields of Idle, and a block that it works on
\* is one that may reach the store.
MiningOK ==
  /\ mining = [pc |-> mining.pc, parent |-> mining.parent,
               next |-> mining.next, block |-> mining.block]
  /\ mining.pc = "solving" => mining.block \in Blocks

\* Nothing in the pool excludes anything in the pool or in the chain.
PoolCompatible ==
  \A t \in pool : \A s \in pool \cup StoredTxs : s # t => ~Conflict(s, t)

(***************************************************************************)
(* The inductive invariant of the node.  What happens to the pool when a   *)
(* block comes in is decided by Conflict; PoolUnspent follows from         *)
(* PoolCompatible, which says in terms of the transactions of the chain    *)
(* what PoolUnspent says in terms of the index, by UnspentIndexExact.      *)
(***************************************************************************)
NInv ==
  /\ VInv
  /\ pool \subseteq TxID
  /\ \A t \in pool : ~Stored(t)
  /\ PoolCompatible
  /\ \A t \in pool : \A o \in Spends(t) : o.Index \in OutputIndexes(o.TxID)
  /\ MiningOK
-----------------------------------------------------------------------------
(* The steps of the node are steps of the validated store.                 *)

\* The miner's block is accepted like any other, or changes nothing.
LEMMA SubmitIsAccept ==
  ASSUME MiningOK, SubmitBlock
  PROVE  \/ /\ mining.block \in Blocks
            /\ AcceptBlock(mining.block)
            /\ pool' = CleanSubmittedTransactions(mining.block)
         \/ UNCHANGED <<vars, pool>>
  BY DEF SubmitBlock, MiningOK, Acceptable, AcceptBlock

\* So is a block of another node.
LEMMA ReceiveIsAccept ==
  ASSUME NEW b \in NetBlocks, ReceiveBlock(b)
  PROVE  b \in Blocks /\ AcceptBlock(b) /\ pool' = CleanSubmittedTransactions(b)
  BY NetBlocksAssumption DEF ReceiveBlock, Acceptable, AcceptBlock

\* The three things that can happen to the store and the pool as long as no
\* block is taken back.
LEMMA GrowStep ==
  ASSUME MiningOK, [Grow]_nodeVars
  PROVE  \/ UNCHANGED <<vars, pool>>
         \/ \E t \in TxID : /\ Admissible(t)
                            /\ pool' = pool \cup {t}
                            /\ UNCHANGED vars
         \/ \E b \in Blocks : /\ AcceptBlock(b)
                              /\ pool' = CleanSubmittedTransactions(b)
  <1>1. CASE UNCHANGED nodeVars
    BY <1>1 DEF nodeVars
  <1>2. ASSUME NEW t \in TxID, AppendToTxPool(t)
        PROVE  Admissible(t) /\ pool' = pool \cup {t} /\ UNCHANGED vars
    BY <1>2 DEF AppendToTxPool
  <1>3. ASSUME NEW b \in NetBlocks, ReceiveBlock(b)
        PROVE  b \in Blocks /\ AcceptBlock(b) /\ pool' = CleanSubmittedTransactions(b)
    BY <1>3, ReceiveIsAccept
  <1>4. CASE CreateBlock \/ ReadBestHeight \/ GenerateBlockTransactions
    BY <1>4 DEF CreateBlock, ReadBestHeight, GenerateBlockTransactions
  <1>5. CASE SubmitBlock
    BY <1>5, SubmitIsAccept
  <1> QED
    BY <1>1, <1>2, <1>3, <1>4, <1>5 DEF Grow, MinerStep

\* And the fourth.
LEMMA NodeStep ==
  ASSUME MiningOK, [NodeNext]_nodeVars
  PROVE  \/ UNCHANGED <<vars, pool>>
         \/ \E t \in TxID : /\ Admissible(t)
                            /\ pool' = pool \cup {t}
                            /\ UNCHANGED vars
         \/ \E b \in Blocks : /\ AcceptBlock(b)
                              /\ pool' = CleanSubmittedTransactions(b)
         \/ RollbackBlock /\ UNCHANGED pool
  BY GrowStep DEF NodeNext, DisconnectBlock

\* To the store, a step of the node is one of the validated chain or none.
LEMMA NodeStepIsValidatorStep ==
  ASSUME MiningOK, [NodeNext]_nodeVars
  PROVE  [ValidatorNext]_vars
  BY NodeStep DEF ValidatorNext, vars

\* The miner gives the store nothing but blocks.
LEMMA MiningKept ==
  ASSUME MiningOK, [NodeNext]_nodeVars
  PROVE  MiningOK'
  <1>1. CASE UNCHANGED mining
    BY <1>1 DEF MiningOK
  <1>2. CASE CreateBlock
    BY <1>2 DEF MiningOK, CreateBlock, Idle
  <1>3. CASE ReadBestHeight
    BY <1>3 DEF MiningOK, ReadBestHeight
  <1>4. CASE GenerateBlockTransactions
    BY <1>4 DEF MiningOK, GenerateBlockTransactions
  <1>5. CASE SubmitBlock
    BY <1>5 DEF MiningOK, SubmitBlock, Idle
  <1> QED
    BY <1>1, <1>2, <1>3, <1>4, <1>5
       DEF NodeNext, Grow, MinerStep, AppendToTxPool, ReceiveBlock, DisconnectBlock, nodeVars

-----------------------------------------------------------------------------
(* The invariant.                                                          *)

\* Whether two transactions conflict does not depend on their order.
LEMMA ConflictSymmetric ==
  ASSUME NEW s \in TxID, NEW t \in TxID
  PROVE  Conflict(s, t) <=> Conflict(t, s)
  BY DEF Conflict

\* An output that an input names is listed as unspent if it was made and not
\* consumed.
LEMMA UnspentIff ==
  ASSUME UnspentIndexExact, NEW t \in TxID, NEW o \in Spends(t)
  PROVE  o.Index \in unspent[o.TxID] <=>
           /\ Stored(o.TxID)
           /\ o.Index \in OutputIndexes(o.TxID)
           /\ o \notin SpentBy(StoredTxs)
  <1>1. o.TxID \in TxID /\ o = [TxID |-> o.TxID, Index |-> o.Index]
    BY SpendsType
  <1>2. o.Index \in unspent[o.TxID] <=>
          /\ Stored(o.TxID)
          /\ o.Index \in OutputIndexes(o.TxID)
          /\ [TxID |-> o.TxID, Index |-> o.Index] \notin SpentBy(StoredTxs)
    BY <1>1 DEF UnspentIndexExact
  <1>3. [TxID |-> o.TxID, Index |-> o.Index] \notin SpentBy(StoredTxs)
          <=> o \notin SpentBy(StoredTxs)
    BY <1>1, Zenon
  <1> QED
    BY <1>2, <1>3, Zenon

\* What is unspent or not recharged yet conflicts with nothing on the chain.
LEMMA AdmittedIsCompatible ==
  ASSUME IInv, NEW t \in TxID, CheckTxContext(t), NEW s \in StoredTxs
  PROVE  ~Conflict(s, t) /\ ~Conflict(t, s)
  <1> USE DEF IInv
  <1>1. ASSUME NEW o \in Spends(t), o \in Spends(s)
        PROVE  FALSE
    <2>1. o.Index \in unspent[o.TxID]
      BY DEF CheckTxContext
    <2>2. o \notin SpentBy(StoredTxs)
      BY <2>1, UnspentIff
    <2> QED
      BY <1>1, <2>2 DEF SpentBy
  <1>2. IsRechargeToSideChainTx(t) /\ IsRechargeToSideChainTx(s)
          => Txn[s].MainchainTx # Txn[t].MainchainTx
    BY DEF CheckTxContext, MainchainTxsExact, RechargedBy
  <1> QED
    BY <1>1, <1>2 DEF Conflict

\* At the start the pool is empty and the miner idle.
LEMMA InitNInv ==
  ASSUME NodeInit
  PROVE  NInv
  <1>1. VInv
    BY InitVInv DEF NodeInit
  <1>2. PoolCompatible /\ MiningOK
    BY DEF NodeInit, Idle, PoolCompatible, MiningOK
  <1> QED
    BY <1>1, <1>2 DEF NInv, NodeInit

\* What the invariant says of the pool, apart from what is in the store.
PoolInv ==
  /\ pool \subseteq TxID
  /\ \A t \in pool : ~Stored(t)
  /\ PoolCompatible
  /\ \A t \in pool : \A o \in Spends(t) : o.Index \in OutputIndexes(o.TxID)

\* A transaction that the pool admits conflicts with nothing that it holds.
LEMMA AppendKeepsPool ==
  ASSUME IInv, PoolInv, NEW t \in TxID, Admissible(t),
         pool' = pool \cup {t}, UNCHANGED vars
  PROVE  PoolInv'
  <1>1. StoredTxs' = StoredTxs /\ \A s \in TxID : Stored(s)' = Stored(s)
    BY DEF vars, StoredTxs, Stored
  <1>2. CheckTxContext(t)
    BY DEF Admissible
  <1>3. ~Stored(t)
    BY <1>2 DEF CheckTxContext
  <1>4. ASSUME NEW o \in Spends(t)
        PROVE  o.Index \in OutputIndexes(o.TxID)
    <2>1. o.TxID \in TxID
      BY SpendsType
    <2> QED
      BY <1>2, <2>1 DEF CheckTxContext, IInv, TypeOK
  <1>5. PoolCompatible'
    <2> SUFFICES ASSUME NEW u \in pool \cup {t}, NEW s \in pool \cup {t} \cup StoredTxs, s # u
        PROVE  ~Conflict(s, u)
      BY <1>1 DEF PoolCompatible
    <2>1. CASE u \in pool /\ s \in pool \cup StoredTxs
      BY <2>1 DEF PoolInv, PoolCompatible
    <2>2. CASE u = t /\ s \in StoredTxs
      BY <1>2, <2>2, AdmittedIsCompatible
    <2>3. CASE u = t /\ s \in pool
      BY <2>3 DEF Admissible
    <2>4. CASE s = t /\ u \in pool
      BY <2>4, ConflictSymmetric DEF Admissible, PoolInv
    <2> QED
      BY <2>1, <2>2, <2>3, <2>4
  <1> QED
    BY <1>1, <1>3, <1>4, <1>5 DEF PoolInv

\* After a block the pool is cleaned of everything that conflicts with the block.
LEMMA AcceptKeepsPool ==
  ASSUME IInv, PoolInv, NEW b \in Blocks, AcceptBlock(b),
         pool' = CleanSubmittedTransactions(b)
  PROVE  PoolInv'
  <1>1. StoredTxs' = StoredTxs \cup BlockTxs(b)
    BY PersistEffect DEF AcceptBlock, IInv
  <1>2. pool' \subseteq pool
    BY DEF CleanSubmittedTransactions
  <1>3. ASSUME NEW t \in pool'
        PROVE  t \in TxID /\ ~Stored(t)'
    BY <1>1, <1>3 DEF PoolInv, CleanSubmittedTransactions, StoredTxs
  <1>4. PoolCompatible'
    BY <1>1 DEF PoolInv, PoolCompatible, CleanSubmittedTransactions
  <1> QED
    BY <1>2, <1>3, <1>4 DEF PoolInv

\* A rollback only gives outputs back, so the pool remains unspent.
LEMMA RollbackKeepsPool ==
  ASSUME IInv, PoolInv, RollbackBlock, UNCHANGED pool
  PROVE  PoolInv'
  <1>1. StoredTxs' \subseteq StoredTxs
    BY RollbackEffect DEF IInv
  <1>2. ASSUME NEW t \in pool
        PROVE  ~Stored(t)'
    BY <1>1 DEF PoolInv, StoredTxs
  <1>3. PoolCompatible'
    BY <1>1 DEF PoolInv, PoolCompatible
  <1> QED
    BY <1>2, <1>3 DEF PoolInv

\* Every step of the node keeps the invariant.
LEMMA NodeStepNInv ==
  ASSUME NInv, [NodeNext]_nodeVars
  PROVE  NInv'
  <1>1. MiningOK /\ VInv /\ IInv /\ PoolInv
    BY DEF NInv, PoolInv, VInv
  <1>2. MiningOK'
    BY <1>1, MiningKept
  <1>3. VInv'
    BY <1>1, NodeStepIsValidatorStep, ValidatorStepVInv
  <1>4. PoolInv'
    <2>1. CASE UNCHANGED <<vars, pool>>
      BY <1>1, <2>1 DEF vars, PoolInv, PoolCompatible, StoredTxs, Stored
    <2>2. ASSUME NEW t \in TxID, Admissible(t), pool' = pool \cup {t}, UNCHANGED vars
          PROVE  PoolInv'
      BY <1>1, <2>2, AppendKeepsPool
    <2>3. ASSUME NEW b \in Blocks, AcceptBlock(b), pool' = CleanSubmittedTransactions(b)
          PROVE  PoolInv'
      BY <1>1, <2>3, AcceptKeepsPool
    <2>4. CASE RollbackBlock /\ UNCHANGED pool
      BY <1>1, <2>4, RollbackKeepsPool
    <2> QED
      BY <1>1, <2>1, <2>2, <2>3, <2>4, NodeStep
  <1> QED
    BY <1>2, <1>3, <1>4 DEF NInv, PoolInv

\* The invariant holds of every behaviour of the node.
THEOREM NodeInvariant == NodeSpec => []NInv
  <1>1. NodeInit => NInv
    BY InitNInv
  <1>2. NInv /\ [NodeNext]_nodeVars => NInv'
    BY NodeStepNInv
  <1> QED
    BY <1>1, <1>2, PTL DEF NodeSpec

\* Every input of a transaction that waits is unspent as long as its
\* transaction is on the chain (CleanSubmittedTransactions against
\* persistUnspend and rollbackUnspend).
THEOREM NodePoolUnspent == NodeSpec => []PoolUnspent
  <1>1. NInv => PoolUnspent
    <2> SUFFICES ASSUME NInv, NEW t \in pool, NEW o \in Spends(t), Stored(o.TxID)
        PROVE  o.Index \in unspent[o.TxID]
      BY DEF PoolUnspent, NInv
    <2>1. t \in TxID /\ ~Stored(t) /\ o.Index \in OutputIndexes(o.TxID)
      BY DEF NInv
    <2>2. UnspentIndexExact
      BY DEF NInv, VInv, IInv
    <2>3. ASSUME NEW s \in StoredTxs, o \in Spends(s)
          PROVE  FALSE
      <3>1. s # t
        BY <2>1 DEF StoredTxs
      <3>2. ~Conflict(s, t)
        BY <3>1 DEF NInv, PoolCompatible
      <3> QED
        BY <2>3, <3>2 DEF Conflict
    <2>4. o \notin SpentBy(StoredTxs)
      BY <2>3 DEF SpentBy
    <2> QED
      BY <2>1, <2>2, <2>4, UnspentIff
  <1> QED
    BY <1>1, NodeInvariant, PTL

\* The chain of the node is one that the validator and the store allow, so
\* what is proved of them holds in the node, whoever made the blocks.
THEOREM NodeImplementsValidator == NodeSpec => ImplementsValidator
  <1>1. NodeInit => Init
    BY DEF NodeInit
  <1>2. NInv /\ [NodeNext]_nodeVars => [ValidatorNext]_vars
    BY NodeStepIsValidatorStep DEF NInv
  <1> QED
    BY <1>1, <1>2, NodeInvariant, PTL DEF NodeSpec, ImplementsValidator, ValidatorSpec

-----------------------------------------------------------------------------
(* The node implements TxLife.                                             *)

\* Two transactions of the chain do not conflict.
LEMMA StoredCompatible ==
  ASSUME IInv, NEW s \in StoredTxs, NEW t \in StoredTxs, Conflict(s, t)
  PROVE  s = t
  <1> USE DEF IInv
  <1>1. ASSUME NEW o \in Spends(s), o \in Spends(t)
        PROVE  s = t
    BY <1>1 DEF SpentOnce
  <1>2. CASE /\ IsRechargeToSideChainTx(s) /\ IsRechargeToSideChainTx(t)
             /\ Txn[s].MainchainTx = Txn[t].MainchainTx
    BY <1>2 DEF MainchainTxsExact
  <1> QED
    BY <1>1, <1>2 DEF Conflict

\* The relation that the abstract specification is given.
LEMMA ConflictsMeans ==
  \A s, t \in TxID : <<s, t>> \in Conflicts <=> Conflict(s, t)
  BY DEF Conflicts

\* The statuses stand for the store and the pool.
LEMMA StatusMeans ==
  ASSUME PoolInv
  PROVE  /\ Status \in [TxID -> {"unknown", "waiting", "confirmed"}]
         /\ \A t \in TxID : /\ Status[t] = "confirmed" <=> t \in StoredTxs
                            /\ Status[t] = "waiting" <=> t \in pool
         /\ T!In("confirmed") = StoredTxs
         /\ T!In("waiting") = pool
  BY DEF Status, PoolInv, T!In, StoredTxs, Stored

\* At the start every transaction is unknown, but for what genesis confirms.
LEMMA InitTxLife ==
  ASSUME NodeInit
  PROVE  T!Init
  <1>1. NInv /\ pool = {}
    BY InitNInv DEF NodeInit
  <1>2. PoolInv /\ IInv
    BY <1>1 DEF NInv, PoolInv, VInv
  <1>3. Status \in [TxID -> {"unknown", "confirmed"}]
    BY <1>1 DEF Status, Stored
  <1>4. ~T!Clash(StoredTxs)
    BY <1>2, StoredCompatible, ConflictsMeans DEF T!Clash, StoredTxs
  <1> QED
    BY <1>2, <1>3, <1>4, StatusMeans DEF T!Init

\* Admission to the pool makes one transaction wait.
LEMMA AppendIsAdmit ==
  ASSUME IInv, PoolInv, PoolInv', NEW t \in TxID, Admissible(t),
         pool' = pool \cup {t}, UNCHANGED vars
  PROVE  T!Next
  <1>1. StoredTxs' = StoredTxs
    BY DEF vars, StoredTxs, Stored
  <1>2. CheckTxContext(t) /\ t \notin pool /\ t \notin StoredTxs
    BY DEF Admissible, CheckTxContext, StoredTxs
  <1>3. Status[t] = "unknown"
    BY <1>2, StatusMeans
  <1>4. \A s \in pool \cup StoredTxs : ~Conflict(s, t)
    BY <1>2, AdmittedIsCompatible DEF Admissible
  <1>5. Status' = [Status EXCEPT ![t] = "waiting"]
    BY <1>1, <1>2 DEF Status, StoredTxs, Stored
  <1>6. t \in T!Entering("waiting")
    BY <1>3, <1>5 DEF T!Entering, Status, Stored
  <1>7. T!Admit(t)
    BY <1>3, <1>4, <1>5, StatusMeans, ConflictsMeans DEF T!Admit, PoolInv, StoredTxs
  <1> QED
    BY <1>6, <1>7 DEF T!Next

\* A block confirms its transactions and drops what conflicts with them.
LEMMA AcceptIsConfirm ==
  ASSUME IInv, IInv', PoolInv, PoolInv', NEW b \in Blocks, AcceptBlock(b),
         pool' = CleanSubmittedTransactions(b)
  PROVE  T!Next
  <1> DEFINE B == BlockTxs(b)
  <1>1. StoredTxs' = StoredTxs \cup B /\ B \cap StoredTxs = {} /\ B \subseteq TxID
    BY PersistEffect DEF AcceptBlock, IInv
  <1>2. T!Entering("confirmed") = B
    BY <1>1 DEF T!Entering, Status, StoredTxs, Stored
  <1>3. ASSUME NEW s \in StoredTxs', NEW t \in StoredTxs', Conflict(s, t)
        PROVE  s = t
    BY <1>3 DEF Conflict, IInv, SpentOnce, MainchainTxsExact
  <1>4. ~T!Clash(B \cup StoredTxs)
    BY <1>1, <1>3, ConflictsMeans DEF T!Clash, StoredTxs
  <1>5. Status' = [t \in TxID |->
                     IF t \in B THEN "confirmed"
                     ELSE IF Status[t] = "waiting" /\ \E s \in B : Conflict(s, t)
                     THEN "unknown"
                     ELSE Status[t]]
    BY <1>1 DEF Status, StoredTxs, CleanSubmittedTransactions, PoolInv, Stored
  <1>6. T!Confirm(B)
    BY <1>1, <1>4, <1>5, StatusMeans, ConflictsMeans DEF T!Confirm
  <1> QED
    BY <1>2, <1>6 DEF T!Next

\* A rollback makes the transactions of the tip unknown again.
LEMMA RollbackIsRevoke ==
  ASSUME IInv, PoolInv, RollbackBlock, UNCHANGED pool
  PROVE  T!Next
  <1> DEFINE B == T!In("confirmed") \cap T!Entering("unknown")
  <1>1. StoredTxs' \subseteq StoredTxs
    BY RollbackEffect DEF IInv
  <1>2. T!In("confirmed") = StoredTxs /\ pool \cap StoredTxs = {}
    BY StatusMeans DEF PoolInv, StoredTxs
  <1>3. B = StoredTxs \ StoredTxs'
    BY <1>1, <1>2 DEF T!Entering, Status, StoredTxs, Stored
  <1>4. Status' = [t \in TxID |-> IF t \in B THEN "unknown" ELSE Status[t]]
    BY <1>1, <1>2, <1>3 DEF Status, StoredTxs, Stored
  <1>5. T!Revoke(B)
    BY <1>4 DEF T!Revoke
  <1> QED
    BY <1>5 DEF T!Next

\* The node implements TxLife: of two conflicting transactions it never holds
\* both, although the pool is cleaned on a new block only and is not told
\* when a block is taken back.
THEOREM NodeImplementsTxLife == NodeSpec => ImplementsTxLife
  <1>1. NodeInit => T!Init
    BY InitTxLife
  <1>2. NInv /\ NInv' /\ [NodeNext]_nodeVars => [T!Next]_Status
    <2> SUFFICES ASSUME NInv, NInv', [NodeNext]_nodeVars
        PROVE  [T!Next]_Status
      OBVIOUS
    <2>1. MiningOK /\ IInv /\ IInv' /\ PoolInv /\ PoolInv'
      BY DEF NInv, PoolInv, VInv
    <2>2. CASE UNCHANGED <<vars, pool>>
      BY <2>2 DEF Status, vars, Stored
    <2>3. ASSUME NEW t \in TxID, Admissible(t), pool' = pool \cup {t}, UNCHANGED vars
          PROVE  T!Next
      BY <2>1, <2>3, AppendIsAdmit
    <2>4. ASSUME NEW b \in Blocks, AcceptBlock(b), pool' = CleanSubmittedTransactions(b)
          PROVE  T!Next
      BY <2>1, <2>4, AcceptIsConfirm
    <2>5. CASE RollbackBlock /\ UNCHANGED pool
      BY <2>1, <2>5, RollbackIsRevoke
    <2> QED
      BY <2>1, <2>2, <2>3, <2>4, <2>5, NodeStep
  <1> QED
    BY <1>1, <1>2, NodeInvariant, PTL DEF NodeSpec, ImplementsTxLife, T!Spec

-----------------------------------------------------------------------------
(* Amounts of ELA in 64 bits.                                              *)

\* Two numbers below m that differ by a multiple of m are the same.
LEMMA SameRest ==
  ASSUME NEW m \in Nat \ {0}, NEW p \in 0 .. m - 1, NEW r \in 0 .. m - 1,
         NEW j \in Int, NEW k \in Int, p + m * j = r + m * k
  PROVE  p = r
  <1>1. CASE j = k
    BY <1>1
  <1>2. CASE j > k
    <2>1. m * j >= m * k + m
      <3>1. j - k - 1 \in Nat /\ m * (j - k - 1) \in Nat
        BY <1>2
      <3>2. m * (j - k - 1) = m * j - m * k - m
        OBVIOUS
      <3>3. m * j \in Int /\ m * k \in Int
        OBVIOUS
      <3> QED
        BY <3>1, <3>2, <3>3
    <2>2. m * j \in Int /\ m * k \in Int
      OBVIOUS
    <2> QED
      BY <2>1, <2>2
  <1>3. CASE j < k
    <2>1. m * k >= m * j + m
      <3>1. k - j - 1 \in Nat /\ m * (k - j - 1) \in Nat
        BY <1>3
      <3>2. m * (k - j - 1) = m * k - m * j - m
        OBVIOUS
      <3>3. m * j \in Int /\ m * k \in Int
        OBVIOUS
      <3> QED
        BY <3>1, <3>2, <3>3
    <2>2. m * j \in Int /\ m * k \in Int
      OBVIOUS
    <2> QED
      BY <2>1, <2>2
  <1> QED
    BY <1>1, <1>2, <1>3

\* Quotient and rest, of a negative number too.
LEMMA Division ==
  ASSUME NEW a \in Int, NEW m \in Nat \ {0}
  PROVE  a % m \in 0 .. m - 1 /\ a \div m \in Int /\ a = m * (a \div m) + (a % m)
  <1>1. a % m \in 0 .. m - 1
    OBVIOUS
  <1>2. a \div m \in Int
    OBVIOUS
  <1>3. a = m * (a \div m) + (a % m)
    OBVIOUS
  <1> QED
    BY <1>1, <1>2, <1>3

\* Int64 is the number of its range that differs by a multiple of 2^64.
LEMMA Int64Is ==
  ASSUME NEW x \in Int
  PROVE  /\ Int64(x) \in -Int64Half .. Int64Half - 1
         /\ \E k \in Int : x = Int64(x) + (2 * Int64Half) * k
         /\ \A y \in -Int64Half .. Int64Half - 1 : \A k \in Int :
              x = y + (2 * Int64Half) * k => Int64(x) = y
  <1> DEFINE m == 2 * Int64Half
             r == (x + Int64Half) % m
             q == (x + Int64Half) \div m
  <1>1. m \in Nat \ {0} /\ Int64Half \in Nat \ {0} /\ m = Int64Half + Int64Half
    BY FeeAssumption
  <1>2. Int64(x) = r - Int64Half
    BY DEF Int64
  <1> HIDE DEF m
  <1>3. r \in 0 .. m - 1 /\ q \in Int /\ x + Int64Half = m * q + r
    <2> DEFINE a == x + Int64Half
    <2>1. a \in Int
      BY <1>1
    <2> HIDE DEF a
    <2>2. a % m \in 0 .. m - 1 /\ a \div m \in Int /\ a = m * (a \div m) + (a % m)
      BY <1>1, <2>1, Division
    <2> QED
      BY <2>2 DEF a
  <1> HIDE DEF q, r
  <1>4. Int64(x) \in -Int64Half .. Int64Half - 1
    BY <1>1, <1>2, <1>3
  <1>5. m * q \in Int
    BY <1>1, <1>3
  <1>6. x = Int64(x) + m * q
    BY <1>1, <1>2, <1>3, <1>5
  <1>7. ASSUME NEW y \in -Int64Half .. Int64Half - 1, NEW k \in Int, x = y + m * k
        PROVE  Int64(x) = y
    <2>1. m * k \in Int
      BY <1>1
    <2>2. y + Int64Half \in 0 .. m - 1 /\ (y + Int64Half) + m * k = r + m * q
      BY <1>1, <1>3, <1>5, <1>7, <2>1
    <2>3. y + Int64Half = r
      <3> DEFINE p == y + Int64Half
      <3>1. p \in 0 .. m - 1 /\ p + m * k = r + m * q
        BY <2>2
      <3> HIDE DEF p
      <3>2. p = r
        BY <1>1, <1>3, <3>1, SameRest
      <3> QED
        BY <3>2 DEF p
    <2> QED
      BY <1>1, <1>2, <1>3, <2>3
  <1> QED
    BY <1>3, <1>4, <1>6, <1>7 DEF m

\* So it does not matter when a sum is cut to 64 bits, and an amount in range
\* is left as it is.
LEMMA Int64Sums ==
  /\ \A x \in Int : Int64(x) \in Int
  /\ \A x \in 0 .. Int64Half - 1 : Int64(x) = x
  /\ \A x, y \in Int : Int64(Int64(x) + y) = Int64(x + y)
  /\ \A x, y \in Int : Int64(Int64(x) - Int64(y)) = Int64(x - y)
  <1> DEFINE m == 2 * Int64Half
  <1>1. Int64Half \in Nat \ {0} /\ m \in Nat \ {0}
    BY FeeAssumption
  <1>2. \A x \in Int : /\ Int64(x) \in Int
                       /\ Int64(x) \in -Int64Half .. Int64Half - 1
                       /\ \E k \in Int : x = Int64(x) + m * k
                       /\ \A y \in -Int64Half .. Int64Half - 1 : \A k \in Int :
                            x = y + m * k => Int64(x) = y
    <2> TAKE x \in Int
    <2>1. Int64(x) \in -Int64Half .. Int64Half - 1
      BY Int64Is
    <2>2. Int64(x) \in Int
      BY <1>1, <2>1
    <2> QED
      BY <2>1, <2>2, Int64Is
  <1> HIDE DEF m
  <1>3. ASSUME NEW x \in 0 .. Int64Half - 1
        PROVE  Int64(x) = x
    <2>1. x \in Int /\ x \in -Int64Half .. Int64Half - 1 /\ x = x + m * 0
      BY <1>1
    <2> QED
      BY <1>2, <2>1
  <1>4. ASSUME NEW x \in Int, NEW y \in Int
        PROVE  Int64(Int64(x) + y) = Int64(x + y)
    <2> DEFINE u == Int64(x) + y
               z == Int64(u)
    <2>1. u \in Int /\ x + y \in Int
      BY <1>2
    <2>2. PICK j \in Int : x = Int64(x) + m * j
      BY <1>2
    <2>3. z \in Int /\ z \in -Int64Half .. Int64Half - 1
      <3> HIDE DEF u
      <3> QED
        BY <1>2, <2>1
    <2>4. PICK k \in Int : u = z + m * k
      <3> HIDE DEF u
      <3> QED
        BY <1>2, <2>1
    <2>5. x + y = z + m * (j + k)
      <3>1. m * (j + k) = m * j + m * k /\ m * j \in Int /\ m * k \in Int
        BY <1>1
      <3> DEFINE a == Int64(x)
      <3>2. a \in Int /\ x = a + m * j /\ a + y = z + m * k
        BY <1>2, <2>2, <2>4
      <3> HIDE DEF z, a
      <3> QED
        BY <2>3, <3>1, <3>2
    <2>6. j + k \in Int
      OBVIOUS
    <2> HIDE DEF z, u
    <2>7. Int64(x + y) = z
      BY <1>2, <2>1, <2>3, <2>5, <2>6
    <2> QED
      BY <2>7 DEF z, u
  <1>5. ASSUME NEW x \in Int, NEW y \in Int
        PROVE  Int64(Int64(x) - Int64(y)) = Int64(x - y)
    <2> DEFINE u == Int64(x) - Int64(y)
               z == Int64(u)
    <2>1. u \in Int /\ x - y \in Int
      BY <1>2
    <2>2. PICK j \in Int : x = Int64(x) + m * j
      BY <1>2
    <2>3. PICK i \in Int : y = Int64(y) + m * i
      BY <1>2
    <2>4. z \in Int /\ z \in -Int64Half .. Int64Half - 1
      <3> HIDE DEF u
      <3> QED
        BY <1>2, <2>1
    <2>5. PICK k \in Int : u = z + m * k
      <3> HIDE DEF u
      <3> QED
        BY <1>2, <2>1
    <2>6. x - y = z + m * (j - i + k)
      <3>1. /\ m * (j - i + k) = m * j - m * i + m * k
            /\ m * j \in Int /\ m * k \in Int /\ m * i \in Int
        BY <1>1
      <3> DEFINE a == Int64(x)
                 b == Int64(y)
      <3>2. a \in Int /\ b \in Int /\ x = a + m * j /\ y = b + m * i /\ a - b = z + m * k
        BY <1>2, <2>2, <2>3, <2>5
      <3> HIDE DEF z, a, b
      <3> QED
        BY <2>4, <3>1, <3>2
    <2>7. j - i + k \in Int
      OBVIOUS
    <2> HIDE DEF z, u
    <2>8. Int64(x - y) = z
      BY <1>2, <2>1, <2>4, <2>6, <2>7
    <2> QED
      BY <2>8 DEF z, u
  <1> QED
    BY <1>2, <1>3, <1>4, <1>5

-----------------------------------------------------------------------------
(* What waits in the pool.                                                 *)

\* What waits is no coinbase and leaves a fee.
PoolWaits ==
  /\ IsFiniteSet(pool)
  /\ \A t \in pool : ~IsCoinBaseTx(t) /\ GetTxFee(t) \in Nat

\* The amounts of a transaction whose inputs name outputs.
LEMMA AmountTypes ==
  ASSUME NEW t \in TxID, \A o \in Spends(t) : o.Index \in OutputIndexes(o.TxID), NEW C
  PROVE  InputAmount(t, C) \in Int /\ OutputAmount(t, C) \in Int
  <1>1. MadeIn({t}, C) \subseteq {o \in Outs : o.TxID = t} /\ SpentIn({t}, C) \subseteq Spends(t)
    BY DEF MadeIn, SpentIn, SpentBy
  <1>2. IsFiniteSet(MadeIn({t}, C)) /\ IsFiniteSet(SpentIn({t}, C))
    BY <1>1, TxFinite, FS_Subset
  <1>3. Spends(t) \subseteq Outs
    BY SpendsType DEF Outs
  <1>4. \A o \in Outs : OutValue(o) \in Int
    BY OutType DEF OutValue, Output
  <1>5. /\ \A o \in MadeIn({t}, C) : OutValue(o) \in Int
        /\ \A o \in SpentIn({t}, C) : OutValue(o) \in Int
    BY <1>1, <1>3, <1>4
  <1>6. /\ OutSum!Total(MadeIn({t}, C)) \in Int
        /\ OutSum!Total(SpentIn({t}, C)) \in Int
    BY <1>2, <1>5, SameFinite, OutSum!SumType
  <1> QED
    BY <1>6, AmountsAreSums

\* A transaction that passes the balance check leaves a fee.
LEMMA AdmittedFee ==
  ASSUME NEW t \in TxID, Admissible(t)
  PROVE  ~IsCoinBaseTx(t) /\ GetTxFee(t) \in Nat
  <1>1. ~IsCoinBaseTx(t) /\ CheckTransactionContext(t)
    BY DEF Admissible
  <1>2. CASE IsRechargeToSideChainTx(t)
    BY <1>1, <1>2, RewardAssumption DEF GetTxFee
  <1>3. CASE ~IsRechargeToSideChainTx(t)
    <2> DEFINE x == InputAmount(t, {ElaAssetId})
               y == OutputAmount(t, {ElaAssetId})
    <2>1. checkTransactionBalanceImpl(t)
      BY <1>1, <1>3 DEF CheckTransactionContext, ContextEndsEarly
    <2>2. x \in Int /\ y \in Int
      BY <2>1, AmountTypes DEF checkTransactionBalanceImpl
    <2>3. Int64(Int64(x) - Int64(y)) >= MinFee(t) /\ MinFee(t) \in Nat
      BY <2>1, FeeAssumption DEF checkTransactionBalanceImpl, MinFee
    <2>4. GetTxFee(t) = Int64(x - y)
      BY <1>3 DEF GetTxFee
    <2> HIDE DEF x, y
    <2>5. Int64(x - y) = Int64(Int64(x) - Int64(y)) /\ Int64(x - y) \in Int
      BY <2>2, Int64Sums
    <2> QED
      BY <1>1, <2>3, <2>4, <2>5
  <1> QED
    BY <1>1, <1>2, <1>3

\* Every step of the node keeps that.
LEMMA NodeStepPoolWaits ==
  ASSUME NInv, PoolWaits, [NodeNext]_nodeVars
  PROVE  PoolWaits'
  <1>1. ASSUME NEW t \in TxID, Admissible(t), pool' = pool \cup {t}
        PROVE  PoolWaits'
    <2>1. IsFiniteSet(pool')
      BY <1>1, FS_AddElement DEF PoolWaits
    <2> QED
      BY <1>1, <2>1, AdmittedFee DEF PoolWaits
  <1>2. ASSUME pool' \subseteq pool
        PROVE  PoolWaits'
    <2>1. IsFiniteSet(pool')
      BY <1>2, FS_Subset DEF PoolWaits
    <2> QED
      BY <1>2, <2>1 DEF PoolWaits
  <1>3. \A b : CleanSubmittedTransactions(b) \subseteq pool
    BY DEF CleanSubmittedTransactions
  <1> QED
    BY <1>1, <1>2, <1>3, NodeStep DEF NInv

-----------------------------------------------------------------------------
(* What the fee helper picks.                                              *)

PickRound(w, t, h) == Pick(w, t, h)
SizeOf(t) == TxSize[t]

PickLoop == INSTANCE FoldTheorems WITH Op <- PickRound, Value <- GetTxFee
SizeSum == INSTANCE FoldTheorems WITH Op <- PickRound, Value <- SizeOf

\* An instance has its own name for what a finite set is.
LEMMA InstanceFinite ==
  \A S : /\ PickLoop!IsFiniteSet(S) <=> IsFiniteSet(S)
        /\ SizeSum!IsFiniteSet(S) <=> IsFiniteSet(S)
  BY DEF IsFiniteSet, PickLoop!IsFiniteSet, SizeSum!IsFiniteSet

\* The state of the loop over transactions of P, and what it has picked.
Picks(P) == [full : BOOLEAN, size : Int, txs : Seq(P), fee : Int]

Got(w) == {w.txs[i] : i \in 1 .. Len(w.txs)}

Pickable(t, h) == Final(t, h) /\ ~GetTxFeeFails(t)

(***************************************************************************)
(* After k rounds.  As the size of what is passed over counts, the size    *)
(* that is kept is an upper bound of what was picked.  Of the first m      *)
(* everything that could be picked was, and nothing of the others: the     *)
(* loop ended after them or has come no further.                           *)
(***************************************************************************)
PickedUpTo(order, h, k, w) ==
  /\ \A t \in Got(w) : Pickable(t, h)
  /\ \A i, j \in 1 .. Len(w.txs) : w.txs[i] = w.txs[j] => i = j
  /\ Got(w) # {} => 1 + Len(w.txs) <= MaxTxPerBlock /\ w.size <= MaxBlockSize
  /\ CoinBaseSize + SizeSum!Total(Got(w)) <= w.size
  /\ w.fee = Int64(PickLoop!Total(Got(w)))
  /\ \E m \in 0 .. k :
       /\ w.full \/ m = k
       /\ \A t \in Got(w) : \E i \in 1 .. m : t = order[i]
       /\ \A i \in 1 .. m : Pickable(order[i], h) => order[i] \in Got(w)

\* What the sequence holds after t was added to it.
LEMMA GotAppend ==
  ASSUME NEW P, NEW s \in Seq(P), NEW t \in P
  PROVE  /\ Len(Append(s, t)) = Len(s) + 1
         /\ Len(s) \in Nat
         /\ {Append(s, t)[i] : i \in 1 .. Len(Append(s, t))} = {s[i] : i \in 1 .. Len(s)} \cup {t}
         /\ {s[i] : i \in 1 .. Len(s)} \subseteq P
         /\ Append(s, t)[Len(s) + 1] = t /\ \A i \in 1 .. Len(s) : Append(s, t)[i] = s[i]
  <1> DEFINE a == Append(s, t)
             n == Len(s)
  <1>1. n \in Nat /\ Len(a) = n + 1 /\ a[n + 1] = t /\ \A i \in 1 .. n : a[i] = s[i] /\ s[i] \in P
    OBVIOUS
  <1> HIDE DEF a, n
  <1>2. \A i \in 1 .. n + 1 : i \in 1 .. n \/ i = n + 1
    BY <1>1
  <1>3. 1 .. n \subseteq 1 .. n + 1 /\ n + 1 \in 1 .. n + 1
    BY <1>1
  <1>4. {a[i] : i \in 1 .. n + 1} = {s[i] : i \in 1 .. n} \cup {t}
    BY <1>1, <1>2, <1>3
  <1>5. {s[i] : i \in 1 .. n} \subseteq P
    BY <1>1
  <1> QED
    BY <1>1, <1>4, <1>5 DEF a, n

\* A round of the loop keeps its state of the same type.
LEMMA PickType ==
  ASSUME NEW P \in SUBSET TxID, \A t \in P : GetTxFee(t) \in Nat,
         NEW w \in Picks(P), NEW t \in P, NEW h
  PROVE  PickRound(w, t, h) \in Picks(P)
  <1>1. w.size + TxSize[t] \in Int
    BY SizeAssumption DEF Picks
  <1>2. Int64(w.fee + GetTxFee(t)) \in Int
    <2>1. w.fee + GetTxFee(t) \in Int
      BY DEF Picks
    <2> QED
      BY <2>1, Int64Sums
  <1>3. Append(w.txs, t) \in Seq(P)
    BY DEF Picks
  <1> QED
    BY <1>1, <1>2, <1>3 DEF PickRound, Pick, Picks

\* One more round, with a transaction that was not seen before.
LEMMA PickStep ==
  ASSUME NEW P \in SUBSET TxID, IsFiniteSet(P), \A t \in P : GetTxFee(t) \in Nat,
         NEW h, NEW order, NEW k \in Nat, NEW w \in Picks(P),
         order[k + 1] \in P, \A i \in 1 .. k : order[i] # order[k + 1],
         PickedUpTo(order, h, k, w)
  PROVE  PickedUpTo(order, h, k + 1, PickRound(w, order[k + 1], h))
  <1> DEFINE t == order[k + 1]
             S == Got(w)
             size == w.size + TxSize[t]
             v == PickRound(w, t, h)
  <1>1. t \in P /\ t \in TxID /\ TxSize[t] \in Nat /\ GetTxFee(t) \in Nat
    BY SizeAssumption
  <1>2. /\ w.txs \in Seq(P) /\ w.size \in Int /\ w.fee \in Int /\ w.full \in BOOLEAN
        /\ w = [full |-> w.full, size |-> w.size, txs |-> w.txs, fee |-> w.fee]
    BY DEF Picks
  <1>3. /\ Len(Append(w.txs, t)) = Len(w.txs) + 1 /\ Len(w.txs) \in Nat
        /\ {Append(w.txs, t)[i] : i \in 1 .. Len(Append(w.txs, t))} = S \cup {t}
        /\ S \subseteq P
        /\ Append(w.txs, t)[Len(w.txs) + 1] = t
        /\ \A i \in 1 .. Len(w.txs) : Append(w.txs, t)[i] = w.txs[i] /\ w.txs[i] \in S
    <2> DEFINE q == w.txs
    <2>1. q \in Seq(P) /\ S = {q[i] : i \in 1 .. Len(q)} /\ t \in P
      BY <1>1, <1>2 DEF Got
    <2> HIDE DEF q, t, S
    <2>2. /\ Len(Append(q, t)) = Len(q) + 1
          /\ Len(q) \in Nat
          /\ {Append(q, t)[i] : i \in 1 .. Len(Append(q, t))} = {q[i] : i \in 1 .. Len(q)} \cup {t}
          /\ {q[i] : i \in 1 .. Len(q)} \subseteq P
          /\ Append(q, t)[Len(q) + 1] = t /\ \A i \in 1 .. Len(q) : Append(q, t)[i] = q[i]
      <3>1. q \in Seq(P) /\ t \in P
        BY <2>1
      <3> HIDE <2>1
      <3> QED
        BY <3>1, GotAppend
    <2> QED
      BY <2>1, <2>2 DEF q
  <1>4. IsFiniteSet(S) /\ \A s \in S \cup {t} : GetTxFee(s) \in Int /\ SizeOf(s) \in Int
    BY <1>1, <1>3, FS_Subset, SizeAssumption DEF SizeOf
  <1>5. PICK m \in 0 .. k :
          /\ w.full \/ m = k
          /\ \A s \in S : \E i \in 1 .. m : s = order[i]
          /\ \A i \in 1 .. m : Pickable(order[i], h) => order[i] \in S
    BY DEF PickedUpTo
  <1>6. t \notin S
    BY <1>5
  <1>7. /\ \A s \in S : Pickable(s, h)
        /\ \A i, j \in 1 .. Len(w.txs) : w.txs[i] = w.txs[j] => i = j
        /\ S # {} => 1 + Len(w.txs) <= MaxTxPerBlock /\ w.size <= MaxBlockSize
        /\ CoinBaseSize + SizeSum!Total(S) <= w.size
        /\ w.fee = Int64(PickLoop!Total(S))
    BY DEF PickedUpTo
  <1>8. SizeSum!Total(S) \in Int /\ PickLoop!Total(S) \in Int
    <2>1. \A s \in S : GetTxFee(s) \in Int /\ SizeOf(s) \in Int
      BY <1>4
    <2> HIDE DEF S
    <2> QED
      BY <1>4, <2>1, InstanceFinite, SizeSum!SumType, PickLoop!SumType
  <1>9. /\ SizeSum!Total(S \cup {t}) = TxSize[t] + SizeSum!Total(S)
        /\ PickLoop!Total(S \cup {t}) = GetTxFee(t) + PickLoop!Total(S)
    <2>1. /\ SizeSum!Total(S \cup {t}) = SizeOf(t) + SizeSum!Total(S)
          /\ PickLoop!Total(S \cup {t}) = GetTxFee(t) + PickLoop!Total(S)
      <3> HIDE DEF S, t
      <3> QED
        BY <1>4, <1>6, InstanceFinite, SizeSum!SumAdd, PickLoop!SumAdd
    <2> QED
      BY <2>1 DEF SizeOf
  <1>10. /\ m \in Nat /\ m \in 0 .. k + 1 /\ k + 1 \in 0 .. k + 1
         /\ \A i \in 1 .. k + 1 : i \in 1 .. k \/ i = k + 1
         /\ 1 .. m \subseteq 1 .. k /\ 1 .. k \subseteq 1 .. k + 1 /\ k + 1 \in 1 .. k + 1
    OBVIOUS
  <1>11. CASE w.full \/ size > MaxBlockSize \/ 1 + Len(w.txs) >= MaxTxPerBlock
    <2>1. v = [w EXCEPT !.full = TRUE]
      BY <1>11 DEF PickRound, Pick
    <2>2. v.full = TRUE /\ v.size = w.size /\ v.txs = w.txs /\ v.fee = w.fee
      BY <1>2, <2>1
    <2>3. Got(v) = S
      BY <2>2 DEF Got
    <2> HIDE DEF v, S
    <2> QED
      BY <1>5, <1>7, <1>10, <2>2, <2>3 DEF PickedUpTo, v
  <1>12. CASE /\ ~(w.full \/ size > MaxBlockSize \/ 1 + Len(w.txs) >= MaxTxPerBlock)
              /\ ~Pickable(t, h)
    <2>1. v = [w EXCEPT !.size = size]
      BY <1>12 DEF PickRound, Pick, Pickable
    <2>2. v.full = w.full /\ v.size = size /\ v.txs = w.txs /\ v.fee = w.fee
      BY <1>2, <2>1
    <2>3. Got(v) = S /\ m = k
      BY <1>5, <1>12, <2>2 DEF Got
    <2>4. /\ size <= MaxBlockSize /\ w.size <= size
          /\ CoinBaseSize + SizeSum!Total(S) <= size
      BY <1>1, <1>2, <1>7, <1>8, <1>12, SizeAssumption
    <2>5. /\ \A s \in S : \E i \in 1 .. k + 1 : s = order[i]
          /\ \A i \in 1 .. k + 1 : Pickable(order[i], h) => order[i] \in S
      BY <1>5, <1>10, <1>12, <2>3
    <2> HIDE DEF v, S, size
    <2> QED
      BY <1>7, <1>10, <2>2, <2>3, <2>4, <2>5 DEF PickedUpTo, v
  <1>13. CASE /\ ~(w.full \/ size > MaxBlockSize \/ 1 + Len(w.txs) >= MaxTxPerBlock)
              /\ Pickable(t, h)
    <2>1. v = [w EXCEPT !.size = size, !.txs = Append(w.txs, t),
                        !.fee = Int64(w.fee + GetTxFee(t))]
      BY <1>13 DEF PickRound, Pick, Pickable
    <2>2. /\ v.full = w.full /\ v.size = size /\ v.txs = Append(w.txs, t)
          /\ v.fee = Int64(w.fee + GetTxFee(t))
      BY <1>2, <2>1
    <2>3. Got(v) = S \cup {t} /\ m = k /\ Len(v.txs) = Len(w.txs) + 1
      <3>1. Got(v) = {v.txs[i] : i \in 1 .. Len(v.txs)}
        BY DEF Got
      <3> DEFINE a == Append(w.txs, t)
      <3>2. /\ v.txs = a /\ Len(a) = Len(w.txs) + 1
            /\ {a[i] : i \in 1 .. Len(a)} = S \cup {t}
        BY <1>3, <2>2
      <3> HIDE DEF a, v, S
      <3>3. m = k
        BY <1>5, <1>13
      <3> QED
        BY <3>1, <3>2, <3>3
    <2>4. /\ size <= MaxBlockSize /\ 1 + Len(v.txs) <= MaxTxPerBlock
          /\ CoinBaseSize + SizeSum!Total(S \cup {t}) <= size
      <3> DEFINE total == SizeSum!Total(S)
                 after == SizeSum!Total(S \cup {t})
      <3>0. /\ Len(w.txs) \in Nat /\ TxSize[t] \in Nat /\ w.size \in Int /\ total \in Int
            /\ CoinBaseSize + total <= w.size
            /\ after = TxSize[t] + total
            /\ ~(size > MaxBlockSize \/ 1 + Len(w.txs) >= MaxTxPerBlock)
        <4> HIDE DEF size, t, S
        <4> QED
          BY <1>1, <1>2, <1>3, <1>7, <1>8, <1>9, <1>13, Zenon
      <3> DEFINE x == TxSize[t]
                 y == w.size
                 n == Len(w.txs)
      <3> HIDE DEF total, after, x, y, n
      <3>1. ~(y + x > MaxBlockSize \/ 1 + n >= MaxTxPerBlock)
        BY <3>0 DEF x, y, n
      <3>2. n \in Nat /\ x \in Nat /\ y \in Int /\ total \in Int
        BY <3>0 DEF x, y, n
      <3>4. y + x <= MaxBlockSize /\ 1 + n < MaxTxPerBlock
        BY <3>1, <3>2, SizeAssumption
      <3>5. CoinBaseSize + after <= y + x
        <4>1. CoinBaseSize + total <= y /\ after = x + total
          BY <3>0 DEF x, y
        <4> QED
          BY <3>2, <4>1, SizeAssumption
      <3>3. Len(v.txs) = Len(w.txs) + 1 /\ Len(w.txs) \in Nat
        BY <1>3, <2>3
      <3>6. 1 + Len(v.txs) <= MaxTxPerBlock
        <4>1. Len(v.txs) = n + 1
          BY <3>3 DEF n
        <4> QED
          BY <3>2, <3>4, <4>1, SizeAssumption
      <3> QED
        BY <3>4, <3>5, <3>6 DEF after, x, y
    <2>5. v.fee = Int64(PickLoop!Total(S \cup {t}))
      <3>1. v.fee = Int64(Int64(PickLoop!Total(S)) + GetTxFee(t))
        BY <1>7, <2>2
      <3>2. Int64(Int64(PickLoop!Total(S)) + GetTxFee(t)) = Int64(PickLoop!Total(S) + GetTxFee(t))
        BY <1>1, <1>8, Int64Sums
      <3>3. PickLoop!Total(S) + GetTxFee(t) = GetTxFee(t) + PickLoop!Total(S)
        BY <1>1, <1>8
      <3> QED
        BY <1>9, <3>1, <3>2, <3>3
    <2>6. /\ \A s \in S \cup {t} : Pickable(s, h)
          /\ \A s \in S \cup {t} : \E i \in 1 .. k + 1 : s = order[i]
          /\ \A i \in 1 .. k + 1 : Pickable(order[i], h) => order[i] \in S \cup {t}
      BY <1>5, <1>7, <1>10, <1>13, <2>3
    <2>7. ASSUME NEW i \in 1 .. Len(v.txs), NEW j \in 1 .. Len(v.txs), v.txs[i] = v.txs[j]
          PROVE  i = j
      <3> DEFINE q == w.txs
                 l == Len(q)
                 a == Append(q, t)
      <3>1. /\ l \in Nat /\ i \in 1 .. l + 1 /\ j \in 1 .. l + 1 /\ a[i] = a[j]
            /\ a[l + 1] = t /\ \A x \in 1 .. l : a[x] = q[x] /\ q[x] \in S
            /\ \A x, y \in 1 .. l : q[x] = q[y] => x = y
        BY <1>3, <1>7, <2>2, <2>3, <2>7
      <3> HIDE DEF a, l, q, S, t
      <3>2. (i \in 1 .. l \/ i = l + 1) /\ (j \in 1 .. l \/ j = l + 1)
        BY <3>1
      <3> QED
        BY <1>6, <3>1, <3>2
    <2> HIDE DEF v, S, size
    <2>8. PickedUpTo(order, h, k + 1, v)
      BY <1>10, <2>2, <2>3, <2>4, <2>5, <2>6, <2>7 DEF PickedUpTo
    <2> QED
      BY <2>8 DEF v
  <1> QED
    BY <1>11, <1>12, <1>13

\* The orders of a finite set by fee go through each element once.
LEMMA OrderType ==
  ASSUME NEW P, IsFiniteSet(P), NEW order \in ByFeeDesc(P)
  PROVE  /\ order \in Seq(P)
         /\ Len(order) = Cardinality(P)
         /\ \A t \in P : \E i \in 1 .. Len(order) : t = order[i]
         /\ \A i, j \in 1 .. Len(order) : order[i] = order[j] => i = j
         /\ \A i, j \in 1 .. Len(order) : i < j => GetTxFee(order[j]) <= GetTxFee(order[i])
  <1> DEFINE n == Cardinality(P)
  <1>1. n \in Nat
    BY FS_CardinalityType
  <1>2. /\ order \in [1 .. n -> P]
        /\ \A i, j \in 1 .. n : i # j => order[i] # order[j]
        /\ \A i, j \in DOMAIN order : i < j => GetTxFee(order[j]) <= GetTxFee(order[i])
    BY DEF ByFeeDesc, SetToSeqs
  <1>3. order \in Seq(P) /\ Len(order) = n /\ DOMAIN order = 1 .. n
    <2> HIDE DEF n
    <2> QED
      BY <1>1, <1>2
  <1>4. order \in Injection(1 .. n, P)
    BY <1>2 DEF Injection, IsInjective
  <1>5. order \in Surjection(1 .. n, P)
    <2>1. IsFiniteSet(1 .. n) /\ Cardinality(1 .. n) = n
      BY <1>1, FS_Interval
    <2> HIDE DEF n
    <2> QED
      BY <1>4, <2>1, FS_Injection, FS_Surjection DEF n
  <1>6. \A t \in P : \E i \in 1 .. n : t = order[i]
    BY <1>5 DEF Surjection
  <1> HIDE DEF n
  <1> QED
    BY <1>2, <1>3, <1>6 DEF n

\* What the fee helper picks, whatever the order: everything that can be
\* picked of those that come first, and no more than the limits allow.
LEMMA PickedEffect ==
  ASSUME NEW P \in SUBSET TxID, IsFiniteSet(P), \A t \in P : GetTxFee(t) \in Nat,
         NEW order \in ByFeeDesc(P), NEW h
  PROVE  /\ Picked(order, h) \in Picks(P)
         /\ PickedUpTo(order, h, Len(order), Picked(order, h))
  <1> DEFINE n == Len(order)
             base == [full |-> FALSE, size |-> CoinBaseSize, txs |-> << >>, fee |-> 0]
             Work == Picks(P)
             G == {z \in Nat \X Work : PickedUpTo(order, h, z[1], z[2])}
  <1>1. /\ order \in Seq(P) /\ n \in Nat
        /\ \A i \in 1 .. n : order[i] \in P
        /\ \A i, j \in 1 .. n : order[i] = order[j] => i = j
    BY OrderType
  <1>2. base \in Work
    BY SizeAssumption DEF Picks
  <1>3. PickedUpTo(order, h, 0, base)
    <2>1. base.size = CoinBaseSize /\ base.fee = 0 /\ Got(base) = {} /\ base.txs = << >>
      BY DEF Got
    <2>2. SizeSum!Total({}) = 0 /\ PickLoop!Total({}) = 0
      BY SizeSum!SumEmpty, PickLoop!SumEmpty
    <2>3. Int64(0) = 0
      BY FeeAssumption, Int64Sums
    <2>4. 0 \in 0 .. 0 /\ 1 .. 0 = {}
      OBVIOUS
    <2> HIDE DEF base
    <2> QED
      BY <2>1, <2>2, <2>3, <2>4, SizeAssumption DEF PickedUpTo
  <1>4. ASSUME NEW w \in Work, NEW t \in P
        PROVE  PickRound(w, t, h) \in Work
    BY PickType
  <1>5. ASSUME NEW i \in 1 .. n, NEW w \in Work, <<i - 1, w>> \in G
        PROVE  <<i, PickRound(w, order[i], h)>> \in G
    <2> DEFINE k == i - 1
    <2>1. k \in Nat /\ i = k + 1 /\ i \in Nat /\ PickedUpTo(order, h, k, w)
      BY <1>1, <1>5
    <2>2. order[k + 1] \in P /\ \A j \in 1 .. k : order[j] # order[k + 1]
      <3>1. \A j \in 1 .. k : j \in 1 .. n /\ j # i
        BY <1>1, <2>1
      <3> QED
        BY <1>1, <2>1, <3>1
    <2> HIDE DEF k
    <2>3. PickedUpTo(order, h, k + 1, PickRound(w, order[k + 1], h))
      BY <2>1, <2>2, PickStep
    <2>4. PickRound(w, order[i], h) \in Work
      BY <1>1, <1>4
    <2> HIDE DEF Work
    <2> QED
      BY <2>1, <2>3, <2>4
  <1>6. <<0, base>> \in G
    BY <1>2, <1>3
  <1> HIDE DEF G, Work, base
  <1>7. PickLoop!Passes(Work, P, order, h, G)
    BY <1>1, <1>4, <1>5 DEF PickLoop!Passes, PickLoop!Loops
  <1>8. PickLoop!Fold(base, order, h) \in Work /\ <<n, PickLoop!Fold(base, order, h)>> \in G
    BY <1>2, <1>6, <1>7, PickLoop!FoldInvariant
  <1>9. Picked(order, h) = PickLoop!Fold(base, order, h)
    BY DEF Picked, base, PickLoop!Fold, PickRound, FoldLeft, MapThenFoldSet, Max,
           PickLoop!FoldLeft, PickLoop!MapThenFoldSet, PickLoop!Max
  <1> QED
    BY <1>8, <1>9 DEF G, Work

-----------------------------------------------------------------------------
(* The coinbase of the miner.                                              *)

\* The coinbase that pays a reward from 0 on pays all of it, and the foundation
\* its share.
LEMMA CoinBasePays ==
  ASSUME NEW c \in TxID, NEW fee \in 0 .. Int64Half - 1, Outputs(c) = CoinbaseOutputs(fee)
  PROVE  OutputAmount(c, {ElaAssetId}) = fee /\ CheckCoinbaseOutput(c)
  <1> DEFINE part == (3 * fee) \div 10
             o1 == [TxID |-> c, Index |-> 1]
             o2 == [TxID |-> c, Index |-> 2]
             inEla == {o \in ToSet(Makes(c)) : OutputAt(o).AssetID = ElaAssetId}
             ours == {o \in inEla : OutputAt(o).ProgramHash = Foundation}
  <1>1. fee \in Nat /\ Int64Half \in Nat \ {0} /\ fee <= Int64Half - 1
    BY FeeAssumption
  <1>2. part \in 0 .. fee
    <2> DEFINE a == 3 * fee
    <2>1. a \in Int /\ 10 \in Nat \ {0}
      BY <1>1
    <2> HIDE DEF a
    <2>2. a % 10 \in 0 .. 9 /\ a \div 10 \in Int /\ a = 10 * (a \div 10) + (a % 10)
      BY <2>1, Division
    <2> QED
      BY <1>1, <2>2 DEF a
  <1>3. ThirtyPercent(fee) = part
    BY <1>1 DEF ThirtyPercent
  <1> HIDE DEF part
  <1>4. Int64(fee - part) = fee - part /\ fee - part \in 0 .. fee
    <2>1. fee - part \in 0 .. Int64Half - 1
      BY <1>1, <1>2
    <2> QED
      BY <1>1, <1>2, <2>1, Int64Sums
  <1>5. Outputs(c) = <<[ProgramHash |-> Foundation, AssetID |-> ElaAssetId, Value |-> part],
                       [ProgramHash |-> Miner, AssetID |-> ElaAssetId, Value |-> fee - part]>>
    BY <1>3, <1>4 DEF CoinbaseOutputs
  <1>6. /\ Len(Outputs(c)) = 2
        /\ OutputAt(o1) = [ProgramHash |-> Foundation, AssetID |-> ElaAssetId, Value |-> part]
        /\ OutputAt(o2) = [ProgramHash |-> Miner, AssetID |-> ElaAssetId, Value |-> fee - part]
    BY <1>5 DEF Outputs, OutputAt
  <1>7. ToSet(Makes(c)) = {o1, o2}
    <2>1. DOMAIN Makes(c) = 1 .. 2
      BY <1>6 DEF Makes, OutputIndexes, Outputs
    <2>2. Makes(c)[1] = o1 /\ Makes(c)[2] = o2
      BY <1>6 DEF Makes, OutputIndexes, Outputs
    <2>3. 1 .. 2 = {1, 2}
      OBVIOUS
    <2> QED
      BY <2>1, <2>2, <2>3 DEF ToSet
  <1>8. inEla = {o1, o2} /\ o1 # o2
    BY <1>6, <1>7
  <1>9. OutValue(o1) = part /\ OutValue(o2) = fee - part
    BY <1>6 DEF OutValue
  <1> HIDE DEF o1, o2
  <1>10. TotalValue({o1, o2}) = fee /\ TotalValue({o1}) = part
    <2>1. part \in Int /\ fee - part \in Int /\ fee \in Int
      BY <1>1, <1>2, <1>4
    <2>2. IsFiniteSet({}) /\ IsFiniteSet({o1})
      BY FS_EmptySet, FS_Singleton
    <2>3. OutSum!Total({} \cup {o1}) = OutValue(o1) + OutSum!Total({})
      BY <1>9, <2>1, <2>2, SameFinite, OutSum!SumAdd
    <2>4. OutSum!Total({o1} \cup {o2}) = OutValue(o2) + OutSum!Total({o1})
      BY <1>8, <1>9, <2>1, <2>2, SameFinite, OutSum!SumAdd
    <2>5. {} \cup {o1} = {o1} /\ {o1} \cup {o2} = {o1, o2}
      OBVIOUS
    <2>6. OutSum!Total({}) = 0
      BY OutSum!SumEmpty
    <2> QED
      BY <1>9, <2>1, <2>3, <2>4, <2>5, <2>6, SumsAreTotals
  <1>11. Int64(fee) = fee /\ Int64(part) = part
    <2>1. part \in 0 .. Int64Half - 1
      BY <1>1, <1>2
    <2> QED
      BY <2>1, Int64Sums
  <1>12. OutputAmount(c, {ElaAssetId}) = fee
    <2>1. {o \in ToSet(Makes(c)) : OutputAt(o).AssetID \in {ElaAssetId}} = inEla
      OBVIOUS
    <2> QED
      BY <1>8, <1>10, <2>1 DEF OutputAmount
  <1>13. ours = {o1} \/ ours = {o1, o2}
    BY <1>6, <1>8
  <1>14. Int64(TotalValue(ours)) >= part
    BY <1>1, <1>2, <1>10, <1>11, <1>13
  <1>15. Int64(TotalValue(ours)) >= ThirtyPercent(Int64(TotalValue(inEla)))
    BY <1>3, <1>8, <1>10, <1>11, <1>14
  <1> QED
    BY <1>6, <1>12, <1>15 DEF CheckCoinbaseOutput

-----------------------------------------------------------------------------
(* The block in the making.                                                *)

\* A coinbase in front of what was picked.
LEMMA BlockOrder ==
  ASSUME NEW P, NEW w \in Picks(P), NEW c
  PROVE  /\ (<<c>> \o w.txs)[1] = c
         /\ Len(<<c>> \o w.txs) = 1 + Len(w.txs) /\ Len(w.txs) \in Nat
         /\ DOMAIN (<<c>> \o w.txs) = 1 .. 1 + Len(w.txs)
         /\ \A i \in 1 .. Len(w.txs) : w.txs[i] \in P /\ (<<c>> \o w.txs)[i + 1] = w.txs[i]
         /\ \A i \in 1 .. 1 + Len(w.txs) : i = 1 \/ \E j \in 1 .. Len(w.txs) : i = j + 1
  <1> DEFINE s == w.txs
             n == Len(s)
             h == <<c>>
  <1>1. s \in Seq(P)
    BY DEF Picks
  <1> HIDE DEF s
  <1>2. s \in Seq(P \cup {c}) /\ n \in Nat /\ \A i \in 1 .. n : s[i] \in P
    BY <1>1
  <1>3. h \in Seq(P \cup {c}) /\ Len(h) = 1 /\ h[1] = c
    OBVIOUS
  <1> HIDE DEF h
  <1>4. /\ h \o s \in Seq(P \cup {c})
        /\ Len(h \o s) = Len(h) + n
        /\ \A i \in 1 .. Len(h) + n :
             (h \o s)[i] = IF i <= Len(h) THEN h[i] ELSE s[i - Len(h)]
    <2>1. h \in Seq(P \cup {c}) /\ s \in Seq(P \cup {c})
      BY <1>2, <1>3
    <2> QED
      BY <2>1, ConcatProperties, ZenonT(30)
  <1> DEFINE b == h \o s
  <1>5. DOMAIN b = 1 .. Len(b)
    <2>1. b \in Seq(P \cup {c})
      BY <1>4
    <2> HIDE DEF b
    <2> QED
      BY <2>1
  <1> HIDE DEF b, n
  <1>6. 1 \in 1 .. Len(h) + n /\ b[1] = c /\ Len(b) = 1 + n
    <2>1. 1 \in 1 .. Len(h) + n /\ 1 <= Len(h)
      BY <1>2, <1>3
    <2> QED
      BY <1>3, <1>4, <2>1 DEF b
  <1>7. ASSUME NEW i \in 1 .. n
        PROVE  b[i + 1] = s[i]
    <2>1. i + 1 \in 1 .. Len(h) + n /\ ~(i + 1 <= Len(h)) /\ (i + 1) - Len(h) = i
      BY <1>2, <1>3
    <2> QED
      BY <1>4, <2>1 DEF b
  <1>8. ASSUME NEW i \in 1 .. 1 + n, i # 1
        PROVE  \E j \in 1 .. n : i = j + 1
    <2>1. i - 1 \in 1 .. n /\ i = (i - 1) + 1
      BY <1>2, <1>8
    <2> QED
      BY <2>1
  <1> QED
    BY <1>2, <1>5, <1>6, <1>7, <1>8 DEF b, n, s, h

\* The transactions of such a block.
LEMMA BlockHolds ==
  ASSUME NEW P, NEW w \in Picks(P), NEW c, c \notin P
  PROVE  /\ (<<c>> \o w.txs)[1] = c
         /\ Len(<<c>> \o w.txs) = 1 + Len(w.txs) /\ Len(w.txs) \in Nat
         /\ BlockTxs(<<c>> \o w.txs) = {c} \cup Got(w)
         /\ BlockTxs(<<c>> \o w.txs) \ {(<<c>> \o w.txs)[1]} = Got(w)
         /\ Got(w) \subseteq P
  <1> DEFINE s == w.txs
             n == Len(s)
             b == <<c>> \o s
  <1>1. /\ b[1] = c /\ Len(b) = 1 + n /\ n \in Nat
        /\ \A i \in 1 .. n : s[i] \in P /\ b[i + 1] = s[i]
        /\ \A i \in 1 .. 1 + n : i = 1 \/ \E j \in 1 .. n : i = j + 1
    BY BlockOrder
  <1>2. Got(w) = {s[i] : i \in 1 .. n}
    BY DEF Got
  <1> HIDE DEF s, n, b
  <1>3. 1 \in 1 .. 1 + n /\ \A j \in 1 .. n : j + 1 \in 1 .. 1 + n
    BY <1>1
  <1>4. BlockTxs(b) = {c} \cup Got(w)
    <2>1. BlockTxs(b) = {b[i] : i \in 1 .. 1 + n}
      BY <1>1 DEF BlockTxs
    <2>2. ASSUME NEW i \in 1 .. 1 + n
          PROVE  b[i] \in {c} \cup Got(w)
      <3>1. CASE i = 1
        BY <1>1, <3>1
      <3>2. CASE i # 1
        <4>1. PICK j \in 1 .. n : i = j + 1
          BY <1>1, <3>2
        <4> QED
          BY <1>1, <1>2, <4>1
      <3> QED
        BY <3>1, <3>2
    <2>3. c \in BlockTxs(b) /\ \A t \in Got(w) : t \in BlockTxs(b)
      BY <1>1, <1>2, <1>3, <2>1
    <2> QED
      BY <2>1, <2>2, <2>3
  <1>5. Got(w) \subseteq P
    BY <1>1, <1>2
  <1>6. BlockTxs(b) \ {b[1]} = Got(w)
    BY <1>1, <1>4, <1>5
  <1> QED
    BY <1>1, <1>4, <1>5, <1>6 DEF b, s, n

\* The sums of the properties are those of the fee helper's loop.
LEMMA TemplateSums ==
  \A S : /\ MapThenSumSet(GetTxFee, S) = PickLoop!Total(S)
         /\ MapThenSumSet(LAMBDA t : TxSize[t], S) = SizeSum!Total(S)
  BY DEF MapThenSumSet, MapThenFoldSet, SizeOf, PickLoop!Total, PickLoop!MapThenSumSet,
         PickLoop!MapThenFoldSet, SizeSum!Total, SizeSum!MapThenSumSet, SizeSum!MapThenFoldSet

\* TemplateSound, with the sums under the names that can be reasoned about.
TemplateOK ==
  mining.pc = "solving" =>
    LET b == mining.block
        txs == BlockTxs(b) \ {b[1]}
    IN  /\ Len(b) <= MaxTxPerBlock \/ txs = {}
        /\ txs = {} \/ CoinBaseSize + SizeSum!Total(txs) <= MaxBlockSize
        /\ OutputAmount(b[1], {ElaAssetId}) = PickLoop!Total(txs)
        /\ CheckCoinbaseOutput(b[1])

\* The fee helper's turn: some order of the pool, what it picks in that order,
\* and a coinbase that pays what the picked transactions leave.
LEMMA TemplateMade ==
  ASSUME NInv, PoolWaits, GenerateBlockTransactions
  PROVE  \E order \in ByFeeDesc(pool), c \in TxID :
           LET w == Picked(order, mining.next)
           IN  /\ w \in Picks(pool)
               /\ PickedUpTo(order, mining.next, Len(order), w)
               /\ IsCoinBaseTx(c) /\ c \notin pool
               /\ Txn[c].LockTime = Len(mining.parent) + 1
               /\ Outputs(c) = CoinbaseOutputs(w.fee)
               /\ <<c>> \o w.txs \in Blocks
               /\ mining'.block = <<c>> \o w.txs
               /\ mining'.parent = mining.parent
  <1>1. PICK order \in ByFeeDesc(pool) :
          LET w == Picked(order, mining.next)
          IN  \E c \in CoinBases(w.fee) :
                /\ <<c>> \o w.txs \in Blocks
                /\ mining' = [mining EXCEPT !.pc = "solving", !.block = <<c>> \o w.txs]
    BY DEF GenerateBlockTransactions
  <1> DEFINE w == Picked(order, mining.next)
  <1>2. PICK c \in CoinBases(w.fee) :
          /\ <<c>> \o w.txs \in Blocks
          /\ mining' = [mining EXCEPT !.pc = "solving", !.block = <<c>> \o w.txs]
    BY <1>1
  <1>3. w \in Picks(pool) /\ PickedUpTo(order, mining.next, Len(order), w)
    BY PickedEffect DEF NInv, PoolWaits
  <1>4. /\ c \in TxID /\ IsCoinBaseTx(c) /\ c \notin pool
        /\ Txn[c].LockTime = Len(mining.parent) + 1
        /\ Outputs(c) = CoinbaseOutputs(w.fee)
    BY DEF CoinBases, PoolWaits
  <1> HIDE DEF w
  <1>5. mining'.block = <<c>> \o w.txs /\ mining'.parent = mining.parent
    BY <1>2 DEF NInv, MiningOK
  <1> QED
    BY <1>2, <1>3, <1>4, <1>5 DEF w

\* A template that the fee helper makes is sound.
LEMMA TemplateMadeSound ==
  ASSUME NInv, PoolWaits, GenerateBlockTransactions
  PROVE  TemplateOK'
  <1>1. PICK order \in ByFeeDesc(pool), c \in TxID :
          LET w == Picked(order, mining.next)
          IN  /\ w \in Picks(pool)
              /\ PickedUpTo(order, mining.next, Len(order), w)
              /\ IsCoinBaseTx(c) /\ c \notin pool
              /\ Txn[c].LockTime = Len(mining.parent) + 1
              /\ Outputs(c) = CoinbaseOutputs(w.fee)
              /\ <<c>> \o w.txs \in Blocks
              /\ mining'.block = <<c>> \o w.txs
              /\ mining'.parent = mining.parent
    BY TemplateMade
  <1> DEFINE w == Picked(order, mining.next)
             n == Len(order)
             b == <<c>> \o w.txs
             txs == Got(w)
  <1>2. /\ w \in Picks(pool)
        /\ PickedUpTo(order, mining.next, n, w)
        /\ IsCoinBaseTx(c) /\ c \notin pool
        /\ Outputs(c) = CoinbaseOutputs(w.fee)
        /\ b \in Blocks
        /\ mining'.block = b
    BY <1>1
  <1> HIDE DEF w, n
  <1>3. /\ b[1] = c /\ Len(b) = 1 + Len(w.txs)
        /\ BlockTxs(b) \ {b[1]} = txs /\ txs \subseteq pool
    BY <1>2, BlockHolds
  <1>4. IsFiniteSet(txs) /\ \A t \in txs : GetTxFee(t) \in Nat
    BY <1>3, FS_Subset DEF PoolWaits
  <1> HIDE DEF b, txs
  <1>5. PickLoop!Total(txs) \in 0 .. Int64Half - 1
    <2>1. PickLoop!Total(txs) \in Nat
      BY <1>4, InstanceFinite, PickLoop!SumNat
    <2>2. MapThenSumSet(GetTxFee, BlockTxs(b) \ {b[1]}) < Int64Half
      BY <1>2, RewardAssumption
    <2>3. PickLoop!Total(txs) < Int64Half
      BY <1>3, <2>2, TemplateSums
    <2> QED
      BY <2>1, <2>3, FeeAssumption
  <1>6. w.fee = PickLoop!Total(txs)
    <2>1. w.fee = Int64(PickLoop!Total(txs))
      BY <1>2 DEF PickedUpTo, txs
    <2> QED
      BY <1>5, <2>1, Int64Sums
  <1>7. OutputAmount(c, {ElaAssetId}) = PickLoop!Total(txs) /\ CheckCoinbaseOutput(c)
    BY <1>2, <1>5, <1>6, CoinBasePays
  <1>8. Len(b) <= MaxTxPerBlock \/ txs = {}
    BY <1>2, <1>3 DEF PickedUpTo, txs
  <1>9. txs = {} \/ CoinBaseSize + SizeSum!Total(txs) <= MaxBlockSize
    <2>1. \A t \in txs : SizeOf(t) \in Int
      BY <1>3, SizeAssumption DEF SizeOf, NInv
    <2>2. SizeSum!Total(txs) \in Int
      BY <1>4, <2>1, InstanceFinite, SizeSum!SumType
    <2>3. /\ txs # {} => w.size <= MaxBlockSize
          /\ CoinBaseSize + SizeSum!Total(txs) <= w.size
      BY <1>2 DEF PickedUpTo, txs
    <2>4. w.size \in Int
      BY <1>2 DEF Picks
    <2> QED
      BY <2>2, <2>3, <2>4, SizeAssumption
  <1> QED
    BY <1>2, <1>3, <1>7, <1>8, <1>9 DEF TemplateOK

\* No other step changes a template.
LEMMA TemplateKept ==
  ASSUME NInv, PoolWaits, TemplateOK, [NodeNext]_nodeVars
  PROVE  TemplateOK'
  <1>1. CASE UNCHANGED mining
    BY <1>1 DEF TemplateOK
  <1>2. CASE CreateBlock
    BY <1>2 DEF TemplateOK, CreateBlock, Idle
  <1>3. CASE ReadBestHeight
    BY <1>3 DEF TemplateOK, ReadBestHeight, NInv, MiningOK
  <1>4. CASE GenerateBlockTransactions
    BY <1>4, TemplateMadeSound
  <1>5. CASE SubmitBlock
    BY <1>5 DEF TemplateOK, SubmitBlock, Idle
  <1> QED
    BY <1>1, <1>2, <1>3, <1>4, <1>5
       DEF NodeNext, Grow, MinerStep, AppendToTxPool, ReceiveBlock, DisconnectBlock, nodeVars

\* TemplateSound: the block that the miner works on keeps the limits of size and
\* of count, and its coinbase pays what its transactions leave, 30% of it to the
\* foundation.
THEOREM NodeTemplateSound == NodeSpec => []TemplateSound
  <1>1. NodeInit => PoolWaits /\ TemplateOK
    BY FS_EmptySet DEF NodeInit, PoolWaits, TemplateOK, Idle
  <1>2. NInv /\ PoolWaits /\ TemplateOK /\ [NodeNext]_nodeVars => (PoolWaits /\ TemplateOK)'
    BY NodeStepPoolWaits, TemplateKept
  <1>3. TemplateOK => TemplateSound
    BY TemplateSums DEF TemplateOK, TemplateSound
  <1>4. NodeSpec => []NInv
    BY NodeInvariant
  <1> QED
    BY <1>1, <1>2, <1>3, <1>4, PTL DEF NodeSpec

\* The step in which the miner starts to solve is the fee helper's.
LEMMA SolvingStep ==
  ASSUME NInv, [NodeNext]_nodeVars, mining.pc = "height", mining'.pc = "solving"
  PROVE  GenerateBlockTransactions
  <1>1. ~UNCHANGED mining
    OBVIOUS
  <1>2. CASE CreateBlock
    BY <1>2 DEF CreateBlock
  <1>3. CASE ReadBestHeight
    BY <1>3 DEF ReadBestHeight
  <1>4. CASE SubmitBlock
    BY <1>4 DEF SubmitBlock
  <1> QED
    BY <1>1, <1>2, <1>3, <1>4
       DEF NodeNext, Grow, MinerStep, AppendToTxPool, ReceiveBlock, DisconnectBlock, nodeVars

\* What it takes from the pool can be picked; what it leaves cannot, or pays no
\* more than anything it takes.
LEMMA SolvingTakes ==
  ASSUME NInv, PoolWaits, GenerateBlockTransactions
  PROVE  /\ \A t \in BlockTxs(mining'.block) \cap pool : Pickable(t, mining.next)
         /\ \A t \in pool \ BlockTxs(mining'.block) :
              \A s \in BlockTxs(mining'.block) \cap pool :
                Pickable(t, mining.next) => GetTxFee(t) <= GetTxFee(s)
  <1>1. PICK order \in ByFeeDesc(pool), c \in TxID :
          LET w == Picked(order, mining.next)
          IN  /\ w \in Picks(pool)
              /\ PickedUpTo(order, mining.next, Len(order), w)
              /\ IsCoinBaseTx(c) /\ c \notin pool
              /\ Txn[c].LockTime = Len(mining.parent) + 1
              /\ Outputs(c) = CoinbaseOutputs(w.fee)
              /\ <<c>> \o w.txs \in Blocks
              /\ mining'.block = <<c>> \o w.txs
              /\ mining'.parent = mining.parent
    BY TemplateMade
  <1> DEFINE w == Picked(order, mining.next)
             n == Len(order)
             h == mining.next
  <1>2. /\ w \in Picks(pool)
        /\ PickedUpTo(order, h, n, w)
        /\ c \notin pool
        /\ mining'.block = <<c>> \o w.txs
    BY <1>1
  <1>3. /\ \A t \in pool : \E i \in 1 .. n : t = order[i]
        /\ \A i, j \in 1 .. n : i < j => GetTxFee(order[j]) <= GetTxFee(order[i])
        /\ n \in Nat
    BY OrderType DEF PoolWaits
  <1> HIDE DEF w, n, h
  <1>4. BlockTxs(mining'.block) \cap pool = Got(w)
    <2>1. BlockTxs(<<c>> \o w.txs) = {c} \cup Got(w) /\ Got(w) \subseteq pool
      BY <1>2, BlockHolds
    <2> QED
      BY <1>2, <2>1
  <1>5. PICK m \in 0 .. n :
          /\ \A t \in Got(w) : \E i \in 1 .. m : t = order[i]
          /\ \A i \in 1 .. m : Pickable(order[i], h) => order[i] \in Got(w)
    BY <1>2 DEF PickedUpTo
  <1>6. \A t \in Got(w) : Pickable(t, h)
    BY <1>2 DEF PickedUpTo
  <1>7. ASSUME NEW t \in pool, t \notin Got(w), NEW s \in Got(w), Pickable(t, h)
        PROVE  GetTxFee(t) <= GetTxFee(s)
    <2>1. PICK j \in 1 .. n : t = order[j]
      BY <1>3
    <2>2. PICK i \in 1 .. m : s = order[i]
      BY <1>5
    <2>3. ~(j \in 1 .. m)
      BY <1>5, <1>7, <2>1
    <2>4. i \in 1 .. n /\ i < j
      BY <1>3, <2>3
    <2> QED
      BY <1>3, <2>1, <2>2, <2>4
  <1> QED
    BY <1>4, <1>6, <1>7 DEF h

\* TakesBestPaying: of what could be included, the fee helper leaves nothing out
\* that pays more than something it takes, whichever order transactions of equal
\* fee are in and although what it passes over uses up room.
THEOREM NodeTakesBestPaying == NodeSpec => TakesBestPaying
  <1>1. NodeInit => PoolWaits
    BY FS_EmptySet DEF NodeInit, PoolWaits
  <1>2. NInv /\ PoolWaits /\ [NodeNext]_nodeVars => PoolWaits'
    BY NodeStepPoolWaits
  <1>3. NInv /\ PoolWaits /\ [NodeNext]_nodeVars =>
          [mining.pc = "height" /\ mining'.pc = "solving" =>
             LET taken == BlockTxs(mining'.block)
             IN  \A t \in pool \ taken : \A s \in taken \cap pool :
                   Final(t, mining.next) /\ ~GetTxFeeFails(t) =>
                     GetTxFee(t) <= GetTxFee(s)]_nodeVars
    BY SolvingStep, SolvingTakes DEF Pickable
  <1>4. NodeSpec => []NInv
    BY NodeInvariant
  <1> QED
    BY <1>1, <1>2, <1>3, <1>4, PTL DEF NodeSpec, TakesBestPaying

\* TakesSpendable: whatever blocks came and went since the pool was filled, the
\* inputs of what the fee helper takes are unspent when it takes it.  A recharge
\* has no inputs: its fee is found without looking any up.
THEOREM NodeTakesSpendable ==
  ASSUME \A t \in TxID : IsRechargeToSideChainTx(t) => Spends(t) = {}
  PROVE  NodeSpec => TakesSpendable
  <1>1. NodeInit => PoolWaits
    BY FS_EmptySet DEF NodeInit, PoolWaits
  <1>2. NInv /\ PoolWaits /\ [NodeNext]_nodeVars => PoolWaits'
    BY NodeStepPoolWaits
  <1>3. NInv /\ PoolWaits /\ PoolUnspent /\ [NodeNext]_nodeVars =>
          [mining.pc = "height" /\ mining'.pc = "solving" =>
             \A t \in BlockTxs(mining'.block) \cap pool : \A o \in Spends(t) :
               o.Index \in unspent[o.TxID]]_nodeVars
    <2> SUFFICES ASSUME NInv, PoolWaits, PoolUnspent, [NodeNext]_nodeVars,
                        mining.pc = "height", mining'.pc = "solving",
                        NEW t \in BlockTxs(mining'.block) \cap pool, NEW o \in Spends(t)
                 PROVE  o.Index \in unspent[o.TxID]
      OBVIOUS
    <2>1. Pickable(t, mining.next)
      BY SolvingStep, SolvingTakes
    <2>2. ~IsRechargeToSideChainTx(t)
      BY DEF NInv
    <2>3. Stored(o.TxID)
      BY <2>1, <2>2 DEF Pickable, GetTxFeeFails
    <2> QED
      BY <2>3 DEF PoolUnspent
  <1>4. NodeSpec => []NInv
    BY NodeInvariant
  <1>5. NodeSpec => []PoolUnspent
    BY NodePoolUnspent
  <1> QED
    BY <1>1, <1>2, <1>3, <1>4, <1>5, PTL DEF NodeSpec, TakesSpendable

-----------------------------------------------------------------------------
(* Why the chain would refuse the block of its own node.                   *)

\* What the checks of an output's amount find, whatever the database holds.
AmountsFit(t) ==
  \A i \in OutputIndexes(t) :
    LET a == Outputs(t)[i].AssetID
        value == Outputs(t)[i].Value
    IN  IF a = ElaAssetId
        THEN checkAmountPrecise(value, AssetPrecision[a])
        ELSE checkTokenAmountPrecise(value, AssetPrecision[a])

\* What was found of t when the pool admitted it and cannot change.
Vetted(t) ==
  /\ ~IsCoinBaseTx(t) /\ IsInjective(Txn[t].Inputs)
  /\ checkTransactionOutputImpl(t) /\ checkTransactionPayloadImpl(t)
  /\ IsRegisterAssetTx(t) \/ AmountsFit(t)
  /\ \A o \in Spends(t) : o.Index \in OutputIndexes(o.TxID)
  /\ ~ContextEndsEarly(t) =>
       /\ \A o \in Spends(t) : OutputAt(o).Value > 0
       /\ Int64(Int64(InputAmount(t, {ElaAssetId})) - Int64(OutputAmount(t, {ElaAssetId})))
            >= MinFee(t)
       /\ TokensBalance(t)
       /\ IsRegisterAssetTx(t) =>
            /\ Txn[t].Amount > 0
            /\ AssetOf(t) \in WellNamed
            /\ \A i \in OutputIndexes(t) :
                 Outputs(t)[i].AssetID = AssetOf(t)
                   => Outputs(t)[i].ProgramHash = Txn[t].Controller
            /\ OutputAmount(t, {AssetOf(t)}) = Txn[t].Amount * Pow10[TokenDigits]

\* What the chain must hold for t.
Served(t) ==
  /\ \A o \in Spends(t) : Stored(o.TxID)
  /\ ~ContextEndsEarly(t) => \A o \in Spends(t) : IsCoinBaseTx(o.TxID) => Mature(o.TxID)
  /\ ~IsRegisterAssetTx(t) => \A i \in OutputIndexes(t) : assets[Outputs(t)[i].AssetID] # Absent

\* That is all that the checks ask.
LEMMA ChecksSplit ==
  ASSUME NEW t \in TxID
  PROVE  /\ Admissible(t) /\ (\A o \in Spends(t) : o.Index \in OutputIndexes(o.TxID)) =>
              Vetted(t)
         /\ Admissible(t) /\ (\A o \in Spends(t) : Stored(o.TxID)) => Served(t)
         /\ Vetted(t) /\ Served(t) /\ AssetNameIsNew(t) =>
              CheckTransactionSanity(t) /\ CheckTransactionContext(t)
  <1>1. Admissible(t) =>
          /\ ~IsCoinBaseTx(t) /\ IsInjective(Txn[t].Inputs)
          /\ CheckTransactionSanity(t) /\ CheckTransactionContext(t)
    BY DEF Admissible
  <1>2. checkAssetPrecisionImpl(t) <=>
          \/ IsRegisterAssetTx(t)
          \/ /\ AmountsFit(t)
             /\ \A i \in OutputIndexes(t) : assets[Outputs(t)[i].AssetID] # Absent
    BY DEF checkAssetPrecisionImpl, AmountsFit
  <1>3. CheckTransactionSanity(t) <=>
          /\ checkTransactionOutputImpl(t)
          /\ checkAssetPrecisionImpl(t)
          /\ checkTransactionPayloadImpl(t)
    BY DEF CheckTransactionSanity
  <1>4. CheckTransactionContext(t) /\ ~ContextEndsEarly(t) =>
          /\ checkTransactionBalanceImpl(t)
          /\ checkReferencedOutputImpl(t)
          /\ CheckRegisterAssetTx(t)
    BY DEF CheckTransactionContext
  <1>5. ASSUME Admissible(t), \A o \in Spends(t) : o.Index \in OutputIndexes(o.TxID)
        PROVE  Vetted(t)
    <2>1. IsRegisterAssetTx(t) \/ AmountsFit(t)
      BY <1>1, <1>2, <1>3, <1>5
    <2>2. CASE ContextEndsEarly(t)
      BY <1>1, <1>3, <1>5, <2>1, <2>2 DEF Vetted
    <2>3. CASE ~ContextEndsEarly(t)
      <3>1. \A o \in Spends(t) : OutputAt(o).Value > 0
        BY <1>1, <1>4, <1>5, <2>3 DEF checkReferencedOutputImpl
      <3>2. /\ Int64(Int64(InputAmount(t, {ElaAssetId})) - Int64(OutputAmount(t, {ElaAssetId})))
                 >= MinFee(t)
            /\ TokensBalance(t)
        BY <1>1, <1>4, <1>5, <2>3 DEF checkTransactionBalanceImpl
      <3>3. IsRegisterAssetTx(t) =>
              /\ Txn[t].Amount > 0
              /\ AssetOf(t) \in WellNamed
              /\ \A i \in OutputIndexes(t) :
                   Outputs(t)[i].AssetID = AssetOf(t)
                     => Outputs(t)[i].ProgramHash = Txn[t].Controller
              /\ OutputAmount(t, {AssetOf(t)}) = Txn[t].Amount * Pow10[TokenDigits]
        BY <1>1, <1>4, <1>5, <2>3 DEF CheckRegisterAssetTx
      <3> QED
        BY <1>1, <1>3, <1>5, <2>1, <3>1, <3>2, <3>3 DEF Vetted
    <2> QED
      BY <2>2, <2>3
  <1>6. ASSUME Admissible(t), \A o \in Spends(t) : Stored(o.TxID)
        PROVE  Served(t)
    <2>1. ~ContextEndsEarly(t) => \A o \in Spends(t) : IsCoinBaseTx(o.TxID) => Mature(o.TxID)
      BY <1>1, <1>4, <1>6 DEF checkReferencedOutputImpl
    <2>2. ~IsRegisterAssetTx(t) =>
            \A i \in OutputIndexes(t) : assets[Outputs(t)[i].AssetID] # Absent
      BY <1>1, <1>2, <1>3, <1>6
    <2> QED
      BY <1>6, <2>1, <2>2 DEF Served
  <1>7. ASSUME Vetted(t), Served(t), AssetNameIsNew(t)
        PROVE  CheckTransactionSanity(t) /\ CheckTransactionContext(t)
    <2>1. CheckTransactionSanity(t)
      BY <1>2, <1>3, <1>7 DEF Vetted, Served
    <2>2. CASE ContextEndsEarly(t)
      BY <2>1, <2>2 DEF CheckTransactionContext
    <2>3. CASE ~ContextEndsEarly(t)
      <3>1. checkTransactionBalanceImpl(t)
        BY <1>7, <2>3 DEF checkTransactionBalanceImpl, Vetted, Served
      <3>2. checkReferencedOutputImpl(t)
        BY <1>7, <2>3 DEF checkReferencedOutputImpl, Vetted, Served
      <3>3. CheckRegisterAssetTx(t)
        BY <1>7, <2>3 DEF CheckRegisterAssetTx, Vetted
      <3> QED
        BY <2>1, <3>1, <3>2, <3>3 DEF CheckTransactionContext
    <2> QED
      BY <2>2, <2>3
  <1> QED
    BY <1>5, <1>6, <1>7

\* What an admitted transaction consumes was made and is in the chain.
LEMMA AdmittedInputs ==
  ASSUME IInv, NEW t \in TxID, Admissible(t), NEW o \in Spends(t)
  PROVE  Stored(o.TxID) /\ o.Index \in OutputIndexes(o.TxID)
  <1>1. o.Index \in unspent[o.TxID]
    BY DEF Admissible, CheckTxContext
  <1> QED
    BY <1>1, UnspentIff DEF IInv

\* Whatever happens to the chain, what waits was vetted.
PoolVetted == \A t \in pool : Vetted(t)

\* No step changes that.
LEMMA NodeStepVetted ==
  ASSUME NInv, PoolVetted, [NodeNext]_nodeVars
  PROVE  PoolVetted'
  <1>1. \A t \in TxID : Vetted(t)' = Vetted(t)
    BY DEF Vetted, AmountsFit
  <1>2. ASSUME NEW t \in TxID, Admissible(t)
        PROVE  Vetted(t)
    BY <1>2, ChecksSplit, AdmittedInputs DEF NInv, VInv
  <1>3. \A b : CleanSubmittedTransactions(b) \subseteq pool
    BY DEF CleanSubmittedTransactions
  <1>4. \A t \in pool' : t \in TxID /\ Vetted(t)
    BY <1>2, <1>3, NodeStep DEF NInv, PoolVetted
  <1> QED
    BY <1>4 DEF PoolVetted, Vetted, AmountsFit

\* A block in the making is a coinbase for the height after its parent's, and
\* other transactions, each once.
BlockOK ==
  mining.pc = "solving" =>
    LET b == mining.block
    IN  /\ Len(b) >= 1 /\ IsInjective(b)
        /\ \A i \in 1 .. Len(b) : IsCoinBaseTx(b[i]) <=> i = 1
        /\ Txn[b[1]].LockTime = Len(mining.parent) + 1
        /\ \A i \in OutputIndexes(b[1]) : Outputs(b[1])[i].AssetID = ElaAssetId

\* No step changes that either.
LEMMA NodeStepBlockOK ==
  ASSUME NInv, PoolWaits, BlockOK, [NodeNext]_nodeVars
  PROVE  BlockOK'
  <1>1. CASE UNCHANGED mining
    BY <1>1 DEF BlockOK
  <1>2. CASE CreateBlock
    BY <1>2 DEF BlockOK, CreateBlock, Idle
  <1>3. CASE ReadBestHeight
    BY <1>3 DEF BlockOK, ReadBestHeight, NInv, MiningOK
  <1>4. CASE GenerateBlockTransactions
    <2>1. PICK order \in ByFeeDesc(pool), c \in TxID :
            LET w == Picked(order, mining.next)
            IN  /\ w \in Picks(pool)
                /\ PickedUpTo(order, mining.next, Len(order), w)
                /\ IsCoinBaseTx(c) /\ c \notin pool
                /\ Txn[c].LockTime = Len(mining.parent) + 1
                /\ Outputs(c) = CoinbaseOutputs(w.fee)
                /\ <<c>> \o w.txs \in Blocks
                /\ mining'.block = <<c>> \o w.txs
                /\ mining'.parent = mining.parent
      BY <1>4, TemplateMade
    <2> DEFINE w == Picked(order, mining.next)
               s == w.txs
               n == Len(s)
               b == <<c>> \o s
    <2>2. /\ w \in Picks(pool)
          /\ PickedUpTo(order, mining.next, Len(order), w)
          /\ IsCoinBaseTx(c) /\ c \notin pool
          /\ Txn[c].LockTime = Len(mining.parent) + 1
          /\ Outputs(c) = CoinbaseOutputs(w.fee)
          /\ mining'.block = b
          /\ mining'.parent = mining.parent
      BY <2>1
    <2> HIDE DEF w
    <2>3. /\ b[1] = c /\ Len(b) = 1 + n /\ n \in Nat
          /\ DOMAIN b = 1 .. 1 + n
          /\ \A i \in 1 .. n : s[i] \in pool /\ b[i + 1] = s[i]
          /\ \A i \in 1 .. 1 + n : i = 1 \/ \E j \in 1 .. n : i = j + 1
      BY <2>2, BlockOrder
    <2>4. \A i, j \in 1 .. n : s[i] = s[j] => i = j
      BY <2>2 DEF PickedUpTo
    <2> HIDE DEF s, n, b
    <2>5. \A i \in 1 .. n : ~IsCoinBaseTx(s[i]) /\ s[i] # c
      BY <2>2, <2>3 DEF PoolWaits
    <2>6. ASSUME NEW i \in 1 .. 1 + n
          PROVE  IsCoinBaseTx(b[i]) <=> i = 1
      <3>1. CASE i = 1
        BY <2>2, <2>3, <3>1
      <3>2. CASE i # 1
        BY <2>3, <2>5, <3>2
      <3> QED
        BY <3>1, <3>2
    <2>7. ASSUME NEW i \in 1 .. 1 + n, NEW j \in 1 .. 1 + n, b[i] = b[j]
          PROVE  i = j
      <3>1. CASE i = 1 \/ j = 1
        BY <2>6, <2>7, <3>1
      <3>2. CASE i # 1 /\ j # 1
        <4>1. PICK x \in 1 .. n : i = x + 1
          BY <2>3, <3>2
        <4>2. PICK y \in 1 .. n : j = y + 1
          BY <2>3, <3>2
        <4>3. b[x + 1] = s[x] /\ b[y + 1] = s[y]
          BY <2>3
        <4>4. s[x] = s[y]
          BY <2>7, <4>1, <4>2, <4>3
        <4>5. x = y
          BY <2>4, <4>4
        <4> QED
          BY <4>1, <4>2, <4>5
      <3> QED
        BY <3>1, <3>2
    <2>8. IsInjective(b)
      BY <2>3, <2>7 DEF IsInjective
    <2>9. ASSUME NEW i \in OutputIndexes(c)
          PROVE  Outputs(c)[i].AssetID = ElaAssetId
      <3>1. i \in 1 .. Len(Outputs(c))
        BY DEF OutputIndexes, Outputs
      <3>2. i \in 1 .. 2 /\ Outputs(c) = CoinbaseOutputs(w.fee)
        BY <2>2, <3>1 DEF CoinbaseOutputs
      <3>3. i = 1 \/ i = 2
        BY <3>2
      <3> QED
        BY <3>2, <3>3 DEF CoinbaseOutputs
    <2>10. Len(b) >= 1 /\ Len(b) = 1 + n
      BY <2>3
    <2> QED
      BY <2>2, <2>3, <2>6, <2>8, <2>9, <2>10 DEF BlockOK
  <1>5. CASE SubmitBlock
    BY <1>5 DEF BlockOK, SubmitBlock, Idle
  <1> QED
    BY <1>1, <1>2, <1>3, <1>4, <1>5
       DEF NodeNext, Grow, MinerStep, AppendToTxPool, ReceiveBlock, DisconnectBlock, nodeVars

\* A coinbase for the next height, of ELA only, passes.
LEMMA CoinBasePasses ==
  ASSUME VInv, NEW c \in TxID, IsCoinBaseTx(c), Txn[c].LockTime = Height + 1,
         \A i \in OutputIndexes(c) : Outputs(c)[i].AssetID = ElaAssetId,
         CheckCoinbaseOutput(c)
  PROVE  /\ CheckTxContext(c) /\ AssetNameIsNew(c)
         /\ CheckTransactionSanity(c) /\ CheckTransactionContext(c)
  <1>1. IInv /\ CoinbaseLocked
    BY DEF VInv
  <1>2. ~IsRegisterAssetTx(c) /\ ~IsRechargeToSideChainTx(c) /\ Spends(c) = {}
    BY DEF IsCoinBaseTx, IsRegisterAssetTx, IsRechargeToSideChainTx, Spends
  <1>3. ~Stored(c)
    <2>1. SUFFICES ASSUME Stored(c)
          PROVE  FALSE
      OBVIOUS
    <2>2. txHeight[c] = Height + 1
      BY <1>1, <2>1 DEF CoinbaseLocked, StoredTxs
    <2>3. txHeight[c] \in Absent .. Height /\ Height \in Nat
      BY <1>1 DEF IInv, TypeOK, Height
    <2> QED
      BY <2>2, <2>3 DEF Absent
  <1>4. assets[ElaAssetId] # Absent
    <2>1. ElaAssetId \in StoredTxs /\ txHeight[ElaAssetId] = 0
      BY <1>1, GenesisAssumption DEF IInv, GenesisStored, StoredTxs, Stored, Absent
    <2>2. IsRegisterAssetTx(ElaAssetId) /\ AssetOf(ElaAssetId) = ElaAssetId /\ ElaAssetId \in AssetID
      BY GenesisAssumption DEF IsRegisterAssetTx, AssetOf
    <2> DEFINE R == {t \in StoredTxs : IsRegisterAssetTx(t) /\ AssetOf(t) = ElaAssetId}
    <2>3. IF R = {} THEN assets[ElaAssetId] = Absent ELSE \A t \in R : assets[ElaAssetId] = txHeight[t]
      BY <1>1, <2>2 DEF IInv, AssetTableExact
    <2>4. ElaAssetId \in R
      BY <2>1, <2>2
    <2> HIDE DEF R
    <2> QED
      BY <2>1, <2>3, <2>4 DEF Absent
  <1>5. ASSUME NEW i \in OutputIndexes(c)
        PROVE  checkAmountPrecise(Outputs(c)[i].Value, AssetPrecision[ElaAssetId])
    <2> DEFINE v == Outputs(c)[i].Value
    <2>1. v \in Int
      <3>1. Txn[c].Outputs \in Seq(Output)
        BY TxnAssumption DEF Transaction
      <3>2. Txn[c].Outputs[i] \in Output
        BY <3>1 DEF OutputIndexes
      <3> QED
        BY <3>2 DEF Outputs, Output
    <2> HIDE DEF v
    <2>2. (ElaDigits - AssetPrecision[ElaAssetId]) % 256 = 0
      <3>1. ElaDigits - AssetPrecision[ElaAssetId] = 0
        BY PrecisionAssumption
      <3>2. 0 % 256 = 0
        BY SmallMod
      <3> QED
        BY <3>1, <3>2
    <2>3. Pow10[0] = 1
      BY PowersDefined
    <2>4. v % 1 = 0
      <3>1. 1 \in Nat \ {0}
        OBVIOUS
      <3>2. v % 1 \in 0 .. 1 - 1
        BY <2>1, <3>1, Division
      <3> QED
        BY <3>2
    <2>5. checkAmountPrecise(v, AssetPrecision[ElaAssetId])
      BY <2>2, <2>3, <2>4 DEF checkAmountPrecise
    <2> QED
      BY <2>5 DEF v
  <1>6. checkAssetPrecisionImpl(c)
    BY <1>4, <1>5 DEF checkAssetPrecisionImpl
  <1>7. CheckTransactionSanity(c)
    BY <1>2, <1>6 DEF CheckTransactionSanity, checkTransactionOutputImpl, checkTransactionPayloadImpl
  <1>8. CheckTransactionContext(c) /\ AssetNameIsNew(c) /\ CheckTxContext(c)
    BY <1>2, <1>3 DEF CheckTransactionContext, ContextEndsEarly, AssetNameIsNew, CheckTxContext
  <1> QED
    BY <1>7, <1>8

\* What waits and finds its inputs in the chain is new, and so are its inputs
\* and its main chain transaction.
LEMMA WaitingIsNew ==
  ASSUME NInv, PoolUnspent, NEW t \in pool, \A o \in Spends(t) : Stored(o.TxID)
  PROVE  CheckTxContext(t)
  <1>1. ~Stored(t) /\ t \in TxID
    BY DEF NInv
  <1>2. \A o \in Spends(t) : o.Index \in unspent[o.TxID]
    BY DEF PoolUnspent
  <1>3. ASSUME IsRechargeToSideChainTx(t), Txn[t].MainchainTx \in mainchainTxs
        PROVE  FALSE
    <2>1. PICK s \in StoredTxs : IsRechargeToSideChainTx(s) /\ Txn[s].MainchainTx = Txn[t].MainchainTx
      BY <1>3 DEF NInv, VInv, IInv, MainchainTxsExact, RechargedBy
    <2>2. s # t
      BY <1>1 DEF StoredTxs
    <2>3. ~Conflict(s, t)
      BY <2>2 DEF NInv, PoolCompatible
    <2> QED
      BY <1>3, <2>1, <2>3 DEF Conflict
  <1> QED
    BY <1>1, <1>2, <1>3 DEF CheckTxContext

\* A block of the node on its tip is accepted if all that it holds still waits,
\* is served by the chain, final, and of a new name.
LEMMA OwnBlockPasses ==
  ASSUME NInv, PoolUnspent, PoolVetted, BlockOK, TemplateOK, OwnBlock,
         \A t \in BlockTxs(mining.block) \ {mining.block[1]} :
           t \in pool /\ AssetNameIsNew(t) /\ Served(t) /\ Final(t, Height + 1)
  PROVE  Acceptable(mining.block, mining.parent)
  <1> DEFINE b == mining.block
             c == b[1]
  <1>1. /\ mining.pc = "solving" /\ mining.parent = chain
        /\ b \in Blocks /\ VInv
    BY DEF OwnBlock, NInv, MiningOK
  <1>2. /\ Len(b) >= 1 /\ IsInjective(b)
        /\ \A i \in 1 .. Len(b) : IsCoinBaseTx(b[i]) <=> i = 1
        /\ Txn[c].LockTime = Height + 1
        /\ \A i \in OutputIndexes(c) : Outputs(c)[i].AssetID = ElaAssetId
        /\ CheckCoinbaseOutput(c)
    BY <1>1 DEF BlockOK, TemplateOK, Height
  <1> HIDE DEF b
  <1>3. /\ b \in Seq(TxID) /\ Len(b) \in Nat /\ 1 \in 1 .. Len(b)
        /\ BlockTxs(b) \subseteq TxID /\ c \in BlockTxs(b)
    <2>1. b \in Seq(TxID) /\ Len(b) \in Nat
      BY <1>1, BlocksAssumption
    <2>2. 1 \in 1 .. Len(b)
      BY <1>2, <2>1
    <2>3. BlockTxs(b) \subseteq TxID
      BY <1>1, BlockTxsType
    <2> QED
      BY <2>1, <2>2, <2>3 DEF BlockTxs
  <1>4. IsCoinBaseTx(c) /\ c \in TxID
    BY <1>2, <1>3
  <1> HIDE DEF c
  <1>5. /\ CheckTxContext(c) /\ AssetNameIsNew(c)
        /\ CheckTransactionSanity(c) /\ CheckTransactionContext(c)
    BY <1>1, <1>2, <1>4, CoinBasePasses
  <1>6. ASSUME NEW t \in BlockTxs(b), t # c
        PROVE  /\ t \in pool /\ t \in TxID /\ Vetted(t)
               /\ CheckTxContext(t) /\ AssetNameIsNew(t) /\ Final(t, Height + 1)
               /\ CheckTransactionSanity(t) /\ CheckTransactionContext(t)
    <2>1. t \in pool /\ AssetNameIsNew(t) /\ Served(t) /\ Final(t, Height + 1)
      BY <1>6 DEF b, c
    <2>2. t \in TxID /\ Vetted(t)
      BY <1>3, <2>1 DEF PoolVetted
    <2>3. CheckTxContext(t)
      BY <2>1, WaitingIsNew DEF Served
    <2> QED
      BY <2>1, <2>2, <2>3, ChecksSplit
  <1>7. CoinbaseFirst(b)
    <2>1. ASSUME NEW i \in 1 .. Len(b), IsCoinBaseTx(b[i])
          PROVE  Txn[b[i]].LockTime = Height + 1
      BY <1>2, <2>1 DEF c
    <2> QED
      BY <1>2, <2>1 DEF CoinbaseFirst
  <1>8. CheckBlockSanity(b)
    <2>1. \A t \in BlockTxs(b) : ~IsCoinBaseTx(t) => IsInjective(Txn[t].Inputs)
      BY <1>4, <1>6 DEF Vetted
    <2>2. ASSUME NEW s \in BlockTxs(b), NEW t \in BlockTxs(b), s # t
          PROVE  /\ Spends(s) \cap Spends(t) = {}
                 /\ IsRechargeToSideChainTx(s) /\ IsRechargeToSideChainTx(t)
                      => Txn[s].MainchainTx # Txn[t].MainchainTx
      <3>1. CASE s = c \/ t = c
        BY <1>4, <3>1 DEF IsCoinBaseTx, Spends, IsRechargeToSideChainTx
      <3>2. CASE s # c /\ t # c
        <4>1. s \in pool /\ t \in pool
          BY <1>6, <3>2
        <4>2. ~Conflict(s, t)
          BY <2>2, <4>1 DEF NInv, PoolCompatible
        <4> QED
          BY <4>2 DEF Conflict
      <3> QED
        BY <3>1, <3>2
    <2> QED
      BY <1>2, <2>1, <2>2 DEF CheckBlockSanity
  <1>9. ValidatedBlock(b)
    BY <1>5, <1>6, <1>7, <1>8 DEF ValidatedBlock, CheckedBlock
  <1>10. \A t \in BlockTxs(b) : ~IsCoinBaseTx(t) => Final(t, Height + 1)
    BY <1>4, <1>6
  <1> QED
    BY <1>1, <1>9, <1>10 DEF Acceptable, b

\* So there is a known reason when it is refused.
LEMMA RefusedKnown ==
  ASSUME NInv, PoolUnspent, PoolVetted, BlockOK, TemplateOK
  PROVE  OwnBlockRefusedKnown
  <1> SUFFICES ASSUME OwnBlock, ~Acceptable(mining.block, mining.parent)
               PROVE  \E t \in BlockTxs(mining.block) \ {mining.block[1]} :
                        \/ NameTaken(t)
                        \/ t \notin pool
                        \/ \E o \in Spends(t) :
                             ~Stored(o.TxID) \/ (IsCoinBaseTx(o.TxID) /\ ~Mature(o.TxID))
                        \/ ~IsRegisterAssetTx(t)
                           /\ \E i \in OutputIndexes(t) : assets[Outputs(t)[i].AssetID] = Absent
                        \/ ~Final(t, Height + 1)
    BY DEF OwnBlockRefusedKnown
  <1>1. PICK t \in BlockTxs(mining.block) \ {mining.block[1]} :
          ~(t \in pool /\ AssetNameIsNew(t) /\ Served(t) /\ Final(t, Height + 1))
    BY OwnBlockPasses
  <1> QED
    BY <1>1 DEF Served, NameTaken

\* OwnBlockRefusedKnown: over any reorganisations, a block that the node made on
\* its tip is refused only because of a registration whose name was taken, of
\* what the pool has given up, of an input or an asset that is no longer in the
\* chain, of a coinbase that is not mature any more, or of a lock time.
THEOREM NodeOwnBlockRefusedKnown == NodeSpec => []OwnBlockRefusedKnown
  <1> DEFINE J == PoolWaits /\ PoolVetted /\ BlockOK /\ TemplateOK
  <1>1. NodeInit => J
    BY FS_EmptySet DEF NodeInit, PoolWaits, PoolVetted, BlockOK, TemplateOK, Idle
  <1>2. NInv /\ J /\ [NodeNext]_nodeVars => J'
    BY NodeStepPoolWaits, NodeStepVetted, NodeStepBlockOK, TemplateKept
  <1>3. NInv /\ PoolUnspent /\ J => OwnBlockRefusedKnown
    BY RefusedKnown
  <1>4. NodeSpec => []NInv
    BY NodeInvariant
  <1>5. NodeSpec => []PoolUnspent
    BY NodePoolUnspent
  <1> QED
    BY <1>1, <1>2, <1>3, <1>4, <1>5, PTL DEF NodeSpec

-----------------------------------------------------------------------------
(* Without reorganisations only a taken name is left.                      *)

\* What waits finds in the chain what it needs.
PoolServed == \A t \in pool : Served(t)

\* Another block takes nothing away that a transaction needs of the chain: the
\* inputs that it spends itself are the pool's business.
LEMMA BlockServes ==
  ASSUME IInv, CoinbaseLocked, NEW b \in Blocks, AcceptBlock(b), NEW t \in TxID, Served(t)
  PROVE  Served(t)'
  <1> USE DEF IInv
  <1>1. PersistBlock(b) /\ StoredTxs' = StoredTxs \cup BlockTxs(b)
    BY PersistEffect DEF AcceptBlock
  <1>2. ASSUME NEW s \in TxID, Stored(s)
        PROVE  Stored(s)'
    BY <1>1, <1>2 DEF StoredTxs
  <1>3. ASSUME NEW s \in TxID, Stored(s), IsCoinBaseTx(s), Mature(s)
        PROVE  Mature(s)'
    <2> DEFINE l == Txn[s].LockTime
    <2>1. /\ Height \in Nat /\ Height' = Height + 1 /\ Height' <= MaxHeight
      BY <1>1, PersistEffect
    <2>2. l = txHeight[s]
      BY <1>3 DEF CoinbaseLocked, StoredTxs
    <2>3. txHeight[s] \in Absent .. Height /\ txHeight[s] # Absent
      BY <1>3 DEF TypeOK, Stored
    <2>4. l \in 0 .. Height
      BY <2>1, <2>2, <2>3 DEF Absent
    <2> HIDE DEF l
    <2>5. /\ Height - l \in Nat /\ Height - l < Uint32Size
          /\ Height' - l \in Nat /\ Height' - l < Uint32Size
          /\ Height' - l = Height - l + 1
      BY <2>1, <2>4, MaturityAssumption, MaxHeightAssumption
    <2>6. (Height - l) % Uint32Size = Height - l
      BY <2>5, MaturityAssumption, SmallMod
    <2>7. (Height' - l) % Uint32Size = Height' - l
      BY <2>5, MaturityAssumption, SmallMod
    <2>8. Height - l >= CoinbaseMaturity
      BY <1>3, <2>6 DEF Mature, l
    <2>9. Height' - l >= CoinbaseMaturity
      BY <2>5, <2>8, MaturityAssumption
    <2> QED
      BY <2>7, <2>9 DEF Mature, l
  <1>4. ASSUME NEW a \in AssetID, assets[a] # Absent
        PROVE  assets'[a] # Absent
    BY <1>1, <1>4, RecordKept
  <1>5. \A o \in Spends(t) : o.TxID \in TxID
    BY SpendsType
  <1>6. \A i \in OutputIndexes(t) : Outputs(t)[i].AssetID \in AssetID
    BY OutputAssetType
  <1>7. \A o \in Spends(t) : Stored(o.TxID)'
    BY <1>2, <1>5 DEF Served
  <1>8. ~ContextEndsEarly(t) => \A o \in Spends(t) : IsCoinBaseTx(o.TxID) => Mature(o.TxID)'
    BY <1>3, <1>5 DEF Served
  <1>9. ~IsRegisterAssetTx(t) => \A i \in OutputIndexes(t) : assets'[Outputs(t)[i].AssetID] # Absent
    BY <1>4, <1>6 DEF Served
  <1> QED
    BY <1>7, <1>8, <1>9 DEF Served

\* So what waits stays served as long as no block is taken back.
LEMMA GrowStepServed ==
  ASSUME NInv, PoolServed, [Grow]_nodeVars
  PROVE  PoolServed'
  <1>1. CASE UNCHANGED <<vars, pool>>
    BY <1>1 DEF PoolServed, Served, Stored, Mature, Height, vars
  <1>2. ASSUME NEW t \in TxID, Admissible(t), pool' = pool \cup {t}, UNCHANGED vars
        PROVE  PoolServed'
    <2>1. Served(t)
      BY <1>2, ChecksSplit, AdmittedInputs DEF NInv, VInv
    <2>2. \A s : Served(s)' = Served(s)
      BY <1>2 DEF Served, Stored, Mature, Height, vars
    <2> QED
      BY <1>2, <2>1, <2>2 DEF PoolServed
  <1>3. ASSUME NEW b \in Blocks, AcceptBlock(b), pool' = CleanSubmittedTransactions(b)
        PROVE  PoolServed'
    <2>1. pool' \subseteq pool /\ pool \subseteq TxID
      BY <1>3 DEF CleanSubmittedTransactions, NInv
    <2>2. \A t \in pool : Served(t)'
      BY <1>3, <2>1, BlockServes DEF NInv, VInv, PoolServed
    <2> QED
      BY <2>1, <2>2 DEF PoolServed
  <1> QED
    BY <1>1, <1>2, <1>3, GrowStep DEF NInv

\* As long as no block has come in since the miner fixed the parent, the height
\* that the fee helper read is the next one, and what it took waits and is final.
FollowsChain ==
  mining.pc # "idle" =>
    /\ Len(mining.parent) \in 0 .. Height
    /\ mining.parent = chain =>
         /\ mining.pc = "height" => mining.next = Height + 1
         /\ mining.pc = "solving" =>
              \A t \in BlockTxs(mining.block) \ {mining.block[1]} :
                t \in pool /\ Final(t, Height + 1)

\* The fee helper takes from the pool what is final at the height that it read.
LEMMA TakenFinal ==
  ASSUME NInv, PoolWaits, GenerateBlockTransactions
  PROVE  /\ mining'.parent = mining.parent
         /\ \A t \in BlockTxs(mining'.block) \ {mining'.block[1]} :
              t \in pool /\ Final(t, mining.next)
  <1>1. PICK order \in ByFeeDesc(pool), c \in TxID :
          LET w == Picked(order, mining.next)
          IN  /\ w \in Picks(pool)
              /\ PickedUpTo(order, mining.next, Len(order), w)
              /\ IsCoinBaseTx(c) /\ c \notin pool
              /\ Txn[c].LockTime = Len(mining.parent) + 1
              /\ Outputs(c) = CoinbaseOutputs(w.fee)
              /\ <<c>> \o w.txs \in Blocks
              /\ mining'.block = <<c>> \o w.txs
              /\ mining'.parent = mining.parent
    BY TemplateMade
  <1> DEFINE w == Picked(order, mining.next)
  <1>2. /\ w \in Picks(pool) /\ c \notin pool
        /\ mining'.block = <<c>> \o w.txs
        /\ mining'.parent = mining.parent
    BY <1>1
  <1> HIDE DEF w
  <1>3. BlockTxs(mining'.block) \ {mining'.block[1]} \subseteq pool
    BY <1>2, BlockHolds
  <1>4. \A t \in BlockTxs(mining'.block) \cap pool : Final(t, mining.next)
    BY SolvingTakes DEF Pickable
  <1> QED
    BY <1>2, <1>3, <1>4

\* Every step but a reorganisation keeps that: another block makes the chain
\* longer than the parent.
LEMMA GrowStepFollows ==
  ASSUME NInv, PoolWaits, FollowsChain, [Grow]_nodeVars
  PROVE  FollowsChain'
  <1>1. Height \in Nat
    BY DEF NInv, VInv, IInv, TypeOK, Height
  <1>2. CASE UNCHANGED mining
    <2>1. CASE UNCHANGED chain /\ pool \subseteq pool'
      BY <1>2, <2>1 DEF FollowsChain, Height, BlockTxs
    <2>2. ASSUME NEW b \in Blocks, AcceptBlock(b)
          PROVE  FollowsChain'
      <3>1. Height' = Height + 1 /\ Height' = Len(chain')
        BY <2>2, PersistEffect DEF NInv, VInv, IInv, AcceptBlock, Height
      <3>2. SUFFICES ASSUME mining.pc # "idle"
                     PROVE  Len(mining.parent) \in 0 .. Height' /\ mining.parent # chain'
        BY <1>2 DEF FollowsChain
      <3>3. Len(mining.parent) \in 0 .. Height
        BY <3>2 DEF FollowsChain
      <3> QED
        BY <1>1, <3>1, <3>3
    <2> QED
      BY <2>1, <2>2, GrowStep DEF NInv, vars
  <1>3. CASE CreateBlock
    BY <1>1, <1>3 DEF FollowsChain, CreateBlock, Idle, vars, Height
  <1>4. CASE ReadBestHeight
    BY <1>4 DEF FollowsChain, ReadBestHeight, NInv, MiningOK, vars, Height
  <1>5. CASE GenerateBlockTransactions
    <2>1. /\ mining.pc = "height" /\ UNCHANGED <<vars, pool>>
      BY <1>5 DEF GenerateBlockTransactions
    <2>2. Height' = Height /\ chain' = chain /\ pool' = pool
      BY <2>1 DEF vars, Height
    <2>3. mining'.parent = mining.parent
      BY <1>5, TakenFinal
    <2>4. ASSUME mining.parent = chain,
                 NEW t \in BlockTxs(mining'.block) \ {mining'.block[1]}
          PROVE  t \in pool /\ Final(t, Height + 1)
      BY <1>5, <2>1, <2>4, TakenFinal DEF FollowsChain
    <2>5. mining'.pc = "solving"
      BY <1>5 DEF GenerateBlockTransactions, NInv, MiningOK
    <2> QED
      BY <2>1, <2>2, <2>3, <2>4, <2>5 DEF FollowsChain, BlockTxs, Final
  <1>6. CASE SubmitBlock
    BY <1>6 DEF FollowsChain, SubmitBlock, Idle
  <1> QED
    BY <1>2, <1>3, <1>4, <1>5, <1>6
       DEF Grow, MinerStep, AppendToTxPool, ReceiveBlock, nodeVars

\* OwnBlockAccepted: as long as no block is taken back, a block that the node
\* made on its tip is accepted, whatever was admitted to the pool since, unless
\* it registers an asset whose name was taken in the meantime.
THEOREM NodeOwnBlockAccepted == NodeSpecNoReorg => []OwnBlockAccepted
  <1> DEFINE J == PoolWaits /\ PoolVetted /\ BlockOK /\ TemplateOK /\ PoolServed /\ FollowsChain
  <1>1. NodeInit => J
    BY FS_EmptySet
       DEF NodeInit, PoolWaits, PoolVetted, BlockOK, TemplateOK, PoolServed, FollowsChain, Idle
  <1>2. [Grow]_nodeVars => [NodeNext]_nodeVars
    BY DEF NodeNext
  <1>3. NInv /\ J /\ [Grow]_nodeVars => J'
    BY <1>2, NodeStepPoolWaits, NodeStepVetted, NodeStepBlockOK, TemplateKept,
       GrowStepServed, GrowStepFollows
  <1>4. NInv /\ PoolUnspent /\ J => OwnBlockAccepted
    <2> SUFFICES ASSUME NInv, PoolUnspent, J, OwnBlock,
                        \A t \in BlockTxs(mining.block) : ~NameTaken(t)
                 PROVE  Acceptable(mining.block, mining.parent)
      BY DEF OwnBlockAccepted
    <2>1. \A t \in BlockTxs(mining.block) \ {mining.block[1]} :
            t \in pool /\ Final(t, Height + 1)
      BY DEF FollowsChain, OwnBlock
    <2>2. \A t \in BlockTxs(mining.block) \ {mining.block[1]} :
            t \in pool /\ AssetNameIsNew(t) /\ Served(t) /\ Final(t, Height + 1)
      BY <2>1 DEF PoolServed, NameTaken
    <2> QED
      BY <2>2, OwnBlockPasses
  <1>5. NodeSpecNoReorg => NodeSpec
    BY <1>2, PTL DEF NodeSpecNoReorg, NodeSpec
  <1>6. NodeSpec => []NInv
    BY NodeInvariant
  <1>7. NodeSpec => []PoolUnspent
    BY NodePoolUnspent
  <1> QED
    BY <1>1, <1>3, <1>4, <1>5, <1>6, <1>7, PTL DEF NodeSpecNoReorg
=============================================================================
