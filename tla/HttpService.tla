---------------------------- MODULE HttpService ----------------------------
(***************************************************************************)
(* The queries of the JSON-RPC service (src/service/service.go) against    *)
(* the store, while blocks are persisted and rolled back.                  *)
(*                                                                         *)
(* GetReceivedByAddress, GetAssetByHash and GetAssetList read the database *)
(* once, so they are operators on its state.  ListUnspent and              *)
(* GetTransactionInfo read it several times with commits in between, so    *)
(* they are sequences of actions on req, the request being served.  A      *)
(* request writes nothing: one request at a time is enough to see all that *)
(* any request can see.                                                    *)
(***************************************************************************)
EXTENDS TokenChainStore

CONSTANTS
  Requests,     \* the address lists that ListUnspent is asked for
  BadAddress,   \* a string that is not an address
  AssetUnit,    \* AssetUnit[a]: the number of base units in one unit of a
  Uint32Size    \* heights and confirmations are counted modulo this (2^32)

ASSUME RequestsAssumption == Requests \subseteq Seq(ProgramHash \cup {BadAddress})
ASSUME BadAddressAssumption == BadAddress \notin ProgramHash
ASSUME AssetUnitAssumption == AssetUnit \in [AssetID -> Nat \ {0}]
\* The payload of the genesis transaction (params.go).
ASSUME ElaNameAssumption == AssetName[ElaAssetId] = "ELA"
ASSUME Uint32SizeAssumption == Uint32Size \in Nat \ {0} /\ MaxHeight + 1 < Uint32Size

VARIABLE req    \* the request being served

storeVars == vars
allVars == <<vars, req>>

-----------------------------------------------------------------------------
(* Queries that read the database once.                                    *)

\* Mutant of GetUnspents: of the lists of one asset the last one is kept.
GetUnspentsLastList(p) ==
  UNION {{[AssetID |-> k[2], Place |-> <<k[3], i>>, UTXO |-> utxos[k][i]] :
            i \in DOMAIN utxos[k]} :
         k \in {l \in DOMAIN utxos :
                  l[1] = p /\ \A j \in DOMAIN utxos :
                                j[1] = p /\ j[2] = l[2] => j[3] <= l[3]}}

\* The elements of all lists of address p, each with the asset of its key
\* and its place.  An iterator sees one state of the database.
GetUnspents(p) ==
  UNION {{[AssetID |-> k[2], Place |-> <<k[3], i>>, UTXO |-> utxos[k][i]] :
            i \in DOMAIN utxos[k]} :
         k \in {l \in DOMAIN utxos : l[1] = p}}

\* An amount as it is printed: whole units and the rest, in base units.
ValueString(a, v) == [Units |-> v \div AssetUnit[a], Rest |-> v % AssetUnit[a]]

\* The sum of the values of the elements of U.
TotalValue(U) == MapThenSumSet(LAMBDA e : e.UTXO.Value, U)

\* Mutant of GetReceivedByAddress: ELA is printed in whole units too.
GetReceivedByAddressWhole(p) ==
  LET Of(a) == {e \in GetUnspents(p) : e.AssetID = a}
  IN  [a \in {ElaAssetId} \cup {e.AssetID : e \in GetUnspents(p)} |->
         [Units |-> TotalValue(Of(a)) \div AssetUnit[a], Rest |-> 0]]

\* The balances of p: ELA is printed in full, a token in whole units only.
GetReceivedByAddress(p) ==
  LET Of(a) == {e \in GetUnspents(p) : e.AssetID = a}
  IN  [a \in {ElaAssetId} \cup {e.AssetID : e \in GetUnspents(p)} |->
         IF a = ElaAssetId
         THEN ValueString(a, TotalValue(Of(a)))
         ELSE [Units |-> TotalValue(Of(a)) \div AssetUnit[a], Rest |-> 0]]

\* asset.Hash() of the record stored for a; the record of ELA is that of the
\* payload of the genesis transaction.
RecordHash(a) == IF a = ElaAssetId THEN Txn[ElaAssetId].RegisteredAsset ELSE a

\* Mutant of GetAssetByHash: ELA is not treated apart.
GetAssetByHashAlwaysHashes(a) ==
  IF assets[a] = Absent
  THEN [err |-> TRUE]
  ELSE [err |-> FALSE, Name |-> AssetName[a], Height |-> assets[a],
        Hash |-> RecordHash(a)]

\* An asset named ELA is answered with the id of ELA.
GetAssetByHash(a) ==
  IF assets[a] = Absent
  THEN [err |-> TRUE]
  ELSE [err |-> FALSE, Name |-> AssetName[a], Height |-> assets[a],
        Hash |-> IF AssetName[a] = "ELA" THEN ElaAssetId ELSE RecordHash(a)]

GetAssetList ==
  {[err |-> FALSE, Name |-> AssetName[a], Height |-> assets[a], Hash |-> a] :
     a \in {c \in AssetID : assets[c] # Absent}}

-----------------------------------------------------------------------------
(* Queries that read the database several times.                           *)

NoRequest == [kind |-> "none", pc |-> "done"]

\* Mutant of ConfirmationsAt: the block itself is not counted.
ConfirmationsAbove(best, height) == (best - height) % Uint32Size

\* uint32 subtraction and addition.
ConfirmationsAt(best, height) == (best - height + 1) % Uint32Size

\* A request that fails answers with no results.
FailRequest(pc) ==
  [kind |-> req.kind, pc |-> pc, addresses |-> req.addresses, results |-> {}]

\* The height is read first, once for the whole request.
ListUnspent(addresses) ==
  /\ req = NoRequest
  /\ req' = [kind |-> "ListUnspent", pc |-> "reading", addresses |-> addresses,
             next |-> 1, bestHeight |-> Height, todo |-> {}, results |-> {}]
  /\ UNCHANGED storeVars

\* Mutant of ReadAddress: the height is read again for every address.
ReadAddressReadsHeight ==
  /\ req.kind = "ListUnspent" /\ req.pc = "reading" /\ req.todo = {}
  /\ req.next <= Len(req.addresses)
  /\ LET p == req.addresses[req.next]
     IN  IF p = BadAddress
         THEN req' = FailRequest("error")
         ELSE req' = [req EXCEPT !.todo = GetUnspents(p), !.next = @ + 1,
                                 !.bestHeight = Height]
  /\ UNCHANGED storeVars

\* The next address is decoded and its lists are read; a string that is not
\* an address ends the request with an error.
ReadAddress ==
  /\ req.kind = "ListUnspent" /\ req.pc = "reading" /\ req.todo = {}
  /\ req.next <= Len(req.addresses)
  /\ LET p == req.addresses[req.next]
     IN  IF p = BadAddress
         THEN req' = FailRequest("error")
         ELSE req' = [req EXCEPT !.todo = GetUnspents(p), !.next = @ + 1]
  /\ UNCHANGED storeVars

\* Mutant of ReadUTXO: an unknown transaction is waited for.
ReadUTXOWaits(e) ==
  /\ e \in req.todo
  /\ Stored(e.UTXO.TxID)
  /\ req' = [req EXCEPT !.todo = @ \ {e}]
  /\ UNCHANGED storeVars

\* One element is looked up: its transaction may be unknown, and the output
\* of that transaction is indexed without a check.
ReadUTXO(e) ==
  /\ e \in req.todo
  /\ LET u == e.UTXO
     IN  req' =
           IF ~Stored(u.TxID)
           THEN FailRequest("error")
           ELSE IF u.Index \notin OutputIndexes(u.TxID)
           THEN FailRequest("panic")
           ELSE [req EXCEPT
                   !.todo = @ \ {e},
                   !.results = @ \cup
                     {[TxID |-> u.TxID, VOut |-> u.Index,
                       Address |-> req.addresses[req.next - 1],
                       AssetID |-> e.AssetID,
                       Amount |-> ValueString(e.AssetID, u.Value),
                       Confirmations |-> ConfirmationsAt(req.bestHeight,
                                                         txHeight[u.TxID])]}]
  /\ UNCHANGED storeVars

\* Mutant of ListAll: the height is read when the list is complete.
ListAllReadsHeight ==
  /\ req.kind = "ListUnspent" /\ req.pc = "reading" /\ req.todo = {}
  /\ req.next > Len(req.addresses)
  /\ req' = [req EXCEPT !.pc = "done", !.bestHeight = Height]
  /\ UNCHANGED storeVars

ListAll ==
  /\ req.kind = "ListUnspent" /\ req.pc = "reading" /\ req.todo = {}
  /\ req.next > Len(req.addresses)
  /\ req' = [req EXCEPT !.pc = "done"]
  /\ UNCHANGED storeVars

\* The base service looks t up, with the header of its block.
GetTransaction(t) ==
  /\ req = NoRequest
  /\ Stored(t)
  /\ req' = [kind |-> "GetTransactionInfo", pc |-> "reading", height |-> txHeight[t]]
  /\ UNCHANGED storeVars

\* The height of the chain is read after the header was.
GetTransactionInfo ==
  /\ req.kind = "GetTransactionInfo" /\ req.pc = "reading"
  /\ req' = [kind |-> "GetTransactionInfo", pc |-> "done", height |-> req.height,
             confirmations |-> ConfirmationsAt(Height, req.height)]
  /\ UNCHANGED storeVars

\* The answer, an error included, leaves the service.
Answer ==
  /\ req.kind # "none" /\ req.pc # "reading"
  /\ req' = NoRequest
  /\ UNCHANGED storeVars

ServeStep ==
  \/ ReadAddress
  \/ /\ req.kind = "ListUnspent" /\ req.pc = "reading"
     /\ \E e \in req.todo : ReadUTXO(e)
  \/ ListAll
  \/ GetTransactionInfo
  \/ Answer

Serve ==
  \/ \E addresses \in Requests : ListUnspent(addresses)
  \/ \E t \in TxID : GetTransaction(t)
  \/ ServeStep

ServiceInit == Init /\ req = NoRequest

\* The goroutine that serves a request is never starved.
Fairness == WF_allVars(ServeStep)

\* Requests while the chain grows, without and with reorganisations.
ExtendNext == (\E b \in Blocks : PersistBlock(b) /\ UNCHANGED req) \/ Serve

ServiceSpecNoReorg == ServiceInit /\ [][ExtendNext]_allVars /\ Fairness

ServiceNext == ExtendNext \/ (RollbackBlock /\ UNCHANGED req)

ServiceSpec == ServiceInit /\ [][ServiceNext]_allVars /\ Fairness

-----------------------------------------------------------------------------
(* Properties.                                                             *)

\* The balance of p in asset a by the ledger.
Balance(p, a) ==
  MapThenSumSet(LAMBDA o : OutputAt(o).Value,
                {o \in UnspentOutPoints : OutputAt(o).ProgramHash = p
                                          /\ OutputAt(o).AssetID = a})

\* The value that an answer of GetReceivedByAddress stands for.
Received(p, a) ==
  IF a \in DOMAIN GetReceivedByAddress(p)
  THEN LET r == GetReceivedByAddress(p)[a] IN r.Units * AssetUnit[a] + r.Rest
  ELSE 0

\* GetReceivedByAddress answers with the ledger's balance, exactly for ELA and
\* short by less than one unit for a token, however often the chain was
\* reorganised.
ReceivedWithinUnit ==
  \A p \in ProgramHash, a \in AssetID :
    /\ a = ElaAssetId => Received(p, a) = Balance(p, a)
    /\ Received(p, a) \in (Balance(p, a) - AssetUnit[a] + 1) .. Balance(p, a)

\* GetReceivedByAddress answers with the balance of the address.
ReceivedIsBalance ==
  \A p \in ProgramHash, a \in AssetID : Received(p, a) = Balance(p, a)

\* GetAssetByHash finds exactly the assets that GetAssetList lists, under the
\* same id, ELA included.
AssetQueriesAgree ==
  \A a \in AssetID :
    IF GetAssetByHash(a).err
    THEN \A r \in GetAssetList : r.Hash # a
    ELSE GetAssetByHash(a) \in GetAssetList /\ GetAssetByHash(a).Hash = a

\* The outputs of p that are unspent.
UnspentOf(p) == {o \in UnspentOutPoints : OutputAt(o).ProgramHash = p}

\* While the chain only grows, every entry of a list is an output of its
\* address with its asset and amount, and an entry spent since was spent by a
\* block above the height that the request began with.
ListedWasUnspent ==
  req.kind = "ListUnspent" =>
    \A r \in req.results :
      LET o == [TxID |-> r.TxID, Index |-> r.VOut]
      IN  /\ OutputAt(o).ProgramHash = r.Address
          /\ OutputAt(o).AssetID = r.AssetID
          /\ r.Amount = ValueString(r.AssetID, OutputAt(o).Value)
          /\ \A t \in StoredTxs : o \in Spends(t) => txHeight[t] > req.bestHeight

\* Every output of the addresses that was there when the request began and is
\* unspent still is in the list.
Complete ==
  \A i \in DOMAIN req.addresses : \A o \in UnspentOf(req.addresses[i]) :
    txHeight[o.TxID] <= req.bestHeight =>
      \E r \in req.results : r.TxID = o.TxID /\ r.VOut = o.Index
                             /\ r.Address = req.addresses[i]

\* While the chain only grows, an answer is a complete list, or an error for a
\* string that is not an address and nothing else.
ListedAll ==
  req.kind = "ListUnspent" /\ req.pc # "reading" =>
    IF \E i \in DOMAIN req.addresses : req.addresses[i] = BadAddress
    THEN req.pc = "error"
    ELSE req.pc = "done" /\ Complete

\* While the chain only grows, the confirmations of all entries of a list count
\* up to one and the same block of the chain, whatever arrives between the
\* reads: none for an output of the block after it, and more than the chain
\* has blocks for an output of a block above that one, where uint32 wraps.
ListedConfirmations ==
  req.kind = "ListUnspent" =>
    \E top \in 0 .. Height : \A r \in req.results :
      IF txHeight[r.TxID] <= top + 1
      THEN txHeight[r.TxID] + r.Confirmations = top + 1
      ELSE r.Confirmations > Height

\* While the chain only grows, the confirmations of a transaction count its
\* block and blocks above it that exist: a block that arrives between the two
\* reads makes them larger, never negative.
InfoConfirmations ==
  req.kind = "GetTransactionInfo" /\ req.pc = "done" =>
    /\ req.confirmations >= 1
    /\ req.height + req.confirmations - 1 <= Height

\* Every request is answered, whatever happens to the chain meanwhile.
RequestsAnswered == req.kind # "none" ~> req.kind = "none"
=============================================================================
