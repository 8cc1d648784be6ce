------------------------- MODULE HttpServiceProofs -------------------------
(***************************************************************************)
(* What the queries answer whatever the store holds and whatever is        *)
(* committed while they run.                                               *)
(***************************************************************************)
EXTENDS HttpService, TokenChainStoreProofs

\* The service writes nothing: its steps are those of the store or none.
LEMMA ServiceStep ==
  ASSUME [ServiceNext]_allVars
  PROVE  [Next]_vars
  <1>1. CASE Serve
    BY <1>1 DEF Serve, ServeStep, ListUnspent, GetTransaction, ReadAddress, ReadUTXO, ListAll,
                GetTransactionInfo, Answer, storeVars
  <1>2. CASE UNCHANGED allVars
    BY <1>2 DEF allVars, vars
  <1> QED
    BY <1>1, <1>2 DEF ServiceNext, ExtendNext, Next

\* Every behaviour of the store with the service is one of the store, so the
\* theorems about the store carry over.
THEOREM ServiceImplementsStore == ServiceSpec => Spec
  <1>1. [ServiceNext]_allVars => [Next]_vars
    BY ServiceStep
  <1> QED
    BY <1>1, PTL DEF ServiceSpec, ServiceInit, Spec

\* Under the service as well, the tables are exact for the chain: the invariant of
\* the store holds whatever is being served (service.go only reads).
THEOREM ServiceIInv == ServiceSpec => []IInv
  BY ServiceImplementsStore, StoreInvariant, PTL

-----------------------------------------------------------------------------
(* The asset queries.                                                      *)

\* An asset on record that has the name of ELA is ELA.
ElaNameOnce == \A a \in AssetID : assets[a] # Absent /\ AssetName[a] = "ELA" => a = ElaAssetId

\* PersistAsset refuses ELA's name to any other asset, and a rollback removes only.
LEMMA ElaNameOnceStep ==
  ASSUME IInv, ElaNameOnce, [Next]_vars
  PROVE  ElaNameOnce'
  <1>1. ASSUME NEW b \in Blocks, PersistBlock(b)
        PROVE  ElaNameOnce'
    <2>1. SUFFICES ASSUME NEW a \in AssetID, assets'[a] # Absent, AssetName[a] = "ELA"
                   PROVE  a = ElaAssetId
      BY DEF ElaNameOnce
    <2>2. a \notin RegisteredBy(BlockTxs(b))
      BY <1>1, <2>1 DEF PersistBlock, PersistSucceeds, PersistAssetFails, RegisteredBy
    <2>3. assets'[a] = assets[a]
      BY <1>1, <2>2 DEF PersistBlock, persistTransactions
    <2> QED
      BY <2>1, <2>3 DEF ElaNameOnce
  <1>2. CASE RollbackBlock
    <2>1. \A a \in AssetID : assets'[a] \in {assets[a], Absent}
      BY <1>2 DEF RollbackBlock, rollbackTransactions
    <2> QED
      BY <2>1 DEF ElaNameOnce
  <1>3. CASE UNCHANGED vars
    BY <1>3 DEF vars, ElaNameOnce
  <1> QED
    BY <1>1, <1>2, <1>3 DEF Next

\* Then the queries by hash and by list cannot differ, although only one of them
\* treats the name of ELA apart.
LEMMA ElaNameOnceAgrees ==
  ASSUME ElaNameOnce
  PROVE  AssetQueriesAgree
  <1> SUFFICES ASSUME NEW a \in AssetID
               PROVE  IF GetAssetByHash(a).err
                      THEN \A r \in GetAssetList : r.Hash # a
                      ELSE GetAssetByHash(a) \in GetAssetList /\ GetAssetByHash(a).Hash = a
    BY DEF AssetQueriesAgree
  <1>1. CASE assets[a] = Absent
    <2>1. GetAssetByHash(a).err
      BY <1>1 DEF GetAssetByHash
    <2>2. \A r \in GetAssetList : r.Hash # a
      BY <1>1 DEF GetAssetList
    <2> QED
      BY <2>1, <2>2
  <1>2. CASE assets[a] # Absent
    <2>1. (IF AssetName[a] = "ELA" THEN ElaAssetId ELSE RecordHash(a)) = a
      BY <1>2, ElaNameAssumption DEF ElaNameOnce, RecordHash
    <2>2. GetAssetByHash(a)
            = [err |-> FALSE, Name |-> AssetName[a], Height |-> assets[a], Hash |-> a]
      BY <1>2, <2>1 DEF GetAssetByHash
    <2>3. GetAssetByHash(a) \in GetAssetList
      BY <1>2, <2>2 DEF GetAssetList
    <2> QED
      BY <2>2, <2>3
  <1> QED
    BY <1>1, <1>2

\* GetAssetByHash and GetAssetList agree on every asset, ELA included, over
\* any reorganisations (GetAssetByHash, GetAssetList).
THEOREM ServiceAssetQueriesAgree == ServiceSpec => []AssetQueriesAgree
  <1>1. Init => ElaNameOnce
    BY DEF Init, ElaNameOnce
  <1>2. IInv /\ ElaNameOnce /\ [Next]_vars => ElaNameOnce'
    BY ElaNameOnceStep
  <1>3. ElaNameOnce => AssetQueriesAgree
    BY ElaNameOnceAgrees
  <1> QED
    BY <1>1, <1>2, <1>3, ServiceIInv, ServiceImplementsStore, PTL DEF Spec

-----------------------------------------------------------------------------
(* The confirmations of a transaction, while the chain only grows.         *)

\* The block of the transaction is in the chain, and the confirmations count
\* it and some of those above it.
InfoInv ==
  /\ {"kind", "pc"} \subseteq DOMAIN req
  /\ req.kind = "GetTransactionInfo" =>
       /\ req.height \in 0 .. Height
       /\ req.pc = "done" => req.confirmations \in 1 .. Height - req.height + 1

\* A step that rolls nothing back is a step of the store.
LEMMA GrowStep ==
  ASSUME [ExtendNext]_allVars
  PROVE  [Next]_vars
  <1>1. [ServiceNext]_allVars
    BY DEF ServiceNext
  <1> QED
    BY <1>1, ServiceStep

\* The chain grows under the request.
LEMMA PersistKeepsInfo ==
  ASSUME IInv, InfoInv, NEW b \in Blocks, PersistBlock(b), UNCHANGED req
  PROVE  InfoInv'
  <1>1. Height \in Nat /\ Height' = Height + 1
    BY PersistEffect DEF IInv
  <1> QED
    BY <1>1 DEF InfoInv

\* The subtraction in uint32 does not wrap, as the block is not above the tip.
LEMMA AnswerKeepsInfo ==
  ASSUME IInv, InfoInv, GetTransactionInfo
  PROVE  InfoInv'
  <1> DEFINE c == Height - req.height + 1
  <1>1. Height \in Nat /\ Height <= MaxHeight /\ req.height \in 0 .. Height
    BY DEF IInv, TypeOK, Height, InfoInv, GetTransactionInfo
  <1>2. c \in Nat /\ c < Uint32Size /\ Uint32Size \in Nat \ {0} /\ c \in 1 .. c
    BY <1>1, Uint32SizeAssumption, MaxHeightAssumption
  <1>3. ConfirmationsAt(Height, req.height) = c
    BY <1>2, SmallMod DEF ConfirmationsAt
  <1>4. Height' = Height
    BY DEF GetTransactionInfo, storeVars, vars, Height
  <1> QED
    BY <1>1, <1>2, <1>3, <1>4 DEF GetTransactionInfo, InfoInv

\* A read of the request leaves the chain and with it the height that was read.
LEMMA ServeKeepsInfo ==
  ASSUME IInv, InfoInv, Serve
  PROVE  InfoInv'
  <1>1. Height' = Height
    BY DEF Serve, ServeStep, ListUnspent, GetTransaction, ReadAddress, ReadUTXO, ListAll,
           GetTransactionInfo, Answer, storeVars, vars, Height
  <1>2. ASSUME NEW t \in TxID, GetTransaction(t)
        PROVE  InfoInv'
    <2>1. txHeight[t] \in 0 .. Height
      BY <1>2 DEF GetTransaction, Stored, Absent, IInv, TypeOK, Height
    <2> QED
      BY <1>1, <1>2, <2>1 DEF GetTransaction, InfoInv
  <1>3. ASSUME NEW addresses \in Requests, ListUnspent(addresses)
        PROVE  InfoInv'
    BY <1>3 DEF ListUnspent, InfoInv
  <1>4. CASE ReadAddress \/ (req.kind = "ListUnspent" /\ \E e \in req.todo : ReadUTXO(e)) \/ ListAll
    <2>1. req.kind = "ListUnspent" /\ {"kind", "pc"} \subseteq DOMAIN req
      BY <1>4 DEF ReadAddress, ListAll, InfoInv
    <2>2. \A pc : /\ {"kind", "pc"} \subseteq DOMAIN FailRequest(pc)
                 /\ FailRequest(pc).kind = "ListUnspent"
      BY <2>1 DEF FailRequest
    <2>3. CASE ReadAddress
      BY <2>1, <2>2, <2>3 DEF ReadAddress, InfoInv
    <2>4. ASSUME NEW e \in req.todo, ReadUTXO(e)
          PROVE  InfoInv'
      <3>1. \/ DOMAIN req' = DOMAIN req /\ req'.kind = req.kind
            \/ req' \in {FailRequest("error"), FailRequest("panic")}
        BY <2>1, <2>4 DEF ReadUTXO
      <3> QED
        BY <2>1, <2>2, <3>1 DEF InfoInv
    <2>5. CASE ListAll
      BY <2>1, <2>5 DEF ListAll, InfoInv
    <2> QED
      BY <1>4, <2>3, <2>4, <2>5
  <1>5. CASE Answer
    BY <1>5 DEF Answer, NoRequest, InfoInv
  <1> QED
    BY <1>2, <1>3, <1>4, <1>5, AnswerKeepsInfo DEF Serve, ServeStep

\* The confirmations that GetTransactionInfo answers with are those of blocks
\* that the chain has, whatever arrived between its reads: for every chain
\* whose heights fit the integers that count them (GetTransactionInfo).
THEOREM ServiceInfoConfirmations == ServiceSpecNoReorg => []InfoConfirmations
  <1>1. ServiceInit => IInv /\ InfoInv
    BY InitIInv DEF ServiceInit, InfoInv, NoRequest
  <1>2. IInv /\ InfoInv /\ [ExtendNext]_allVars => IInv' /\ InfoInv'
    <2> SUFFICES ASSUME IInv, InfoInv, [ExtendNext]_allVars
                 PROVE  IInv' /\ InfoInv'
      OBVIOUS
    <2>1. IInv'
      BY GrowStep, StoreStep
    <2>2. CASE UNCHANGED allVars
      BY <2>1, <2>2 DEF allVars, vars, InfoInv, Height
    <2>3. ASSUME NEW b \in Blocks, PersistBlock(b), UNCHANGED req
          PROVE  InfoInv'
      BY <2>3, PersistKeepsInfo
    <2>4. CASE Serve
      BY <2>1, <2>4, ServeKeepsInfo
    <2> QED
      BY <2>1, <2>2, <2>3, <2>4 DEF ExtendNext
  <1>3. IInv /\ InfoInv => InfoConfirmations
    <2> SUFFICES ASSUME IInv, InfoInv
                 PROVE  InfoConfirmations
      OBVIOUS
    <2>1. Height \in Nat
      BY DEF IInv, TypeOK, Height
    <2> QED
      BY <2>1 DEF InfoInv, InfoConfirmations
  <1> QED
    BY <1>1, <1>2, <1>3, PTL DEF ServiceSpecNoReorg

-----------------------------------------------------------------------------
(* The utxo lists of a chain that only grows.                              *)

\* The element that persist files for an output.
Elem(o) == UTXO(o, o.TxID)

\* The list holds the elements of the outputs of S, each of them once.
Enumerates(l, S) ==
  /\ {l[i] : i \in 1 .. Len(l)} = {Elem(o) : o \in S}
  /\ \A i, j \in 1 .. Len(l) : l[i] = l[j] => i = j

\* The outputs of D that belong to key k if hh gives their heights.
Belonging(D, hh, k) == {o \in D : UTXOKey(o, hh[o.TxID]) = k}

Lists(lists, D, hh) ==
  \A k \in UTXOKeys : Enumerates(ListAt(lists, k), Belonging(D, hh, k))

\* An element names its output.
LEMMA ElemNames ==
  ASSUME NEW o \in Outs
  PROVE  /\ Elem(o) \in Elements
         /\ Elem(o).TxID = o.TxID /\ Elem(o).Index = o.Index
         /\ o = [TxID |-> Elem(o).TxID, Index |-> Elem(o).Index]
  <1>1. Elem(o).TxID = o.TxID /\ Elem(o).Index = o.Index
    BY DEF Elem, UTXO
  <1> QED
    BY <1>1, OutType DEF Elem

\* An output that is made is appended.
LEMMA EnumeratesAppend ==
  ASSUME NEW l \in Seq(Elements), NEW S \in SUBSET Outs, Enumerates(l, S),
         NEW o \in Outs, o \notin S
  PROVE  Enumerates(Append(l, Elem(o)), S \cup {o})
  <1> DEFINE m == Append(l, Elem(o))
             n == Len(l)
  <1>1. Elem(o) \in Elements
    BY ElemNames
  <1>2. /\ n \in Nat /\ Len(m) = n + 1 /\ m[n + 1] = Elem(o)
        /\ \A i \in 1 .. n : m[i] = l[i]
    BY <1>1
  <1> HIDE DEF m
  <1>3. \A j : j \in 1 .. n + 1 <=> j \in 1 .. n \/ j = n + 1
    BY <1>2
  <1>4. {m[i] : i \in 1 .. n + 1} = {l[i] : i \in 1 .. n} \cup {Elem(o)}
    BY <1>2, <1>3
  <1>5. {Elem(p) : p \in S \cup {o}} = {Elem(p) : p \in S} \cup {Elem(o)}
    OBVIOUS
  <1>6. \A i \in 1 .. n : l[i] # Elem(o)
    <2> SUFFICES ASSUME NEW i \in 1 .. n, l[i] = Elem(o) PROVE FALSE
      OBVIOUS
    <2>1. PICK p \in S : l[i] = Elem(p)
      BY DEF Enumerates
    <2> QED
      BY <2>1, ElemNames
  <1>7. \A i, j \in 1 .. n + 1 : m[i] = m[j] => i = j
    BY <1>2, <1>3, <1>6 DEF Enumerates
  <1> QED
    BY <1>2, <1>4, <1>5, <1>7 DEF Enumerates, m

\* An output that is spent is taken out.
LEMMA EnumeratesSwap ==
  ASSUME NEW l \in Seq(Elements), NEW S \in SUBSET Outs, Enumerates(l, S),
         NEW o \in S, NEW i \in 1 .. Len(l), l[i].TxID = o.TxID, l[i].Index = o.Index
  PROVE  Enumerates(Front(ReplaceAt(l, i, Last(l))), S \ {o})
  <1> DEFINE m == Front(ReplaceAt(l, i, Last(l)))
             n == Len(l)
  <1>1. /\ n \in Nat /\ Len(m) = n - 1
        /\ \A j \in 1 .. n - 1 : m[j] = IF j = i THEN l[n] ELSE l[j]
    BY SwapResult
  <1> HIDE DEF m
  <1>2. l[i] = Elem(o)
    <2>1. PICK p \in S : l[i] = Elem(p)
      BY DEF Enumerates
    <2>2. p = [TxID |-> l[i].TxID, Index |-> l[i].Index]
      BY <2>1, ElemNames
    <2>3. o = [TxID |-> o.TxID, Index |-> o.Index]
      BY OutType
    <2> QED
      BY <2>1, <2>2, <2>3
  <1>3. {Elem(p) : p \in S \ {o}} = {Elem(p) : p \in S} \ {Elem(o)}
    <2>1. \A p \in S : Elem(p) = Elem(o) => p = o
      <3>1. \A p \in S : p = [TxID |-> Elem(p).TxID, Index |-> Elem(p).Index]
        BY ElemNames
      <3> QED
        BY <3>1
    <2> QED
      BY <2>1
  <1>4. \A j, k \in 1 .. n : l[j] = l[k] => j = k
    BY DEF Enumerates
  <1>5. \A j \in 1 .. n - 1 : j \in 1 .. n /\ j # n /\ n \in 1 .. n
    BY <1>1
  <1>6. {m[j] : j \in 1 .. n - 1} = {l[j] : j \in 1 .. n} \ {Elem(o)}
    <2>1. ASSUME NEW j \in 1 .. n - 1
          PROVE  m[j] \in {l[k] : k \in 1 .. n} \ {Elem(o)}
      BY <1>1, <1>2, <1>4, <1>5
    <2>2. ASSUME NEW j \in 1 .. n, l[j] # Elem(o)
          PROVE  \E k \in 1 .. n - 1 : m[k] = l[j]
      <3>1. j # i
        BY <1>2, <2>2
      <3>2. CASE j = n
        <4>1. i \in 1 .. n - 1
          BY <1>1, <3>1, <3>2
        <4>2. m[i] = l[j]
          BY <1>1, <3>2, <4>1
        <4> QED
          BY <4>1, <4>2
      <3>3. CASE j # n
        <4>1. j \in 1 .. n - 1
          BY <1>1, <3>3
        <4> QED
          BY <1>1, <3>1, <4>1
      <3> QED
        BY <3>2, <3>3
    <2> QED
      BY <2>1, <2>2
  <1>7. \A j, k \in 1 .. n - 1 : m[j] = m[k] => j = k
    BY <1>1, <1>4, <1>5
  <1> QED
    BY <1>1, <1>3, <1>6, <1>7 DEF Enumerates, m

\* Find finds the element of an output that the list holds.
LEMMA FindComplete ==
  ASSUME NEW l \in Seq(Elements), NEW i \in 1 .. Len(l), NEW o,
         l[i].TxID = o.TxID, l[i].Index = o.Index
  PROVE  Find(l, o) # 0
  <1> DEFINE I == {j \in 1 .. Len(l) : l[j].TxID = o.TxID /\ l[j].Index = o.Index}
  <1>1. Find(l, o) = IF I # {} THEN Min(I) ELSE 0
    BY DEF Find, SelectInSeq
  <1>2. i \in I
    OBVIOUS
  <1>3. \E n \in I : \A m \in I : n <= m
    <2>1. I \in SUBSET Nat
      OBVIOUS
    <2> HIDE DEF I
    <2> QED
      BY <1>2, <2>1, MakeLoop!LeastNatural
  <1>4. Min(I) \in I
    BY <1>3 DEF Min
  <1>5. \A j \in I : j # 0
    OBVIOUS
  <1> QED
    BY <1>1, <1>2, <1>4, <1>5

\* An input whose output is on its list is taken off it without an error.
LEMMA SpendSucceeds ==
  ASSUME NEW w \in Handlers, w.res = "ok", NEW o \in Outs, Stored(o.TxID),
         txHeight[o.TxID] \in Int,
         NEW i \in 1 .. Len(ListAt(w.lists, UTXOKey(o, txHeight[o.TxID]))),
         ListAt(w.lists, UTXOKey(o, txHeight[o.TxID]))[i] = Elem(o)
  PROVE  SpendUTXO(w, o).res = "ok"
  <1> DEFINE k == UTXOKey(o, txHeight[o.TxID])
             l == ListAt(w.lists, k)
             n == Front(ReplaceAt(l, Find(l, o), Last(l)))
  <1>1. w.lists \in UTXOLists /\ w = [res |-> w.res, lists |-> w.lists]
    BY DEF Handlers
  <1>2. l \in Seq(Elements)
    BY <1>1, ListAtType
  <1>3. Elem(o).TxID = o.TxID /\ Elem(o).Index = o.Index
    BY ElemNames
  <1>4. i \in 1 .. Len(l) /\ l[i] = Elem(o)
    OBVIOUS
  <1>5. k \in DOMAIN w.lists
    BY <1>2, <1>4 DEF ListAt
  <1> HIDE DEF l
  <1>6. Find(l, o) # 0
    BY <1>2, <1>3, <1>4, FindComplete
  <1>7. w.lists[k] = l
    BY <1>5 DEF l, ListAt
  <1> HIDE DEF k
  <1>8. SpendUTXO(w, o) = [w EXCEPT !.lists = [w.lists EXCEPT ![k] = n]]
    BY <1>5, <1>6, <1>7 DEF SpendUTXO, Fail, k
  <1> QED
    BY <1>1, <1>8

\* The lists after one of them, that of an output's key, was put in place.
LEMMA ListsPut ==
  ASSUME NEW lists, NEW new, NEW D, NEW E, NEW hh, NEW o, NEW l, NEW key \in UTXOKeys,
         Lists(lists, D, hh), key = UTXOKey(o, hh[o.TxID]), PutAt(new, lists, key, l),
         D \ {o} = E \ {o}, Enumerates(l, Belonging(E, hh, key))
  PROVE  Lists(new, E, hh)
  <1> SUFFICES ASSUME NEW k \in UTXOKeys
               PROVE  Enumerates(ListAt(new, k), Belonging(E, hh, k))
    BY DEF Lists
  <1>1. CASE k = key
    BY <1>1 DEF PutAt
  <1>2. CASE k # key
    <2>1. ListAt(new, k) = ListAt(lists, k)
      BY <1>2 DEF PutAt
    <2>2. Belonging(E, hh, k) = Belonging(D, hh, k)
      BY <1>2 DEF Belonging
    <2> QED
      BY <2>1, <2>2 DEF Lists
  <1> QED
    BY <1>1, <1>2

\* The accounts of a handler that has not failed and holds the outputs.
ListsP(hh) == {p \in Accounts : p[1].res = "ok" /\ Lists(p[1].lists, p[2], hh)}

\* The outputs that the transactions of T consume are those of stored ones.
SpendsStored(T, hh) ==
  \A t \in T : \A o \in Spends(t) :
    o \in Outs /\ Stored(o.TxID) /\ txHeight[o.TxID] \in Int /\ hh[o.TxID] = txHeight[o.TxID]

\* No round of the persist handler fails, and each keeps the lists.
LEMMA GrowRounds ==
  ASSUME Height \in Nat, NEW hh, NEW T \in SUBSET TxID, SpendsStored(T, hh),
         \A t \in T : hh[t] = Height + 1
  PROVE  MakesWithin(ListsP(hh), T) /\ SpendsAccount(ListsP(hh), T)
  <1> DEFINE n == Height + 1
             P == ListsP(hh)
  <1>1. \A t \in T : \A o \in MadeBy(t) : o \in Outs /\ o.TxID = t /\ t \in TxID
    BY MakesType
  <1>2. ASSUME NEW t \in T, NEW o \in MadeBy(t), NEW p \in P, o \notin p[2]
        PROVE  <<AppendUTXO(p[1], o, n, t), p[2] \cup {o}>> \in P
    <2> DEFINE x == p[1]
               D == p[2]
               y == AppendUTXO(x, o, n, t)
               k == UTXOKey(o, n)
               l == ListAt(x.lists, k)
    <2>1. /\ x \in Handlers /\ D \in SUBSET Outs /\ x.lists \in UTXOLists
          /\ x.res = "ok" /\ Lists(x.lists, D, hh)
      BY DEF ListsP, Accounts, Handlers
    <2>2. o \in Outs /\ o.TxID = t /\ t \in TxID /\ hh[o.TxID] = n /\ n \in Int /\ o \notin D
      BY <1>1, <1>2
    <2> HIDE DEF x, D, n
    <2>3. k \in UTXOKeys
      BY <2>2, OutType
    <2>4. y \in Handlers /\ y.res = "ok" /\ PutAt(y.lists, x.lists, k, Append(l, UTXO(o, t)))
      BY <2>1, <2>2, AppendEffect
    <2>5. Enumerates(Append(l, Elem(o)), Belonging(D, hh, k) \cup {o})
      <3>1. l \in Seq(Elements)
        BY <2>1, ListAtType
      <3>2. Enumerates(l, Belonging(D, hh, k))
        BY <2>1, <2>3 DEF Lists
      <3>3. Belonging(D, hh, k) \in SUBSET Outs /\ o \notin Belonging(D, hh, k)
        BY <2>1, <2>2 DEF Belonging
      <3> QED
        BY <2>2, <3>1, <3>2, <3>3, EnumeratesAppend
    <2>6. Belonging(D \cup {o}, hh, k) = Belonging(D, hh, k) \cup {o}
      BY <2>2 DEF Belonging
    <2>7. Elem(o) = UTXO(o, t)
      BY <2>2 DEF Elem
    <2> HIDE DEF y, l
    <2>8. Lists(y.lists, D \cup {o}, hh)
      <3> DEFINE E == D \cup {o}
                 m == Append(l, UTXO(o, t))
                 old == x.lists
                 new == y.lists
      <3>1. k = UTXOKey(o, hh[o.TxID]) /\ D \ {o} = E \ {o}
        BY <2>2
      <3>2. /\ Lists(old, D, hh) /\ k \in UTXOKeys /\ PutAt(new, old, k, m)
            /\ Enumerates(m, Belonging(E, hh, k))
        BY <2>1, <2>3, <2>4, <2>5, <2>6, <2>7
      <3> HIDE DEF k, E, m, old, new
      <3>3. Lists(new, E, hh)
        BY <3>1, <3>2, ListsPut
      <3> QED
        BY <3>3 DEF E, new
    <2>9. <<y, D \cup {o}>> \in ListsP(hh)
      BY <2>1, <2>2, <2>4, <2>8 DEF ListsP, Accounts
    <2> QED
      BY <2>9 DEF x, D, y
  <1>3. ASSUME NEW t \in T, NEW o \in Spends(t), NEW p \in P, o \in p[2]
        PROVE  <<SpendUTXO(p[1], o), p[2] \ {o}>> \in P
    <2> DEFINE x == p[1]
               D == p[2]
               y == SpendUTXO(x, o)
               k == UTXOKey(o, txHeight[o.TxID])
               l == ListAt(x.lists, k)
               S == Belonging(D, hh, k)
    <2>1. /\ x \in Handlers /\ D \in SUBSET Outs /\ x.lists \in UTXOLists
          /\ x.res = "ok" /\ Lists(x.lists, D, hh)
      BY DEF ListsP, Accounts, Handlers
    <2>2. /\ o \in Outs /\ Stored(o.TxID) /\ txHeight[o.TxID] \in Int
          /\ hh[o.TxID] = txHeight[o.TxID] /\ o \in D
      BY <1>3 DEF SpendsStored
    <2> HIDE DEF x, D
    <2>3. k \in UTXOKeys
      BY <2>2, OutType
    <2>4. l \in Seq(Elements) /\ Enumerates(l, S) /\ o \in S /\ S \in SUBSET Outs
      <3>1. l \in Seq(Elements)
        BY <2>1, ListAtType
      <3> QED
        BY <2>1, <2>2, <2>3, <3>1 DEF Lists, Belonging
    <2>5. y.res = "ok"
      <3>1. PICK i \in 1 .. Len(l) : l[i] = Elem(o)
        <4>1. Elem(o) \in {l[i] : i \in 1 .. Len(l)}
          <5> HIDE DEF l, S
          <5> QED
            BY <2>4 DEF Enumerates
        <4> HIDE DEF l
        <4> QED
          BY <4>1
      <3> QED
        BY <2>1, <2>2, <3>1, SpendSucceeds
    <2>6. PICK i \in 1 .. Len(l) : /\ l[i].TxID = o.TxID
                                   /\ l[i].Index = o.Index
                                   /\ PutAt(y.lists, x.lists, k, Front(ReplaceAt(l, i, Last(l))))
      BY <2>1, <2>2, <2>5, SpendEffect
    <2>7. y \in Handlers
      BY <2>1, <2>2, SpendEffect
    <2> HIDE DEF y, l, S
    <2>8. Enumerates(Front(ReplaceAt(l, i, Last(l))), S \ {o})
      BY <2>4, <2>6, EnumeratesSwap
    <2>9. Belonging(D \ {o}, hh, k) = S \ {o}
      BY DEF Belonging, S
    <2>10. Lists(y.lists, D \ {o}, hh)
      <3>1. k = UTXOKey(o, hh[o.TxID])
        BY <2>2
      <3> DEFINE E == D \ {o}
                 m == Front(ReplaceAt(l, i, Last(l)))
                 old == x.lists
                 new == y.lists
      <3>2. D \ {o} = E \ {o}
        OBVIOUS
      <3>3. /\ Lists(old, D, hh) /\ k \in UTXOKeys /\ PutAt(new, old, k, m)
            /\ Enumerates(m, Belonging(E, hh, k))
        BY <2>1, <2>3, <2>6, <2>8, <2>9
      <3> HIDE DEF k, E, m, old, new
      <3>4. Lists(new, E, hh)
        BY <3>1, <3>2, <3>3, ListsPut
      <3> QED
        BY <3>4 DEF E, new
    <2>11. <<y, D \ {o}>> \in ListsP(hh)
      BY <2>1, <2>5, <2>7, <2>10 DEF ListsP, Accounts
    <2> QED
      BY <2>11 DEF x, D, y
  <1>4. MakesWithin(P, T)
    BY <1>2 DEF MakesWithin
  <1>5. SpendsAccount(P, T)
    BY <1>3 DEF SpendsAccount
  <1> QED
    BY <1>4, <1>5

\* What the chain has checked of a block lets the persist handler apply it.
LEMMA CheckedApplies ==
  ASSUME IInv, NEW b \in Blocks, CheckedBlock(b)
  PROVE  /\ b \in Seq(TxID) /\ Height \in Nat /\ UnspentOutPoints \in SUBSET Outs
         /\ BlockTxs(b) \subseteq TxID /\ BlockTxs(b) \cap StoredTxs = {}
         /\ \A t \in BlockTxs(b) : \A o \in Spends(t) :
              o \in UnspentOutPoints /\ Stored(o.TxID) /\ txHeight[o.TxID] \in 0 .. Height
         /\ Applies(b, UnspentOutPoints, Height)
  <1> DEFINE U == UnspentOutPoints
             T == BlockTxs(b)
  <1>1. b \in Seq(TxID) /\ T \subseteq TxID
    BY BlocksAssumption, BlockTxsType
  <1>2. TypeOK /\ UnspentIndexExact /\ Height \in Nat
    BY DEF IInv, TypeOK, Height
  <1>3. U = {o \in Outs : o.TxID \in StoredTxs /\ o \notin SpentBy(StoredTxs)}
    BY <1>2, UnspentOuts DEF UnspentByChain
  <1>4. T \cap StoredTxs = {}
    BY DEF CheckedBlock, CheckTxContext, StoredTxs
  <1>5. ASSUME NEW t \in T, NEW o \in Spends(t)
        PROVE  o \in Outs /\ o \in U /\ Stored(o.TxID) /\ txHeight[o.TxID] \in 0 .. Height
    <2>1. o.TxID \in TxID /\ o \in OutPoint /\ o = [TxID |-> o.TxID, Index |-> o.Index]
      BY <1>1, SpendsType DEF OutPoint
    <2>2. o.Index \in unspent[o.TxID]
      BY DEF CheckedBlock, CheckTxContext
    <2>3. o \in U
      BY <2>1, <2>2 DEF UnspentOutPoints
    <2>4. Stored(o.TxID) /\ o \in Outs
      BY <1>3, <2>3 DEF StoredTxs
    <2>5. txHeight[o.TxID] \in Absent .. Height /\ txHeight[o.TxID] # Absent
      BY <1>2, <2>1, <2>4 DEF TypeOK, Stored
    <2>6. txHeight[o.TxID] \in 0 .. Height
      BY <1>2, <2>5 DEF Absent
    <2> QED
      BY <2>3, <2>4, <2>6
  <1>6. Applies(b, U, Height)
    <2>1. \A t \in T : Spends(t) \subseteq U /\ SpendsWithin(t, Height)
      BY <1>5 DEF SpendsWithin
    <2>2. \A t \in T : t \in TxID /\ MadeBy(t) \cap U = {}
      <3>1. \A t \in T : MadeBy(t) = {o \in Outs : o.TxID = t}
        BY <1>1, MakesType
      <3> QED
        BY <1>1, <1>3, <1>4, <3>1
    <2>3. CheckBlockSanity(b)
      BY DEF CheckedBlock
    <2> HIDE DEF U
    <2> QED
      BY <2>1, <2>2, <2>3 DEF Applies
  <1> QED
    BY <1>1, <1>2, <1>3, <1>4, <1>5, <1>6

\* The lists hold exactly the unspent outputs, and no list is empty.
ListsHold ==
  /\ utxos \in UTXOLists
  /\ Lists(utxos, UnspentOutPoints, txHeight)
  /\ \A k \in DOMAIN utxos : utxos[k] # << >>

\* The heights after block b.
HeightsWith(b) == [t \in TxID |-> IF t \in BlockTxs(b) THEN Height + 1 ELSE txHeight[t]]

\* The unspent outputs after block b.
UnspentWith(b) ==
  (UnspentOutPoints \cup MadeUpto(b, Len(b))) \ SpentUpto(b, Len(b))

\* The persist handler does not fail on a checked block, and files it.
LEMMA GrowLoop ==
  ASSUME IInv, ListsHold, NEW b \in Blocks, CheckedBlock(b)
  PROVE  <<persistUnspendUTXOs(b), UnspentWith(b)>> \in ListsP(HeightsWith(b))
  <1> DEFINE U == UnspentOutPoints
             T == BlockTxs(b)
             hh == HeightsWith(b)
             P == ListsP(hh)
  <1>1. /\ b \in Seq(TxID) /\ Height \in Nat /\ U \in SUBSET Outs
        /\ T \subseteq TxID /\ T \cap StoredTxs = {}
        /\ \A t \in T : \A o \in Spends(t) :
             o \in U /\ Stored(o.TxID) /\ txHeight[o.TxID] \in 0 .. Height
        /\ Applies(b, U, Height)
    BY CheckedApplies
  <1>2. \A t \in T : hh[t] = Height + 1
    BY <1>1 DEF HeightsWith
  <1>3. \A o \in U : hh[o.TxID] = txHeight[o.TxID]
    <2>1. U = {o \in Outs : o.TxID \in StoredTxs /\ o \notin SpentBy(StoredTxs)}
      BY UnspentOuts DEF IInv, UnspentByChain
    <2>2. \A o \in U : o.TxID \in TxID \ T
      BY <1>1, <2>1 DEF StoredTxs
    <2> QED
      BY <2>2 DEF HeightsWith
  <1>4. SpendsStored(T, hh)
    <2> HIDE DEF hh, U
    <2> QED
      BY <1>1, <1>3 DEF SpendsStored
  <1>5. <<Begin, U>> \in P /\ P \in SUBSET Accounts
    <2>1. Begin \in Handlers /\ Begin.lists = utxos /\ Begin.res = "ok"
      BY DEF Begin, Handlers, ListsHold
    <2>2. Lists(utxos, U, hh)
      <3> SUFFICES ASSUME NEW k \in UTXOKeys
                   PROVE  Enumerates(ListAt(utxos, k), Belonging(U, hh, k))
        BY DEF Lists
      <3>1. Belonging(U, hh, k) = Belonging(U, txHeight, k)
        <4> HIDE DEF hh, U
        <4> QED
          BY <1>3 DEF Belonging
      <3> QED
        BY <3>1 DEF ListsHold, Lists
    <2> HIDE DEF hh, U
    <2> QED
      BY <1>1, <2>1, <2>2 DEF ListsP, Accounts
  <1> HIDE DEF hh, U
  <1>6. MakesWithin(P, T) /\ SpendsAccount(P, T)
    <2> HIDE DEF T
    <2> QED
      BY <1>1, <1>2, <1>4, GrowRounds
  <1> HIDE DEF P
  <1>7. <<persistUnspendUTXOs(b), (U \cup MadeUpto(b, Len(b))) \ SpentUpto(b, Len(b))>> \in P
    BY <1>1, <1>5, <1>6, PersistLoopEffect
  <1> QED
    BY <1>7 DEF P, hh, U, UnspentWith

\* Persisting a block keeps the lists exact.
LEMMA GrowLists ==
  ASSUME IInv, ListsHold, NEW b \in Blocks, PersistBlock(b)
  PROVE  ListsHold'
  <1> DEFINE U == UnspentOutPoints
             T == BlockTxs(b)
             w == persistUnspendUTXOs(b)
  <1>1. IInv'
    BY StoreStep DEF Next
  <1>2. TypeOK /\ UnspentIndexExact /\ SpentOnce /\ TypeOK' /\ UnspentIndexExact'
    BY <1>1 DEF IInv
  <1>3. T \subseteq TxID /\ T \cap StoredTxs = {} /\ StoredTxs' = StoredTxs \cup T
    BY <1>2, PersistEffect
  <1>4. U = {o \in Outs : o.TxID \in StoredTxs /\ o \notin SpentBy(StoredTxs)}
    BY <1>2, UnspentOuts DEF UnspentByChain
  <1>5. UnspentOutPoints' = {o \in Outs : o.TxID \in StoredTxs' /\ o \notin SpentBy(StoredTxs')}
    <2>1. UnspentByChain'
      BY <1>2, UnspentOuts, PTL
    <2> QED
      BY <2>1 DEF UnspentByChain, SpentBy
  <1>6. UnspentWith(b) = UnspentOutPoints'
    <2>1. /\ MadeUpto(b, Len(b)) = {o \in Outs : o.TxID \in T}
          /\ SpentUpto(b, Len(b)) = SpentBy(T)
      BY BlockUnions
    <2>2. SpentBy(StoredTxs') = SpentBy(StoredTxs) \cup SpentBy(T)
      BY <1>3 DEF SpentBy
    <2>3. ASSUME NEW o \in SpentBy(StoredTxs)
          PROVE  o.TxID \notin T
      <3>1. PICK t \in StoredTxs : o \in Spends(t)
        BY DEF SpentBy
      <3>2. o.TxID \in StoredTxs
        BY <1>2, <3>1 DEF SpentOnce
      <3> QED
        BY <1>3, <3>2
    <2> QED
      BY <1>3, <1>4, <1>5, <2>1, <2>2, <2>3 DEF UnspentWith
  <1>7. CheckedBlock(b) /\ utxos' = PersistUnspentWithProgramHash(w.lists)
    BY DEF PersistBlock
  <1>8. txHeight' = HeightsWith(b)
    BY DEF PersistBlock, persistTransactions, HeightsWith
  <1>9. <<w, UnspentWith(b)>> \in ListsP(HeightsWith(b))
    BY <1>7, GrowLoop
  <1> HIDE DEF w
  <1>10. w.lists \in UTXOLists /\ Lists(w.lists, UnspentOutPoints', txHeight')
    BY <1>6, <1>8, <1>9 DEF ListsP, Accounts, Handlers
  <1>11. /\ utxos' \in UTXOLists
         /\ \A k : ListAt(utxos', k) = ListAt(w.lists, k)
    BY <1>7, <1>10, DropEmpty
  <1>12. \A k \in DOMAIN utxos' : utxos'[k] # << >>
    BY <1>7 DEF PersistUnspentWithProgramHash, RestrictValues, Restrict
  <1>13. Lists(utxos', UnspentOutPoints', txHeight')
    BY <1>10, <1>11 DEF Lists
  <1> QED
    BY <1>11, <1>12, <1>13 DEF ListsHold, Lists, Belonging, Enumerates

\* The lists hold as long as the store does not change.
LEMMA StutterLists ==
  ASSUME ListsHold, UNCHANGED vars
  PROVE  ListsHold'
  <1>1. utxos' = utxos /\ txHeight' = txHeight /\ UnspentOutPoints' = UnspentOutPoints
    BY DEF vars, UnspentOutPoints
  <1> QED
    BY <1>1 DEF ListsHold, Lists, Belonging, Enumerates

\* At the start there is no list and no unspent output.
LEMMA InitLists ==
  ASSUME Init
  PROVE  ListsHold
  <1>1. utxos = << >> /\ \A t \in TxID : unspent[t] = {}
    BY DEF Init
  <1>2. utxos \in UTXOLists
    BY InitUTXOInv DEF UTXOInv
  <1>3. UnspentOutPoints = {}
    BY <1>1 DEF UnspentOutPoints
  <1>4. \A k : ListAt(utxos, k) = << >>
    BY <1>1 DEF ListAt
  <1>5. Lists(utxos, UnspentOutPoints, txHeight)
    BY <1>3, <1>4 DEF Lists, Belonging, Enumerates
  <1> QED
    BY <1>1, <1>2, <1>5 DEF ListsHold

\* Every element of the lists is that of an unspent output.
LEMMA ListsGenuine ==
  ASSUME IInv, ListsHold
  PROVE  UTXOEntriesGenuine
  <1> SUFFICES ASSUME NEW k \in DOMAIN utxos, NEW i \in DOMAIN utxos[k]
               PROVE  LET u == utxos[k][i]
                          o == [TxID |-> u.TxID, Index |-> u.Index]
                      IN  /\ o \in UnspentOutPoints
                          /\ k = UTXOKey(o, txHeight[o.TxID])
                          /\ u = UTXO(o, o.TxID)
    BY DEF UTXOEntriesGenuine, ListsHold
  <1> DEFINE l == utxos[k]
             u == l[i]
  <1>1. l = ListAt(utxos, k) /\ l \in Seq(Elements) /\ k \in UTXOKeys
    <2>1. l = ListAt(utxos, k)
      BY DEF ListAt
    <2>2. k \in UTXOKeys
      BY DEF ListsHold, UTXOLists
    <2> QED
      BY <2>1, <2>2, ListAtType DEF ListsHold
  <1>2. Enumerates(l, Belonging(UnspentOutPoints, txHeight, k))
    BY <1>1 DEF ListsHold, Lists
  <1>3. i \in 1 .. Len(l)
    BY <1>1
  <1> HIDE DEF l
  <1>4. PICK o \in Belonging(UnspentOutPoints, txHeight, k) : u = Elem(o)
    BY <1>2, <1>3 DEF Enumerates
  <1>5. o \in UnspentOutPoints /\ UTXOKey(o, txHeight[o.TxID]) = k
    BY <1>4 DEF Belonging
  <1>6. o \in Outs
    BY <1>5, UnspentOuts DEF IInv, UnspentByChain
  <1>7. o = [TxID |-> u.TxID, Index |-> u.Index]
    BY <1>4, <1>6, ElemNames
  <1> HIDE DEF u
  <1> QED
    BY <1>4, <1>5, <1>7 DEF Elem, u, l

\* No handler fails on a block that passed validation.
LEMMA ListsPersist ==
  ASSUME IInv, ListsHold
  PROVE  CheckedBlockPersists
  <1> SUFFICES ASSUME NEW b \in Blocks, CheckedBlock(b)
               PROVE  PersistSucceeds(b)
    BY DEF CheckedBlockPersists
  <1>1. persistUnspendUTXOs(b).res = "ok"
    BY GrowLoop DEF ListsP
  <1>2. ~PersistAssetFails(b)
    <2>1. ElaAssetId \in StoredTxs /\ IsRegisterAssetTx(ElaAssetId) /\ AssetOf(ElaAssetId) = ElaAssetId
      BY GenesisAssumption DEF IInv, GenesisStored, StoredTxs, Stored, Absent, IsRegisterAssetTx, AssetOf
    <2>2. assets[ElaAssetId] = txHeight[ElaAssetId]
      BY <2>1, GenesisAssumption DEF IInv, AssetTableExact
    <2>3. assets[ElaAssetId] # Absent
      BY <2>1, <2>2 DEF StoredTxs, Stored
    <2> QED
      BY <2>3, ElaNameAssumption, GenesisAssumption DEF PersistAssetFails, CheckedBlock, AssetNameIsNew
  <1>3. ~persistUnspendFails(b)
    <2>1. \A i \in 1 .. Len(b) : b[i] \in BlockTxs(b)
      BY DEF BlockTxs
    <2> QED
      BY <2>1 DEF persistUnspendFails, CheckedBlock, CheckTxContext
  <1> QED
    BY <1>1, <1>2, <1>3 DEF PersistSucceeds

-----------------------------------------------------------------------------
\* Without rollbacks the lists are those of the unspent outputs at all times.
LEMMA NoReorgLists ==
  SpecNoReorg => [](IInv /\ ListsHold)
  <1>1. Init => IInv /\ ListsHold
    BY InitIInv, InitLists
  <1>2. IInv /\ ListsHold /\ [\E b \in Blocks : PersistBlock(b)]_vars => (IInv /\ ListsHold)'
    <2> SUFFICES ASSUME IInv, ListsHold, [\E b \in Blocks : PersistBlock(b)]_vars
                 PROVE  IInv' /\ ListsHold'
      OBVIOUS
    <2>1. IInv'
      BY StoreStep DEF Next
    <2>2. ListsHold'
      BY GrowLists, StutterLists
    <2> QED
      BY <2>1, <2>2
  <1> QED
    BY <1>1, <1>2, PTL DEF SpecNoReorg

\* While the chain only grows, every element of a utxo list is that of an
\* unspent output of its address, asset and height (persistUnspendUTXOs,
\* PersistUnspentWithProgramHash).
THEOREM GrowEntriesGenuine == SpecNoReorg => []UTXOEntriesGenuine
  BY NoReorgLists, ListsGenuine, PTL

\* While the chain only grows, a block that passed the checks is persisted: no
\* list or element that an input refers to is missing (persistUnspendUTXOs,
\* persistUnspend, PersistAsset).
THEOREM GrowCheckedBlockPersists == SpecNoReorg => []CheckedBlockPersists
  BY NoReorgLists, ListsPersist, PTL

\* A service on a chain that only grows is a store that only grows.
LEMMA ServiceGrows == ServiceSpecNoReorg => SpecNoReorg
  <1>1. [ExtendNext]_allVars => [\E b \in Blocks : PersistBlock(b)]_vars
    <2>1. CASE Serve
      BY <2>1 DEF Serve, ServeStep, ListUnspent, GetTransaction, ReadAddress, ReadUTXO, ListAll,
                  GetTransactionInfo, Answer, storeVars
    <2>2. CASE UNCHANGED allVars
      BY <2>2 DEF allVars, vars
    <2> QED
      BY <2>1, <2>2 DEF ExtendNext
  <1> QED
    BY <1>1, PTL DEF ServiceSpecNoReorg, ServiceInit, SpecNoReorg

-----------------------------------------------------------------------------
(* ListUnspent, while the chain only grows.                                *)

\* No transaction up to height best consumes output o.
WasUnspent(o, best) == \A t \in StoredTxs : o \in Spends(t) => txHeight[t] > best

\* The row of an answer for output o, counted from height best.
Row(o, best) ==
  [TxID |-> o.TxID, VOut |-> o.Index,
   Address |-> OutputAt(o).ProgramHash,
   AssetID |-> OutputAt(o).AssetID,
   Amount |-> ValueString(OutputAt(o).AssetID, OutputAt(o).Value),
   Confirmations |-> ConfirmationsAt(best, txHeight[o.TxID])]

\* What has been read for output o of address p, to be looked up.
IsRead(e, o, p) ==
  /\ OutputAt(o).ProgramHash = p
  /\ e.AssetID = OutputAt(o).AssetID
  /\ e.UTXO = Elem(o)

Known(o, best) == o \in Outs /\ Stored(o.TxID) /\ WasUnspent(o, best)

\* What is unspent of address number i is listed, or about to be looked up.
Covered(q, i) ==
  \A o \in UnspentOf(q.addresses[i]) :
    txHeight[o.TxID] <= q.bestHeight =>
      \/ \E r \in q.results : r.TxID = o.TxID /\ r.VOut = o.Index /\ r.Address = q.addresses[i]
      \/ i = q.next - 1 /\ \E e \in q.todo : e.UTXO = Elem(o)

IsListing(q) ==
  q = [kind |-> "ListUnspent", pc |-> q.pc, addresses |-> q.addresses, next |-> q.next,
       bestHeight |-> q.bestHeight, todo |-> q.todo, results |-> q.results]

\* A request that goes on or has been answered.
Ongoing(q) ==
  /\ IsListing(q)
  /\ \/ q.pc = "reading"
     \/ q.pc = "done" /\ q.next = Len(q.addresses) + 1 /\ q.todo = {}
  /\ q.next \in 1 .. Len(q.addresses) + 1
  /\ q.bestHeight \in 0 .. Height
  /\ q.todo # {} => q.next # 1
  /\ \A e \in q.todo : \E o \in Outs :
       Known(o, q.bestHeight) /\ IsRead(e, o, q.addresses[q.next - 1])
  /\ \A r \in q.results : \E o \in Outs :
       Known(o, q.bestHeight) /\ r = Row(o, q.bestHeight)
  /\ \A i \in 1 .. q.next - 1 : q.addresses[i] # BadAddress /\ Covered(q, i)

\* A request that was ended by a string that is not an address.
Refused(q) ==
  /\ q = [kind |-> "ListUnspent", pc |-> "error", addresses |-> q.addresses, results |-> {}]
  /\ \E i \in DOMAIN q.addresses : q.addresses[i] = BadAddress

Serves(q) ==
  /\ {"kind", "pc"} \subseteq DOMAIN q
  /\ q.kind = "ListUnspent" => q.addresses \in Requests /\ (Ongoing(q) \/ Refused(q))

\* The addresses of a request.
LEMMA RequestType ==
  ASSUME NEW addresses \in Requests
  PROVE  /\ addresses \in Seq(ProgramHash \cup {BadAddress})
         /\ Len(addresses) \in Nat /\ DOMAIN addresses = 1 .. Len(addresses)
  BY RequestsAssumption

\* The elements of an address's lists are those of its unspent outputs.
LEMMA GetUnspentsExact ==
  ASSUME IInv, ListsHold, NEW p, NEW best
  PROVE  /\ \A e \in GetUnspents(p) : \E o \in Outs : Known(o, best) /\ IsRead(e, o, p)
         /\ \A o \in UnspentOf(p) : \E e \in GetUnspents(p) : e.UTXO = Elem(o)
  <1>1. UnspentOutPoints = {o \in Outs : o.TxID \in StoredTxs /\ o \notin SpentBy(StoredTxs)}
    BY UnspentOuts DEF IInv, UnspentByChain
  <1>2. ASSUME NEW e \in GetUnspents(p)
        PROVE  \E o \in Outs : Known(o, best) /\ IsRead(e, o, p)
    <2>1. PICK k \in {l \in DOMAIN utxos : l[1] = p} :
            e \in {[AssetID |-> k[2], Place |-> <<k[3], i>>, UTXO |-> utxos[k][i]] :
                     i \in DOMAIN utxos[k]}
      BY DEF GetUnspents
    <2>2. PICK i \in DOMAIN utxos[k] :
            e = [AssetID |-> k[2], Place |-> <<k[3], i>>, UTXO |-> utxos[k][i]]
      BY <2>1
    <2> DEFINE u == utxos[k][i]
               o == [TxID |-> u.TxID, Index |-> u.Index]
    <2>3. o \in UnspentOutPoints /\ k = UTXOKey(o, txHeight[o.TxID]) /\ u = UTXO(o, o.TxID)
      BY <2>1, <2>2, ListsGenuine DEF UTXOEntriesGenuine
    <2> HIDE DEF o
    <2>4. e.AssetID = k[2] /\ e.UTXO = u /\ k[1] = p
      BY <2>1, <2>2
    <2>5. k[1] = OutputAt(o).ProgramHash /\ k[2] = OutputAt(o).AssetID
      BY <2>3 DEF UTXOKey
    <2>6. o \in Outs /\ o.TxID \in StoredTxs /\ o \notin SpentBy(StoredTxs)
      BY <1>1, <2>3
    <2>7. Known(o, best)
      BY <2>6 DEF Known, WasUnspent, SpentBy, StoredTxs
    <2> HIDE DEF u
    <2>8. IsRead(e, o, p)
      BY <2>3, <2>4, <2>5 DEF IsRead, Elem
    <2> QED
      BY <2>6, <2>7, <2>8
  <1>3. ASSUME NEW o \in UnspentOf(p)
        PROVE  \E e \in GetUnspents(p) : e.UTXO = Elem(o)
    <2> DEFINE k == UTXOKey(o, txHeight[o.TxID])
               l == ListAt(utxos, k)
    <2>1. o \in UnspentOutPoints /\ OutputAt(o).ProgramHash = p /\ o \in Outs
      BY <1>1 DEF UnspentOf
    <2>2. k[1] = p
      BY <2>1 DEF UTXOKey
    <2>3. txHeight[o.TxID] \in Int
      <3>1. o.TxID \in TxID
        BY <2>1, OutType
      <3>2. Height \in Nat /\ txHeight \in [TxID -> Absent .. Height]
        BY DEF IInv, TypeOK, Height
      <3> QED
        BY <3>1, <3>2 DEF Absent
    <2>4. k \in UTXOKeys
      BY <2>1, <2>3, OutType
    <2>5. Enumerates(l, Belonging(UnspentOutPoints, txHeight, k))
      BY <2>4 DEF ListsHold, Lists
    <2>6. l \in Seq(Elements)
      BY ListAtType DEF ListsHold
    <2> HIDE DEF l
    <2>7. o \in Belonging(UnspentOutPoints, txHeight, k)
      BY <2>1 DEF Belonging
    <2> HIDE DEF k
    <2>8. PICK i \in 1 .. Len(l) : l[i] = Elem(o)
      <3>1. Elem(o) \in {l[i] : i \in 1 .. Len(l)}
        BY <2>5, <2>7 DEF Enumerates
      <3> QED
        BY <3>1
    <2>9. k \in DOMAIN utxos /\ utxos[k] = l
      BY <2>6, <2>8 DEF l, ListAt
    <2>10. i \in DOMAIN utxos[k]
      BY <2>6, <2>9
    <2> DEFINE e == [AssetID |-> k[2], Place |-> <<k[3], i>>, UTXO |-> utxos[k][i]]
    <2>11. e \in GetUnspents(p)
      BY <2>2, <2>9, <2>10 DEF GetUnspents
    <2>12. e.UTXO = Elem(o)
      BY <2>8, <2>9
    <2> QED
      BY <2>11, <2>12
  <1> QED
    BY <1>2, <1>3

\* The request begins.
LEMMA ListBegins ==
  ASSUME IInv, NEW addresses \in Requests, ListUnspent(addresses)
  PROVE  Serves(req')
  <1>1. req' = [kind |-> "ListUnspent", pc |-> "reading", addresses |-> addresses,
                next |-> 1, bestHeight |-> Height, todo |-> {}, results |-> {}]
    BY DEF ListUnspent
  <1>2. Height \in Nat
    BY DEF IInv, TypeOK, Height
  <1>3. Len(addresses) \in Nat
    BY RequestType
  <1>4. IsListing(req')
    BY <1>1 DEF IsListing
  <1>5. Ongoing(req')
    BY <1>1, <1>2, <1>3, <1>4 DEF Ongoing
  <1> QED
    BY <1>1, <1>5 DEF Serves

\* An address is read.
LEMMA ListReadsAddress ==
  ASSUME IInv, ListsHold, Serves(req), ReadAddress
  PROVE  Serves(req')
  <1> DEFINE p == req.addresses[req.next]
             n == req.next
  <1>1. /\ req.kind = "ListUnspent" /\ req.pc = "reading" /\ req.todo = {}
        /\ n <= Len(req.addresses)
        /\ req' = IF p = BadAddress
                  THEN FailRequest("error")
                  ELSE [req EXCEPT !.todo = GetUnspents(p), !.next = n + 1]
    BY DEF ReadAddress
  <1>2. Ongoing(req) /\ req.addresses \in Requests
    <2>1. Refused(req) => req.pc = "error"
      BY DEF Refused
    <2> QED
      BY <1>1, <2>1 DEF Serves
  <1>3. /\ Len(req.addresses) \in Nat /\ DOMAIN req.addresses = 1 .. Len(req.addresses)
        /\ n \in 1 .. Len(req.addresses)
    BY <1>1, <1>2, RequestType DEF Ongoing
  <1>4. CASE p = BadAddress
    <2>1. req' = [kind |-> "ListUnspent", pc |-> "error", addresses |-> req.addresses, results |-> {}]
      BY <1>1, <1>4 DEF FailRequest
    <2>2. Refused(req')
      BY <1>3, <1>4, <2>1 DEF Refused
    <2> QED
      BY <1>2, <2>1, <2>2 DEF Serves
  <1>5. CASE p # BadAddress
    <2> DEFINE q == req'
    <2>1. q = [kind |-> "ListUnspent", pc |-> "reading", addresses |-> req.addresses,
               next |-> n + 1, bestHeight |-> req.bestHeight, todo |-> GetUnspents(p),
               results |-> req.results]
      BY <1>1, <1>2, <1>5 DEF Ongoing, IsListing
    <2>2. /\ q.kind = "ListUnspent" /\ q.pc = "reading" /\ q.addresses = req.addresses
          /\ q.next = n + 1 /\ q.bestHeight = req.bestHeight /\ q.todo = GetUnspents(p)
          /\ q.results = req.results /\ {"kind", "pc"} \subseteq DOMAIN q
      BY <2>1
    <2>3. IsListing(q)
      BY <2>1, <2>2 DEF IsListing
    <2>4. q.addresses[q.next - 1] = p
      BY <1>3, <2>2
    <2> HIDE DEF p, q
    <2>5. \A e \in q.todo : \E o \in Outs :
            Known(o, q.bestHeight) /\ IsRead(e, o, q.addresses[q.next - 1])
      BY <2>2, <2>4, GetUnspentsExact
    <2>6. ASSUME NEW i \in 1 .. q.next - 1
          PROVE  q.addresses[i] # BadAddress /\ Covered(q, i)
      <3>1. CASE i = n
        <4>1. q.addresses[i] = p /\ i = q.next - 1
          BY <1>3, <2>2, <2>4, <3>1
        <4>2. \A o \in UnspentOf(p) : \E e \in q.todo : e.UTXO = Elem(o)
          BY <2>2, GetUnspentsExact
        <4> QED
          BY <1>5, <4>1, <4>2 DEF Covered
      <3>2. CASE i # n
        <4>1. i \in 1 .. req.next - 1
          BY <1>3, <2>2, <3>2
        <4>2. req.addresses[i] # BadAddress /\ Covered(req, i)
          BY <1>2, <4>1 DEF Ongoing
        <4> QED
          BY <1>1, <2>2, <4>2 DEF Covered
      <3> QED
        BY <3>1, <3>2
    <2>7. q.next \in 1 .. Len(q.addresses) + 1 /\ q.next # 1
      BY <1>3, <2>2
    <2>8. q.bestHeight \in 0 .. Height
          /\ \A r \in q.results : \E o \in Outs : Known(o, q.bestHeight) /\ r = Row(o, q.bestHeight)
      BY <1>2, <2>2 DEF Ongoing
    <2>9. Ongoing(q)
      BY <2>2, <2>3, <2>5, <2>6, <2>7, <2>8 DEF Ongoing
    <2>10. Serves(q)
      BY <1>2, <2>2, <2>9 DEF Serves
    <2> QED
      BY <2>10 DEF q
  <1> QED
    BY <1>4, <1>5

\* An element is looked up: its transaction is there, and so is the output.
LEMMA ListReadsUTXO ==
  ASSUME IInv, Serves(req), req.kind = "ListUnspent", req.pc = "reading",
         NEW e \in req.todo, ReadUTXO(e)
  PROVE  Serves(req')
  <1> DEFINE q == req'
             p == req.addresses[req.next - 1]
             best == req.bestHeight
  <1>1. Ongoing(req) /\ req.addresses \in Requests
    <2>1. Refused(req) => req.pc = "error"
      BY DEF Refused
    <2> QED
      BY <2>1 DEF Serves
  <1>2. PICK o \in Outs : Known(o, best) /\ IsRead(e, o, p)
    BY <1>1 DEF Ongoing
  <1>3. /\ e.UTXO.TxID = o.TxID /\ e.UTXO.Index = o.Index /\ e.UTXO.Value = OutputAt(o).Value
        /\ e.AssetID = OutputAt(o).AssetID /\ p = OutputAt(o).ProgramHash
    BY <1>2 DEF IsRead, Elem, UTXO
  <1>4. Stored(o.TxID) /\ o.Index \in OutputIndexes(o.TxID)
    BY <1>2 DEF Known, Outs
  <1>5. q = [req EXCEPT !.todo = @ \ {e}, !.results = @ \cup {Row(o, best)}]
    BY <1>3, <1>4 DEF ReadUTXO, Row
  <1>6. q = [kind |-> "ListUnspent", pc |-> "reading", addresses |-> req.addresses,
             next |-> req.next, bestHeight |-> best, todo |-> req.todo \ {e},
             results |-> req.results \cup {Row(o, best)}]
    BY <1>1, <1>5 DEF Ongoing, IsListing
  <1>7. /\ q.kind = "ListUnspent" /\ q.pc = "reading" /\ q.addresses = req.addresses
        /\ q.next = req.next /\ q.bestHeight = best /\ q.todo = req.todo \ {e}
        /\ q.results = req.results \cup {Row(o, best)} /\ {"kind", "pc"} \subseteq DOMAIN q
    BY <1>6
  <1>8. IsListing(q)
    BY <1>6, <1>7 DEF IsListing
  <1> HIDE DEF q
  <1>9. Row(o, best).TxID = o.TxID /\ Row(o, best).VOut = o.Index /\ Row(o, best).Address = p
    BY <1>3 DEF Row
  <1>10. ASSUME NEW i \in 1 .. q.next - 1
         PROVE  q.addresses[i] # BadAddress /\ Covered(q, i)
    <2>1. q.addresses[i] # BadAddress /\ Covered(req, i)
      BY <1>1, <1>7 DEF Ongoing
    <2> SUFFICES ASSUME NEW x \in UnspentOf(q.addresses[i]), txHeight[x.TxID] <= q.bestHeight
                 PROVE  \/ \E r \in q.results : r.TxID = x.TxID /\ r.VOut = x.Index
                                                /\ r.Address = q.addresses[i]
                        \/ i = q.next - 1 /\ \E d \in q.todo : d.UTXO = Elem(x)
      BY <2>1 DEF Covered
    <2>2. \/ \E r \in req.results : r.TxID = x.TxID /\ r.VOut = x.Index
                                    /\ r.Address = req.addresses[i]
          \/ i = req.next - 1 /\ \E d \in req.todo : d.UTXO = Elem(x)
      BY <1>7, <2>1 DEF Covered
    <2>3. ASSUME i = req.next - 1, e.UTXO = Elem(x)
          PROVE  Row(o, best) \in q.results /\ Row(o, best).TxID = x.TxID
                 /\ Row(o, best).VOut = x.Index /\ Row(o, best).Address = q.addresses[i]
      <3>1. o.TxID = x.TxID /\ o.Index = x.Index
        BY <1>3, <2>3 DEF Elem, UTXO
      <3> QED
        BY <1>7, <1>9, <2>3, <3>1
    <2> QED
      BY <1>7, <2>2, <2>3
  <1>11. \A r \in q.results : \E x \in Outs : Known(x, q.bestHeight) /\ r = Row(x, q.bestHeight)
    BY <1>1, <1>2, <1>7 DEF Ongoing
  <1>12. /\ q.next \in 1 .. Len(q.addresses) + 1 /\ q.bestHeight \in 0 .. Height
         /\ q.todo # {} => q.next # 1
         /\ \A d \in q.todo : \E x \in Outs :
              Known(x, q.bestHeight) /\ IsRead(d, x, q.addresses[q.next - 1])
    BY <1>1, <1>7 DEF Ongoing
  <1>13. Ongoing(q)
    BY <1>7, <1>8, <1>10, <1>11, <1>12 DEF Ongoing
  <1>14. Serves(q)
    BY <1>1, <1>7, <1>13 DEF Serves
  <1> QED
    BY <1>14 DEF q

\* The list is complete.
LEMMA ListEnds ==
  ASSUME Serves(req), ListAll
  PROVE  Serves(req')
  <1> DEFINE q == req'
  <1>1. req.kind = "ListUnspent" /\ req.pc = "reading" /\ req.todo = {}
        /\ req.next > Len(req.addresses) /\ q = [req EXCEPT !.pc = "done"]
    BY DEF ListAll
  <1>2. Ongoing(req) /\ req.addresses \in Requests
    <2>1. Refused(req) => req.pc = "error"
      BY DEF Refused
    <2> QED
      BY <1>1, <2>1 DEF Serves
  <1>3. q = [kind |-> "ListUnspent", pc |-> "done", addresses |-> req.addresses,
             next |-> req.next, bestHeight |-> req.bestHeight, todo |-> {},
             results |-> req.results]
    BY <1>1, <1>2 DEF Ongoing, IsListing
  <1>4. /\ q.kind = "ListUnspent" /\ q.pc = "done" /\ q.addresses = req.addresses
        /\ q.next = req.next /\ q.bestHeight = req.bestHeight /\ q.todo = {}
        /\ q.results = req.results /\ {"kind", "pc"} \subseteq DOMAIN q
    BY <1>3
  <1>5. IsListing(q)
    BY <1>3, <1>4 DEF IsListing
  <1> HIDE DEF q
  <1>6. q.next = Len(q.addresses) + 1 /\ q.next \in 1 .. Len(q.addresses) + 1
    <2>1. Len(req.addresses) \in Nat /\ req.next \in 1 .. Len(req.addresses) + 1
      BY <1>2, RequestType DEF Ongoing
    <2> QED
      BY <1>1, <1>4, <2>1
  <1>7. \A i \in 1 .. q.next - 1 : q.addresses[i] # BadAddress /\ Covered(q, i)
    BY <1>1, <1>2, <1>4 DEF Ongoing, Covered
  <1>8. /\ q.bestHeight \in 0 .. Height
        /\ \A r \in q.results : \E o \in Outs : Known(o, q.bestHeight) /\ r = Row(o, q.bestHeight)
    BY <1>2, <1>4 DEF Ongoing
  <1>9. Ongoing(q)
    BY <1>4, <1>5, <1>6, <1>7, <1>8 DEF Ongoing
  <1>10. Serves(q)
    BY <1>2, <1>4, <1>9 DEF Serves
  <1> QED
    BY <1>10 DEF q

\* A request does not write to the store.
LEMMA ListFrame ==
  ASSUME UNCHANGED storeVars, Serves(req')
  PROVE  Serves(req)'
  <1>1. txHeight' = txHeight /\ unspent' = unspent /\ chain' = chain
    BY DEF storeVars, vars
  <1>2. StoredTxs' = StoredTxs /\ Height' = Height /\ UnspentOutPoints' = UnspentOutPoints
    BY <1>1 DEF StoredTxs, Stored, Height, UnspentOutPoints
  <1>3. \A o, best : Known(o, best)' <=> Known(o, best)
    BY <1>1, <1>2 DEF Known, WasUnspent, Stored
  <1>4. \A o, best : Row(o, best)' = Row(o, best)
    BY <1>1 DEF Row
  <1>5. \A p : UnspentOf(p)' = UnspentOf(p)
    BY <1>2 DEF UnspentOf
  <1> QED
    BY <1>1, <1>2, <1>3, <1>4, <1>5
    DEF Serves, Ongoing, Refused, IsListing, IsRead, Covered, Elem, UTXO, OutputAt

\* Every step of the service keeps the request.
LEMMA ListServes ==
  ASSUME IInv, ListsHold, Serves(req), Serve
  PROVE  Serves(req)'
  <1>1. UNCHANGED storeVars
    BY DEF Serve, ServeStep, ListUnspent, GetTransaction, ReadAddress, ReadUTXO, ListAll,
           GetTransactionInfo, Answer
  <1>2. ASSUME NEW addresses \in Requests, ListUnspent(addresses)
        PROVE  Serves(req')
    BY <1>2, ListBegins
  <1>3. ASSUME NEW t \in TxID, GetTransaction(t)
        PROVE  Serves(req')
    BY <1>3 DEF GetTransaction, Serves
  <1>4. ASSUME ReadAddress
        PROVE  Serves(req')
    BY <1>4, ListReadsAddress
  <1>5. ASSUME req.kind = "ListUnspent", req.pc = "reading", NEW e \in req.todo, ReadUTXO(e)
        PROVE  Serves(req')
    BY <1>5, ListReadsUTXO
  <1>6. ASSUME ListAll
        PROVE  Serves(req')
    BY <1>6, ListEnds
  <1>7. ASSUME GetTransactionInfo
        PROVE  Serves(req')
    BY <1>7 DEF GetTransactionInfo, Serves
  <1>8. ASSUME Answer
        PROVE  Serves(req')
    BY <1>8 DEF Answer, NoRequest, Serves
  <1>9. Serves(req')
    BY <1>2, <1>3, <1>4, <1>5, <1>6, <1>7, <1>8 DEF Serve, ServeStep
  <1> QED
    BY <1>1, <1>9, ListFrame

\* The chain grows under the request: a new block makes no output that was
\* there when the request began, and what it consumes it consumes above.
LEMMA ListPersists ==
  ASSUME IInv, Serves(req), NEW b \in Blocks, PersistBlock(b), UNCHANGED req
  PROVE  Serves(req)'
  <1> DEFINE T == BlockTxs(b)
             best == req.bestHeight
  <1>1. IInv'
    BY StoreStep DEF Next
  <1>2. /\ Height \in Nat /\ Height' = Height + 1
        /\ T \subseteq TxID /\ T \cap StoredTxs = {} /\ StoredTxs' = StoredTxs \cup T
        /\ \A t \in T : txHeight'[t] = Height + 1
        /\ \A t \in TxID \ T : txHeight'[t] = txHeight[t]
    BY PersistEffect DEF IInv
  <1> HIDE DEF T
  <1>3. \A t \in StoredTxs : t \in StoredTxs' /\ txHeight'[t] = txHeight[t]
    BY <1>2 DEF StoredTxs
  <1>4. CASE req.kind # "ListUnspent"
    BY <1>4 DEF Serves
  <1>5. CASE Refused(req)
    <2>1. req.kind = "ListUnspent"
      BY <1>5 DEF Refused
    <2> QED
      BY <1>5, <2>1 DEF Serves, Refused
  <1>6. CASE req.kind = "ListUnspent" /\ Ongoing(req)
    <2>1. best \in 0 .. Height
      BY <1>6 DEF Ongoing
    <2>2. ASSUME NEW o \in Outs, Known(o, best)
          PROVE  Known(o, best)' /\ Row(o, best)' = Row(o, best)
      <3>1. o.TxID \in TxID /\ Stored(o.TxID)
        BY <2>2, OutType DEF Known
      <3>2. Stored(o.TxID)' /\ txHeight'[o.TxID] = txHeight[o.TxID]
        BY <1>3, <3>1 DEF StoredTxs
      <3>3. ASSUME NEW t \in StoredTxs', o \in Spends(t)
            PROVE  txHeight'[t] > best
        <4>1. CASE t \in T
          BY <1>2, <2>1, <4>1
        <4>2. CASE t \in StoredTxs
          BY <1>3, <2>2, <3>3, <4>2 DEF Known, WasUnspent
        <4> QED
          BY <1>2, <4>1, <4>2
      <3> QED
        BY <2>2, <3>2, <3>3 DEF Known, WasUnspent, Row
    <2>3. \A p : \A o \in UnspentOf(p)' :
            txHeight'[o.TxID] <= best => o \in UnspentOf(p) /\ txHeight'[o.TxID] = txHeight[o.TxID]
      <3>1. UnspentOutPoints = {o \in Outs : o.TxID \in StoredTxs /\ o \notin SpentBy(StoredTxs)}
        BY UnspentOuts DEF IInv, UnspentByChain
      <3>2. UnspentOutPoints' = {o \in Outs : o.TxID \in StoredTxs' /\ o \notin SpentBy(StoredTxs')}
        <4>1. UnspentByChain'
          BY <1>1, UnspentOuts, PTL DEF IInv
        <4> QED
          BY <4>1 DEF UnspentByChain, SpentBy
      <3>3. ASSUME NEW o \in UnspentOutPoints', txHeight'[o.TxID] <= best
            PROVE  o \in UnspentOutPoints /\ txHeight'[o.TxID] = txHeight[o.TxID]
        <4>1. o.TxID \notin T
          BY <1>2, <2>1, <3>3
        <4>2. o.TxID \in StoredTxs
          BY <1>2, <3>2, <4>1
        <4>3. o \notin SpentBy(StoredTxs)
          BY <1>2, <3>2 DEF SpentBy
        <4> QED
          BY <1>3, <3>1, <3>2, <4>2, <4>3
      <3> QED
        BY <3>3 DEF UnspentOf
    <2>4. \A i : Covered(req, i) => Covered(req, i)'
      BY <2>3 DEF Covered, Elem, UTXO, OutputAt
    <2>5. best \in 0 .. Height'
      BY <1>2, <2>1
    <2>6. \A e \in req.todo : \E o \in Outs :
            Known(o, best)' /\ IsRead(e, o, req.addresses[req.next - 1])
      BY <1>6, <2>2 DEF Ongoing
    <2>7. \A r \in req.results : \E o \in Outs : Known(o, best)' /\ r = Row(o, best)'
      BY <1>6, <2>2 DEF Ongoing
    <2>8. Ongoing(req)'
      BY <1>6, <2>4, <2>5, <2>6, <2>7 DEF Ongoing, IsListing, IsRead, Elem, UTXO, OutputAt, Outs
    <2> QED
      BY <1>6, <2>8 DEF Serves
  <1> QED
    BY <1>4, <1>5, <1>6 DEF Serves

\* What is known of the request stays known if nothing changes.
LEMMA ListStutters ==
  ASSUME Serves(req), UNCHANGED allVars
  PROVE  Serves(req)'
  <1>1. req' = req /\ UNCHANGED storeVars
    BY DEF allVars, storeVars, vars
  <1> QED
    BY <1>1, ListFrame

-----------------------------------------------------------------------------
\* Neither a block nor a read of the request disturbs what is known of it.
LEMMA ListStep ==
  ASSUME IInv, ListsHold, Serves(req), [ExtendNext]_allVars
  PROVE  Serves(req)'
  <1>1. ASSUME NEW b \in Blocks, PersistBlock(b), UNCHANGED req
        PROVE  Serves(req)'
    BY <1>1, ListPersists
  <1>2. CASE Serve
    BY <1>2, ListServes
  <1>3. CASE UNCHANGED allVars
    BY <1>3, ListStutters
  <1> QED
    BY <1>1, <1>2, <1>3 DEF ExtendNext

\* So it is known at all times, for the lists and for the request.
LEMMA ServiceLists ==
  ServiceSpecNoReorg => [](IInv /\ ListsHold /\ Serves(req))
  <1>1. ServiceSpecNoReorg => [](IInv /\ ListsHold)
    BY ServiceGrows, NoReorgLists, PTL
  <1>2. ServiceInit => Serves(req)
    BY DEF ServiceInit, NoRequest, Serves
  <1>3. IInv /\ ListsHold /\ Serves(req) /\ [ExtendNext]_allVars => Serves(req)'
    BY ListStep
  <1> QED
    BY <1>1, <1>2, <1>3, PTL DEF ServiceSpecNoReorg

\* A row is one of an output that is known.
LEMMA RowsKnown ==
  ASSUME Serves(req), req.kind = "ListUnspent", NEW r \in req.results
  PROVE  /\ Ongoing(req)
         /\ \E o \in Outs : Known(o, req.bestHeight) /\ r = Row(o, req.bestHeight)
  <1>1. ~Refused(req)
    BY DEF Refused
  <1>2. Ongoing(req)
    BY <1>1 DEF Serves
  <1> QED
    BY <1>2 DEF Ongoing

\* What is known of a request implies the first of the three: its rows were unspent.
LEMMA RowsWereUnspent ==
  ASSUME Serves(req)
  PROVE  ListedWasUnspent
  <1> SUFFICES ASSUME req.kind = "ListUnspent", NEW r \in req.results
               PROVE  LET o == [TxID |-> r.TxID, Index |-> r.VOut]
                      IN  /\ OutputAt(o).ProgramHash = r.Address
                          /\ OutputAt(o).AssetID = r.AssetID
                          /\ r.Amount = ValueString(r.AssetID, OutputAt(o).Value)
                          /\ \A t \in StoredTxs : o \in Spends(t) => txHeight[t] > req.bestHeight
    BY DEF ListedWasUnspent
  <1>1. PICK o \in Outs : Known(o, req.bestHeight) /\ r = Row(o, req.bestHeight)
    BY RowsKnown
  <1>2. o = [TxID |-> o.TxID, Index |-> o.Index]
    BY OutType
  <1>3. r.TxID = o.TxID /\ r.VOut = o.Index /\ r.Address = OutputAt(o).ProgramHash
        /\ r.AssetID = OutputAt(o).AssetID
        /\ r.Amount = ValueString(OutputAt(o).AssetID, OutputAt(o).Value)
    BY <1>1 DEF Row
  <1>4. [TxID |-> r.TxID, Index |-> r.VOut] = o
    BY <1>2, <1>3
  <1> QED
    BY <1>1, <1>3, <1>4 DEF Known, WasUnspent

\* And the second: once it is answered, nothing that stayed unspent is missing.
LEMMA AnswersComplete ==
  ASSUME Serves(req)
  PROVE  ListedAll
  <1> SUFFICES ASSUME req.kind = "ListUnspent", req.pc # "reading"
               PROVE  IF \E i \in DOMAIN req.addresses : req.addresses[i] = BadAddress
                      THEN req.pc = "error"
                      ELSE req.pc = "done" /\ Complete
    BY DEF ListedAll
  <1>1. req.addresses \in Requests /\ (Ongoing(req) \/ Refused(req))
    BY DEF Serves
  <1>2. Len(req.addresses) \in Nat /\ DOMAIN req.addresses = 1 .. Len(req.addresses)
    BY <1>1, RequestType
  <1>3. CASE Refused(req)
    <2>1. req.pc = "error"
      BY <1>3 DEF Refused
    <2> QED
      BY <1>3, <2>1 DEF Refused
  <1>4. CASE Ongoing(req)
    <2>1. req.pc = "done" /\ req.next = Len(req.addresses) + 1 /\ req.todo = {}
      BY <1>4 DEF Ongoing
    <2>2. \A i \in DOMAIN req.addresses : req.addresses[i] # BadAddress /\ Covered(req, i)
      <3>1. \A i \in DOMAIN req.addresses : i \in 1 .. req.next - 1
        BY <1>2, <2>1
      <3> QED
        BY <1>4, <3>1 DEF Ongoing
    <2>3. Complete
      BY <2>1, <2>2 DEF Complete, Covered
    <2> QED
      BY <2>1, <2>2, <2>3
  <1> QED
    BY <1>1, <1>3, <1>4

\* While the chain only grows, the rows of an answer are right, and what has
\* been spent since was spent above the height that the request began with
\* (ListUnspent).
THEOREM ServiceListedWasUnspent == ServiceSpecNoReorg => []ListedWasUnspent
  BY ServiceLists, RowsWereUnspent, PTL

\* While the chain only grows, an answer lists every output that was there
\* when the request began and is unspent still, and the only error is that of
\* a string that is no address (ListUnspent).
THEOREM ServiceListedAll == ServiceSpecNoReorg => []ListedAll
  BY ServiceLists, AnswersComplete, PTL

\* A negative number of confirmations above - n wraps once.
LEMMA WrapMod ==
  ASSUME NEW n \in Nat \ {0}, NEW i \in Int, i < 0, 0 <= i + n
  PROVE  i % n = i + n
  OBVIOUS

\* And the third: its rows count their confirmations from one height.
LEMMA RowsConfirm ==
  ASSUME 2 * MaxHeight <= Uint32Size, IInv, Serves(req)
  PROVE  ListedConfirmations
  <1> SUFFICES ASSUME req.kind = "ListUnspent"
               PROVE  \E top \in 0 .. Height : \A r \in req.results :
                        IF txHeight[r.TxID] <= top + 1
                        THEN txHeight[r.TxID] + r.Confirmations = top + 1
                        ELSE r.Confirmations > Height
    BY DEF ListedConfirmations
  <1>1. Height \in Nat /\ Height <= MaxHeight /\ 0 \in 0 .. Height
    BY DEF IInv, TypeOK, Height
  <1>2. CASE Refused(req)
    <2>1. req.results = {}
      BY <1>2 DEF Refused
    <2> QED
      BY <1>1, <2>1
  <1>3. CASE Ongoing(req)
    <2> DEFINE best == req.bestHeight
    <2>1. best \in 0 .. Height
      BY <1>3 DEF Ongoing
    <2>2. ASSUME NEW r \in req.results
          PROVE  IF txHeight[r.TxID] <= best + 1
                 THEN txHeight[r.TxID] + r.Confirmations = best + 1
                 ELSE r.Confirmations > Height
      <3>1. PICK o \in Outs : Known(o, best) /\ r = Row(o, best)
        BY RowsKnown
      <3> DEFINE h == txHeight[o.TxID]
                 c == best - h + 1
      <3>2. r.TxID = o.TxID /\ r.Confirmations = c % Uint32Size
        BY <3>1 DEF Row, ConfirmationsAt
      <3>3. h \in 0 .. Height
        <4>1. o.TxID \in TxID /\ h # Absent
          BY <3>1, OutType DEF Known, Stored
        <4>2. h \in Absent .. Height
          BY <4>1 DEF IInv, TypeOK
        <4> QED
          BY <1>1, <4>1, <4>2 DEF Absent
      <3> HIDE DEF h, best
      <3>4. Uint32Size \in Nat \ {0} /\ Height + 1 < Uint32Size /\ 2 * Height <= Uint32Size
            /\ c \in Int
        BY <1>1, <2>1, <3>3, Uint32SizeAssumption, MaxHeightAssumption
      <3>5. CASE h <= best + 1
        <4>1. c \in Nat /\ c < Uint32Size
          BY <1>1, <2>1, <3>3, <3>4, <3>5
        <4>2. c % Uint32Size = c
          <5> HIDE DEF c
          <5> QED
            BY <3>4, <4>1, SmallMod
        <4> QED
          BY <2>1, <3>2, <3>3, <3>5, <4>2 DEF h
      <3>6. CASE ~(h <= best + 1)
        <4>1. c < 0 /\ 0 <= c + Uint32Size /\ c + Uint32Size > Height
          BY <1>1, <2>1, <3>3, <3>4, <3>6
        <4>2. c % Uint32Size = c + Uint32Size
          <5> HIDE DEF c
          <5> QED
            BY <3>4, <4>1, WrapMod
        <4> QED
          BY <3>2, <3>6, <4>1, <4>2 DEF h
      <3> QED
        BY <3>5, <3>6
    <2> HIDE DEF best
    <2> QED
      BY <2>1, <2>2
  <1> QED
    BY <1>2, <1>3 DEF Serves

\* While the chain only grows and is no longer than half of the integers that
\* count its heights, the confirmations of all rows count up to one and the
\* same block, and a row that wrapped shows more than the chain has blocks
\* (ListUnspent).
THEOREM ServiceListedConfirmations ==
  ASSUME 2 * MaxHeight <= Uint32Size
  PROVE  ServiceSpecNoReorg => []ListedConfirmations
  <1>1. IInv /\ Serves(req) => ListedConfirmations
    BY RowsConfirm
  <1> QED
    BY <1>1, ServiceLists, PTL

-----------------------------------------------------------------------------
(* The balances, over any reorganisations.                                 *)

ElementValue(e) == e.UTXO.Value
OutValue(o) == OutputAt(o).Value

ElementSum == INSTANCE FoldTheorems WITH Op <- PersistRound, Value <- ElementValue
OutSum == INSTANCE FoldTheorems WITH Op <- PersistRound, Value <- OutValue

\* An instance has its own name for what a finite set is.
LEMMA SameFinite ==
  \A S : /\ ElementSum!IsFiniteSet(S) <=> IsFiniteSet(S)
        /\ OutSum!IsFiniteSet(S) <=> IsFiniteSet(S)
  BY DEF IsFiniteSet, ElementSum!IsFiniteSet, OutSum!IsFiniteSet

\* Each class has as many elements of A as outputs of B.
Alike(A, B, f, g, C) ==
  \A c \in C : Cardinality({x \in A : f[x] = c}) = Cardinality({y \in B : g[y] = c})

\* Two finite sets sum up to the same if their members fall into classes of
\* one value, and each class has as many members in one set as in the other.
LEMMA SumsAlike ==
  ASSUME NEW S, IsFiniteSet(S), NEW R, IsFiniteSet(R), NEW f, NEW g, NEW C, NEW v,
         \A x \in S : f[x] \in C /\ ElementValue(x) = v[f[x]],
         \A y \in R : g[y] \in C /\ OutValue(y) = v[g[y]],
         \A c \in C : v[c] \in Int,
         Alike(S, R, f, g, C)
  PROVE  ElementSum!Total(S) = OutSum!Total(R)
  <1> DEFINE T == {A \in SUBSET S : \A B \in SUBSET R :
                     Alike(A, B, f, g, C) => ElementSum!Total(A) = OutSum!Total(B)}
  <1>1. \A A \in SUBSET S : IsFiniteSet(A) /\ \A B \in SUBSET R : IsFiniteSet(B)
    BY FS_Subset
  <1>2. {} \in T
    <2>1. ASSUME NEW B \in SUBSET R, Alike({}, B, f, g, C)
          PROVE  ElementSum!Total({}) = OutSum!Total(B)
      <3>1. ASSUME NEW y \in B
            PROVE  FALSE
        <4> DEFINE c == g[y]
        <4>1. c \in C /\ Cardinality({x \in {} : f[x] = c}) = Cardinality({z \in B : g[z] = c})
          BY <2>1 DEF Alike
        <4>2. {x \in {} : f[x] = c} = {} /\ Cardinality({}) = 0
          BY FS_EmptySet
        <4>3. y \in {z \in B : g[z] = c} /\ IsFiniteSet({z \in B : g[z] = c})
          BY <1>1, FS_Subset
        <4> QED
          BY <4>1, <4>2, <4>3, FS_EmptySet
      <3>2. B = {}
        BY <3>1
      <3> QED
        BY <3>2, ElementSum!SumEmpty, OutSum!SumEmpty
    <2> QED
      BY <2>1
  <1>3. ASSUME NEW A \in SUBSET S, A # {}, \A x \in A : A \ {x} \in T
        PROVE  A \in T
    <2> SUFFICES ASSUME NEW B \in SUBSET R, Alike(A, B, f, g, C)
                 PROVE  ElementSum!Total(A) = OutSum!Total(B)
      OBVIOUS
    <2>1. PICK x \in A : TRUE
      BY <1>3
    <2> DEFINE c == f[x]
    <2>2. c \in C /\ Cardinality({z \in A : f[z] = c}) = Cardinality({z \in B : g[z] = c})
      BY <2>1 DEF Alike
    <2>3. \A d : IsFiniteSet({z \in A : f[z] = d}) /\ IsFiniteSet({z \in B : g[z] = d})
      BY <1>1, FS_Subset
    <2>4. PICK y \in B : g[y] = c
      <3>1. x \in {z \in A : f[z] = c}
        BY <2>1
      <3>2. Cardinality({z \in A : f[z] = c}) # 0
        BY <2>3, <3>1, FS_EmptySet
      <3>3. {z \in B : g[z] = c} # {}
        BY <2>2, <3>2, FS_EmptySet
      <3> QED
        BY <3>3
    <2>5. Alike(A \ {x}, B \ {y}, f, g, C)
      <3> SUFFICES ASSUME NEW d \in C
                   PROVE  Cardinality({z \in A \ {x} : f[z] = d})
                            = Cardinality({z \in B \ {y} : g[z] = d})
        BY DEF Alike
      <3> DEFINE P == {z \in A : f[z] = d}
                 Q == {z \in B : g[z] = d}
      <3>1. Cardinality(P) = Cardinality(Q) /\ IsFiniteSet(P) /\ IsFiniteSet(Q)
        BY <2>3 DEF Alike
      <3>2. {z \in A \ {x} : f[z] = d} = P \ {x} /\ {z \in B \ {y} : g[z] = d} = Q \ {y}
        OBVIOUS
      <3>3. x \in P <=> y \in Q
        BY <2>1, <2>4
      <3> HIDE DEF P, Q
      <3>4. /\ Cardinality(P \ {x}) = IF x \in P THEN Cardinality(P) - 1 ELSE Cardinality(P)
            /\ Cardinality(Q \ {y}) = IF y \in Q THEN Cardinality(Q) - 1 ELSE Cardinality(Q)
        BY <3>1, FS_RemoveElement, Zenon
      <3>5. Cardinality(P \ {x}) = Cardinality(Q \ {y})
        BY <3>1, <3>3, <3>4
      <3> QED
        BY <3>2, <3>5
    <2>6. ElementSum!Total(A \ {x}) = OutSum!Total(B \ {y})
      BY <1>3, <2>1, <2>5
    <2>7. ElementSum!Total(A) = ElementValue(x) + ElementSum!Total(A \ {x})
      <3>1. IsFiniteSet(A) /\ x \in A /\ \A z \in A : ElementValue(z) \in Int
        BY <1>1, <2>1
      <3> QED
        BY <3>1, SameFinite, ElementSum!SumRemove
    <2>8. OutSum!Total(B) = OutValue(y) + OutSum!Total(B \ {y})
      <3>1. IsFiniteSet(B) /\ y \in B /\ \A z \in B : OutValue(z) \in Int
        BY <1>1, <2>4
      <3> QED
        BY <3>1, SameFinite, OutSum!SumRemove
    <2>9. ElementValue(x) = OutValue(y)
      BY <2>1, <2>4
    <2> QED
      BY <2>6, <2>7, <2>8, <2>9
  <1>4. S \in T
    <2> HIDE DEF T
    <2> QED
      BY <1>2, <1>3, SameFinite, ElementSum!FiniteInduction
  <1> QED
    BY <1>4

\* The elements that GetReceivedByAddress sums up for p and asset a, and the
\* outputs that they stand for.
ElementsOf(p, a) == {e \in GetUnspents(p) : e.AssetID = a}

OutsOf(p, a) ==
  {o \in UnspentOutPoints : OutputAt(o).ProgramHash = p /\ OutputAt(o).AssetID = a}

\* The element at place <<h, i>> of p and a.
ElementAt(p, a, h, i) ==
  [AssetID |-> a, Place |-> <<h, i>>, UTXO |-> ListAt(utxos, <<p, a, h>>)[i]]

\* They are the elements of the lists of p and a.
LEMMA ElementsPlaced ==
  ASSUME utxos \in UTXOLists, NEW p, NEW a, NEW e
  PROVE  e \in ElementsOf(p, a) <=>
           \E h \in Int : \E i \in 1 .. Len(ListAt(utxos, <<p, a, h>>)) :
             e = ElementAt(p, a, h, i)
  <1>1. PICK K \in SUBSET UTXOKeys : utxos \in [K -> Seq(Elements)]
    BY DEF UTXOLists
  <1>2. ASSUME e \in ElementsOf(p, a)
        PROVE  \E h \in Int : \E i \in 1 .. Len(ListAt(utxos, <<p, a, h>>)) :
                 e = ElementAt(p, a, h, i)
    <2>1. PICK k \in {l \in DOMAIN utxos : l[1] = p} :
            e \in {[AssetID |-> k[2], Place |-> <<k[3], i>>, UTXO |-> utxos[k][i]] :
                     i \in DOMAIN utxos[k]}
      BY <1>2 DEF ElementsOf, GetUnspents
    <2>2. PICK i \in DOMAIN utxos[k] :
            e = [AssetID |-> k[2], Place |-> <<k[3], i>>, UTXO |-> utxos[k][i]]
      BY <2>1
    <2>3. e.AssetID = a /\ e.AssetID = k[2]
      BY <1>2, <2>2 DEF ElementsOf
    <2>4. k \in UTXOKeys /\ k[1] = p /\ k[2] = a /\ k[3] \in Int
      BY <1>1, <2>1, <2>3 DEF UTXOKeys
    <2>5. k = <<p, a, k[3]>>
      BY <2>4 DEF UTXOKeys
    <2>6. ListAt(utxos, k) = utxos[k] /\ utxos[k] \in Seq(Elements)
      BY <1>1, <2>1 DEF ListAt
    <2>7. i \in 1 .. Len(ListAt(utxos, k))
      BY <2>6
    <2>8. e = ElementAt(p, a, k[3], i)
      BY <2>2, <2>4, <2>5, <2>6 DEF ElementAt
    <2> QED
      BY <2>4, <2>5, <2>7, <2>8
  <1>3. ASSUME NEW h \in Int, NEW i \in 1 .. Len(ListAt(utxos, <<p, a, h>>)),
               e = ElementAt(p, a, h, i)
        PROVE  e \in ElementsOf(p, a)
    <2> DEFINE k == <<p, a, h>>
               l == ListAt(utxos, k)
    <2>1. l \in Seq(Elements) /\ i \in 1 .. Len(l)
      BY ListAtType
    <2>2. k \in DOMAIN utxos /\ l = utxos[k]
      BY <2>1 DEF ListAt
    <2>3. i \in DOMAIN utxos[k]
      BY <2>1, <2>2
    <2>4. e = [AssetID |-> k[2], Place |-> <<k[3], i>>, UTXO |-> utxos[k][i]]
      BY <1>3, <2>2 DEF ElementAt
    <2>5. k[1] = p
      OBVIOUS
    <2> HIDE DEF k, l
    <2>6. e \in GetUnspents(p)
      BY <2>2, <2>3, <2>4, <2>5 DEF GetUnspents
    <2>7. e.AssetID = a
      BY <1>3 DEF ElementAt
    <2> QED
      BY <2>6, <2>7 DEF ElementsOf
  <1> QED
    BY <1>2, <1>3

\* There are finitely many of them: a list with an element has an output.
LEMMA ElementsFinite ==
  ASSUME utxos \in UTXOLists, Matches(utxos, UnspentOutPoints, txHeight, Int),
         \A o \in UnspentOutPoints : txHeight[o.TxID] \in Int,
         NEW p \in ProgramHash, NEW a \in AssetID
  PROVE  IsFiniteSet(ElementsOf(p, a)) /\ IsFiniteSet(OutsOf(p, a))
  <1> DEFINE D == UnspentOutPoints
             n(h) == Len(ListAt(utxos, <<p, a, h>>))
             height == [o \in D |-> txHeight[o.TxID]]
             H == {height[o] : o \in D}
             E(h) == {ElementAt(p, a, h, i) : i \in 1 .. n(h)}
             family == [h \in H |-> E(h)]
  <1>1. IsFiniteSet(D)
    BY DEF Matches
  <1>2. IsFiniteSet(OutsOf(p, a))
    BY <1>1, FS_Subset DEF OutsOf
  <1>3. IsFiniteSet(H)
    <2>1. height = [o \in D |-> height[o]]
      OBVIOUS
    <2> HIDE DEF D, height
    <2> QED
      BY <1>1, <2>1, ImageFinite
  <1>4. \A h : n(h) \in Nat
    BY ListAtType
  <1>5. ASSUME NEW h
        PROVE  IsFiniteSet(E(h))
    <2> DEFINE m == n(h)
               S == 1 .. m
               f == [i \in S |-> ElementAt(p, a, h, i)]
    <2>1. IsFiniteSet(S)
      <3>1. m \in Nat
        BY <1>4
      <3> HIDE DEF m
      <3> QED
        BY <3>1, FS_Interval
    <2>2. f = [i \in S |-> f[i]]
      OBVIOUS
    <2>3. E(h) = {f[i] : i \in S}
      OBVIOUS
    <2> HIDE DEF f, S
    <2>4. IsFiniteSet({f[i] : i \in S})
      BY <2>1, <2>2, ImageFinite
    <2> QED
      BY <2>3, <2>4
  <1>6. IsFiniteSet(UNION {family[h] : h \in H})
    <2>1. family = [h \in H |-> family[h]] /\ \A h \in H : IsFiniteSet(family[h])
      BY <1>5
    <2> HIDE DEF family, H
    <2>2. IsFiniteSet({family[h] : h \in H})
      BY <1>3, <2>1, ImageFinite
    <2> QED
      BY <2>1, <2>2, FS_UNION
  <1>7. ASSUME NEW h \in Int, n(h) > 0
        PROVE  h \in H
    <2> DEFINE k == <<p, a, h>>
               l == ListAt(utxos, k)
    <2>1. k \in UTXOKeys /\ k[3] = h
      BY DEF UTXOKeys
    <2>2. l \in Seq(Elements) /\ n(h) = Len(l)
      BY ListAtType
    <2>3. Cardinality(Filed(l, Shapes)) = Cardinality(Due(D, txHeight, k, Shapes))
      <3> HIDE DEF k
      <3> QED
        BY <2>1 DEF Matches, Agree
    <2>4. 1 \in Filed(l, Shapes)
      <3> HIDE DEF l
      <3>1. 1 \in 1 .. Len(l)
        BY <1>7, <2>2
      <3>2. l[1] \in Elements
        BY <2>2, <3>1
      <3>3. <<l[1].Index, l[1].Value>> \in Shapes
        BY <3>2 DEF Elements, Shapes
      <3> QED
        BY <3>1, <3>3 DEF Filed
    <2>5. Due(D, txHeight, k, Shapes) # {}
      <3>1. IsFiniteSet(1 .. Len(l))
        <4> HIDE DEF l
        <4> QED
          BY <2>2, FS_Interval
      <3>2. IsFiniteSet(Filed(l, Shapes))
        BY <3>1, FS_Subset DEF Filed
      <3>3. Cardinality(Filed(l, Shapes)) # 0
        BY <2>4, <3>2, FS_EmptySet
      <3> QED
        BY <2>3, <3>3, FS_EmptySet
    <2>6. PICK o \in D : UTXOKey(o, txHeight[o.TxID]) = k
      BY <2>5 DEF Due
    <2>7. txHeight[o.TxID] = h
      BY <2>6 DEF UTXOKey
    <2> QED
      BY <2>7
  <1>8. ElementsOf(p, a) \subseteq UNION {family[h] : h \in H}
    <2> SUFFICES ASSUME NEW e \in ElementsOf(p, a)
                 PROVE  \E h \in H : e \in family[h]
      OBVIOUS
    <2>1. PICK h \in Int : \E i \in 1 .. n(h) : e = ElementAt(p, a, h, i)
      BY ElementsPlaced
    <2>2. n(h) > 0
      BY <1>4, <2>1
    <2>3. h \in H
      BY <1>7, <2>2
    <2>4. family[h] = E(h)
      <3> HIDE DEF E, H
      <3> QED
        BY <2>3
    <2> QED
      BY <2>1, <2>3, <2>4
  <1>9. IsFiniteSet(ElementsOf(p, a))
    BY <1>6, <1>8, FS_Subset
  <1> QED
    BY <1>2, <1>9

\* The height, the index and the value of an element, and of an output.
ElementShape(p, a) ==
  [e \in ElementsOf(p, a) |-> <<e.Place[1], e.UTXO.Index, e.UTXO.Value>>]

OutShape(p, a) ==
  [o \in OutsOf(p, a) |-> <<txHeight[o.TxID], o.Index, OutputAt(o).Value>>]

PlacedShapes == Int \X (Nat \ {0}) \X Int

\* What an element says of itself.
LEMMA ElementFields ==
  ASSUME utxos \in UTXOLists, NEW p, NEW a, NEW h \in Int,
         NEW i \in 1 .. Len(ListAt(utxos, <<p, a, h>>))
  PROVE  LET e == ElementAt(p, a, h, i)
             l == ListAt(utxos, <<p, a, h>>)
         IN  /\ e \in ElementsOf(p, a)
             /\ l[i].Index \in Nat \ {0} /\ l[i].Value \in Int
             /\ ElementShape(p, a)[e] = <<h, l[i].Index, l[i].Value>>
             /\ ElementValue(e) = l[i].Value
             /\ e.Place = <<h, i>>
  <1> DEFINE e == ElementAt(p, a, h, i)
             l == ListAt(utxos, <<p, a, h>>)
  <1>1. e \in ElementsOf(p, a)
    BY ElementsPlaced
  <1>2. l[i] \in Elements
    <2>1. l \in Seq(Elements) /\ i \in 1 .. Len(l)
      BY ListAtType
    <2> HIDE DEF l
    <2> QED
      BY <2>1
  <1>3. e.Place = <<h, i>> /\ e.UTXO = l[i]
    BY DEF ElementAt
  <1>4. l[i].Index \in Nat \ {0} /\ l[i].Value \in Int
    BY <1>2 DEF Elements
  <1> HIDE DEF e, l
  <1> QED
    BY <1>1, <1>3, <1>4 DEF ElementShape, ElementValue, e, l

\* Shape by shape there are as many elements as outputs.
LEMMA ShapesAlike ==
  ASSUME utxos \in UTXOLists, Matches(utxos, UnspentOutPoints, txHeight, Int),
         NEW p \in ProgramHash, NEW a \in AssetID
  PROVE  Alike(ElementsOf(p, a), OutsOf(p, a), ElementShape(p, a), OutShape(p, a),
               PlacedShapes)
  <1> SUFFICES ASSUME NEW c \in PlacedShapes
               PROVE  Cardinality({e \in ElementsOf(p, a) : ElementShape(p, a)[e] = c})
                        = Cardinality({o \in OutsOf(p, a) : OutShape(p, a)[o] = c})
    BY Zenon DEF Alike
  <1>1. PICK h \in Int, j \in Nat \ {0}, v \in Int : c = <<h, j, v>>
    BY DEF PlacedShapes
  <1> DEFINE k == <<p, a, h>>
             l == ListAt(utxos, k)
             P == {<<j, v>>}
             F == Filed(l, P)
             A == {e \in ElementsOf(p, a) : ElementShape(p, a)[e] = <<h, j, v>>}
             f == [i \in F |-> ElementAt(p, a, h, i)]
  <1>2. Cardinality(F) = Cardinality(Due(UnspentOutPoints, txHeight, k, P))
    <2>1. k \in UTXOKeys /\ k[3] \in Int /\ P \in SUBSET Shapes
      BY DEF UTXOKeys, Shapes
    <2> HIDE DEF k, P
    <2> QED
      BY <2>1 DEF Matches, Agree
  <1>3. Due(UnspentOutPoints, txHeight, k, P)
          = {o \in OutsOf(p, a) : OutShape(p, a)[o] = <<h, j, v>>}
    BY DEF Due, UTXOKey, OutsOf, OutShape
  <1>4. l \in Seq(Elements)
    BY ListAtType
  <1>5. IsFiniteSet(F)
    <2> HIDE DEF l
    <2>1. IsFiniteSet(1 .. Len(l))
      BY <1>4, FS_Interval
    <2> QED
      BY <2>1, FS_Subset DEF Filed
  <1>6. A = {f[i] : i \in F}
    <2>1. ASSUME NEW e \in A
          PROVE  e \in {f[i] : i \in F}
      <3>1. PICK g \in Int : \E i \in 1 .. Len(ListAt(utxos, <<p, a, g>>)) :
              e = ElementAt(p, a, g, i)
        <4>1. e \in ElementsOf(p, a)
          OBVIOUS
        <4> HIDE DEF A, f, F, l, k, P
        <4> QED
          BY <4>1, ElementsPlaced
      <3>2. PICK i \in 1 .. Len(ListAt(utxos, <<p, a, g>>)) : e = ElementAt(p, a, g, i)
        BY <3>1
      <3>3. ElementShape(p, a)[e]
              = <<g, ListAt(utxos, <<p, a, g>>)[i].Index, ListAt(utxos, <<p, a, g>>)[i].Value>>
        BY <3>2, ElementFields
      <3>4. g = h
        BY <3>3
      <3>5. i \in 1 .. Len(l) /\ l[i].Index = j /\ l[i].Value = v
        BY <3>2, <3>3, <3>4
      <3>6. i \in F
        BY <3>5 DEF Filed
      <3>7. e = f[i]
        BY <3>2, <3>4, <3>6
      <3> QED
        BY <3>6, <3>7
    <2>2. ASSUME NEW i \in F
          PROVE  f[i] \in A
      <3>1. i \in 1 .. Len(l) /\ l[i].Index = j /\ l[i].Value = v
        BY DEF Filed
      <3>2. f[i] = ElementAt(p, a, h, i)
        OBVIOUS
      <3>3. ElementAt(p, a, h, i) \in ElementsOf(p, a)
        BY <3>1, ElementFields
      <3>4. ElementShape(p, a)[ElementAt(p, a, h, i)] = <<h, j, v>>
        BY <3>1, ElementFields
      <3> HIDE DEF f
      <3> QED
        BY <3>2, <3>3, <3>4
    <2> QED
      BY <2>1, <2>2
  <1>7. \A x, y \in F : f[x] = f[y] => x = y
    <2> SUFFICES ASSUME NEW x \in F, NEW y \in F, f[x] = f[y]
                 PROVE  x = y
      OBVIOUS
    <2>1. x \in 1 .. Len(l) /\ y \in 1 .. Len(l)
      BY DEF Filed
    <2>2. ElementAt(p, a, h, x) = ElementAt(p, a, h, y)
      OBVIOUS
    <2>3. ElementAt(p, a, h, x).Place = <<h, x>> /\ ElementAt(p, a, h, y).Place = <<h, y>>
      BY DEF ElementAt
    <2> QED
      BY <2>2, <2>3
  <1>8. f = [i \in F |-> f[i]]
    OBVIOUS
  <1>9. Cardinality(A) = Cardinality(F)
    <2> HIDE DEF A, F, f
    <2> QED
      BY <1>5, <1>6, <1>7, <1>8, ImageFinite
  <1> QED
    BY <1>1, <1>2, <1>3, <1>9

\* The sums as the model writes them.
LEMMA SumsAreTotals ==
  ASSUME NEW S, NEW p, NEW a
  PROVE  TotalValue(S) = ElementSum!Total(S) /\ Balance(p, a) = OutSum!Total(OutsOf(p, a))
  <1>1. TotalValue(S) = ElementSum!Total(S)
    BY DEF TotalValue, MapThenSumSet, MapThenFoldSet, ElementValue, ElementSum!Total,
           ElementSum!MapThenSumSet, ElementSum!MapThenFoldSet
  <1>2. Balance(p, a) = OutSum!Total(OutsOf(p, a))
    BY DEF Balance, OutsOf, MapThenSumSet, MapThenFoldSet, OutValue, OutSum!Total,
           OutSum!MapThenSumSet, OutSum!MapThenFoldSet
  <1> QED
    BY <1>1, <1>2

\* The elements of an address and asset add up to its balance.
LEMMA ElementsBalance ==
  ASSUME utxos \in UTXOLists, Matches(utxos, UnspentOutPoints, txHeight, Int),
         \A o \in UnspentOutPoints : txHeight[o.TxID] \in Int,
         NEW p \in ProgramHash, NEW a \in AssetID
  PROVE  /\ TotalValue(ElementsOf(p, a)) = Balance(p, a)
         /\ Balance(p, a) \in Int
         /\ ElementsOf(p, a) = {} => Balance(p, a) = 0
  <1> DEFINE S == ElementsOf(p, a)
             R == OutsOf(p, a)
             f == ElementShape(p, a)
             g == OutShape(p, a)
             v == [c \in PlacedShapes |-> c[3]]
  <1>1. IsFiniteSet(S) /\ IsFiniteSet(R)
    BY ElementsFinite
  <1>2. \A x \in S : f[x] \in PlacedShapes /\ ElementValue(x) = v[f[x]]
    <2> SUFFICES ASSUME NEW x \in S
                 PROVE  f[x] \in PlacedShapes /\ ElementValue(x) = v[f[x]]
      OBVIOUS
    <2>1. PICK h \in Int : \E i \in 1 .. Len(ListAt(utxos, <<p, a, h>>)) :
            x = ElementAt(p, a, h, i)
      BY ElementsPlaced
    <2>2. PICK i \in 1 .. Len(ListAt(utxos, <<p, a, h>>)) : x = ElementAt(p, a, h, i)
      BY <2>1
    <2> DEFINE u == ListAt(utxos, <<p, a, h>>)[i]
    <2>3. u.Index \in Nat \ {0} /\ u.Value \in Int /\ f[x] = <<h, u.Index, u.Value>>
            /\ ElementValue(x) = u.Value
      BY <2>2, ElementFields
    <2> HIDE DEF f, u
    <2> QED
      BY <2>3 DEF PlacedShapes
  <1>3. \A y \in R : g[y] \in PlacedShapes /\ OutValue(y) = v[g[y]]
    <2> SUFFICES ASSUME NEW y \in R
                 PROVE  g[y] \in PlacedShapes /\ OutValue(y) = v[g[y]]
      OBVIOUS
    <2>1. y \in Outs /\ txHeight[y.TxID] \in Int
      BY DEF OutsOf, Matches
    <2>2. y.Index \in Nat \ {0} /\ OutputAt(y).Value \in Int
      BY <2>1, OutType DEF Shapes
    <2>3. g[y] = <<txHeight[y.TxID], y.Index, OutputAt(y).Value>>
      BY DEF OutShape
    <2> HIDE DEF g
    <2> QED
      BY <2>1, <2>2, <2>3 DEF PlacedShapes, OutValue
  <1>4. \A c \in PlacedShapes : v[c] \in Int
    BY DEF PlacedShapes
  <1>5. Alike(S, R, f, g, PlacedShapes)
    BY ShapesAlike
  <1> HIDE DEF S, R, f, g, v
  <1>6. ElementSum!Total(S) = OutSum!Total(R)
    BY <1>1, <1>2, <1>3, <1>4, <1>5, SumsAlike
  <1>7. ElementSum!Total(S) \in Int
    <2>1. \A x \in S : ElementValue(x) \in Int
      BY <1>2, <1>4
    <2> QED
      BY <1>1, <2>1, SameFinite, ElementSum!SumType
  <1> QED
    BY <1>6, <1>7, SumsAreTotals, ElementSum!SumEmpty DEF S, R

\* What is left of a number when its remainder is dropped.
LEMMA DivisionRest ==
  ASSUME NEW n \in Int, NEW d \in Nat \ {0}
  PROVE  /\ ((n \div d) * d) + (n % d) = n
         /\ n % d \in 0 .. d - 1
         /\ (n \div d) * d \in Int
  OBVIOUS

\* GetReceivedByAddress answers with the balance of the ledger, in full for ELA
\* and without the last part of a unit for a token, whatever blocks were
\* persisted and rolled back: a rollback leaves elements with the hash of
\* another transaction in the lists, never another amount
\* (GetReceivedByAddress, GetUnspents, rollbackUnspendUTXOs).
THEOREM ServiceReceivedWithinUnit == ServiceSpec => []ReceivedWithinUnit
  <1>1. UTXOInv => ReceivedWithinUnit
    <2> SUFFICES ASSUME UTXOInv, NEW p \in ProgramHash, NEW a \in AssetID
                 PROVE  /\ a = ElaAssetId => Received(p, a) = Balance(p, a)
                        /\ Received(p, a) \in (Balance(p, a) - AssetUnit[a] + 1) .. Balance(p, a)
      BY DEF ReceivedWithinUnit
    <2> DEFINE B == Balance(p, a)
               d == AssetUnit[a]
               S == ElementsOf(p, a)
    <2>1. \A o \in UnspentOutPoints : txHeight[o.TxID] \in Int
      <3>1. UnspentOutPoints \subseteq Outs /\ txHeight \in [TxID -> Absent .. Height]
        BY DEF UTXOInv, IInv, TypeOK, Matches
      <3>2. \A o \in Outs : o.TxID \in TxID
        BY OutType
      <3> QED
        BY <3>1, <3>2
    <2>2. TotalValue(S) = B /\ B \in Int /\ (S = {} => B = 0)
      BY <2>1, ElementsBalance DEF UTXOInv
    <2>3. d \in Nat \ {0}
      BY AssetUnitAssumption
    <2>4. ((B \div d) * d) + (B % d) = B /\ B % d \in 0 .. d - 1 /\ (B \div d) * d \in Int
      <3> HIDE DEF B, d
      <3> QED
        BY <2>2, <2>3, DivisionRest
    <2>5. {e \in GetUnspents(p) : e.AssetID = a} = S
      BY DEF ElementsOf
    <2>6. DOMAIN GetReceivedByAddress(p) = {ElaAssetId} \cup {e.AssetID : e \in GetUnspents(p)}
      BY DEF GetReceivedByAddress
    <2>7. CASE a = ElaAssetId
      <3>1. Received(p, a) = ((B \div d) * d) + (B % d)
        <4>1. a \in DOMAIN GetReceivedByAddress(p)
          BY <2>6, <2>7
        <4>2. GetReceivedByAddress(p)[a] = [Units |-> B \div d, Rest |-> B % d]
          BY <2>2, <2>5, <2>6, <2>7, <4>1 DEF GetReceivedByAddress, ValueString
        <4> HIDE DEF B, d
        <4> QED
          BY <4>1, <4>2 DEF Received, d
      <3> HIDE DEF B, d
      <3>2. Received(p, a) = B /\ B \in (B - d + 1) .. B
        BY <2>2, <2>3, <2>4, <3>1
      <3> QED
        BY <3>2 DEF B, d
    <2>8. CASE a # ElaAssetId /\ S # {}
      <3>1. Received(p, a) = (B \div d) * d + 0
        <4>1. a \in DOMAIN GetReceivedByAddress(p)
          BY <2>5, <2>6, <2>8
        <4>2. GetReceivedByAddress(p)[a] = [Units |-> B \div d, Rest |-> 0]
          BY <2>2, <2>5, <2>6, <2>8, <4>1 DEF GetReceivedByAddress
        <4> HIDE DEF B, d
        <4> QED
          BY <4>1, <4>2 DEF Received, d
      <3>2. \A x, r \in Int : x + r = B /\ r \in 0 .. d - 1 => x + 0 \in (B - d + 1) .. B
        <4> HIDE DEF B, d
        <4> QED
          BY <2>2, <2>3
      <3> HIDE DEF B, d
      <3>3. Received(p, a) \in (B - d + 1) .. B
        BY <2>2, <2>3, <2>4, <3>1, <3>2
      <3> QED
        BY <2>8, <3>3 DEF B, d
    <2>9. CASE a # ElaAssetId /\ S = {}
      <3>1. Received(p, a) = 0
        BY <2>5, <2>6, <2>9 DEF Received
      <3> HIDE DEF B, d
      <3>2. Received(p, a) \in (B - d + 1) .. B
        BY <2>2, <2>3, <2>9, <3>1
      <3> QED
        BY <2>9, <3>2 DEF B, d
    <2> QED
      BY <2>7, <2>8, <2>9
  <1>2. ServiceSpec => []UTXOInv
    BY ServiceImplementsStore, StoreUTXOInvariant, PTL
  <1> QED
    BY <1>1, <1>2, PTL
=============================================================================
