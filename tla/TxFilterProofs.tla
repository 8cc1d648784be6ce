--------------------------- MODULE TxFilterProofs ---------------------------
(***************************************************************************)
(* What a light client can rely on, for every set of transactions and      *)
(* whatever it watches.                                                    *)
(***************************************************************************)
EXTENDS TxFilter, TLAPS

(***************************************************************************)
(* FilterHolds is inductive together with this: until a load succeeds      *)
(* there is no filter, so that nothing can be added to one, and the client *)
(* is told of nothing that it watches.                                     *)
(***************************************************************************)
FInv == FilterHolds /\ (~loaded => isNil /\ watched = {} /\ told = {})

\* A larger set of elements is paid by more outputs.
LEMMA OutPointsToMonotone ==
  ASSUME NEW S, NEW R, S \subseteq R, NEW t
  PROVE  OutPointsTo(S, t) \subseteq OutPointsTo(R, t)
  BY DEF OutPointsTo

\* Outputs of a transaction carry its hash.
LEMMA OutPointsToOf ==
  ASSUME NEW S, NEW t, NEW o \in OutPointsTo(S, t)
  PROVE  o.TxID = t
  BY DEF OutPointsTo

\* A transaction that matches tells of outputs that the filter then holds,
\* unless it is a registration.
LEMMA MatchKeepsFInv ==
  ASSUME FInv, NEW t \in TxID, Match(t)
  PROVE  FInv'
  <1>1. CASE IsRegisterAssetTx(t) /\ Tell(t, TRUE) /\ UNCHANGED <<isNil, elements, panicked>>
    <2>1. \A o \in told' : o \in told \/ IsRegisterAssetTx(o.TxID)
      BY <1>1, OutPointsToOf DEF Tell
    <2>2. ~loaded => told' = {}
      BY <1>1 DEF Tell, FInv, OutPointsTo
    <2> QED
      BY <1>1, <2>1, <2>2 DEF FInv, FilterHolds, Tell
  <1>2. ASSUME ~isNil, NEW match \in BOOLEAN, MatchTxAndUpdate(t, match), Tell(t, match),
               UNCHANGED <<isNil, panicked>>
        PROVE  FInv'
    <2>1. told' \subseteq told \cup OutPointsTo(watched, t)
      BY <1>2 DEF Tell
    <2>2. loaded => OutPointsTo(watched, t) \subseteq elements'
      <3>1. loaded => OutPointsTo(watched, t) \subseteq OutPointsTo(elements, t)
        BY OutPointsToMonotone DEF FInv, FilterHolds
      <3> QED
        BY <1>2, <3>1 DEF MatchTxAndUpdate
    <2>3. ~loaded => told' = {}
      BY <2>1 DEF FInv, OutPointsTo
    <2>4. elements \subseteq elements' /\ UNCHANGED <<isNil, panicked, loaded, watched>>
      BY <1>2 DEF MatchTxAndUpdate, Tell
    <2> QED
      BY <2>1, <2>2, <2>3, <2>4 DEF FInv, FilterHolds
  <1>3. CASE isNil /\ panicked' = TRUE /\ UNCHANGED <<isNil, elements, client>>
    BY <1>3 DEF FInv, FilterHolds, client
  <1> QED
    BY <1>1, <1>2, <1>3 DEF Match

\* The invariant holds whatever the peer and the chain do.
THEOREM FilterInvariant == FilterSpec => []FInv
  <1>1. FilterInit => FInv
    BY DEF FilterInit, FInv, FilterHolds
  <1>2. FInv /\ [FilterNext]_filterVars => FInv'
    <2> SUFFICES ASSUME FInv, [FilterNext]_filterVars
        PROVE  FInv'
      OBVIOUS
    <2>1. CASE NewTxFilter /\ ~panicked
      BY <2>1 DEF NewTxFilter, Fresh, FInv, FilterHolds
    <2>2. ASSUME NEW message \in Messages, Load(message), ~panicked
          PROVE  FInv'
      BY <2>2 DEF Load, FInv, FilterHolds
    <2>3. ASSUME NEW e \in Element, Add(e)
          PROVE  FInv'
      BY <2>3 DEF Add, FInv, FilterHolds
    <2>4. ASSUME NEW t \in TxID, Match(t)
          PROVE  FInv'
      BY <2>4, MatchKeepsFInv
    <2>5. CASE UNCHANGED filterVars
      BY <2>5 DEF filterVars, FInv, FilterHolds
    <2> QED
      BY <2>1, <2>2, <2>3, <2>4, <2>5 DEF FilterNext
  <1> QED
    BY <1>1, <1>2, PTL DEF FilterSpec

\* The filter holds what the client relies on (Load, Add, Match).
THEOREM FilterHoldsAlways == FilterSpec => []FilterHolds
  BY FilterInvariant, PTL DEF FInv

\* Only the filter says no, and only to what it has no hit for.
LEMMA NoMeansNoHit ==
  ASSUME [FilterNext]_filterVars, NEW t \in TxID,
         answer' = [tx |-> t, match |-> FALSE], answer' # answer
  PROVE  ~Hits(t)
  <1>1. ASSUME NEW s \in TxID, Match(s)
        PROVE  ~Hits(t)
    <2>1. ~IsRegisterAssetTx(s) /\ ~isNil
      BY <1>1 DEF Match, Tell, client
    <2>2. PICK match \in BOOLEAN : MatchTxAndUpdate(s, match) /\ Tell(s, match)
      BY <1>1, <2>1 DEF Match
    <2>3. s = t /\ match = FALSE
      BY <2>2 DEF Tell
    <2> QED
      BY <2>2, <2>3 DEF MatchTxAndUpdate
  <1>2. ~NewTxFilter
    BY DEF NewTxFilter, Fresh, NoAnswer
  <1>3. ASSUME NEW message \in Messages, Load(message)
        PROVE  FALSE
    BY <1>3 DEF Load
  <1>4. ASSUME NEW e \in Element, Add(e)
        PROVE  FALSE
    BY <1>4 DEF Add
  <1>5. ~UNCHANGED filterVars
    BY DEF filterVars
  <1> QED
    BY <1>1, <1>2, <1>3, <1>4, <1>5 DEF FilterNext

\* What a client misses are spends of registration outputs only (Match).
THEOREM FilterMisses == FilterSpec => MissesOnlySpentRegistrations
  <1> DEFINE Missed(t) ==
        loaded /\ answer' = [tx |-> t, match |-> FALSE] /\ answer' # answer =>
          /\ OutPointsTo(watched, t) = {}
          /\ Spends(t) \cap watched = {}
          /\ \A o \in Spends(t) \cap told : IsRegisterAssetTx(o.TxID)
  <1>1. FInv /\ [FilterNext]_filterVars => [\A t \in TxID : Missed(t)]_filterVars
    <2> SUFFICES ASSUME FInv, [FilterNext]_filterVars, NEW t \in TxID,
                        loaded, answer' = [tx |-> t, match |-> FALSE], answer' # answer
        PROVE  /\ OutPointsTo(watched, t) = {}
               /\ Spends(t) \cap watched = {}
               /\ \A o \in Spends(t) \cap told : IsRegisterAssetTx(o.TxID)
      OBVIOUS
    <2>1. OutPointsTo(elements, t) = {} /\ Spends(t) \cap elements = {}
      BY NoMeansNoHit DEF Hits
    <2>2. watched \subseteq elements
          /\ \A o \in told : ~IsRegisterAssetTx(o.TxID) => o \in elements
      BY DEF FInv, FilterHolds
    <2>3. OutPointsTo(watched, t) = {}
      BY <2>1, <2>2, OutPointsToMonotone
    <2> QED
      BY <2>1, <2>2, <2>3
  <1> QED
    BY <1>1, FilterInvariant, PTL DEF FilterSpec, MissesOnlySpentRegistrations
=============================================================================
