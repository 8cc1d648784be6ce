------------------------------ MODULE TxFilter ------------------------------
(***************************************************************************)
(* The transaction filter of a light client (src/bloom/txfilter.go), and   *)
(* what the client can rely on.  A client loads a filter of the addresses  *)
(* and outputs that it watches, adds to it, and is sent the transactions   *)
(* that match.  It counts on the filter to watch the outputs that it is    *)
(* told of, so that it also hears of their being spent.                    *)
(*                                                                         *)
(* The calls come from the P2P server of the base library, in the order in *)
(* which the peer sends its messages and the chain its transactions: any.  *)
(***************************************************************************)
EXTENDS Transactions

CONSTANTS
  Element,    \* the addresses and outputs that a client may watch
  Loads       \* the sets of elements that it may load

ASSUME ElementAssumption ==
  Element \subseteq ProgramHash \cup OutPoint /\ Loads \subseteq SUBSET Element

VARIABLES
  isNil,     \* f.filter is nil
  elements,  \* what f.filter matches
  panicked,  \* a call ran into the nil filter
  (* What the client knows. *)
  loaded,    \* a load succeeded
  watched,   \* the elements it has asked for since
  told,      \* the outputs to watched addresses in what it was sent since
  answer     \* the last answer of Match

client == <<loaded, watched, told, answer>>
filterVars == <<isNil, elements, panicked, loaded, watched, told, answer>>

NoAnswer == [tx |-> ElaAssetId, match |-> TRUE]

\* A message decodes or it does not.
Messages == {[ok |-> TRUE, elements |-> S] : S \in Loads} \cup {[ok |-> FALSE, elements |-> {}]}

\* The outputs of t that pay an element of S.
OutPointsTo(S, t) ==
  {[TxID |-> t, Index |-> i] : i \in {j \in OutputIndexes(t) : Txn[t].Outputs[j].ProgramHash \in S}}

-----------------------------------------------------------------------------
Fresh ==
  /\ isNil' = TRUE /\ elements' = {}
  /\ loaded' = FALSE /\ watched' = {} /\ told' = {} /\ answer' = NoAnswer

FilterInit ==
  /\ isNil = TRUE /\ elements = {} /\ panicked = FALSE
  /\ loaded = FALSE /\ watched = {} /\ told = {} /\ answer = NoAnswer

\* The server makes a new txFilter for a peer that asks for a bloom filter.
NewTxFilter == Fresh /\ UNCHANGED panicked

\* Mutant of Load: the message is loaded before its error is looked at.
LoadBeforeError(message) ==
  /\ isNil' = FALSE /\ elements' = message.elements
  /\ IF message.ok
     THEN loaded' = TRUE /\ watched' = message.elements /\ told' = {}
     ELSE UNCHANGED <<loaded, watched, told>>
  /\ UNCHANGED <<panicked, answer>>

\* A message that does not decode leaves the filter alone.
Load(message) ==
  /\ IF message.ok
     THEN /\ isNil' = FALSE /\ elements' = message.elements
          /\ loaded' = TRUE /\ watched' = message.elements /\ told' = {}
     ELSE UNCHANGED <<isNil, elements, loaded, watched, told>>
  /\ UNCHANGED <<panicked, answer>>

\* Without a filter there is an error, and nothing happens.
Add(e) ==
  /\ ~isNil
  /\ elements' = elements \cup {e}
  /\ watched' = watched \cup {e}
  /\ UNCHANGED <<isNil, panicked, loaded, told, answer>>

\* Base library: a transaction that pays an element matches, and the outputs
\* that do so become elements; one that spends an element matches.  A bloom
\* filter may also match by chance.
Hits(t) == OutPointsTo(elements, t) # {} \/ Spends(t) \cap elements # {}

MatchTxAndUpdate(t, match) ==
  /\ Hits(t) => match
  /\ elements' = elements \cup OutPointsTo(elements, t)

\* What the client learns: it is sent t or not.
Tell(t, match) ==
  /\ answer' = [tx |-> t, match |-> match]
  /\ told' = IF match THEN told \cup OutPointsTo(watched, t) ELSE told
  /\ UNCHANGED <<loaded, watched>>

\* Mutant of Match: the filter is asked without being updated.
MatchOnly(t) ==
  /\ \/ /\ IsRegisterAssetTx(t)
        /\ Tell(t, TRUE) /\ UNCHANGED <<elements, panicked>>
     \/ /\ ~IsRegisterAssetTx(t) /\ ~isNil
        /\ \E match \in BOOLEAN : (Hits(t) => match) /\ Tell(t, match)
        /\ UNCHANGED <<elements, panicked>>
     \/ /\ ~IsRegisterAssetTx(t) /\ isNil
        /\ panicked' = TRUE
        /\ UNCHANGED <<elements, client>>
  /\ UNCHANGED isNil

\* A registration always matches, before the filter is asked, and so without
\* an update of it; anything else is up to the filter, which must be there.
Match(t) ==
  /\ \/ /\ IsRegisterAssetTx(t)
        /\ Tell(t, TRUE) /\ UNCHANGED <<elements, panicked>>
     \/ /\ ~IsRegisterAssetTx(t) /\ ~isNil
        /\ \E match \in BOOLEAN : MatchTxAndUpdate(t, match) /\ Tell(t, match)
        /\ UNCHANGED panicked
     \/ /\ ~IsRegisterAssetTx(t) /\ isNil
        /\ panicked' = TRUE
        /\ UNCHANGED <<elements, client>>
  /\ UNCHANGED isNil

\* A panic ends the node.
FilterNext ==
  /\ ~panicked
  /\ \/ NewTxFilter
     \/ \E message \in Messages : Load(message)
     \/ \E e \in Element : Add(e)
     \/ \E t \in TxID : Match(t)

FilterSpec == FilterInit /\ [][FilterNext]_filterVars

-----------------------------------------------------------------------------
(* Properties.                                                             *)

\* The filter holds all that the client asked for since a load succeeded,
\* whatever failed to load later, and every output that it was told of but
\* those of registrations; and only a filter that was never loaded panics.
FilterHolds ==
  /\ loaded => ~isNil /\ watched \subseteq elements
  /\ \A o \in told : loaded /\ ~IsRegisterAssetTx(o.TxID) => o \in elements
  /\ panicked => ~loaded

\* A client is not sent a transaction only if that pays nothing it watches
\* and spends nothing it was told of, except outputs of registrations: those
\* the client is told of and the filter is not.
MissesOnlySpentRegistrations ==
  [][\A t \in TxID :
       loaded /\ answer' = [tx |-> t, match |-> FALSE] /\ answer' # answer =>
         /\ OutPointsTo(watched, t) = {}
         /\ Spends(t) \cap watched = {}
         /\ \A o \in Spends(t) \cap told : IsRegisterAssetTx(o.TxID)]_filterVars
=============================================================================
